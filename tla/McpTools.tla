------------------------------- MODULE McpTools -------------------------------
(***************************************************************************)
(* The MCP server (mcp/server.js) and its tools (mcp/scopes.js) as they are  *)
(* reached over HTTP: who may call which, and what a call changes and shows. *)
(*                                                                           *)
(* A tool is what its entry says of it (mutates, operatorOnly) and, apart    *)
(* from that, what its handler does: the state it writes and the most that   *)
(* its answer shows.  Tools that agree in all of it are one.  A call over    *)
(* POST /mcp is judged as it comes; a call over SSE by the stream it belongs *)
(* to, which was judged when it was opened.                                  *)
(***************************************************************************)
EXTENDS Integers, Functions

CONSTANTS
  Channels,        \* event streams
  Closed,
  MaxRotations     \* bound: new operator keys

VARIABLES
  operatorKey,     \* the operator key in force, by its number
  keyless,         \* may a program on this machine come without a key?
  readOnlyMode,    \* MCP_READ_ONLY
  agentRevoked,         \* was the agent's key agentRevoked?
  channels,        \* of each event stream: who opened it, and readOnly then
  acted            \* the last call: its caller, what it changed and showed

toolVars == <<operatorKey, keyless, readOnlyMode, agentRevoked, channels, acted>>

-----------------------------------------------------------------------------
\* What an answer shows: state of the gateway, what is kept of one caller or
\* of all, the audit trail or its settings.
Tool(flags, changes, shows) ==
  [mutates |-> "mutates" \in flags, operatorOnly |-> "operatorOnly" \in flags,
   changes |-> changes, shows |-> shows, confined |-> shows]

Reads == Tool({}, "nothing", "state")
Writes(what) == Tool({"mutates"}, what, "state")
OperatorReads(what) == Tool({"operatorOnly"}, "nothing", what)

\* The handler that resolves a route turns the cursor of round robin.
Resolves == Tool({}, "cursor", "state")

\* A handler that looks at who asks.
Confined(tool, what) == [tool EXCEPT !.confined = what]

\* A search by vector creates Qdrant's collection, empty, if there is none.
SearchesMemory == Confined(Tool({}, "collection", "allMemory"), "ownMemory")

gatewayTools     == [health |-> Reads, endpoints |-> Reads, version |-> Reads, posture |-> Reads]
providersTools   == [list |-> Reads, get |-> Reads, test |-> Writes("spend"), toggle |-> Writes("settings")]
modelsTools      == [list |-> Reads, resolve |-> Resolves, search |-> Reads]
routingTools     == [strategies |-> Reads, preview |-> Resolves, order_by_strategy |-> Resolves]
combosTools      == [list |-> Reads, get |-> Reads, save |-> Writes("settings"),
                     delete |-> Writes("settings"), set_default |-> Writes("settings")]
completionsTools == [chat |-> Writes("spend"), estimate |-> Reads]
quotaTools       == [snapshot |-> Reads, status |-> Reads, pools |-> Reads, reset |-> Writes("quota")]
budgetsTools     == [list |-> Reads, set |-> Writes("settings"), clear |-> Writes("settings"), spend |-> Reads]
costTools        == [summary |-> Reads, series |-> Reads, ledger |-> Reads, confidence |-> Reads,
                     reload |-> Writes("usage")]
cacheTools       == [stats |-> Reads, clear |-> Writes("cache")]
resilienceTools  == [snapshot |-> Reads, reset |-> Writes("health")]
compressionTools == [config |-> Reads, set |-> Writes("settings"), preview |-> Reads]
memoryTools      == [status |-> Reads, remember |-> Writes("memory"),
                     recall |-> SearchesMemory,
                     forget |-> Writes("memory"), sync_vectors |-> Writes("memory")]
notionTools      == [status |-> Reads, search |-> Reads, read_page |-> Reads]
obsidianTools    == [status |-> Reads, list |-> Reads, read |-> Reads, search |-> Reads]
auditReads       == OperatorReads("audit")
auditTools       == [status |-> auditReads, summary |-> auditReads, events |-> auditReads,
                     verify |-> auditReads, compliance |-> auditReads, vendors |-> auditReads,
                     agents |-> auditReads, review |-> Tool({"mutates", "operatorOnly"}, "audit", "audit")]
guardsTools      == [status |-> Reads, set |-> Writes("settings"), scan |-> Reads, check_messages |-> Reads]
proxyTools       == [status |-> Reads, plan |-> Reads, resolve |-> Reads, set |-> Writes("settings")]
tlsTools         == [profiles |-> Reads, get |-> Reads, set |-> Writes("settings")]
authTools        == [status |-> Reads, generate_key |-> Reads, set_rate_limit |-> Writes("rateLimit")]
servicesTools    == [list |-> Reads, start |-> Writes("services"), stop |-> Writes("services"),
                     logs |-> Reads, health |-> Reads, start_profile |-> Writes("services")]
cloudAgentsTools == [list |-> Reads, create_task |-> Writes("vendor"), get_task |-> Reads,
                     list_tasks |-> Reads, approve_plan |-> Writes("vendor"), cancel_task |-> Writes("vendor")]
gamificationTools == [status |-> Reads, achievements |-> Reads, streak |-> Reads, savings |-> Reads]
a2aTools         == [agent_card |-> Reads, skills |-> Reads]
mcpTools         == [scopes |-> Reads, tools |-> Reads, describe_tool |-> Reads]
settingsTools    == [get |-> Confined(Tool({}, "nothing", "audit"), "state"),
                     patch |-> Tool({"mutates"}, "settings", "audit")]
usageTools       == [recent |-> Reads, by_provider |-> Reads]
pricingTools     == [table |-> Reads, trust |-> Reads, unverified |-> Reads]
contextTools     == [windows |-> Reads, fit |-> Reads]
sessionsTools    == [list |-> Reads, search |-> OperatorReads("allMemory")]
diagnosticsTools == [environment |-> Reads, paths |-> Reads, subsystems |-> Reads]
dialectsTools    == [list |-> Reads, capabilities |-> Reads]

listTools ==
  UNION {Range(scope) : scope \in
    {gatewayTools, providersTools, modelsTools, routingTools, combosTools, completionsTools,
     quotaTools, budgetsTools, costTools, cacheTools, resilienceTools, compressionTools,
     memoryTools, notionTools, obsidianTools, auditTools, guardsTools, proxyTools, tlsTools,
     authTools, servicesTools, cloudAgentsTools, gamificationTools, a2aTools, mcpTools,
     settingsTools, usageTools, pricingTools, contextTools, sessionsTools, diagnosticsTools,
     dialectsTools}}

-----------------------------------------------------------------------------
\* Who calls: with the operator key of some time, with an agent's, with none.
Holds(n) == [operatorKey |-> n]
Agent == [agentKey |-> TRUE]
Keyless == [agentKey |-> FALSE]
Callers == {Holds(n) : n \in 0 .. MaxRotations} \cup {Agent, Keyless}

\* requireGatewayKey: whom the gateway takes a caller for.  An operator key
\* that was replaced is no key.
calledBy(caller) ==
  CASE caller = Agent              -> IF agentRevoked THEN "nobody" ELSE "agent"
    [] caller = Holds(operatorKey) -> "operator"
    [] OTHER                       -> IF keyless THEN "anonymous" ELSE "nobody"

mcpReadOnly(caller) == readOnlyMode \/ calledBy(caller) # "operator"

\* callTool: marked tools are refused, not only hidden.
(* Mutant: they are only hidden from the list. *)
allowedHidden(tool, readOnly) == ~(readOnly /\ tool.operatorOnly)
allowed(tool, readOnly) == ~(readOnly /\ (tool.mutates \/ tool.operatorOnly))

NoAct == [caller |-> Keyless, readOnly |-> TRUE, now |-> TRUE,
          changed |-> "nothing", shown |-> "nothing"]

callTool(caller, tool, readOnly) ==
  acted' = IF allowed(tool, readOnly)
           THEN [caller |-> caller, readOnly |-> readOnly, now |-> mcpReadOnly(caller),
                 changed |-> tool.changes,
                 shown |-> IF readOnly THEN tool.confined ELSE tool.shows]
           ELSE NoAct

-----------------------------------------------------------------------------
ToolsInit ==
  /\ operatorKey = 0 /\ agentRevoked = FALSE
  /\ keyless \in BOOLEAN /\ readOnlyMode \in BOOLEAN
  /\ channels = [c \in Channels |-> Closed]
  /\ acted = NoAct

\* POST /mcp: a server of its own for each request.
PostMcp(caller, tool) ==
  /\ calledBy(caller) # "nobody"
  /\ callTool(caller, tool, mcpReadOnly(caller))
  /\ UNCHANGED <<operatorKey, keyless, readOnlyMode, agentRevoked, channels>>

\* GET /mcp/sse
OpenSse(c, caller) ==
  /\ channels[c] = Closed /\ calledBy(caller) # "nobody"
  /\ channels' = [channels EXCEPT ![c] = [caller |-> caller, readOnly |-> mcpReadOnly(caller)]]
  /\ UNCHANGED <<operatorKey, keyless, readOnlyMode, agentRevoked, acted>>

\* POST /mcp/messages, by the program that opened the stream: without an open
\* stream there is nothing to post to.
PostMessage(c, tool) ==
  /\ channels[c] # Closed /\ calledBy(channels[c].caller) # "nobody"
  /\ callTool(channels[c].caller, tool, channels[c].readOnly)
  /\ UNCHANGED <<operatorKey, keyless, readOnlyMode, agentRevoked, channels>>

CloseSse(c) ==
  /\ channels[c] # Closed
  /\ channels' = [channels EXCEPT ![c] = Closed]
  /\ UNCHANGED <<operatorKey, keyless, readOnlyMode, agentRevoked, acted>>

\* POST /api/panel/gateway-key: the key can be replaced but not removed.
RotateKey ==
  /\ operatorKey < MaxRotations
  /\ operatorKey' = operatorKey + 1
  /\ UNCHANGED <<keyless, readOnlyMode, agentRevoked, channels, acted>>

\* DELETE /api/panel/audit/agents/:id
RevokeKey ==
  /\ ~agentRevoked /\ agentRevoked' = TRUE
  /\ UNCHANGED <<operatorKey, keyless, readOnlyMode, channels, acted>>

\* POST /api/panel/security, modelAuth
SwitchKeyless ==
  /\ keyless' = ~keyless
  /\ UNCHANGED <<operatorKey, readOnlyMode, agentRevoked, channels, acted>>

\* The gateway restarts, perhaps with another MCP_READ_ONLY: no stream survives.
RestartMcp ==
  /\ readOnlyMode' \in BOOLEAN
  /\ channels' = [c \in Channels |-> Closed] /\ acted' = NoAct
  /\ UNCHANGED <<operatorKey, keyless, agentRevoked>>

ToolsNext ==
  \/ \E caller \in Callers, tool \in listTools : PostMcp(caller, tool)
  \/ \E c \in Channels, caller \in Callers : OpenSse(c, caller)
  \/ \E c \in Channels, tool \in listTools : PostMessage(c, tool)
  \/ \E c \in Channels : CloseSse(c)
  \/ RotateKey \/ RevokeKey \/ SwitchKeyless \/ RestartMcp

ToolsSpec == ToolsInit /\ [][ToolsNext]_toolVars

-----------------------------------------------------------------------------
Harmless == {"nothing", "cursor", "collection"}

\* scopes.js, MUTATIONS ARE MARKED: whichever tool is named and over whichever
\* stream, only somebody who held the operator key of the moment when he asked,
\* or opened the stream, changes anything, reads the audit trail or what is kept
\* of another caller; and nobody does while MCP_READ_ONLY is set.  Two changes
\* are not marked in the code, and excused: the tools that resolve a route turn
\* the cursor of round robin, and a recall creates the empty collection.
ReadOnlyIsSo ==
  acted.changed \notin Harmless \/ acted.shown \in {"audit", "allMemory"} =>
    /\ \E n \in 0 .. operatorKey : acted.caller = Holds(n)
    /\ ~readOnlyMode

\* mcp/server.js, 94-97: readOnly "is resolved per request, so a mode that depends on
\* mutable state [...] takes effect the moment that state changes".
TakesEffectAtOnce == acted.changed \notin Harmless => ~acted.now
=============================================================================
