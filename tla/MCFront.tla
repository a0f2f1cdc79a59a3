------------------------------- MODULE MCFront -------------------------------
(***************************************************************************)
(* What stands between a client and the router, apart from translation: the *)
(* limiter, the quotas, the cache, the settings, the agents and the         *)
(* decisions of Access that read them, the panel's codes, the credentials,  *)
(* the guardrails and memory around an answer, the tools of MCP and the     *)
(* tasks of A2A.  But for Access the parts share no state: a behaviour is   *)
(* of one of them, and what the others may start in is pinned to one value  *)
(* where nobody reads it.                                                   *)
(***************************************************************************)
EXTENDS RateLimit, ResponseCache, Access, Credentials, Serving, Memory, McpTools, A2A,
        Quota, TLC

CONSTANTS s1, s2, p1, p2, p3

VARIABLE part

(* Three clients and room for two.  A token is two units: the bursts are   *)
(* two tokens, one and a half, and half of one, which lets nobody in; a    *)
(* token comes back in one tick or two.                                    *)
MCConfigs ==
  {[enabled |-> TRUE, capacity |-> 4, refill |-> 1],
   [enabled |-> TRUE, capacity |-> 3, refill |-> 2],
   [enabled |-> TRUE, capacity |-> 1, refill |-> 1],
   [enabled |-> FALSE, capacity |-> 4, refill |-> 1]}

(* The order of the layers matters only where compression runs.            *)
MCPolicies == {p \in AllPolicies : p.compress}

(* Two providers of one pool, one of them with a reset at a tick of the    *)
(* day, and one without a free tier.                                       *)
MCTiers ==
  (p1 :> [pool |-> "a", resetsAt |-> 1]) @@ (p2 :> [pool |-> "a", resetsAt |-> Rolling])
    @@ (p3 :> NoTier)

frontVars ==
  <<part, vars, cacheVars, settingsVars, agentsVars, accessVars, credentialVars,
    servingVars, memoryVars, toolVars, a2aVars, quotaVars>>

FrontInit ==
  /\ part \in {"limiter", "cache", "settings", "agents", "codes", "credentials",
              "serving", "memory", "tools", "tasks", "quota"}
  /\ Init
  /\ part # "limiter" => config.enabled /\ config.capacity = 4
  /\ CredentialsInit
  /\ part # "credentials" => current = Unset /\ ~named /\ protectedFile = <<>> /\ projectFile = <<>>
  /\ SettingsInit
  /\ part # "settings" => secret = [gateway |-> s1, cli |-> s1]
  /\ part \notin {"settings", "agents"} => doc # Missing /\ doc.key # NoKey /\ doc.key.under = s1
                                       /\ doc.modelAuth = "local"
  /\ ServingInit
  /\ IF part = "serving"
     THEN policy.redact = policy.block /\ policy.block = policy.memory
     ELSE policy = CHOOSE p \in Policies : TRUE
  /\ MemoryInit
  /\ part # "memory" => backend = "sqlite"
  /\ ToolsInit
  /\ part # "tools" => keyless /\ ~readOnlyMode
  /\ CacheInit /\ AgentsInit /\ AccessInit /\ A2AInit /\ QuotaInit

(* Of the limiter, of the cache, of each file, of the codes, and so on.    *)
FrontNext ==
  \/ /\ part = "limiter" /\ Next
     /\ UNCHANGED <<part, cacheVars, settingsVars, agentsVars, accessVars, credentialVars,
                    servingVars, memoryVars, toolVars, a2aVars, quotaVars>>
  \/ /\ part = "cache" /\ CacheNext
     /\ UNCHANGED <<part, vars, settingsVars, agentsVars, accessVars, credentialVars,
                    servingVars, memoryVars, toolVars, a2aVars, quotaVars>>
  \/ /\ part = "settings" /\ SettingsNext
     /\ UNCHANGED <<part, vars, cacheVars, agentsVars, accessVars, credentialVars,
                    servingVars, memoryVars, toolVars, a2aVars, quotaVars>>
  \/ /\ part = "agents" /\ AgentsNext
     /\ UNCHANGED <<part, vars, cacheVars, settingsVars, accessVars, credentialVars,
                    servingVars, memoryVars, toolVars, a2aVars, quotaVars>>
  \/ /\ part = "codes" /\ AccessNext
     /\ UNCHANGED <<part, vars, cacheVars, settingsVars, agentsVars, credentialVars,
                    servingVars, memoryVars, toolVars, a2aVars, quotaVars>>
  \/ /\ part = "credentials" /\ CredentialsNext
     /\ UNCHANGED <<part, vars, cacheVars, settingsVars, agentsVars, accessVars,
                    servingVars, memoryVars, toolVars, a2aVars, quotaVars>>
  \/ /\ part = "serving" /\ ServingNext
     /\ UNCHANGED <<part, vars, cacheVars, settingsVars, agentsVars, accessVars,
                    credentialVars, memoryVars, toolVars, a2aVars, quotaVars>>
  \/ /\ part = "memory" /\ MemoryNext
     /\ UNCHANGED <<part, vars, cacheVars, settingsVars, agentsVars, accessVars,
                    credentialVars, servingVars, toolVars, a2aVars, quotaVars>>
  \/ /\ part = "tools" /\ ToolsNext
     /\ UNCHANGED <<part, vars, cacheVars, settingsVars, agentsVars, accessVars,
                    credentialVars, servingVars, memoryVars, a2aVars, quotaVars>>
  \/ /\ part = "tasks" /\ A2ANext
     /\ UNCHANGED <<part, vars, cacheVars, settingsVars, agentsVars, accessVars,
                    credentialVars, servingVars, memoryVars, toolVars, quotaVars>>
  \/ /\ part = "quota" /\ QuotaNext
     /\ UNCHANGED <<part, vars, cacheVars, settingsVars, agentsVars, accessVars,
                    credentialVars, servingVars, memoryVars, toolVars, a2aVars>>

(* Nothing tells one user from another, nor one session from another but   *)
(* for the default one, which is no member of Sessions.                    *)
Symmetry == Permutations(Users) \cup Permutations(Sessions)

FrontSpec == FrontInit /\ [][FrontNext]_frontVars

(* Who is let in, by a key or by a link, in the behaviours of what decides *)
(* it.                                                                     *)
LetIn == part \in {"settings", "agents", "codes"} => OnlyTheEntitled /\ CodeOpensOnce
==============================================================================
