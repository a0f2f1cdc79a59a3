------------------------------- MODULE Agents -------------------------------
(***************************************************************************)
(* src/src/audit/agents.js: the keys of agents and sensors, in a file that *)
(* the gateway and the CLI both read before every use and write whole.     *)
(***************************************************************************)
EXTENDS Naturals, Sequences

CONSTANTS Names, MaxAgents, Corrupt, Idle

ASSUME AgentsAssumption == MaxAgents \in Nat

VARIABLES agentsFile,  \* the agents in order of creation, or Corrupt
          change,      \* of each process, the change it is in the middle of
          issued,      \* every key ever given out, and its kind
          revoked      \* the keys whose revocation was acknowledged

agentsVars == <<agentsFile, change, issued, revoked>>

Writers == {"gateway", "cli"}
Kinds == {"agent", "sensor"}

AgentsInit ==
  /\ agentsFile = <<>> /\ change = [w \in Writers |-> Idle]
  /\ issued = <<>> /\ revoked = {}

read == IF agentsFile = Corrupt THEN <<>> ELSE agentsFile
Active(kind) == \E i \in DOMAIN read : read[i].active /\ read[i].kind = kind

(* A file that cannot be read is not "no agents".                          *)
hasAgentKeys == agentsFile = Corrupt \/ Active("agent")
hasSensorKeys == agentsFile = Corrupt \/ Active("sensor")

(* The agent of a presented key, revoked or not: the first hit, if any.    *)
matchAgentKey(token) ==
  LET hits == {i \in DOMAIN read : read[i].key = token}
  IN {read[i] : i \in {j \in hits : \A h \in hits : j <= h}}

(* createAgent reads, and refuses a name that an active agent has.         *)
createAgent(w) ==
  /\ change[w] = Idle /\ agentsFile # Corrupt /\ Len(issued) < MaxAgents
  /\ \E name \in Names, kind \in Kinds :
       /\ \A i \in DOMAIN read : read[i].active => read[i].name # name
       /\ issued' = Append(issued, kind)
       /\ change' = [change EXCEPT ![w] =
            [next |-> Append(read, [key |-> Len(issued) + 1, name |-> name, kind |-> kind,
                                    active |-> TRUE]),
             ends |-> {}, stale |-> FALSE]]
  /\ UNCHANGED <<agentsFile, revoked>>

revokeAgent(w) ==
  /\ change[w] = Idle /\ agentsFile # Corrupt
  /\ \E i \in DOMAIN read :
       /\ read[i].active
       /\ change' = [change EXCEPT ![w] =
            [next |-> [read EXCEPT ![i].active = FALSE], ends |-> {read[i].key}, stale |-> FALSE]]
  /\ UNCHANGED <<agentsFile, issued, revoked>>

(* write: not over a file that cannot be read.  A change that was read     *)
(* before another was written takes the other back.                        *)
write(w) ==
  LET c == change[w]
      ended == {c.next[i].key : i \in {j \in DOMAIN c.next : ~c.next[j].active}}
  IN /\ c # Idle
     /\ change' = [v \in Writers |->
          IF v = w \/ change[v] = Idle \/ agentsFile = Corrupt
          THEN IF v = w THEN Idle ELSE change[v] ELSE [change[v] EXCEPT !.stale = TRUE]]
     /\ IF agentsFile = Corrupt THEN UNCHANGED <<agentsFile, revoked>>
        ELSE /\ agentsFile' = c.next
             /\ revoked' = IF c.stale THEN ended ELSE revoked \cup c.ends
     /\ UNCHANGED issued

(* The file is edited by hand into what does not parse.                    *)
Garble ==
  /\ agentsFile # Corrupt /\ agentsFile # <<>>
  /\ agentsFile' = Corrupt
  /\ UNCHANGED <<change, issued, revoked>>

AgentsNext ==
  \/ \E w \in Writers : createAgent(w) \/ revokeAgent(w) \/ write(w)
  \/ Garble
=============================================================================
