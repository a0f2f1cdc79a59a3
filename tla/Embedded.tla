------------------------------- MODULE Embedded ------------------------------
(***************************************************************************)
(* src/src/services/embedded.js: the sidecars that the gateway starts,     *)
(* stops and looks after.  A child is known to have ended when its event   *)
(* arrives, which is later than it ended, and a signal is not obeyed at    *)
(* once, or at all.                                                        *)
(***************************************************************************)
EXTENDS Integers, Sequences

CONSTANTS Services,   \* SERVICE_IDS
          Profiles,   \* CLUSTER_PROFILES, each the sequence of its services
          NoChild, MaxChildren, MaxGateways

ASSUME EmbeddedAssumption ==
  /\ \A p \in Profiles : p \in Seq(Services)
  /\ NoChild \notin Nat
  /\ MaxChildren \in Nat \ {0} /\ MaxGateways \in Nat \ {0}

VARIABLES running,    \* of each service, its entry: the child it names
          children,   \* every child: its service and gateway, whether it lives,
                      \* `exit`, whether it was signalled, and whether some
                      \* signal could not be sent
          gateway     \* which gateway process this is, if it is up, and the
                      \* ones before it that were killed

embeddedVars == <<running, children, gateway>>

EmbeddedInit ==
  /\ running = [id \in Services |-> NoChild]
  /\ children = <<>>
  /\ gateway = [n |-> 1, up |-> TRUE, killed |-> {}]

(* spawn: a child as it is put in the map.                                 *)
child(id, alive) ==
  [id |-> id, of |-> gateway.n, alive |-> alive, exit |-> FALSE, signalled |-> FALSE, unkillable |-> FALSE]

(* One of the services of a profile after the other: the ones that do not  *)
(* run are started.  A binary that is not there is spawned too, and its    *)
(* error comes later.                                                      *)
StartEach(state, id, found) ==
  IF state.running[id] # NoChild /\ ~state.children[state.running[id]].exit THEN state
  ELSE [running |-> [state.running EXCEPT ![id] = Len(state.children) + 1],
        children |-> Append(state.children, child(id, found))]

Started(p, found) ==
  LET after[i \in 0..Len(p)] ==
        IF i = 0 THEN [running |-> running, children |-> children]
        ELSE StartEach(after[i-1], p[i], found[p[i]])
  IN  after[Len(p)]

startProfile(p) ==
  /\ gateway.up /\ Len(children) + Len(p) <= MaxChildren
  /\ \E found \in [Services -> BOOLEAN] :
       running' = Started(p, found).running /\ children' = Started(p, found).children
  /\ UNCHANGED gateway

startService(id) == startProfile(<<id>>)

(* Mutant: an entry is forgotten when its child is signalled.              *)
stopForgets(id) ==
  /\ gateway.up /\ running[id] # NoChild
  /\ running' = [running EXCEPT ![id] = NoChild]
  /\ children' = [children EXCEPT ![running[id]].signalled = TRUE]
  /\ UNCHANGED gateway

(* The entry of a child that ended is dropped, another child is signalled; *)
(* if that is not allowed the child's error event says so.                 *)
stopService(id) ==
  /\ gateway.up /\ running[id] # NoChild
  /\ IF children[running[id]].exit
     THEN running' = [running EXCEPT ![id] = NoChild] /\ UNCHANGED children
     ELSE /\ \/ children' = [children EXCEPT ![running[id]].signalled = TRUE]
             \/ children' = [children EXCEPT ![running[id]].exit = TRUE, ![running[id]].unkillable = TRUE]
          /\ UNCHANGED running
  /\ UNCHANGED gateway

(* A child ends, of itself or because it was told to.                      *)
Ends(k) ==
  /\ children[k].alive
  /\ children' = [children EXCEPT ![k].alive = FALSE]
  /\ UNCHANGED <<running, gateway>>

(* Its "exit" or its "error" event.                                        *)
OnExit(k) ==
  /\ gateway.up /\ children[k].of = gateway.n /\ ~children[k].alive /\ ~children[k].exit
  /\ children' = [children EXCEPT ![k].exit = TRUE]
  /\ UNCHANGED <<running, gateway>>

(* stopAll, when the gateway is told to end: every child that is not known *)
(* to have ended is signalled.                                             *)
Shutdown ==
  /\ gateway.up
  /\ gateway' = [gateway EXCEPT !.up = FALSE]
  /\ children' = [k \in DOMAIN children |->
                    [children[k] EXCEPT !.signalled = @ \/ (running[children[k].id] = k /\ ~children[k].exit)]]
  /\ UNCHANGED running

(* It is killed, and takes nobody with it.                                 *)
Killed ==
  /\ gateway.up
  /\ gateway' = [gateway EXCEPT !.up = FALSE, !.killed = @ \cup {gateway.n}]
  /\ UNCHANGED <<running, children>>

StartGateway ==
  /\ ~gateway.up /\ gateway.n < MaxGateways
  /\ gateway' = [gateway EXCEPT !.up = TRUE, !.n = @ + 1]
  /\ running' = [id \in Services |-> NoChild]
  /\ UNCHANGED children

EmbeddedNext ==
  \/ \E p \in Profiles : startProfile(p)
  \/ \E id \in Services : startService(id) \/ stopService(id)
  \/ \E k \in DOMAIN children : Ends(k) \/ OnExit(k)
  \/ Shutdown \/ Killed \/ StartGateway

EmbeddedSpec == EmbeddedInit /\ [][EmbeddedNext]_embeddedVars

-----------------------------------------------------------------------------
(* No child holds a port unseen: one that lives is the one its service is  *)
(* shown to run, in the gateway that started it, or was told to end, by a  *)
(* gateway that ended in good order; what is left are children that could  *)
(* not be signalled and those of a gateway that was killed.  A service so  *)
(* never has two children of one gateway, though it is stopped and started *)
(* faster than its child ends (embedded.js:21, 117, 193).                  *)
NoHiddenChild ==
  \A k \in DOMAIN children : LET c == children[k] IN
    c.alive /\ ~c.unkillable /\ c.of \notin gateway.killed =>
      \/ gateway.up /\ c.of = gateway.n /\ running[c.id] = k /\ ~c.exit
      \/ (c.of # gateway.n \/ ~gateway.up) /\ c.signalled
==============================================================================
