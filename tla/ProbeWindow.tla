----------------------------- MODULE ProbeWindow -----------------------------
(***************************************************************************)
(* What the gate of src/src/routing/resilience.js promises, without the    *)
(* states of its breaker: while a provider is down, calls are let through  *)
(* to it no more often than once in Cooldown, and an outage reported       *)
(* meanwhile starts the quiet period again.  Providers do not influence    *)
(* one another.                                                            *)
(***************************************************************************)
EXTENDS Integers

CONSTANTS Providers, Cooldown
VARIABLES
  down,     \* the providers known to be down
  quiet,    \* ticks until a call may be let through to a provider that is down
  probes    \* the parity of the calls let through to a provider that is down

windowVars == <<down, quiet, probes>>

WindowInit == \A p \in Providers : ~down[p] /\ quiet[p] = 0 /\ probes[p] = 0

(* A call is let through, which only happens when the quiet period is over. *)
Probe(p) ==
  /\ down[p] /\ quiet[p] = 0
  /\ down'[p] /\ quiet'[p] = Cooldown + 1 /\ probes'[p] = 1 - probes[p]

(* The provider is found down, or found down again. *)
Fail(p) == down'[p] /\ quiet'[p] = Cooldown + 1 /\ probes'[p] = probes[p]

(* A success, or the operator, puts it back in service. *)
Recover(p) == ~down'[p] /\ quiet'[p] = 0 /\ probes'[p] = probes[p]

Wait(p) ==
  /\ down[p] /\ quiet[p] > 0
  /\ down'[p] /\ quiet'[p] = quiet[p] - 1 /\ probes'[p] = probes[p]

Same(p) == down'[p] = down[p] /\ quiet'[p] = quiet[p] /\ probes'[p] = probes[p]

WindowNext ==
  \A p \in Providers : Probe(p) \/ Fail(p) \/ Recover(p) \/ Wait(p) \/ Same(p)

WindowSpec == WindowInit /\ [][WindowNext]_windowVars
=============================================================================
