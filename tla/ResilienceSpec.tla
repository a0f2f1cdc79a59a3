---------------------------- MODULE ResilienceSpec ----------------------------
(***************************************************************************)
(* resilience.js under any caller: the gate is asked at any time and       *)
(* verdicts arrive in any order, so a verdict may belong to a call that    *)
(* was admitted long before the breaker opened.  Two history variables     *)
(* record what an observer of the calls would write down.                  *)
(***************************************************************************)
EXTENDS Resilience

VARIABLES
  probes,   \* parity of the calls let through to a provider that is down
  outages   \* outages reported since the last success, up to the threshold

vars == <<breaker, cooling, locked, probes, outages>>

TypeOK ==
  /\ HealthTypeOK
  /\ probes \in [Providers -> 0 .. 1]
  /\ outages \in [Providers -> 0 .. PROVIDER_FAILURE_THRESHOLD]

Init ==
  /\ HealthInit
  /\ probes = [p \in Providers |-> 0]
  /\ outages = [p \in Providers |-> 0]

AskGate(p) ==
  /\ Gate(p)
  /\ probes' = IF breaker[p].status # "CLOSED" /\ isProviderAvailable(p)
               THEN [probes EXCEPT ![p] = 1 - @] ELSE probes
  /\ UNCHANGED outages

Succeed(p, k, m) ==
  /\ recordSuccess(p, k, m)
  /\ outages' = [outages EXCEPT ![p] = 0]
  /\ UNCHANGED probes

Fail(p, k, m, failure) ==
  /\ classifyAndRecord(p, k, m, failure)
  /\ outages' = IF failure \in Outages /\ outages[p] < PROVIDER_FAILURE_THRESHOLD
                THEN [outages EXCEPT ![p] = @ + 1] ELSE outages
  /\ UNCHANGED probes

ReplaceCredential(p) ==
  clearProvider(p) /\ outages' = [outages EXCEPT ![p] = 0] /\ UNCHANGED probes

ResetAll == reset /\ outages' = [p \in Providers |-> 0] /\ UNCHANGED probes

Tick == PassTime /\ UNCHANGED <<probes, outages>>

Next ==
  \/ \E p \in Providers : AskGate(p) \/ ReplaceCredential(p)
  \/ \E p \in Providers, k \in Keys, m \in Models :
       Succeed(p, k, m) \/ \E failure \in Failures : Fail(p, k, m, failure)
  \/ ResetAll
  \/ Tick

Spec == Init /\ [][Next]_vars

(* The clock never stops, and callers keep asking for the provider. *)
FairSpec == Spec /\ WF_vars(Tick) /\ \A p \in Providers : WF_vars(AskGate(p))

-----------------------------------------------------------------------------
(* The breaker is out of CLOSED exactly when the threshold of outages has  *)
(* been reported since the last success: no mix of late verdicts, probes   *)
(* and refusals opens it on less (a caller's malformed requests, a bad key *)
(* or a rate limit never do), or closes it with the threshold standing.    *)
OpenExactlyOnOutages ==
  \A p \in Providers :
    breaker[p].status # "CLOSED" <=> outages[p] = PROVIDER_FAILURE_THRESHOLD

(* The count the code keeps is the number of outages, and a wait is only   *)
(* ever pending on a provider that is down: what makes the above inductive. *)
CountsOutages ==
  \A p \in Providers :
    /\ breaker[p].failures = outages[p]
    /\ breaker[p].status = "CLOSED" => breaker[p].wait = 0

Inv == TypeOK /\ OpenExactlyOnOutages /\ CountsOutages

(* "Exactly one probe is admitted per cooldown window": the gate implements *)
(* ProbeWindow, which lets a call through to a provider that is down only   *)
(* after a full quiet period.                                               *)
Window == INSTANCE ProbeWindow WITH
  Cooldown <- PROVIDER_COOLDOWN,
  down     <- [p \in Providers |-> breaker[p].status # "CLOSED"],
  quiet    <- [p \in Providers |-> breaker[p].wait]

OneProbePerWindow == Window!WindowSpec

(* A provider that stays down is probed again and again, also after a      *)
(* probe that never reports: a breaker left HALF_OPEN by a call that was    *)
(* never made, or whose client hung up, lets the next probe through once    *)
(* PROVIDER_COOLDOWN_MS have passed (the last branch of                     *)
(* isProviderAvailable).  The one excuse is a stream of late outages: each  *)
(* failure of a call that was admitted earlier and reports while the        *)
(* breaker is OPEN starts the cooldown again.  A probe's own failure finds  *)
(* the breaker HALF_OPEN and excuses nothing.                               *)
Probe(p) == AskGate(p) /\ probes'[p] # probes[p]

LateOutage(p) ==
  /\ breaker[p].status = "OPEN"
  /\ \E k \in Keys, m \in Models, failure \in Outages : Fail(p, k, m, failure)

ProbedAgain ==
  \A p \in Providers :
    \/ []<>(breaker[p].status = "CLOSED")
    \/ []<><<Probe(p)>>_vars
    \/ []<><<LateOutage(p)>>_vars
=============================================================================
