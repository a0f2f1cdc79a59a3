--------------------------- MODULE ResilienceProofs ---------------------------
(***************************************************************************)
(* For any providers, keys, models, threshold and durations: the breaker   *)
(* agrees with the outages reported, and its gate admits one probe per     *)
(* cooldown window.                                                        *)
(***************************************************************************)
EXTENDS ResilienceSpec, TLAPS

USE ResilienceAssumption, RegistryAssumption

(* A failed call changes at most the three maps of the health state, and    *)
(* each of them as one of the operators of Resilience says.                 *)
LEMMA FailStep ==
  ASSUME NEW p \in Providers, NEW k \in Keys, NEW m \in Models, NEW failure \in Failures,
         TypeOK, Fail(p, k, m, failure)
  PROVE  /\ cooling' \in [Connections -> 0 .. CONNECTION_COOLDOWN + 1]
         /\ locked' \in [Lanes -> 0 .. LongestLockout + 1]
         /\ probes' = probes
         /\ \/ failure \in Outages /\ breaker' = recordProviderFailure(p)
            \/ failure \notin Outages /\ breaker' = breaker
<1> USE DEF TypeOK, HealthTypeOK, Fail, classifyAndRecord, BlameLane
<1>1. <<p, k>> \in Connections /\ <<p, m>> \in Lanes
  BY DEF Connections, Lanes
<1>2. /\ MODEL_LOCKOUT + 1 \in 0 .. LongestLockout + 1
      /\ MODEL_NOT_FOUND_LOCKOUT + 1 \in 0 .. LongestLockout + 1
  BY DEF LongestLockout
<1>3. cooling' \in [Connections -> 0 .. CONNECTION_COOLDOWN + 1]
  BY <1>1 DEF coolDownConnection
<1>4. locked' \in [Lanes -> 0 .. LongestLockout + 1]
  BY <1>1, <1>2 DEF lockOutModel
<1> QED BY <1>3, <1>4 DEF BreakerAfter

LEMMA InitInv == Init => Inv
<1> SUFFICES ASSUME Init PROVE Inv
  OBVIOUS
<1> USE DEF Init, HealthInit, Fresh
<1>1. TypeOK
  <2>1. 0 \in 0 .. LongestLockout + 1
    BY DEF LongestLockout
  <2> QED BY <2>1 DEF TypeOK, HealthTypeOK, Breaker
<1>2. OpenExactlyOnOutages
  BY DEF OpenExactlyOnOutages
<1>3. CountsOutages
  BY DEF CountsOutages
<1> QED BY <1>1, <1>2, <1>3 DEF Inv

(* What an outage does to the breaker it concerns, given the invariant.     *)
LEMMA OutageStep ==
  ASSUME NEW p \in Providers, Inv, breaker' = recordProviderFailure(p)
  PROVE  /\ breaker' \in [Providers -> Breaker]
         /\ \A q \in Providers \ {p} : breaker'[q] = breaker[q]
         /\ breaker'[p].failures =
              IF outages[p] < PROVIDER_FAILURE_THRESHOLD
              THEN outages[p] + 1 ELSE PROVIDER_FAILURE_THRESHOLD
         /\ \/ /\ breaker'[p].failures = PROVIDER_FAILURE_THRESHOLD
               /\ breaker'[p].status = "OPEN"
               /\ breaker'[p].wait = PROVIDER_COOLDOWN + 1
            \/ /\ breaker'[p].failures < PROVIDER_FAILURE_THRESHOLD
               /\ breaker'[p].status = "CLOSED" /\ breaker[p].status = "CLOSED"
               /\ breaker'[p].wait = breaker[p].wait
<1> USE DEF Inv, TypeOK, HealthTypeOK, OpenExactlyOnOutages, CountsOutages, Breaker
<1>1. /\ breaker[p] \in Breaker
      /\ outages[p] \in 0 .. PROVIDER_FAILURE_THRESHOLD
      /\ breaker[p].failures = outages[p]
      /\ breaker[p].status # "CLOSED" <=> outages[p] = PROVIDER_FAILURE_THRESHOLD
  OBVIOUS
<1> QED BY <1>1 DEF recordProviderFailure

LEMMA NextInv == Inv /\ [Next]_vars => Inv'
<1> SUFFICES ASSUME Inv, [Next]_vars PROVE Inv'
  OBVIOUS
<1> USE DEF Inv
<1>t. TypeOK /\ HealthTypeOK
  BY DEF TypeOK
<1>1. ASSUME NEW p \in Providers, AskGate(p) PROVE Inv'
  <2> USE <1>t, <1>1 DEF AskGate, Gate, AfterGate
  <2>1. TypeOK'
    <3>1. breaker' \in [Providers -> Breaker]
      <4>1. breaker[p] \in Breaker
        BY DEF HealthTypeOK
      <4>2. [status |-> "HALF_OPEN", failures |-> breaker[p].failures,
            wait |-> PROVIDER_COOLDOWN + 1] \in Breaker
        BY <4>1 DEF Breaker
      <4> QED BY <4>2 DEF HealthTypeOK
    <3>2. probes' \in [Providers -> 0 .. 1]
      BY DEF TypeOK
    <3> QED BY <3>1, <3>2 DEF TypeOK, HealthTypeOK
  <2>2. OpenExactlyOnOutages' /\ CountsOutages'
    BY DEF OpenExactlyOnOutages, CountsOutages, HealthTypeOK, Breaker
  <2> QED BY <2>1, <2>2
<1>2. ASSUME NEW p \in Providers, ReplaceCredential(p) PROVE Inv'
  <2> USE <1>t, <1>2 DEF ReplaceCredential, clearProvider, AfterSuccess, Fresh
  <2>1. TypeOK'
    <3>1. 0 \in 0 .. LongestLockout + 1
      BY DEF LongestLockout
    <3> QED BY <3>1 DEF TypeOK, HealthTypeOK, Breaker
  <2>2. OpenExactlyOnOutages' /\ CountsOutages'
    BY DEF OpenExactlyOnOutages, CountsOutages, TypeOK, HealthTypeOK, Breaker
  <2> QED BY <2>1, <2>2
<1>3. ASSUME NEW p \in Providers, NEW k \in Keys, NEW m \in Models, Succeed(p, k, m)
      PROVE Inv'
  <2> USE <1>t, <1>3 DEF Succeed, recordSuccess, AfterSuccess, Fresh
  <2>1. TypeOK'
    <3>1. 0 \in 0 .. LongestLockout + 1
      BY DEF LongestLockout
    <3>2. breaker' \in [Providers -> Breaker]
      BY DEF HealthTypeOK, Breaker
    <3>3. cooling' \in [Connections -> 0 .. CONNECTION_COOLDOWN + 1]
      <4>1. 0 \in 0 .. CONNECTION_COOLDOWN + 1
        OBVIOUS
      <4> QED BY <4>1 DEF HealthTypeOK
    <3>5. locked' \in [Lanes -> 0 .. LongestLockout + 1]
      BY <3>1 DEF HealthTypeOK
    <3>4. outages' \in [Providers -> 0 .. PROVIDER_FAILURE_THRESHOLD]
      BY DEF TypeOK
    <3> QED BY <3>2, <3>3, <3>4, <3>5 DEF TypeOK, HealthTypeOK
  <2>2. OpenExactlyOnOutages' /\ CountsOutages'
    BY DEF OpenExactlyOnOutages, CountsOutages, TypeOK, HealthTypeOK, Breaker
  <2> QED BY <2>1, <2>2
<1>4. ASSUME NEW p \in Providers, NEW k \in Keys, NEW m \in Models,
             NEW failure \in Failures, Fail(p, k, m, failure)
      PROVE Inv'
  <2>1. /\ cooling' \in [Connections -> 0 .. CONNECTION_COOLDOWN + 1]
        /\ locked' \in [Lanes -> 0 .. LongestLockout + 1]
        /\ probes' = probes
        /\ \/ failure \in Outages /\ breaker' = recordProviderFailure(p)
           \/ failure \notin Outages /\ breaker' = breaker
    BY <1>t, <1>4, FailStep
  <2>2. CASE failure \notin Outages
    <3>1. breaker' = breaker /\ outages' = outages
      BY <2>1, <2>2, <1>4 DEF Fail
    <3> QED BY <2>1, <3>1 DEF TypeOK, HealthTypeOK, OpenExactlyOnOutages, CountsOutages
  <2>3. CASE failure \in Outages
    <3>1. breaker' = recordProviderFailure(p)
      BY <2>1, <2>3
    <3>2. outages' = [outages EXCEPT ![p] =
                        IF @ < PROVIDER_FAILURE_THRESHOLD THEN @ + 1
                        ELSE PROVIDER_FAILURE_THRESHOLD]
      <4>1. outages \in [Providers -> 0 .. PROVIDER_FAILURE_THRESHOLD]
        BY <1>t DEF TypeOK
      <4>2. outages' = IF outages[p] < PROVIDER_FAILURE_THRESHOLD
                       THEN [outages EXCEPT ![p] = @ + 1] ELSE outages
        BY <1>4, <2>3 DEF Fail
      <4>3. outages[p] < PROVIDER_FAILURE_THRESHOLD \/ outages[p] = PROVIDER_FAILURE_THRESHOLD
        BY <4>1
      <4> QED BY <4>1, <4>2, <4>3
    <3>3. TypeOK'
      BY <1>t, <2>1, <3>1, <3>2, OutageStep DEF TypeOK, HealthTypeOK
    <3>4. OpenExactlyOnOutages'
      BY <1>t, <3>1, <3>2, OutageStep DEF OpenExactlyOnOutages, TypeOK
    <3>5. CountsOutages'
      BY <1>t, <3>1, <3>2, OutageStep DEF CountsOutages, TypeOK
    <3> QED BY <3>3, <3>4, <3>5
  <2> QED BY <2>2, <2>3
<1>5. CASE ResetAll
  <2> USE <1>t, <1>5 DEF ResetAll, reset, Fresh
  <2>1. TypeOK'
    <3>1. 0 \in 0 .. LongestLockout + 1
      BY DEF LongestLockout
    <3> QED BY <3>1 DEF TypeOK, HealthTypeOK, Breaker
  <2>2. OpenExactlyOnOutages' /\ CountsOutages'
    BY DEF OpenExactlyOnOutages, CountsOutages
  <2> QED BY <2>1, <2>2
<1>6. CASE Tick
  <2> USE <1>t, <1>6 DEF Tick, PassTime, Less
  <2>1. TypeOK'
    <3>1. LongestLockout \in Nat
      BY DEF LongestLockout
    <3>2. breaker' \in [Providers -> Breaker]
      <4>1. ASSUME NEW p \in Providers
            PROVE  [breaker[p] EXCEPT !.wait = Less(breaker[p].wait)] \in Breaker
        <5>1. breaker[p] \in Breaker
          BY DEF HealthTypeOK
        <5>2. Less(breaker[p].wait) \in 0 .. PROVIDER_COOLDOWN + 1
          BY <5>1 DEF Breaker
        <5> QED BY <5>1, <5>2 DEF Breaker
      <4> QED BY <4>1
    <3>3. cooling' \in [Connections -> 0 .. CONNECTION_COOLDOWN + 1]
      BY DEF HealthTypeOK
    <3>4. locked' \in [Lanes -> 0 .. LongestLockout + 1]
      BY <3>1 DEF HealthTypeOK
    <3> QED BY <3>2, <3>3, <3>4 DEF TypeOK, HealthTypeOK
  <2>2. OpenExactlyOnOutages' /\ CountsOutages'
    BY DEF OpenExactlyOnOutages, CountsOutages, HealthTypeOK, Breaker
  <2> QED BY <2>1, <2>2
<1>7. CASE UNCHANGED vars
  BY <1>7 DEF vars, TypeOK, HealthTypeOK, OpenExactlyOnOutages, CountsOutages
<1> QED BY <1>1, <1>2, <1>3, <1>4, <1>5, <1>6, <1>7 DEF Next

(* Whatever the order of calls, verdicts and operator actions, the three    *)
(* maps of resilience.js keep their types, and a breaker is out of CLOSED   *)
(* exactly when the threshold of outages stands against its provider.       *)
THEOREM BreakerCorrect == Spec => [](TypeOK /\ OpenExactlyOnOutages)
<1>1. Inv => TypeOK /\ OpenExactlyOnOutages
  BY DEF Inv
<1> QED BY InitInv, NextInv, <1>1, PTL DEF Spec

-----------------------------------------------------------------------------
(* The step of one provider, seen through the refinement mapping.           *)
WindowOf(p) == Window!Probe(p) \/ Window!Fail(p) \/ Window!Recover(p)
                 \/ Window!Wait(p) \/ Window!Same(p)

LEMMA UntouchedProvider ==
  ASSUME NEW p \in Providers, breaker'[p] = breaker[p], probes'[p] = probes[p]
  PROVE  WindowOf(p)
BY DEF WindowOf, Window!Same

LEMMA RecoveredProvider ==
  ASSUME NEW p \in Providers, probes'[p] = probes[p],
         breaker'[p].status = "CLOSED", breaker'[p].wait = 0
  PROVE  WindowOf(p)
<1>1. ~[q \in Providers |-> breaker[q].status # "CLOSED"]'[p]
  BY Zenon
<1>2. [q \in Providers |-> breaker[q].wait]'[p] = 0
  OBVIOUS
<1> QED BY <1>1, <1>2 DEF WindowOf, Window!Recover

LEMMA StepRefines == Inv /\ [Next]_vars => Window!WindowNext
<1> SUFFICES ASSUME Inv, [Next]_vars, NEW q \in Providers PROVE WindowOf(q)
  BY DEF Window!WindowNext, WindowOf
<1> USE DEF Inv
<1>t. /\ breaker \in [Providers -> Breaker]
      /\ probes \in [Providers -> 0 .. 1]
      /\ CountsOutages
  BY DEF TypeOK, HealthTypeOK
<1>1. ASSUME NEW p \in Providers, AskGate(p) PROVE WindowOf(q)
  <2>1. CASE p = q /\ breaker[p].status # "CLOSED" /\ isProviderAvailable(p)
    <3>1. /\ breaker'[q].status = "HALF_OPEN"
          /\ breaker'[q].wait = PROVIDER_COOLDOWN + 1
          /\ probes'[q] = 1 - probes[q]
          /\ breaker[q].wait = 0
      BY <1>t, <1>1, <2>1 DEF AskGate, Gate, AfterGate, isProviderAvailable
    <3> QED BY <2>1, <3>1 DEF WindowOf, Window!Probe
  <2>2. CASE ~(p = q /\ breaker[p].status # "CLOSED" /\ isProviderAvailable(p))
    <3>1. breaker'[q] = breaker[q] /\ probes'[q] = probes[q]
      BY <1>t, <1>1, <2>2 DEF AskGate, Gate, AfterGate
    <3> QED BY <3>1, UntouchedProvider
  <2> QED BY <2>1, <2>2
<1>2. ASSUME NEW p \in Providers, breaker' = AfterSuccess(p), probes' = probes
      PROVE  WindowOf(q)
  <2>1. CASE p = q
    <3>1. breaker'[q] = Fresh
      BY <1>t, <1>2, <2>1 DEF AfterSuccess
    <3>2. breaker'[q].status = "CLOSED" /\ breaker'[q].wait = 0 /\ probes'[q] = probes[q]
      BY <1>2, <3>1 DEF Fresh
    <3> QED BY <3>2, RecoveredProvider
  <2>2. CASE p # q
    <3>1. breaker'[q] = breaker[q]
      BY <1>t, <1>2, <2>2 DEF AfterSuccess
    <3> QED BY <1>2, <3>1, UntouchedProvider
  <2> QED BY <2>1, <2>2
<1>3. ASSUME NEW p \in Providers, NEW k \in Keys, NEW m \in Models,
             NEW failure \in Failures, Fail(p, k, m, failure)
      PROVE  WindowOf(q)
  <2>1. /\ probes' = probes
        /\ breaker' = recordProviderFailure(p) \/ breaker' = breaker
    BY <1>3, FailStep
  <2>2. CASE breaker'[q] = breaker[q]
    BY <2>1, <2>2, UntouchedProvider
  <2>3. CASE breaker'[q] # breaker[q]
    <3>1. breaker' = recordProviderFailure(p)
      BY <2>1, <2>3
    <3>2. p = q
      BY <3>1, <2>3, OutageStep
    <3>3. CASE breaker'[q].status = "OPEN" /\ breaker'[q].wait = PROVIDER_COOLDOWN + 1
      BY <2>1, <3>3 DEF WindowOf, Window!Fail
    <3>4. CASE /\ breaker'[q].status = "CLOSED" /\ breaker[q].status = "CLOSED"
               /\ breaker'[q].wait = breaker[q].wait
      BY <2>1, <3>4 DEF WindowOf, Window!Same
    <3> QED BY <3>1, <3>2, <3>3, <3>4, OutageStep
  <2> QED BY <2>2, <2>3
<1>4. CASE ResetAll
  <2>1. breaker'[q] = Fresh /\ probes' = probes
    BY <1>4 DEF ResetAll, reset
  <2> QED BY <2>1, RecoveredProvider DEF Fresh
<1>5. CASE Tick
  <2>1. /\ breaker'[q].status = breaker[q].status
        /\ breaker'[q].wait = Less(breaker[q].wait)
        /\ probes' = probes
    BY <1>t, <1>5 DEF Tick, PassTime, Breaker
  <2>2. CASE breaker[q].wait = 0
    BY <2>1, <2>2 DEF Less, WindowOf, Window!Same
  <2>3. CASE breaker[q].wait # 0
    <3>1. breaker[q].status # "CLOSED" /\ breaker[q].wait > 0
      BY <1>t, <2>3 DEF CountsOutages, Breaker
    <3> QED BY <2>1, <2>3, <3>1 DEF Less, WindowOf, Window!Wait
  <2> QED BY <2>2, <2>3
<1>6. CASE UNCHANGED vars
  BY <1>6, UntouchedProvider DEF vars
<1>7. ASSUME NEW p \in Providers, ReplaceCredential(p) PROVE WindowOf(q)
  BY <1>2, <1>7 DEF ReplaceCredential, clearProvider
<1>8. ASSUME NEW p \in Providers, NEW k \in Keys, NEW m \in Models, Succeed(p, k, m)
      PROVE  WindowOf(q)
  BY <1>2, <1>8 DEF Succeed, recordSuccess
<1> QED BY <1>1, <1>3, <1>4, <1>5, <1>6, <1>7, <1>8 DEF Next

(* The gate of resilience.js implements ProbeWindow: for any cooldown, a    *)
(* provider that is down is sent one call, then none until a whole cooldown *)
(* has passed, whatever the verdicts of earlier calls and their order.      *)
THEOREM GateKeepsWindow == Spec => OneProbePerWindow
<1>1. Init => Window!WindowInit
  <2> SUFFICES ASSUME Init, NEW p \in Providers
               PROVE  /\ ~[q \in Providers |-> breaker[q].status # "CLOSED"][p]
                      /\ [q \in Providers |-> breaker[q].wait][p] = 0
                      /\ probes[p] = 0
    BY DEF Window!WindowInit
  <2>1. breaker[p].status = "CLOSED" /\ breaker[p].wait = 0 /\ probes[p] = 0
    BY DEF Init, HealthInit, Fresh
  <2>2. ~[q \in Providers |-> breaker[q].status # "CLOSED"][p]
    BY <2>1, Zenon
  <2> QED BY <2>1, <2>2
<1>2. Inv /\ [Next]_vars => [Window!WindowNext]_Window!windowVars
  BY StepRefines
<1> QED BY InitInv, NextInv, <1>1, <1>2, PTL DEF Spec, OneProbePerWindow, Window!WindowSpec
=============================================================================
