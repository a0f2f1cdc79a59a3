------------------------------ MODULE Resilience ------------------------------
(***************************************************************************)
(* The three failure scopes of src/src/routing/resilience.js: the circuit  *)
(* breaker of a provider, the cooldown of one of its connections (API      *)
(* keys), the lockout of one of its models.                                *)
(*                                                                         *)
(* Every function of the file runs to its end without an await, so each is *)
(* one step.  The file keeps timestamps and compares them with Date.now()  *)
(* on access ("recovery is lazy").  Only "has more than D passed since T"  *)
(* is ever asked, so a timestamp is kept here as the number of ticks the   *)
(* answer is still "no": D + 1 when it is taken, one less with every Tick, *)
(* 0 once the period has passed.  A map entry that has expired and one     *)
(* that was deleted answer alike, and both are 0.                          *)
(***************************************************************************)
EXTENDS Registry

CONSTANTS
  PROVIDER_FAILURE_THRESHOLD,
  PROVIDER_COOLDOWN,            \* the four durations, in ticks
  CONNECTION_COOLDOWN,
  MODEL_LOCKOUT,
  MODEL_NOT_FOUND_LOCKOUT

ASSUME ResilienceAssumption ==
  /\ PROVIDER_FAILURE_THRESHOLD \in Nat \ {0}
  /\ PROVIDER_COOLDOWN \in Nat
  /\ CONNECTION_COOLDOWN \in Nat
  /\ MODEL_LOCKOUT \in Nat
  /\ MODEL_NOT_FOUND_LOCKOUT \in Nat

VARIABLES
  breaker,   \* providers:   status, failures, and the wait before the gate opens
  cooling,   \* connections: ticks a key still sits out
  locked     \* models:      ticks a model still sits out

healthVars == <<breaker, cooling, locked>>

(* openedAt is read only while OPEN and probeStartedAt only while          *)
(* HALF_OPEN, so one field, wait, stands for whichever is in use.  The     *)
(* count of failures is compared with the threshold and cleared, nothing   *)
(* else, and so stops there.                                               *)
Breaker == [status   : {"CLOSED", "OPEN", "HALF_OPEN"},
            failures : 0 .. PROVIDER_FAILURE_THRESHOLD,
            wait     : 0 .. PROVIDER_COOLDOWN + 1]

Fresh == [status |-> "CLOSED", failures |-> 0, wait |-> 0]

LongestLockout == IF MODEL_LOCKOUT > MODEL_NOT_FOUND_LOCKOUT
                  THEN MODEL_LOCKOUT ELSE MODEL_NOT_FOUND_LOCKOUT

HealthTypeOK ==
  /\ breaker \in [Providers -> Breaker]
  /\ cooling \in [Connections -> 0 .. CONNECTION_COOLDOWN + 1]
  /\ locked \in [Lanes -> 0 .. LongestLockout + 1]

HealthInit ==
  /\ breaker = [p \in Providers |-> Fresh]
  /\ cooling = [c \in Connections |-> 0]
  /\ locked = [l \in Lanes |-> 0]

-----------------------------------------------------------------------------
(* What the code asks.                                                      *)

(* Mutant: while a probe is out the gate refuses, however long it takes.     *)
AvailableUnlessProbing(p) ==
  breaker[p].status = "CLOSED" \/ (breaker[p].status = "OPEN" /\ breaker[p].wait = 0)

isProviderAvailable(p) == breaker[p].status = "CLOSED" \/ breaker[p].wait = 0

isConnectionAvailable(p, k) == cooling[<<p, k>>] = 0

isModelAvailable(p, m) == locked[<<p, m>>] = 0

(* What the code does to the state: each operator is the new value of one   *)
(* of the three maps.                                                       *)

(* Mutant: the start of the probe is not stamped.                           *)
AfterGateUnstamped(p) ==
  IF breaker[p].status # "CLOSED" /\ isProviderAvailable(p)
  THEN [breaker EXCEPT ![p].status = "HALF_OPEN"]
  ELSE breaker

(* The side effect of isProviderAvailable when it answers yes: a breaker    *)
(* that is not CLOSED turns HALF_OPEN and its wait starts again.            *)
AfterGate(p) ==
  IF breaker[p].status # "CLOSED" /\ isProviderAvailable(p)
  THEN [breaker EXCEPT ![p] =
          [status |-> "HALF_OPEN", failures |-> @.failures, wait |-> PROVIDER_COOLDOWN + 1]]
  ELSE breaker

recordProviderFailure(p) ==
  LET failures == IF breaker[p].failures < PROVIDER_FAILURE_THRESHOLD
                  THEN breaker[p].failures + 1
                  ELSE PROVIDER_FAILURE_THRESHOLD
      opens    == breaker[p].status = "HALF_OPEN"
                    \/ failures >= PROVIDER_FAILURE_THRESHOLD
  IN  [breaker EXCEPT ![p] =
         IF opens
         THEN [status |-> "OPEN", failures |-> failures, wait |-> PROVIDER_COOLDOWN + 1]
         ELSE [@ EXCEPT !.failures = failures]]

AfterSuccess(p) == [breaker EXCEPT ![p] = Fresh]

-----------------------------------------------------------------------------
(* The operations other modules call.                                       *)

(* One call of the gate, whatever it answers. *)
Gate(p) == breaker' = AfterGate(p) /\ UNCHANGED <<cooling, locked>>

recordSuccess(p, k, m) ==
  /\ breaker' = AfterSuccess(p)
  /\ cooling' = [cooling EXCEPT ![<<p, k>>] = 0]
  /\ locked' = [locked EXCEPT ![<<p, m>>] = 0]

(* What a failed call can look like, by the status that classifies it:      *)
(* auth 401/403, rate 429, missing 404, invalid 400/413/422, refused any    *)
(* other 4xx but 408, outage 5xx/408, timeout the gateway's own 504,        *)
(* network an error with no status.                                         *)
Outages  == {"outage", "timeout", "network"}
Failures == Outages \cup {"auth", "rate", "missing", "invalid", "refused"}

coolDownConnection(p, k) == [cooling EXCEPT ![<<p, k>>] = CONNECTION_COOLDOWN + 1]

lockOutModel(p, m, ticks) == [locked EXCEPT ![<<p, m>>] = ticks + 1]

(* Mutant: a rate limit counts against the provider.                        *)
BreakerAfterRate(p, failure) ==
  IF failure \in Outages \cup {"rate"} THEN recordProviderFailure(p) ELSE breaker

BreakerAfter(p, failure) ==
  IF failure \in Outages THEN recordProviderFailure(p) ELSE breaker

(* Who is blamed besides: the key for auth, the model for rate and missing. *)
BlameLane(p, k, m, failure) ==
  /\ cooling' = IF failure = "auth" THEN coolDownConnection(p, k) ELSE cooling
  /\ locked' = CASE failure = "rate"    -> lockOutModel(p, m, MODEL_LOCKOUT)
                 [] failure = "missing" -> lockOutModel(p, m, MODEL_NOT_FOUND_LOCKOUT)
                 [] OTHER               -> locked

classifyAndRecord(p, k, m, failure) ==
  breaker' = BreakerAfter(p, failure) /\ BlameLane(p, k, m, failure)

clearProvider(p) ==
  /\ breaker' = AfterSuccess(p)
  /\ cooling' = [c \in Connections |-> IF c[1] = p THEN 0 ELSE cooling[c]]
  /\ locked' = [l \in Lanes |-> IF l[1] = p THEN 0 ELSE locked[l]]

reset ==
  /\ breaker' = [p \in Providers |-> Fresh]
  /\ cooling' = [c \in Connections |-> 0]
  /\ locked' = [l \in Lanes |-> 0]

(* Date.now() moves on. *)
Less(n) == IF n = 0 THEN 0 ELSE n - 1

PassTime ==
  /\ breaker' = [p \in Providers |-> [breaker[p] EXCEPT !.wait = Less(breaker[p].wait)]]
  /\ cooling' = [c \in Connections |-> Less(cooling[c])]
  /\ locked' = [l \in Lanes |-> Less(locked[l])]
=============================================================================
