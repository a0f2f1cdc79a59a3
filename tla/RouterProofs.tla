------------------------------ MODULE RouterProofs ------------------------------
(***************************************************************************)
(* The routing of chat requests for any number of requests, any lanes, any *)
(* chains of them and any limits: what is held follows the calls, nothing  *)
(* is billed twice, and the walk blames and probes nobody out of turn.     *)
(***************************************************************************)
EXTENDS Router, BudgetLemmas, SequenceTheorems, WellFoundedInduction

USE RegistryAssumption, ResilienceAssumption, RouterAssumption

(* A non-empty set of numbers has a least element.                          *)
LEMMA LeastNumber ==
  ASSUME NEW T, T \subseteq Nat, T # {}
  PROVE  \E n \in T : \A m \in T : n <= m
<1> DEFINE below == OpToRel(<, Nat)
<1>1. IsWellFoundedOn(below, Nat)
  BY NatLessThanWellFounded
<1>2. \E x \in T : \A y \in T : ~ (<<y, x>> \in below)
  <2> HIDE DEF below
  <2> QED BY <1>1, WFMin
<1>3. PICK x \in T : \A y \in T : ~ (<<y, x>> \in below)
  BY <1>2
<1>4. ASSUME NEW y \in T PROVE x <= y
  <2>1. ~ (<<y, x>> \in below)
    BY <1>3
  <2>2. ~ (y < x)
    BY <2>1 DEF OpToRel
  <2> QED BY <2>2
<1> QED BY <1>4

(* What the walk finds: the first candidate that is not skipped, or the end *)
(* of the chain.                                                            *)
LEMMA ReachedFound ==
  ASSUME NEW q \in Seq(Lanes)
  PROVE  /\ Reached(q) \in 1 .. Len(q) + 1
         /\ Reached(q) \in DOMAIN q => ~skipped(q[Reached(q)])
<1> DEFINE stops == {i \in 1 .. Len(q) + 1 : i \in DOMAIN q => ~skipped(q[i])}
           found(i) == /\ i \in DOMAIN q => ~skipped(q[i])
                       /\ \A j \in 1 .. i - 1 : skipped(q[j])
<1>1. Len(q) \in Nat /\ DOMAIN q = 1 .. Len(q)
  OBVIOUS
<1>2. Len(q) + 1 \in stops
  BY <1>1
<1>3. PICK n \in stops : \A m \in stops : n <= m
  <2>1. stops \subseteq Nat
    BY <1>1
  <2> HIDE DEF stops
  <2> QED BY <1>2, <2>1, LeastNumber
<1>4. ASSUME NEW j \in 1 .. n - 1 PROVE skipped(q[j])
  <2>1. j \notin stops /\ j \in 1 .. Len(q) + 1
    BY <1>1, <1>3
  <2> QED BY <2>1
<1>5. \E i \in 1 .. Len(q) + 1 : found(i)
  BY <1>3, <1>4
<1>6. Reached(q) = CHOOSE i \in 1 .. Len(q) + 1 : found(i)
  BY DEF Reached
<1> HIDE DEF found
<1>7. Reached(q) \in 1 .. Len(q) + 1 /\ found(Reached(q))
  BY <1>5, <1>6
<1> QED BY <1>7 DEF found

(* The key picked on a lane that is not skipped is one the provider has.    *)
LEMMA KeyFound ==
  ASSUME NEW lane \in Lanes, ~skipped(lane), connected \in [Providers -> 0 .. KeysPerProvider]
  PROVE  /\ pickConnection(lane[1]) \in Keys
         /\ isProviderAvailable(lane[1]) /\ connected[lane[1]] # 0
<1> DEFINE p == lane[1]
           open == {k \in 1 .. connected[p] : isConnectionAvailable(p, k)}
           found(k) == /\ isConnectionAvailable(p, k)
                       /\ \A j \in 1 .. k - 1 : ~isConnectionAvailable(p, j)
<1>1. p \in Providers /\ connected[p] \in 0 .. KeysPerProvider
  BY DEF Lanes
<1>2. open # {} /\ isProviderAvailable(p) /\ connected[p] # 0
  BY DEF skipped
<1>3. PICK n \in open : \A m \in open : n <= m
  <2>1. open \subseteq Nat
    BY <1>1
  <2> HIDE DEF open
  <2> QED BY <1>2, <2>1, LeastNumber
<1>4. ASSUME NEW j \in 1 .. n - 1 PROVE ~isConnectionAvailable(p, j)
  <2>1. j \notin open /\ j \in 1 .. connected[p]
    BY <1>1, <1>3
  <2> QED BY <2>1
<1>5. \E k \in 1 .. connected[p] : found(k)
  BY <1>3, <1>4
<1>6. pickConnection(p) = CHOOSE k \in 1 .. connected[p] : found(k)
  BY DEF pickConnection
<1> HIDE DEF found
<1>7. pickConnection(p) \in 1 .. connected[p]
  BY <1>5, <1>6
<1> QED BY <1>1, <1>2, <1>7 DEF Keys

-----------------------------------------------------------------------------
(* What the operators of resilience.js make of one provider's breaker.      *)
LEMMA GateStep ==
  ASSUME HealthTypeOK, NEW p \in Providers
  PROVE  /\ AfterGate(p)[p] \in Breaker
         /\ \/ /\ LetThrough(p)
               /\ breaker[p].status # "CLOSED" /\ breaker[p].wait = 0
               /\ AfterGate(p)[p].status # "CLOSED"
               /\ AfterGate(p)[p].wait = PROVIDER_COOLDOWN + 1
            \/ ~LetThrough(p) /\ AfterGate(p)[p] = breaker[p]
<1>1. breaker[p] \in Breaker /\ breaker \in [Providers -> Breaker]
  BY DEF HealthTypeOK
<1>2. CASE LetThrough(p)
  <2> DEFINE probing == [status |-> "HALF_OPEN", failures |-> breaker[p].failures,
                         wait |-> PROVIDER_COOLDOWN + 1]
  <2>1. AfterGate(p)[p] = probing
    BY <1>1, <1>2 DEF AfterGate, LetThrough
  <2>2. probing \in Breaker
    BY <1>1 DEF Breaker
  <2> QED BY <1>2, <2>1, <2>2 DEF LetThrough, isProviderAvailable
<1>3. CASE ~LetThrough(p)
  BY <1>1, <1>3 DEF AfterGate, LetThrough
<1> QED BY <1>2, <1>3

LEMMA FailureStep ==
  ASSUME HealthTypeOK, NEW p \in Providers
  PROVE  /\ recordProviderFailure(p) \in [Providers -> Breaker]
         /\ \A q \in Providers \ {p} : recordProviderFailure(p)[q] = breaker[q]
         /\ \/ /\ recordProviderFailure(p)[p].status # "CLOSED"
               /\ recordProviderFailure(p)[p].wait = PROVIDER_COOLDOWN + 1
            \/ /\ recordProviderFailure(p)[p].status = breaker[p].status
               /\ recordProviderFailure(p)[p].wait = breaker[p].wait
<1>1. breaker[p] \in Breaker /\ breaker \in [Providers -> Breaker]
  BY DEF HealthTypeOK
<1> QED BY <1>1 DEF recordProviderFailure, Breaker

LEMMA BlameStep ==
  ASSUME HealthTypeOK, NEW p, NEW k, NEW m, NEW failure \in Failures,
         BlameLane(p, k, m, failure)
  PROVE  /\ cooling' \in [Connections -> 0 .. CONNECTION_COOLDOWN + 1]
         /\ locked' \in [Lanes -> 0 .. LongestLockout + 1]
<1> USE DEF HealthTypeOK, BlameLane
<1>1. /\ MODEL_LOCKOUT + 1 \in 0 .. LongestLockout + 1
      /\ MODEL_NOT_FOUND_LOCKOUT + 1 \in 0 .. LongestLockout + 1
  BY DEF LongestLockout
<1>2. CONNECTION_COOLDOWN + 1 \in 0 .. CONNECTION_COOLDOWN + 1
  OBVIOUS
<1>3. cooling' \in [Connections -> 0 .. CONNECTION_COOLDOWN + 1]
  BY <1>2 DEF coolDownConnection
<1>4. locked' \in [Lanes -> 0 .. LongestLockout + 1]
  BY <1>1 DEF lockOutModel
<1> QED BY <1>3, <1>4

(* What a success, or a new credential, leaves behind.                      *)
LEMMA RecoveryTypes ==
  ASSUME HealthTypeOK, NEW p \in Providers
  PROVE  /\ AfterSuccess(p) \in [Providers -> Breaker]
         /\ AfterSuccess(p)[p] = Fresh
         /\ \A q \in Providers \ {p} : AfterSuccess(p)[q] = breaker[q]
         /\ 0 \in 0 .. CONNECTION_COOLDOWN + 1 /\ 0 \in 0 .. LongestLockout + 1
<1>1. 0 \in 0 .. LongestLockout + 1
  BY DEF LongestLockout
<1>2. Fresh \in Breaker
  BY DEF Fresh, Breaker
<1> QED BY <1>1, <1>2 DEF HealthTypeOK, AfterSuccess

LEMMA SuccessTypes ==
  ASSUME HealthTypeOK, NEW p \in Providers, NEW k, NEW m, recordSuccess(p, k, m)
  PROVE  HealthTypeOK'
<1>1. breaker' \in [Providers -> Breaker]
  BY RecoveryTypes DEF recordSuccess
<1>2. cooling' \in [Connections -> 0 .. CONNECTION_COOLDOWN + 1]
  BY RecoveryTypes DEF recordSuccess, HealthTypeOK
<1>3. locked' \in [Lanes -> 0 .. LongestLockout + 1]
  BY RecoveryTypes DEF recordSuccess, HealthTypeOK
<1> QED BY <1>1, <1>2, <1>3 DEF HealthTypeOK

LEMMA ClearTypes ==
  ASSUME HealthTypeOK, NEW p \in Providers, clearProvider(p)
  PROVE  HealthTypeOK'
<1>1. breaker' \in [Providers -> Breaker]
  BY RecoveryTypes DEF clearProvider
<1>2. cooling' \in [Connections -> 0 .. CONNECTION_COOLDOWN + 1]
  BY RecoveryTypes DEF clearProvider, HealthTypeOK
<1>3. locked' \in [Lanes -> 0 .. LongestLockout + 1]
  BY RecoveryTypes DEF clearProvider, HealthTypeOK
<1> QED BY <1>1, <1>2, <1>3 DEF HealthTypeOK

LEMMA ResetTypes == reset => HealthTypeOK'
<1>1. 0 \in 0 .. LongestLockout + 1
  BY DEF LongestLockout
<1> QED BY <1>1 DEF reset, HealthTypeOK, Fresh, Breaker

LEMMA TimeStep ==
  ASSUME HealthTypeOK, PassTime
  PROVE  /\ HealthTypeOK'
         /\ \A p \in Providers : /\ breaker'[p].status = breaker[p].status
                                 /\ breaker'[p].wait = Less(breaker[p].wait)
<1> USE DEF HealthTypeOK, PassTime
<1>1. LongestLockout \in Nat
  BY DEF LongestLockout
<1>2. ASSUME NEW p \in Providers
      PROVE  /\ [breaker[p] EXCEPT !.wait = Less(breaker[p].wait)] \in Breaker
             /\ breaker'[p].status = breaker[p].status
             /\ breaker'[p].wait = Less(breaker[p].wait)
  <2>1. breaker[p] \in Breaker
    OBVIOUS
  <2>2. Less(breaker[p].wait) \in 0 .. PROVIDER_COOLDOWN + 1
    BY <2>1 DEF Breaker, Less
  <2> QED BY <2>1, <2>2 DEF Breaker
<1>3. breaker' \in [Providers -> Breaker]
  BY <1>2
<1>4. cooling' \in [Connections -> 0 .. CONNECTION_COOLDOWN + 1]
  BY DEF Less
<1>5. locked' \in [Lanes -> 0 .. LongestLockout + 1]
  BY <1>1 DEF Less
<1> QED BY <1>2, <1>3, <1>4, <1>5

-----------------------------------------------------------------------------
(* The walk, for what request r holds and where it is.                      *)
LEMMA UnbornType == Unborn \in Request
BY DEF Unborn, Request, Ended

LEMMA EndedType ==
  ASSUME NEW pc \in Ended
  PROVE  /\ [Unborn EXCEPT !.pc = pc] \in Request
         /\ [Unborn EXCEPT !.pc = pc].pc = pc
         /\ [Unborn EXCEPT !.pc = pc].gone = FALSE
<1>1. Unborn \in Request
  BY UnbornType
<1>2. Unborn.gone = FALSE
  BY DEF Unborn
<1> QED BY <1>1, <1>2 DEF Request

LEMMA ChainFacts ==
  ASSUME NEW q \in Seq(Lanes), q # <<>>
  PROVE  /\ Head(q) \in Lanes /\ Tail(q) \in Seq(Lanes) /\ Head(q) = q[1]
         /\ Head(q)[1] \in Providers
         /\ Len(q) \in Nat \ {0}
         /\ Len(Tail(q)) = Len(q) - 1
         /\ \A i \in 1 .. Len(q) - 1 : Tail(q)[i] = q[i + 1]
<1>1. Head(q) \in Lanes /\ Tail(q) \in Seq(Lanes)
  OBVIOUS
<1> QED BY <1>1 DEF Lanes

LEMMA TailDistinct ==
  ASSUME NEW q \in Seq(Lanes), q # <<>>, Distinct(q)
  PROVE  /\ Distinct(Tail(q))
         /\ \A i \in DOMAIN Tail(q) : Tail(q)[i][1] # Head(q)[1]
<1>1. DOMAIN q = 1 .. Len(q) /\ DOMAIN Tail(q) = 1 .. Len(q) - 1 /\ Len(q) \in Nat \ {0}
  BY ChainFacts
<1>2. \A i \in DOMAIN Tail(q) : Tail(q)[i] = q[i + 1] /\ i + 1 \in DOMAIN q /\ i + 1 # 1
  BY <1>1, ChainFacts
<1>3. Head(q) = q[1] /\ 1 \in DOMAIN q
  BY <1>1, ChainFacts
<1>4. ASSUME NEW i \in DOMAIN Tail(q), NEW j \in DOMAIN Tail(q),
             Tail(q)[i][1] = Tail(q)[j][1]
      PROVE  i = j
  <2>1. i + 1 = j + 1
    BY <1>2, <1>4 DEF Distinct
  <2> QED BY <1>1, <2>1
<1>5. \A i \in DOMAIN Tail(q) : Tail(q)[i][1] # Head(q)[1]
  BY <1>2, <1>3 DEF Distinct
<1> QED BY <1>4, <1>5 DEF Distinct

LEMMA RestOfChain ==
  ASSUME NEW q \in Seq(Lanes), Distinct(q), NEW n \in DOMAIN q
  PROVE  /\ SubSeq(q, n, Len(q)) \in Seq(Lanes)
         /\ SubSeq(q, n, Len(q)) # <<>>
         /\ Head(SubSeq(q, n, Len(q))) = q[n]
         /\ Distinct(SubSeq(q, n, Len(q)))
<1> DEFINE rest == SubSeq(q, n, Len(q))
<1>1. /\ DOMAIN q = 1 .. Len(q) /\ Len(q) \in Nat /\ n \in 1 .. Len(q)
      /\ \A i \in 1 .. Len(q) : q[i] \in Lanes
  OBVIOUS
<1>2. /\ rest \in Seq(Lanes) /\ Len(rest) = Len(q) - n + 1
      /\ \A i \in 1 .. Len(rest) : rest[i] = q[n + i - 1]
  BY <1>1
<1>3. DOMAIN rest = 1 .. Len(rest) /\ 1 \in DOMAIN rest /\ rest # <<>>
  BY <1>1, <1>2
<1>4. Head(rest) = q[n]
  BY <1>1, <1>2, <1>3
<1>5. ASSUME NEW i \in DOMAIN rest, NEW j \in DOMAIN rest, rest[i][1] = rest[j][1]
      PROVE  i = j
  <2>1. /\ n + i - 1 \in DOMAIN q /\ n + j - 1 \in DOMAIN q
        /\ q[n + i - 1][1] = q[n + j - 1][1]
    <3> HIDE DEF rest
    <3>1. i \in 1 .. Len(q) - n + 1 /\ j \in 1 .. Len(q) - n + 1
      BY <1>2, <1>3
    <3>2. rest[i] = q[n + i - 1] /\ rest[j] = q[n + j - 1]
      BY <1>2, <1>3
    <3>3. n + i - 1 \in 1 .. Len(q) /\ n + j - 1 \in 1 .. Len(q)
      BY <1>1, <3>1
    <3> QED BY <1>1, <1>5, <3>2, <3>3
  <2>2. n + i - 1 = n + j - 1
    BY <2>1 DEF Distinct
  <2> QED BY <1>1, <1>2, <1>3, <2>2
<1> QED BY <1>2, <1>3, <1>4, <1>5 DEF Distinct

LEMMA WalkStep ==
  ASSUME TypeOK, NEW r \in Calls, NEW q \in Seq(Lanes), Distinct(q), NEW now \in Request,
         NEW health \in [Providers -> Breaker], NEW sums \in [Pockets -> Nat],
         \A b \in Pockets : sums[b] = reserved[b] - Share(r, b),
         Walk(r, q, now, health, sums)
  PROVE  /\ reserved' \in [Pockets -> Nat]
         /\ hold' \in [Calls -> Holds \cup {Nothing}]
         /\ req' \in [Calls -> Request]
         /\ \A c \in Calls \ {r} : req'[c] = req[c] /\ hold'[c] = hold[c]
         /\ \A b \in Pockets : reserved'[b] = reserved[b] - Share(r, b) + Share(r, b)'
         /\ \/ /\ req'[r].pc \in {"calling", "opening"}
               /\ req'[r].chain # <<>> /\ Distinct(req'[r].chain)
               /\ hold'[r] # Nothing
               /\ hold'[r].pocket[1] = Head(req'[r].chain)[1]
            \/ /\ req'[r].pc \in {"rejected", "failed"} /\ ~req'[r].gone
               /\ hold'[r] = Nothing
<1> DEFINE n == Reached(q)
<1>t. /\ req \in [Calls -> Request] /\ hold \in [Calls -> Holds \cup {Nothing}]
      /\ reserved \in [Pockets -> Nat]
      /\ connected \in [Providers -> 0 .. KeysPerProvider]
      /\ BudgetTypeOK
  BY DEF TypeOK, BudgetTypeOK
<1>s. \A b \in Pockets : Share(r, b) \in Nat /\ reserved[b] \in Nat
  BY <1>t, HoldType DEF Share, Estimates
<1>1. CASE n \in DOMAIN q
  <2> DEFINE p == q[n][1]
             pc == IF now.stream THEN "opening" ELSE "calling"
             rest == SubSeq(q, n, Len(q))
             next == [now EXCEPT !.pc = pc, !.chain = rest, !.key = pickConnection(p),
                                 !.tries = 0, !.stale = FALSE]
  <2>1. PICK estimate \in Estimates :
          /\ reserved' = AfterReserve(sums, p, estimate)
          /\ hold' = [hold EXCEPT ![r] = [pocket |-> Here(p), amount |-> estimate]]
    BY <1>1 DEF Walk
  <2>2. req' = [req EXCEPT ![r] = next]
    BY <1>1 DEF Walk
  <2>3. q[n] \in Lanes /\ p \in Providers
    BY <1>1 DEF Lanes
  <2>4. pickConnection(p) \in Keys
    BY <1>1, <1>t, <2>3, ReachedFound, KeyFound
  <2>5. /\ rest \in Seq(Lanes) /\ rest # <<>> /\ Head(rest) = q[n] /\ Distinct(rest)
    BY <1>1, RestOfChain
  <2>6. Here(p) \in Pockets /\ Here(p)[1] = p /\ estimate \in Nat
    <3>1. Here(p) \in Pockets
      BY <1>t, <2>3, HereType
    <3> QED BY <3>1 DEF Here, Estimates
  <2>7. next \in Request /\ next.pc = pc /\ next.chain = rest
    <3>1. 0 \in 0 .. MAX_RETRIES_PER_PROVIDER
      OBVIOUS
    <3>2. pc \in {"calling", "opening"}
      OBVIOUS
    <3> HIDE DEF rest, pc
    <3> QED BY <2>4, <2>5, <3>1, <3>2 DEF Request
  <2>8. [pocket |-> Here(p), amount |-> estimate] \in Holds
    BY <2>6 DEF Holds
  <2>9. [pocket |-> Here(p), amount |-> estimate] # Nothing
    BY <2>6 DEF Nothing, Here
  <2>10. hold'[r] = [pocket |-> Here(p), amount |-> estimate] /\ req'[r] = next
    BY <1>t, <2>1, <2>2
  <2>11. ASSUME NEW b \in Pockets
         PROVE  reserved'[b] = reserved[b] - Share(r, b) + Share(r, b)'
    <3>1. Share(r, b)' = IF Here(p) = b THEN estimate ELSE 0
      BY <2>10 DEF Share
    <3>2. reserved'[b] = IF Here(p) = b THEN sums[b] + estimate ELSE sums[b]
      BY <2>1 DEF AfterReserve
    <3>3. sums[b] \in Nat /\ sums[b] = reserved[b] - Share(r, b)
      OBVIOUS
    <3> QED BY <1>s, <2>6, <3>1, <3>2, <3>3
  <2>12. reserved' \in [Pockets -> Nat]
    BY <2>1, <2>6 DEF AfterReserve
  <2>13. hold' \in [Calls -> Holds \cup {Nothing}]
    BY <1>t, <2>1, <2>8
  <2>14. req' \in [Calls -> Request]
    <3> HIDE DEF next
    <3> QED BY <1>t, <2>2, <2>7
  <2>15. \A c \in Calls \ {r} : req'[c] = req[c] /\ hold'[c] = hold[c]
    <3> HIDE DEF next
    <3> QED BY <1>t, <2>1, <2>2
  <2>16. req'[r].pc \in {"calling", "opening"}
    BY <2>7, <2>10
  <2>17. hold'[r] # Nothing /\ hold'[r].pocket[1] = Head(req'[r].chain)[1]
    <3> HIDE DEF next, rest
    <3> QED BY <2>5, <2>6, <2>7, <2>9, <2>10
  <2>18. req'[r].chain # <<>> /\ Distinct(req'[r].chain)
    <3> HIDE DEF next, rest
    <3> QED BY <2>5, <2>7, <2>10
  <2> QED BY <2>11, <2>12, <2>13, <2>14, <2>15, <2>16, <2>17, <2>18
<1>2. CASE n \notin DOMAIN q
  <2> DEFINE pc == IF now.seen = "invalid" THEN "rejected" ELSE "failed"
             next == [Unborn EXCEPT !.pc = pc]
  <2>1. reserved' = sums /\ hold' = [hold EXCEPT ![r] = Nothing]
    BY <1>2 DEF Walk
  <2>2. req' = [req EXCEPT ![r] = next]
    BY <1>2 DEF Walk
  <2>3. next \in Request /\ next.pc = pc /\ ~next.gone
    <3>1. pc \in {"rejected", "failed"}
      OBVIOUS
    <3>2. pc \in Ended
      BY <3>1 DEF Ended
    <3> HIDE DEF pc
    <3> QED BY <3>2, EndedType
  <2>4. hold'[r] = Nothing /\ req'[r] = next
    BY <1>t, <2>1, <2>2
  <2>5. ASSUME NEW b \in Pockets
        PROVE  reserved'[b] = reserved[b] - Share(r, b) + Share(r, b)'
    <3>1. Share(r, b)' = 0
      BY <2>4 DEF Share, Nothing
    <3> QED BY <1>s, <2>1, <3>1
  <2>6. hold' \in [Calls -> Holds \cup {Nothing}]
    BY <1>t, <2>1
  <2>7. req' \in [Calls -> Request]
    <3> HIDE DEF next
    <3> QED BY <1>t, <2>2, <2>3
  <2>8. \A c \in Calls \ {r} : req'[c] = req[c] /\ hold'[c] = hold[c]
    <3> HIDE DEF next
    <3> QED BY <1>t, <2>1, <2>2
  <2>9. req'[r].pc \in {"rejected", "failed"} /\ ~req'[r].gone
    BY <2>3, <2>4
  <2> QED BY <2>1, <2>4, <2>5, <2>6, <2>7, <2>8, <2>9
<1> QED BY <1>1, <1>2

(* The walk, for the health of the providers.                               *)
LEMMA WalkHealth ==
  ASSUME TypeOK, NEW r \in Calls, NEW q \in Seq(Lanes), NEW now \in Request,
         NEW health \in [Providers -> Breaker], NEW sums \in [Pockets -> Nat],
         Walk(r, q, now, health, sums)
  PROVE  /\ breaker' \in [Providers -> Breaker]
         /\ probes' \in [Providers -> 0 .. 1]
         /\ \A p \in Providers :
              \/ /\ p \notin Asked(q)
                 /\ breaker'[p] = health[p] /\ probes'[p] = probes[p]
              \/ /\ \E i \in DOMAIN q : q[i][1] = p
                 /\ breaker'[p] = AfterGate(p)[p]
                 /\ probes'[p] = IF LetThrough(p) THEN 1 - probes[p] ELSE probes[p]
<1>1. /\ breaker' = [p \in Providers |-> IF p \in Asked(q) THEN AfterGate(p)[p] ELSE health[p]]
      /\ probes' = [p \in Providers |->
           IF p \in Asked(q) /\ LetThrough(p) THEN 1 - probes[p] ELSE probes[p]]
  BY DEF Walk
<1>2. HealthTypeOK /\ probes \in [Providers -> 0 .. 1]
  BY DEF TypeOK
<1>3. \A p \in Providers : AfterGate(p)[p] \in Breaker
  BY <1>2, GateStep
<1>4. \A p \in Providers : p \in Asked(q) => \E i \in DOMAIN q : q[i][1] = p
  BY DEF Asked
<1> QED BY <1>1, <1>2, <1>3, <1>4

-----------------------------------------------------------------------------
(* What is booked for a request, by where it is and the lanes it has left.  *)
Served == {"streaming", "answered", "broken"}
Closed == {"answered", "broken"}

Booked(b, pc, chain) ==
  /\ Len(b.success) = IF pc \in Served THEN 1 ELSE 0
  /\ b.charged = IF pc \in Closed THEN b.success ELSE <<>>
  /\ pc = "streaming" => b.success = <<Head(chain)>>

LEMMA NothingBooked ==
  ASSUME NEW b \in Books, NEW pc, NEW chain, pc \notin Served
  PROVE  Booked(b, pc, chain) <=> b = Unbooked
<1>1. b \in Books /\ b.success \in Seq(Lanes) /\ b.charged \in Seq(Lanes)
  BY DEF Books
<1>2. Len(b.success) = 0 <=> b.success = <<>>
  BY <1>1, EmptySeq
<1>3. b = Unbooked <=> b.success = <<>> /\ b.charged = <<>>
  BY <1>1 DEF Books, Unbooked
<1>4. pc # "streaming" /\ pc \notin Closed
  BY DEF Served, Closed
<1> QED BY <1>2, <1>3, <1>4 DEF Booked

LEMMA OneBooked ==
  ASSUME NEW lane \in Lanes
  PROVE  /\ <<lane>> \in Seq(Lanes) /\ Len(<<lane>>) = 1
         /\ Append(<<>>, lane) = <<lane>>
OBVIOUS

(* The invariant, seen from one request.                                    *)
Fits(r) ==
  /\ IF InFlight(r)
     THEN hold[r] # Nothing /\ hold[r].pocket[1] = Lane(r)[1]
     ELSE hold[r] = Nothing
  /\ Booked(books[r], req[r].pc, req[r].chain)
  /\ InFlight(r) => req[r].chain # <<>> /\ Distinct(req[r].chain)
  /\ ~InFlight(r) => ~req[r].gone
  /\ req[r].pc = "backoff" => req[r].tries < MAX_RETRIES_PER_PROVIDER

WaitsWhenDown == \A p \in Providers : breaker[p].status = "CLOSED" => breaker[p].wait = 0

LEMMA InvByRequest ==
  Inv <=> TypeOK /\ ReservedIsHeld /\ (\A r \in Calls : Fits(r)) /\ WaitsWhenDown
BY DEF Inv, EstimatesFollowCalls, HoldFollowsCall, BilledOnce, WalksOn, Fits, WaitsWhenDown,
       Booked, Served, Closed, Lane

LEMMA InvNext ==
  ASSUME TypeOK', ReservedIsHeld', \A r \in Calls : Fits(r)', WaitsWhenDown'
  PROVE  Inv'
BY DEF Inv, EstimatesFollowCalls, HoldFollowsCall, BilledOnce, WalksOn, Fits, WaitsWhenDown,
       Booked, Served, Closed, Lane

LEMMA OthersFit ==
  ASSUME \A c \in Calls : Fits(c), NEW r \in Calls, Fits(r)',
         \A c \in Calls \ {r} : req'[c] = req[c] /\ hold'[c] = hold[c] /\ books'[c] = books[c]
  PROVE  \A c \in Calls : Fits(c)'
<1> SUFFICES ASSUME NEW c \in Calls, c # r PROVE Fits(c)'
  OBVIOUS
<1>1. req'[c] = req[c] /\ hold'[c] = hold[c] /\ books'[c] = books[c] /\ Fits(c)
  OBVIOUS
<1> QED BY <1>1 DEF Fits, InFlight, Lane

(* A walk that one request takes keeps the invariant.                       *)
LEMMA WalkKeeps ==
  ASSUME Inv, NEW r \in Calls, NEW q \in Seq(Lanes), Distinct(q), NEW now \in Request,
         NEW health \in [Providers -> Breaker], NEW sums \in [Pockets -> Nat],
         \A b \in Pockets : sums[b] = reserved[b] - Share(r, b),
         \A p \in Providers : health[p].status = "CLOSED" => health[p].wait = 0,
         Walk(r, q, now, health, sums),
         cooling' \in [Connections -> 0 .. CONNECTION_COOLDOWN + 1],
         locked' \in [Lanes -> 0 .. LongestLockout + 1],
         books' = [books EXCEPT ![r] = Unbooked],
         UNCHANGED <<month, committed, connected>>
  PROVE  Inv'
<1>t. TypeOK /\ ReservedIsHeld /\ (\A c \in Calls : Fits(c)) /\ WaitsWhenDown
  BY InvByRequest
<1>h. HealthTypeOK /\ BudgetTypeOK
  BY <1>t DEF TypeOK
<1>1. /\ reserved' \in [Pockets -> Nat]
      /\ hold' \in [Calls -> Holds \cup {Nothing}]
      /\ req' \in [Calls -> Request]
      /\ \A c \in Calls \ {r} : req'[c] = req[c] /\ hold'[c] = hold[c]
      /\ \A b \in Pockets : reserved'[b] = reserved[b] - Share(r, b) + Share(r, b)'
      /\ \/ /\ req'[r].pc \in {"calling", "opening"}
            /\ req'[r].chain # <<>> /\ Distinct(req'[r].chain)
            /\ hold'[r] # Nothing
            /\ hold'[r].pocket[1] = Head(req'[r].chain)[1]
         \/ /\ req'[r].pc \in {"rejected", "failed"} /\ ~req'[r].gone
            /\ hold'[r] = Nothing
  BY <1>t, WalkStep
<1>2. /\ breaker' \in [Providers -> Breaker]
      /\ probes' \in [Providers -> 0 .. 1]
      /\ \A p \in Providers :
           breaker'[p] = health[p] \/ breaker'[p] = AfterGate(p)[p]
  <2>1. /\ breaker' \in [Providers -> Breaker]
        /\ probes' \in [Providers -> 0 .. 1]
        /\ \A p \in Providers :
              \/ /\ p \notin Asked(q)
                 /\ breaker'[p] = health[p] /\ probes'[p] = probes[p]
              \/ /\ \E i \in DOMAIN q : q[i][1] = p
                 /\ breaker'[p] = AfterGate(p)[p]
                 /\ probes'[p] = IF LetThrough(p) THEN 1 - probes[p] ELSE probes[p]
    BY <1>t, WalkHealth
  <2> QED BY <2>1
<1>3. BudgetTypeOK'
  BY <1>h, <1>1 DEF BudgetTypeOK, Months, Pockets
<1>4. ReservedIsHeld'
  <2>1. \A c \in Calls \ {r} : hold'[c] = hold[c]
    BY <1>1
  <2>2. \A b \in Pockets : reserved'[b] = reserved[b] - Share(r, b) + Share(r, b)'
    BY <1>1
  <2> QED BY <1>t, <1>h, <1>3, <2>1, <2>2, HoldStep
<1>5. books \in [Calls -> Books] /\ books' \in [Calls -> Books] /\ books'[r] = Unbooked
  BY <1>t DEF TypeOK, Books, Unbooked
<1>6. TypeOK'
  BY <1>t, <1>1, <1>2, <1>3, <1>5 DEF TypeOK, HealthTypeOK
<1>7. Fits(r)'
  <2>1. CASE req'[r].pc \in {"rejected", "failed"}
    <3>1. hold'[r] = Nothing /\ ~req'[r].gone
      BY <1>1, <2>1
    <3>2. Booked(books'[r], req'[r].pc, req'[r].chain)
      BY <1>5, <2>1, NothingBooked DEF Served
    <3> QED BY <2>1, <3>1, <3>2 DEF Fits, InFlight, Lane, Ended
  <2>2. CASE req'[r].pc \in {"calling", "opening"}
    <3>1. /\ req'[r].chain # <<>> /\ Distinct(req'[r].chain)
          /\ hold'[r] # Nothing
          /\ hold'[r].pocket[1] = Head(req'[r].chain)[1]
      BY <1>1, <2>2
    <3>2. Booked(books'[r], req'[r].pc, req'[r].chain)
      BY <1>5, <2>2, NothingBooked DEF Served
    <3> QED BY <2>2, <3>1, <3>2 DEF Fits, InFlight, Lane, Ended
  <2> QED BY <1>1, <2>1, <2>2
<1>8. \A c \in Calls : Fits(c)'
  <2>1. \A c \in Calls \ {r} : books'[c] = books[c]
    BY <1>5
  <2> QED BY <1>t, <1>1, <1>7, <2>1, OthersFit
<1>9. WaitsWhenDown'
  <2> SUFFICES ASSUME NEW p \in Providers, breaker'[p].status = "CLOSED"
               PROVE  breaker'[p].wait = 0
    BY DEF WaitsWhenDown
  <2>1. CASE breaker'[p] = health[p]
    BY <2>1
  <2>2. CASE breaker'[p] = AfterGate(p)[p]
    BY <1>t, <1>h, <2>2, GateStep DEF WaitsWhenDown
  <2> QED BY <1>2, <2>1, <2>2
<1> QED BY <1>4, <1>6, <1>8, <1>9, InvNext

(* A request that ends gives back what it held.                             *)
LEMMA EndKeeps ==
  ASSUME Inv, NEW r \in Calls, NEW end \in Ended, InFlight(r), release(r),
         req' = [req EXCEPT ![r] = [Unborn EXCEPT !.pc = end]],
         books' \in [Calls -> Books], \A c \in Calls \ {r} : books'[c] = books[c],
         Booked(books'[r], end, Unborn.chain),
         committed' \in [Pockets -> Nat], HealthTypeOK', WaitsWhenDown',
         UNCHANGED <<month, connected, probes>>
  PROVE  Inv'
<1>t. TypeOK /\ ReservedIsHeld /\ (\A c \in Calls : Fits(c))
  BY InvByRequest
<1>h. BudgetTypeOK
  BY <1>t DEF TypeOK
<1>1. reserved' \in [Pockets -> Nat] /\ hold' \in [Calls -> Holds \cup {Nothing}]
  BY <1>h, ReleaseTyped
<1>2. BudgetTypeOK'
  BY <1>h, <1>1 DEF BudgetTypeOK, Months, Pockets
<1>3. ReservedIsHeld'
  BY <1>t, <1>h, <1>2, ReleaseStep
<1> DEFINE ended == [Unborn EXCEPT !.pc = end]
<1>4. ended \in Request /\ ended.pc = end /\ ended.gone = FALSE /\ ended.chain = Unborn.chain
  BY EndedType DEF Unborn
<1> HIDE DEF ended
<1>5. /\ req \in [Calls -> Request] /\ hold \in [Calls -> Holds \cup {Nothing}]
  BY <1>t DEF TypeOK, BudgetTypeOK
<1>6. req' = [req EXCEPT ![r] = ended]
  BY DEF ended
<1>7. /\ req' \in [Calls -> Request] /\ req'[r] = ended
      /\ hold'[r] = Nothing
  BY <1>4, <1>5, <1>6 DEF release
<1>8. TypeOK'
  BY <1>t, <1>2, <1>7 DEF TypeOK
<1>9. Fits(r)'
  <2>1. req'[r].pc = end /\ ~InFlight(r)' /\ ~req'[r].gone
    BY <1>4, <1>7 DEF InFlight
  <2>2. end # "backoff"
    BY DEF Ended
  <2>3. Booked(books'[r], req'[r].pc, req'[r].chain)
    BY <1>4, <1>7
  <2> QED BY <1>7, <2>1, <2>2, <2>3 DEF Fits
<1>10. \A c \in Calls \ {r} : req'[c] = req[c] /\ hold'[c] = hold[c] /\ books'[c] = books[c]
  BY <1>5, <1>6 DEF release
<1>11. \A c \in Calls : Fits(c)'
  BY <1>t, <1>9, <1>10, OthersFit
<1> QED BY <1>3, <1>8, <1>11, InvNext

(* A step that keeps every request where it is, or moves it on within its   *)
(* lane.                                                                    *)
Moved(c) ==
  \/ req'[c] = req[c] /\ books'[c] = books[c]
  \/ /\ InFlight(c) /\ InFlight(c)'
     /\ req'[c].chain = req[c].chain
     /\ req'[c].pc = "backoff" => req'[c].tries < MAX_RETRIES_PER_PROVIDER
     /\ Booked(books'[c], req'[c].pc, req'[c].chain)

(* Of two states before the answer, or twice in one, nothing new is booked. *)
LEMMA StillBooked ==
  ASSUME NEW b \in Books, NEW old, NEW new, NEW chain,
         Booked(b, old, chain), new = old \/ (old \notin Served /\ new \notin Served)
  PROVE  Booked(b, new, chain)
<1>1. CASE old \notin Served /\ new \notin Served
  BY <1>1, NothingBooked
<1> QED BY <1>1

LEMMA StayKeeps ==
  ASSUME Inv, HealthTypeOK', WaitsWhenDown',
         connected' \in [Providers -> 0 .. KeysPerProvider],
         req' \in [Calls -> Request],
         \A c \in Calls : Moved(c),
         books' \in [Calls -> Books],
         UNCHANGED <<committed, reserved, hold, probes>>,
         month' \in Months
  PROVE  Inv'
<1>t. TypeOK /\ ReservedIsHeld /\ (\A c \in Calls : Fits(c))
  BY InvByRequest
<1>1. TypeOK'
  BY <1>t DEF TypeOK, BudgetTypeOK, Months, Pockets
<1>2. ReservedIsHeld'
  BY <1>t DEF ReservedIsHeld, HeldUnits, Pockets, Months
<1>3. ASSUME NEW c \in Calls PROVE Fits(c)'
  <2>1. Fits(c)
    BY <1>t
  <2>2. CASE req'[c] = req[c] /\ books'[c] = books[c]
    BY <2>1, <2>2 DEF Fits, InFlight, Lane
  <2>3. CASE /\ InFlight(c) /\ InFlight(c)'
             /\ req'[c].chain = req[c].chain
             /\ req'[c].pc = "backoff" => req'[c].tries < MAX_RETRIES_PER_PROVIDER
             /\ Booked(books'[c], req'[c].pc, req'[c].chain)
    <3>1. Lane(c)' = Lane(c)
      BY <2>3 DEF Lane
    <3> QED BY <2>1, <2>3, <3>1 DEF Fits
  <2> QED BY <2>2, <2>3 DEF Moved
<1> QED BY <1>1, <1>2, <1>3, InvNext

-----------------------------------------------------------------------------
LEMMA InitInv == Init => Inv
<1> SUFFICES ASSUME Init PROVE Inv
  OBVIOUS
<1> USE DEF Init, HealthInit, BudgetInit
<1>1. HealthTypeOK
  <2>1. 0 \in 0 .. LongestLockout + 1
    BY DEF LongestLockout
  <2> QED BY <2>1 DEF HealthTypeOK, Breaker, Fresh
<1>2. BudgetTypeOK
  BY BudgetAssumption DEF BudgetTypeOK, Months
<1>3. TypeOK
  <2>1. Unbooked \in Books
    BY DEF Unbooked, Books
  <2> QED BY <1>1, <1>2, <2>1, UnbornType DEF TypeOK
<1>4. ReservedIsHeld
  <2>1. ASSUME NEW b \in Pockets PROVE Cardinality(HeldUnits(b)) = 0
    <3>1. HeldUnits(b) = {}
      BY DEF HeldUnits, Nothing, Pockets
    <3> QED BY <3>1, FS_EmptySet
  <2> QED BY <2>1 DEF ReservedIsHeld
<1>5. ASSUME NEW r \in Calls PROVE Fits(r)
  <2>1. req[r] = Unborn /\ Unborn.pc = "idle" /\ Unborn.gone = FALSE
    BY DEF Unborn
  <2>2. hold[r] = Nothing /\ books[r] = Unbooked
    OBVIOUS
  <2>3. Booked(books[r], "idle", req[r].chain)
    BY <2>2 DEF Booked, Unbooked, Served, Closed
  <2> QED BY <2>1, <2>2, <2>3 DEF Fits, InFlight, Ended
<1>6. WaitsWhenDown
  BY DEF WaitsWhenDown, Fresh
<1> QED BY <1>3, <1>4, <1>5, <1>6, InvByRequest

LEMMA StartKeeps ==
  ASSUME Inv, NEW r \in Calls, Start(r)
  PROVE  Inv'
<1>t. TypeOK /\ Fits(r) /\ WaitsWhenDown
  BY InvByRequest
<1>1. PICK q \in Chains, stream \in Kinds :
        Walk(r, q, [Unborn EXCEPT !.stream = stream], breaker, reserved)
  BY DEF Start
<1> DEFINE now == [Unborn EXCEPT !.stream = stream]
<1>2. now \in Request
  <2>1. stream \in BOOLEAN
    OBVIOUS
  <2> QED BY <2>1, UnbornType DEF Request
<1>3. q \in Seq(Lanes) /\ Distinct(q)
  OBVIOUS
<1>4. hold[r] = Nothing
  BY <1>t DEF Start, Fits
<1>5. /\ breaker \in [Providers -> Breaker] /\ reserved \in [Pockets -> Nat]
  BY <1>t DEF TypeOK, HealthTypeOK, BudgetTypeOK
<1>6. \A b \in Pockets : reserved[b] = reserved[b] - Share(r, b)
  <2>1. \A b \in Pockets : Share(r, b) = 0
    BY <1>4 DEF Share, Nothing
  <2> QED BY <1>5, <2>1
<1>7. /\ cooling' \in [Connections -> 0 .. CONNECTION_COOLDOWN + 1]
      /\ locked' \in [Lanes -> 0 .. LongestLockout + 1]
  BY <1>t DEF Start, TypeOK, HealthTypeOK
<1>8. books' = [books EXCEPT ![r] = Unbooked] /\ UNCHANGED <<month, committed, connected>>
  BY DEF Start
<1>9. Walk(r, q, now, breaker, reserved)
  BY <1>1
<1>10. \A p \in Providers : breaker[p].status = "CLOSED" => breaker[p].wait = 0
  BY <1>t DEF WaitsWhenDown
<1> HIDE DEF now
<1> QED BY <1>2, <1>3, <1>5, <1>6, <1>7, <1>8, <1>9, <1>10, WalkKeeps

(* What giving up a lane hands to the walk.                                 *)
LEMMA GivenUp ==
  ASSUME Inv, NEW r \in Calls, NEW failure \in Failures, InFlight(r), GiveUp(r, failure)
  PROVE  /\ Lane(r) \in Lanes /\ Lane(r)[1] \in Providers
         /\ Tail(req[r].chain) \in Seq(Lanes) /\ Distinct(Tail(req[r].chain))
         /\ \A i \in DOMAIN Tail(req[r].chain) : Tail(req[r].chain)[i][1] # Lane(r)[1]
         /\ BreakerAfter(Lane(r)[1], failure) \in [Providers -> Breaker]
         /\ \A p \in Providers :
              BreakerAfter(Lane(r)[1], failure)[p].status = "CLOSED"
                => BreakerAfter(Lane(r)[1], failure)[p].wait = 0
         /\ \E now \in Request :
              Walk(r, Tail(req[r].chain), now, BreakerAfter(Lane(r)[1], failure), AfterRelease(r))
         /\ cooling' \in [Connections -> 0 .. CONNECTION_COOLDOWN + 1]
         /\ locked' \in [Lanes -> 0 .. LongestLockout + 1]
         /\ UNCHANGED <<month, committed, connected, books>>
<1>t. TypeOK /\ Fits(r) /\ WaitsWhenDown
  BY InvByRequest
<1>h. HealthTypeOK /\ req[r] \in Request
  BY <1>t DEF TypeOK
<1>1. req[r].chain \in Seq(Lanes) /\ req[r].chain # <<>> /\ Distinct(req[r].chain)
  BY <1>t, <1>h DEF Fits, Request
<1>2. Lane(r) \in Lanes /\ Lane(r)[1] \in Providers /\ Tail(req[r].chain) \in Seq(Lanes)
  BY <1>1, ChainFacts DEF Lane
<1>3. /\ Distinct(Tail(req[r].chain))
      /\ \A i \in DOMAIN Tail(req[r].chain) : Tail(req[r].chain)[i][1] # Lane(r)[1]
  BY <1>1, TailDistinct DEF Lane
<1> DEFINE p == Lane(r)[1]
<1>4. BreakerAfter(p, failure) \in [Providers -> Breaker]
  BY <1>h, <1>2, FailureStep DEF BreakerAfter, HealthTypeOK
<1>5. ASSUME NEW q \in Providers, BreakerAfter(p, failure)[q].status = "CLOSED"
      PROVE  BreakerAfter(p, failure)[q].wait = 0
  <2>1. breaker[q].status = "CLOSED" => breaker[q].wait = 0
    BY <1>t DEF WaitsWhenDown
  <2>2. CASE BreakerAfter(p, failure) = breaker
    BY <1>5, <2>1, <2>2
  <2>3. CASE BreakerAfter(p, failure) = recordProviderFailure(p)
    <3> HIDE DEF p
    <3> QED BY <1>h, <1>2, <1>5, <2>1, <2>3, FailureStep DEF p
  <2> QED BY <2>2, <2>3 DEF BreakerAfter
<1> DEFINE seen == IF failure = "invalid" /\ req[r].seen # "other" THEN "invalid" ELSE "other"
           now  == [req[r] EXCEPT !.seen = seen]
<1>6. /\ Walk(r, Tail(req[r].chain), now, BreakerAfter(p, failure), AfterRelease(r))
      /\ BlameLane(p, req[r].key, Lane(r)[2], failure)
      /\ UNCHANGED <<month, committed, connected, books>>
  BY DEF GiveUp
<1>7. now \in Request
  <2>1. seen \in {"nothing", "invalid", "other"}
    OBVIOUS
  <2> HIDE DEF seen
  <2> QED BY <1>h, <2>1 DEF Request
<1>8. /\ cooling' \in [Connections -> 0 .. CONNECTION_COOLDOWN + 1]
      /\ locked' \in [Lanes -> 0 .. LongestLockout + 1]
  BY <1>h, <1>6, BlameStep
<1> HIDE DEF now
<1> QED BY <1>2, <1>3, <1>4, <1>5, <1>6, <1>7, <1>8

LEMMA GiveUpKeeps ==
  ASSUME Inv, NEW r \in Calls, NEW failure \in Failures, req[r].pc \in {"calling", "opening"},
         InFlight(r), GiveUp(r, failure)
  PROVE  Inv'
<1>t. TypeOK /\ Fits(r) /\ ReservedIsHeld
  BY InvByRequest
<1>1. /\ Tail(req[r].chain) \in Seq(Lanes) /\ Distinct(Tail(req[r].chain))
      /\ BreakerAfter(Lane(r)[1], failure) \in [Providers -> Breaker]
      /\ \A p \in Providers :
           BreakerAfter(Lane(r)[1], failure)[p].status = "CLOSED"
             => BreakerAfter(Lane(r)[1], failure)[p].wait = 0
      /\ cooling' \in [Connections -> 0 .. CONNECTION_COOLDOWN + 1]
      /\ locked' \in [Lanes -> 0 .. LongestLockout + 1]
      /\ UNCHANGED <<month, committed, connected, books>>
  BY GivenUp
<1>2. PICK now \in Request :
        Walk(r, Tail(req[r].chain), now, BreakerAfter(Lane(r)[1], failure), AfterRelease(r))
  BY GivenUp
<1>3. /\ AfterRelease(r) \in [Pockets -> Nat]
      /\ \A b \in Pockets : AfterRelease(r)[b] = reserved[b] - Share(r, b)
  <2>1. BudgetTypeOK
    BY <1>t DEF TypeOK
  <2> QED BY <1>t, <2>1, ReleaseSums
<1>4. books' = [books EXCEPT ![r] = Unbooked]
  <2>1. books \in [Calls -> Books] /\ req[r] \in Request
    BY <1>t DEF TypeOK
  <2>2. books[r] = Unbooked
    BY <1>t, <2>1, NothingBooked DEF Fits, Request, Ended, Served
  <2> QED BY <1>1, <2>1, <2>2
<1> QED BY <1>1, <1>2, <1>3, <1>4, WalkKeeps

LEMMA AnswerKeeps ==
  ASSUME Inv, NEW r \in Calls, Answer(r)
  PROVE  Inv'
<1>t. TypeOK /\ Fits(r) /\ WaitsWhenDown
  BY InvByRequest
<1> DEFINE p == Lane(r)[1]
<1>1. PICK cost \in 0 .. MaxCost : recordUsage(p, cost)
  BY DEF Answer
<1>2. /\ InFlight(r) /\ req[r].pc = "calling"
      /\ recordSuccess(p, req[r].key, Lane(r)[2]) /\ release(r)
      /\ books' = [books EXCEPT ![r].success = Append(@, Lane(r)), ![r].charged = Append(@, Lane(r))]
      /\ req' = [req EXCEPT ![r] = [Unborn EXCEPT !.pc = "answered"]]
      /\ UNCHANGED <<month, connected, probes>>
  BY DEF Answer, InFlight, Ended
<1>3. p \in Providers /\ Lane(r) \in Lanes
  <2>1. req[r].chain \in Seq(Lanes) /\ req[r].chain # <<>>
    BY <1>t, <1>2 DEF TypeOK, Request, Fits
  <2> QED BY <2>1, ChainFacts DEF Lane
<1>h. HealthTypeOK /\ BudgetTypeOK /\ Here(p) \in Pockets
  BY <1>t, <1>3, HereType DEF TypeOK
<1>4. committed' \in [Pockets -> Nat]
  BY <1>1, <1>h DEF recordUsage, BudgetTypeOK
<1>5. HealthTypeOK'
  BY <1>2, <1>3, <1>h, SuccessTypes
<1>6. WaitsWhenDown'
  <2>1. breaker' = AfterSuccess(p)
    BY <1>2 DEF recordSuccess
  <2> HIDE DEF p
  <2>2. breaker'[p] = Fresh /\ \A q \in Providers \ {p} : breaker'[q] = breaker[q]
    BY <1>3, <1>h, <2>1, RecoveryTypes
  <2> QED BY <1>t, <2>2 DEF WaitsWhenDown, Fresh
<1>7. /\ books' \in [Calls -> Books] /\ \A c \in Calls \ {r} : books'[c] = books[c]
      /\ Booked(books'[r], "answered", Unborn.chain)
  <2> DEFINE lane == Lane(r)
  <2>1. /\ books \in [Calls -> Books] /\ books[r].success = <<>> /\ books[r].charged = <<>>
        /\ books[r] \in Books
    <3>1. books \in [Calls -> Books] /\ books[r] = Unbooked
      BY <1>t, <1>2, NothingBooked DEF TypeOK, Fits, Served
    <3> QED BY <3>1 DEF Unbooked
  <2> DEFINE new == [books[r] EXCEPT !.success = Append(@, lane), !.charged = Append(@, lane)]
  <2>2. books' = [books EXCEPT ![r] = new]
    BY <1>2, <2>1
  <2>3. lane \in Lanes
    BY <1>3
  <2> HIDE DEF lane
  <2>4. new.success = <<lane>> /\ new.charged = <<lane>> /\ new \in Books
    BY <2>1, <2>3, OneBooked DEF Books
  <2>5. Booked(new, "answered", Unborn.chain)
    BY <2>3, <2>4, OneBooked DEF Booked, Served, Closed
  <2> HIDE DEF new
  <2> QED BY <2>1, <2>2, <2>4, <2>5
<1>8. "answered" \in Ended
  BY DEF Ended
<1> QED BY <1>2, <1>4, <1>5, <1>6, <1>7, <1>8, EndKeeps

LEMMA StreamEndKeeps ==
  ASSUME Inv, NEW r \in Calls, StreamEnds(r)
  PROVE  Inv'
<1>t. TypeOK /\ Fits(r) /\ WaitsWhenDown
  BY InvByRequest
<1> DEFINE p == Lane(r)[1]
<1>1. PICK cost \in 0 .. MaxCost : recordUsage(p, cost)
  BY DEF StreamEnds
<1>2. PICK end \in {"answered", "broken"} :
        req' = [req EXCEPT ![r] = [Unborn EXCEPT !.pc = end]]
  BY DEF StreamEnds
<1>3. /\ InFlight(r) /\ req[r].pc = "streaming" /\ release(r)
      /\ books' = [books EXCEPT ![r].charged = Append(@, Lane(r))]
      /\ UNCHANGED <<healthVars, month, connected, probes>>
  BY DEF StreamEnds, InFlight, Ended
<1>4. p \in Providers /\ Lane(r) \in Lanes
  <2>1. req[r].chain \in Seq(Lanes) /\ req[r].chain # <<>>
    BY <1>t, <1>3 DEF TypeOK, Request, Fits
  <2> QED BY <2>1, ChainFacts DEF Lane
<1>5. committed' \in [Pockets -> Nat]
  <2>1. BudgetTypeOK /\ Here(p) \in Pockets
    BY <1>t, <1>4, HereType DEF TypeOK
  <2> QED BY <1>1, <2>1 DEF recordUsage, BudgetTypeOK
<1>6. HealthTypeOK' /\ WaitsWhenDown'
  BY <1>t, <1>3 DEF healthVars, TypeOK, HealthTypeOK, WaitsWhenDown
<1>7. /\ books' \in [Calls -> Books] /\ \A c \in Calls \ {r} : books'[c] = books[c]
      /\ Booked(books'[r], end, Unborn.chain)
  <2> DEFINE lane == Lane(r)
  <2>1. /\ books \in [Calls -> Books] /\ books[r].success = <<lane>> /\ books[r].charged = <<>>
        /\ books[r] \in Books
    BY <1>t, <1>3 DEF TypeOK, Fits, Booked, Closed, Lane
  <2> DEFINE new == [books[r] EXCEPT !.charged = Append(@, lane)]
  <2>2. books' = [books EXCEPT ![r] = new]
    BY <1>3, <2>1
  <2>3. lane \in Lanes
    BY <1>4
  <2> HIDE DEF lane
  <2>4. new.success = <<lane>> /\ new.charged = <<lane>> /\ new \in Books
    BY <2>1, <2>3, OneBooked DEF Books
  <2>5. Booked(new, end, Unborn.chain)
    BY <2>3, <2>4, OneBooked DEF Booked, Served, Closed
  <2> HIDE DEF new
  <2> QED BY <2>1, <2>2, <2>4, <2>5
<1>8. end \in Ended
  BY DEF Ended
<1> QED BY <1>2, <1>3, <1>5, <1>6, <1>7, <1>8, EndKeeps

LEMMA AbandonKeeps ==
  ASSUME Inv, NEW r \in Calls, Abandon(r)
  PROVE  Inv'
<1>t. TypeOK /\ Fits(r) /\ WaitsWhenDown
  BY InvByRequest
<1>1. /\ InFlight(r) /\ req[r].pc \in {"calling", "backoff", "opening"} /\ release(r)
      /\ req' = [req EXCEPT ![r] = [Unborn EXCEPT !.pc = "abandoned"]]
      /\ UNCHANGED <<healthVars, month, committed, connected, probes, books>>
  BY DEF Abandon, InFlight, Ended
<1>2. committed' \in [Pockets -> Nat]
  BY <1>t, <1>1 DEF TypeOK, BudgetTypeOK
<1>3. HealthTypeOK' /\ WaitsWhenDown'
  BY <1>t, <1>1 DEF healthVars, TypeOK, HealthTypeOK, WaitsWhenDown
<1>4. /\ books' \in [Calls -> Books] /\ \A c \in Calls \ {r} : books'[c] = books[c]
      /\ Booked(books'[r], "abandoned", Unborn.chain)
  <2>1. books' = books /\ books \in [Calls -> Books]
    BY <1>t, <1>1 DEF TypeOK
  <2>2. books[r] = Unbooked
    BY <1>t, <1>1, <2>1, NothingBooked DEF Fits, Served
  <2>3. Booked(Unbooked, "abandoned", Unborn.chain)
    BY DEF Booked, Unbooked, Served, Closed
  <2> QED BY <2>1, <2>2, <2>3
<1>5. "abandoned" \in Ended
  BY DEF Ended
<1> QED BY <1>1, <1>2, <1>3, <1>4, <1>5, EndKeeps

(* A request that moves within its lane changes nothing else.               *)
LEMMA MoveKeeps ==
  ASSUME Inv, NEW r \in Calls,
         BackOff(r) \/ Retry(r) \/ HangUp(r)
  PROVE  Inv'
<1>t. TypeOK /\ Fits(r) /\ WaitsWhenDown
  BY InvByRequest
<1>1. UNCHANGED <<healthVars, budgetVars, connected, probes, books>>
  BY DEF BackOff, Retry, HangUp
<1>2. HealthTypeOK' /\ WaitsWhenDown'
  BY <1>t, <1>1 DEF healthVars, TypeOK, HealthTypeOK, WaitsWhenDown
<1>3. /\ connected' \in [Providers -> 0 .. KeysPerProvider] /\ month' \in Months
      /\ UNCHANGED <<committed, reserved, hold, probes, books>>
  BY <1>t, <1>1 DEF TypeOK, BudgetTypeOK, budgetVars, Months
<1>r. req \in [Calls -> Request] /\ req[r] \in Request
  BY <1>t DEF TypeOK
<1>b. /\ books' = books /\ books \in [Calls -> Books] /\ books[r] \in Books
      /\ Booked(books[r], req[r].pc, req[r].chain)
  BY <1>t, <1>1 DEF TypeOK, Fits
<1>4. /\ req' \in [Calls -> Request]
      /\ \A c \in Calls : Moved(c)
  <2>1. CASE BackOff(r)
    <3> DEFINE next == [req[r] EXCEPT !.pc = "backoff"]
    <3>1. req' = [req EXCEPT ![r] = next]
      BY <1>r, <2>1 DEF BackOff
    <3>2. next \in Request /\ next.pc = "backoff" /\ next.chain = req[r].chain
            /\ next.tries = req[r].tries
      BY <1>r DEF Request
    <3>3. InFlight(r) /\ req[r].tries < MAX_RETRIES_PER_PROVIDER
      BY <2>1 DEF BackOff, InFlight, Ended
    <3> HIDE DEF next
    <3>4. "backoff" \notin Ended
      BY DEF Ended
    <3>5. Booked(books[r], "backoff", req[r].chain)
      BY <1>b, <2>1, StillBooked DEF BackOff, Served
    <3> QED BY <1>b, <1>r, <3>1, <3>2, <3>3, <3>4, <3>5 DEF InFlight, Moved
  <2>2. CASE Retry(r)
    <3> DEFINE next == [req[r] EXCEPT !.pc = "calling", !.tries = @ + 1]
    <3>1. req' = [req EXCEPT ![r] = next]
      BY <1>r, <2>2 DEF Retry
    <3>2. req[r].tries + 1 \in 0 .. MAX_RETRIES_PER_PROVIDER
      <4>1. req[r].tries < MAX_RETRIES_PER_PROVIDER
        BY <1>t, <2>2 DEF Retry, Fits
      <4>2. req[r].tries \in 0 .. MAX_RETRIES_PER_PROVIDER
        BY <1>r DEF Request
      <4> QED BY <4>1, <4>2
    <3>3. next \in Request /\ next.pc = "calling" /\ next.chain = req[r].chain
      BY <1>r, <3>2 DEF Request
    <3>4. InFlight(r)
      BY <2>2 DEF Retry, InFlight, Ended
    <3> HIDE DEF next
    <3>5. "calling" \notin Ended /\ "calling" # "backoff"
      BY DEF Ended
    <3>6. Booked(books[r], "calling", req[r].chain)
      BY <1>b, <2>2, StillBooked DEF Retry, Served
    <3> QED BY <1>b, <1>r, <3>1, <3>3, <3>4, <3>5, <3>6 DEF InFlight, Moved
  <2>3. CASE HangUp(r)
    <3> DEFINE next == [req[r] EXCEPT !.gone = TRUE]
    <3>1. req' = [req EXCEPT ![r] = next]
      BY <1>r, <2>3 DEF HangUp
    <3>2. next \in Request /\ next.pc = req[r].pc /\ next.chain = req[r].chain
            /\ next.tries = req[r].tries
      BY <1>r DEF Request
    <3>3. InFlight(r) /\ (req[r].pc = "backoff" => req[r].tries < MAX_RETRIES_PER_PROVIDER)
      BY <1>t, <2>3 DEF HangUp, Fits
    <3> HIDE DEF next
    <3> QED BY <1>b, <1>r, <3>1, <3>2, <3>3 DEF InFlight, Moved
  <2> QED BY <2>1, <2>2, <2>3
<1> QED BY <1>2, <1>3, <1>4, <1>b, StayKeeps

LEMMA OpenKeeps ==
  ASSUME Inv, NEW r \in Calls, OpenStream(r)
  PROVE  Inv'
<1>t. TypeOK /\ Fits(r) /\ WaitsWhenDown
  BY InvByRequest
<1> DEFINE p == Lane(r)[1]
           next == [req[r] EXCEPT !.pc = "streaming"]
<1>1. /\ InFlight(r) /\ recordSuccess(p, req[r].key, Lane(r)[2])
      /\ req' = [req EXCEPT ![r] = next] /\ req[r].pc = "opening"
      /\ books' = [books EXCEPT ![r].success = Append(@, Lane(r))]
      /\ UNCHANGED <<budgetVars, connected, probes>>
  <2>1. req \in [Calls -> Request]
    BY <1>t DEF TypeOK
  <2> QED BY <2>1 DEF OpenStream, InFlight, Ended
<1>r. req \in [Calls -> Request] /\ req[r] \in Request
  BY <1>t DEF TypeOK
<1>2. p \in Providers /\ Lane(r) \in Lanes
  <2>1. req[r].chain \in Seq(Lanes) /\ req[r].chain # <<>>
    BY <1>t, <1>1 DEF TypeOK, Request, Fits
  <2> QED BY <2>1, ChainFacts DEF Lane
<1>3. HealthTypeOK'
  BY <1>t, <1>1, <1>2, SuccessTypes DEF TypeOK
<1>4. WaitsWhenDown'
  <2>1. breaker' = AfterSuccess(p)
    BY <1>1 DEF recordSuccess
  <2> HIDE DEF p
  <2>2. breaker'[p] = Fresh /\ \A q \in Providers \ {p} : breaker'[q] = breaker[q]
    BY <1>t, <1>2, <2>1, RecoveryTypes DEF TypeOK
  <2> QED BY <1>t, <2>2 DEF WaitsWhenDown, Fresh
<1>5. /\ connected' \in [Providers -> 0 .. KeysPerProvider] /\ month' \in Months
      /\ UNCHANGED <<committed, reserved, hold, probes>>
  BY <1>t, <1>1 DEF TypeOK, BudgetTypeOK, budgetVars, Months
<1>6. next \in Request /\ next.pc = "streaming" /\ next.chain = req[r].chain
  BY <1>r DEF Request
<1> HIDE DEF next
<1>b. /\ books' \in [Calls -> Books] /\ \A c \in Calls \ {r} : books'[c] = books[c]
      /\ Booked(books'[r], "streaming", req[r].chain)
  <2> DEFINE lane == Head(req[r].chain)
  <2>1. /\ books \in [Calls -> Books] /\ books[r].success = <<>> /\ books[r].charged = <<>>
        /\ books[r] \in Books
    <3>1. books \in [Calls -> Books] /\ books[r] = Unbooked
      BY <1>t, <1>1, NothingBooked DEF TypeOK, Fits, Served
    <3> QED BY <3>1 DEF Unbooked
  <2> DEFINE new == [books[r] EXCEPT !.success = Append(@, lane)]
  <2>2. books' = [books EXCEPT ![r] = new]
    BY <1>1, <2>1 DEF Lane
  <2>3. lane \in Lanes
    BY <1>2 DEF Lane
  <2>4. Head(req[r].chain) = lane
    OBVIOUS
  <2> HIDE DEF lane
  <2>5. new.success = <<lane>> /\ new.charged = <<>> /\ new \in Books
    BY <2>1, <2>3, OneBooked DEF Books
  <2>6. Booked(new, "streaming", req[r].chain)
    BY <2>3, <2>4, <2>5, OneBooked DEF Booked, Served, Closed
  <2> HIDE DEF new
  <2> QED BY <2>1, <2>2, <2>5, <2>6
<1>7. /\ req' \in [Calls -> Request]
      /\ \A c \in Calls : Moved(c)
  <2>1. "streaming" \notin Ended /\ "streaming" # "backoff"
    BY DEF Ended
  <2> QED BY <1>1, <1>b, <1>r, <1>6, <2>1 DEF InFlight, Moved
<1> QED BY <1>3, <1>4, <1>5, <1>7, <1>b, StayKeeps

LEMMA CredentialKeeps ==
  ASSUME Inv, NEW p \in Providers, NEW n \in 0 .. KeysPerProvider, SetCredential(p, n)
  PROVE  Inv'
<1>t. TypeOK /\ (\A c \in Calls : Fits(c)) /\ WaitsWhenDown
  BY InvByRequest
<1>1. /\ connected' = [connected EXCEPT ![p] = n] /\ clearProvider(p)
      /\ UNCHANGED <<budgetVars, probes, books>>
      /\ req' = [r \in Calls |->
           IF req[r].pc \in {"calling", "backoff", "opening"} /\ Lane(r)[1] = p
           THEN [req[r] EXCEPT !.stale = TRUE] ELSE req[r]]
  BY DEF SetCredential
<1>2. HealthTypeOK'
  BY <1>t, <1>1, ClearTypes DEF TypeOK
<1>3. WaitsWhenDown'
  <2>1. breaker' = AfterSuccess(p)
    BY <1>1 DEF clearProvider
  <2>2. breaker'[p] = Fresh /\ \A q \in Providers \ {p} : breaker'[q] = breaker[q]
    BY <1>t, <2>1, RecoveryTypes DEF TypeOK
  <2> QED BY <1>t, <2>2 DEF WaitsWhenDown, Fresh
<1>4. /\ connected' \in [Providers -> 0 .. KeysPerProvider] /\ month' \in Months
      /\ UNCHANGED <<committed, reserved, hold, probes, books>>
  BY <1>t, <1>1 DEF TypeOK, BudgetTypeOK, budgetVars, Months
<1>5. ASSUME NEW c \in Calls
      PROVE  req'[c] \in Request /\ Moved(c)
  <2>1. req[c] \in Request /\ Fits(c)
    BY <1>t DEF TypeOK
  <2> DEFINE next == [req[c] EXCEPT !.stale = TRUE]
  <2>2. /\ next \in Request /\ next.pc = req[c].pc /\ next.chain = req[c].chain
        /\ next.tries = req[c].tries
    BY <2>1 DEF Request
  <2>3. \/ req'[c] = req[c]
        \/ req[c].pc \in {"calling", "backoff", "opening"} /\ req'[c] = next
    BY <1>1
  <2> HIDE DEF next
  <2>4. books' = books
    BY <1>1
  <2> QED BY <2>1, <2>2, <2>3, <2>4 DEF InFlight, Ended, Fits, Moved
<1>6. req' \in [Calls -> Request]
  BY <1>1, <1>5
<1>7. books' \in [Calls -> Books]
  BY <1>t, <1>1 DEF TypeOK
<1> QED BY <1>2, <1>3, <1>4, <1>5, <1>6, <1>7, StayKeeps

(* What happens besides the requests.                                       *)
LEMMA AroundKeeps ==
  ASSUME Inv, ResetHealth \/ Tick \/ Rollover \/ UNCHANGED vars
  PROVE  Inv'
<1>t. TypeOK /\ HealthTypeOK /\ BudgetTypeOK /\ WaitsWhenDown
  BY InvByRequest DEF TypeOK
<1>1. UNCHANGED <<committed, reserved, hold, connected, req, probes, books>>
  BY DEF ResetHealth, Tick, Rollover, NextMonth, budgetVars, vars
<1>2. month' \in Months
  <2>1. month' = month \/ (month < LastMonth /\ month' = month + 1)
    BY DEF ResetHealth, Tick, Rollover, NextMonth, budgetVars, vars
  <2> QED BY <1>t, <2>1, BudgetAssumption DEF BudgetTypeOK, Months
<1>3. HealthTypeOK' /\ WaitsWhenDown'
  <2>1. CASE ResetHealth
    <3>1. reset
      BY <2>1 DEF ResetHealth
    <3> QED BY <3>1, ResetTypes DEF reset, WaitsWhenDown, Fresh
  <2>2. CASE Tick
    <3>1. PassTime
      BY <2>2 DEF Tick
    <3> QED BY <1>t, <3>1, TimeStep DEF WaitsWhenDown, Less
  <2>3. CASE Rollover \/ UNCHANGED vars
    <3>1. UNCHANGED <<breaker, cooling, locked>>
      BY <2>3 DEF Rollover, healthVars, vars
    <3> QED BY <1>t, <3>1 DEF HealthTypeOK, WaitsWhenDown
  <2> QED BY <2>1, <2>2, <2>3
<1>4. /\ connected' \in [Providers -> 0 .. KeysPerProvider] /\ req' \in [Calls -> Request]
      /\ books' \in [Calls -> Books]
  BY <1>t, <1>1 DEF TypeOK
<1>5. \A c \in Calls : Moved(c)
  BY <1>1 DEF Moved
<1> QED BY <1>1, <1>2, <1>3, <1>4, <1>5, StayKeeps

LEMMA NextInv == Inv /\ [Next]_vars => Inv'
<1> SUFFICES ASSUME Inv, [Next]_vars PROVE Inv'
  OBVIOUS
<1>1. ASSUME NEW r \in Calls, Upstream(r) PROVE Inv'
  <2>1. ASSUME NEW failure \in Verdicts, CallFails(r, failure) \/ OpenFails(r, failure)
        PROVE  Inv'
    <3>1. /\ InFlight(r) /\ req[r].pc \in {"calling", "opening"}
          /\ GiveUp(r, failure) /\ failure \in Failures
      BY <2>1 DEF CallFails, OpenFails, InFlight, Ended
    <3> QED BY <3>1, GiveUpKeeps
  <2> QED BY <1>1, <2>1, AnswerKeeps, MoveKeeps, OpenKeeps, StreamEndKeeps, AbandonKeeps
      DEF Upstream
<1> QED BY <1>1, StartKeeps, MoveKeeps, CredentialKeeps, AroundKeeps DEF Next

(* However the requests of any chains interleave, with hang-ups, retries,   *)
(* new credentials and a new month at any moment, what is held against a    *)
(* cap is what the requests under way hold: "hold an estimate against the   *)
(* monthly cap for the duration of the call", router.js:226.                *)
THEOREM HoldsFollowCalls == Spec => []EstimatesFollowCalls
<1>1. Inv => EstimatesFollowCalls
  BY DEF Inv
<1> QED BY InitInv, NextInv, <1>1, PTL DEF Spec

(* However many lanes a request tries, and whoever hangs up when, an answer *)
(* is billed once, to the lane whose success it was, and everything else is *)
(* not: the recordSuccess and recordUsage calls of router.js.               *)
THEOREM AnswersBilledOnce == Spec => []BilledOnce
<1>1. Inv => BilledOnce
  BY DEF Inv
<1> QED BY InitInv, NextInv, <1>1, PTL DEF Spec

-----------------------------------------------------------------------------
(* The walk, for the health of the providers: nobody is blamed for a client *)
(* that left.                                                               *)
LEMMA SameIsNoWorse ==
  ASSUME HealthTypeOK, UNCHANGED healthVars
  PROVE  NoLaneWorse
<1>1. \A p \in Providers : breaker[p].failures \in Nat /\ breaker[p].wait \in Nat
  BY DEF HealthTypeOK, Breaker
<1>2. \A c \in Connections : cooling[c] \in Nat
  BY DEF HealthTypeOK
<1>3. LongestLockout \in Nat
  BY DEF LongestLockout
<1>4. \A l \in Lanes : locked[l] \in Nat
  BY <1>3 DEF HealthTypeOK
<1> QED BY <1>1, <1>2, <1>4 DEF NoLaneWorse, healthVars

LEMMA RecoveryIsNoWorse ==
  ASSUME HealthTypeOK, NEW p \in Providers, NEW k, NEW m,
         recordSuccess(p, k, m) \/ clearProvider(p)
  PROVE  NoLaneWorse
<1>1. \A q \in Providers : breaker[q].failures \in Nat /\ breaker[q].wait \in Nat
  BY DEF HealthTypeOK, Breaker
<1>2. ASSUME NEW q \in Providers
      PROVE  /\ breaker'[q].failures <= breaker[q].failures
             /\ breaker'[q].wait <= breaker[q].wait
  <2>1. breaker' = AfterSuccess(p)
    BY DEF recordSuccess, clearProvider
  <2>2. breaker'[p] = Fresh /\ \A o \in Providers \ {p} : breaker'[o] = breaker[o]
    BY <2>1, RecoveryTypes
  <2>3. Fresh.failures = 0 /\ Fresh.wait = 0
    BY DEF Fresh
  <2> QED BY <1>1, <2>2, <2>3
<1>3. ASSUME NEW c \in Connections PROVE cooling'[c] <= cooling[c]
  <2>1. cooling[c] \in Nat /\ cooling \in [Connections -> 0 .. CONNECTION_COOLDOWN + 1]
    BY DEF HealthTypeOK
  <2>2. cooling'[c] = 0 \/ cooling'[c] = cooling[c]
    BY <2>1 DEF recordSuccess, clearProvider
  <2> QED BY <2>1, <2>2
<1>4. ASSUME NEW l \in Lanes PROVE locked'[l] <= locked[l]
  <2>1. LongestLockout \in Nat
    BY DEF LongestLockout
  <2>2. locked[l] \in Nat /\ locked \in [Lanes -> 0 .. LongestLockout + 1]
    BY <2>1 DEF HealthTypeOK
  <2>3. locked'[l] = 0 \/ locked'[l] = locked[l]
    BY <2>2 DEF recordSuccess, clearProvider
  <2> QED BY <2>2, <2>3
<1> QED BY <1>2, <1>3, <1>4 DEF NoLaneWorse

LEMMA NobodyBlamed ==
  ASSUME Inv, Next, NEW r \in Calls, req[r].gone, req'[r] # req[r]
  PROVE  NoLaneWorse
<1>t. /\ TypeOK /\ HealthTypeOK /\ (\A c \in Calls : Fits(c))
      /\ req \in [Calls -> Request]
  BY InvByRequest DEF TypeOK
<1>1. ASSUME NEW s \in Calls, Start(s) PROVE FALSE
  <2>1. ~req[s].gone
    BY <1>t, <1>1 DEF Start, Fits
  <2>2. \A c \in Calls \ {s} : req'[c] = req[c]
    BY <1>t, <1>1 DEF Start, Walk
  <2> QED BY <2>1, <2>2
<1>2. ASSUME NEW s \in Calls, NEW failure \in Verdicts,
             CallFails(s, failure) \/ OpenFails(s, failure)
      PROVE  FALSE
  <2>1. ~req[s].gone /\ GiveUp(s, failure)
    BY <1>2 DEF CallFails, OpenFails
  <2>2. \A c \in Calls \ {s} : req'[c] = req[c]
    BY <1>t, <2>1 DEF GiveUp, Walk
  <2> QED BY <2>1, <2>2
<1>3. ASSUME NEW s \in Calls, Answer(s) \/ OpenStream(s) PROVE NoLaneWorse
  <2>1. InFlight(s) /\ recordSuccess(Lane(s)[1], req[s].key, Lane(s)[2])
    BY <1>3 DEF Answer, OpenStream, InFlight, Ended
  <2>2. req[s].chain \in Seq(Lanes) /\ req[s].chain # <<>>
    BY <1>t, <2>1 DEF Request, Fits
  <2>3. Lane(s)[1] \in Providers
    BY <2>2, ChainFacts DEF Lane
  <2> QED BY <1>t, <2>1, <2>3, RecoveryIsNoWorse
<1>4. ASSUME NEW s \in Calls,
             BackOff(s) \/ Retry(s) \/ HangUp(s) \/ StreamEnds(s) \/ Abandon(s)
      PROVE  NoLaneWorse
  <2>1. UNCHANGED healthVars
    BY <1>4 DEF BackOff, Retry, HangUp, StreamEnds, Abandon
  <2> QED BY <1>t, <2>1, SameIsNoWorse
<1>5. ASSUME NEW p \in Providers, NEW n \in 0 .. KeysPerProvider, SetCredential(p, n)
      PROVE  NoLaneWorse
  <2>1. clearProvider(p)
    BY <1>5 DEF SetCredential
  <2> QED BY <1>t, <2>1, RecoveryIsNoWorse
<1>6. ~(ResetHealth \/ Tick \/ Rollover)
  BY DEF ResetHealth, Tick, Rollover
<1> QED BY <1>1, <1>2, <1>3, <1>4, <1>5, <1>6 DEF Next, Upstream

-----------------------------------------------------------------------------
(* ... and nobody is probed out of turn: the step of one provider, seen     *)
(* through the refinement mapping.                                          *)
WindowOf(p) == Window!Probe(p) \/ Window!Fail(p) \/ Window!Recover(p)
                 \/ Window!Wait(p) \/ Window!Same(p)

LEMMA UntouchedProvider ==
  ASSUME NEW p \in Providers, probes'[p] = probes[p],
         breaker'[p].status = breaker[p].status, breaker'[p].wait = breaker[p].wait
  PROVE  WindowOf(p)
BY DEF WindowOf, Window!Same

LEMMA RecoveredProvider ==
  ASSUME NEW p \in Providers, probes'[p] = probes[p], breaker'[p] = Fresh
  PROVE  WindowOf(p)
<1>1. breaker'[p].status = "CLOSED" /\ breaker'[p].wait = 0
  BY DEF Fresh
<1>2. ~[q \in Providers |-> breaker[q].status # "CLOSED"]'[p]
  BY <1>1, Zenon
<1>3. [q \in Providers |-> breaker[q].wait]'[p] = 0
  BY <1>1
<1> QED BY <1>2, <1>3 DEF WindowOf, Window!Recover

LEMMA AskedProvider ==
  ASSUME HealthTypeOK, NEW p \in Providers, breaker'[p] = AfterGate(p)[p],
         probes'[p] = IF LetThrough(p) THEN 1 - probes[p] ELSE probes[p]
  PROVE  WindowOf(p)
<1>1. CASE LetThrough(p)
  <2>1. /\ breaker[p].status # "CLOSED" /\ breaker[p].wait = 0
        /\ breaker'[p].status # "CLOSED"
        /\ breaker'[p].wait = PROVIDER_COOLDOWN + 1
        /\ probes'[p] = 1 - probes[p]
    BY <1>1, GateStep
  <2> QED BY <2>1 DEF WindowOf, Window!Probe
<1>2. CASE ~LetThrough(p)
  <2>1. breaker'[p] = breaker[p] /\ probes'[p] = probes[p]
    BY <1>2, GateStep
  <2> QED BY <2>1, UntouchedProvider
<1> QED BY <1>1, <1>2

LEMMA SuccessWindow ==
  ASSUME HealthTypeOK, NEW p \in Providers, NEW q \in Providers,
         breaker' = AfterSuccess(p), probes' = probes
  PROVE  WindowOf(q)
<1>1. breaker'[p] = Fresh /\ \A o \in Providers \ {p} : breaker'[o] = breaker[o]
  BY RecoveryTypes
<1>2. CASE q = p
  BY <1>1, <1>2, RecoveredProvider
<1>3. CASE q # p
  BY <1>1, <1>3, UntouchedProvider
<1> QED BY <1>2, <1>3

LEMMA StartWindow ==
  ASSUME Inv, NEW r \in Calls, Start(r), NEW q \in Providers
  PROVE  WindowOf(q)
<1>t. TypeOK /\ HealthTypeOK
  BY InvByRequest DEF TypeOK
<1>1. PICK chain \in Chains, stream \in Kinds :
        Walk(r, chain, [Unborn EXCEPT !.stream = stream], breaker, reserved)
  BY DEF Start
<1> DEFINE now == [Unborn EXCEPT !.stream = stream]
<1>2. now \in Request
  <2>1. stream \in BOOLEAN
    OBVIOUS
  <2> QED BY <2>1, UnbornType DEF Request
<1>3. chain \in Seq(Lanes)
  OBVIOUS
<1>4. breaker \in [Providers -> Breaker] /\ reserved \in [Pockets -> Nat]
  BY <1>t DEF TypeOK, HealthTypeOK, BudgetTypeOK
<1>5. Walk(r, chain, now, breaker, reserved)
  BY <1>1
<1> HIDE DEF now
<1>6. \/ breaker'[q] = breaker[q] /\ probes'[q] = probes[q]
      \/ /\ breaker'[q] = AfterGate(q)[q]
         /\ probes'[q] = IF LetThrough(q) THEN 1 - probes[q] ELSE probes[q]
  <2>1. \A p \in Providers :
          \/ /\ p \notin Asked(chain)
             /\ breaker'[p] = breaker[p] /\ probes'[p] = probes[p]
          \/ /\ \E i \in DOMAIN chain : chain[i][1] = p
             /\ breaker'[p] = AfterGate(p)[p]
             /\ probes'[p] = IF LetThrough(p) THEN 1 - probes[p] ELSE probes[p]
    BY <1>t, <1>2, <1>3, <1>4, <1>5, WalkHealth
  <2> QED BY <2>1
<1> QED BY <1>t, <1>6, UntouchedProvider, AskedProvider

LEMMA GiveUpWindow ==
  ASSUME Inv, NEW r \in Calls, NEW failure \in Failures, InFlight(r), GiveUp(r, failure),
         NEW q \in Providers
  PROVE  WindowOf(q)
<1>t. TypeOK /\ HealthTypeOK /\ BudgetTypeOK /\ ReservedIsHeld
  BY InvByRequest DEF TypeOK
<1> DEFINE p == Lane(r)[1]
           rest == Tail(req[r].chain)
           health == BreakerAfter(p, failure)
<1>1. /\ p \in Providers /\ rest \in Seq(Lanes)
      /\ \A i \in DOMAIN rest : rest[i][1] # p
      /\ health \in [Providers -> Breaker]
  BY GivenUp
<1>2. PICK now \in Request : Walk(r, rest, now, health, AfterRelease(r))
  BY GivenUp
<1>3. AfterRelease(r) \in [Pockets -> Nat]
  BY <1>t, ReleaseSums
<1> HIDE DEF rest
<1>4. \A o \in Providers :
        \/ /\ o \notin Asked(rest)
           /\ breaker'[o] = health[o] /\ probes'[o] = probes[o]
        \/ /\ \E i \in DOMAIN rest : rest[i][1] = o
           /\ breaker'[o] = AfterGate(o)[o]
           /\ probes'[o] = IF LetThrough(o) THEN 1 - probes[o] ELSE probes[o]
  <2> HIDE DEF health
  <2> QED BY <1>t, <1>1, <1>2, <1>3, WalkHealth
<1>5. CASE /\ breaker'[q] = AfterGate(q)[q]
           /\ probes'[q] = IF LetThrough(q) THEN 1 - probes[q] ELSE probes[q]
  BY <1>t, <1>5, AskedProvider
<1>6. CASE breaker'[q] = health[q] /\ probes'[q] = probes[q]
  <2> HIDE DEF p
  <2>1. CASE health[q] = breaker[q]
    BY <1>6, <2>1, UntouchedProvider
  <2>2. CASE health[q] # breaker[q]
    <3>1. health = recordProviderFailure(p)
      BY <2>2 DEF BreakerAfter
    <3>2. q = p
      BY <1>t, <1>1, <2>2, <3>1, FailureStep
    <3>3. \/ health[q].status # "CLOSED" /\ health[q].wait = PROVIDER_COOLDOWN + 1
          \/ health[q].status = breaker[q].status /\ health[q].wait = breaker[q].wait
      BY <1>t, <1>1, <3>1, <3>2, FailureStep
    <3> HIDE DEF health
    <3>4. CASE health[q].status # "CLOSED" /\ health[q].wait = PROVIDER_COOLDOWN + 1
      <4>1. /\ breaker'[q].status # "CLOSED" /\ breaker'[q].wait = PROVIDER_COOLDOWN + 1
            /\ probes'[q] = probes[q]
        BY <1>6, <3>4
      <4> QED BY <4>1 DEF WindowOf, Window!Fail
    <3>5. CASE health[q].status = breaker[q].status /\ health[q].wait = breaker[q].wait
      BY <1>6, <3>5, UntouchedProvider
    <3> QED BY <3>3, <3>4, <3>5
  <2> QED BY <2>1, <2>2
<1> QED BY <1>4, <1>5, <1>6

LEMMA TickWindow ==
  ASSUME Inv, Tick, NEW q \in Providers
  PROVE  WindowOf(q)
<1>t. HealthTypeOK /\ WaitsWhenDown
  BY InvByRequest DEF TypeOK
<1>1. /\ breaker'[q].status = breaker[q].status
      /\ breaker'[q].wait = Less(breaker[q].wait)
      /\ probes' = probes
  <2>1. PassTime /\ probes' = probes
    BY DEF Tick
  <2> QED BY <1>t, <2>1, TimeStep
<1>2. CASE breaker[q].wait = 0
  BY <1>1, <1>2, UntouchedProvider DEF Less
<1>3. CASE breaker[q].wait # 0
  <2>1. breaker[q].status # "CLOSED" /\ breaker[q].wait > 0
    BY <1>t, <1>3 DEF WaitsWhenDown, HealthTypeOK, Breaker
  <2>2. breaker'[q].status # "CLOSED" /\ breaker'[q].wait = breaker[q].wait - 1
    BY <1>1, <1>3, <2>1 DEF Less
  <2> QED BY <1>1, <2>1, <2>2 DEF WindowOf, Window!Wait
<1> QED BY <1>2, <1>3

LEMMA StepRefines == Inv /\ [Next]_vars => Window!WindowNext
<1> SUFFICES ASSUME Inv, [Next]_vars, NEW q \in Providers PROVE WindowOf(q)
  BY DEF Window!WindowNext, WindowOf
<1>t. TypeOK /\ HealthTypeOK /\ (\A c \in Calls : Fits(c))
  BY InvByRequest DEF TypeOK
<1>1. CASE UNCHANGED <<breaker, probes>>
  BY <1>1, UntouchedProvider
<1>2. ASSUME NEW r \in Calls, Answer(r) \/ OpenStream(r) PROVE WindowOf(q)
  <2>1. InFlight(r) /\ breaker' = AfterSuccess(Lane(r)[1]) /\ probes' = probes
    BY <1>2 DEF Answer, OpenStream, recordSuccess, InFlight, Ended
  <2>2. req[r].chain \in Seq(Lanes) /\ req[r].chain # <<>>
    BY <1>t, <2>1 DEF TypeOK, Request, Fits
  <2>3. Lane(r)[1] \in Providers
    BY <2>2, ChainFacts DEF Lane
  <2> QED BY <1>t, <2>1, <2>3, SuccessWindow
<1>3. ASSUME NEW r \in Calls, NEW failure \in Verdicts,
             CallFails(r, failure) \/ OpenFails(r, failure)
      PROVE  WindowOf(q)
  <2>1. InFlight(r) /\ GiveUp(r, failure) /\ failure \in Failures
    BY <1>3 DEF CallFails, OpenFails, InFlight, Ended
  <2> QED BY <2>1, GiveUpWindow
<1>4. ASSUME NEW r \in Calls,
             BackOff(r) \/ Retry(r) \/ HangUp(r) \/ StreamEnds(r) \/ Abandon(r)
      PROVE  WindowOf(q)
  <2>1. UNCHANGED <<breaker, probes>>
    BY <1>4 DEF BackOff, Retry, HangUp, StreamEnds, Abandon, healthVars
  <2> QED BY <1>1, <2>1
<1>5. ASSUME NEW p \in Providers, NEW n \in 0 .. KeysPerProvider, SetCredential(p, n)
      PROVE  WindowOf(q)
  BY <1>t, <1>5, SuccessWindow DEF SetCredential, clearProvider
<1>6. CASE ResetHealth
  <2>1. breaker'[q] = Fresh /\ probes'[q] = probes[q]
    BY <1>6 DEF ResetHealth, reset
  <2> QED BY <2>1, RecoveredProvider
<1>7. CASE Rollover \/ UNCHANGED vars
  <2>1. UNCHANGED <<breaker, probes>>
    BY <1>7 DEF Rollover, healthVars, vars
  <2> QED BY <1>1, <2>1
<1> QED BY <1>2, <1>3, <1>4, <1>5, <1>6, <1>7, StartWindow, TickWindow DEF Next, Upstream

(* Nobody is blamed for a client that left, and the walk of any number of   *)
(* requests implements ProbeWindow: a provider that is down is let a call   *)
(* through at most once per cooldown ("exactly one probe is admitted per    *)
(* cooldown window", resilience.js), although every walk asks its gate.     *)
THEOREM BlameAndProbesInTurn == Spec => BlamesAndProbes
<1>1. Init => Window!WindowInit
  <2> SUFFICES ASSUME Init, NEW p \in Providers
               PROVE  /\ ~[q \in Providers |-> breaker[q].status # "CLOSED"][p]
                      /\ [q \in Providers |-> breaker[q].wait][p] = 0
                      /\ probes[p] = 0
    BY DEF Window!WindowInit
  <2>1. breaker[p].status = "CLOSED" /\ breaker[p].wait = 0 /\ probes[p] = 0
    BY DEF Init, HealthInit, Fresh
  <2>2. ~[q \in Providers |-> breaker[q].status # "CLOSED"][p]
    BY <2>1, Zenon
  <2> QED BY <2>1, <2>2
<1>2. Inv /\ [Next]_vars => [Window!WindowNext]_Window!windowVars
  BY StepRefines
<1>3. Inv /\ [Next]_vars =>
        [\A r \in Calls : req[r].gone /\ req'[r] # req[r] => NoLaneWorse]_vars
  BY NobodyBlamed
<1> QED BY InitInv, NextInv, <1>1, <1>2, <1>3, PTL
    DEF Spec, BlamesAndProbes, GoneBlamesNobody, OneProbePerWindow, Window!WindowSpec
=============================================================================
