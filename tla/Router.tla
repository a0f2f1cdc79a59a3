-------------------------------- MODULE Router --------------------------------
(***************************************************************************)
(* The routing of chat requests in src/src/routing/router.js: a request    *)
(* walks its chain of candidates, skipping the lanes the health state or   *)
(* the budget rules out, holds an estimate against the cap while it calls  *)
(* the one it reached, retries it, and moves on when it failed.            *)
(*                                                                         *)
(* JavaScript runs from one await to the next without interruption, so a   *)
(* step here is what happens between two awaits: a lane's answer arrives   *)
(* and, in the same step, the health state and the ledger are updated, the *)
(* hold is released, the next lane is found and its call sent.  Any number *)
(* of requests interleave at the awaits.                                   *)
(***************************************************************************)
EXTENDS Resilience, Budget, Sequences

CONSTANTS
  Chains,                     \* what buildCandidates can return
  MAX_RETRIES_PER_PROVIDER,
  Verdicts,                   \* bound: the ways a call can fail here
  Kinds,                      \* bound: the subset of BOOLEAN `stream` can be
  MaxCost                     \* bound: an answer costs 0..MaxCost

(* No provider is in a chain twice: a chain is one explicit lane, or the    *)
(* pool ordered by a strategy, or a combo, which drops repetitions.         *)
Distinct(q) == \A i, j \in DOMAIN q : q[i][1] = q[j][1] => i = j

ASSUME RouterAssumption ==
  /\ Chains \subseteq Seq(Lanes)
  /\ \A q \in Chains : q # <<>> /\ Distinct(q)
  /\ MAX_RETRIES_PER_PROVIDER \in Nat
  /\ Verdicts \subseteq Failures
  /\ Kinds \subseteq BOOLEAN
  /\ MaxCost \in Nat

VARIABLES
  connected,   \* provider.connections.length, by provider
  req,         \* each request: where it is and what its locals hold
  probes,      \* history: parity of the calls the gate let through to a provider that is down
  books        \* history: see Books

vars == <<breaker, cooling, locked, month, committed, reserved, hold,
          connected, req, probes, books>>

(* The lanes whose success was recorded for a request, and those its usage  *)
(* was recorded for, in order.                                              *)
Books == [success : Seq(Lanes), charged : Seq(Lanes)]

Unbooked == [success |-> <<>>, charged |-> <<>>]

Ended == {"idle", "answered", "broken", "failed", "rejected", "abandoned"}

Request == [pc     : {"calling", "backoff", "opening", "streaming"} \cup Ended,
            chain  : Seq(Lanes),             \* the lane being tried, and those after it
            key    : Keys \cup {0},          \* connection in use
            tries  : 0 .. MAX_RETRIES_PER_PROVIDER,
            stream : BOOLEAN,
            gone   : BOOLEAN,                \* clientGone()
            seen   : {"nothing", "invalid", "other"},  \* verdicts in attempts[]
            stale  : BOOLEAN]                \* history: the key was replaced meanwhile

Unborn == [pc |-> "idle", chain |-> <<>>, key |-> 0, tries |-> 0, stream |-> FALSE,
           gone |-> FALSE, seen |-> "nothing", stale |-> FALSE]

InFlight(r) == req[r].pc \notin Ended
Lane(r)     == Head(req[r].chain)

Init ==
  /\ HealthInit
  /\ BudgetInit
  /\ connected = [p \in Providers |-> KeysPerProvider]
  /\ req = [r \in Calls |-> Unborn]
  /\ probes = [p \in Providers |-> 0]
  /\ books = [r \in Calls |-> Unbooked]

-----------------------------------------------------------------------------
(* The walk.                                                                *)

pickConnection(p) ==
  CHOOSE k \in 1 .. connected[p] :
    /\ isConnectionAvailable(p, k)
    /\ \A j \in 1 .. k - 1 : ~isConnectionAvailable(p, j)

(* skipReason, without the side effect of its gate.                         *)
skipped(lane) ==
  LET p == lane[1] IN
  \/ connected[p] = 0
  \/ ~isProviderAvailable(p)
  \/ ~isModelAvailable(p, lane[2])
  \/ overBudget(p)
  \/ \A k \in 1 .. connected[p] : ~isConnectionAvailable(p, k)

(* The first lane of q that is not skipped, or the position after the last. *)
(* Providers in a chain are distinct, so nothing the walk does to one lane  *)
(* changes what it finds of the next.                                       *)
Reached(q) ==
  CHOOSE i \in 1 .. Len(q) + 1 :
    /\ i \in DOMAIN q => ~skipped(q[i])
    /\ \A j \in 1 .. i - 1 : skipped(q[j])

(* The providers whose gate the walk asked, that of skipped lanes included. *)
Asked(q) ==
  {p \in Providers : connected[p] > 0 /\ \E i \in DOMAIN q : i <= Reached(q) /\ q[i][1] = p}

LetThrough(p) == breaker[p].status # "CLOSED" /\ isProviderAvailable(p)

(* Request r, in state `now`, takes the walk through the candidates q.  The *)
(* circuit breakers are `health` and the reservations `sums` by the time it *)
(* starts.                                                                  *)
Walk(r, q, now, health, sums) ==
  LET n == Reached(q) IN
  /\ breaker' = [p \in Providers |-> IF p \in Asked(q) THEN AfterGate(p)[p] ELSE health[p]]
  /\ probes' = [p \in Providers |->
       IF p \in Asked(q) /\ LetThrough(p) THEN 1 - probes[p] ELSE probes[p]]
  /\ \/ /\ n \in DOMAIN q
        /\ \E estimate \in Estimates :
             /\ reserved' = AfterReserve(sums, q[n][1], estimate)
             /\ hold' = [hold EXCEPT ![r] = [pocket |-> Here(q[n][1]), amount |-> estimate]]
        /\ req' = [req EXCEPT ![r] =
             [now EXCEPT !.pc    = IF now.stream THEN "opening" ELSE "calling",
                         !.chain = SubSeq(q, n, Len(q)),
                         !.key   = pickConnection(q[n][1]),
                         !.tries = 0,
                         !.stale = FALSE]]
     \/ /\ n \notin DOMAIN q
        /\ reserved' = sums
        /\ hold' = [hold EXCEPT ![r] = Nothing]
        /\ req' = [req EXCEPT ![r] =         \* allProvidersFailed
             [Unborn EXCEPT !.pc = IF now.seen = "invalid" THEN "rejected" ELSE "failed"]]

Start(r) ==
  /\ ~InFlight(r)
  /\ \E q \in Chains, stream \in Kinds :
       Walk(r, q, [Unborn EXCEPT !.stream = stream], breaker, reserved)
  /\ books' = [books EXCEPT ![r] = Unbooked]
  /\ UNCHANGED <<cooling, locked, month, committed, connected>>

-----------------------------------------------------------------------------
(* What comes back from a lane.                                             *)

(* A buffered answer.  It counts even if the client has just hung up.       *)
Answer(r) ==
  LET p == Lane(r)[1] IN
  /\ req[r].pc = "calling"
  /\ recordSuccess(p, req[r].key, Lane(r)[2])
  /\ \E cost \in 0 .. MaxCost : recordUsage(p, cost)
  /\ release(r)
  /\ books' = [books EXCEPT ![r].success = Append(@, Lane(r)),
                            ![r].charged = Append(@, Lane(r))]
  /\ req' = [req EXCEPT ![r] = [Unborn EXCEPT !.pc = "answered"]]
  /\ UNCHANGED <<month, connected, probes>>

(* Mutant: a lane that is given up keeps its estimate.                      *)
GiveUpHolding(r, failure) ==
  LET lane == Lane(r) IN
  /\ BlameLane(lane[1], req[r].key, lane[2], failure)
  /\ Walk(r, Tail(req[r].chain), req[r], BreakerAfter(lane[1], failure), reserved)
  /\ UNCHANGED <<month, committed, connected, books>>

(* The lane is given up with this verdict: the key, the model or the        *)
(* provider is blamed, and the walk resumes with the candidates after it.   *)
GiveUp(r, failure) ==
  LET lane == Lane(r)
      seen == IF failure = "invalid" /\ req[r].seen # "other" THEN "invalid" ELSE "other"
  IN  /\ BlameLane(lane[1], req[r].key, lane[2], failure)
      /\ Walk(r, Tail(req[r].chain), [req[r] EXCEPT !.seen = seen],
              BreakerAfter(lane[1], failure), AfterRelease(r))
      /\ UNCHANGED <<month, committed, connected, books>>

(* ProviderError.retryable: 408, 429 and 5xx, but not the gateway's own     *)
(* timeout.                                                                 *)
Retryable == {"rate", "outage"}

(* Mutant: nobody asks whether the client is gone.                          *)
CallFailsAnyway(r, failure) ==
  /\ req[r].pc = "calling"
  /\ failure \notin Retryable \/ req[r].tries = MAX_RETRIES_PER_PROVIDER
  /\ GiveUp(r, failure)

CallFails(r, failure) ==
  /\ req[r].pc = "calling" /\ ~req[r].gone
  /\ failure \notin Retryable \/ req[r].tries = MAX_RETRIES_PER_PROVIDER
  /\ GiveUp(r, failure)

BackOff(r) ==
  /\ req[r].pc = "calling" /\ ~req[r].gone
  /\ Verdicts \cap Retryable # {}
  /\ req[r].tries < MAX_RETRIES_PER_PROVIDER
  /\ req' = [req EXCEPT ![r].pc = "backoff"]
  /\ UNCHANGED <<healthVars, budgetVars, connected, probes, books>>

(* Mutant: a retry is not counted.                                          *)
RetryUncounted(r) ==
  /\ req[r].pc = "backoff" /\ ~req[r].gone
  /\ req' = [req EXCEPT ![r].pc = "calling"]
  /\ UNCHANGED <<healthVars, budgetVars, connected, probes, books>>

(* The retry goes to the same lane, with the same key.                      *)
Retry(r) ==
  /\ req[r].pc = "backoff" /\ ~req[r].gone
  /\ req' = [req EXCEPT ![r].pc = "calling", ![r].tries = @ + 1]
  /\ UNCHANGED <<healthVars, budgetVars, connected, probes, books>>

(* The stream opened: that is the lane's success.                           *)
OpenStream(r) ==
  /\ req[r].pc = "opening"
  /\ recordSuccess(Lane(r)[1], req[r].key, Lane(r)[2])
  /\ books' = [books EXCEPT ![r].success = Append(@, Lane(r))]
  /\ req' = [req EXCEPT ![r].pc = "streaming"]
  /\ UNCHANGED <<budgetVars, connected, probes>>

OpenFails(r, failure) ==
  /\ req[r].pc = "opening" /\ ~req[r].gone
  /\ GiveUp(r, failure)

(* Mutant: what a stream used is charged to the last candidate.             *)
StreamEndsElsewhere(r) ==
  LET last == req[r].chain[Len(req[r].chain)] IN
  /\ req[r].pc = "streaming"
  /\ \E cost \in 0 .. MaxCost : recordUsage(last[1], cost)
  /\ release(r)
  /\ books' = [books EXCEPT ![r].charged = Append(@, last)]
  /\ \E end \in {"answered", "broken"} :
       req' = [req EXCEPT ![r] = [Unborn EXCEPT !.pc = end]]
  /\ UNCHANGED <<healthVars, month, connected, probes>>

(* The stream ends: complete, broken off by the lane, stalled, or cut       *)
(* because the client left.  What it produced is billed in every case.      *)
StreamEnds(r) ==
  /\ req[r].pc = "streaming"
  /\ \E cost \in 0 .. MaxCost : recordUsage(Lane(r)[1], cost)
  /\ release(r)
  /\ books' = [books EXCEPT ![r].charged = Append(@, Lane(r))]
  /\ \E end \in {"answered", "broken"} :
       req' = [req EXCEPT ![r] = [Unborn EXCEPT !.pc = end]]
  /\ UNCHANGED <<healthVars, month, connected, probes>>

(* The client hangs up.  The upstream call is aborted (a retry's is not     *)
(* sent), and a call that throws after that ends the request with nothing   *)
(* recorded.                                                                *)
HangUp(r) ==
  /\ InFlight(r) /\ ~req[r].gone
  /\ req' = [req EXCEPT ![r].gone = TRUE]
  /\ UNCHANGED <<healthVars, budgetVars, connected, probes, books>>

Abandon(r) ==
  /\ req[r].pc \in {"calling", "backoff", "opening"} /\ req[r].gone
  /\ release(r)
  /\ req' = [req EXCEPT ![r] = [Unborn EXCEPT !.pc = "abandoned"]]
  /\ UNCHANGED <<healthVars, month, committed, connected, probes, books>>

-----------------------------------------------------------------------------
(* What happens besides.                                                    *)

(* POST /api/panel/providers/:id/key: n keys in place of those there were.  *)
SetCredential(p, n) ==
  /\ connected' = [connected EXCEPT ![p] = n]
  /\ clearProvider(p)
  /\ req' = [r \in Calls |->
       IF req[r].pc \in {"calling", "backoff", "opening"} /\ Lane(r)[1] = p
       THEN [req[r] EXCEPT !.stale = TRUE] ELSE req[r]]
  /\ UNCHANGED <<budgetVars, probes, books>>

ResetHealth == reset /\ UNCHANGED <<budgetVars, connected, req, probes, books>>

Tick == PassTime /\ UNCHANGED <<budgetVars, connected, req, probes, books>>

Rollover == NextMonth /\ UNCHANGED <<healthVars, connected, req, probes, books>>

(* The lane answers, fails or times out: a call always comes to an end.     *)
Upstream(r) ==
  \/ Answer(r) \/ BackOff(r) \/ OpenStream(r) \/ StreamEnds(r) \/ Abandon(r)
  \/ \E failure \in Verdicts : CallFails(r, failure) \/ OpenFails(r, failure)

Next ==
  \/ \E r \in Calls : Start(r) \/ Upstream(r) \/ Retry(r) \/ HangUp(r)
  \/ \E p \in Providers, n \in 0 .. KeysPerProvider : SetCredential(p, n)
  \/ ResetHealth
  \/ Tick
  \/ Rollover

Spec == Init /\ [][Next]_vars

(* Upstream calls are bounded by REQUEST_TIMEOUT_MS, streams by the stall   *)
(* timeout between chunks (and an end the provider owes), and a backoff by  *)
(* its timer.                                                               *)
FairSpec == Spec /\ \A r \in Calls : WF_vars(Upstream(r)) /\ WF_vars(Retry(r))

-----------------------------------------------------------------------------
TypeOK ==
  /\ HealthTypeOK
  /\ BudgetTypeOK
  /\ connected \in [Providers -> 0 .. KeysPerProvider]
  /\ req \in [Calls -> Request]
  /\ probes \in [Providers -> 0 .. 1]
  /\ books \in [Calls -> Books]

(* A request holds an estimate exactly while a lane is working for it, and  *)
(* holds it with the provider it is calling: whichever of the exits it      *)
(* takes (answer, last failure, hang-up in a call or a backoff, a stream    *)
(* that breaks), nothing stays held against the cap.                        *)
HoldFollowsCall ==
  \A r \in Calls :
    IF InFlight(r)
    THEN hold[r] # Nothing /\ hold[r].pocket[1] = Lane(r)[1]
    ELSE hold[r] = Nothing

(* Estimates are where the calls are: each request holds its own, and what  *)
(* is held against a cap is what the requests hold, in states of the types  *)
(* above.                                                                   *)
EstimatesFollowCalls == TypeOK /\ HoldFollowsCall /\ ReservedIsHeld

(* An answer, or a stream that opened, is one lane's success, and is billed *)
(* once and to that lane, however many others were tried before it and      *)
(* whatever happened to the health of any of them since it opened; a        *)
(* request that was refused, failed or abandoned is not billed.             *)
BilledOnce ==
  \A r \in Calls :
    /\ Len(books[r].success) = IF req[r].pc \in {"streaming", "answered", "broken"} THEN 1 ELSE 0
    /\ books[r].charged = IF req[r].pc \in {"answered", "broken"} THEN books[r].success ELSE <<>>

(* What a step leaves for the next one to rely on: a request that is under  *)
(* way has a lane, and providers it has not tried before, and its stream is *)
(* of that lane; an ended one has no client that left; a backoff is for a   *)
(* retry that is left; and a wait is only ever pending on a provider that   *)
(* is down.                                                                 *)
WalksOn ==
  /\ \A r \in Calls :
       /\ InFlight(r) => req[r].chain # <<>> /\ Distinct(req[r].chain)
       /\ ~InFlight(r) => ~req[r].gone
       /\ req[r].pc = "backoff" => req[r].tries < MAX_RETRIES_PER_PROVIDER
       /\ req[r].pc = "streaming" => books[r].success = <<Lane(r)>>
  /\ \A p \in Providers : breaker[p].status = "CLOSED" => breaker[p].wait = 0

Inv == EstimatesFollowCalls /\ BilledOnce /\ WalksOn

(* No key, model or provider is worse off than before the step.             *)
NoLaneWorse ==
  /\ \A p \in Providers :
       breaker'[p].failures <= breaker[p].failures /\ breaker'[p].wait <= breaker[p].wait
  /\ \A c \in Connections : cooling'[c] <= cooling[c]
  /\ \A l \in Lanes : locked'[l] <= locked[l]

(* "Recording it as a failure would mark a healthy provider down": whatever *)
(* happens to a request whose client is gone leaves no lane worse off.      *)
GoneBlamesNobody == [][\A r \in Calls : req[r].gone /\ req'[r] # req[r] => NoLaneWorse]_vars

(* However many requests, retries and stale verdicts there are, calls are   *)
(* let through to a provider that is down no more than once per cooldown.   *)
Window == INSTANCE ProbeWindow WITH
  Cooldown <- PROVIDER_COOLDOWN,
  down     <- [p \in Providers |-> breaker[p].status # "CLOSED"],
  quiet    <- [p \in Providers |-> breaker[p].wait]

OneProbePerWindow == Window!WindowSpec

(* What a walk does to the health of providers it owes to them: nobody is   *)
(* blamed for a client that left, nobody is probed out of turn.             *)
BlamesAndProbes == GoneBlamesNobody /\ OneProbePerWindow

(* Every request ends: retries run out, and so does the chain.              *)
EveryRequestEnds == \A r \in Calls : InFlight(r) ~> ~InFlight(r)

(* "A new credential must not inherit the rejected one's cooldown",         *)
(* server.js:1344: a key is benched by the rejection of a call made with    *)
(* it.                                                                      *)
FreshKeyNotBenched ==
  [][\A c \in Connections : cooling'[c] > cooling[c] =>
       \E r \in Calls : /\ InFlight(r) /\ req'[r] # req[r]
                        /\ Lane(r)[1] = c[1] /\ req[r].key = c[2]
                        /\ ~req[r].stale]_vars
=============================================================================
