-------------------------------- MODULE Budget --------------------------------
(***************************************************************************)
(* The monthly cap of src/src/storage/costTracker.js: spend committed by   *)
(* recordUsage, estimates held by reserveSpend while a call is in flight,  *)
(* and the check of src/src/routing/router.js that adds the two up.        *)
(*                                                                         *)
(* Money is counted in whole units, each worth more than the $0.000001 of  *)
(* rounding error that a release throws away.  A month is its number; the  *)
(* code's key for a pocket is `provider::YYYY-MM`, in UTC.                 *)
(***************************************************************************)
EXTENDS Registry, FiniteSets

CONSTANTS
  Calls,          \* calls that can be in flight at once
  Cap,            \* budgetCapsUsd: a function on the capped providers
  MaxEstimate,    \* bound: estimateRequestCost returns 0..MaxEstimate
  LastMonth       \* bound: months are 1..LastMonth

ASSUME BudgetAssumption ==
  /\ IsFiniteSet(Calls)
  /\ DOMAIN Cap \subseteq Providers /\ \A p \in DOMAIN Cap : Cap[p] \in Nat
  /\ MaxEstimate \in Nat
  /\ LastMonth \in Nat \ {0}

VARIABLES
  month,       \* the current month
  committed,   \* agg.monthly
  reserved,    \* the map of the same name
  hold         \* what the release function of each call would give back

budgetVars == <<month, committed, reserved, hold>>

Months    == 1 .. LastMonth
Estimates == 0 .. MaxEstimate
Pockets   == Providers \X Months        \* a provider in a month
Here(p)   == <<p, month>>

(* A call that holds nothing: none was reserved, or it was released.       *)
Nothing == [pocket |-> <<>>, amount |-> 0]
Holds   == [pocket : Pockets, amount : Estimates]

BudgetTypeOK ==
  /\ month \in Months
  /\ committed \in [Pockets -> Nat]
  /\ reserved \in [Pockets -> Nat]
  /\ hold \in [Calls -> Holds \cup {Nothing}]

BudgetInit ==
  /\ month = 1
  /\ committed = [b \in Pockets |-> 0]
  /\ reserved = [b \in Pockets |-> 0]
  /\ hold = [c \in Calls |-> Nothing]

-----------------------------------------------------------------------------
getMonthlySpend(p) == committed[Here(p)] + reserved[Here(p)]

(* Mutant: the estimates of calls in flight are not looked at.              *)
overBudgetCommitted(p) == p \in DOMAIN Cap /\ committed[Here(p)] >= Cap[p]

overBudget(p) == p \in DOMAIN Cap /\ getMonthlySpend(p) >= Cap[p]

(* Mutant: the estimate replaces those of other calls.                      *)
AfterReserveAlone(sums, p, estimate) == [sums EXCEPT ![Here(p)] = estimate]

(* reserveSpend: the month is fixed now, and stays with the release.  An   *)
(* estimate of 0 (a free provider) is held and released without effect.    *)
AfterReserve(sums, p, estimate) == [sums EXCEPT ![Here(p)] = @ + estimate]

reserveSpend(c, p, estimate) ==
  /\ reserved' = AfterReserve(reserved, p, estimate)
  /\ hold' = [hold EXCEPT ![c] = [pocket |-> Here(p), amount |-> estimate]]

(* Mutant: the release finds its pocket by the month it is called in.       *)
AfterReleaseHere(c) ==
  LET p == hold[c].pocket[1]  left == reserved[Here(p)] - hold[c].amount
  IN  IF hold[c] = Nothing THEN reserved
      ELSE [reserved EXCEPT ![Here(p)] = IF left > 0 THEN left ELSE 0]

(* The function reserveSpend returned.  Calling it again does nothing; an  *)
(* entry that would fall to 0 or below is deleted, which reads as 0.       *)
AfterRelease(c) ==
  LET left == reserved[hold[c].pocket] - hold[c].amount
  IN  IF hold[c] = Nothing THEN reserved
      ELSE [reserved EXCEPT ![hold[c].pocket] = IF left > 0 THEN left ELSE 0]

release(c) == reserved' = AfterRelease(c) /\ hold' = [hold EXCEPT ![c] = Nothing]

(* recordUsage: the row is filed under the month it is written in.         *)
recordUsage(p, cost) == committed' = [committed EXCEPT ![Here(p)] = @ + cost]

(* reload, behind the MCP tool usage.reload: the aggregates are read again *)
(* from the ledger, the reservations are forgotten, and the calls that     *)
(* made them are still in flight.                                          *)
reload == reserved' = [b \in Pockets |-> 0] /\ UNCHANGED <<month, committed, hold>>

NextMonth == month < LastMonth /\ month' = month + 1 /\ UNCHANGED <<committed, reserved, hold>>

-----------------------------------------------------------------------------
(* The units the calls in flight hold in a pocket, each with its holder.   *)
HeldUnits(b) ==
  {u \in Calls \X (1 .. MaxEstimate) :
     hold[u[1]].pocket = b /\ u[2] <= hold[u[1]].amount}

(* The sum in `reserved` is what the calls in flight hold, to the unit:    *)
(* a call that ended gave back its own estimate, once, in the month it was *)
(* taken in.  "Hold an estimate against the monthly cap for the duration   *)
(* of the call", router.js:226.                                            *)
ReservedIsHeld == \A b \in Pockets : reserved[b] = Cardinality(HeldUnits(b))
=============================================================================
