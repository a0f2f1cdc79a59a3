------------------------------ MODULE BudgetSpec ------------------------------
(***************************************************************************)
(* The cap under any set of concurrent calls.  A call is admitted while    *)
(* the spend is under the cap, holds its estimate, and ends by committing  *)
(* what it cost (an answer, or a stream that broke off) or nothing.        *)
(***************************************************************************)
EXTENDS Budget

CONSTANT
  MaxCost     \* bound: a call turns out to cost 0..MaxCost

ASSUME CostAssumption == MaxCost \in Nat

VARIABLES
  unheld,     \* history: spend of this month that no estimate of this month held
  memory      \* history: whether usage.reload ever made it forget reservations

vars == <<month, committed, reserved, hold, unheld, memory>>

Init == BudgetInit /\ unheld = [p \in Providers |-> 0] /\ memory = "kept"

Admit(c, p, estimate) ==
  /\ hold[c] = Nothing
  /\ ~overBudget(p)
  /\ reserveSpend(c, p, estimate)
  /\ UNCHANGED <<month, committed, unheld>>

(* The estimate held covers a cost up to it, if it is held in this month. *)
Uncovered(c, p, cost) ==
  LET covered == IF hold[c].pocket = Here(p) THEN hold[c].amount ELSE 0
  IN  IF cost > covered THEN cost - covered ELSE 0

(* The call is answered, or its stream ends: the row first, then the hold. *)
Settle(c, p, cost) ==
  /\ hold[c] # Nothing /\ hold[c].pocket[1] = p
  /\ recordUsage(p, cost)
  /\ release(c)
  /\ unheld' = [unheld EXCEPT ![p] = @ + Uncovered(c, p, cost)]
  /\ UNCHANGED month

(* The call failed, or its client hung up: nothing is billed. *)
Abandon(c) ==
  /\ hold[c] # Nothing
  /\ release(c)
  /\ UNCHANGED <<month, committed, unheld>>

Rollover == NextMonth /\ unheld' = [p \in Providers |-> 0]

(* The tool usage.reload. *)
Reload == reload /\ memory' = "reloaded" /\ UNCHANGED unheld

CallOrMonth ==
  \/ \E c \in Calls, p \in Providers :
       \/ \E estimate \in Estimates : Admit(c, p, estimate)
       \/ \E cost \in 0 .. MaxCost : Settle(c, p, cost)
  \/ \E c \in Calls : Abandon(c)
  \/ Rollover

Next == (CallOrMonth /\ UNCHANGED memory) \/ Reload

Spec == Init /\ [][Next]_vars

-----------------------------------------------------------------------------
Typed == BudgetTypeOK /\ unheld \in [Providers -> Nat]

TypeOK == Typed /\ memory \in {"kept", "reloaded"}

(* No estimate stays held after its call: with or without a reload, what is *)
(* held against the cap is at most what the calls in flight hold.           *)
NeverOverHeld == \A b \in Pockets : reserved[b] <= Cardinality(HeldUnits(b))

(* "Hold an estimate against the monthly cap for the duration of the call", *)
(* router.js:226: exactly that, until a reload forgets the calls in flight. *)
HeldUnlessReloaded == memory = "kept" => ReservedIsHeld

(* Both, in states of the types above.                                      *)
HeldAsPromised == TypeOK /\ NeverOverHeld /\ HeldUnlessReloaded

(* "Closes the window where concurrent requests each see a cap as not yet  *)
(* reached and collectively blow through it", costTracker.js:592: they      *)
(* cannot add up to more than one estimate over the cap, but for spend no   *)
(* estimate of this month stood for, a cost above its estimate or of a call *)
(* admitted in an earlier month.                                            *)
CapKept ==
  \A p \in DOMAIN Cap :
    \/ getMonthlySpend(p) < Cap[p] + MaxEstimate + unheld[p]
    \/ getMonthlySpend(p) <= unheld[p]

CapHolds == memory = "kept" => CapKept

(* Nothing is filed under a month that has not begun, so a new month starts *)
(* from nothing: with ReservedIsHeld, what makes CapKept inductive.         *)
NothingAhead ==
  \A p \in Providers, m \in Months :
    m > month => committed[<<p, m>>] = 0 /\ reserved[<<p, m>>] = 0

Kept == Typed /\ ReservedIsHeld /\ NothingAhead /\ CapKept

Inv == TypeOK /\ NeverOverHeld /\ (memory = "kept" => Kept)
=============================================================================
