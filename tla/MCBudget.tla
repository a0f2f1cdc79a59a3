------------------------------- MODULE MCBudget -------------------------------
(* Three calls to one capped provider over two months: enough for two calls *)
(* to race for what is left of the cap while a third outlives its month.    *)
EXTENDS BudgetSpec

MCCap == [p \in Providers |-> 3]
=============================================================================
