------------------------------ MODULE BudgetProofs ------------------------------
(***************************************************************************)
(* The cap for any number of calls, providers and months, and any caps and *)
(* estimates: what the calls in flight hold, and what they can add up to.  *)
(* And what was spent of the free tiers, for any tiers, pools and days.    *)
(***************************************************************************)
EXTENDS BudgetSpec, BudgetLemmas, Quota, SequenceTheorems

USE BudgetAssumption, CostAssumption DEF Typed

LEMMA InitKept == Init => Kept
<1> SUFFICES ASSUME Init PROVE Kept
  OBVIOUS
<1> USE DEF Init, BudgetInit
<1>1. Typed
  BY DEF Typed, BudgetTypeOK, Months
<1>2. ReservedIsHeld
  <2>1. ASSUME NEW b \in Pockets PROVE Cardinality(HeldUnits(b)) = 0
    <3>1. HeldUnits(b) = {}
      BY DEF HeldUnits, Nothing
    <3> QED BY <3>1, FS_EmptySet
  <2> QED BY <2>1 DEF ReservedIsHeld
<1>3. NothingAhead /\ CapKept
  BY DEF NothingAhead, CapKept, getMonthlySpend, Here, Pockets, Months
<1> QED BY <1>1, <1>2, <1>3 DEF Kept

LEMMA AdmitStep ==
  ASSUME Kept, NEW c \in Calls, NEW p \in Providers, NEW estimate \in Estimates,
         Admit(c, p, estimate)
  PROVE  Kept'
<1> USE DEF Kept
<1>1. /\ hold[c] = Nothing /\ ~overBudget(p)
      /\ reserved' = [reserved EXCEPT ![Here(p)] = @ + estimate]
      /\ hold' = [hold EXCEPT ![c] = [pocket |-> Here(p), amount |-> estimate]]
      /\ UNCHANGED <<month, committed, unheld>>
  BY DEF Admit, reserveSpend, AfterReserve
<1>2. Here(p) \in Pockets /\ estimate \in Nat
  BY HereType DEF Estimates
<1>3. Typed'
  <2>1. [pocket |-> Here(p), amount |-> estimate] \in Holds
    BY <1>2 DEF Holds
  <2> QED BY <1>1, <1>2, <2>1 DEF Typed, BudgetTypeOK
<1>4. ReservedIsHeld'
  <2>1. \A d \in Calls \ {c} : hold'[d] = hold[d]
    BY <1>1 DEF Typed, BudgetTypeOK
  <2>2. hold'[c] = [pocket |-> Here(p), amount |-> estimate]
    BY <1>1 DEF Typed, BudgetTypeOK
  <2>3. ASSUME NEW b \in Pockets
        PROVE  reserved'[b] = reserved[b] - Share(c, b) + Share(c, b)'
    <3>1. Share(c, b) = 0 /\ reserved[b] \in Nat
      BY <1>1 DEF Share, Nothing, Typed, BudgetTypeOK
    <3>2. Share(c, b)' = IF Here(p) = b THEN estimate ELSE 0
      BY <2>2 DEF Share
    <3>3. reserved'[b] = IF Here(p) = b THEN reserved[b] + estimate ELSE reserved[b]
      BY <1>1 DEF Typed, BudgetTypeOK
    <3> QED BY <1>2, <3>1, <3>2, <3>3
  <2> QED BY <1>3, <2>1, <2>3, HoldStep
<1>5. NothingAhead'
  BY <1>1 DEF NothingAhead, Here, Pockets, Typed, BudgetTypeOK, Months
<1>6. ASSUME NEW q \in DOMAIN Cap
      PROVE  \/ getMonthlySpend(q)' < Cap[q] + MaxEstimate + unheld'[q]
             \/ getMonthlySpend(q)' <= unheld'[q]
  <2>1. q \in Providers /\ Cap[q] \in Nat /\ unheld'[q] = unheld[q] /\ unheld[q] \in Nat
    BY <1>1 DEF Typed
  <2>2. Here(q) \in Pockets /\ Here(q)' = Here(q)
    BY <1>1, <2>1, HereType DEF Here
  <2>3. committed[Here(q)] \in Nat /\ reserved[Here(q)] \in Nat
    BY <2>2 DEF Typed, BudgetTypeOK
  <2>4. CASE q = p
    <3>1. getMonthlySpend(p) < Cap[p]
      BY <1>1, <2>1, <2>3, <2>4 DEF overBudget, getMonthlySpend
    <3>2. getMonthlySpend(p)' = getMonthlySpend(p) + estimate
      BY <1>1, <1>2, <2>2, <2>3, <2>4 DEF getMonthlySpend, Typed, BudgetTypeOK
    <3>3. getMonthlySpend(p) \in Nat
      BY <2>3, <2>4 DEF getMonthlySpend
    <3> QED BY <2>1, <2>4, <3>1, <3>2, <3>3 DEF Estimates
  <2>5. CASE q # p
    <3>1. Here(q) # Here(p)
      BY <2>5 DEF Here
    <3>2. getMonthlySpend(q)' = getMonthlySpend(q)
      BY <1>1, <2>2, <3>1 DEF getMonthlySpend, Typed, BudgetTypeOK
    <3> QED BY <2>1, <3>2 DEF CapKept
  <2> QED BY <2>4, <2>5
<1> QED BY <1>3, <1>4, <1>5, <1>6 DEF CapKept

(* A release, by itself or with the row of the call that ends, keeps all    *)
(* but CapKept.                                                            *)
LEMMA EndStep ==
  ASSUME Kept, NEW c \in Calls, release(c),
         committed' \in [Pockets -> Nat],
         \A b \in Pockets : b[2] > month => committed'[b] = committed[b],
         unheld' \in [Providers -> Nat],
         UNCHANGED month
  PROVE  Typed' /\ ReservedIsHeld' /\ NothingAhead'
<1> USE DEF Kept
<1>1. Typed'
  <2>1. reserved' \in [Pockets -> Nat]
    BY ReleaseSums DEF release
  <2>2. hold' \in [Calls -> Holds \cup {Nothing}]
    BY DEF release, Typed, BudgetTypeOK
  <2> QED BY <2>1, <2>2 DEF Typed, BudgetTypeOK
<1>2. ReservedIsHeld'
  BY <1>1, ReleaseStep
<1>3. ASSUME NEW q \in Providers, NEW m \in Months, m > month
      PROVE  committed'[<<q, m>>] = 0 /\ reserved'[<<q, m>>] = 0
  <2>1. <<q, m>> \in Pockets /\ <<q, m>>[2] = m
    BY DEF Pockets
  <2>2. committed[<<q, m>>] = 0 /\ reserved[<<q, m>>] = 0
    BY <1>3 DEF NothingAhead
  <2>3. committed'[<<q, m>>] = 0
    BY <1>3, <2>1, <2>2
  <2>4. /\ Share(c, <<q, m>>) \in Nat /\ Share(c, <<q, m>>) <= reserved[<<q, m>>]
        /\ reserved'[<<q, m>>] = reserved[<<q, m>>] - Share(c, <<q, m>>)
    BY <2>1, ReleaseSums DEF release
  <2> QED BY <2>2, <2>3, <2>4
<1> QED BY <1>1, <1>2, <1>3 DEF NothingAhead

(* What an ending call does to the spend of a provider in this month.       *)
LEMMA EndSpend ==
  ASSUME Kept, NEW c \in Calls, NEW q \in Providers, release(c), UNCHANGED month
  PROVE  /\ committed[Here(q)] \in Nat /\ reserved[Here(q)] \in Nat
         /\ Share(c, Here(q)) \in Nat
         /\ getMonthlySpend(q)' = committed'[Here(q)] + reserved[Here(q)] - Share(c, Here(q))
<1> USE DEF Kept
<1>1. Here(q) \in Pockets /\ Here(q)' = Here(q)
  BY HereType DEF Here
<1>2. committed[Here(q)] \in Nat /\ reserved[Here(q)] \in Nat
  BY <1>1 DEF Typed, BudgetTypeOK
<1>3. /\ Share(c, Here(q)) \in Nat
      /\ reserved'[Here(q)] = reserved[Here(q)] - Share(c, Here(q))
  BY <1>1, ReleaseSums DEF release
<1>4. getMonthlySpend(q)' = committed'[Here(q)] + reserved'[Here(q)]
  BY <1>1 DEF getMonthlySpend
<1> QED BY <1>1, <1>2, <1>3, <1>4

LEMMA AbandonStep ==
  ASSUME Kept, NEW c \in Calls, Abandon(c)
  PROVE  Kept'
<1> USE DEF Kept
<1>1. release(c) /\ UNCHANGED <<month, committed, unheld>>
  BY DEF Abandon
<1>2. Typed' /\ ReservedIsHeld' /\ NothingAhead'
  BY <1>1, EndStep DEF Typed, BudgetTypeOK
<1>3. ASSUME NEW q \in DOMAIN Cap
      PROVE  \/ getMonthlySpend(q)' < Cap[q] + MaxEstimate + unheld'[q]
             \/ getMonthlySpend(q)' <= unheld'[q]
  <2>1. q \in Providers /\ Cap[q] \in Nat /\ unheld[q] \in Nat
    BY DEF Typed
  <2>2. /\ committed[Here(q)] \in Nat /\ reserved[Here(q)] \in Nat
        /\ Share(c, Here(q)) \in Nat
        /\ getMonthlySpend(q)' = committed[Here(q)] + reserved[Here(q)] - Share(c, Here(q))
    BY <1>1, <2>1, EndSpend
  <2> QED BY <1>1, <2>1, <2>2 DEF CapKept, getMonthlySpend
<1> QED BY <1>2, <1>3 DEF CapKept

LEMMA SettleStep ==
  ASSUME Kept, NEW c \in Calls, NEW p \in Providers, NEW cost \in 0 .. MaxCost,
         Settle(c, p, cost)
  PROVE  Kept'
<1> USE DEF Kept
<1>1. /\ release(c) /\ month' = month
      /\ committed' = [committed EXCEPT ![Here(p)] = @ + cost]
      /\ unheld' = [unheld EXCEPT ![p] = @ + Uncovered(c, p, cost)]
  BY DEF Settle, recordUsage
<1>2. Here(p) \in Pockets /\ Here(p)[2] = month /\ month \in Nat
  BY HereType DEF Here, Typed, BudgetTypeOK, Months
<1>3. Uncovered(c, p, cost) \in Nat
  BY HoldType DEF Uncovered, Estimates
<1>4. Typed' /\ ReservedIsHeld' /\ NothingAhead'
  <2>1. committed' \in [Pockets -> Nat]
    BY <1>1, <1>2 DEF Typed, BudgetTypeOK
  <2>2. \A b \in Pockets : b[2] > month => committed'[b] = committed[b]
    BY <1>1, <1>2 DEF Typed, BudgetTypeOK
  <2>3. unheld' \in [Providers -> Nat]
    BY <1>1, <1>3 DEF Typed
  <2> QED BY <1>1, <2>1, <2>2, <2>3, EndStep
<1>5. ASSUME NEW q \in DOMAIN Cap
      PROVE  \/ getMonthlySpend(q)' < Cap[q] + MaxEstimate + unheld'[q]
             \/ getMonthlySpend(q)' <= unheld'[q]
  <2>1. q \in Providers /\ Cap[q] \in Nat /\ unheld[q] \in Nat
    BY DEF Typed
  <2>2. /\ committed[Here(q)] \in Nat /\ reserved[Here(q)] \in Nat
        /\ Share(c, Here(q)) \in Nat
        /\ getMonthlySpend(q)' = committed'[Here(q)] + reserved[Here(q)] - Share(c, Here(q))
    BY <1>1, <2>1, EndSpend
  <2>3. \/ committed[Here(q)] + reserved[Here(q)] < Cap[q] + MaxEstimate + unheld[q]
        \/ committed[Here(q)] + reserved[Here(q)] <= unheld[q]
    BY DEF CapKept, getMonthlySpend
  <2>4. CASE q = p
    <3>1. committed'[Here(q)] = committed[Here(q)] + cost
      BY <1>1, <1>2, <2>4 DEF Typed, BudgetTypeOK
    <3>2. unheld'[q] = unheld[q] + Uncovered(c, q, cost)
      BY <1>1, <2>1, <2>4 DEF Typed
    <3>3. Uncovered(c, q, cost) >= cost - Share(c, Here(q))
      BY <2>2, HoldType DEF Uncovered, Share, Estimates
    <3>4. Uncovered(c, q, cost) \in Nat
      BY <1>3, <2>4
    <3> QED BY <2>1, <2>2, <2>3, <3>1, <3>2, <3>3, <3>4
  <2>5. CASE q # p
    <3>1. Here(q) # Here(p)
      BY <2>5 DEF Here
    <3>2. committed'[Here(q)] = committed[Here(q)] /\ unheld'[q] = unheld[q]
      BY <1>1, <2>1, <2>5, <3>1, HereType DEF Typed, BudgetTypeOK
    <3> QED BY <2>1, <2>2, <2>3, <3>2
  <2> QED BY <2>4, <2>5
<1> QED BY <1>4, <1>5 DEF CapKept

LEMMA RolloverStep == Kept /\ Rollover => Kept'
<1> SUFFICES ASSUME Kept, Rollover PROVE Kept'
  OBVIOUS
<1> USE DEF Kept
<1>1. /\ month < LastMonth /\ month' = month + 1
      /\ UNCHANGED <<committed, reserved, hold>>
      /\ unheld' = [q \in Providers |-> 0]
  BY DEF Rollover, NextMonth
<1>2. month \in Nat /\ month' \in Months /\ month' > month
  BY <1>1 DEF Typed, BudgetTypeOK, Months
<1>3. Typed'
  BY <1>1, <1>2 DEF Typed, BudgetTypeOK
<1>4. ReservedIsHeld'
  BY <1>1 DEF ReservedIsHeld, HeldUnits
<1>5. NothingAhead'
  BY <1>1, <1>2 DEF NothingAhead, Months
<1>6. CapKept'
  BY <1>1, <1>2 DEF CapKept, NothingAhead, getMonthlySpend, Here
<1> QED BY <1>3, <1>4, <1>5, <1>6

LEMMA KeptStep == Kept /\ CallOrMonth => Kept'
BY AdmitStep, SettleStep, AbandonStep, RolloverStep DEF CallOrMonth

-----------------------------------------------------------------------------
(* After a reload `reserved` no longer sums up what is held, and a release  *)
(* stops at 0.                                                              *)
LEMMA OverStep ==
  ASSUME Typed, Typed', NeverOverHeld, NEW c \in Calls,
         \A d \in Calls \ {c} : hold'[d] = hold[d],
         \A b \in Pockets : \/ reserved'[b] = 0
                            \/ reserved'[b] = reserved[b] - Share(c, b) + Share(c, b)'
  PROVE  NeverOverHeld'
<1>1. Split /\ Split'
  BY HeldSplit, PTL
<1>2. ASSUME NEW b \in Pockets PROVE reserved'[b] <= Cardinality(HeldUnits(b))'
  <2>1. Others(c, b)' = Others(c, b)
    BY DEF Others
  <2>2. /\ Cardinality(Others(c, b)) \in Nat
        /\ Cardinality(HeldUnits(b)) = Cardinality(Others(c, b)) + Share(c, b)
    BY <1>1 DEF Split
  <2>3. Cardinality(HeldUnits(b))' = Cardinality(Others(c, b))' + Share(c, b)'
    BY <1>1 DEF Split
  <2>4. Share(c, b) \in Nat /\ Share(c, b)' \in Nat
    <3>1. hold[c].amount \in Nat /\ hold'[c].amount \in Nat
      BY DEF Typed, BudgetTypeOK, Holds, Nothing, Estimates
    <3> QED BY <3>1 DEF Share
  <2>5. reserved[b] \in Nat /\ reserved[b] <= Cardinality(HeldUnits(b))
    BY DEF Typed, BudgetTypeOK, NeverOverHeld
  <2> QED BY <2>1, <2>2, <2>3, <2>4, <2>5
<1> QED BY <1>2 DEF NeverOverHeld

LEMMA ReleaseOver ==
  ASSUME Typed, NeverOverHeld, NEW c \in Calls, release(c),
         committed' \in [Pockets -> Nat], unheld' \in [Providers -> Nat], UNCHANGED month
  PROVE  Typed' /\ NeverOverHeld'
<1>1. Typed'
  BY ReleaseTyped DEF Typed, BudgetTypeOK
<1>2. \A d \in Calls \ {c} : hold'[d] = hold[d]
  BY DEF release, Typed, BudgetTypeOK
<1>3. hold'[c] = Nothing
  BY DEF release, Typed, BudgetTypeOK
<1>4. ASSUME NEW b \in Pockets
      PROVE  reserved'[b] = 0 \/ reserved'[b] = reserved[b] - Share(c, b) + Share(c, b)'
  <2>1. Share(c, b)' = 0
    BY <1>3 DEF Share, Nothing
  <2>2. Share(c, b) \in Nat /\ reserved[b] \in Nat
    BY HoldType DEF Share, Estimates, Typed, BudgetTypeOK
  <2> QED BY <2>1, <2>2, ReleaseTyped
<1> QED BY <1>1, <1>2, <1>4, OverStep

LEMMA AdmitOver ==
  ASSUME Typed, NeverOverHeld, NEW c \in Calls, NEW p \in Providers,
         NEW estimate \in Estimates, Admit(c, p, estimate)
  PROVE  Typed' /\ NeverOverHeld'
<1>1. /\ hold[c] = Nothing
      /\ reserved' = [reserved EXCEPT ![Here(p)] = @ + estimate]
      /\ hold' = [hold EXCEPT ![c] = [pocket |-> Here(p), amount |-> estimate]]
      /\ UNCHANGED <<month, committed, unheld>>
  BY DEF Admit, reserveSpend, AfterReserve
<1>2. Here(p) \in Pockets /\ estimate \in Nat
  BY HereType DEF Estimates
<1>3. Typed'
  <2>1. [pocket |-> Here(p), amount |-> estimate] \in Holds
    BY <1>2 DEF Holds
  <2> QED BY <1>1, <1>2, <2>1 DEF Typed, BudgetTypeOK
<1>4. \A d \in Calls \ {c} : hold'[d] = hold[d]
  BY <1>1 DEF Typed, BudgetTypeOK
<1>5. hold'[c] = [pocket |-> Here(p), amount |-> estimate]
  BY <1>1 DEF Typed, BudgetTypeOK
<1>6. ASSUME NEW b \in Pockets
      PROVE  reserved'[b] = reserved[b] - Share(c, b) + Share(c, b)'
  <2>1. Share(c, b) = 0 /\ reserved[b] \in Nat
    BY <1>1 DEF Share, Nothing, Typed, BudgetTypeOK
  <2>2. Share(c, b)' = IF Here(p) = b THEN estimate ELSE 0
    BY <1>5 DEF Share
  <2>3. reserved'[b] = IF Here(p) = b THEN reserved[b] + estimate ELSE reserved[b]
    BY <1>1 DEF Typed, BudgetTypeOK
  <2> QED BY <1>2, <2>1, <2>2, <2>3
<1> QED BY <1>3, <1>4, <1>6, OverStep

LEMMA OverInv == Typed /\ NeverOverHeld /\ CallOrMonth => Typed' /\ NeverOverHeld'
<1> SUFFICES ASSUME Typed, NeverOverHeld, CallOrMonth PROVE Typed' /\ NeverOverHeld'
  OBVIOUS
<1>1. ASSUME NEW c \in Calls, NEW p \in Providers, NEW estimate \in Estimates,
             Admit(c, p, estimate)
      PROVE  Typed' /\ NeverOverHeld'
  BY <1>1, AdmitOver
<1>2. ASSUME NEW c \in Calls, NEW p \in Providers, NEW cost \in 0 .. MaxCost, Settle(c, p, cost)
      PROVE  Typed' /\ NeverOverHeld'
  <2>1. Uncovered(c, p, cost) \in Nat /\ Here(p) \in Pockets
    BY HoldType, HereType DEF Uncovered, Estimates
  <2>2. committed' \in [Pockets -> Nat] /\ unheld' \in [Providers -> Nat]
    BY <1>2, <2>1 DEF Settle, recordUsage, Typed, BudgetTypeOK
  <2> QED BY <1>2, <2>2, ReleaseOver DEF Settle
<1>3. ASSUME NEW c \in Calls, Abandon(c) PROVE Typed' /\ NeverOverHeld'
  <2>1. release(c) /\ UNCHANGED <<month, committed, unheld>>
    BY <1>3 DEF Abandon
  <2> QED BY <2>1, ReleaseOver DEF Typed, BudgetTypeOK
<1>4. CASE Rollover
  <2>1. /\ month < LastMonth /\ month' = month + 1
        /\ UNCHANGED <<committed, reserved, hold>>
        /\ unheld' = [q \in Providers |-> 0]
    BY <1>4 DEF Rollover, NextMonth
  <2> QED BY <2>1 DEF Typed, BudgetTypeOK, Months, NeverOverHeld, HeldUnits
<1> QED BY <1>1, <1>2, <1>3, <1>4 DEF CallOrMonth

LEMMA ReloadStep == Typed /\ Reload => Typed' /\ NeverOverHeld'
<1> SUFFICES ASSUME Typed, Reload PROVE Typed' /\ NeverOverHeld'
  OBVIOUS
<1>1. /\ reserved' = [b \in Pockets |-> 0]
      /\ UNCHANGED <<month, committed, hold, unheld>>
  BY DEF Reload, reload
<1>2. Typed'
  BY <1>1 DEF Typed, BudgetTypeOK
<1>3. IsFiniteSet(Calls)
  OBVIOUS
<1>4. ASSUME NEW b \in Pockets PROVE 0 <= Cardinality(HeldUnits(b))'
  <2>1. IsFiniteSet(1 .. MaxEstimate)
    BY FS_Interval
  <2>2. IsFiniteSet(Calls \X (1 .. MaxEstimate))
    BY <1>3, <2>1, FS_Product
  <2>3. HeldUnits(b)' \in SUBSET (Calls \X (1 .. MaxEstimate))
    BY DEF HeldUnits
  <2>4. Cardinality(HeldUnits(b)') \in Nat
    BY <2>2, <2>3, FS_Subset, FS_CardinalityType
  <2> QED BY <2>4
<1> QED BY <1>1, <1>2, <1>4 DEF NeverOverHeld

-----------------------------------------------------------------------------
LEMMA InitInv == Init => Inv
<1> SUFFICES ASSUME Init PROVE Inv
  OBVIOUS
<1>1. Kept
  BY InitKept
<1>2. NeverOverHeld
  <2>1. ASSUME NEW b \in Pockets PROVE reserved[b] <= Cardinality(HeldUnits(b))
    <3>1. reserved[b] = Cardinality(HeldUnits(b)) /\ reserved[b] \in Nat
      BY <1>1 DEF Kept, ReservedIsHeld, Typed, BudgetTypeOK
    <3> QED BY <3>1
  <2> QED BY <2>1 DEF NeverOverHeld
<1> QED BY <1>1, <1>2 DEF Inv, TypeOK, Kept, Init

LEMMA NextInv == Inv /\ [Next]_vars => Inv'
<1> SUFFICES ASSUME Inv, [Next]_vars PROVE Inv'
  OBVIOUS
<1> USE DEF Inv, TypeOK
<1>1. CASE UNCHANGED vars
  BY <1>1 DEF vars, Typed, BudgetTypeOK, NeverOverHeld, Kept, ReservedIsHeld, HeldUnits,
     NothingAhead, CapKept, getMonthlySpend, Here
<1>2. CASE CallOrMonth /\ UNCHANGED memory
  BY <1>2, OverInv, KeptStep
<1>3. CASE Reload
  <2>1. memory' = "reloaded"
    BY <1>3 DEF Reload
  <2> QED BY <1>3, <2>1, ReloadStep
<1> QED BY <1>1, <1>2, <1>3 DEF Next

(* Whatever the calls in flight, and with a reload at any time, no estimate *)
(* outlives its call, and without one `reserved` is exactly what the calls  *)
(* hold: reserveSpend and its release, costTracker.js:595.                  *)
THEOREM HoldsAreReleased == Spec => []HeldAsPromised
<1>1. Inv => HeldAsPromised
  BY DEF Inv, Kept, HeldAsPromised, HeldUnlessReloaded
<1> QED BY InitInv, NextInv, <1>1, PTL DEF Spec

(* As long as nothing reloads, the spend of a month stays within one        *)
(* estimate of the cap, but for what no estimate of that month stood for:   *)
(* the reservations, with the check of router.js:44.                        *)
THEOREM BudgetSafe == Spec => []CapHolds
<1>1. Inv => CapHolds
  BY DEF Inv, Kept, CapHolds
<1> QED BY InitInv, NextInv, <1>1, PTL DEF Spec

-----------------------------------------------------------------------------
(* The quotas: what is counted of a pool is what was asked of it.           *)
OfPool(list, pool) == list \subseteq {i \in DOMAIN asked : asked[i].pool = pool}

(* Lists of calls hold nothing that was not asked of their pool.            *)
Listed(lists) ==
  /\ lists \in [Pools -> [requests : SUBSET Nat, tokens : SUBSET Nat]]
  /\ \A pool \in Pools : OfPool(lists[pool].requests, pool) /\ OfPool(lists[pool].tokens, pool)

(* A call the vendor still counts is in the lists.                          *)
Has(lists, i) ==
  /\ i \in lists[asked[i].pool].requests
  /\ asked[i].tokens > 0 => i \in lists[asked[i].pool].tokens

StillCounts(i) == ~asked[i].lost /\ asked[i].at >= clock - DAY

AskedCalls == [pool : Pools, at : Nat, tokens : Nat, lost : BOOLEAN, unsaved : BOOLEAN]

(* What is not in the file yet will be before the process may forget it.    *)
QuotaInv ==
  /\ clock \in Nat /\ dirty \in BOOLEAN
  /\ asked \in Seq(AskedCalls) /\ \A i \in DOMAIN asked : asked[i].at <= clock
  /\ Listed(events) /\ Listed(quotaFile)
  /\ flushAt = Never \/ (flushAt \in Nat /\ clock <= flushAt /\ flushAt <= clock + FLUSH_MS)
  /\ \A i \in DOMAIN asked : StillCounts(i) =>
       /\ Has(events, i)
       /\ \/ asked[i].unsaved \/ Has(quotaFile, i)
          \/ dirty /\ flushAt # Never /\ flushAt <= asked[i].at + FLUSH_MS

LEMMA QuotaNumbers ==
  MINUTE \in Nat /\ DAY \in Nat /\ DAY > 0 /\ MINUTE < DAY /\ FLUSH_MS \in Nat /\ Tokens \subseteq Nat
BY QuotaAssumption

LEMMA AskedIs ==
  ASSUME asked \in Seq(AskedCalls)
  PROVE  /\ Len(asked) \in Nat /\ DOMAIN asked = 1 .. Len(asked)
         /\ \A i \in DOMAIN asked :
              /\ asked[i] \in AskedCalls
              /\ asked[i].pool \in Pools /\ asked[i].at \in Nat /\ asked[i].tokens \in Nat
              /\ asked[i].lost \in BOOLEAN /\ asked[i].unsaved \in BOOLEAN
<1>1. PICK s, S : s = asked /\ S = AskedCalls
  OBVIOUS
<1>2. s \in Seq(S)
  BY <1>1
<1>3. Len(s) \in Nat /\ DOMAIN s = 1 .. Len(s) /\ \A i \in DOMAIN s : s[i] \in S
  BY <1>2
<1>4. \A c \in AskedCalls :
        /\ c.pool \in Pools /\ c.at \in Nat /\ c.tokens \in Nat
        /\ c.lost \in BOOLEAN /\ c.unsaved \in BOOLEAN
  BY DEF AskedCalls
<1> QED BY <1>1, <1>3, <1>4

LEMMA PoolOf == ASSUME NEW p \in DOMAIN Tiers, Tiers[p] # NoTier PROVE Tiers[p].pool \in Pools
BY DEF Pools

(* The vendor's day began no longer ago than a day.                         *)
LEMMA DayIsADay ==
  ASSUME clock \in Nat, NEW p \in DOMAIN Tiers, Tiers[p] # NoTier
  PROVE  dayStart(p) \in Int /\ dayStart(p) >= clock - DAY
<1>1. PICK at : at = Tiers[p].resetsAt
  OBVIOUS
<1>2. PICK m : m = clock % DAY
  OBVIOUS
<1>3. at \in 0 .. DAY - 1 \cup {Rolling}
  BY <1>1, QuotaAssumption
<1>4. m \in 0 .. DAY - 1
  BY <1>2, QuotaNumbers
<1>5. PICK reset : reset = clock - m + at
  OBVIOUS
<1>8. dayStart(p) = IF at = Rolling THEN clock - DAY
                    ELSE IF reset <= clock THEN reset ELSE reset - DAY
  BY Zenon, <1>1, <1>2, <1>5 DEF dayStart
<1>6. CASE at = Rolling
  BY <1>8, <1>6, QuotaNumbers
<1>7. CASE at # Rolling
  <2>1. at \in 0 .. DAY - 1
    BY <1>3, <1>7
  <2>2. DAY \in Nat
    BY QuotaNumbers
  <2> QED BY <1>4, <1>5, <1>7, <1>8, <2>1, <2>2
<1> QED BY <1>6, <1>7

(* Fewer calls are no more of them, and no more tokens.                     *)
LEMMA UnitsFinite ==
  ASSUME asked \in Seq(AskedCalls), NEW list, list \subseteq DOMAIN asked
  PROVE  IsFiniteSet(list) /\ IsFiniteSet(Units(list))
<1>1. DOMAIN asked = 1 .. Len(asked) /\ Len(asked) \in Nat
  BY AskedIs
<1>2. IsFiniteSet(DOMAIN asked)
  BY <1>1, FS_Interval
<1>3. IsFiniteSet(list)
  BY <1>2, FS_Subset
<1> DEFINE of(i) == {i} \X (1 .. asked[i].tokens)
           T == {of(i) : i \in list}
           f == [i \in list |-> of(i)]
<1>4. ASSUME NEW i \in list PROVE IsFiniteSet(of(i))
  <2>1. asked[i].tokens \in Nat
    BY AskedIs
  <2> DEFINE units == 1 .. asked[i].tokens
             one == {i}
  <2>4. 1 \in Int /\ asked[i].tokens \in Int
    BY <2>1
  <2>5. IsFiniteSet(units)
    BY <2>4, FS_Interval
  <2>6. IsFiniteSet(one)
    BY FS_Singleton
  <2>3. IsFiniteSet(one \X units)
    <3> HIDE DEF one, units
    <3> QED BY <2>5, <2>6, FS_Product
  <2> QED BY <2>3
<1>5. IsFiniteSet(T)
  <2>1. f \in Surjection(list, T)
    <3> HIDE DEF of
    <3> QED BY DEF Surjection
  <2> HIDE DEF T, f
  <2> QED BY <1>3, <2>1, FS_Surjection
<1>6. \A U \in T : IsFiniteSet(U)
  BY <1>4
<1>7. IsFiniteSet(UNION T)
  <2> HIDE DEF T
  <2> QED BY <1>5, <1>6, FS_UNION
<1> QED BY <1>3, <1>7 DEF Units

LEMMA FewerIsLess ==
  ASSUME asked \in Seq(AskedCalls), NEW A, NEW B, Units(A) \subseteq Units(B), B \subseteq DOMAIN asked
  PROVE  /\ Cardinality(Units(A)) \in Nat /\ Cardinality(Units(B)) \in Nat
         /\ Cardinality(Units(A)) <= Cardinality(Units(B))
<1>1. IsFiniteSet(Units(B))
  BY UnitsFinite
<1> HIDE DEF Units
<1>2. IsFiniteSet(Units(A)) /\ Cardinality(Units(A)) <= Cardinality(Units(B))
  BY <1>1, FS_Subset
<1> QED BY <1>1, <1>2, FS_CardinalityType

(* The counts of a pool lie between those of the calls that must be counted *)
(* and those of all that were made.                                         *)
LEMMA CountsLieBetween ==
  ASSUME asked \in Seq(AskedCalls), NEW least, NEW most, NEW requests, NEW tokens,
         least \subseteq requests, requests \subseteq most, tokens \subseteq most,
         most \subseteq DOMAIN asked,
         \A i \in least : asked[i].tokens > 0 => i \in tokens
  PROVE  /\ Cardinality(requests) \in Cardinality(least) .. Cardinality(most)
         /\ Cardinality(Units(tokens)) \in Cardinality(Units(least)) .. Cardinality(Units(most))
<1>1. IsFiniteSet(most)
  BY UnitsFinite
<1>2. IsFiniteSet(requests) /\ Cardinality(requests) <= Cardinality(most)
  BY <1>1, FS_Subset
<1>3. IsFiniteSet(least) /\ Cardinality(least) <= Cardinality(requests)
  BY <1>2, FS_Subset
<1>4. Cardinality(most) \in Nat /\ Cardinality(requests) \in Nat /\ Cardinality(least) \in Nat
  BY <1>1, <1>2, <1>3, FS_CardinalityType
<1>5. Units(tokens) \subseteq Units(most)
  BY DEF Units
<1>6. Units(least) \subseteq Units(tokens)
  <2> SUFFICES ASSUME NEW i \in least, NEW u \in {i} \X (1 .. asked[i].tokens)
               PROVE  i \in tokens
    BY DEF Units
  <2>1. i \in DOMAIN asked
    OBVIOUS
  <2>2. asked[i].tokens \in Nat
    BY <2>1, AskedIs
  <2>3. asked[i].tokens > 0
    BY <2>2
  <2> QED BY <2>3
<1>7. tokens \subseteq DOMAIN asked
  OBVIOUS
<1>8. /\ Cardinality(Units(least)) \in Nat /\ Cardinality(Units(tokens)) \in Nat
      /\ Cardinality(Units(most)) \in Nat
      /\ Cardinality(Units(least)) <= Cardinality(Units(tokens))
      /\ Cardinality(Units(tokens)) <= Cardinality(Units(most))
  BY <1>5, <1>6, <1>7, FewerIsLess
<1> QED BY <1>2, <1>3, <1>4, <1>8

(* The same of those since an instant of the day.                           *)
LEMMA CountedSince ==
  ASSUME QuotaInv, NEW p \in DOMAIN Tiers, Tiers[p] # NoTier, NEW at \in Int, at >= clock - DAY,
         NEW entry, entry = prune(events[Tiers[p].pool])
  PROVE  /\ countSince(entry.requests, at)
              \in countSince(CallsOf(p, FALSE), at) .. countSince(CallsOf(p, TRUE), at)
         /\ sumSince(entry.tokens, at)
              \in sumSince(CallsOf(p, FALSE), at) .. sumSince(CallsOf(p, TRUE), at)
<1> DEFINE pool == Tiers[p].pool
           least == notBefore(CallsOf(p, FALSE), at)
           most == notBefore(CallsOf(p, TRUE), at)
           requests == notBefore(entry.requests, at)
           tokens == notBefore(entry.tokens, at)
<1>1. asked \in Seq(AskedCalls) /\ clock \in Nat /\ DAY \in Nat /\ pool \in Pools
  BY PoolOf, QuotaNumbers DEF QuotaInv
<1>2. \A i \in DOMAIN asked : asked[i].at \in Nat
  BY <1>1, AskedIs
<1>3. /\ entry.requests = notBefore(events[pool].requests, clock - DAY)
      /\ entry.tokens = notBefore(events[pool].tokens, clock - DAY)
  BY DEF prune
<1>4. OfPool(events[pool].requests, pool) /\ OfPool(events[pool].tokens, pool)
  BY <1>1 DEF QuotaInv, Listed
<1>5. requests \subseteq most /\ tokens \subseteq most /\ most \subseteq DOMAIN asked
  BY <1>3, <1>4 DEF OfPool, notBefore, CallsOf
<1>6. ASSUME NEW i \in least
      PROVE  i \in requests /\ (asked[i].tokens > 0 => i \in tokens)
  <2>1. i \in DOMAIN asked /\ asked[i].pool = pool /\ ~asked[i].lost /\ asked[i].at >= at
    BY DEF notBefore, CallsOf
  <2>2. asked[i].at >= clock - DAY
    BY <1>1, <1>2, <2>1
  <2>3. Has(events, i)
    BY <2>1, <2>2 DEF QuotaInv, StillCounts
  <2> QED BY <1>3, <2>1, <2>2, <2>3 DEF Has, notBefore
<1> HIDE DEF least, most, requests, tokens
<1>7. /\ Cardinality(requests) \in Cardinality(least) .. Cardinality(most)
      /\ Cardinality(Units(tokens)) \in Cardinality(Units(least)) .. Cardinality(Units(most))
  BY <1>1, <1>5, <1>6, CountsLieBetween
<1> QED BY <1>7 DEF countSince, sumSince, least, most, requests, tokens

LEMMA InvCounts == QuotaInv => UsedIsAsked
<1> SUFFICES ASSUME QuotaInv, NEW p \in DOMAIN Tiers, Tiers[p] # NoTier,
                    NEW k \in {"requestsThisMinute", "requestsToday", "tokensThisMinute", "tokensToday"}
             PROVE  quotaUsed(p)[k] \in Asked(p, FALSE)[k] .. Asked(p, TRUE)[k]
  BY DEF UsedIsAsked
<1> DEFINE entry == prune(events[Tiers[p].pool])
<1>1. clock - MINUTE \in Int /\ clock - MINUTE >= clock - DAY
  BY QuotaNumbers DEF QuotaInv
<1>2. dayStart(p) \in Int /\ dayStart(p) >= clock - DAY
  BY DayIsADay DEF QuotaInv
<1>3. ASSUME NEW at \in Int, at >= clock - DAY
      PROVE  /\ countSince(entry.requests, at)
                  \in countSince(CallsOf(p, FALSE), at) .. countSince(CallsOf(p, TRUE), at)
             /\ sumSince(entry.tokens, at)
                  \in sumSince(CallsOf(p, FALSE), at) .. sumSince(CallsOf(p, TRUE), at)
  BY <1>3, CountedSince
<1> HIDE DEF entry
<1>4. /\ countSince(entry.requests, clock - MINUTE)
           \in countSince(CallsOf(p, FALSE), clock - MINUTE) .. countSince(CallsOf(p, TRUE), clock - MINUTE)
      /\ sumSince(entry.tokens, clock - MINUTE)
           \in sumSince(CallsOf(p, FALSE), clock - MINUTE) .. sumSince(CallsOf(p, TRUE), clock - MINUTE)
  BY <1>1, <1>3
<1>5. /\ countSince(entry.requests, dayStart(p))
           \in countSince(CallsOf(p, FALSE), dayStart(p)) .. countSince(CallsOf(p, TRUE), dayStart(p))
      /\ sumSince(entry.tokens, dayStart(p))
           \in sumSince(CallsOf(p, FALSE), dayStart(p)) .. sumSince(CallsOf(p, TRUE), dayStart(p))
  BY <1>2, <1>3
<1>6. PICK used, least, most :
        /\ used = quotaUsed(p) /\ least = Asked(p, FALSE) /\ most = Asked(p, TRUE)
  OBVIOUS
<1>7. PICK some, every : some = CallsOf(p, FALSE) /\ every = CallsOf(p, TRUE)
  OBVIOUS
<1>8. used = [requestsThisMinute |-> countSince(entry.requests, clock - MINUTE),
              requestsToday |-> countSince(entry.requests, dayStart(p)),
              tokensThisMinute |-> sumSince(entry.tokens, clock - MINUTE),
              tokensToday |-> sumSince(entry.tokens, dayStart(p))]
  BY Zenon, <1>6 DEF quotaUsed, entry
<1>9. least = [requestsThisMinute |-> countSince(some, clock - MINUTE),
               requestsToday |-> countSince(some, dayStart(p)),
               tokensThisMinute |-> sumSince(some, clock - MINUTE),
               tokensToday |-> sumSince(some, dayStart(p))]
  BY Zenon, <1>6, <1>7 DEF Asked
<1>10. most = [requestsThisMinute |-> countSince(every, clock - MINUTE),
               requestsToday |-> countSince(every, dayStart(p)),
               tokensThisMinute |-> sumSince(every, clock - MINUTE),
               tokensToday |-> sumSince(every, dayStart(p))]
  BY Zenon, <1>6, <1>7 DEF Asked
<1>11. /\ countSince(entry.requests, clock - MINUTE)
            \in countSince(some, clock - MINUTE) .. countSince(every, clock - MINUTE)
       /\ sumSince(entry.tokens, clock - MINUTE)
            \in sumSince(some, clock - MINUTE) .. sumSince(every, clock - MINUTE)
  BY Zenon, <1>4, <1>7
<1>12. /\ countSince(entry.requests, dayStart(p))
            \in countSince(some, dayStart(p)) .. countSince(every, dayStart(p))
       /\ sumSince(entry.tokens, dayStart(p))
            \in sumSince(some, dayStart(p)) .. sumSince(every, dayStart(p))
  BY Zenon, <1>5, <1>7
<1>13. used[k] \in least[k] .. most[k]
  BY <1>8, <1>9, <1>10, <1>11, <1>12
<1> QED BY Zenon, <1>6, <1>13

-----------------------------------------------------------------------------
LEMMA QuotaInitInv == QuotaInit => QuotaInv
<1> SUFFICES ASSUME QuotaInit PROVE QuotaInv
  OBVIOUS
<1>1. asked = <<>> /\ DOMAIN asked = {} /\ asked \in Seq(AskedCalls)
  BY DEF QuotaInit
<1>2. Listed(Empty)
  BY DEF Listed, Empty, OfPool
<1> QED BY <1>1, <1>2, QuotaNumbers DEF QuotaInit, QuotaInv

(* The calls stay what they were; only what is told of them changes.        *)
LEMMA StillListed ==
  ASSUME NEW lists, Listed(lists), DOMAIN asked \subseteq DOMAIN asked',
         \A i \in DOMAIN asked : asked'[i].pool = asked[i].pool
  PROVE  Listed(lists)'
BY DEF Listed, OfPool

LEMMA PruneKeeps ==
  ASSUME Listed(events), NEW pool \in Pools, NEW lists,
         lists = [events EXCEPT ![pool] = prune(events[pool])]
  PROVE  /\ Listed(lists)
         /\ \A i \in DOMAIN asked : asked[i].at >= clock - DAY /\ Has(events, i) => Has(lists, i)
<1>1. events \in [Pools -> [requests : SUBSET Nat, tokens : SUBSET Nat]]
  BY DEF Listed
<1>2. /\ prune(events[pool]).requests = notBefore(events[pool].requests, clock - DAY)
      /\ prune(events[pool]).tokens = notBefore(events[pool].tokens, clock - DAY)
      /\ prune(events[pool]) \in [requests : SUBSET Nat, tokens : SUBSET Nat]
  BY <1>1 DEF prune, notBefore
<1>3. /\ lists \in [Pools -> [requests : SUBSET Nat, tokens : SUBSET Nat]]
      /\ \A k \in Pools : lists[k] = IF k = pool THEN prune(events[pool]) ELSE events[k]
  BY <1>1, <1>2
<1>4. Listed(lists)
  BY <1>2, <1>3 DEF Listed, OfPool, notBefore
<1>5. \A k : k \notin Pools => lists[k] = events[k]
  BY <1>1
<1>6. ASSUME NEW i \in DOMAIN asked, asked[i].at >= clock - DAY, Has(events, i) PROVE Has(lists, i)
  BY <1>2, <1>3, <1>5, <1>6 DEF Has, notBefore
<1> QED BY <1>4, <1>6

LEMMA ConsumeInv == ASSUME QuotaInv, Consume PROVE QuotaInv'
<1>1. PICK p \in DOMAIN Tiers, tokens \in Tokens :
        IF Tiers[p] = NoTier THEN UNCHANGED <<events, dirty, flushAt, asked>>
        ELSE /\ recordFreeUsage(p, tokens)
             /\ asked' = Append(asked, [pool |-> Tiers[p].pool, at |-> clock,
                                        tokens |-> tokens, lost |-> FALSE, unsaved |-> FALSE])
  BY DEF Consume
<1>2. clock' = clock /\ quotaFile' = quotaFile
  BY DEF Consume
<1>3. CASE Tiers[p] = NoTier
  BY <1>1, <1>2, <1>3 DEF QuotaInv, Listed, OfPool, StillCounts, Has
<1>4. CASE Tiers[p] # NoTier
  <2>1. PICK pool, n, lists : /\ pool = Tiers[p].pool /\ n = Len(asked) + 1
                              /\ lists = [events EXCEPT ![pool] = prune(events[pool])]
    OBVIOUS
  <2>2. pool \in Pools
    BY <1>4, <2>1, PoolOf
  <2>3. /\ Len(asked) \in Nat /\ asked \in Seq(AskedCalls) /\ clock \in Nat /\ tokens \in Nat
        /\ DOMAIN asked = 1 .. Len(asked) /\ \A i \in DOMAIN asked : asked[i] \in AskedCalls
    BY QuotaNumbers DEF QuotaInv
  <2>4. /\ Listed(lists)
        /\ \A i \in DOMAIN asked : asked[i].at >= clock - DAY /\ Has(events, i) => Has(lists, i)
    BY <2>1, <2>2, PruneKeeps DEF QuotaInv
  <2>5. /\ asked' \in Seq(AskedCalls) /\ DOMAIN asked' = DOMAIN asked \cup {n}
        /\ n \notin DOMAIN asked /\ n \in Nat
        /\ \A i \in DOMAIN asked : asked'[i] = asked[i]
        /\ asked'[n] = [pool |-> pool, at |-> clock, tokens |-> tokens, lost |-> FALSE, unsaved |-> FALSE]
    <3> DEFINE call == [pool |-> pool, at |-> clock, tokens |-> tokens,
                        lost |-> FALSE, unsaved |-> FALSE]
    <3>1. call \in AskedCalls
      BY <2>2, <2>3 DEF AskedCalls
    <3>2. asked' = Append(asked, call)
      BY <1>1, <1>4, <2>1
    <3> HIDE DEF call
    <3>3. /\ asked' \in Seq(AskedCalls) /\ DOMAIN asked' = DOMAIN asked \cup {n}
          /\ n \notin DOMAIN asked /\ n \in Nat
          /\ \A i \in DOMAIN asked : asked'[i] = asked[i]
          /\ asked'[n] = call
      BY <2>1, <2>3, <3>1, <3>2
    <3> QED BY <3>3 DEF call
  <2>6. /\ lists \in [Pools -> [requests : SUBSET Nat, tokens : SUBSET Nat]]
        /\ lists[pool] = prune(events[pool]) /\ \A k : k # pool => lists[k] = events[k]
    BY <2>1, <2>2, <2>4 DEF Listed, QuotaInv
  <2>7. /\ events' = [events EXCEPT ![pool] =
             [requests |-> prune(events[pool]).requests \cup {n},
              tokens |-> IF tokens > 0 THEN prune(events[pool]).tokens \cup {n}
                         ELSE prune(events[pool]).tokens]]
        /\ dirty' = TRUE
        /\ flushAt' = IF flushAt = Never THEN clock + FLUSH_MS ELSE flushAt
    BY <1>1, <1>4, <2>1 DEF recordFreeUsage
  <2>8. /\ events' \in [Pools -> [requests : SUBSET Nat, tokens : SUBSET Nat]]
        /\ events'[pool].requests = lists[pool].requests \cup {n}
        /\ events'[pool].tokens = IF tokens > 0 THEN lists[pool].tokens \cup {n}
                                  ELSE lists[pool].tokens
        /\ \A k : k # pool => events'[k] = lists[k]
    <3>1. events \in [Pools -> [requests : SUBSET Nat, tokens : SUBSET Nat]]
      BY DEF QuotaInv, Listed
    <3>2. lists[pool].requests \in SUBSET Nat /\ lists[pool].tokens \in SUBSET Nat
      BY <2>2, <2>6
    <3> QED BY <2>2, <2>5, <2>6, <2>7, <3>1, <3>2
  <2>9. Listed(events)'
    <3>1. ASSUME NEW k \in Pools
          PROVE  /\ events'[k].requests \subseteq {i \in DOMAIN asked' : asked'[i].pool = k}
                 /\ events'[k].tokens \subseteq {i \in DOMAIN asked' : asked'[i].pool = k}
      BY <2>4, <2>5, <2>8 DEF Listed, OfPool
    <3> QED BY <2>8, <3>1 DEF Listed, OfPool
  <2>10. Listed(quotaFile)'
    <3>1. PICK l : l = quotaFile
      OBVIOUS
    <3>2. Listed(l)'
      BY <2>5, <3>1, StillListed DEF QuotaInv
    <3> QED BY <1>2, <3>1, <3>2 DEF Listed, OfPool
  <2>11. flushAt' \in Nat /\ clock <= flushAt' /\ flushAt' <= clock + FLUSH_MS /\ flushAt' # Never
    BY <2>3, <2>7, QuotaNumbers DEF QuotaInv, Never
  <2>12. ASSUME NEW i \in DOMAIN asked', StillCounts(i)'
         PROVE  /\ Has(events, i)'
                /\ \/ asked'[i].unsaved \/ Has(quotaFile, i)'
                   \/ dirty' /\ flushAt' # Never /\ flushAt' <= asked'[i].at + FLUSH_MS
    <3>1. CASE i = n
      BY <2>3, <2>5, <2>7, <2>8, <2>11, <3>1 DEF Has
    <3>2. CASE i \in DOMAIN asked
      <4>1. asked'[i] = asked[i] /\ StillCounts(i) /\ asked[i].at >= clock - DAY
        BY <1>2, <2>5, <2>12, <3>2 DEF StillCounts
      <4>2. /\ Has(events, i) /\ Has(lists, i)
            /\ \/ asked[i].unsaved \/ Has(quotaFile, i)
               \/ dirty /\ flushAt # Never /\ flushAt <= asked[i].at + FLUSH_MS
        BY <2>4, <3>2, <4>1 DEF QuotaInv
      <4>3. Has(events, i)'
        BY <2>5, <2>8, <4>1, <4>2 DEF Has
      <4>4. Has(quotaFile, i) => Has(quotaFile, i)'
        BY <1>2, <4>1 DEF Has
      <4> QED BY <2>7, <4>1, <4>2, <4>3, <4>4
    <3> QED BY <2>5, <2>12, <3>1, <3>2
  <2>13. \A i \in DOMAIN asked' : asked'[i].at <= clock
    BY <2>3, <2>5 DEF QuotaInv
  <2> QED BY <1>2, <2>3, <2>5, <2>7, <2>9, <2>10, <2>11, <2>12, <2>13 DEF QuotaInv
<1> QED BY <1>3, <1>4

(* What is told of the calls changes, and nothing else of them.             *)
Told ==
  /\ asked' \in Seq(AskedCalls) /\ DOMAIN asked' = DOMAIN asked
  /\ \A i \in DOMAIN asked :
       /\ asked'[i].pool = asked[i].pool /\ asked'[i].at = asked[i].at
       /\ asked'[i].tokens = asked[i].tokens

LEMMA ToldIs ==
  ASSUME asked \in Seq(AskedCalls), NEW f, asked' = [i \in DOMAIN asked |-> f[i]],
         \A i \in DOMAIN asked : /\ f[i] \in AskedCalls
                                /\ f[i].pool = asked[i].pool /\ f[i].at = asked[i].at
                                /\ f[i].tokens = asked[i].tokens
  PROVE  Told
<1>1. DOMAIN asked = 1 .. Len(asked) /\ Len(asked) \in Nat
  BY AskedIs
<1>2. PICK s, S, n : s = asked' /\ S = AskedCalls /\ n = Len(asked)
  OBVIOUS
<1>3. n \in Nat /\ s \in [1 .. n -> S] /\ DOMAIN s = 1 .. n
  BY <1>1, <1>2
<1>4. s \in Seq(S)
  BY <1>3, SeqDef
<1> QED BY <1>1, <1>2, <1>3, <1>4 DEF Told

LEMMA ToldKeeps ==
  ASSUME Told
  PROVE  /\ Listed(events) /\ (events' = events \/ events' = quotaFile) /\ Listed(quotaFile) => Listed(events)'
         /\ Listed(events) /\ (quotaFile' = events \/ quotaFile' = quotaFile) /\ Listed(quotaFile)
              => Listed(quotaFile)'
<1>1. PICK e, q : e = events /\ q = quotaFile
  OBVIOUS
<1>2. Listed(e) => Listed(e)'
  BY StillListed DEF Told
<1>3. Listed(q) => Listed(q)'
  BY StillListed DEF Told
<1> QED BY <1>1, <1>2, <1>3 DEF Listed, OfPool

LEMMA LookInv == ASSUME QuotaInv, Look PROVE QuotaInv'
<1>1. PICK pool \in Pools : events' = [events EXCEPT ![pool] = prune(events[pool])]
  BY DEF Look
<1>2. UNCHANGED <<clock, quotaFile, dirty, flushAt, asked>>
  BY DEF Look
<1>3. PICK lists : lists = events'
  OBVIOUS
<1>4. /\ Listed(lists)
      /\ \A i \in DOMAIN asked : asked[i].at >= clock - DAY /\ Has(events, i) => Has(lists, i)
  BY <1>1, <1>3, PruneKeeps DEF QuotaInv
<1>5. Listed(events)' /\ Listed(quotaFile)'
  BY <1>2, <1>3, <1>4 DEF Listed, OfPool, QuotaInv
<1>6. ASSUME NEW i \in DOMAIN asked', StillCounts(i)'
      PROVE  /\ Has(events, i)'
             /\ \/ asked'[i].unsaved \/ Has(quotaFile, i)'
                \/ dirty' /\ flushAt' # Never /\ flushAt' <= asked'[i].at + FLUSH_MS
  <2>1. i \in DOMAIN asked /\ StillCounts(i) /\ asked[i].at >= clock - DAY
    BY <1>2, <1>6 DEF StillCounts
  <2>2. Has(events, i) => Has(events, i)'
    BY <1>2, <1>3, <1>4, <2>1 DEF Has
  <2>3. Has(quotaFile, i) => Has(quotaFile, i)'
    BY <1>2 DEF Has
  <2> QED BY <1>2, <2>1, <2>2, <2>3 DEF QuotaInv
<1> QED BY <1>2, <1>5, <1>6 DEF QuotaInv

(* What the timer writes is all there is.                                   *)
LEMMA TimerFiresInv == ASSUME QuotaInv, TimerFires PROVE QuotaInv'
<1>1. PICK ok \in BOOLEAN : flush(ok)
  BY DEF TimerFires
<1>2. flushAt = clock /\ flushAt' = Never /\ clock' = clock /\ events' = events
  BY DEF TimerFires
<1>3. /\ dirty' = FALSE
      /\ quotaFile' = IF dirty /\ ok THEN events ELSE quotaFile
      /\ asked' = IF ~dirty THEN asked
                  ELSE [i \in DOMAIN asked |-> [asked[i] EXCEPT !.unsaved = ~ok]]
  BY <1>1 DEF flush
<1>4. asked \in Seq(AskedCalls)
  BY DEF QuotaInv
<1>5. /\ Told
      /\ \A i \in DOMAIN asked : /\ asked'[i].lost = asked[i].lost
                                 /\ asked'[i].unsaved = IF dirty THEN ~ok ELSE asked[i].unsaved
  <2>1. CASE ~dirty
    BY <1>3, <1>4, <2>1 DEF Told
  <2>2. CASE dirty
    <3> DEFINE f == [i \in DOMAIN asked |-> [asked[i] EXCEPT !.unsaved = ~ok]]
    <3>1. asked' = f
      BY <1>3, <2>2
    <3>2. ASSUME NEW i \in DOMAIN asked
          PROVE  /\ f[i] \in AskedCalls
                 /\ f[i].pool = asked[i].pool /\ f[i].at = asked[i].at
                 /\ f[i].tokens = asked[i].tokens
                 /\ f[i].lost = asked[i].lost /\ f[i].unsaved = ~ok
      <4>1. asked[i] \in AskedCalls
        BY <1>4, AskedIs
      <4> QED BY <4>1 DEF AskedCalls
    <3>3. asked' = [i \in DOMAIN asked |-> f[i]]
      BY <3>1
    <3> HIDE DEF f
    <3>4. Told
      BY <1>4, <3>2, <3>3, ToldIs
    <3> QED BY <2>2, <3>1, <3>2, <3>4
  <2> QED BY <2>1, <2>2
<1>6. Listed(events)' /\ Listed(quotaFile)'
  BY <1>2, <1>3, <1>5, ToldKeeps DEF QuotaInv
<1>7. ASSUME NEW i \in DOMAIN asked', StillCounts(i)'
      PROVE  Has(events, i)' /\ (asked'[i].unsaved \/ Has(quotaFile, i)')
  <2>1. i \in DOMAIN asked /\ StillCounts(i)
    BY <1>2, <1>5, <1>7 DEF StillCounts, Told
  <2>2. /\ Has(events, i)
        /\ asked[i].unsaved \/ Has(quotaFile, i) \/ dirty
    BY <2>1 DEF QuotaInv
  <2>3. Has(events, i)'
    BY <1>2, <1>5, <2>1, <2>2 DEF Has, Told
  <2>4. CASE dirty
    BY <1>2, <1>3, <1>5, <2>1, <2>3, <2>4 DEF Has
  <2>5. CASE ~dirty
    <3>1. quotaFile' = quotaFile /\ (Has(quotaFile, i) => Has(quotaFile, i)')
      BY <1>3, <1>5, <2>1, <2>5 DEF Has, Told
    <3>2. asked'[i].unsaved = asked[i].unsaved
      BY <1>5, <2>1, <2>5
    <3> QED BY <2>2, <2>3, <2>5, <3>1, <3>2
  <2> QED BY <2>3, <2>4, <2>5
<1>8. \A i \in DOMAIN asked' : asked'[i].at <= clock'
  BY <1>2, <1>5 DEF Told, QuotaInv
<1> QED BY <1>2, <1>3, <1>5, <1>6, <1>7, <1>8 DEF QuotaInv, Told

LEMMA ResetQuotaInv == ASSUME QuotaInv, resetQuota PROVE QuotaInv'
<1>1. events' = Empty /\ dirty' = FALSE /\ clock' = clock /\ flushAt' = flushAt
  BY DEF resetQuota
<1>2. CASE quotaFile' = Empty /\ asked' = <<>>
  <2>1. Listed(events)' /\ Listed(quotaFile)'
    BY <1>1, <1>2 DEF Listed, Empty, OfPool
  <2>2. asked' \in Seq(AskedCalls) /\ DOMAIN asked' = {}
    BY <1>2
  <2> QED BY <1>1, <2>1, <2>2 DEF QuotaInv
<1>3. CASE /\ quotaFile' = quotaFile
           /\ asked' = [i \in DOMAIN asked |-> [asked[i] EXCEPT !.lost = TRUE, !.unsaved = TRUE]]
  <2>1. asked \in Seq(AskedCalls)
    BY DEF QuotaInv
  <2> DEFINE f == [i \in DOMAIN asked |-> [asked[i] EXCEPT !.lost = TRUE, !.unsaved = TRUE]]
  <2>2. ASSUME NEW i \in DOMAIN asked
        PROVE  /\ f[i] \in AskedCalls
               /\ f[i].pool = asked[i].pool /\ f[i].at = asked[i].at
               /\ f[i].tokens = asked[i].tokens /\ f[i].lost = TRUE
    <3>1. asked[i] \in AskedCalls
      BY <2>1, AskedIs
    <3> QED BY <3>1 DEF AskedCalls
  <2>3. asked' = f /\ asked' = [i \in DOMAIN asked |-> f[i]]
    BY <1>3
  <2> HIDE DEF f
  <2>4. Told
    BY <2>1, <2>2, <2>3, ToldIs
  <2>5. \A i \in DOMAIN asked' : ~StillCounts(i)'
    BY <2>2, <2>3, <2>4 DEF StillCounts, Told
  <2>6. Listed(quotaFile)'
    BY <1>3, <2>4, ToldKeeps DEF QuotaInv
  <2>7. Listed(events)'
    BY <1>1 DEF Listed, Empty, OfPool
  <2>8. \A i \in DOMAIN asked' : asked'[i].at <= clock'
    BY <1>1, <2>4 DEF Told, QuotaInv
  <2> QED BY <1>1, <2>4, <2>5, <2>6, <2>7, <2>8 DEF QuotaInv, Told
<1> QED BY <1>2, <1>3 DEF resetQuota

(* A process that starts finds in the file all that may not be forgotten.   *)
LEMMA QuotaRestartInv == ASSUME QuotaInv, Restart PROVE QuotaInv'
<1>1. events' = quotaFile /\ dirty' = FALSE /\ flushAt' = Never /\ clock' = clock /\ quotaFile' = quotaFile
  BY DEF Restart
<1>2. asked \in Seq(AskedCalls)
  BY DEF QuotaInv
<1> DEFINE f == [i \in DOMAIN asked |->
                   [asked[i] EXCEPT !.lost = @ \/ asked[i].unsaved \/ clock - asked[i].at <= FLUSH_MS]]
<1>3. ASSUME NEW i \in DOMAIN asked
      PROVE  /\ f[i] \in AskedCalls
             /\ f[i].pool = asked[i].pool /\ f[i].at = asked[i].at
             /\ f[i].tokens = asked[i].tokens
             /\ f[i].lost = (asked[i].lost \/ asked[i].unsaved \/ clock - asked[i].at <= FLUSH_MS)
  <2>1. asked[i] \in AskedCalls
    BY <1>2, AskedIs
  <2>2. PICK b \in BOOLEAN : b = (asked[i].lost \/ asked[i].unsaved \/ clock - asked[i].at <= FLUSH_MS)
    OBVIOUS
  <2>3. f[i] = [asked[i] EXCEPT !.lost = b]
    BY <2>2
  <2> HIDE DEF f
  <2>4. /\ f[i] \in AskedCalls
        /\ f[i].pool = asked[i].pool /\ f[i].at = asked[i].at
        /\ f[i].tokens = asked[i].tokens /\ f[i].lost = b
    BY <2>1, <2>3 DEF AskedCalls
  <2> QED BY <2>2, <2>4
<1>4. asked' = f /\ asked' = [i \in DOMAIN asked |-> f[i]]
  BY DEF Restart
<1> HIDE DEF f
<1>5. Told
  BY <1>2, <1>3, <1>4, ToldIs
<1>6. Listed(events)' /\ Listed(quotaFile)'
  BY <1>1, <1>5, ToldKeeps DEF QuotaInv
<1>7. ASSUME NEW i \in DOMAIN asked', StillCounts(i)'
      PROVE  Has(events, i)' /\ Has(quotaFile, i)'
  <2>1. /\ i \in DOMAIN asked /\ StillCounts(i) /\ ~asked[i].unsaved
        /\ ~(clock - asked[i].at <= FLUSH_MS)
    BY <1>1, <1>3, <1>4, <1>5, <1>7 DEF StillCounts, Told
  <2>2. Has(quotaFile, i) \/ (flushAt # Never /\ flushAt <= asked[i].at + FLUSH_MS)
    BY <2>1 DEF QuotaInv
  <2>3. /\ clock \in Nat /\ asked[i].at \in Nat /\ FLUSH_MS \in Nat
        /\ flushAt # Never => flushAt \in Nat /\ clock <= flushAt
    BY <1>2, <2>1, AskedIs, QuotaNumbers DEF QuotaInv
  <2>4. Has(quotaFile, i)
    BY <2>1, <2>2, <2>3
  <2> QED BY <1>1, <1>5, <2>1, <2>4 DEF Has, Told
<1>8. \A i \in DOMAIN asked' : asked'[i].at <= clock'
  BY <1>1, <1>5 DEF Told, QuotaInv
<1> QED BY <1>1, <1>5, <1>6, <1>7, <1>8 DEF QuotaInv, Told

LEMMA QuotaTickInv == ASSUME QuotaInv, QuotaTick PROVE QuotaInv'
<1>1. /\ clock' = clock + 1 /\ flushAt # clock /\ events' = events /\ quotaFile' = quotaFile
      /\ dirty' = dirty /\ flushAt' = flushAt /\ asked' = asked
  BY DEF QuotaTick
<1>2. clock \in Nat /\ DAY \in Nat /\ FLUSH_MS \in Nat /\ asked \in Seq(AskedCalls)
  BY QuotaNumbers DEF QuotaInv
<1>3. Listed(events)' /\ Listed(quotaFile)'
  BY <1>1 DEF Listed, OfPool, QuotaInv
<1>4. \A i \in DOMAIN asked : asked[i].at \in Nat /\ asked[i].at <= clock
  BY <1>2, AskedIs DEF QuotaInv
<1>5. \A i \in DOMAIN asked : StillCounts(i)' => StillCounts(i)
  BY <1>1, <1>2, <1>4 DEF StillCounts
<1>6. \A i : (Has(events, i) => Has(events, i)') /\ (Has(quotaFile, i) => Has(quotaFile, i)')
  BY <1>1 DEF Has
<1>7. flushAt' = Never \/ (flushAt' \in Nat /\ clock' <= flushAt' /\ flushAt' <= clock' + FLUSH_MS)
  BY <1>1, <1>2 DEF QuotaInv, Never
<1>8. \A i \in DOMAIN asked' : asked'[i].at <= clock'
  BY <1>1, <1>2, <1>4
<1>9. \A i \in DOMAIN asked' : StillCounts(i)' =>
        /\ Has(events, i)'
        /\ \/ asked'[i].unsaved \/ Has(quotaFile, i)'
           \/ dirty' /\ flushAt' # Never /\ flushAt' <= asked'[i].at + FLUSH_MS
  BY <1>1, <1>5, <1>6 DEF QuotaInv
<1>10. clock' \in Nat /\ dirty' \in BOOLEAN /\ asked' \in Seq(AskedCalls)
  BY <1>1, <1>2 DEF QuotaInv
<1> QED BY <1>3, <1>7, <1>8, <1>9, <1>10 DEF QuotaInv

(* What a free pool is said to have used is what was asked of it: no more,  *)
(* and less only by what the process may forget.                            *)
THEOREM QuotaIsWhatWasAsked == QuotaSpec => []UsedIsAsked
<1>1. QuotaInit => QuotaInv
  BY QuotaInitInv
<1>2. QuotaInv /\ [QuotaNext]_quotaVars => QuotaInv'
  <2> SUFFICES ASSUME QuotaInv, [QuotaNext]_quotaVars PROVE QuotaInv'
    OBVIOUS
  <2>1. CASE Consume
    BY <2>1, ConsumeInv
  <2>2. CASE TimerFires
    BY <2>2, TimerFiresInv
  <2>3. CASE Look
    BY <2>3, LookInv
  <2>4. CASE resetQuota
    BY <2>4, ResetQuotaInv
  <2>5. CASE Restart
    BY <2>5, QuotaRestartInv
  <2>6. CASE QuotaTick
    BY <2>6, QuotaTickInv
  <2>7. CASE UNCHANGED quotaVars
    BY <2>7 DEF quotaVars, QuotaInv, Listed, OfPool, StillCounts, Has
  <2> QED BY <2>1, <2>2, <2>3, <2>4, <2>5, <2>6, <2>7 DEF QuotaNext
<1>3. QuotaInv => UsedIsAsked
  BY InvCounts
<1> QED BY <1>1, <1>2, <1>3, PTL DEF QuotaSpec
==============================================================================
