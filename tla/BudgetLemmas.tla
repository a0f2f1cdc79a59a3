------------------------------ MODULE BudgetLemmas ------------------------------
(***************************************************************************)
(* What reserveSpend and its release do to the sums of costTracker.js, for *)
(* any calls, estimates and pockets.  The sum in `reserved` is compared    *)
(* with a cardinality, so the lemmas first take the units one call holds   *)
(* out of those all calls hold.                                            *)
(***************************************************************************)
EXTENDS Budget, FiniteSetTheorems, TLAPS

USE BudgetAssumption

(* What the calls other than c hold in pocket b, and what c holds in it.    *)
Others(c, b) ==
  {u \in (Calls \ {c}) \X (1 .. MaxEstimate) :
     hold[u[1]].pocket = b /\ u[2] <= hold[u[1]].amount}

Share(c, b) == IF hold[c].pocket = b THEN hold[c].amount ELSE 0

Split ==
  \A c \in Calls, b \in Pockets :
    /\ Cardinality(Others(c, b)) \in Nat
    /\ Cardinality(HeldUnits(b)) = Cardinality(Others(c, b)) + Share(c, b)

LEMMA HoldType ==
  ASSUME BudgetTypeOK, NEW c \in Calls
  PROVE  hold[c].amount \in Estimates
BY DEF BudgetTypeOK, Holds, Nothing, Estimates

LEMMA HeldSplit == BudgetTypeOK => Split
<1> SUFFICES ASSUME BudgetTypeOK, NEW c \in Calls, NEW b \in Pockets
             PROVE  /\ Cardinality(Others(c, b)) \in Nat
                    /\ Cardinality(HeldUnits(b)) = Cardinality(Others(c, b)) + Share(c, b)
  BY DEF Split
<1> DEFINE mine == {c} \X (1 .. Share(c, b))
<1>1. Share(c, b) \in 0 .. MaxEstimate
  BY HoldType DEF Share, Estimates
<1>2. IsFiniteSet(mine) /\ Cardinality(mine) = Share(c, b)
  <2>1. IsFiniteSet({c}) /\ Cardinality({c}) = 1
    BY FS_Singleton
  <2>2. IsFiniteSet(1 .. Share(c, b)) /\ Cardinality(1 .. Share(c, b)) = Share(c, b)
    BY <1>1, FS_Interval
  <2> DEFINE one == {c}
             units == 1 .. Share(c, b)
  <2>3. /\ IsFiniteSet(one \X units)
        /\ Cardinality(one \X units) = Cardinality(one) * Cardinality(units)
    <3> HIDE DEF one, units
    <3> QED BY <2>1, <2>2, FS_Product DEF one, units
  <2> QED BY <1>1, <2>1, <2>2, <2>3
<1>3. IsFiniteSet(Others(c, b)) /\ Cardinality(Others(c, b)) \in Nat
  <2>1. IsFiniteSet(Calls \ {c})
    BY FS_RemoveElement
  <2>2. IsFiniteSet(1 .. MaxEstimate)
    BY FS_Interval
  <2>3. IsFiniteSet((Calls \ {c}) \X (1 .. MaxEstimate))
    BY <2>1, <2>2, FS_Product
  <2>4. Others(c, b) \in SUBSET ((Calls \ {c}) \X (1 .. MaxEstimate))
    BY DEF Others
  <2> QED BY <2>3, <2>4, FS_Subset, FS_CardinalityType
<1>4. HeldUnits(b) = Others(c, b) \cup mine
  <2>1. ASSUME NEW u \in HeldUnits(b) PROVE u \in Others(c, b) \cup mine
    <3>1. /\ u \in Calls \X (1 .. MaxEstimate)
          /\ hold[u[1]].pocket = b /\ u[2] <= hold[u[1]].amount
      BY DEF HeldUnits
    <3>2. CASE u[1] = c
      BY <1>1, <3>1, <3>2 DEF Share
    <3>3. CASE u[1] # c
      BY <3>1, <3>3 DEF Others
    <3> QED BY <3>2, <3>3
  <2>2. ASSUME NEW u \in Others(c, b) PROVE u \in HeldUnits(b)
    BY DEF Others, HeldUnits
  <2>3. ASSUME NEW u \in mine PROVE u \in HeldUnits(b)
    <3>1. u[1] = c /\ u[2] \in 1 .. Share(c, b) /\ u = <<u[1], u[2]>>
      OBVIOUS
    <3>2. hold[c].pocket = b /\ u[2] <= hold[c].amount
      BY <1>1, <3>1 DEF Share
    <3> QED BY <1>1, <3>1, <3>2 DEF HeldUnits
  <2> QED BY <2>1, <2>2, <2>3
<1>5. Others(c, b) \cap mine = {}
  BY DEF Others
<1>6. Cardinality(Others(c, b) \cap mine) = 0
  BY <1>5, FS_EmptySet
<1> HIDE DEF mine
<1>7. Cardinality(Others(c, b) \cup mine)
        = Cardinality(Others(c, b)) + Cardinality(mine) - Cardinality(Others(c, b) \cap mine)
  BY <1>2, <1>3, FS_Union
<1> QED BY <1>1, <1>2, <1>3, <1>4, <1>6, <1>7

(* A step that changes what c holds, and changes the sums by as much, keeps *)
(* them equal to what is held.                                              *)
LEMMA HoldStep ==
  ASSUME BudgetTypeOK, BudgetTypeOK', ReservedIsHeld, NEW c \in Calls,
         \A d \in Calls \ {c} : hold'[d] = hold[d],
         \A b \in Pockets : reserved'[b] = reserved[b] - Share(c, b) + Share(c, b)'
  PROVE  ReservedIsHeld'
<1>1. Split /\ Split'
  BY HeldSplit, PTL
<1>2. ASSUME NEW b \in Pockets PROVE reserved'[b] = Cardinality(HeldUnits(b))'
  <2>1. Others(c, b)' = Others(c, b)
    BY DEF Others
  <2>2. /\ Cardinality(Others(c, b)) \in Nat
        /\ Cardinality(HeldUnits(b)) = Cardinality(Others(c, b)) + Share(c, b)
    BY <1>1 DEF Split
  <2>3. Cardinality(HeldUnits(b))' = Cardinality(Others(c, b))' + Share(c, b)'
    BY <1>1 DEF Split
  <2>4. Share(c, b) \in Int /\ Share(c, b)' \in Int
    <3>1. hold[c].amount \in Nat /\ hold'[c].amount \in Nat
      BY DEF BudgetTypeOK, Holds, Nothing, Estimates
    <3> QED BY <3>1 DEF Share
  <2> QED BY <2>1, <2>2, <2>3, <2>4 DEF ReservedIsHeld
<1> QED BY <1>2 DEF ReservedIsHeld

(* The release function takes exactly what its call held.                   *)
LEMMA ReleaseSums ==
  ASSUME BudgetTypeOK, ReservedIsHeld, NEW c \in Calls
  PROVE  /\ AfterRelease(c) \in [Pockets -> Nat]
         /\ \A b \in Pockets :
              /\ Share(c, b) \in Nat /\ Share(c, b) <= reserved[b]
              /\ AfterRelease(c)[b] = reserved[b] - Share(c, b)
<1>1. hold[c] \in Holds \cup {Nothing} /\ reserved \in [Pockets -> Nat]
  BY DEF BudgetTypeOK
<1>2. \A b \in Pockets : Share(c, b) \in Nat /\ Share(c, b) <= reserved[b]
  <2> SUFFICES ASSUME NEW b \in Pockets
               PROVE  Share(c, b) \in Nat /\ Share(c, b) <= reserved[b]
    OBVIOUS
  <2>1. Share(c, b) \in Nat
    BY HoldType DEF Share, Estimates
  <2>2. /\ Cardinality(Others(c, b)) \in Nat
        /\ reserved[b] = Cardinality(Others(c, b)) + Share(c, b)
    BY HeldSplit DEF Split, ReservedIsHeld
  <2> QED BY <2>1, <2>2
<1>3. CASE hold[c] = Nothing
  BY <1>1, <1>2, <1>3 DEF AfterRelease, Share, Nothing
<1>4. CASE hold[c] # Nothing
  <2>1. hold[c].pocket \in Pockets /\ hold[c].amount \in Nat
    BY <1>1, <1>4 DEF Holds, Estimates
  <2>2. hold[c].amount <= reserved[hold[c].pocket]
    BY <1>2, <2>1 DEF Share
  <2> QED BY <1>1, <1>2, <1>4, <2>1, <2>2 DEF AfterRelease, Share
<1> QED BY <1>3, <1>4

LEMMA ReleaseStep ==
  ASSUME BudgetTypeOK, BudgetTypeOK', ReservedIsHeld, NEW c \in Calls, release(c)
  PROVE  ReservedIsHeld'
<1>1. \A d \in Calls \ {c} : hold'[d] = hold[d]
  BY DEF release, BudgetTypeOK
<1>2. hold'[c] = Nothing
  BY DEF release, BudgetTypeOK
<1>3. ASSUME NEW b \in Pockets PROVE reserved'[b] = reserved[b] - Share(c, b) + Share(c, b)'
  <2>1. Share(c, b)' = 0
    BY <1>2 DEF Share, Nothing
  <2>2. /\ Share(c, b) \in Nat /\ reserved[b] \in Nat
        /\ reserved'[b] = reserved[b] - Share(c, b)
    BY ReleaseSums DEF release, BudgetTypeOK
  <2> QED BY <2>1, <2>2
<1> QED BY <1>1, <1>3, HoldStep

LEMMA HereType ==
  ASSUME BudgetTypeOK, NEW p \in Providers
  PROVE  Here(p) \in Pockets
BY DEF BudgetTypeOK, Here, Pockets

-----------------------------------------------------------------------------
(* After a reload `reserved` no longer sums up what is held, and a release  *)
(* stops at 0.                                                              *)
LEMMA ReleaseTyped ==
  ASSUME BudgetTypeOK, NEW c \in Calls, release(c)
  PROVE  /\ reserved' \in [Pockets -> Nat] /\ hold' \in [Calls -> Holds \cup {Nothing}]
         /\ \A b \in Pockets : reserved'[b] = 0 \/ reserved'[b] = reserved[b] - Share(c, b)
<1>1. /\ hold[c] \in Holds \cup {Nothing} /\ reserved \in [Pockets -> Nat]
      /\ hold \in [Calls -> Holds \cup {Nothing}]
  BY DEF BudgetTypeOK
<1>2. hold' \in [Calls -> Holds \cup {Nothing}]
  BY <1>1 DEF release
<1>3. CASE hold[c] = Nothing
  <2>1. reserved' = reserved
    BY <1>3 DEF release, AfterRelease
  <2>2. \A b \in Pockets : Share(c, b) = 0
    BY <1>3 DEF Share, Nothing
  <2> QED BY <1>1, <1>2, <2>1, <2>2
<1>4. CASE hold[c] # Nothing
  <2>1. hold[c].pocket \in Pockets /\ hold[c].amount \in Nat
    BY <1>1, <1>4 DEF Holds, Estimates
  <2> DEFINE left == reserved[hold[c].pocket] - hold[c].amount
  <2>2. reserved' = [reserved EXCEPT ![hold[c].pocket] = IF left > 0 THEN left ELSE 0]
    BY <1>4 DEF release, AfterRelease
  <2>3. (IF left > 0 THEN left ELSE 0) \in Nat
    BY <1>1, <2>1
  <2> QED BY <1>1, <1>2, <2>1, <2>2, <2>3 DEF Share
<1> QED BY <1>3, <1>4
=============================================================================
