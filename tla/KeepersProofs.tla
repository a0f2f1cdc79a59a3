---------------------------- MODULE KeepersProofs ----------------------------
(***************************************************************************)
(* What is proved, for every value of their constants, of the parts that     *)
(* keep a record: the usage ledger and its chain, the embedded services, the *)
(* GRC export, the capture of calls, the endpoint collector, the reviews and   *)
(* what explains a process.                                                 *)
(* The parts share no state: each theorem is one part's, from the part's own *)
(* assumption on its constants.                                              *)
(***************************************************************************)
EXTENDS UsageLedger, Embedded, Grc, Capture, Collector, Reviews, Correlation,
        FiniteSetTheorems, SequenceTheorems, WellFoundedInduction, TLAPS

-----------------------------------------------------------------------------
(* The ledger and its chain: what a verification finds, whoever wrote, sealed *)
(* or trimmed in between.                                                    *)
(* A non-empty set of numbers has a least element.                          *)
LEMMA LeastNumber ==
  ASSUME NEW T, T \subseteq Nat, T # {}
  PROVE  \E n \in T : \A m \in T : n <= m
<1> DEFINE below == OpToRel(<, Nat)
<1>1. IsWellFoundedOn(below, Nat)
  BY NatLessThanWellFounded
<1>2. \E x \in T : \A y \in T : ~ (<<y, x>> \in below)
  <2> HIDE DEF below
  <2> QED BY <1>1, WFMin
<1>3. PICK x \in T : \A y \in T : ~ (<<y, x>> \in below)
  BY <1>2
<1>4. ASSUME NEW y \in T PROVE x <= y
  <2>1. ~ (<<y, x>> \in below)
    BY <1>3
  <2>2. ~ (y < x)
    BY <2>1 DEF OpToRel
  <2> QED BY <2>2
<1> QED BY <1>4

LEMMA GreatestNumber ==
  ASSUME NEW n \in Nat, NEW T, T \subseteq 1 .. n, T # {}
  PROVE  \E m \in T : \A k \in T : k <= m
<1> DEFINE U == {n - j : j \in T}
<1>1. U \subseteq Nat /\ U # {}
  <2>1. \A j \in T : n - j \in Nat
    OBVIOUS
  <2>2. PICK j \in T : TRUE
    OBVIOUS
  <2>3. n - j \in U
    BY <2>2
  <2> QED BY <2>1, <2>3
<1>2. PICK d \in U : \A e \in U : d <= e
  <2> HIDE DEF U
  <2> QED BY <1>1, LeastNumber
<1>3. PICK m \in T : d = n - m
  OBVIOUS
<1>4. ASSUME NEW k \in T PROVE k <= m
  <2>1. n - k \in U
    OBVIOUS
  <2>2. d <= n - k
    BY <1>2, <2>1
  <2> QED BY <1>3, <2>2
<1> QED BY <1>4

USE LedgerAssumption

Rows  == Nat \ {0}
Seals == Seq(Nat)
Line  == [row : Rows, h : Seals] \cup {Junk}

(* Rows without a seal, u of them, and then rows that each seal what the    *)
(* row before it sealed: every file the code writes is of this form as long *)
(* as no write is torn.                                                     *)
Chained(f, u) ==
  /\ f \in Seq(Line) /\ u \in 0 .. Len(f)
  /\ \A i \in 1 .. Len(f) :
       /\ f[i] # Junk
       /\ i <= u => f[i].h = NoSeal
       /\ i = u + 1 => f[i].h = Append(GENESIS, f[i].row)
       /\ i > u + 1 => f[i].h = Append(f[i - 1].h, f[i].row)

LEMMA LineType ==
  /\ Junk \in Line
  /\ \A l \in Line : l.h \in Seals /\ l.row \in Nat /\ (l # Junk => l.row # 0)
BY DEF Line, Junk, NoSeal, Rows, Seals

(* A seal is of one row at least, and of row 0 never.                       *)
LEMMA SealIsOne ==
  ASSUME NEW s \in Seals, NEW r \in Rows
  PROVE  Append(s, r) \in Seals /\ Append(s, r) # NoSeal /\ Append(s, r) # GENESIS
<1>1. Append(s, r) \in Seals /\ Len(Append(s, r)) = Len(s) + 1 /\ Append(s, r)[Len(s) + 1] = r
      /\ Len(s) \in Nat
  BY DEF Seals, Rows
<1>2. Append(s, r) # GENESIS
  BY <1>1 DEF GENESIS
<1>3. ASSUME Append(s, r) = NoSeal PROVE FALSE
  <2>1. Len(NoSeal) = 1 /\ NoSeal[1] = 0
    BY DEF NoSeal
  <2>2. Len(s) = 0
    BY <1>1, <1>3, <2>1
  <2>3. r = 0
    BY <1>1, <1>3, <2>1, <2>2
  <2> QED BY <2>3 DEF Rows
<1> QED BY <1>1, <1>2, <1>3

LEMMA IntervalSize ==
  ASSUME NEW a \in Nat, NEW b \in Nat, a <= b
  PROVE  Cardinality(a + 1 .. b) = b - a
<1>1. a + 1 \in Int /\ b \in Int
  OBVIOUS
<1>2. Cardinality(a + 1 .. b) = IF a + 1 > b THEN 0 ELSE b - (a + 1) + 1
  BY <1>1, FS_Interval
<1> QED BY <1>2

LEMMA ChainedSealed ==
  ASSUME NEW f, NEW u, Chained(f, u)
  PROVE  /\ Sealed(f) = u + 1 .. Len(f)
         /\ Cardinality(Sealed(f)) = Len(f) - u
         /\ Readable(f) = DOMAIN f
<1>0. f \in Seq(Line) /\ Len(f) \in Nat /\ u \in Nat /\ u <= Len(f) /\ DOMAIN f = 1 .. Len(f)
  BY DEF Chained
<1>1. \A i \in 1 .. Len(f) : f[i].h \in Seals /\ f[i].row \in Rows
  BY <1>0, LineType DEF Chained, Rows
<1>2. ASSUME NEW i \in 1 .. Len(f), i > u PROVE f[i].h # NoSeal
  <2>1. CASE i = u + 1
    <3>1. f[i].h = Append(GENESIS, f[i].row) /\ GENESIS \in Seals
      BY <2>1 DEF Chained, GENESIS, Seals
    <3> QED BY <1>1, <3>1, SealIsOne
  <2>2. CASE i > u + 1
    <3>1. f[i].h = Append(f[i - 1].h, f[i].row) /\ i - 1 \in 1 .. Len(f)
      BY <1>0, <2>2 DEF Chained
    <3> QED BY <1>1, <3>1, SealIsOne
  <2> QED BY <1>0, <1>2, <2>1, <2>2
<1>3. \A i \in 1 .. Len(f) : i <= u => f[i].h = NoSeal
  BY DEF Chained
<1>4. Sealed(f) = u + 1 .. Len(f)
  BY <1>0, <1>2, <1>3 DEF Sealed
<1>5. Cardinality(u + 1 .. Len(f)) = Len(f) - u
  BY <1>0, IntervalSize
<1>6. Readable(f) = DOMAIN f
  BY <1>0 DEF Readable, Chained
<1> QED BY <1>4, <1>5, <1>6

(* What a reader finds before line i.                                       *)
LEMMA ChainedHead ==
  ASSUME NEW f, NEW u, Chained(f, u), NEW i \in 1 .. Len(f) + 1
  PROVE  HeadBefore(f, i) = IF i <= u + 1 THEN GENESIS ELSE f[i - 1].h
<1>0. Len(f) \in Nat /\ u \in Nat /\ u <= Len(f)
  BY DEF Chained
<1> DEFINE before == {j \in Sealed(f) : j < i}
<1>1. HeadBefore(f, i) = IF before = {} THEN GENESIS
                         ELSE f[CHOOSE j \in before : \A k \in before : k <= j].h
  BY DEF HeadBefore
<1>2. \A j : j \in before <=> j \in Int /\ u < j /\ j < i
  BY <1>0, ChainedSealed
<1> HIDE DEF before
<1>3. CASE i <= u + 1
  <2>1. before = {}
    BY <1>0, <1>2, <1>3
  <2> QED BY <1>1, <1>3, <2>1
<1>4. CASE i > u + 1
  <2>1. i - 1 \in before /\ \A k \in before : k <= i - 1
    BY <1>0, <1>2, <1>4
  <2>2. \A j \in before : (\A k \in before : k <= j) => j = i - 1
    BY <1>0, <1>2, <2>1
  <2>3. (CHOOSE j \in before : \A k \in before : k <= j) = i - 1
    BY <2>1, <2>2
  <2>4. before # {}
    BY <2>1
  <2>5. HeadBefore(f, i) = f[i - 1].h
    BY <1>1, <2>3, <2>4
  <2>6. ~(i <= u + 1)
    BY <1>0, <1>4
  <2> QED BY <2>5, <2>6
<1> QED BY <1>0, <1>3, <1>4

LEMMA ChainedUnbroken ==
  ASSUME NEW f, NEW u, Chained(f, u)
  PROVE  BrokenLinks(f) = {}
<1>0. Len(f) \in Nat /\ u \in Nat /\ u <= Len(f) /\ DOMAIN f = 1 .. Len(f)
  BY DEF Chained
<1>1. ASSUME NEW i \in Sealed(f) PROVE f[i].h = chainHash(HeadBefore(f, i), f[i].row)
  <2>1. i \in 1 .. Len(f) /\ i > u
    BY <1>0, ChainedSealed
  <2>2. HeadBefore(f, i) = IF i <= u + 1 THEN GENESIS ELSE f[i - 1].h
    BY <1>0, <2>1, ChainedHead
  <2>3. i = u + 1 => f[i].h = Append(GENESIS, f[i].row)
    BY <2>1 DEF Chained
  <2>4. i > u + 1 => f[i].h = Append(f[i - 1].h, f[i].row)
    BY <2>1 DEF Chained
  <2> QED BY <1>0, <2>1, <2>2, <2>3, <2>4 DEF chainHash
<1>2. ASSUME NEW i \in Readable(f) \ Sealed(f), NEW j \in Sealed(f), j < i PROVE FALSE
  BY <1>0, <1>2, ChainedSealed
<1> QED BY <1>1, <1>2 DEF BrokenLinks

LEMMA ChainedHeadAt ==
  ASSUME NEW f, NEW u, Chained(f, u), NEW n \in 1 .. Len(f) - u
  PROVE  HeadAt(f, n) = f[u + n].h
<1>0. Len(f) \in Nat /\ u \in Nat /\ u <= Len(f)
  BY DEF Chained
<1>a. Sealed(f) = u + 1 .. Len(f)
  BY ChainedSealed
<1>1. ASSUME NEW i \in Sealed(f)
      PROVE  Cardinality({j \in Sealed(f) : j <= i}) = i - u
  <2>1. {j \in Sealed(f) : j <= i} = u + 1 .. i
    BY <1>0, <1>a
  <2>2. Cardinality(u + 1 .. i) = i - u
    BY <1>0, <1>a, IntervalSize
  <2> QED BY <2>1, <2>2
<1> DEFINE ends == {i \in Sealed(f) : Cardinality({j \in Sealed(f) : j <= i}) = n}
<1>2. ends = {u + n}
  <2>1. u + n \in Sealed(f) /\ (u + n) - u = n
    BY <1>0, <1>a
  <2>2. Cardinality({j \in Sealed(f) : j <= u + n}) = n
    BY <1>1, <2>1
  <2>3. u + n \in ends
    BY <2>1, <2>2
  <2>4. ASSUME NEW i \in ends PROVE i = u + n
    <3>1. i \in Sealed(f) /\ Cardinality({j \in Sealed(f) : j <= i}) = n
      OBVIOUS
    <3>2. i - u = n
      BY <1>1, <3>1
    <3> QED BY <1>0, <1>a, <3>1, <3>2
  <2> HIDE DEF ends
  <2> QED BY <2>3, <2>4
<1>3. HeadAt(f, n) = f[CHOOSE i \in ends : TRUE].h
  BY DEF HeadAt
<1> HIDE DEF ends
<1>4. (CHOOSE i \in ends : TRUE) = u + n
  BY <1>2
<1> QED BY <1>3, <1>4

(* The anchor names a sealed row and its seal.                              *)
Names(a, f, u) ==
  a = NoAnchor \/ (a.count \in 1 .. Len(f) - u /\ a.head = f[u + a.count].h)

LEMMA ChainedIntact ==
  ASSUME NEW f, NEW u, Chained(f, u), NEW a, Names(a, f, u)
  PROVE  intact(f, a)
<1>1. CASE a = NoAnchor
  BY <1>1, ChainedUnbroken DEF intact, truncated, rolledBack
<1>2. CASE a # NoAnchor
  <2>1. a.count \in 1 .. Len(f) - u /\ a.head = f[u + a.count].h /\ Len(f) - u \in Int
    BY <1>2 DEF Names, Chained
  <2>2. ~truncated(f, a)
    BY <2>1, ChainedSealed DEF truncated
  <2>3. ~rolledBack(f, a)
    BY <2>1, ChainedHeadAt DEF rolledBack
  <2> QED BY <2>2, <2>3, ChainedUnbroken DEF intact
<1> QED BY <1>1, <1>2

(* What the writers make of such a file.                                    *)
LastOf(f, u) == IF Len(f) = u THEN GENESIS ELSE f[Len(f)].h

LEMMA ChainedLast ==
  ASSUME NEW f, NEW u, Chained(f, u)
  PROVE  LastSeal(f) = LastOf(f, u)
<1>0. Len(f) \in Nat /\ u \in Nat /\ u <= Len(f) /\ Len(f) + 1 \in 1 .. Len(f) + 1
  BY DEF Chained
<1>1. HeadBefore(f, Len(f) + 1) = IF Len(f) + 1 <= u + 1 THEN GENESIS ELSE f[Len(f) + 1 - 1].h
  BY <1>0, ChainedHead
<1> QED BY <1>0, <1>1 DEF LastSeal, LastOf

LEMMA ChainedAppend ==
  ASSUME NEW f, NEW u, Chained(f, u), NEW r \in Rows, NEW a, Names(a, f, u)
  PROVE  LET l == [row |-> r, h |-> Append(LastOf(f, u), r)]
         IN  /\ Chained(Append(f, l), u) /\ LastOf(Append(f, l), u) = l.h
             /\ Names(a, Append(f, l), u)
             /\ Names([count |-> Len(f) - u + 1, head |-> l.h], Append(f, l), u)
<1> DEFINE l == [row |-> r, h |-> Append(LastOf(f, u), r)]
           g == Append(f, l)
<1>0. f \in Seq(Line) /\ Len(f) \in Nat /\ u \in Nat /\ u <= Len(f)
  BY DEF Chained
<1>1. LastOf(f, u) \in Seals
  BY <1>0, LineType DEF LastOf, GENESIS, Seals
<1>2. l \in Line /\ l # Junk
  BY <1>1, SealIsOne DEF Line, Junk
<1>3. l.h = Append(LastOf(f, u), l.row)
  OBVIOUS
<1> HIDE DEF l
<1>4. g \in Seq(Line) /\ Len(g) = Len(f) + 1 /\ g[Len(f) + 1] = l
      /\ \A i \in 1 .. Len(f) : g[i] = f[i]
  BY <1>0, <1>2
<1> HIDE DEF g
<1>5. ASSUME NEW i \in 1 .. Len(g)
      PROVE  /\ g[i] # Junk
             /\ i <= u => g[i].h = NoSeal
             /\ i = u + 1 => g[i].h = Append(GENESIS, g[i].row)
             /\ i > u + 1 => g[i].h = Append(g[i - 1].h, g[i].row)
  <2>1. CASE i \in 1 .. Len(f)
    <3>1. g[i] = f[i] /\ (i > u + 1 => g[i - 1] = f[i - 1])
      BY <1>0, <1>4, <2>1
    <3> QED BY <2>1, <3>1 DEF Chained
  <2>2. CASE i = Len(f) + 1
    <3>1. i > u + 1 => g[i - 1] = f[Len(f)] /\ LastOf(f, u) = f[Len(f)].h
      BY <1>0, <1>4, <2>2 DEF LastOf
    <3>2. i = u + 1 => LastOf(f, u) = GENESIS
      BY <1>0, <2>2 DEF LastOf
    <3> QED BY <1>0, <1>2, <1>3, <1>4, <2>2, <3>1, <3>2
  <2> QED BY <1>0, <1>4, <2>1, <2>2
<1>6. Chained(g, u)
  BY <1>0, <1>4, <1>5 DEF Chained
<1>7. LastOf(g, u) = l.h
  BY <1>0, <1>4 DEF LastOf
<1>8. Names(a, g, u)
  BY <1>0, <1>4 DEF Names
<1>9. Names([count |-> Len(f) - u + 1, head |-> l.h], g, u)
  BY <1>0, <1>4 DEF Names
<1> QED BY <1>6, <1>7, <1>8, <1>9 DEF g, l

LEMMA ChainedShorter ==
  ASSUME NEW f, NEW u, Chained(f, u), f # <<>>, Len(f) \in Sealed(f)
  PROVE  Chained(SubSeq(f, 1, Len(f) - 1), u)
<1> DEFINE g == SubSeq(f, 1, Len(f) - 1)
<1>0. f \in Seq(Line) /\ Len(f) \in Nat /\ u \in Nat /\ u <= Len(f) - 1 /\ Len(f) >= 1
  BY ChainedSealed DEF Chained
<1>1. g \in Seq(Line) /\ Len(g) = Len(f) - 1 /\ \A i \in 1 .. Len(f) - 1 : g[i] = f[i]
  <2>1. g \in Seq(Line)
    BY <1>0
  <2>2. Len(g) = Len(f) - 1
    <3>1. \A i \in 1 .. Len(f) - 1 : f[i] \in Line
      BY <1>0
    <3>2. 1 \in Int /\ Len(f) - 1 \in Int
      BY <1>0
    <3> DEFINE n == Len(f) - 1
    <3>3. n \in Nat
      BY <1>0
    <3>4. Len(g) = IF 1 <= n THEN n - 1 + 1 ELSE 0
      BY <3>1, <3>2, SubSeqProperties
    <3> HIDE DEF g, n
    <3>5. Len(g) = n
      BY <3>3, <3>4
    <3> QED BY <3>5 DEF n
  <2>3. \A i \in 1 .. Len(f) - 1 : g[i] = f[i]
    BY <1>0
  <2> QED BY <2>1, <2>2, <2>3
<1> HIDE DEF g
<1> SUFFICES Chained(g, u)
  BY DEF g
<1>2. ASSUME NEW i \in 1 .. Len(g)
      PROVE  /\ g[i] # Junk
             /\ i <= u => g[i].h = NoSeal
             /\ i = u + 1 => g[i].h = Append(GENESIS, g[i].row)
             /\ i > u + 1 => g[i].h = Append(g[i - 1].h, g[i].row)
  <2>1. i \in 1 .. Len(f) /\ g[i] = f[i] /\ (i > u + 1 => g[i - 1] = f[i - 1])
    BY <1>0, <1>1
  <2> QED BY <2>1 DEF Chained
<1>3. u \in 0 .. Len(g)
  BY <1>0, <1>1
<1> QED BY <1>1, <1>2, <1>3 DEF Chained

LEMMA ResealedChained ==
  ASSUME NEW f \in Seq(Line), \A i \in 1 .. Len(f) : f[i] # Junk
  PROVE  Chained(Resealed(f), 0) /\ Len(Resealed(f)) = Len(f)
<1> DEFINE g == Resealed(f)
           S(i) == [j \in 1 .. i |-> f[j].row]
<1>0. f \in Seq(Line) /\ Len(f) \in Nat /\ DOMAIN f = 1 .. Len(f)
  OBVIOUS
<1>1. \A i \in 1 .. Len(f) : f[i].row \in Rows
  BY <1>0, LineType DEF Rows
<1>2. ASSUME NEW i \in 1 .. Len(f)
      PROVE  S(i) \in Seals /\ (i > 1 => S(i) = Append(S(i - 1), f[i].row))
             /\ (i = 1 => S(i) = Append(GENESIS, f[i].row))
  <2>1. \A j \in 1 .. i : f[j].row \in Nat
    BY <1>0, <1>1 DEF Rows
  <2>2. S(i) \in Seq(Nat)
    BY <2>1
  <2>3. i > 1 => S(i) = Append(S(i - 1), f[i].row)
    BY <1>0, <2>1
  <2>4. i = 1 => S(i) = Append(GENESIS, f[i].row)
    BY <1>0, <2>1 DEF GENESIS
  <2> QED BY <2>2, <2>3, <2>4 DEF Seals
<1>3. g = [i \in 1 .. Len(f) |-> [row |-> f[i].row, h |-> S(i)]]
  BY <1>0 DEF Resealed
<1> HIDE DEF S, g
<1>4. \A i \in 1 .. Len(f) : g[i] \in Line /\ g[i] # Junk /\ g[i].h = S(i) /\ g[i].row = f[i].row
  BY <1>1, <1>2, <1>3 DEF Line, Junk, Rows
<1>5. g \in Seq(Line) /\ Len(g) = Len(f)
  BY <1>0, <1>3, <1>4
<1>6. ASSUME NEW i \in 1 .. Len(g)
      PROVE  /\ g[i] # Junk
             /\ i <= 0 => g[i].h = NoSeal
             /\ i = 0 + 1 => g[i].h = Append(GENESIS, g[i].row)
             /\ i > 0 + 1 => g[i].h = Append(g[i - 1].h, g[i].row)
  <2>1. i \in 1 .. Len(f) /\ (i > 1 => i - 1 \in 1 .. Len(f))
    BY <1>0, <1>5
  <2>2. g[i] # Junk /\ g[i].h = S(i) /\ g[i].row = f[i].row
    BY <1>4, <2>1
  <2>3. i > 1 => g[i - 1].h = S(i - 1)
    BY <1>4, <2>1
  <2>4. (i > 1 => S(i) = Append(S(i - 1), f[i].row)) /\ (i = 1 => S(i) = Append(GENESIS, f[i].row))
    BY <1>2, <2>1
  <2> QED BY <2>1, <2>2, <2>3, <2>4
<1>7. 0 \in 0 .. Len(g)
  BY <1>0, <1>5
<1>8. Chained(g, 0)
  BY <1>5, <1>6, <1>7 DEF Chained
<1> QED BY <1>5, <1>8 DEF g

-----------------------------------------------------------------------------
(* While a seal and the gateway take turns, nobody writes between what the  *)
(* sealer read and its rename.                                              *)
Turns == {"gateway stopped"} \subseteq trusted

SealerAlone ==
  Turns =>
    /\ up => sealer = Idle
    /\ sealer.step = "read" => sealer.lines = file /\ Readable(file) = DOMAIN file

LedgerTyped ==
  /\ file \in Seq(Line) /\ written \in Nat /\ up \in BOOLEAN
  /\ head \in Seals /\ sealer.step \in {"idle", "read", "renamed"}
  /\ sealer.lines \in Seq(Line)
  /\ sealer.step = "read" =>
       /\ sealer.lines # <<>>
       /\ \A i \in 1 .. Len(sealer.lines) : sealer.lines[i] # Junk
  /\ sealer = Idle <=> sealer.step = "idle"

(* With whole writes besides: the file is a chain, and the gateway knows    *)
(* where it ends.                                                           *)
Steady == {"whole writes", "gateway stopped"} \subseteq trusted

FileChained ==
  Steady =>
    /\ ~open
    /\ \E u \in Nat :
         /\ Chained(file, u)
         /\ up => head = LastOf(file, u) /\ chained = Len(file) - u

(* With all of the trust: the anchor names a row of it, but between the two *)
(* steps of a seal, when the sealer knows the file it is about to name.     *)
AnchorNames ==
  trusted = Environment =>
    \A u \in Nat : Chained(file, u) =>
      IF sealer.step = "renamed" THEN u = 0 /\ sealer.lines = file /\ file # <<>>
      ELSE Names(anchor, file, u)

LedgerInv == LedgerTyped /\ SealerAlone /\ FileChained /\ AnchorNames

LEMMA EnvironmentIs ==
  trusted = Environment => Steady /\ Turns /\ "seal finishes" \in trusted /\ "no deletions" \in trusted
BY DEF Environment, Steady, Turns

LEMMA SteadyTurns == Steady => Turns /\ "whole writes" \in trusted /\ "gateway stopped" \in trusted
BY DEF Steady, Turns

(* A chain is a chain from one row only.                                    *)
LEMMA ChainedOnce ==
  ASSUME NEW f, NEW u, NEW v, Chained(f, u), Chained(f, v)
  PROVE  u = v
<1>1. Len(f) \in Nat /\ u \in Nat /\ v \in Nat /\ u <= Len(f) /\ v <= Len(f)
  BY DEF Chained
<1>2. Cardinality(Sealed(f)) = Len(f) - u /\ Cardinality(Sealed(f)) = Len(f) - v
  BY ChainedSealed
<1> QED BY <1>1, <1>2

LEMMA LedgerInitInv == LedgerInit => LedgerInv
<1> SUFFICES ASSUME LedgerInit PROVE LedgerInv
  OBVIOUS
<1>1. \A i \in 1 .. Legacy : [row |-> i, h |-> NoSeal] \in Line /\ [row |-> i, h |-> NoSeal] # Junk
  BY DEF Line, Rows, Seals, NoSeal, Junk
<1>2. file = [i \in 1 .. Legacy |-> [row |-> i, h |-> NoSeal]]
  BY DEF LedgerInit
<1>3. file \in Seq(Line) /\ Len(file) = Legacy /\ \A i \in 1 .. Legacy : file[i] # Junk /\ file[i].h = NoSeal
  BY <1>1, <1>2
<1>4. Chained(file, Legacy)
  <2>1. Legacy \in 0 .. Len(file)
    BY <1>3
  <2> QED BY <1>3, <2>1 DEF Chained
<1>5. /\ sealer = Idle /\ ~open /\ up = FALSE /\ anchor = NoAnchor /\ head = GENESIS /\ written = Legacy
  BY DEF LedgerInit
<1>6. LedgerTyped
  <2>1. sealer.step = "idle" /\ sealer.lines = <<>>
    BY <1>5 DEF Idle
  <2>2. sealer.lines \in Seq(Line)
    BY <2>1
  <2>3. head \in Seals /\ written \in Nat
    BY <1>5 DEF GENESIS, Seals
  <2> QED BY <1>3, <1>5, <2>1, <2>2, <2>3 DEF LedgerTyped
<1>7. SealerAlone
  BY <1>5 DEF SealerAlone, Idle
<1>8. FileChained
  BY <1>4, <1>5 DEF FileChained
<1>9. AnchorNames
  BY <1>5 DEF AnchorNames, Names, Idle
<1> QED BY <1>6, <1>7, <1>8, <1>9 DEF LedgerInv

LEMMA NextRowType ==
  ASSUME LedgerTyped
  PROVE  NextRow \in Line /\ NextRow # Junk /\ NextRow.row = written + 1 /\ NextRow.h \in Seals
         /\ NextRow.row \in Rows /\ NextRow.h = Append(head, written + 1)
<1>1. written + 1 \in Rows /\ head \in Seals
  BY DEF LedgerTyped, Rows
<1>2. Append(head, written + 1) \in Seals
  BY <1>1, SealIsOne
<1>3. NextRow = [row |-> written + 1, h |-> Append(head, written + 1)]
  BY DEF NextRow, chainHash
<1>4. NextRow \in [row : Rows, h : Seals]
  BY <1>1, <1>2, <1>3
<1>5. NextRow \in Line
  BY <1>4 DEF Line
<1>6. NextRow # Junk
  <2>1. NextRow.row # 0
    BY <1>1, <1>3 DEF Rows
  <2> QED BY <2>1 DEF Junk
<1>7. NextRow.row = written + 1 /\ NextRow.h = Append(head, written + 1)
  BY <1>3
<1> QED BY <1>1, <1>2, <1>5, <1>6, <1>7

LEMMA ExtendedType ==
  ASSUME LedgerTyped, NEW l \in Line
  PROVE  Extended(l) \in Seq(Line)
<1>0. file \in Seq(Line) /\ Junk \in Line
  BY LineType DEF LedgerTyped
<1>1. [file EXCEPT ![Len(file)] = Junk] \in Seq(Line)
  <2>1. [file EXCEPT ![Len(file)] = Junk]
          = [i \in 1 .. Len(file) |-> IF i = Len(file) THEN Junk ELSE file[i]]
    BY <1>0
  <2>2. \A i \in 1 .. Len(file) : (IF i = Len(file) THEN Junk ELSE file[i]) \in Line
    BY <1>0
  <2>3. [i \in 1 .. Len(file) |-> IF i = Len(file) THEN Junk ELSE file[i]] \in Seq(Line)
    BY <1>0, <2>2
  <2> QED BY <2>1, <2>3
<1> QED BY <1>0, <1>1 DEF Extended

(* A row the gateway seals against the end of the chain.                    *)
LEMMA RecordedChained ==
  ASSUME LedgerTyped, Steady, ~open, NEW u \in Nat, Chained(file, u), head = LastOf(file, u),
         chained = Len(file) - u, NEW a, Names(a, file, u)
  PROVE  /\ Chained(Extended(NextRow), u) /\ LastOf(Extended(NextRow), u) = NextRow.h
         /\ Len(Extended(NextRow)) = Len(file) + 1
         /\ Names(a, Extended(NextRow), u)
         /\ Names([count |-> chained + 1, head |-> NextRow.h], Extended(NextRow), u)
<1>1. Extended(NextRow) = Append(file, NextRow) /\ file \in Seq(Line)
  BY DEF Extended, LedgerTyped
<1>2. written + 1 \in Rows /\ NextRow = [row |-> written + 1, h |-> Append(LastOf(file, u), written + 1)]
  BY NextRowType DEF NextRow, chainHash
<1>3. Len(Append(file, NextRow)) = Len(file) + 1
  BY <1>1, NextRowType
<1> DEFINE r == written + 1
           l == [row |-> r, h |-> Append(LastOf(file, u), r)]
<1>4. r \in Rows /\ NextRow = l /\ NextRow.h = l.h
  BY <1>2
<1>5. /\ Chained(Append(file, l), u) /\ LastOf(Append(file, l), u) = l.h
      /\ Names(a, Append(file, l), u)
      /\ Names([count |-> Len(file) - u + 1, head |-> l.h], Append(file, l), u)
  <2> HIDE DEF r
  <2> QED BY <1>4, ChainedAppend
<1> HIDE DEF l
<1> QED BY <1>1, <1>3, <1>4, <1>5

LEMMA HeadType ==
  ASSUME NEW f \in Seq(Line)
  PROVE  LastSeal(f) \in Seals
<1> DEFINE before == {j \in Sealed(f) : j < Len(f) + 1}
<1>0. DOMAIN f = 1 .. Len(f) /\ Len(f) \in Nat
  OBVIOUS
<1>1. LastSeal(f) = IF before = {} THEN GENESIS
                    ELSE f[CHOOSE j \in before : \A k \in before : k <= j].h
  BY DEF LastSeal, HeadBefore
<1>2. before \subseteq 1 .. Len(f)
  BY <1>0 DEF Sealed
<1> HIDE DEF before
<1>3. CASE before = {}
  BY <1>1, <1>3 DEF GENESIS, Seals
<1>4. CASE before # {}
  <2>1. \E j \in before : \A k \in before : k <= j
    BY <1>0, <1>2, <1>4, GreatestNumber
  <2> DEFINE m == CHOOSE j \in before : \A k \in before : k <= j
  <2>2. m \in 1 .. Len(f)
    BY <1>2, <2>1
  <2>3. LastSeal(f) = f[m].h
    BY <1>1, <1>4
  <2> HIDE DEF m
  <2> QED BY <2>2, <2>3, LineType
<1> QED BY <1>3, <1>4

LEMMA UnfinishedIs ==
  ASSUME LedgerTyped, Unfinished \/ (file' = Extended(NextRow) /\ open' = FALSE)
  PROVE  UNCHANGED <<file, open>> \/ \E l \in {Junk, NextRow} : file' = Extended(l)
BY DEF Unfinished

LEMMA TypedNext == LedgerTyped /\ [LedgerNext]_ledgerVars => LedgerTyped'
<1> SUFFICES ASSUME LedgerTyped, [LedgerNext]_ledgerVars PROVE LedgerTyped'
  OBVIOUS
<1>0. /\ file \in Seq(Line) /\ written \in Nat /\ up \in BOOLEAN /\ head \in Seals
      /\ written + 1 \in Nat
  BY DEF LedgerTyped
<1>1. CASE Boot \/ Reload
  <2>1. head' \in Seals
    BY <1>0, <1>1, HeadType DEF Boot, Reload, load
  <2>2. UNCHANGED <<file, sealer, written>> /\ up' = TRUE
    BY <1>1 DEF Boot, Reload, load, LedgerTyped
  <2> QED BY <2>1, <2>2 DEF LedgerTyped
<1>2. CASE recordUsage
  <2>1. file' \in Seq(Line) /\ head' \in Seals /\ written' = written + 1 /\ UNCHANGED <<up, sealer>>
    BY <1>2, NextRowType, ExtendedType DEF recordUsage
  <2> QED BY <1>0, <2>1 DEF LedgerTyped
<1>3. CASE AppendFails \/ Crash
  <2>1. file' \in Seq(Line)
    <3>1. Unfinished \/ (file' = Extended(NextRow) /\ open' = FALSE)
      BY <1>3 DEF AppendFails, Crash
    <3>2. UNCHANGED <<file, open>> \/ \E l \in {Junk, NextRow} : file' = Extended(l)
      BY <3>1, UnfinishedIs
    <3> QED BY <1>0, <3>2, NextRowType, ExtendedType, LineType
  <2>2. written' = written + 1 /\ UNCHANGED <<head, sealer>> /\ up' \in {up, FALSE}
    BY <1>3, NextRowType DEF AppendFails, Crash
  <2> QED BY <1>0, <2>1, <2>2 DEF LedgerTyped
<1>4. CASE Stop \/ SealAnchor \/ SealDies
  <2>1. UNCHANGED <<file, head, written>> /\ up' \in {up, FALSE} /\ sealer' \in {sealer, Idle}
    BY <1>4 DEF Stop, SealAnchor, SealDies
  <2>2. Idle.step = "idle" /\ Idle.lines \in Seq(Line)
    BY DEF Idle
  <2> QED BY <1>0, <2>1, <2>2 DEF LedgerTyped
<1>5. CASE SealRead
  <2>1. sealer'.step = "read" /\ sealer'.lines = file /\ UNCHANGED <<file, head, written, up>>
    BY <1>5 DEF SealRead
  <2>2. file # <<>> /\ \A i \in 1 .. Len(file) : file[i] # Junk
    <3>1. DOMAIN file = 1 .. Len(file) /\ Readable(file) = DOMAIN file /\ Sealed(file) # DOMAIN file
      <4>1. Readable(file) = DOMAIN file /\ Sealed(file) # DOMAIN file
        BY <1>5 DEF SealRead
      <4>2. DOMAIN file = 1 .. Len(file)
        BY <1>0
      <4> QED BY <4>1, <4>2
    <3>2. file # <<>>
      BY <3>1 DEF Sealed
    <3>3. \A i \in 1 .. Len(file) : file[i] # Junk
      BY <3>1 DEF Readable
    <3> QED BY <3>2, <3>3
  <2> QED BY <1>0, <2>1, <2>2 DEF LedgerTyped, Idle
<1>6. CASE SealRename
  <2>1. file' \in Seq(Line)
    BY <1>6, ResealedChained DEF SealRename, LedgerTyped, Chained
  <2>2. sealer'.step = "renamed" /\ sealer'.lines = file' /\ UNCHANGED <<head, written, up>>
    BY <1>6 DEF SealRename
  <2> QED BY <1>0, <2>1, <2>2 DEF LedgerTyped, Idle
<1>7. CASE DeleteLast
  <2> DEFINE n == Len(file) - 1
  <2>1. file' \in Seq(Line)
    <3>1. file' = SubSeq(file, 1, n)
      BY <1>7 DEF DeleteLast
    <3>2. 1 \in Int /\ n \in Int /\ \A i \in 1 .. n : file[i] \in Line
      BY <1>0
    <3> HIDE DEF n
    <3> QED BY <3>1, <3>2, SubSeqProperties
  <2> QED BY <1>0, <1>7, <2>1 DEF LedgerTyped, DeleteLast
<1>8. CASE UNCHANGED ledgerVars
  BY <1>8 DEF ledgerVars, LedgerTyped
<1> QED BY <1>1, <1>2, <1>3, <1>4, <1>5, <1>6, <1>7, <1>8 DEF LedgerNext

LEMMA TrustStays == [LedgerNext]_ledgerVars => trusted' = trusted
BY DEF LedgerNext, ledgerVars

LEMMA AloneNext == LedgerTyped /\ SealerAlone /\ [LedgerNext]_ledgerVars => SealerAlone'
<1> SUFFICES ASSUME LedgerTyped, SealerAlone, [LedgerNext]_ledgerVars, Turns
             PROVE  /\ up' => sealer' = Idle
                    /\ sealer'.step = "read" => sealer'.lines = file' /\ Readable(file') = DOMAIN file'
  BY TrustStays DEF SealerAlone, Turns, Readable
<1>0. /\ up => sealer = Idle
      /\ sealer.step = "read" => sealer.lines = file /\ Readable(file) = DOMAIN file
      /\ "gateway stopped" \in trusted /\ Idle.step # "read"
  BY DEF SealerAlone, Turns, Idle
<1>1. CASE Boot \/ Reload
  BY <1>0, <1>1 DEF Boot, Reload, load
<1>2. CASE recordUsage \/ AppendFails \/ Crash
  BY <1>0, <1>2 DEF recordUsage, AppendFails, Crash
<1>3. CASE Stop
  BY <1>0, <1>3 DEF Stop
<1>4. CASE SealAnchor \/ SealDies
  BY <1>0, <1>4 DEF SealAnchor, SealDies
<1>5. CASE SealRead
  BY <1>0, <1>5 DEF SealRead
<1>6. CASE SealRename
  BY <1>0, <1>6 DEF SealRename, Idle
<1>7. CASE DeleteLast
  BY <1>0, <1>7 DEF DeleteLast
<1>8. CASE UNCHANGED ledgerVars
  BY <1>0, <1>8 DEF ledgerVars
<1> QED BY <1>1, <1>2, <1>3, <1>4, <1>5, <1>6, <1>7, <1>8 DEF LedgerNext

-----------------------------------------------------------------------------
(* A step that leaves the file as it is and the gateway no wiser.           *)
LEMMA SameFile ==
  ASSUME FileChained, Steady, UNCHANGED <<file, open, trusted>>,
         up' => up /\ UNCHANGED <<head, chained>>
  PROVE  FileChained'
BY DEF FileChained, Steady, Chained, LastOf

LEMMA FileNext ==
  LedgerTyped /\ SealerAlone /\ FileChained /\ [LedgerNext]_ledgerVars => FileChained'
<1> SUFFICES ASSUME LedgerTyped, SealerAlone, FileChained, [LedgerNext]_ledgerVars, Steady
             PROVE  FileChained'
  BY TrustStays DEF FileChained, Steady
<1>0. ~open /\ trusted' = trusted /\ Turns /\ "whole writes" \in trusted /\ "gateway stopped" \in trusted
  BY SteadyTurns, TrustStays DEF FileChained
<1>a. PICK u \in Nat : Chained(file, u) /\ (up => head = LastOf(file, u) /\ chained = Len(file) - u)
  BY DEF FileChained
<1>1. CASE Boot \/ Reload
  <2>1. head' = LastOf(file, u) /\ chained' = Len(file) - u /\ UNCHANGED <<file, open>>
    BY <1>a, <1>1, ChainedLast, ChainedSealed DEF Boot, Reload, load
  <2> QED BY <1>0, <1>a, <2>1 DEF FileChained, Chained, LastOf
<1>2. ASSUME NEW f, Chained(f, u), file' = f, ~open',
             up' => head' = LastOf(f, u) /\ chained' = Len(f) - u
      PROVE  FileChained'
  BY <1>2 DEF FileChained, Chained, LastOf
<1>3. CASE recordUsage
  <2>1. file' = Extended(NextRow) /\ head' = NextRow.h /\ chained' = chained + 1 /\ ~open' /\ up
    BY <1>3 DEF recordUsage
  <2>2. /\ Chained(Extended(NextRow), u) /\ LastOf(Extended(NextRow), u) = NextRow.h
        /\ Len(Extended(NextRow)) = Len(file) + 1
    BY <1>0, <1>a, <2>1, RecordedChained DEF Names
  <2>3. chained + 1 = Len(Extended(NextRow)) - u
    <3>1. Len(file) \in Nat /\ u \in Nat /\ chained = Len(file) - u
      BY <1>a, <2>1 DEF Chained
    <3> QED BY <2>2, <3>1
  <2> HIDE DEF Extended
  <2> QED BY <1>2, <2>1, <2>2, <2>3
<1>4. CASE AppendFails
  <2>1. UNCHANGED <<file, open, up, head, chained>>
    BY <1>0, <1>4 DEF AppendFails, Unfinished
  <2> QED BY <1>0, <2>1, SameFile
<1>5. CASE Crash
  <2>1. up' = FALSE /\ up /\ (UNCHANGED <<file, open>> \/ (file' = Extended(NextRow) /\ open' = FALSE))
    BY <1>0, <1>5 DEF Crash, Unfinished
  <2>2. CASE UNCHANGED <<file, open>>
    BY <1>0, <2>1, <2>2, SameFile
  <2>3. CASE file' = Extended(NextRow) /\ open' = FALSE
    <3>1. Chained(Extended(NextRow), u)
      BY <1>0, <1>a, <2>1, RecordedChained DEF Names
    <3> QED BY <1>2, <2>1, <2>3, <3>1
  <2> QED BY <2>1, <2>2, <2>3
<1>6. CASE Stop \/ SealRead \/ SealAnchor \/ SealDies
  <2>1. UNCHANGED <<file, open, head, chained>> /\ (up' => up)
    <3>1. CASE Stop
      BY <3>1 DEF Stop
    <3>2. CASE SealRead \/ SealAnchor \/ SealDies
      <4>1. UNCHANGED <<file, open, head, chained, up>>
        BY <3>2 DEF SealRead, SealAnchor, SealDies
      <4> QED BY <4>1
    <3> QED BY <1>6, <3>1, <3>2
  <2> QED BY <1>0, <2>1, SameFile
<1>7. CASE SealRename
  <2>1. file' = Resealed(sealer.lines) /\ open' = FALSE /\ sealer.step = "read" /\ up' = up
    BY <1>7 DEF SealRename
  <2>2. ~up
    <3>1. Idle.step # "read"
      BY DEF Idle
    <3>2. up => sealer = Idle
      BY <1>0 DEF SealerAlone
    <3> QED BY <2>1, <3>1, <3>2
  <2>3. Chained(Resealed(sealer.lines), 0)
    BY <2>1, ResealedChained DEF LedgerTyped
  <2> HIDE DEF Resealed
  <2>4. FileChained'
    BY <2>1, <2>2, <2>3 DEF FileChained, Chained, LastOf
  <2> QED BY <2>4
<1>8. CASE DeleteLast
  <2>1. /\ file' = SubSeq(file, 1, Len(file) - 1) /\ ~up /\ up' = up /\ open' = open
        /\ file # <<>> /\ Len(file) \in Sealed(file)
    BY <1>8 DEF DeleteLast
  <2>2. Chained(SubSeq(file, 1, Len(file) - 1), u)
    BY <1>a, <2>1, ChainedShorter
  <2> QED BY <1>0, <1>2, <2>1, <2>2
<1>9. CASE UNCHANGED ledgerVars
  <2>1. UNCHANGED <<file, open, head, chained, up>>
    BY <1>9 DEF ledgerVars
  <2> QED BY <1>0, <2>1, SameFile
<1> QED BY <1>1, <1>3, <1>4, <1>5, <1>6, <1>7, <1>8, <1>9 DEF LedgerNext

(* With all of the trust.                                                   *)
LEMMA AnchorSame ==
  ASSUME AnchorNames, UNCHANGED <<file, anchor, trusted>>,
         (sealer'.step # "renamed" /\ sealer.step # "renamed") \/ UNCHANGED sealer
  PROVE  AnchorNames'
BY DEF AnchorNames, Names, Chained

LEMMA AnchorNext == LedgerInv /\ [LedgerNext]_ledgerVars => AnchorNames'
<1> SUFFICES ASSUME LedgerInv, [LedgerNext]_ledgerVars, trusted = Environment
             PROVE  AnchorNames'
  BY TrustStays DEF AnchorNames
<1>0. ~open /\ trusted' = trusted /\ Turns /\ Steady
      /\ "whole writes" \in trusted /\ "gateway stopped" \in trusted
      /\ "seal finishes" \in trusted /\ "no deletions" \in trusted
      /\ (up => sealer.step = "idle" /\ sealer = Idle)
  <2>1. /\ trusted' = trusted /\ Turns /\ Steady
        /\ "whole writes" \in trusted /\ "gateway stopped" \in trusted
        /\ "seal finishes" \in trusted /\ "no deletions" \in trusted
    BY EnvironmentIs, SteadyTurns, TrustStays
  <2>2. ~open
    BY <2>1 DEF LedgerInv, FileChained
  <2>3. up => sealer = Idle
    BY <2>1 DEF LedgerInv, SealerAlone
  <2>4. Idle.step = "idle"
    BY DEF Idle
  <2> QED BY <2>1, <2>2, <2>3, <2>4
<1>a. PICK u \in Nat : Chained(file, u) /\ (up => head = LastOf(file, u) /\ chained = Len(file) - u)
  BY <1>0 DEF LedgerInv, FileChained
<1>b. IF sealer.step = "renamed" THEN u = 0 /\ sealer.lines = file /\ file # <<>>
      ELSE Names(anchor, file, u)
  BY <1>a DEF LedgerInv, AnchorNames
<1>c. LedgerTyped /\ AnchorNames
  BY DEF LedgerInv
<1>1. CASE Boot \/ Reload \/ Stop
  <2>1. UNCHANGED <<file, anchor, sealer>>
    BY <1>1 DEF Boot, Reload, load, Stop
  <2> QED BY <1>0, <1>c, <2>1, AnchorSame
<1>2. ASSUME NEW f, NEW a, NEW v \in Nat, Chained(f, v), file' = f, anchor' = a, Names(a, f, v),
             sealer'.step # "renamed"
      PROVE  AnchorNames'
  <2>1. ASSUME NEW w \in Nat, Chained(f, w) PROVE Names(a, f, w)
    <3>1. w = v
      BY <1>2, <2>1, ChainedOnce
    <3> QED BY <1>2, <3>1
  <2>2. \A w \in Nat : Chained(f, w)' => FALSE \/ Chained(f, w)
    BY DEF Chained
  <2>3. \A w \in Nat : Chained(file, w)' => Names(anchor, file, w)'
    BY <1>2, <2>1 DEF Chained, Names
  <2> QED BY <1>2, <2>3 DEF AnchorNames
<1>3. CASE recordUsage
  <2> DEFINE f == Extended(NextRow)
  <2>1. file' = f /\ up /\ sealer' = sealer /\ NextRow \in Line
        /\ anchor' \in {anchor, [count |-> chained + 1, head |-> NextRow.h]}
    BY <1>3, <1>c, NextRowType DEF recordUsage
  <2>2. sealer'.step # "renamed" /\ sealer.step # "renamed"
    BY <1>0, <2>1
  <2>3. /\ Chained(f, u) /\ Names(anchor, f, u)
        /\ Names([count |-> chained + 1, head |-> NextRow.h], f, u)
    BY <1>0, <1>a, <1>b, <1>c, <2>1, <2>2, RecordedChained
  <2>4. Names(anchor', f, u)
    <3> HIDE DEF f
    <3>1. CASE anchor' = anchor
      BY <2>3, <3>1
    <3>2. CASE anchor' = [count |-> chained + 1, head |-> NextRow.h]
      BY <2>3, <3>2
    <3> QED BY <2>1, <3>1, <3>2
  <2> HIDE DEF f
  <2> QED BY <1>2, <2>1, <2>2, <2>3, <2>4
<1>4. CASE AppendFails
  <2>1. UNCHANGED <<file, anchor, sealer>>
    BY <1>0, <1>4 DEF AppendFails, Unfinished
  <2> QED BY <1>0, <1>c, <2>1, AnchorSame
<1>5. CASE Crash
  <2>1. up /\ UNCHANGED <<anchor, sealer>>
        /\ (UNCHANGED <<file, open>> \/ (file' = Extended(NextRow) /\ open' = FALSE))
    BY <1>0, <1>5 DEF Crash, Unfinished
  <2>2. CASE UNCHANGED file
    BY <1>0, <1>c, <2>1, <2>2, AnchorSame
  <2>3. CASE file' = Extended(NextRow)
    <3>1. Chained(Extended(NextRow), u) /\ Names(anchor, Extended(NextRow), u)
      BY <1>0, <1>a, <1>b, <1>c, <2>1, RecordedChained
    <3>2. sealer'.step # "renamed"
      BY <1>0, <2>1
    <3> QED BY <1>2, <2>1, <2>3, <3>1, <3>2
  <2> QED BY <2>1, <2>2, <2>3
<1>6. CASE SealRead
  <2>1. UNCHANGED <<file, anchor>> /\ sealer = Idle /\ sealer'.step = "read"
    BY <1>6 DEF SealRead
  <2> QED BY <1>0, <1>c, <2>1, AnchorSame DEF Idle
<1>7. CASE SealRename
  <2>1. file' = Resealed(sealer.lines) /\ sealer'.step = "renamed" /\ sealer'.lines = file'
        /\ sealer.step = "read"
    BY <1>7 DEF SealRename
  <2>2. Chained(Resealed(sealer.lines), 0) /\ Len(Resealed(sealer.lines)) = Len(sealer.lines)
        /\ sealer.lines # <<>> /\ sealer.lines \in Seq(Line)
    BY <1>c, <2>1, ResealedChained DEF LedgerTyped
  <2> HIDE DEF Resealed
  <2>3. file' # <<>>
    BY <2>1, <2>2
  <2>4. ASSUME NEW w \in Nat, Chained(file', w) PROVE w = 0
    BY <2>1, <2>2, <2>4, ChainedOnce
  <2>5. \A w \in Nat : Chained(file, w)' => w = 0
    BY <2>4 DEF Chained
  <2> QED BY <2>1, <2>3, <2>5 DEF AnchorNames
<1>8. CASE SealAnchor
  <2>1. /\ anchor' = [count |-> Len(sealer.lines), head |-> LastSeal(sealer.lines)]
        /\ UNCHANGED file /\ sealer' = Idle /\ sealer.step = "renamed"
    BY <1>8 DEF SealAnchor
  <2>2. u = 0 /\ sealer.lines = file /\ file # <<>> /\ Chained(file, 0)
    BY <1>a, <1>b, <2>1
  <2>3. Len(file) \in Nat /\ Len(file) # 0 /\ LastSeal(file) = file[Len(file)].h
    BY <2>2, ChainedLast DEF LastOf, Chained
  <2>4. Names(anchor', file, 0)
    BY <2>1, <2>2, <2>3 DEF Names
  <2> QED BY <1>2, <2>1, <2>2, <2>4 DEF Idle
<1>9. CASE SealDies \/ DeleteLast
  BY <1>0, <1>9 DEF SealDies, DeleteLast
<1>10. CASE UNCHANGED ledgerVars
  <2>1. UNCHANGED <<file, anchor, sealer>>
    BY <1>10 DEF ledgerVars
  <2> QED BY <1>0, <1>c, <2>1, AnchorSame
<1> QED BY <1>1, <1>3, <1>4, <1>5, <1>6, <1>7, <1>8, <1>9, <1>10 DEF LedgerNext

LEMMA LedgerNextInv == LedgerInv /\ [LedgerNext]_ledgerVars => LedgerInv'
BY TypedNext, AloneNext, FileNext, AnchorNext DEF LedgerInv

LEMMA InvAgrees == LedgerInv => LedgerAgrees
<1> SUFFICES ASSUME LedgerInv PROVE LedgerAgrees
  OBVIOUS
<1>1. NoFalseAlarm
  <2> SUFFICES ASSUME trusted = Environment, sealer.step # "renamed" PROVE intact(file, anchor)
    BY DEF NoFalseAlarm
  <2>1. PICK u \in Nat : Chained(file, u)
    BY EnvironmentIs DEF LedgerInv, FileChained
  <2>2. Names(anchor, file, u)
    BY <2>1 DEF LedgerInv, AnchorNames
  <2> QED BY <2>1, <2>2, ChainedIntact
<1>2. MemoryFollowsFile
  <2> SUFFICES ASSUME up, Steady PROVE head = LastSeal(file) /\ chained = Cardinality(Sealed(file))
    BY DEF MemoryFollowsFile, Steady
  <2>1. PICK u \in Nat : Chained(file, u) /\ head = LastOf(file, u) /\ chained = Len(file) - u
    BY DEF LedgerInv, FileChained
  <2> QED BY <2>1, ChainedLast, ChainedSealed
<1> QED BY <1>1, <1>2 DEF LedgerAgrees

(* "A state verification reads as a pending append, never as a truncation"  *)
(* (costTracker.js:187): however often the gateway dies in recordUsage, and *)
(* whatever seal runs while it is down, the ledger verifies and the head    *)
(* the next row is sealed against is the last one in the file.              *)
THEOREM LedgerVerifies == LedgerSpec => []LedgerAgrees
<1> QED BY LedgerInitInv, LedgerNextInv, InvAgrees, PTL DEF LedgerSpec

-----------------------------------------------------------------------------
(* With torn writes: a line left open is of a row nobody was told of, and   *)
(* so was the last row recorded.                                            *)
Kept(r, f, d) ==
  \/ \E i \in Readable(f) : f[i].row = r
  \/ "whole writes" \notin trusted /\ r > 1 /\ r - 1 \notin d

LastIsSpare(f, d) == f # <<>> /\ f[Len(f)].row \notin d

TearInv ==
  /\ durable \subseteq 1 .. written
  /\ Turns /\ ~deleted =>
       /\ \A r \in durable : Kept(r, file, durable)
       /\ open => /\ "whole writes" \notin trusted /\ LastIsSpare(file, durable)
                  /\ written > 0 /\ written \notin durable

(* What more text costs: the line that was left open, which is spare.       *)
LEMMA ExtendedKeeps ==
  ASSUME LedgerTyped, NEW l \in Line, NEW d, open => LastIsSpare(file, d)
  PROVE  /\ \A i \in Readable(file) : file[i].row \in d =>
               i \in Readable(Extended(l)) /\ Extended(l)[i] = file[i]
         /\ Extended(l) # <<>>
         /\ Extended(l)[Len(Extended(l))] \in {l, Junk}
         /\ ~open => Extended(l)[Len(Extended(l))] = l
         /\ ~open /\ l # Junk => Len(Extended(l)) \in Readable(Extended(l))
<1>0. file \in Seq(Line) /\ Len(file) \in Nat /\ DOMAIN file = 1 .. Len(file)
  BY DEF LedgerTyped
<1>1. CASE open
  <2> DEFINE g == [file EXCEPT ![Len(file)] = Junk]
  <2>1. Extended(l) = g
    BY <1>1 DEF Extended
  <2>2. Len(file) \in 1 .. Len(file) /\ file[Len(file)].row \notin d
    BY <1>0, <1>1 DEF LastIsSpare
  <2>3. DOMAIN g = 1 .. Len(file) /\ g[Len(file)] = Junk
        /\ \A i \in 1 .. Len(file) : i # Len(file) => g[i] = file[i]
    BY <1>0, <2>2
  <2>4. Len(g) = Len(file) /\ g # <<>>
    BY <1>0, <2>2, <2>3
  <2> HIDE DEF g
  <2>5. ASSUME NEW i \in Readable(file), file[i].row \in d
        PROVE  i \in Readable(g) /\ g[i] = file[i]
    <3>1. i \in 1 .. Len(file) /\ file[i] # Junk /\ i # Len(file)
      BY <1>0, <2>2, <2>5 DEF Readable
    <3> QED BY <2>3, <3>1 DEF Readable
  <2> QED BY <1>1, <2>1, <2>3, <2>4, <2>5
<1>2. CASE ~open
  <2> DEFINE g == Append(file, l)
  <2>1. Extended(l) = g
    BY <1>2 DEF Extended
  <2>2. DOMAIN g = 1 .. Len(file) + 1 /\ g[Len(file) + 1] = l /\ Len(g) = Len(file) + 1
        /\ \A i \in 1 .. Len(file) : g[i] = file[i]
    BY <1>0
  <2>3. g # <<>>
    BY <1>0, <2>2
  <2> HIDE DEF g
  <2>4. \A i \in Readable(file) : i \in Readable(g) /\ g[i] = file[i]
    BY <1>0, <2>2 DEF Readable
  <2>5. Len(g) \in DOMAIN g
    BY <1>0, <2>2
  <2> QED BY <1>2, <2>1, <2>2, <2>3, <2>4, <2>5 DEF Readable
<1> QED BY <1>1, <1>2

LEMMA TearInitInv == LedgerInit => TearInv
<1> SUFFICES ASSUME LedgerInit PROVE TearInv
  OBVIOUS
<1>1. ASSUME NEW r \in 1 .. Legacy PROVE \E i \in Readable(file) : file[i].row = r
  <2>1. r \in DOMAIN file /\ file[r].row = r /\ r # 0
    BY DEF LedgerInit
  <2> QED BY <2>1 DEF Readable, Junk
<1> QED BY <1>1 DEF LedgerInit, TearInv, Kept

(* Nothing is recorded, and the file does not lose a row.                   *)
LEMMA TearSame ==
  ASSUME TearInv, UNCHANGED <<file, open, written, durable, deleted, trusted>>
  PROVE  TearInv'
BY DEF TearInv, Turns, Kept, LastIsSpare, Readable

LEMMA TearNext == LedgerTyped /\ SealerAlone /\ TearInv /\ [LedgerNext]_ledgerVars => TearInv'
<1> SUFFICES ASSUME LedgerTyped, SealerAlone, TearInv, [LedgerNext]_ledgerVars PROVE TearInv'
  OBVIOUS
<1>0. trusted' = trusted /\ written \in Nat /\ durable \subseteq 1 .. written
  BY TrustStays DEF LedgerTyped, TearInv
<1>1. CASE Boot \/ Reload \/ Stop \/ SealRead \/ SealAnchor \/ SealDies \/ UNCHANGED ledgerVars
  <2>1. UNCHANGED <<file, open, written, durable, deleted>>
    BY <1>1 DEF Boot, Reload, load, Stop, SealRead, SealAnchor, SealDies, ledgerVars
  <2> QED BY <1>0, <2>1, TearSame
<1>2. CASE DeleteLast
  <2>1. deleted' = TRUE /\ UNCHANGED <<written, durable>>
    BY <1>2 DEF DeleteLast
  <2> QED BY <1>0, <2>1 DEF TearInv
<1>3. CASE SealRename
  <2>1. file' = Resealed(sealer.lines) /\ open' = FALSE /\ sealer.step = "read"
        /\ UNCHANGED <<written, durable, deleted>>
    BY <1>3 DEF SealRename
  <2> SUFFICES ASSUME Turns, ~deleted, NEW r \in durable PROVE Kept(r, file, durable)'
    BY <1>0, <2>1 DEF TearInv, Turns, Kept, LastIsSpare
  <2>2. sealer.lines = file /\ Readable(file) = DOMAIN file /\ file \in Seq(Line)
    BY <2>1 DEF SealerAlone, LedgerTyped
  <2>3. \A i \in 1 .. Len(file) : file[i] # Junk
    BY <2>2 DEF Readable
  <2>4. Chained(Resealed(file), 0) /\ Len(Resealed(file)) = Len(file)
    BY <2>2, <2>3, ResealedChained
  <2>5. Readable(Resealed(file)) = DOMAIN Resealed(file)
    BY <2>4, ChainedSealed
  <2>6. \A i \in DOMAIN file : i \in DOMAIN Resealed(file) /\ Resealed(file)[i].row = file[i].row
    BY DEF Resealed
  <2>7. Kept(r, file, durable)
    BY DEF TearInv
  <2>8. Kept(r, Resealed(file), durable)
    BY <2>2, <2>5, <2>6, <2>7 DEF Kept
  <2> HIDE DEF Resealed
  <2> QED BY <1>0, <2>1, <2>2, <2>8 DEF Kept, Readable
(* The row before an open line was not durable; the row now recorded is     *)
(* glued to that line.                                                      *)
<1>4. CASE recordUsage
  <2> DEFINE g == Extended(NextRow)
  <2>1. /\ file' = g /\ open' = FALSE /\ written' = written + 1 /\ deleted' = deleted
        /\ durable' = durable \cup {written + 1} /\ NextRow.row = written + 1 /\ NextRow # Junk
        /\ NextRow \in Line
    BY <1>4, NextRowType DEF recordUsage
  <2>2. durable' \subseteq 1 .. written'
    BY <1>0, <2>1
  <2> SUFFICES ASSUME Turns, ~deleted, NEW r \in durable' PROVE Kept(r, g, durable')
    BY <1>0, <2>1, <2>2 DEF TearInv, Turns, Kept, LastIsSpare, Readable
  <2>3. /\ \A q \in durable : Kept(q, file, durable)
        /\ open => /\ "whole writes" \notin trusted /\ LastIsSpare(file, durable)
                   /\ written > 0 /\ written \notin durable
    BY DEF TearInv
  <2>4. /\ \A i \in Readable(file) : file[i].row \in durable => i \in Readable(g) /\ g[i] = file[i]
        /\ ~open => g[Len(g)] = NextRow /\ Len(g) \in Readable(g)
    BY <2>1, <2>3, ExtendedKeeps
  <2> HIDE DEF g
  <2>5. CASE r \in durable
    <3>1. Kept(r, file, durable)
      BY <2>3, <2>5
    <3>2. CASE \E i \in Readable(file) : file[i].row = r
      BY <2>4, <2>5, <3>2 DEF Kept
    <3>3. CASE "whole writes" \notin trusted /\ r > 1 /\ r - 1 \notin durable
      <4>1. r - 1 # written + 1
        BY <1>0, <2>5
      <4>2. r - 1 \notin durable'
        BY <2>1, <3>3, <4>1
      <4> QED BY <3>3, <4>2 DEF Kept
    <3> QED BY <3>1, <3>2, <3>3 DEF Kept
  <2>6. CASE r = written + 1 /\ ~open
    BY <2>1, <2>4, <2>6 DEF Kept
  <2>7. CASE r = written + 1 /\ open
    <3>1. r > 1 /\ r - 1 = written /\ written # written + 1
      <4>1. written > 0 /\ r = written + 1
        BY <2>3, <2>7
      <4> QED BY <1>0, <4>1
    <3>2. r - 1 \notin durable'
      BY <2>1, <2>3, <2>7, <3>1
    <3> QED BY <2>3, <2>7, <3>1, <3>2 DEF Kept
  <2> QED BY <2>1, <2>5, <2>6, <2>7
<1>5. CASE AppendFails \/ Crash
  <2>1. /\ written' = written + 1 /\ UNCHANGED <<deleted, durable>> /\ NextRow.row = written + 1
        /\ NextRow \in Line /\ NextRow # Junk
    BY <1>5, NextRowType DEF AppendFails, Crash
  <2>2. durable \subseteq 1 .. written' /\ written + 1 > 0 /\ written + 1 \notin durable
    BY <1>0, <2>1
  <2>0. TearInv' <=> (Turns /\ ~deleted =>
          /\ \A r \in durable : Kept(r, file', durable)
          /\ open' => /\ "whole writes" \notin trusted /\ LastIsSpare(file', durable))
    BY <1>0, <2>1, <2>2 DEF TearInv, Turns, Kept, LastIsSpare, Readable
  <2> SUFFICES ASSUME Turns, ~deleted
               PROVE  /\ \A r \in durable : Kept(r, file', durable)
                      /\ open' => "whole writes" \notin trusted /\ LastIsSpare(file', durable)
    BY <2>0
  <2>3. /\ \A q \in durable : Kept(q, file, durable)
        /\ open => "whole writes" \notin trusted /\ LastIsSpare(file, durable)
    BY DEF TearInv
  <2>4. CASE UNCHANGED <<file, open>>
    BY <2>3, <2>4
  <2>5. CASE \E l \in {Junk, NextRow} : file' = Extended(l)
    <3>1. PICK l \in {Junk, NextRow} : file' = Extended(l)
      BY <2>5
    <3>2. l \in Line /\ l.row \notin durable /\ Junk.row \notin durable
      BY <1>0, <2>1, <2>2, LineType DEF Junk
    <3> DEFINE g == Extended(l)
    <3>3. /\ \A i \in Readable(file) : file[i].row \in durable => i \in Readable(g) /\ g[i] = file[i]
          /\ g # <<>> /\ g[Len(g)] \in {l, Junk}
      BY <2>3, <3>2, ExtendedKeeps
    <3>4. open' => "whole writes" \notin trusted
      BY <1>5 DEF AppendFails, Crash, Unfinished, TearInv
    <3> HIDE DEF g
    <3>5. LastIsSpare(g, durable)
      BY <3>2, <3>3 DEF LastIsSpare
    <3>6. \A r \in durable : Kept(r, g, durable)
      BY <2>3, <3>3 DEF Kept
    <3> QED BY <3>1, <3>4, <3>5, <3>6 DEF g
  <2>6. Unfinished \/ (file' = Extended(NextRow) /\ open' = FALSE)
    BY <1>5 DEF AppendFails, Crash
  <2> QED BY <2>4, <2>5, <2>6, UnfinishedIs
<1> QED BY <1>1, <1>2, <1>3, <1>4, <1>5 DEF LedgerNext

(* "One bad byte should cost one row of history" (costTracker.js:112): it   *)
(* costs two at most, for any number of failed and torn writes.             *)
THEOREM TearCostsTwoRows == LedgerSpec => []TearCostsOneMore
<1> DEFINE inv == LedgerTyped /\ SealerAlone /\ TearInv
<1>1. LedgerInit => inv
  BY LedgerInitInv, TearInitInv DEF LedgerInv
<1>2. inv /\ [LedgerNext]_ledgerVars => inv'
  BY TypedNext, AloneNext, TearNext
<1>3. inv => TearCostsOneMore
  BY DEF TearInv, Turns, Kept, TearCostsOneMore
<1> HIDE DEF inv
<1> QED BY <1>1, <1>2, <1>3, PTL DEF LedgerSpec

HIDE LedgerAssumption

-----------------------------------------------------------------------------
(* The embedded services: which children run.                                *)
USE EmbeddedAssumption

Child ==
  [id : Services, of : Nat, alive : BOOLEAN, exit : BOOLEAN, signalled : BOOLEAN,
   unkillable : BOOLEAN]

(* Entries name children of their service.                                  *)
Entered(run, all) ==
  /\ all \in Seq(Child)
  /\ run \in [Services -> {NoChild} \cup Nat]
  /\ \A id \in Services : run[id] # NoChild => run[id] \in DOMAIN all /\ all[run[id]].id = id

(* What NoHiddenChild says of one child, in the gateway g.                  *)
Seen(k, run, all, g) ==
  LET c == all[k] IN
    c.alive /\ ~c.unkillable /\ c.of \notin g.killed =>
      \/ g.up /\ c.of = g.n /\ run[c.id] = k /\ ~c.exit
      \/ (c.of # g.n \/ ~g.up) /\ c.signalled

Tended(run, all, g) ==
  /\ Entered(run, all)
  /\ \A k \in DOMAIN all : all[k].of <= g.n /\ Seen(k, run, all, g)

Gateway == [n : Nat, up : BOOLEAN, killed : SUBSET Nat]

ServicesInv ==
  /\ gateway \in Gateway
  /\ \A n \in gateway.killed : n < gateway.n \/ (n = gateway.n /\ ~gateway.up)
  /\ Tended(running, children, gateway)

LEMMA ServicesInitInv == EmbeddedInit => ServicesInv
BY DEF EmbeddedInit, ServicesInv, Gateway, Tended, Entered

-----------------------------------------------------------------------------
(* A service is started, if its entry is of no child or of one that ended.  *)
LEMMA StartKeeps ==
  ASSUME gateway \in Gateway, gateway.up, gateway.n \notin gateway.killed,
         NEW s, Tended(s.running, s.children, gateway), NEW id \in Services, NEW found \in BOOLEAN
  PROVE  Tended(StartEach(s, id, found).running, StartEach(s, id, found).children, gateway)
<1>1. CASE s.running[id] # NoChild /\ ~s.children[s.running[id]].exit
  BY <1>1 DEF StartEach
<1>2. CASE ~(s.running[id] # NoChild /\ ~s.children[s.running[id]].exit)
  <2> DEFINE new == child(id, found)
             n == Len(s.children) + 1
             all == Append(s.children, new)
             run == [s.running EXCEPT ![id] = n]
  <2>1. StartEach(s, id, found) = [running |-> run, children |-> all]
    BY <1>2 DEF StartEach
  <2>2. /\ new \in Child /\ new.id = id /\ new.of = gateway.n /\ ~new.exit
    BY DEF child, Child, Gateway
  <2>3. s.children \in Seq(Child) /\ s.running \in [Services -> {NoChild} \cup Nat]
        /\ n \in Nat /\ n >= 1 /\ n # NoChild /\ DOMAIN s.children = 1 .. n - 1
    BY DEF Tended, Entered
  <2> HIDE DEF new
  <2>4. /\ all \in Seq(Child) /\ DOMAIN all = 1 .. n /\ all[n] = new
        /\ \A k \in 1 .. n - 1 : all[k] = s.children[k]
    BY <2>2, <2>3
  <2>5. run \in [Services -> {NoChild} \cup Nat] /\ run[id] = n
        /\ \A other \in Services : other # id => run[other] = s.running[other]
    BY <2>3
  <2>10. n \notin DOMAIN s.children
    BY <2>3
  <2> HIDE DEF all, run, n
  <2>6. Entered(run, all)
    <3>1. \A other \in Services : s.running[other] # NoChild =>
            s.running[other] \in 1 .. n - 1 /\ s.children[s.running[other]].id = other
      BY <2>3 DEF Tended, Entered
    <3>2. ASSUME NEW other \in Services, run[other] # NoChild
          PROVE  run[other] \in DOMAIN all /\ all[run[other]].id = other
      <4>1. CASE other = id
        BY <2>2, <2>3, <2>4, <2>5, <4>1
      <4>2. CASE other # id
        <5>1. run[other] = s.running[other] /\ s.running[other] # NoChild
          BY <2>5, <3>2, <4>2
        <5>2. run[other] \in 1 .. n - 1 /\ s.children[run[other]].id = other
          BY <3>1, <5>1
        <5>3. all[run[other]] = s.children[run[other]] /\ run[other] \in 1 .. n
          BY <2>3, <2>4, <5>2
        <5> QED BY <2>4, <5>2, <5>3
      <4> QED BY <4>1, <4>2
    <3> QED BY <2>4, <2>5, <3>2 DEF Entered
  <2>7. all[n].of <= gateway.n /\ Seen(n, run, all, gateway)
    BY <2>2, <2>4, <2>5 DEF Seen, Gateway
  <2>8. ASSUME NEW k \in 1 .. n - 1
        PROVE  all[k].of <= gateway.n /\ Seen(k, run, all, gateway)
    <3>1. all[k] = s.children[k] /\ k \in DOMAIN s.children
      BY <2>3, <2>4, <2>8
    <3>2. all[k].of <= gateway.n /\ Seen(k, s.running, s.children, gateway)
      BY <3>1 DEF Tended
    <3>3. s.children[k].id \in Services
      <4>1. s.children[k] \in Child
        BY <2>3, <3>1
      <4> QED BY <4>1 DEF Child
    <3>4. CASE s.children[k].id # id
      BY <2>5, <3>1, <3>2, <3>3, <3>4 DEF Seen
    <3>5. CASE s.children[k].id = id
      <4>1. ~(s.running[id] = k /\ ~s.children[k].exit)
        BY <1>2, <2>3, <3>1
      <4> QED BY <3>1, <3>2, <3>5, <4>1 DEF Seen
    <3> QED BY <3>4, <3>5
  <2>9. \A k \in DOMAIN all : k = n \/ k \in 1 .. n - 1
    BY <2>3, <2>4
  <2>11. Tended(run, all, gateway)
    BY <2>6, <2>7, <2>8, <2>9 DEF Tended
  <2> QED BY <2>1, <2>11
<1> QED BY <1>1, <1>2

(* The services of a profile, one after the other: the function that        *)
(* Started defines exists, and keeps it at each of its steps.               *)
Steps(p, found, n, f) ==
  f = [i \in 0 .. n |-> IF i = 0 THEN [running |-> running, children |-> children]
                        ELSE StartEach(f[i - 1], p[i], found[p[i]])]

LEMMA StepsExist ==
  ASSUME NEW p, NEW found, NEW n \in Nat
  PROVE  \E f : Steps(p, found, n, f)
<1> DEFINE zero == [running |-> running, children |-> children]
           T == {m \in Nat : ~\E f : Steps(p, found, m, f)}
<1> SUFFICES ASSUME T # {} PROVE FALSE
  OBVIOUS
<1>1. PICK m \in T : \A k \in T : m <= k
  <2> HIDE DEF T
  <2>1. T \subseteq Nat
    BY DEF T
  <2> QED BY <2>1, LeastNumber
<1>2. m # 0
  <2>1. Steps(p, found, 0, [i \in 0 .. 0 |-> zero])
    BY DEF Steps
  <2> QED BY <2>1
<1>3. m - 1 \in Nat /\ m - 1 \notin T
  BY <1>1, <1>2
<1>4. PICK f : Steps(p, found, m - 1, f)
  BY <1>3
<1> DEFINE next(s, i) == StartEach(s, p[i], found[p[i]])
           g == [i \in 0 .. m |-> IF i < m THEN f[i] ELSE next(f[m - 1], m)]
<1> HIDE DEF zero
<1>5. \A i \in 0 .. m - 1 : f[i] = IF i = 0 THEN zero ELSE next(f[i - 1], i)
  BY <1>4 DEF Steps, zero
<1> HIDE DEF next
<1>6. \A i \in 0 .. m : g[i] = IF i = 0 THEN zero ELSE next(g[i - 1], i)
  <2> SUFFICES ASSUME NEW i \in 0 .. m PROVE g[i] = IF i = 0 THEN zero ELSE next(g[i - 1], i)
    OBVIOUS
  <2>0. m \in Nat
    OBVIOUS
  <2>1. CASE i < m
    <3>1. i \in 0 .. m - 1 /\ (i # 0 => i - 1 \in 0 .. m /\ i - 1 < m) /\ g[i] = f[i]
      BY <2>0, <2>1
    <3>2. i # 0 => g[i - 1] = f[i - 1]
      BY <3>1
    <3> QED BY <1>5, <3>1, <3>2
  <2>2. CASE i = m
    <3>1. g[m] = next(f[m - 1], m) /\ g[m - 1] = f[m - 1]
      BY <1>2, <1>3
    <3> QED BY <1>2, <2>2, <3>1
  <2> QED BY <2>0, <2>1, <2>2
<1>7. g = [i \in 0 .. m |-> IF i = 0 THEN zero ELSE next(g[i - 1], i)]
  <2> DEFINE h == [i \in 0 .. m |-> IF i = 0 THEN zero ELSE next(g[i - 1], i)]
  <2>1. \A i \in 0 .. m : h[i] = g[i]
    BY <1>6
  <2>2. h = [i \in 0 .. m |-> h[i]] /\ g = [i \in 0 .. m |-> g[i]]
    OBVIOUS
  <2> QED BY <2>1, <2>2
<1>8. Steps(p, found, m, g)
  BY <1>7 DEF Steps, zero, next
<1> QED BY <1>8

LEMMA StartedKeeps ==
  ASSUME ServicesInv, gateway.up, NEW p \in Seq(Services), NEW found \in [Services -> BOOLEAN]
  PROVE  Tended(Started(p, found).running, Started(p, found).children, gateway)
<1> DEFINE n == Len(p)
           after == CHOOSE f : Steps(p, found, n, f)
<1>1. n \in Nat
  OBVIOUS
<1>2. Started(p, found) = after[n]
  BY DEF Started, Steps
<1>3. Steps(p, found, n, after)
  BY <1>1, StepsExist
<1> HIDE DEF after, n
<1>4. after[0] = [running |-> running, children |-> children]
      /\ \A i \in 1 .. n : after[i] = StartEach(after[i - 1], p[i], found[p[i]])
  <2>1. /\ 0 \in 0 .. n
        /\ \A i \in 1 .. n : i \in 0 .. n /\ i # 0
    BY <1>1
  <2>2. \A i \in 0 .. n : after[i] = IF i = 0 THEN [running |-> running, children |-> children]
                                     ELSE StartEach(after[i - 1], p[i], found[p[i]])
    BY <1>3 DEF Steps
  <2> HIDE DEF StartEach
  <2> QED BY <2>1, <2>2
<1> DEFINE Good(i) == Tended(after[i].running, after[i].children, gateway)
           T == {i \in 0 .. n : ~Good(i)}
<1>5. gateway \in Gateway /\ gateway.n \notin gateway.killed
  BY DEF ServicesInv, Gateway
<1>6. T = {}
  <2> SUFFICES ASSUME T # {} PROVE FALSE
    OBVIOUS
  <2>1. PICK i \in T : \A j \in T : i <= j
    <3> HIDE DEF Good
    <3>1. T \subseteq Nat
      OBVIOUS
    <3> HIDE DEF T
    <3> QED BY <3>1, LeastNumber
  <2>2. i # 0
    BY <1>4 DEF ServicesInv
  <2>3. i - 1 \in 0 .. n /\ i - 1 \notin T /\ i \in 1 .. n
    <3> HIDE DEF Good
    <3> QED BY <1>1, <2>1, <2>2
  <2>4. Good(i - 1)
    BY <2>3
  <2>5. p[i] \in Services /\ found[p[i]] \in BOOLEAN
    BY <2>3 DEF n
  <2>6. Good(i)
    <3>1. after[i] = StartEach(after[i - 1], p[i], found[p[i]])
      BY <1>4, <2>3
    <3>2. Tended(after[i - 1].running, after[i - 1].children, gateway) /\ gateway.up
      BY <2>4
    <3> DEFINE s == after[i - 1]
    <3>3. Tended(StartEach(s, p[i], found[p[i]]).running, StartEach(s, p[i], found[p[i]]).children,
                 gateway)
      <4>1. Tended(s.running, s.children, gateway)
        BY <3>2
      <4> HIDE DEF s, Good
      <4> QED BY <1>5, <2>5, <3>2, <4>1, StartKeeps
    <3> QED BY <3>1, <3>3
  <2> QED BY <2>6
<1>7. Good(n)
  BY <1>1, <1>6
<1> QED BY <1>2, <1>7

-----------------------------------------------------------------------------
(* A step that changes one child, and at most drops the entry of one that   *)
(* ended.                                                                   *)
LEMMA ChildChanges ==
  ASSUME Tended(running, children, gateway), gateway \in Gateway, NEW k \in DOMAIN children,
         NEW c \in Child, c.id = children[k].id, c.of = children[k].of,
         Seen(k, running, [children EXCEPT ![k] = c], gateway)
  PROVE  Tended(running, [children EXCEPT ![k] = c], gateway)
<1> DEFINE all == [children EXCEPT ![k] = c]
<1>0. children \in Seq(Child)
  BY DEF Tended, Entered
<1>1. all \in Seq(Child) /\ DOMAIN all = DOMAIN children /\ all[k] = c
      /\ \A j \in DOMAIN children : j # k => all[j] = children[j]
  BY <1>0
<1>2. Seen(k, running, all, gateway)
  OBVIOUS
<1> HIDE DEF all
<1>3. Entered(running, all)
  BY <1>1 DEF Tended, Entered
<1>4. \A j \in DOMAIN all : all[j].of <= gateway.n /\ Seen(j, running, all, gateway)
  BY <1>1, <1>2 DEF Tended, Seen
<1>5. Tended(running, all, gateway)
  BY <1>3, <1>4 DEF Tended
<1> QED BY <1>5 DEF all

LEMMA StopInv == ASSUME ServicesInv, NEW id \in Services, stopService(id) PROVE ServicesInv'
<1> DEFINE k == running[id]
<1>0. /\ Tended(running, children, gateway) /\ gateway \in Gateway /\ gateway' = gateway
      /\ gateway.up /\ k # NoChild
  BY DEF ServicesInv, stopService
<1>1. k \in DOMAIN children /\ children[k].id = id /\ children \in Seq(Child)
  BY <1>0 DEF Tended, Entered
<1>2. children[k] \in Child
  BY <1>1
<1>3. SUFFICES Tended(running', children', gateway)
  BY <1>0 DEF ServicesInv, Tended, Entered, Seen
<1>4. CASE children[k].exit
  <2>1. running' = [running EXCEPT ![id] = NoChild] /\ children' = children
    BY <1>4 DEF stopService
  <2> DEFINE run == [running EXCEPT ![id] = NoChild]
  <2>2. /\ run \in [Services -> {NoChild} \cup Nat] /\ run[id] = NoChild
        /\ \A other \in Services : other # id => run[other] = running[other]
    BY <1>0 DEF Tended, Entered
  <2> HIDE DEF run
  <2>3. Entered(run, children)
    BY <1>0, <2>2 DEF Tended, Entered
  <2>4. ASSUME NEW j \in DOMAIN children PROVE Seen(j, run, children, gateway)
    <3>1. Seen(j, running, children, gateway) /\ children[j] \in Child
      BY <1>0, <1>1 DEF Tended
    <3>2. children[j].id \in Services
      BY <3>1 DEF Child
    <3>3. CASE children[j].id = id
      BY <1>4, <3>1, <3>3 DEF Seen
    <3>4. CASE children[j].id # id
      BY <2>2, <3>1, <3>2, <3>4 DEF Seen
    <3> QED BY <3>3, <3>4
  <2>5. Tended(run, children, gateway)
    BY <1>0, <2>3, <2>4 DEF Tended
  <2> QED BY <2>1, <2>5 DEF run
<1>5. CASE ~children[k].exit
  <2>1. UNCHANGED running
        /\ \/ children' = [children EXCEPT ![k].signalled = TRUE]
           \/ children' = [children EXCEPT ![k].exit = TRUE, ![k].unkillable = TRUE]
    BY <1>5 DEF stopService
  <2> DEFINE c == [children[k] EXCEPT !.signalled = TRUE]
             d == [children[k] EXCEPT !.exit = TRUE, !.unkillable = TRUE]
  <2>2. children' \in {[children EXCEPT ![k] = c], [children EXCEPT ![k] = d]}
    BY <1>1, <2>1
  <2>3. /\ c \in Child /\ c.id = children[k].id /\ c.of = children[k].of
        /\ c.alive = children[k].alive /\ c.exit = children[k].exit
        /\ c.unkillable = children[k].unkillable /\ c.signalled
    BY <1>2 DEF Child
  <2>4. d \in Child /\ d.id = children[k].id /\ d.of = children[k].of /\ d.unkillable
    BY <1>2 DEF Child
  <2>5. Seen(k, running, children, gateway)
    BY <1>0, <1>1 DEF Tended
  <2>6. \A e : [children EXCEPT ![k] = e][k] = e
    BY <1>1
  <2> HIDE DEF c, d, k
  <2>7. Seen(k, running, [children EXCEPT ![k] = c], gateway)
    BY <2>3, <2>5, <2>6 DEF Seen
  <2>8. Seen(k, running, [children EXCEPT ![k] = d], gateway)
    BY <2>4, <2>6 DEF Seen
  <2>9. Tended(running, [children EXCEPT ![k] = c], gateway)
    BY <1>0, <1>1, <2>3, <2>7, ChildChanges
  <2>10. Tended(running, [children EXCEPT ![k] = d], gateway)
    BY <1>0, <1>1, <2>4, <2>8, ChildChanges
  <2> QED BY <2>1, <2>2, <2>9, <2>10
<1> QED BY <1>4, <1>5

LEMMA EndsInv ==
  ASSUME ServicesInv, NEW k \in DOMAIN children, Ends(k) \/ OnExit(k)
  PROVE  ServicesInv'
<1>0. /\ Tended(running, children, gateway) /\ gateway \in Gateway /\ gateway' = gateway
      /\ running' = running /\ children[k] \in Child
  BY DEF ServicesInv, Ends, OnExit, Tended, Entered
<1> DEFINE c == IF Ends(k) THEN [children[k] EXCEPT !.alive = FALSE]
                ELSE [children[k] EXCEPT !.exit = TRUE]
<1>1. children' = [children EXCEPT ![k] = c]
  BY DEF Ends, OnExit
<1>2. ~Ends(k) => ~children[k].alive
  BY DEF OnExit
<1>3. /\ c \in Child /\ c.id = children[k].id /\ c.of = children[k].of /\ ~c.alive
  BY <1>0, <1>2 DEF Child
<1> HIDE DEF c
<1>4. Seen(k, running, [children EXCEPT ![k] = c], gateway)
  BY <1>3 DEF Seen
<1>5. Tended(running, [children EXCEPT ![k] = c], gateway)
  BY <1>0, <1>3, <1>4, ChildChanges
<1> QED BY <1>0, <1>1, <1>5 DEF ServicesInv, Tended, Entered, Seen

LEMMA GatewayInv ==
  ASSUME ServicesInv, Shutdown \/ Killed \/ StartGateway
  PROVE  ServicesInv'
<1>0. /\ gateway \in Gateway /\ children \in Seq(Child)
      /\ \A n \in gateway.killed : n < gateway.n \/ (n = gateway.n /\ ~gateway.up)
      /\ Entered(running, children)
      /\ \A k \in DOMAIN children :
           children[k].of <= gateway.n /\ Seen(k, running, children, gateway) /\ children[k] \in Child
  BY DEF ServicesInv, Tended, Entered
<1>1. CASE Shutdown
  <2>1. /\ gateway' = [gateway EXCEPT !.up = FALSE] /\ running' = running /\ gateway.up
        /\ gateway'.n = gateway.n /\ ~gateway'.up /\ gateway'.killed = gateway.killed
        /\ gateway' \in Gateway
    BY <1>0, <1>1 DEF Shutdown, Gateway
  <2> DEFINE toldOf(k) == running[children[k].id] = k /\ ~children[k].exit
             one(k) == [children[k] EXCEPT !.signalled = @ \/ toldOf(k)]
             all == [k \in DOMAIN children |-> one(k)]
  <2>2. children' = all
    BY <1>1 DEF Shutdown
  <2>3. ASSUME NEW k \in DOMAIN children
        PROVE  /\ one(k) \in Child /\ one(k).id = children[k].id /\ one(k).of = children[k].of
               /\ one(k).alive = children[k].alive /\ one(k).unkillable = children[k].unkillable
               /\ toldOf(k) \/ children[k].signalled => one(k).signalled
    <3>1. toldOf(k) \in BOOLEAN
      OBVIOUS
    <3>2. children[k] \in Child
      BY <1>0
    <3> HIDE DEF toldOf
    <3>3. (children[k].signalled \/ toldOf(k)) \in BOOLEAN
      BY <3>1, <3>2 DEF Child
    <3> QED BY <3>1, <3>2, <3>3 DEF Child
  <2> HIDE DEF one
  <2>4. all \in Seq(Child) /\ DOMAIN all = DOMAIN children
    BY <1>0, <2>3
  <2>5. \A k \in DOMAIN children : all[k] = one(k)
    OBVIOUS
  <2> HIDE DEF all
  <2>6. Entered(running, all)
    BY <1>0, <2>3, <2>4, <2>5 DEF Entered
  <2>7. ASSUME NEW k \in DOMAIN children
        PROVE  all[k].of <= gateway'.n /\ Seen(k, running, all, gateway')
    <3>1. Seen(k, running, children, gateway) /\ children[k].of <= gateway.n
      BY <1>0
    <3> QED BY <2>1, <2>3, <2>5, <3>1 DEF Seen
  <2>8. Tended(running', children', gateway')
    BY <2>1, <2>2, <2>4, <2>6, <2>7 DEF Tended
  <2>9. \A n \in gateway'.killed : n < gateway'.n \/ (n = gateway'.n /\ ~gateway'.up)
    BY <1>0, <2>1
  <2> QED BY <2>1, <2>8, <2>9 DEF ServicesInv, Tended, Entered, Seen
<1>2. CASE Killed
  <2>1. /\ UNCHANGED <<running, children>> /\ gateway.up
        /\ gateway'.n = gateway.n /\ ~gateway'.up
        /\ gateway'.killed = gateway.killed \cup {gateway.n} /\ gateway' \in Gateway
    BY <1>0, <1>2 DEF Killed, Gateway
  <2>2. \A k \in DOMAIN children : children[k].of <= gateway'.n /\ Seen(k, running, children, gateway')
    BY <1>0, <2>1 DEF Seen
  <2>3. \A n \in gateway'.killed : n < gateway'.n \/ (n = gateway'.n /\ ~gateway'.up)
    BY <1>0, <2>1
  <2>4. Tended(running, children, gateway')
    BY <1>0, <2>2 DEF Tended
  <2> QED BY <2>1, <2>3, <2>4 DEF ServicesInv, Tended, Entered, Seen
<1>3. CASE StartGateway
  <2>1. /\ UNCHANGED children /\ ~gateway.up /\ running' = [id \in Services |-> NoChild]
        /\ gateway'.n = gateway.n + 1 /\ gateway'.up
        /\ gateway'.killed = gateway.killed /\ gateway' \in Gateway
    <3>1. UNCHANGED children /\ ~gateway.up /\ running' = [id \in Services |-> NoChild]
          /\ gateway' = [gateway EXCEPT !.up = TRUE, !.n = gateway.n + 1]
      BY <1>3 DEF StartGateway
    <3>2. gateway = [n |-> gateway.n, up |-> gateway.up, killed |-> gateway.killed]
          /\ gateway.n + 1 \in Nat /\ gateway.killed \in SUBSET Nat
      BY <1>0 DEF Gateway
    <3>3. gateway' = [n |-> gateway.n + 1, up |-> TRUE, killed |-> gateway.killed]
      BY <3>1, <3>2
    <3> QED BY <3>1, <3>2, <3>3 DEF Gateway
  <2>2. Entered(running', children)
    BY <1>0, <2>1 DEF Entered
  <2>3. gateway.n \in Nat /\ \A k \in DOMAIN children : children[k].of \in Nat
    BY <1>0 DEF Gateway, Child
  <2>4. \A k \in DOMAIN children : children[k].of <= gateway'.n /\ Seen(k, running', children, gateway')
    BY <1>0, <2>1, <2>3 DEF Seen
  <2>5. \A n \in gateway'.killed : n < gateway'.n
    BY <1>0, <2>1, <2>3 DEF Gateway
  <2>6. Tended(running', children, gateway')
    BY <2>2, <2>4 DEF Tended
  <2> QED BY <2>1, <2>5, <2>6 DEF ServicesInv, Tended, Entered, Seen
<1> QED BY <1>1, <1>2, <1>3

LEMMA ServicesNextInv == ServicesInv /\ [EmbeddedNext]_embeddedVars => ServicesInv'
<1> SUFFICES ASSUME ServicesInv, [EmbeddedNext]_embeddedVars PROVE ServicesInv'
  OBVIOUS
<1>1. ASSUME NEW p \in Seq(Services), startProfile(p) PROVE ServicesInv'
  <2>1. PICK found \in [Services -> BOOLEAN] :
          running' = Started(p, found).running /\ children' = Started(p, found).children
    BY <1>1 DEF startProfile
  <2>2. gateway.up /\ gateway' = gateway
    BY <1>1 DEF startProfile
  <2>3. Tended(running', children', gateway)
    BY <2>1, <2>2, StartedKeeps
  <2> QED BY <2>2, <2>3 DEF ServicesInv, Tended, Entered, Seen
<1>2. ASSUME NEW p \in Profiles, startProfile(p) PROVE ServicesInv'
  BY <1>1, <1>2
<1>3. ASSUME NEW id \in Services, startService(id) PROVE ServicesInv'
  <2>1. <<id>> \in Seq(Services)
    OBVIOUS
  <2> QED BY <1>1, <1>3, <2>1 DEF startService
<1>4. CASE UNCHANGED embeddedVars
  BY <1>4 DEF embeddedVars, ServicesInv, Tended, Entered, Seen
<1> QED BY <1>2, <1>3, <1>4, StopInv, EndsInv, GatewayInv DEF EmbeddedNext

(* No child holds a port unseen (embedded.js:21, 117, 193), however many    *)
(* services and gateways there are, and whatever their profiles name.       *)
THEOREM ChildrenAreKnown == EmbeddedSpec => []NoHiddenChild
<1>1. ServicesInv => NoHiddenChild
  BY DEF ServicesInv, Tended, Seen, NoHiddenChild
<1> QED BY <1>1, ServicesInitInv, ServicesNextInv, PTL DEF EmbeddedSpec

HIDE EmbeddedAssumption

-----------------------------------------------------------------------------
(* The export: what is pushed to the GRC tool is what was recorded.          *)
USE GrcAssumption

Datasets == {"tests", "accounts"}

TypedRequest(a) ==
  /\ a \in Requests
  /\ a.verb \in {"put", "session", "complete"} => a.on \in Datasets

OfItems == {"submit", "find", "create", "update"}   \* the end of every push with evidence

(* What may be left of a push, of the platform k: the end of its plan.      *)
Plan(left, k) ==
  /\ left \in Seq(Requests) /\ left # <<>>
  /\ \A i \in DOMAIN left :
       /\ TypedRequest(left[i])
       /\ left[i].verb = "token" => i # Len(left)
       /\ left[i].verb = "session" => i # Len(left) /\ left[i + 1] = Ask("complete", left[i].on)
       /\ left[i].verb = "complete" /\ i # 1 => left[i - 1] = Ask("session", left[i].on)
       /\ left[i].verb \in OfItems => i = Len(left)
       /\ left[i].verb \in {"create", "update"} => i = 1
       /\ left[i].verb \in OfItems => (left[i].verb = "submit" <=> k = "vanta")

Owes(left, verbs, on) == \E i \in DOMAIN left : left[i].verb \in verbs /\ left[i].on = on

(* What is not left of it is done.                                          *)
Settled(left, r, n, c) ==
  /\ "tests" \in c => Owes(left, {"put", "complete"}, "tests") \/ r.tests = n
  /\ "accounts" \in c => Owes(left, {"put", "complete"}, "accounts") \/ r.accounts = n
  /\ "evidence" \in c =>
       /\ Owes(left, {"upload"}, "evidence") \/ n \in r.files
       /\ Owes(left, OfItems, "evidence") \/ \E k \in DOMAIN r.items : n \in r.items[k]

Remote == [tests : Nat, accounts : Nat, session : SUBSET (Datasets \X Nat), files : SUBSET Nat,
           items : Seq(SUBSET Nat)]

Made(v, r, c) ==
  /\ "tests" \in c => r.tests >= v
  /\ "accounts" \in c => r.accounts >= v
  /\ "evidence" \in c => \E k \in DOMAIN r.items : v \in r.items[k]

Pushes == [payload : Nat, match : Nat, left : Seq(Requests)]

Pushing ==
  push # NoPush =>
    /\ push \in Pushes /\ push.payload = pushed
    /\ Plan(push.left, platform)
    /\ Settled(push.left, remote, pushed, config)
    /\ push.left[1].verb = "create" => Len(remote.items) = 0 \/ lost.items
    /\ push.left[1].verb = "update" => push.match \in DOMAIN remote.items

Sessions ==
  \A s \in remote.session :
    \/ lost.sessions
    \/ /\ push # NoPush /\ push.left[1].verb \in {"session", "complete"}
       /\ s = <<push.left[1].on, pushed>>

Recorded ==
  \A i \in DOMAIN grcEvents :
    /\ grcEvents[i].payload \in Nat /\ grcEvents[i].payload <= pushed
    /\ grcEvents[i].ok => Made(grcEvents[i].payload, remote, config)

GrcInv ==
  /\ pushed \in Nat /\ remote \in Remote /\ remote.tests <= pushed /\ remote.accounts <= pushed
  /\ platform \in {"vanta", "drata"} /\ config \subseteq {"tests", "accounts", "evidence"}
  /\ platform = "vanta" => "tests" \in config
  /\ platform = "drata" => "evidence" \in config
  /\ lost \in [replies : Nat, sessions : BOOLEAN, items : BOOLEAN]
  /\ grcEvents \in Seq([ok : BOOLEAN, payload : Nat])
  /\ Pushing /\ Sessions /\ Recorded
  /\ platform = "drata" /\ Len(remote.items) > 1 => lost.items

LEMMA GrcInitInv == GrcInit => GrcInv
<1> SUFFICES ASSUME GrcInit PROVE GrcInv
  OBVIOUS
<1>1. remote \in Remote /\ remote.tests = 0 /\ remote.accounts = 0 /\ remote.session = {}
      /\ remote.items = <<>>
  BY DEF GrcInit, Remote
<1>2. lost \in [replies : Nat, sessions : BOOLEAN, items : BOOLEAN]
  BY DEF GrcInit
<1>3. pushed = 0 /\ grcEvents = <<>> /\ push = NoPush
  BY DEF GrcInit
<1>4. grcEvents \in Seq([ok : BOOLEAN, payload : Nat]) /\ DOMAIN grcEvents = {}
  BY <1>3
<1>5. Len(remote.items) = 0
  BY <1>1
<1>6. /\ platform \in {"vanta", "drata"} /\ config \subseteq {"tests", "accounts", "evidence"}
      /\ platform = "vanta" => "tests" \in config
      /\ platform = "drata" => "evidence" \in config
  BY DEF GrcInit
<1> QED BY <1>1, <1>2, <1>3, <1>4, <1>5, <1>6 DEF GrcInv, Pushing, Sessions, Recorded

-----------------------------------------------------------------------------
(* The plans, for each of the ways the platforms may be set up.             *)
LEMMA JoinedBy ==
  ASSUME NEW S, NEW s \in Seq(S), NEW t \in Seq(S), NEW u \in Seq(S),
         Len(u) = Len(s) + Len(t),
         \A i \in 1..Len(s) : u[i] = s[i],
         \A i \in 1..Len(t) : u[Len(s) + i] = t[i]
  PROVE  s \o t = u
<1>1. /\ s \o t \in Seq(S) /\ Len(s \o t) = Len(u)
      /\ \A i \in 1..Len(u) : (s \o t)[i] = IF i <= Len(s) THEN s[i] ELSE t[i - Len(s)]
  BY ConcatProperties
<1>2. ASSUME NEW i \in 1..Len(u) PROVE (s \o t)[i] = u[i]
  <2>1. Len(s) \in Nat /\ Len(t) \in Nat
    BY LenProperties
  <2>2. CASE i <= Len(s)
    BY <1>1, <2>1, <2>2
  <2>3. CASE ~(i <= Len(s))
    <3>1. i - Len(s) \in 1..Len(t) /\ Len(s) + (i - Len(s)) = i
      BY <2>1, <2>3
    <3> QED BY <1>1, <2>3, <3>1
  <2> QED BY <2>2, <2>3
<1> QED BY <1>1, <1>2, SeqEqual

LEMMA JoinedNone ==
  ASSUME NEW a, NEW b
  PROVE  <<>> \o <<a, b>> = <<a, b>> /\ <<a, b>> \o <<>> = <<a, b>> /\ <<>> \o <<>> = <<>>
OBVIOUS

LEMMA TwoAndOne ==
  ASSUME NEW a, NEW b, NEW c
  PROVE  <<a, b>> \o <<c>> = <<a, b, c>>
<1> DEFINE S == {a, b, c}
           s == <<a, b>>
           t == <<c>>
           u == <<a, b, c>>
<1>1. s \in Seq(S) /\ t \in Seq(S) /\ u \in Seq(S) /\ Len(u) = Len(s) + Len(t)
  OBVIOUS
<1>2. (\A i \in 1..Len(s) : u[i] = s[i]) /\ (\A i \in 1..Len(t) : u[Len(s) + i] = t[i])
  OBVIOUS
<1>3. s \o t = u
  <2> HIDE DEF S, s, t, u
  <2> QED BY <1>1, <1>2, JoinedBy
<1> QED BY <1>3

LEMMA TwoAndTwo ==
  ASSUME NEW a, NEW b, NEW c, NEW d
  PROVE  <<a, b>> \o <<c, d>> = <<a, b, c, d>>
<1> DEFINE S == {a, b, c, d}
           s == <<a, b>>
           t == <<c, d>>
           u == <<a, b, c, d>>
<1>1. s \in Seq(S) /\ t \in Seq(S) /\ u \in Seq(S) /\ Len(u) = Len(s) + Len(t)
  OBVIOUS
<1>2. (\A i \in 1..Len(s) : u[i] = s[i]) /\ (\A i \in 1..Len(t) : u[Len(s) + i] = t[i])
  OBVIOUS
<1>3. s \o t = u
  <2> HIDE DEF S, s, t, u
  <2> QED BY <1>1, <1>2, JoinedBy
<1> QED BY <1>3

LEMMA ThreeAndNone ==
  ASSUME NEW a, NEW b, NEW c
  PROVE  <<a, b, c>> \o <<>> = <<a, b, c>>
<1> DEFINE S == {a, b, c}
           s == <<a, b, c>>
           t == <<>>
           u == <<a, b, c>>
<1>1. s \in Seq(S) /\ t \in Seq(S) /\ u \in Seq(S) /\ Len(u) = Len(s) + Len(t)
  OBVIOUS
<1>2. (\A i \in 1..Len(s) : u[i] = s[i]) /\ (\A i \in 1..Len(t) : u[Len(s) + i] = t[i])
  OBVIOUS
<1>3. s \o t = u
  <2> HIDE DEF S, s, t, u
  <2> QED BY <1>1, <1>2, JoinedBy
<1> QED BY <1>3

LEMMA ThreeAndTwo ==
  ASSUME NEW a, NEW b, NEW c, NEW d, NEW e
  PROVE  <<a, b, c>> \o <<d, e>> = <<a, b, c, d, e>>
<1> DEFINE S == {a, b, c, d, e}
           s == <<a, b, c>>
           t == <<d, e>>
           u == <<a, b, c, d, e>>
<1>1. s \in Seq(S) /\ t \in Seq(S) /\ u \in Seq(S) /\ Len(u) = Len(s) + Len(t)
  OBVIOUS
<1>2. (\A i \in 1..Len(s) : u[i] = s[i]) /\ (\A i \in 1..Len(t) : u[Len(s) + i] = t[i])
  OBVIOUS
<1>3. s \o t = u
  <2> HIDE DEF S, s, t, u
  <2> QED BY <1>1, <1>2, JoinedBy
<1> QED BY <1>3

LEMMA FourAndTwo ==
  ASSUME NEW a, NEW b, NEW c, NEW d, NEW e, NEW f
  PROVE  <<a, b, c, d>> \o <<e, f>> = <<a, b, c, d, e, f>>
<1> DEFINE S == {a, b, c, d, e, f}
           s == <<a, b, c, d>>
           t == <<e, f>>
           u == <<a, b, c, d, e, f>>
<1>1. s \in Seq(S) /\ t \in Seq(S) /\ u \in Seq(S) /\ Len(u) = Len(s) + Len(t)
  OBVIOUS
<1>2. (\A i \in 1..Len(s) : u[i] = s[i]) /\ (\A i \in 1..Len(t) : u[Len(s) + i] = t[i])
  OBVIOUS
<1>3. s \o t = u
  <2> HIDE DEF S, s, t, u
  <2> QED BY <1>1, <1>2, JoinedBy
<1> QED BY <1>3

LEMMA VantaPlan ==
  ASSUME platform = "vanta", "tests" \in config, NEW r, NEW n
  PROVE  Plan(vantaPush, "vanta") /\ Settled(vantaPush, r, n, config) /\ vantaPush[1].verb = "token"
<1>1. CASE "accounts" \in config /\ "evidence" \in config
  <2>1. vantaPush = (<<Ask("token", "app"), Ask("put", "tests")>>
                    \o <<Ask("put", "accounts")>>)
                    \o <<Ask("upload", "evidence"), Ask("submit", "evidence")>>
    BY <1>1 DEF vantaPush, If
  <2>2. <<Ask("token", "app"), Ask("put", "tests")>> \o <<Ask("put", "accounts")>>
          = <<Ask("token", "app"), Ask("put", "tests"),
              Ask("put", "accounts")>>
    BY TwoAndOne
  <2>3. <<Ask("token", "app"), Ask("put", "tests"),
          Ask("put", "accounts")>>
          \o <<Ask("upload", "evidence"), Ask("submit", "evidence")>>
          = <<Ask("token", "app"), Ask("put", "tests"),
              Ask("put", "accounts"), Ask("upload", "evidence"),
              Ask("submit", "evidence")>>
    BY ThreeAndTwo
  <2>4. vantaPush = <<Ask("token", "app"), Ask("put", "tests"),
                      Ask("put", "accounts"), Ask("upload", "evidence"),
                      Ask("submit", "evidence")>>
    BY <2>1, <2>2, <2>3, Zenon
  <2> QED BY <1>1, <2>4 DEF Plan, Settled, Owes, Ask, TypedRequest, Requests, Datasets, OfItems
<1>2. CASE "accounts" \in config /\ "evidence" \notin config
  <2>1. vantaPush = (<<Ask("token", "app"), Ask("put", "tests")>>
                    \o <<Ask("put", "accounts")>>)
                    \o <<>>
    BY <1>2 DEF vantaPush, If
  <2>2. <<Ask("token", "app"), Ask("put", "tests")>> \o <<Ask("put", "accounts")>>
          = <<Ask("token", "app"), Ask("put", "tests"),
              Ask("put", "accounts")>>
    BY TwoAndOne
  <2>3. <<Ask("token", "app"), Ask("put", "tests"),
          Ask("put", "accounts")>>
          \o <<>>
          = <<Ask("token", "app"), Ask("put", "tests"),
              Ask("put", "accounts")>>
    BY ThreeAndNone
  <2>4. vantaPush = <<Ask("token", "app"), Ask("put", "tests"),
                      Ask("put", "accounts")>>
    BY <2>1, <2>2, <2>3, Zenon
  <2> QED BY <1>2, <2>4 DEF Plan, Settled, Owes, Ask, TypedRequest, Requests, Datasets, OfItems
<1>3. CASE "accounts" \notin config /\ "evidence" \in config
  <2>1. vantaPush = (<<Ask("token", "app"), Ask("put", "tests")>>
                    \o <<>>)
                    \o <<Ask("upload", "evidence"), Ask("submit", "evidence")>>
    BY <1>3 DEF vantaPush, If
  <2>2. <<Ask("token", "app"), Ask("put", "tests")>> \o <<>>
          = <<Ask("token", "app"), Ask("put", "tests")>>
    BY JoinedNone
  <2>3. <<Ask("token", "app"), Ask("put", "tests")>>
          \o <<Ask("upload", "evidence"), Ask("submit", "evidence")>>
          = <<Ask("token", "app"), Ask("put", "tests"),
              Ask("upload", "evidence"), Ask("submit", "evidence")>>
    BY TwoAndTwo
  <2>4. vantaPush = <<Ask("token", "app"), Ask("put", "tests"),
                      Ask("upload", "evidence"), Ask("submit", "evidence")>>
    BY <2>1, <2>2, <2>3, Zenon
  <2> QED BY <1>3, <2>4 DEF Plan, Settled, Owes, Ask, TypedRequest, Requests, Datasets, OfItems
<1>4. CASE "accounts" \notin config /\ "evidence" \notin config
  <2>1. vantaPush = (<<Ask("token", "app"), Ask("put", "tests")>>
                    \o <<>>)
                    \o <<>>
    BY <1>4 DEF vantaPush, If
  <2>2. <<Ask("token", "app"), Ask("put", "tests")>> \o <<>>
          = <<Ask("token", "app"), Ask("put", "tests")>>
    BY JoinedNone
  <2>3. <<Ask("token", "app"), Ask("put", "tests")>>
          \o <<>>
          = <<Ask("token", "app"), Ask("put", "tests")>>
    BY JoinedNone
  <2>4. vantaPush = <<Ask("token", "app"), Ask("put", "tests")>>
    BY <2>1, <2>2, <2>3, Zenon
  <2> QED BY <1>4, <2>4 DEF Plan, Settled, Owes, Ask, TypedRequest, Requests, Datasets, OfItems
<1> QED BY <1>1, <1>2, <1>3, <1>4

LEMMA DrataPlan ==
  ASSUME platform = "drata", NEW r, NEW n
  PROVE  /\ Plan(drataPush, "drata") /\ Settled(drataPush, r, n, config)
         /\ drataPush[1].verb \in {"session", "upload"}
<1>1. CASE "tests" \in config /\ "accounts" \in config
  <2>1. drataPush = (<<Ask("session", "tests"), Ask("complete", "tests")>>
                    \o <<Ask("session", "accounts"), Ask("complete", "accounts")>>)
                    \o <<Ask("upload", "evidence"), Ask("find", "evidence")>>
    BY <1>1 DEF drataPush, If, replaceDataset
  <2>2. <<Ask("session", "tests"), Ask("complete", "tests")>> \o <<Ask("session", "accounts"), Ask("complete", "accounts")>>
          = <<Ask("session", "tests"), Ask("complete", "tests"),
              Ask("session", "accounts"), Ask("complete", "accounts")>>
    BY TwoAndTwo
  <2>3. <<Ask("session", "tests"), Ask("complete", "tests"),
          Ask("session", "accounts"), Ask("complete", "accounts")>>
          \o <<Ask("upload", "evidence"), Ask("find", "evidence")>>
          = <<Ask("session", "tests"), Ask("complete", "tests"),
              Ask("session", "accounts"), Ask("complete", "accounts"),
              Ask("upload", "evidence"), Ask("find", "evidence")>>
    BY FourAndTwo
  <2>4. drataPush = <<Ask("session", "tests"), Ask("complete", "tests"),
                      Ask("session", "accounts"), Ask("complete", "accounts"),
                      Ask("upload", "evidence"), Ask("find", "evidence")>>
    BY <2>1, <2>2, <2>3, Zenon
  <2> QED BY <1>1, <2>4 DEF Plan, Settled, Owes, Ask, TypedRequest, Requests, Datasets, OfItems
<1>2. CASE "tests" \in config /\ "accounts" \notin config
  <2>1. drataPush = (<<Ask("session", "tests"), Ask("complete", "tests")>>
                    \o <<>>)
                    \o <<Ask("upload", "evidence"), Ask("find", "evidence")>>
    BY <1>2 DEF drataPush, If, replaceDataset
  <2>2. <<Ask("session", "tests"), Ask("complete", "tests")>> \o <<>>
          = <<Ask("session", "tests"), Ask("complete", "tests")>>
    BY JoinedNone
  <2>3. <<Ask("session", "tests"), Ask("complete", "tests")>>
          \o <<Ask("upload", "evidence"), Ask("find", "evidence")>>
          = <<Ask("session", "tests"), Ask("complete", "tests"),
              Ask("upload", "evidence"), Ask("find", "evidence")>>
    BY TwoAndTwo
  <2>4. drataPush = <<Ask("session", "tests"), Ask("complete", "tests"),
                      Ask("upload", "evidence"), Ask("find", "evidence")>>
    BY <2>1, <2>2, <2>3, Zenon
  <2> QED BY <1>2, <2>4 DEF Plan, Settled, Owes, Ask, TypedRequest, Requests, Datasets, OfItems
<1>3. CASE "tests" \notin config /\ "accounts" \in config
  <2>1. drataPush = (<<>>
                    \o <<Ask("session", "accounts"), Ask("complete", "accounts")>>)
                    \o <<Ask("upload", "evidence"), Ask("find", "evidence")>>
    BY <1>3 DEF drataPush, If, replaceDataset
  <2>2. <<>> \o <<Ask("session", "accounts"), Ask("complete", "accounts")>>
          = <<Ask("session", "accounts"), Ask("complete", "accounts")>>
    BY JoinedNone
  <2>3. <<Ask("session", "accounts"), Ask("complete", "accounts")>>
          \o <<Ask("upload", "evidence"), Ask("find", "evidence")>>
          = <<Ask("session", "accounts"), Ask("complete", "accounts"),
              Ask("upload", "evidence"), Ask("find", "evidence")>>
    BY TwoAndTwo
  <2>4. drataPush = <<Ask("session", "accounts"), Ask("complete", "accounts"),
                      Ask("upload", "evidence"), Ask("find", "evidence")>>
    BY <2>1, <2>2, <2>3, Zenon
  <2> QED BY <1>3, <2>4 DEF Plan, Settled, Owes, Ask, TypedRequest, Requests, Datasets, OfItems
<1>4. CASE "tests" \notin config /\ "accounts" \notin config
  <2>1. drataPush = (<<>>
                    \o <<>>)
                    \o <<Ask("upload", "evidence"), Ask("find", "evidence")>>
    BY <1>4 DEF drataPush, If, replaceDataset
  <2>2. <<>> \o <<>>
          = <<>>
    BY JoinedNone
  <2>3. <<>>
          \o <<Ask("upload", "evidence"), Ask("find", "evidence")>>
          = <<Ask("upload", "evidence"), Ask("find", "evidence")>>
    BY JoinedNone
  <2>4. drataPush = <<Ask("upload", "evidence"), Ask("find", "evidence")>>
    BY <2>1, <2>2, <2>3, Zenon
  <2> QED BY <1>4, <2>4 DEF Plan, Settled, Owes, Ask, TypedRequest, Requests, Datasets, OfItems
<1> QED BY <1>1, <1>2, <1>3, <1>4

-----------------------------------------------------------------------------
(* A push with its first request made.                                      *)
LEMMA PlanSteps ==
  ASSUME NEW left, NEW k, Plan(left, k)
  PROVE  /\ Len(left) \in Nat \ {0} /\ left[1] = Head(left) /\ TypedRequest(left[1])
         /\ Tail(left) \in Seq(Requests) /\ Len(Tail(left)) = Len(left) - 1
         /\ \A i \in 1..(Len(left) - 1) : Tail(left)[i] = left[i + 1]
         /\ Tail(left) = <<>> <=> Len(left) = 1
<1>1. left \in Seq(Requests) /\ left # <<>>
  BY DEF Plan
<1>2. Len(left) \in Nat \ {0} /\ left[1] = Head(left)
  <2> HIDE DEF Requests
  <2> QED BY <1>1
<1>3. TypedRequest(left[1])
  BY <1>1, <1>2 DEF Plan
<1>4. /\ Tail(left) \in Seq(Requests) /\ Len(Tail(left)) = Len(left) - 1
      /\ \A i \in 1..(Len(left) - 1) : Tail(left)[i] = left[i + 1]
  <2> HIDE DEF Requests
  <2> QED BY <1>1, <1>2, HeadTailProperties
<1>5. Tail(left) = <<>> <=> Len(left) = 1
  <2> DEFINE rest == Tail(left)
  <2>1. rest \in Seq(Requests) /\ Len(rest) = Len(left) - 1
    BY <1>4
  <2> HIDE DEF rest
  <2>2. rest = <<>> <=> Len(rest) = 0
    BY <2>1, EmptySeq
  <2>3. rest = <<>> <=> Len(left) = 1
    BY <1>2, <2>1, <2>2
  <2> QED BY <2>3 DEF rest
<1> QED BY <1>2, <1>3, <1>4, <1>5

LEMMA PlanTail ==
  ASSUME NEW left, NEW k, Plan(left, k), Tail(left) # <<>>
  PROVE  Plan(Tail(left), k)
<1> DEFINE rest == Tail(left)
<1>1. /\ Len(left) \in Nat \ {0, 1} /\ rest \in Seq(Requests) /\ Len(rest) = Len(left) - 1
      /\ \A i \in 1..(Len(left) - 1) : rest[i] = left[i + 1]
  BY PlanSteps
<1>2. DOMAIN left = 1..Len(left) /\ DOMAIN rest = 1..(Len(left) - 1)
  <2>1. left \in Seq(Requests)
    BY DEF Plan
  <2> HIDE DEF Requests, rest
  <2> QED BY <1>1, <2>1
<1> HIDE DEF rest
<1>3. ASSUME NEW i \in DOMAIN rest
      PROVE  /\ TypedRequest(rest[i])
             /\ rest[i].verb = "token" => i # Len(rest)
             /\ rest[i].verb = "session" => i # Len(rest) /\ rest[i + 1] = Ask("complete", rest[i].on)
             /\ rest[i].verb = "complete" /\ i # 1 => rest[i - 1] = Ask("session", rest[i].on)
             /\ rest[i].verb \in OfItems => i = Len(rest)
             /\ rest[i].verb \in {"create", "update"} => i = 1
             /\ rest[i].verb \in OfItems => (rest[i].verb = "submit" <=> k = "vanta")
  <2>1. i + 1 \in DOMAIN left /\ rest[i] = left[i + 1] /\ i \in Nat /\ i # 0
    BY <1>1, <1>2
  <2>2. /\ TypedRequest(left[i + 1])
        /\ left[i + 1].verb = "token" => i + 1 # Len(left)
        /\ left[i + 1].verb = "session" =>
             i + 1 # Len(left) /\ left[(i + 1) + 1] = Ask("complete", left[i + 1].on)
        /\ left[i + 1].verb = "complete" /\ i + 1 # 1 => left[(i + 1) - 1] = Ask("session", left[i + 1].on)
        /\ left[i + 1].verb \in OfItems => i + 1 = Len(left)
        /\ left[i + 1].verb \in {"create", "update"} => i + 1 = 1
        /\ left[i + 1].verb \in OfItems => (left[i + 1].verb = "submit" <=> k = "vanta")
    BY <2>1 DEF Plan
  <2>3. i # Len(rest) => rest[i + 1] = left[(i + 1) + 1]
    BY <1>1, <1>2, <2>1
  <2>4. i # 1 => rest[i - 1] = left[(i + 1) - 1]
    BY <1>1, <1>2, <2>1
  <2> QED BY <1>1, <1>2, <2>1, <2>2, <2>3, <2>4
<1>4. rest # <<>>
  BY DEF rest
<1> QED BY <1>1, <1>3, <1>4 DEF Plan, rest

LEMMA OwedAfter ==
  ASSUME NEW left, NEW k, Plan(left, k), NEW verbs, NEW on, Owes(left, verbs, on)
  PROVE  (left[1].verb \in verbs /\ left[1].on = on) \/ Owes(Tail(left), verbs, on)
<1>1. PICK i \in DOMAIN left : left[i].verb \in verbs /\ left[i].on = on
  BY DEF Owes
<1>2. DOMAIN left = 1..Len(left)
  <2>1. left \in Seq(Requests)
    BY DEF Plan
  <2> HIDE DEF Requests
  <2> QED BY <2>1
<1>3. CASE i = 1
  BY <1>1, <1>3
<1>4. CASE i # 1
  <2>1. i - 1 \in 1..(Len(left) - 1) /\ (i - 1) + 1 = i
    BY <1>2, <1>4, PlanSteps
  <2>2. i - 1 \in DOMAIN Tail(left) /\ Tail(left)[i - 1] = left[i]
    <3>1. /\ Tail(left) \in Seq(Requests) /\ Len(Tail(left)) = Len(left) - 1
          /\ \A j \in 1..(Len(left) - 1) : Tail(left)[j] = left[j + 1]
      BY PlanSteps
    <3> HIDE DEF Requests
    <3> QED BY <2>1, <3>1
  <2> QED BY <1>1, <2>2 DEF Owes
<1> QED BY <1>3, <1>4

-----------------------------------------------------------------------------
(* What a request carried out leaves of the platform r: q.                  *)
Carries(a, r, p, q) ==
  /\ q \in Remote
  /\ q.tests = (IF a.verb \in {"put", "complete"} /\ a.on = "tests" THEN p.payload ELSE r.tests)
  /\ q.accounts = (IF a.verb \in {"put", "complete"} /\ a.on = "accounts" THEN p.payload ELSE r.accounts)
  /\ q.files = (IF a.verb = "upload" THEN r.files \cup {p.payload} ELSE r.files)
  /\ q.session = (CASE a.verb = "session" -> r.session \cup {<<a.on, p.payload>>}
                    [] a.verb = "complete" -> r.session \ {<<a.on, p.payload>>}
                    [] OTHER -> r.session)
  /\ \A i \in DOMAIN r.items : i \in DOMAIN q.items /\ r.items[i] \subseteq q.items[i]
  /\ a.verb \in {"submit", "create", "update"} /\ p.payload \in r.files =>
       \E i \in DOMAIN q.items : p.payload \in q.items[i]
  /\ Len(q.items) = Len(r.items) + (IF a.verb \in {"submit", "create"} THEN 1 ELSE 0)

LEMMA Carrying ==
  ASSUME NEW a, TypedRequest(a), NEW r \in Remote, NEW p \in Pushes,
         a.verb = "update" => p.match \in DOMAIN r.items
  PROVE  Carries(a, r, p, Carried(a, r, p))
<1> DEFINE q == Carried(a, r, p)
           n == p.payload
<1>1. /\ r = [tests |-> r.tests, accounts |-> r.accounts, session |-> r.session,
              files |-> r.files, items |-> r.items]
      /\ r.tests \in Nat /\ r.accounts \in Nat /\ r.session \in SUBSET (Datasets \X Nat)
      /\ r.files \in SUBSET Nat /\ r.items \in Seq(SUBSET Nat)
  BY DEF Remote
<1>2. n \in Nat
  BY DEF Pushes
<1>3. (a.verb \in {"put", "session", "complete"} => a.on \in Datasets)
  BY DEF TypedRequest
<1>4. Len(r.items) \in Nat /\ DOMAIN r.items = 1..Len(r.items)
  BY <1>1, LenProperties
<1>5. r.files \cap {n} \in SUBSET Nat
  BY <1>1
<1>6. CASE a.verb = "put"
  <2>1. q = [r EXCEPT ![a.on] = n]
    BY <1>6 DEF Carried
  <2>2. CASE a.on = "tests"
    <3>1. q = [tests |-> n, accounts |-> r.accounts, session |-> r.session,
               files |-> r.files, items |-> r.items]
      BY <1>1, <2>1, <2>2
    <3> HIDE DEF q, n
    <3>2. q \in Remote
      BY <1>1, <1>2, <3>1 DEF Remote
    <3> QED BY <1>1, <1>4, <1>6, <2>2, <3>1, <3>2 DEF Carries, q, n
  <2>3. CASE a.on = "accounts"
    <3>1. q = [tests |-> r.tests, accounts |-> n, session |-> r.session,
               files |-> r.files, items |-> r.items]
      BY <1>1, <2>1, <2>3
    <3> HIDE DEF q, n
    <3>2. q \in Remote
      BY <1>1, <1>2, <3>1 DEF Remote
    <3> QED BY <1>1, <1>4, <1>6, <2>3, <3>1, <3>2 DEF Carries, q, n
  <2> QED BY <1>3, <1>6, <2>2, <2>3 DEF Datasets
<1>7. CASE a.verb = "upload"
  <2>1. q = [r EXCEPT !.files = @ \cup {n}]
    BY <1>7 DEF Carried
  <2>2. q = [tests |-> r.tests, accounts |-> r.accounts, session |-> r.session,
             files |-> r.files \cup {n}, items |-> r.items]
    BY <1>1, <2>1
  <2> HIDE DEF q, n
  <2>3. q \in Remote
    BY <1>1, <1>2, <2>2 DEF Remote
  <2> QED BY <1>1, <1>4, <1>7, <2>2, <2>3 DEF Carries, q, n
<1>8. CASE a.verb \in {"submit", "create"}
  <2> DEFINE mine == r.files \cap {n}
             items == Append(r.items, mine)
  <2>1. q = [r EXCEPT !.items = Append(@, mine)]
    BY <1>8 DEF Carried
  <2>2. q = [tests |-> r.tests, accounts |-> r.accounts, session |-> r.session,
             files |-> r.files, items |-> items]
    BY <1>1, <2>1
  <2>3. mine \in SUBSET Nat /\ (n \in r.files => n \in mine)
    BY <1>1
  <2> HIDE DEF q, n, mine
  <2>4. /\ items \in Seq(SUBSET Nat) /\ Len(items) = Len(r.items) + 1
        /\ \A i \in 1..Len(r.items) : items[i] = r.items[i]
        /\ items[Len(r.items) + 1] = mine
    BY <1>1, <1>4, <2>3
  <2> HIDE DEF items
  <2>5. DOMAIN items = 1..(Len(r.items) + 1)
    BY <2>4, LenProperties
  <2>6. \A i \in DOMAIN r.items : i \in DOMAIN items /\ r.items[i] \subseteq items[i]
    BY <1>4, <2>4, <2>5
  <2>7. n \in r.files => \E i \in DOMAIN items : n \in items[i]
    BY <1>4, <2>3, <2>4, <2>5
  <2>8. q \in Remote
    BY <1>1, <2>2, <2>4 DEF Remote
  <2> QED BY <1>1, <1>8, <2>2, <2>4, <2>6, <2>7, <2>8 DEF Carries, q, n
<1>9. CASE a.verb = "update"
  <2> DEFINE m == p.match
             items == [r.items EXCEPT ![m] = @ \cup (r.files \cap {n})]
  <2>1. q = [r EXCEPT !.items[m] = @ \cup (r.files \cap {n})]
    BY <1>9 DEF Carried
  <2>2. q = [tests |-> r.tests, accounts |-> r.accounts, session |-> r.session,
             files |-> r.files, items |-> items]
    BY <1>1, <2>1
  <2>3. m \in 1..Len(r.items) /\ r.items[m] \in SUBSET Nat
    BY <1>1, <1>4, <1>9, ElementOfSeq
  <2> DEFINE e == r.items[m] \cup (r.files \cap {n})
  <2>4. e \in SUBSET Nat /\ r.items[m] \subseteq e /\ (n \in r.files => n \in e)
    BY <1>1, <2>3
  <2>5. items = [r.items EXCEPT ![m] = e]
    OBVIOUS
  <2> HIDE DEF q, n, m, items, e
  <2>6. /\ items \in Seq(SUBSET Nat) /\ Len(items) = Len(r.items)
        /\ \A j \in 1..Len(r.items) : items[j] = IF j = m THEN e ELSE r.items[j]
    BY <1>1, <2>3, <2>4, <2>5, ExceptSeq
  <2>7. DOMAIN items = 1..Len(r.items)
    BY <2>6, LenProperties
  <2>8. \A i \in DOMAIN r.items : i \in DOMAIN items /\ r.items[i] \subseteq items[i]
    BY <1>4, <2>4, <2>6, <2>7
  <2>9. n \in r.files => \E i \in DOMAIN items : n \in items[i]
    BY <2>3, <2>4, <2>6, <2>7
  <2>10. q \in Remote
    BY <1>1, <2>2, <2>6 DEF Remote
  <2> QED BY <1>1, <1>4, <1>9, <2>2, <2>6, <2>8, <2>9, <2>10 DEF Carries, q, n
<1>10. CASE a.verb = "session"
  <2>1. q = [r EXCEPT !.session = @ \cup {<<a.on, n>>}]
    BY <1>10 DEF Carried
  <2>2. q = [tests |-> r.tests, accounts |-> r.accounts, session |-> r.session \cup {<<a.on, n>>},
             files |-> r.files, items |-> r.items]
    BY <1>1, <2>1
  <2>3. r.session \cup {<<a.on, n>>} \in SUBSET (Datasets \X Nat)
    BY <1>1, <1>2, <1>3, <1>10
  <2> HIDE DEF q, n
  <2>4. q \in Remote
    BY <1>1, <2>2, <2>3 DEF Remote
  <2> QED BY <1>1, <1>4, <1>10, <2>2, <2>4 DEF Carries, q, n
<1>11. CASE a.verb = "complete"
  <2>1. q = [r EXCEPT ![a.on] = n, !.session = @ \ {<<a.on, n>>}]
    BY <1>11 DEF Carried
  <2>2. r.session \ {<<a.on, n>>} \in SUBSET (Datasets \X Nat)
    BY <1>1
  <2>3. CASE a.on = "tests"
    <3>1. q = [tests |-> n, accounts |-> r.accounts, session |-> r.session \ {<<a.on, n>>},
               files |-> r.files, items |-> r.items]
      BY <1>1, <2>1, <2>3
    <3> HIDE DEF q, n
    <3>2. q \in Remote
      BY <1>1, <1>2, <2>2, <3>1 DEF Remote
    <3> QED BY <1>1, <1>4, <1>11, <2>3, <3>1, <3>2 DEF Carries, q, n
  <2>4. CASE a.on = "accounts"
    <3>1. q = [tests |-> r.tests, accounts |-> n, session |-> r.session \ {<<a.on, n>>},
               files |-> r.files, items |-> r.items]
      BY <1>1, <2>1, <2>4
    <3> HIDE DEF q, n
    <3>2. q \in Remote
      BY <1>1, <1>2, <2>2, <3>1 DEF Remote
    <3> QED BY <1>1, <1>4, <1>11, <2>4, <3>1, <3>2 DEF Carries, q, n
  <2> QED BY <1>3, <1>11, <2>3, <2>4 DEF Datasets
<1>12. CASE a.verb \in {"token", "find"}
  <2>1. q = r
    BY <1>12 DEF Carried
  <2> QED BY <1>1, <1>4, <1>12, <2>1 DEF Carries
<1> QED BY <1>3, <1>6, <1>7, <1>8, <1>9, <1>10, <1>11, <1>12 DEF TypedRequest, Requests

(* What was made stays made, and what is owed no more is made.              *)
LEMMA MadeStays ==
  ASSUME NEW a, NEW r \in Remote, NEW p \in Pushes, NEW q, Carries(a, r, p, q),
         NEW v \in Nat, v <= p.payload, NEW c, Made(v, r, c)
  PROVE  Made(v, q, c)
<1>1. p.payload \in Nat /\ r.tests \in Nat /\ r.accounts \in Nat
  BY DEF Pushes, Remote
<1>2. "tests" \in c => q.tests >= v
  BY <1>1 DEF Carries, Made
<1>3. "accounts" \in c => q.accounts >= v
  BY <1>1 DEF Carries, Made
<1>4. ASSUME "evidence" \in c PROVE \E k \in DOMAIN q.items : v \in q.items[k]
  <2>1. PICK k \in DOMAIN r.items : v \in r.items[k]
    BY <1>4 DEF Made
  <2>2. k \in DOMAIN q.items /\ r.items[k] \subseteq q.items[k]
    BY DEF Carries
  <2> QED BY <2>1, <2>2
<1> QED BY <1>2, <1>3, <1>4 DEF Made

LEMMA SettledAfter ==
  ASSUME NEW left, NEW k, Plan(left, k), left[1].verb # "find",
         NEW r \in Remote, NEW p \in Pushes, NEW q, Carries(left[1], r, p, q),
         NEW c, Settled(left, r, p.payload, c)
  PROVE  Settled(Tail(left), q, p.payload, c)
<1> DEFINE n == p.payload
           rest == Tail(left)
           a == left[1]
<1>1. "tests" \in c => Owes(rest, {"put", "complete"}, "tests") \/ q.tests = n
  BY OwedAfter DEF Settled, Carries
<1>2. "accounts" \in c => Owes(rest, {"put", "complete"}, "accounts") \/ q.accounts = n
  BY OwedAfter DEF Settled, Carries
<1>3. ASSUME "evidence" \in c
      PROVE  /\ Owes(rest, {"upload"}, "evidence") \/ n \in q.files
             /\ Owes(rest, OfItems, "evidence") \/ \E i \in DOMAIN q.items : n \in q.items[i]
  <2>1. Owes(left, {"upload"}, "evidence") \/ n \in r.files
    BY <1>3 DEF Settled
  <2>2. Owes(left, OfItems, "evidence") \/ \E i \in DOMAIN r.items : n \in r.items[i]
    BY <1>3 DEF Settled
  <2>3. Owes(rest, {"upload"}, "evidence") \/ n \in q.files
    BY <2>1, OwedAfter DEF Carries
  <2>4. CASE \E i \in DOMAIN r.items : n \in r.items[i]
    BY <2>4, <2>3 DEF Carries
  <2>5. CASE Owes(rest, OfItems, "evidence")
    BY <2>3, <2>5
  <2>6. CASE a.verb \in OfItems
    <3>1. a.verb \in {"submit", "create", "update"} /\ a.verb # "upload"
      BY <2>6 DEF OfItems
    <3>2. 1 \in DOMAIN left /\ Len(left) = 1
      <4>1. Len(left) \in Nat \ {0} /\ left \in Seq(Requests)
        BY PlanSteps DEF Plan
      <4>2. DOMAIN left = 1..Len(left)
        BY <4>1, LenProperties
      <4> QED BY <2>6, <4>1, <4>2 DEF Plan
    <3>3. ~Owes(left, {"upload"}, "evidence")
      <4>1. DOMAIN left = {1}
        <5>1. left \in Seq(Requests)
          BY DEF Plan
        <5>2. DOMAIN left = 1..1
          BY <3>2, <5>1, LenProperties
        <5> QED BY <5>2
      <4> QED BY <3>1, <4>1 DEF Owes
    <3>4. n \in r.files
      BY <2>1, <3>3
    <3> QED BY <2>3, <3>1, <3>4 DEF Carries
  <2>7. a.verb \in OfItems \/ Owes(rest, OfItems, "evidence") \/ \E i \in DOMAIN r.items : n \in r.items[i]
    BY <2>2, OwedAfter
  <2> QED BY <2>4, <2>5, <2>6, <2>7
<1> QED BY <1>1, <1>2, <1>3 DEF Settled

LEMMA SettledIsMade ==
  ASSUME NEW r \in Remote, NEW n \in Nat, NEW c, Settled(<<>>, r, n, c)
  PROVE  Made(n, r, c)
<1>1. \A verbs, on : ~Owes(<<>>, verbs, on)
  BY DEF Owes
<1> QED BY <1>1 DEF Settled, Made, Remote

-----------------------------------------------------------------------------
(* A push under way, and the request it makes.                              *)
LEMMA Requesting ==
  ASSUME GrcInv, push # NoPush
  PROVE  /\ push \in Pushes /\ push.payload = pushed /\ pushed \in Nat /\ remote \in Remote
         /\ Plan(push.left, platform) /\ Settled(push.left, remote, pushed, config)
         /\ Head(push.left) = push.left[1] /\ TypedRequest(push.left[1])
         /\ Carries(push.left[1], remote, push, Carried(push.left[1], remote, push))
         /\ push = [payload |-> push.payload, match |-> push.match, left |-> push.left]
<1>1. /\ push \in Pushes /\ push.payload = pushed /\ pushed \in Nat /\ remote \in Remote
      /\ Plan(push.left, platform) /\ Settled(push.left, remote, pushed, config)
      /\ push.left[1].verb = "update" => push.match \in DOMAIN remote.items
  BY DEF GrcInv, Pushing
<1>2. Head(push.left) = push.left[1] /\ TypedRequest(push.left[1])
  BY <1>1, PlanSteps
<1>3. Carries(push.left[1], remote, push, Carried(push.left[1], remote, push))
  BY <1>1, <1>2, Carrying
<1>4. push = [payload |-> push.payload, match |-> push.match, left |-> push.left]
  BY <1>1 DEF Pushes
<1> QED BY <1>1, <1>2, <1>3, <1>4

(* What a request carried out keeps of the rest.                            *)
Bounded(r) == r.tests <= pushed /\ r.accounts <= pushed
OneItem(r, l) == platform = "drata" /\ Len(r.items) > 1 => l.items

LEMMA CarriedKeeps ==
  ASSUME GrcInv, push # NoPush, NEW q, Carries(push.left[1], remote, push, q)
  PROVE  /\ q \in Remote /\ Bounded(q)
         /\ \A i \in DOMAIN grcEvents :
              /\ grcEvents[i].payload \in Nat /\ grcEvents[i].payload <= pushed
              /\ grcEvents[i].ok => Made(grcEvents[i].payload, q, config)
         /\ push.left[1].verb # "create" => OneItem(q, lost)
         /\ push.left[1].verb = "create" /\ ~lost.items => Len(q.items) = 1
<1>1. /\ push \in Pushes /\ push.payload = pushed /\ pushed \in Nat /\ remote \in Remote
      /\ Plan(push.left, platform) /\ TypedRequest(push.left[1])
  BY Requesting
<1>2. q \in Remote /\ Bounded(q)
  <2>1. remote.tests <= pushed /\ remote.accounts <= pushed /\ remote.tests \in Nat /\ remote.accounts \in Nat
    BY <1>1 DEF GrcInv, Remote
  <2> QED BY <1>1, <2>1 DEF Carries, Bounded
<1>3. ASSUME NEW i \in DOMAIN grcEvents
      PROVE  /\ grcEvents[i].payload \in Nat /\ grcEvents[i].payload <= pushed
             /\ grcEvents[i].ok => Made(grcEvents[i].payload, q, config)
  <2>1. /\ grcEvents[i].payload \in Nat /\ grcEvents[i].payload <= pushed
        /\ grcEvents[i].ok => Made(grcEvents[i].payload, remote, config)
    BY DEF GrcInv, Recorded
  <2> QED BY <1>1, <2>1, MadeStays
<1>4. Len(remote.items) \in Nat /\ OneItem(remote, lost)
  <2>1. remote.items \in Seq(SUBSET Nat)
    BY <1>1 DEF Remote
  <2> QED BY <2>1, LenProperties DEF GrcInv, OneItem
<1>5. ASSUME push.left[1].verb # "create" PROVE OneItem(q, lost)
  <2>1. CASE push.left[1].verb = "submit"
    <3>1. 1 \in DOMAIN push.left
      <4>1. Len(push.left) \in Nat \ {0} /\ push.left \in Seq(Requests)
        BY <1>1, PlanSteps DEF Plan
      <4> QED BY <4>1, LenProperties
    <3>2. platform = "vanta"
      BY <1>1, <2>1, <3>1 DEF Plan, OfItems
    <3> QED BY <3>2 DEF OneItem
  <2>2. CASE push.left[1].verb # "submit"
    <3> DEFINE more == IF push.left[1].verb \in {"submit", "create"} THEN 1 ELSE 0
    <3>1. Len(q.items) = Len(remote.items) + more
      BY DEF Carries
    <3>2. more = 0
      BY <1>5, <2>2
    <3> HIDE DEF more
    <3>3. Len(q.items) = Len(remote.items)
      BY <1>4, <3>1, <3>2
    <3> QED BY <1>4, <3>3 DEF OneItem
  <2> QED BY <2>1, <2>2
<1>6. ASSUME push.left[1].verb = "create", ~lost.items PROVE Len(q.items) = 1
  <2>1. Len(remote.items) = 0
    BY <1>6 DEF GrcInv, Pushing
  <2> QED BY <1>6, <2>1 DEF Carries
<1> QED BY <1>2, <1>3, <1>5, <1>6

LEMMA GrcPushes ==
  ASSUME GrcInv, PushGrc
  PROVE  GrcInv'
<1> DEFINE left == IF platform = "vanta" THEN vantaPush ELSE drataPush
<1>1. /\ push = NoPush /\ pushed' = pushed + 1
      /\ push' = [payload |-> pushed + 1, match |-> 0, left |-> left]
      /\ platform' = platform /\ config' = config /\ remote' = remote /\ grcEvents' = grcEvents
      /\ lost' = lost /\ pushed \in Nat
  BY DEF PushGrc, GrcInv
<1>2. Plan(left, platform) /\ Settled(left, remote, pushed + 1, config)
      /\ left[1].verb \in {"token", "session", "upload"}
  <2>1. CASE platform = "vanta"
    <3>1. left = vantaPush /\ "tests" \in config
      BY <2>1 DEF GrcInv
    <3> HIDE DEF left
    <3>2. Plan(vantaPush, "vanta") /\ Settled(vantaPush, remote, pushed + 1, config)
          /\ vantaPush[1].verb = "token"
      BY <2>1, <3>1, VantaPlan
    <3> QED BY <2>1, <3>1, <3>2
  <2>2. CASE platform = "drata"
    <3>1. left = drataPush
      BY <2>2
    <3> HIDE DEF left
    <3>2. Plan(drataPush, "drata") /\ Settled(drataPush, remote, pushed + 1, config)
          /\ drataPush[1].verb \in {"session", "upload"}
      BY <2>2, DrataPlan
    <3> QED BY <2>2, <3>1, <3>2
  <2> QED BY <2>1, <2>2 DEF GrcInv
<1> HIDE DEF left
<1>3. push' \in Pushes /\ push'.payload = pushed' /\ push'.left = left
  <2>1. left \in Seq(Requests)
    BY <1>2 DEF Plan
  <2> QED BY <1>1, <2>1 DEF Pushes
<1>4. Pushing'
  BY <1>1, <1>2, <1>3 DEF Pushing
<1>5. Sessions'
  BY <1>1 DEF GrcInv, Sessions
<1>6. Recorded'
  BY <1>1 DEF GrcInv, Recorded
<1>7. remote'.tests <= pushed' /\ remote'.accounts <= pushed'
  BY <1>1 DEF GrcInv, Remote
<1> QED BY <1>1, <1>4, <1>5, <1>6, <1>7 DEF GrcInv

(* A push ends, with its event or without.                                  *)
LEMMA GrcFinishes ==
  ASSUME GrcInv, push # NoPush, NEW ok \in BOOLEAN, Finish(ok), config' = config, pushed' = pushed,
         remote' \in Remote,
         \A i \in DOMAIN grcEvents :
              /\ grcEvents[i].payload \in Nat /\ grcEvents[i].payload <= pushed
              /\ grcEvents[i].ok => Made(grcEvents[i].payload, remote', config),
         ok => Made(pushed, remote', config)
  PROVE  Pushing' /\ Recorded' /\ grcEvents' \in Seq([ok : BOOLEAN, payload : Nat])
<1> DEFINE Events == [ok : BOOLEAN, payload : Nat]
           e == [ok |-> ok, payload |-> push.payload]
<1>1. push' = NoPush /\ grcEvents' = Append(grcEvents, e) /\ grcEvents \in Seq(Events)
  BY DEF Finish, GrcInv
<1>2. push.payload = pushed /\ pushed \in Nat
  BY Requesting
<1>3. e \in Events /\ e.ok = ok /\ e.payload = pushed
  BY <1>2
<1> HIDE DEF Events, e
<1>4. /\ grcEvents' \in Seq(Events) /\ Len(grcEvents') = Len(grcEvents) + 1 /\ Len(grcEvents) \in Nat
      /\ \A i \in 1..Len(grcEvents) : grcEvents'[i] = grcEvents[i]
      /\ grcEvents'[Len(grcEvents) + 1] = e
  BY <1>1, <1>3
<1>5. DOMAIN grcEvents = 1..Len(grcEvents) /\ DOMAIN grcEvents' = 1..(Len(grcEvents) + 1)
  BY <1>1, <1>4, LenProperties
<1>6. Pushing'
  BY <1>1 DEF Pushing
<1>7. ASSUME NEW i \in DOMAIN grcEvents'
      PROVE  /\ grcEvents'[i].payload \in Nat /\ grcEvents'[i].payload <= pushed'
             /\ grcEvents'[i].ok => Made(grcEvents'[i].payload, remote', config')
  <2>1. CASE i \in 1..Len(grcEvents)
    BY <1>4, <1>5, <2>1
  <2>2. CASE i = Len(grcEvents) + 1
    BY <1>2, <1>3, <1>4, <2>2
  <2> QED BY <1>4, <1>5, <2>1, <2>2
<1> QED BY <1>4, <1>6, <1>7 DEF Recorded, Events

(* The sessions a request leaves open.                                      *)
LEMMA CarriedSessions ==
  ASSUME GrcInv, push # NoPush, NEW q, Carries(push.left[1], remote, push, q)
  PROVE  \A s \in q.session :
           lost.sessions \/ (push.left[1].verb = "session" /\ s = <<push.left[1].on, pushed>>)
<1> DEFINE a == push.left[1]
<1>1. push.payload = pushed
  BY Requesting
<1>2. ASSUME NEW s \in q.session PROVE lost.sessions \/ (a.verb = "session" /\ s = <<a.on, pushed>>)
  <2>1. s \in remote.session =>
          lost.sessions \/ (a.verb \in {"session", "complete"} /\ s = <<a.on, pushed>>)
    BY DEF GrcInv, Sessions
  <2>2. CASE a.verb = "session"
    BY <1>1, <1>2, <2>1, <2>2 DEF Carries
  <2>3. CASE a.verb = "complete"
    <3>1. q.session = remote.session \ {<<a.on, pushed>>}
      BY <1>1, <2>3 DEF Carries
    <3> QED BY <1>2, <2>1, <3>1
  <2>4. CASE a.verb \notin {"session", "complete"}
    <3>1. q.session = remote.session
      BY <2>4 DEF Carries
    <3> QED BY <1>2, <2>1, <2>4, <3>1
  <2> QED BY <2>2, <2>3, <2>4
<1> QED BY <1>2

LEMMA GrcAnswers ==
  ASSUME GrcInv, Answered
  PROVE  GrcInv'
<1> DEFINE a == push.left[1]
           rest == Tail(push.left)
           found == Len(remote.items) > 0
           after == <<Ask(IF found THEN "update" ELSE "create", "evidence")>>
<1>1. /\ push # NoPush /\ remote' = Carried(a, remote, push)
      /\ platform' = platform /\ config' = config /\ pushed' = pushed /\ lost' = lost
  BY Requesting DEF Answered
<1>2. /\ push \in Pushes /\ push.payload = pushed /\ pushed \in Nat /\ remote \in Remote
      /\ Plan(push.left, platform) /\ Settled(push.left, remote, pushed, config)
      /\ TypedRequest(a) /\ Carries(a, remote, push, remote')
      /\ push = [payload |-> pushed, match |-> push.match, left |-> push.left]
  BY <1>1, Requesting
<1>3. /\ remote' \in Remote /\ Bounded(remote')
      /\ \A i \in DOMAIN grcEvents :
           /\ grcEvents[i].payload \in Nat /\ grcEvents[i].payload <= pushed
           /\ grcEvents[i].ok => Made(grcEvents[i].payload, remote', config)
      /\ a.verb # "create" => OneItem(remote', lost)
      /\ a.verb = "create" /\ ~lost.items => Len(remote'.items) = 1
  BY <1>1, <1>2, CarriedKeeps
<1>4. \A s \in remote'.session : lost.sessions \/ (a.verb = "session" /\ s = <<a.on, pushed>>)
  BY <1>1, <1>2, CarriedSessions
<1>5. OneItem(remote', lost')
  <2>1. CASE a.verb = "create" /\ ~lost.items
    <3>1. Len(remote'.items) = 1
      BY <1>3, <2>1
    <3> QED BY <3>1 DEF OneItem
  <2>2. CASE lost.items
    BY <1>1, <2>2 DEF OneItem
  <2> QED BY <1>1, <1>3, <2>1, <2>2
<1>6. CASE a.verb = "find"
  <2>1. /\ grcEvents' = grcEvents
        /\ \E i \in (IF found THEN DOMAIN remote.items ELSE {0}) :
             push' = [push EXCEPT !.left = after, !.match = i]
    BY <1>1, <1>2, <1>6, Requesting DEF Answered
  <2>2. PICK i \in (IF found THEN DOMAIN remote.items ELSE {0}) :
             push' = [push EXCEPT !.left = after, !.match = i]
    BY <2>1
  <2>3. push' = [payload |-> pushed, match |-> i, left |-> after]
    BY <1>2, <2>2
  <2>4. remote.items \in Seq(SUBSET Nat) /\ Len(remote.items) \in Nat
        /\ DOMAIN remote.items = 1..Len(remote.items)
    BY <1>2, LenProperties DEF Remote
  <2>5. i \in Nat
    BY <2>4
  <2>6. /\ after \in Seq(Requests) /\ Len(after) = 1 /\ after # <<>> /\ DOMAIN after = {1}
        /\ after[1].verb = (IF found THEN "update" ELSE "create") /\ after[1].on = "evidence"
        /\ after[1] = Ask(after[1].verb, "evidence")
    BY DEF Ask, Requests
  <2>7. push.left \in Seq(Requests) /\ Len(push.left) = 1 /\ platform = "drata"
    <3>1. Len(push.left) \in Nat \ {0} /\ push.left \in Seq(Requests)
      BY <1>2, PlanSteps DEF Plan
    <3>2. 1 \in DOMAIN push.left
      BY <3>1, LenProperties
    <3>3. 1 = Len(push.left) /\ (a.verb = "submit" <=> platform = "vanta")
      BY <1>2, <1>6, <3>2 DEF Plan, OfItems
    <3> QED BY <1>6, <3>1, <3>3 DEF GrcInv
  <2>8. remote' = remote
    BY <1>1, <1>6 DEF Carried
  <2> HIDE DEF after
  <2>9. Plan(after, platform)
    <3>1. TypedRequest(after[1])
      BY <2>6, ElementOfSeq DEF TypedRequest
    <3> QED BY <2>6, <2>7, <3>1 DEF Plan, OfItems
  <2>10. Settled(after, remote, pushed, config)
    <3>1. \A verbs, on : Owes(push.left, verbs, on) => "find" \in verbs /\ on = a.on
      <4>1. DOMAIN push.left = 1..1
        BY <2>7, LenProperties
      <4> QED BY <1>6, <4>1 DEF Owes
    <3>2. Owes(after, OfItems, "evidence")
      BY <2>6 DEF Owes, OfItems
    <3> QED BY <1>2, <3>1, <3>2 DEF Settled
  <2>11. Pushing'
    <3>1. push'.left = after /\ push'.payload = pushed /\ push'.match = i
      BY <2>3
    <3>2. push' \in Pushes
      BY <1>2, <2>3, <2>5, <2>6 DEF Pushes
    <3>3. after[1].verb = "create" => Len(remote.items) = 0
      BY <2>4, <2>6
    <3>4. after[1].verb = "update" => i \in DOMAIN remote.items
      BY <2>6
    <3> QED BY <1>1, <2>8, <2>9, <2>10, <3>1, <3>2, <3>3, <3>4 DEF Pushing
  <2>12. Sessions'
    BY <1>1, <1>4, <1>6 DEF Sessions
  <2>13. Recorded'
    BY <1>1, <1>3, <2>1 DEF Recorded
  <2> QED BY <1>1, <1>3, <1>5, <2>1, <2>11, <2>12, <2>13 DEF GrcInv, Bounded, OneItem
<1>7. CASE a.verb # "find" /\ rest = <<>>
  <2>1. Finish(TRUE)
    BY <1>1, <1>2, <1>7, Requesting DEF Answered
  <2>2. Made(pushed, remote', config)
    BY <1>2, <1>3, <1>7, SettledAfter, SettledIsMade
  <2>3. Pushing' /\ Recorded' /\ grcEvents' \in Seq([ok : BOOLEAN, payload : Nat])
    BY <1>1, <1>3, <2>1, <2>2, GrcFinishes
  <2>4. Sessions'
    <3>1. a.verb # "session"
      <4>1. Len(push.left) = 1 /\ push.left \in Seq(Requests)
        BY <1>2, <1>7, PlanSteps DEF Plan
      <4>2. 1 \in DOMAIN push.left
        BY <4>1, LenProperties
      <4> QED BY <1>2, <4>1, <4>2 DEF Plan
    <3> QED BY <1>1, <1>4, <3>1 DEF Sessions
  <2> QED BY <1>1, <1>3, <1>5, <2>3, <2>4 DEF GrcInv, Bounded, OneItem
<1>8. CASE a.verb # "find" /\ rest # <<>>
  <2>1. push' = [push EXCEPT !.left = rest] /\ grcEvents' = grcEvents
    BY <1>1, <1>2, <1>8, Requesting DEF Answered
  <2>2. push' = [payload |-> pushed, match |-> push.match, left |-> rest]
    BY <1>2, <2>1
  <2>3. Plan(rest, platform) /\ Settled(rest, remote', pushed, config)
    BY <1>2, <1>8, PlanTail, SettledAfter
  <2>4. /\ Len(push.left) \in Nat \ {0, 1} /\ rest \in Seq(Requests) /\ rest[1] = push.left[2]
        /\ DOMAIN push.left = 1..Len(push.left)
    <3>1. /\ Len(push.left) \in Nat \ {0} /\ rest \in Seq(Requests) /\ push.left \in Seq(Requests)
          /\ \A i \in 1..(Len(push.left) - 1) : rest[i] = push.left[i + 1]
          /\ rest = <<>> <=> Len(push.left) = 1
      BY <1>2, PlanSteps DEF Plan
    <3>2. 1 \in 1..(Len(push.left) - 1)
      BY <1>8, <3>1
    <3>3. rest[1] = push.left[1 + 1] /\ 1 + 1 = 2
      BY <3>1, <3>2
    <3> QED BY <1>8, <3>1, <3>3, LenProperties
  <2> HIDE DEF rest
  <2>5. rest[1].verb \notin {"create", "update"}
    <3>1. 2 \in DOMAIN push.left
      <4> DEFINE n == Len(push.left)
      <4>1. n \in Nat \ {0, 1} /\ DOMAIN push.left = 1..n
        BY <2>4
      <4> HIDE DEF n
      <4>2. 2 \in 1..n
        BY <4>1
      <4> QED BY <4>1, <4>2
    <3>2. push.left[2].verb \in {"create", "update"} => 2 = 1
      BY <1>2, <3>1 DEF Plan
    <3> QED BY <2>4, <3>2
  <2>6. Pushing'
    <3>1. push'.left = rest /\ push'.payload = pushed
      BY <2>2
    <3>2. push' \in Pushes
      BY <1>2, <2>2, <2>4 DEF Pushes
    <3> QED BY <1>1, <2>3, <2>5, <3>1, <3>2 DEF Pushing
  <2>7. Sessions'
    <3>1. a.verb = "session" => rest[1] = Ask("complete", a.on)
      BY <1>2, <2>4 DEF Plan
    <3>2. a.verb = "session" => rest[1].verb = "complete" /\ rest[1].on = a.on
      BY <3>1 DEF Ask
    <3>3. push' # NoPush /\ push'.left = rest
      <4>1. push' \in Pushes
        BY <1>2, <2>2, <2>4 DEF Pushes
      <4> QED BY <2>2, <4>1 DEF Pushes
    <3> QED BY <1>1, <1>4, <3>2, <3>3 DEF Sessions
  <2>8. Recorded'
    BY <1>1, <1>3, <2>1 DEF Recorded
  <2>9. grcEvents' \in Seq([ok : BOOLEAN, payload : Nat])
    BY <2>1 DEF GrcInv
  <2> QED BY <1>1, <1>3, <1>5, <2>6, <2>7, <2>8, <2>9 DEF GrcInv, Bounded, OneItem
<1> QED BY <1>6, <1>7, <1>8

LEMMA GrcLosesReply ==
  ASSUME GrcInv, ReplyLost
  PROVE  GrcInv'
<1> DEFINE a == push.left[1]
<1>1. /\ push # NoPush /\ Accepted(a, remote, push) /\ remote' = Carried(a, remote, push)
      /\ lost' = [lost EXCEPT !.replies = @ + 1, !.items = @ \/ a.verb = "create"]
      /\ platform' = platform /\ config' = config /\ push' = push /\ pushed' = pushed
      /\ grcEvents' = grcEvents
  BY Requesting DEF ReplyLost
<1>2. /\ push \in Pushes /\ push.payload = pushed /\ pushed \in Nat /\ remote \in Remote
      /\ Plan(push.left, platform) /\ Settled(push.left, remote, pushed, config)
      /\ TypedRequest(a) /\ Carries(a, remote, push, remote')
  BY <1>1, Requesting
<1>3. /\ remote' \in Remote /\ Bounded(remote')
      /\ \A i \in DOMAIN grcEvents :
           /\ grcEvents[i].payload \in Nat /\ grcEvents[i].payload <= pushed
           /\ grcEvents[i].ok => Made(grcEvents[i].payload, remote', config)
      /\ a.verb # "create" => OneItem(remote', lost)
  BY <1>1, <1>2, CarriedKeeps
<1>4. \A s \in remote'.session : lost.sessions \/ (a.verb = "session" /\ s = <<a.on, pushed>>)
  BY <1>1, <1>2, CarriedSessions
<1>5. /\ lost' \in [replies : Nat, sessions : BOOLEAN, items : BOOLEAN]
      /\ lost'.sessions = lost.sessions /\ (lost.items => lost'.items)
      /\ a.verb = "create" => lost'.items
  <2>1. lost \in [replies : Nat, sessions : BOOLEAN, items : BOOLEAN]
    BY DEF GrcInv
  <2>2. lost = [replies |-> lost.replies, sessions |-> lost.sessions, items |-> lost.items]
    BY <2>1
  <2>3. lost' = [replies |-> lost.replies + 1, sessions |-> lost.sessions,
                 items |-> lost.items \/ a.verb = "create"]
    BY <1>1, <2>2
  <2> DEFINE n == lost.replies + 1
  <2>4. n \in Nat
    BY <2>1
  <2> HIDE DEF n
  <2>5. lost' = [replies |-> n, sessions |-> lost.sessions, items |-> lost.items \/ a.verb = "create"]
    BY <2>3 DEF n
  <2> QED BY <2>1, <2>4, <2>5
<1>6. OneItem(remote', lost')
  <2>1. CASE a.verb = "create"
    BY <1>5, <2>1 DEF OneItem
  <2>2. CASE a.verb # "create"
    BY <1>3, <1>5, <2>2 DEF OneItem
  <2> QED BY <2>1, <2>2
<1>7. Settled(push.left, remote', pushed, config)
  <2>1. "tests" \in config => Owes(push.left, {"put", "complete"}, "tests") \/ remote'.tests = pushed
    BY <1>2 DEF Settled, Carries
  <2>2. "accounts" \in config => Owes(push.left, {"put", "complete"}, "accounts") \/ remote'.accounts = pushed
    BY <1>2 DEF Settled, Carries
  <2>3. ASSUME "evidence" \in config
        PROVE  /\ Owes(push.left, {"upload"}, "evidence") \/ pushed \in remote'.files
               /\ \/ Owes(push.left, OfItems, "evidence")
                  \/ \E k \in DOMAIN remote'.items : pushed \in remote'.items[k]
    <3>1. Owes(push.left, {"upload"}, "evidence") \/ pushed \in remote'.files
      BY <1>2, <2>3 DEF Settled, Carries
    <3>2. \/ Owes(push.left, OfItems, "evidence")
          \/ \E k \in DOMAIN remote.items : pushed \in remote.items[k]
      BY <1>2, <2>3 DEF Settled
    <3>3. \A k \in DOMAIN remote.items :
            k \in DOMAIN remote'.items /\ remote.items[k] \subseteq remote'.items[k]
      BY <1>2 DEF Carries
    <3> QED BY <3>1, <3>2, <3>3
  <2> QED BY <2>1, <2>2, <2>3 DEF Settled
<1>8. a.verb = "update" => push.match \in DOMAIN remote'.items
  BY <1>1, <1>2 DEF Carries, GrcInv, Pushing
<1>9. Pushing'
  BY <1>1, <1>2, <1>5, <1>7, <1>8 DEF Pushing
<1>10. Sessions'
  BY <1>1, <1>4, <1>5 DEF Sessions
<1>11. Recorded'
  BY <1>1, <1>3 DEF Recorded
<1> QED BY <1>1, <1>3, <1>5, <1>6, <1>9, <1>10, <1>11 DEF GrcInv, Bounded, OneItem

LEMMA GrcRefused ==
  ASSUME GrcInv, Refused
  PROVE  GrcInv'
<1> DEFINE a == push.left[1]
           session == a.verb \in {"session", "complete"}
<1>1. PICK cancelled \in BOOLEAN :
        /\ ~session => cancelled
        /\ remote' = IF session /\ cancelled THEN cancel(remote, push) ELSE remote
        /\ lost' = [lost EXCEPT !.sessions = @ \/ ~cancelled]
  BY Requesting DEF Refused
<1>2. /\ push # NoPush /\ Finish(FALSE) /\ push' = NoPush
      /\ platform' = platform /\ config' = config /\ pushed' = pushed
  BY DEF Refused, Finish
<1>3. push.payload = pushed /\ remote \in Remote /\ pushed \in Nat
  BY <1>2, Requesting
<1>4. /\ lost' \in [replies : Nat, sessions : BOOLEAN, items : BOOLEAN]
      /\ lost'.items = lost.items /\ (lost.sessions => lost'.sessions)
      /\ ~cancelled => lost'.sessions
  <2>1. lost \in [replies : Nat, sessions : BOOLEAN, items : BOOLEAN]
    BY DEF GrcInv
  <2>2. lost = [replies |-> lost.replies, sessions |-> lost.sessions, items |-> lost.items]
    BY <2>1
  <2>3. lost' = [replies |-> lost.replies, sessions |-> lost.sessions \/ ~cancelled, items |-> lost.items]
    BY <1>1, <2>2
  <2> QED BY <2>1, <2>3
<1>5. /\ remote' \in Remote /\ remote'.tests = remote.tests /\ remote'.accounts = remote.accounts
      /\ remote'.items = remote.items /\ remote'.session \subseteq remote.session
      /\ session /\ cancelled => \A s \in remote'.session : s[2] # pushed
  <2>1. CASE session /\ cancelled
    <3> DEFINE rest == {s \in remote.session : s[2] # pushed}
    <3>1. remote = [tests |-> remote.tests, accounts |-> remote.accounts, session |-> remote.session,
                    files |-> remote.files, items |-> remote.items]
      BY <1>3 DEF Remote
    <3>2. remote' = [remote EXCEPT !.session = rest]
      BY <1>1, <1>3, <2>1 DEF cancel
    <3> HIDE DEF rest
    <3>3. remote' = [tests |-> remote.tests, accounts |-> remote.accounts, session |-> rest,
                     files |-> remote.files, items |-> remote.items]
      BY <3>1, <3>2
    <3>4. rest \subseteq remote.session /\ \A s \in rest : s[2] # pushed
      BY DEF rest
    <3>5. remote.session \in SUBSET (Datasets \X Nat)
      BY <1>3 DEF Remote
    <3>6. remote' \in Remote
      BY <1>3, <3>3, <3>4, <3>5 DEF Remote
    <3> QED BY <3>3, <3>4, <3>6
  <2>2. CASE ~(session /\ cancelled)
    BY <1>1, <1>3, <2>2
  <2> QED BY <2>1, <2>2
<1>6. Sessions'
  <2>1. ASSUME NEW s \in remote'.session PROVE lost'.sessions
    <3>1. lost.sessions \/ (session /\ s = <<a.on, pushed>>)
      BY <1>5 DEF GrcInv, Sessions
    <3>2. CASE session /\ cancelled
      BY <1>4, <1>5, <3>1, <3>2
    <3>3. CASE ~cancelled
      BY <1>4, <3>3
    <3>4. CASE ~session
      BY <1>4, <3>1, <3>4
    <3> QED BY <3>2, <3>3, <3>4
  <2> QED BY <2>1 DEF Sessions
<1>7. ASSUME NEW i \in DOMAIN grcEvents
      PROVE  /\ grcEvents[i].payload \in Nat /\ grcEvents[i].payload <= pushed
             /\ grcEvents[i].ok => Made(grcEvents[i].payload, remote', config)
  BY <1>5 DEF GrcInv, Recorded, Made
<1>8. Pushing' /\ Recorded' /\ grcEvents' \in Seq([ok : BOOLEAN, payload : Nat])
  BY <1>2, <1>5, <1>7, GrcFinishes
<1> QED BY <1>2, <1>4, <1>5, <1>6, <1>8 DEF GrcInv

LEMMA GrcRest ==
  ASSUME GrcInv, CreatedShort \/ DieInPush \/ TokenCached \/ TokenExpires
  PROVE  GrcInv'
<1>1. CASE CreatedShort
  <2> DEFINE items == Append(remote.items, {})
  <2>1. /\ push # NoPush /\ push.left[1].verb = "create" /\ Finish(FALSE) /\ push' = NoPush
        /\ remote' = [remote EXCEPT !.items = items]
        /\ platform' = platform /\ config' = config /\ pushed' = pushed /\ lost' = lost
    BY <1>1, Requesting DEF CreatedShort, Finish
  <2>2. remote \in Remote /\ pushed \in Nat
    BY <2>1, Requesting
  <2>3. /\ remote = [tests |-> remote.tests, accounts |-> remote.accounts, session |-> remote.session,
                     files |-> remote.files, items |-> remote.items]
        /\ remote.tests \in Nat /\ remote.accounts \in Nat /\ remote.session \in SUBSET (Datasets \X Nat)
        /\ remote.files \in SUBSET Nat /\ remote.items \in Seq(SUBSET Nat)
    BY <2>2 DEF Remote
  <2>4. remote' = [tests |-> remote.tests, accounts |-> remote.accounts, session |-> remote.session,
                   files |-> remote.files, items |-> items]
    BY <2>1, <2>3
  <2>5. /\ items \in Seq(SUBSET Nat) /\ Len(items) = Len(remote.items) + 1 /\ Len(remote.items) \in Nat
        /\ \A k \in 1..Len(remote.items) : items[k] = remote.items[k]
    BY <2>3
  <2> HIDE DEF items
  <2>6. DOMAIN items = 1..(Len(remote.items) + 1) /\ DOMAIN remote.items = 1..Len(remote.items)
    BY <2>3, <2>5, LenProperties
  <2>7. \A k \in DOMAIN remote.items : k \in DOMAIN items /\ items[k] = remote.items[k]
    BY <2>5, <2>6
  <2>8. remote' \in Remote
    BY <2>3, <2>4, <2>5 DEF Remote
  <2>9. ASSUME NEW i \in DOMAIN grcEvents
        PROVE  /\ grcEvents[i].payload \in Nat /\ grcEvents[i].payload <= pushed
               /\ grcEvents[i].ok => Made(grcEvents[i].payload, remote', config)
    <3>1. /\ grcEvents[i].payload \in Nat /\ grcEvents[i].payload <= pushed
          /\ grcEvents[i].ok => Made(grcEvents[i].payload, remote, config)
      BY DEF GrcInv, Recorded
    <3>2. Made(grcEvents[i].payload, remote, config) => Made(grcEvents[i].payload, remote', config)
      BY <2>4, <2>7 DEF Made
    <3> QED BY <3>1, <3>2
  <2>10. Pushing' /\ Recorded' /\ grcEvents' \in Seq([ok : BOOLEAN, payload : Nat])
    BY <2>1, <2>8, <2>9, GrcFinishes
  <2>11. Sessions'
    BY <2>1, <2>4 DEF GrcInv, Sessions
  <2>12. Len(remote'.items) > 1 => lost'.items
    <3>1. Len(remote.items) = 0 \/ lost.items
      BY <2>1 DEF GrcInv, Pushing
    <3> QED BY <2>1, <2>4, <2>5, <3>1
  <2> QED BY <2>1, <2>4, <2>8, <2>10, <2>11, <2>12 DEF GrcInv
<1>2. CASE DieInPush
  <2>1. /\ push' = NoPush /\ lost' = [lost EXCEPT !.sessions = TRUE]
        /\ platform' = platform /\ config' = config /\ pushed' = pushed /\ remote' = remote
        /\ grcEvents' = grcEvents
    BY <1>2 DEF DieInPush
  <2>2. lost \in [replies : Nat, sessions : BOOLEAN, items : BOOLEAN]
    BY DEF GrcInv
  <2>3. lost = [replies |-> lost.replies, sessions |-> lost.sessions, items |-> lost.items]
    BY <2>2
  <2>4. lost' = [replies |-> lost.replies, sessions |-> TRUE, items |-> lost.items]
    BY <2>1, <2>3
  <2>5. lost' \in [replies : Nat, sessions : BOOLEAN, items : BOOLEAN]
    BY <2>2, <2>4
  <2>6. lost'.sessions /\ lost'.items = lost.items
    BY <2>4
  <2>7. Pushing' /\ Sessions'
    BY <2>1, <2>6 DEF Pushing, Sessions
  <2>8. Recorded'
    BY <2>1 DEF GrcInv, Recorded
  <2> QED BY <2>1, <2>5, <2>6, <2>7, <2>8 DEF GrcInv
<1>3. CASE TokenCached
  <2> DEFINE rest == Tail(push.left)
  <2>1. /\ push # NoPush /\ push.left[1].verb = "token" /\ push' = [push EXCEPT !.left = rest]
        /\ platform' = platform /\ config' = config /\ pushed' = pushed /\ remote' = remote
        /\ grcEvents' = grcEvents /\ lost' = lost
    BY <1>3, Requesting DEF TokenCached
  <2>2. /\ push \in Pushes /\ push.payload = pushed /\ remote \in Remote /\ pushed \in Nat
        /\ Plan(push.left, platform) /\ Settled(push.left, remote, pushed, config)
        /\ push = [payload |-> push.payload, match |-> push.match, left |-> push.left]
    BY <2>1, Requesting
  <2>3. push' = [payload |-> pushed, match |-> push.match, left |-> rest]
    BY <2>1, <2>2
  <2>4. /\ Len(push.left) \in Nat \ {0} /\ rest \in Seq(Requests) /\ push.left \in Seq(Requests)
        /\ \A i \in 1..(Len(push.left) - 1) : rest[i] = push.left[i + 1]
        /\ rest = <<>> <=> Len(push.left) = 1
    BY <2>2, PlanSteps DEF Plan
  <2>5. DOMAIN push.left = 1..Len(push.left)
    BY <2>4, LenProperties
  <2>6. Len(push.left) # 1
    <3>1. 1 \in DOMAIN push.left
      BY <2>4, <2>5
    <3> QED BY <2>1, <2>2, <3>1 DEF Plan
  <2>7. Plan(rest, platform)
    BY <2>2, <2>4, <2>6, PlanTail
  <2>8. Settled(rest, remote, pushed, config)
    <3>1. \A verbs, on : Owes(push.left, verbs, on) => "token" \in verbs \/ Owes(rest, verbs, on)
      BY <2>1, <2>2, OwedAfter
    <3> HIDE DEF rest
    <3> QED BY <2>2, <3>1 DEF Settled, OfItems
  <2>9. rest[1].verb \notin {"create", "update"}
    <3> DEFINE n == Len(push.left)
    <3>1. n \in Nat \ {0, 1} /\ DOMAIN push.left = 1..n
      BY <2>4, <2>5, <2>6
    <3>2. 1 \in 1..(Len(push.left) - 1) /\ 1 + 1 = 2
      BY <2>4, <2>6
    <3>3. rest[1] = push.left[2]
      BY <2>4, <3>2
    <3> HIDE DEF n, rest
    <3>4. 2 \in 1..n
      BY <3>1
    <3>5. push.left[2].verb \in {"create", "update"} => 2 = 1
      BY <2>2, <3>1, <3>4 DEF Plan
    <3> QED BY <3>3, <3>5
  <2> HIDE DEF rest
  <2>10. Pushing'
    <3>1. push'.left = rest /\ push'.payload = pushed
      BY <2>3
    <3>2. push' \in Pushes
      BY <2>2, <2>3, <2>4 DEF Pushes
    <3> QED BY <2>1, <2>7, <2>8, <2>9, <3>1, <3>2 DEF Pushing
  <2>11. Sessions'
    BY <2>1 DEF GrcInv, Sessions
  <2>12. Recorded'
    BY <2>1 DEF GrcInv, Recorded
  <2> QED BY <2>1, <2>10, <2>11, <2>12 DEF GrcInv
<1>4. CASE TokenExpires
  <2>1. UNCHANGED <<platform, config, push, pushed, remote, grcEvents, lost>>
    BY <1>4 DEF TokenExpires
  <2> QED BY <2>1 DEF GrcInv, Pushing, Sessions, Recorded
<1> QED BY <1>1, <1>2, <1>3, <1>4

LEMMA GrcNextInv == GrcInv /\ [GrcNext]_grcVars => GrcInv'
<1> SUFFICES ASSUME GrcInv, [GrcNext]_grcVars PROVE GrcInv'
  OBVIOUS
<1>1. CASE UNCHANGED grcVars
  <2>1. UNCHANGED <<platform, config, push, pushed, remote, grcEvents, lost>>
    BY <1>1 DEF grcVars
  <2> QED BY <2>1 DEF GrcInv, Pushing, Sessions, Recorded
<1>2. CASE GrcNext
  BY <1>2, GrcPushes, GrcAnswers, GrcLosesReply, GrcRefused, GrcRest DEF GrcNext
<1> QED BY <1>1, <1>2

(* What a push's event says is so: see Grc.  The invariant is of the push   *)
(* under way: what it has left to ask is the end of its plan, and what it   *)
(* asks no more is at the platform, under its own number.                   *)
THEOREM PushedAsRecorded == GrcSpec => []PushIsWhatWasRecorded
<1>1. GrcInv => PushIsWhatWasRecorded
  <2> SUFFICES ASSUME GrcInv PROVE PushIsWhatWasRecorded
    OBVIOUS
  <2>1. \A i \in DOMAIN grcEvents : grcEvents[i].ok => Made(grcEvents[i].payload, remote, config)
    BY DEF GrcInv, Recorded
  <2>2. push = NoPush /\ remote.session # {} => lost.sessions
    BY DEF GrcInv, Sessions
  <2>3. platform = "drata" /\ Len(remote.items) > 1 => lost.items
    BY DEF GrcInv
  <2> QED BY <2>1, <2>2, <2>3 DEF PushIsWhatWasRecorded, Made
<1> QED BY <1>1, GrcInitInv, GrcNextInv, PTL DEF GrcSpec

HIDE GrcAssumption

-----------------------------------------------------------------------------
(* The capture: what is recorded of a call is what happened to it.           *)
USE CaptureAssumption

Callers == ProxyCalls \cup HookCalls

Recordings ==
  [requested : {"none", "off", "block", "ask", "no-objection"},
   executed : {"none", "off", "error", "success", "withheld", "warned"},
   lost : SUBSET {"requested", "executed"}]

Gifts == {"nothing", "error", "refusal", "text", "notice"}

Shaped(f) == f = [c \in Callers |-> [at |-> f[c].at, hub |-> f[c].hub, conn |-> f[c].conn]]

(* A call through the proxy: how far it is, what is on record of it,        *)
(* whether it ran, and what was given of it.                                *)
ByProxy(at, r, runs, g) ==
  /\ at \in {"new", "arrived", "listing", "listed", "connecting", "calling", "gaveUp", "done"}
  /\ at \in {"connecting", "calling", "gaveUp"} => r.requested \notin {"none", "block"}
  /\ at \in {"new", "arrived", "listing", "listed", "connecting"} => ~runs
  /\ at \notin {"gaveUp", "done"} => r.executed = "none" /\ g = "nothing"
  /\ at = "gaveUp" => r.executed \in {"error", "off"} /\ g = "error"
  /\ runs => r.requested \notin {"none", "block"}
  /\ r.executed \in {"success", "withheld"} => runs
  /\ r.executed # "warned"
  /\ r.executed = "withheld" => g = "notice"
  /\ g = "text" => r.executed \in {"success", "off"}

(* A call that a hook sees.                                                 *)
ByHook(soft, at, r, runs) ==
  /\ at \in {"new", "no-objection", "ask", "block", "allowed", "refused", "unheard"}
  /\ at \in {"no-objection", "ask", "allowed"} => r.requested \notin {"none", "block"}
  /\ at = "unheard" => soft
  /\ runs => at \in {"allowed", "unheard"}
  /\ r.executed \in {"success", "warned"} => runs
  /\ r.executed # "withheld"

CallOk(c, at, r, R, g) ==
  /\ c \in ProxyCalls => ByProxy(at, r, c \in R, g)
  /\ c \in HookCalls => ByHook(c \in OpenHooks, at, r, c \in R)

CaptureInv ==
  /\ Shaped(calls) /\ record \in [Callers -> Recordings] /\ gave \in [Callers -> Gifts]
  /\ \A c \in Callers : CallOk(c, calls[c].at, record[c], ran, gave[c])

LEMMA CaptureInitInv == CaptureInit => CaptureInv
<1> SUFFICES ASSUME CaptureInit PROVE CaptureInv
  OBVIOUS
<1>1. /\ calls = [c \in Callers |-> [at |-> "new", hub |-> 1, conn |-> NoConn]]
      /\ record = [c \in Callers |-> [requested |-> "none", executed |-> "none", lost |-> {}]]
      /\ ran = {} /\ gave = [c \in Callers |-> "nothing"]
  BY DEF CaptureInit, Callers
<1>2. Shaped(calls)
  BY <1>1 DEF Shaped
<1>3. record \in [Callers -> Recordings] /\ gave \in [Callers -> Gifts]
  BY <1>1 DEF Recordings, Gifts
<1>4. ASSUME NEW c \in Callers PROVE CallOk(c, calls[c].at, record[c], ran, gave[c])
  BY <1>1 DEF CallOk, ByProxy, ByHook
<1> QED BY <1>2, <1>3, <1>4 DEF CaptureInv

(* What the changes of a step are, of the call it is about.                 *)
Moved(f, g, c, v) ==
  \/ g = [f EXCEPT ![c].at = v]
  \/ \E w : g = [f EXCEPT ![c].at = v, ![c].hub = w]
  \/ \E w : g = [f EXCEPT ![c].at = v, ![c].conn = w]

LEMMA AtChanges ==
  ASSUME NEW f, Shaped(f), NEW c \in Callers, NEW v, NEW g, Moved(f, g, c, v)
  PROVE  Shaped(g) /\ g[c].at = v /\ \A d \in Callers \ {c} : g[d].at = f[d].at
<1>1. f = [d \in Callers |-> f[d]] /\ f[c] = [at |-> f[c].at, hub |-> f[c].hub, conn |-> f[c].conn]
  BY DEF Shaped
<1>2. PICK new : /\ new.at = v /\ new = [at |-> new.at, hub |-> new.hub, conn |-> new.conn]
                 /\ g = [f EXCEPT ![c] = new]
  <2>1. CASE g = [f EXCEPT ![c].at = v]
    <3>1. [f[c] EXCEPT !.at = v] = [at |-> v, hub |-> f[c].hub, conn |-> f[c].conn]
      BY <1>1
    <3>2. g = [f EXCEPT ![c] = [f[c] EXCEPT !.at = v]]
      BY <2>1
    <3> QED BY <3>1, <3>2
  <2>2. CASE \E w : g = [f EXCEPT ![c].at = v, ![c].hub = w]
    <3>4. PICK w : g = [f EXCEPT ![c].at = v, ![c].hub = w]
      BY <2>2
    <3> DEFINE m == [f[c] EXCEPT !.at = v]
    <3>3. m = [at |-> v, hub |-> f[c].hub, conn |-> f[c].conn]
      BY <1>1
    <3>1. [m EXCEPT !.hub = w] = [at |-> v, hub |-> w, conn |-> f[c].conn]
      <4> HIDE DEF m
      <4> QED BY <3>3
    <3>2. g = [f EXCEPT ![c] = [[f[c] EXCEPT !.at = v] EXCEPT !.hub = w]]
      BY <1>1, <3>4
    <3> QED BY <3>1, <3>2
  <2>3. CASE \E w : g = [f EXCEPT ![c].at = v, ![c].conn = w]
    <3>4. PICK w : g = [f EXCEPT ![c].at = v, ![c].conn = w]
      BY <2>3
    <3> DEFINE m == [f[c] EXCEPT !.at = v]
    <3>3. m = [at |-> v, hub |-> f[c].hub, conn |-> f[c].conn]
      BY <1>1
    <3>1. [m EXCEPT !.conn = w] = [at |-> v, hub |-> f[c].hub, conn |-> w]
      <4> HIDE DEF m
      <4> QED BY <3>3
    <3>2. g = [f EXCEPT ![c] = [[f[c] EXCEPT !.at = v] EXCEPT !.conn = w]]
      BY <1>1, <3>4
    <3> QED BY <3>1, <3>2
  <2> QED BY <2>1, <2>2, <2>3 DEF Moved
<1>3. g = [d \in Callers |-> IF d = c THEN new ELSE f[d]]
  BY <1>1, <1>2
<1>4. new.at = v /\ new = [at |-> new.at, hub |-> new.hub, conn |-> new.conn]
  BY <1>2
<1>5. ASSUME NEW d \in Callers PROVE g[d] = [at |-> g[d].at, hub |-> g[d].hub, conn |-> g[d].conn]
  <2>1. f[d] = [at |-> f[d].at, hub |-> f[d].hub, conn |-> f[d].conn]
    BY DEF Shaped
  <2> QED BY <1>3, <1>4, <2>1
<1>6. Shaped(g)
  BY <1>3, <1>5 DEF Shaped
<1> QED BY <1>3, <1>4, <1>6

LEMMA Finished ==
  ASSUME CaptureInv, NEW c \in Callers, NEW field \in {"requested", "executed"}, NEW value,
         finish(c, field, value),
         field = "requested" => value \in {"block", "ask", "no-objection"},
         field = "executed" => value \in {"error", "success", "withheld", "warned"}
  PROVE  /\ record' \in [Callers -> Recordings]
         /\ \A d \in Callers \ {c} : record'[d] = record[d]
         /\ field = "requested" =>
              /\ record'[c].requested = (IF auditing THEN value ELSE "off")
              /\ record'[c].executed = record[c].executed
         /\ field = "executed" =>
              /\ record'[c].executed = (IF auditing THEN value ELSE "off")
              /\ record'[c].requested = record[c].requested
<1> DEFINE noted == IF auditing THEN value ELSE "off"
<1>1. PICK fell \in BOOLEAN :
        record' = [record EXCEPT ![c] =
                     [record[c] EXCEPT ![field] = noted,
                                       !.lost = IF fell THEN record[c].lost \cup {field} ELSE record[c].lost]]
  BY DEF finish
<1>2. record \in [Callers -> Recordings]
  BY DEF CaptureInv
<1> DEFINE r == record[c]
           mid == [r EXCEPT ![field] = noted]
           gone == IF fell THEN mid.lost \cup {field} ELSE mid.lost
           new == [mid EXCEPT !.lost = gone]
<1>3. r = [requested |-> r.requested, executed |-> r.executed, lost |-> r.lost] /\ r \in Recordings
  BY <1>2 DEF Recordings
<1>4. record' = [record EXCEPT ![c] = new]
  <2>1. mid.lost = r.lost
    <3>1. CASE field = "requested"
      BY <1>3, <3>1
    <3>2. CASE field = "executed"
      BY <1>3, <3>2
    <3> QED BY <3>1, <3>2
  <2> DEFINE more == IF fell THEN r.lost \cup {field} ELSE r.lost
  <2>2. gone = more
    BY <2>1
  <2>3. record' = [record EXCEPT ![c] = [r EXCEPT ![field] = noted, !.lost = more]]
    <3> HIDE DEF noted
    <3> QED BY <1>1
  <2>4. [r EXCEPT ![field] = noted, !.lost = more] = new
    <3> HIDE DEF noted, more, gone
    <3> QED BY <1>3, <2>2
  <2> QED BY <2>3, <2>4
<1> HIDE DEF noted
<1>5. /\ field = "requested" => mid = [requested |-> noted, executed |-> r.executed, lost |-> r.lost]
      /\ field = "executed" => mid = [requested |-> r.requested, executed |-> noted, lost |-> r.lost]
  <2>1. CASE field = "requested"
    BY <1>3, <2>1
  <2>2. CASE field = "executed"
    BY <1>3, <2>2
  <2> QED BY <2>1, <2>2
<1> HIDE DEF mid
<1>11. gone \in SUBSET {"requested", "executed"}
  BY <1>3, <1>5 DEF Recordings
<1> HIDE DEF gone
<1>6. field = "requested" => new = [requested |-> noted, executed |-> r.executed, lost |-> gone]
  BY <1>5
<1>7. field = "executed" => new = [requested |-> r.requested, executed |-> noted, lost |-> gone]
  BY <1>5
<1>8. /\ field = "requested" => noted \in {"off", "block", "ask", "no-objection"}
      /\ field = "executed" => noted \in {"off", "error", "success", "withheld", "warned"}
  BY DEF noted
<1> HIDE DEF new
<1>9. new \in Recordings
  <2>1. r.requested \in {"none", "off", "block", "ask", "no-objection"}
        /\ r.executed \in {"none", "off", "error", "success", "withheld", "warned"}
    BY <1>3 DEF Recordings
  <2> HIDE DEF r
  <2>2. CASE field = "requested"
    BY <1>6, <1>8, <1>11, <2>1, <2>2 DEF Recordings
  <2>3. CASE field = "executed"
    BY <1>7, <1>8, <1>11, <2>1, <2>3 DEF Recordings
  <2> QED BY <2>2, <2>3
<1>10. /\ record' \in [Callers -> Recordings] /\ record'[c] = new
       /\ \A d \in Callers \ {c} : record'[d] = record[d]
  BY <1>2, <1>4, <1>9
<1> QED BY <1>6, <1>7, <1>10 DEF noted, r

(* A step about one call.                                                   *)
LEMMA OneCall ==
  ASSUME CaptureInv, NEW c \in Callers, Shaped(calls'),
         record' \in [Callers -> Recordings], gave' \in [Callers -> Gifts],
         \A d \in Callers \ {c} : /\ calls'[d].at = calls[d].at /\ record'[d] = record[d]
                                  /\ gave'[d] = gave[d] /\ (d \in ran' <=> d \in ran),
         CallOk(c, calls'[c].at, record'[c], ran', gave'[c])
  PROVE  CaptureInv'
<1>1. ASSUME NEW d \in Callers PROVE CallOk(d, calls'[d].at, record'[d], ran', gave'[d])
  <2>1. CASE d = c
    BY <2>1
  <2>2. CASE d # c
    <3>1. CallOk(d, calls[d].at, record[d], ran, gave[d])
      BY DEF CaptureInv
    <3>2. /\ calls'[d].at = calls[d].at /\ record'[d] = record[d]
          /\ gave'[d] = gave[d] /\ (d \in ran' <=> d \in ran)
      BY <2>2
    <3> QED BY <3>1, <3>2 DEF CallOk, ByProxy, ByHook
  <2> QED BY <2>1, <2>2
<1> QED BY <1>1 DEF CaptureInv

(* What the invariant says of one call.                                     *)
LEMMA OfCall ==
  ASSUME CaptureInv, NEW c \in Callers
  PROVE  /\ Shaped(calls) /\ record \in [Callers -> Recordings] /\ gave \in [Callers -> Gifts]
         /\ c \in ProxyCalls => ByProxy(calls[c].at, record[c], c \in ran, gave[c])
         /\ c \in HookCalls => ByHook(c \in OpenHooks, calls[c].at, record[c], c \in ran)
         /\ c \in ProxyCalls => c \notin HookCalls
         /\ c \in ClosedHooks => c \notin OpenHooks
BY DEF CaptureInv, CallOk, HookCalls

(* A step that only moves a call, or gives it something.                    *)
LEMMA Moves ==
  ASSUME CaptureInv, NEW c \in Callers, NEW v, Moved(calls, calls', c, v),
         NEW x \in Gifts, gave' = gave \/ gave' = [gave EXCEPT ![c] = x],
         \A d \in Callers \ {c} : d \in ran' <=> d \in ran,
         record' \in [Callers -> Recordings], \A d \in Callers \ {c} : record'[d] = record[d],
         CallOk(c, v, record'[c], ran', gave'[c])
  PROVE  CaptureInv'
<1>1. Shaped(calls') /\ calls'[c].at = v /\ \A d \in Callers \ {c} : calls'[d].at = calls[d].at
  BY AtChanges DEF CaptureInv
<1>2. gave' \in [Callers -> Gifts] /\ \A d \in Callers \ {c} : gave'[d] = gave[d]
  BY DEF CaptureInv
<1> QED BY <1>1, <1>2, OneCall

LEMMA Enforced ==
  ASSUME NEW canAsk \in BOOLEAN
  PROVE  /\ enforced(canAsk) \in {"block", "ask", "no-objection"}
         /\ enforced(canAsk) = "ask" => canAsk
         /\ decision(canAsk) \in {"block", "ask", "no-objection"}
         /\ decision(canAsk) # "block" => (IF auditing THEN enforced(canAsk) ELSE "off") # "block"
BY DEF enforced, decision

LEMMA ProxySteps ==
  ASSUME CaptureInv, NEW c \in ProxyCalls,
         \/ gatewayHub(c) \/ listTools(c) \/ Connected(c) \/ ConnectFails(c) \/ UnknownTool(c)
         \/ callTool(c) \/ ToolRuns(c) \/ Answer(c) \/ CallFails(c)
  PROVE  CaptureInv'
<1>0. c \in Callers /\ c \notin HookCalls
  BY DEF Callers, HookCalls
<1> DEFINE r == record[c]
           in == c \in ran
           g == gave[c]
           at == calls[c].at
<1>a. /\ record \in [Callers -> Recordings] /\ gave \in [Callers -> Gifts]
      /\ ByProxy(at, r, in, g) /\ Shaped(calls)
  BY <1>0, OfCall
<1>1. CASE gatewayHub(c)
  <2>1. /\ at = "new" /\ record' = record /\ gave' = gave /\ ran' = ran
        /\ calls' = [calls EXCEPT ![c].at = "arrived", ![c].hub = sharedHub']
    BY <1>1 DEF gatewayHub
  <2>2. CallOk(c, "arrived", r, ran, g)
    BY <1>0, <1>a, <2>1 DEF CallOk, ByProxy
  <2> QED BY <1>0, <1>a, <2>1, <2>2, Moves DEF Gifts, Moved
<1>2. CASE listTools(c)
  <2>1. at = "arrived" /\ record' = record /\ gave' = gave /\ ran' = ran
    BY <1>2 DEF listTools
  <2>2. PICK v \in {"listed", "listing"} : Moved(calls, calls', c, v)
    BY <1>2 DEF listTools, Connect, Moved
  <2>3. CallOk(c, v, r, ran, g)
    BY <1>0, <1>a, <2>1, <2>2 DEF CallOk, ByProxy
  <2> QED BY <1>0, <1>a, <2>1, <2>2, <2>3, Moves DEF Gifts, Moved
<1>3. CASE Connected(c)
  <2> DEFINE v == IF at = "listing" THEN "listed" ELSE "calling"
  <2>1. at \in {"listing", "connecting"} /\ record' = record /\ gave' = gave /\ ran' = ran
    BY <1>3 DEF Connected
  <2>2. calls' = [calls EXCEPT ![c].at = v]
    BY <1>0, <1>3, <1>a DEF Connected, Shaped
  <2>3. CallOk(c, v, r, ran, g)
    BY <1>0, <1>a, <2>1 DEF CallOk, ByProxy
  <2> HIDE DEF v
  <2> QED BY <1>0, <1>a, <2>1, <2>2, <2>3, Moves DEF Gifts, Moved
<1>4. CASE ConnectFails(c)
  <2>1. CASE at = "listing"
    <3>1. /\ record' = record /\ gave' = gave /\ ran' = ran
          /\ calls' = [calls EXCEPT ![c].at = "listed"]
      BY <1>4, <2>1 DEF ConnectFails
    <3>2. CallOk(c, "listed", r, ran, g)
      BY <1>0, <1>a, <2>1 DEF CallOk, ByProxy
    <3> QED BY <1>0, <1>a, <3>1, <3>2, Moves DEF Gifts, Moved
  <2>2. CASE at = "connecting"
    <3>1. /\ finish(c, "executed", "error") /\ gave' = [gave EXCEPT ![c] = "error"] /\ ran' = ran
          /\ calls' = [calls EXCEPT ![c].at = "done"]
      BY <1>4, <2>2 DEF ConnectFails
    <3>2. /\ record' \in [Callers -> Recordings] /\ \A d \in Callers \ {c} : record'[d] = record[d]
          /\ record'[c].executed \in {"error", "off"} /\ record'[c].requested = r.requested
      BY <1>0, <3>1, Finished
    <3>3. gave'[c] = "error"
      BY <1>0, <1>a, <3>1
    <3>4. CallOk(c, "done", record'[c], ran', gave'[c])
      BY <1>0, <1>a, <2>2, <3>1, <3>2, <3>3 DEF CallOk, ByProxy
    <3> QED BY <1>0, <1>a, <3>1, <3>2, <3>4, Moves DEF Gifts, Moved
  <2> QED BY <1>4, <2>1, <2>2 DEF ConnectFails
<1>5. CASE UnknownTool(c)
  <2>1. /\ at = "listed" /\ record' = record /\ ran' = ran /\ gave' = [gave EXCEPT ![c] = "error"]
        /\ calls' = [calls EXCEPT ![c].at = "done"]
    BY <1>5 DEF UnknownTool
  <2>2. gave'[c] = "error"
    BY <1>0, <1>a, <2>1
  <2>3. CallOk(c, "done", r, ran, gave'[c])
    BY <1>0, <1>a, <2>1, <2>2 DEF CallOk, ByProxy
  <2> QED BY <1>0, <1>a, <2>1, <2>3, Moves DEF Gifts, Moved
<1>6. CASE callTool(c)
  <2> DEFINE said == IF auditing THEN enforced(FALSE) ELSE "off"
  <2>1. at \in {"arrived", "listed"} /\ finish(c, "requested", enforced(FALSE)) /\ ran' = ran
    BY <1>6 DEF callTool
  <2>2. /\ record' \in [Callers -> Recordings] /\ \A d \in Callers \ {c} : record'[d] = record[d]
        /\ record'[c].requested = said /\ record'[c].executed = r.executed
    BY <1>0, <2>1, Finished, Enforced
  <2>3. said # "none" /\ (decision(FALSE) # "block" => said # "block")
    BY Enforced
  <2> HIDE DEF said
  <2>4. CASE decision(FALSE) = "block"
    <3>1. gave' = [gave EXCEPT ![c] = "refusal"] /\ calls' = [calls EXCEPT ![c].at = "done"]
      BY <1>6, <2>4 DEF callTool
    <3>2. gave'[c] = "refusal"
      BY <1>0, <1>a, <3>1
    <3>3. CallOk(c, "done", record'[c], ran', gave'[c])
      BY <1>0, <1>a, <2>1, <2>2, <3>2 DEF CallOk, ByProxy
    <3> QED BY <1>0, <1>a, <2>1, <2>2, <3>1, <3>3, Moves DEF Gifts, Moved
  <2>5. CASE decision(FALSE) # "block"
    <3>1. gave' = gave
      BY <1>6, <2>5 DEF callTool
    <3>2. PICK v \in {"calling", "connecting"} : Moved(calls, calls', c, v)
      BY <1>6, <2>5 DEF callTool, Connect, Moved
    <3>3. CallOk(c, v, record'[c], ran', gave'[c])
      BY <1>0, <1>a, <2>1, <2>2, <2>3, <2>5, <3>1, <3>2 DEF CallOk, ByProxy
    <3> QED BY <1>0, <1>a, <2>1, <2>2, <3>1, <3>2, <3>3, Moves DEF Gifts, Moved
  <2> QED BY <2>4, <2>5
<1>7. CASE ToolRuns(c)
  <2>1. /\ at \in {"calling", "gaveUp"} /\ ran' = ran \cup {c}
        /\ calls' = calls /\ record' = record /\ gave' = gave
    BY <1>7 DEF ToolRuns
  <2>2. CallOk(c, at, r, ran', g)
    BY <1>0, <1>a, <2>1 DEF CallOk, ByProxy
  <2> QED BY <1>0, <1>a, <2>1, <2>2, OneCall
<1>8. CASE Answer(c)
  <2> DEFINE v == IF withhold(c) THEN "withheld" ELSE "success"
             x == IF withhold(c) THEN "notice" ELSE "text"
  <2>1. /\ at = "calling" /\ in /\ finish(c, "executed", v) /\ gave' = [gave EXCEPT ![c] = x]
        /\ calls' = [calls EXCEPT ![c].at = "done"] /\ ran' = ran
    BY <1>8 DEF Answer
  <2>2. /\ record' \in [Callers -> Recordings] /\ \A d \in Callers \ {c} : record'[d] = record[d]
        /\ record'[c].executed = (IF auditing THEN v ELSE "off") /\ record'[c].requested = r.requested
    BY <1>0, <2>1, Finished
  <2>3. gave'[c] = x /\ x \in Gifts
    BY <1>0, <1>a, <2>1 DEF Gifts
  <2>4. (v = "withheld" /\ x = "notice") \/ (v = "success" /\ x = "text")
    OBVIOUS
  <2> HIDE DEF v, x
  <2>5. CallOk(c, "done", record'[c], ran', gave'[c])
    BY <1>0, <1>a, <2>1, <2>2, <2>3, <2>4 DEF CallOk, ByProxy
  <2> QED BY <1>0, <1>a, <2>1, <2>2, <2>3, <2>5, Moves DEF Moved
<1>9. CASE CallFails(c)
  <2>1. /\ at = "calling" /\ finish(c, "executed", "error") /\ gave' = [gave EXCEPT ![c] = "error"]
        /\ calls' = [calls EXCEPT ![c].at = "gaveUp"] /\ ran' = ran
    BY <1>9 DEF CallFails
  <2>2. /\ record' \in [Callers -> Recordings] /\ \A d \in Callers \ {c} : record'[d] = record[d]
        /\ record'[c].executed \in {"error", "off"} /\ record'[c].requested = r.requested
    BY <1>0, <2>1, Finished
  <2>3. gave'[c] = "error"
    BY <1>0, <1>a, <2>1
  <2>4. CallOk(c, "gaveUp", record'[c], ran', gave'[c])
    BY <1>0, <1>a, <2>1, <2>2, <2>3 DEF CallOk, ByProxy
  <2> QED BY <1>0, <1>a, <2>1, <2>2, <2>4, Moves DEF Gifts, Moved
<1> QED BY <1>1, <1>2, <1>3, <1>4, <1>5, <1>6, <1>7, <1>8, <1>9

LEMMA HookSteps ==
  ASSUME CaptureInv, NEW c \in HookCalls,
         PreToolUse(c) \/ HookAnswers(c) \/ refuse(c) \/ AgentRuns(c) \/ PostToolUse(c)
  PROVE  CaptureInv'
<1>0. c \in Callers /\ c \notin ProxyCalls
  BY DEF Callers, HookCalls
<1> DEFINE r == record[c]
           in == c \in ran
           at == calls[c].at
<1>a. /\ record \in [Callers -> Recordings] /\ gave \in [Callers -> Gifts]
      /\ ByHook(c \in OpenHooks, at, r, in) /\ Shaped(calls)
  BY <1>0, OfCall
<1>1. CASE PreToolUse(c)
  <2> DEFINE said == IF auditing THEN enforced(TRUE) ELSE "off"
             v == decision(TRUE)
  <2>1. /\ at = "new" /\ finish(c, "requested", enforced(TRUE)) /\ ran' = ran /\ gave' = gave
        /\ calls' = [calls EXCEPT ![c].at = v]
    BY <1>1 DEF PreToolUse
  <2>2. /\ record' \in [Callers -> Recordings] /\ \A d \in Callers \ {c} : record'[d] = record[d]
        /\ record'[c].requested = said /\ record'[c].executed = r.executed
    BY <1>0, <2>1, Finished, Enforced
  <2>3. said # "none" /\ (v # "block" => said # "block") /\ v \in {"block", "ask", "no-objection"}
    BY Enforced
  <2> HIDE DEF said, v
  <2>4. CallOk(c, v, record'[c], ran', gave'[c])
    BY <1>0, <1>a, <2>1, <2>2, <2>3 DEF CallOk, ByHook
  <2> QED BY <1>0, <1>a, <2>1, <2>2, <2>4, Moves DEF Gifts, Moved
<1>2. CASE HookAnswers(c)
  <2>1. at \in {"no-objection", "ask", "block"} /\ record' = record /\ ran' = ran /\ gave' = gave
    BY <1>2 DEF HookAnswers
  <2>2. PICK v \in {"allowed", "refused"} :
          calls' = [calls EXCEPT ![c].at = v] /\ (v = "allowed" => at \in {"no-objection", "ask"})
    BY <1>2 DEF HookAnswers
  <2>3. CallOk(c, v, r, ran, gave[c])
    BY <1>0, <1>a, <2>1, <2>2 DEF CallOk, ByHook
  <2> QED BY <1>0, <1>a, <2>1, <2>2, <2>3, Moves DEF Gifts, Moved
<1>3. CASE refuse(c)
  <2> DEFINE v == IF c \in ClosedHooks THEN "refused" ELSE "unheard"
  <2>1. /\ at \in {"new", "no-objection", "ask", "block"} /\ record' = record /\ ran' = ran
        /\ gave' = gave /\ calls' = [calls EXCEPT ![c].at = v]
    BY <1>3 DEF refuse
  <2>2. v \in {"refused", "unheard"} /\ (v = "unheard" => c \in OpenHooks)
    BY DEF HookCalls
  <2> HIDE DEF v
  <2>3. CallOk(c, v, r, ran, gave[c])
    BY <1>0, <1>a, <2>1, <2>2 DEF CallOk, ByHook
  <2> QED BY <1>0, <1>a, <2>1, <2>3, Moves DEF Gifts, Moved
<1>4. CASE AgentRuns(c)
  <2>1. /\ at \in {"allowed", "unheard"} /\ ran' = ran \cup {c} /\ gave' = [gave EXCEPT ![c] = "text"]
        /\ calls' = calls /\ record' = record
    BY <1>4 DEF AgentRuns
  <2>2. gave' \in [Callers -> Gifts] /\ \A d \in Callers \ {c} : gave'[d] = gave[d]
    BY <1>a, <2>1 DEF Gifts
  <2>3. CallOk(c, at, r, ran', gave'[c])
    BY <1>0, <1>a, <2>1 DEF CallOk, ByHook
  <2> QED BY <1>0, <1>a, <2>1, <2>2, <2>3, OneCall
<1>5. CASE PostToolUse(c)
  <2> DEFINE v == IF withhold(c) THEN "warned" ELSE "success"
  <2>1. in /\ finish(c, "executed", v) /\ calls' = calls /\ ran' = ran /\ gave' = gave
    BY <1>5 DEF PostToolUse
  <2>2. v \in {"success", "warned"}
    OBVIOUS
  <2> HIDE DEF v
  <2>3. /\ record' \in [Callers -> Recordings] /\ \A d \in Callers \ {c} : record'[d] = record[d]
        /\ record'[c].executed = (IF auditing THEN v ELSE "off") /\ record'[c].requested = r.requested
    BY <1>0, <2>1, <2>2, Finished
  <2>4. CallOk(c, at, record'[c], ran', gave'[c])
    BY <1>0, <1>a, <2>1, <2>2, <2>3 DEF CallOk, ByHook
  <2> QED BY <1>0, <1>a, <2>1, <2>3, <2>4, OneCall
<1> QED BY <1>1, <1>2, <1>3, <1>4, <1>5

LEMMA CaptureNextInv == CaptureInv /\ [ProxyNext \/ HookNext]_captureVars => CaptureInv'
<1> SUFFICES ASSUME CaptureInv, [ProxyNext \/ HookNext]_captureVars PROVE CaptureInv'
  OBVIOUS
<1>1. ASSUME UNCHANGED <<calls, record, ran, gave>> PROVE CaptureInv'
  BY <1>1 DEF CaptureInv
<1>2. CASE UNCHANGED captureVars
  BY <1>1, <1>2 DEF captureVars
<1>3. CASE ChangeRules \/ \E k \in DOMAIN conns : ServerExits(k)
  BY <1>1, <1>3 DEF ChangeRules, ServerExits
<1>4. CASE ProxyNext
  BY <1>3, <1>4, ProxySteps DEF ProxyNext
<1>5. CASE HookNext
  BY <1>3, <1>5, HookSteps DEF HookNext
<1> QED BY <1>2, <1>4, <1>5

(* What is on record of a tool call is what became of it: see Capture.  The *)
(* invariant says of every point a call may be at what must be on record    *)
(* there, so that a late answer, a closed client or a change of the         *)
(* settings cannot part the two.                                            *)
THEOREM RecordHolds == CaptureSpec => []RecordedIsTrue
<1>1. CaptureInv => RecordedIsTrue
  <2> SUFFICES ASSUME CaptureInv, NEW c \in ProxyCalls \cup HookCalls
      PROVE LET r == record[c]
            IN /\ r.requested = "block" /\ c \in ran => c \in OpenHooks
               /\ c \in ran => r.requested # "none" \/ c \in OpenHooks
               /\ r.executed \in {"success", "warned", "withheld"} => c \in ran
               /\ r.executed = "withheld" => gave[c] = "notice"
               /\ c \in ProxyCalls /\ gave[c] = "text" => r.executed \in {"success", "off"}
    BY DEF RecordedIsTrue
  <2>1. c \in Callers
    BY DEF Callers
  <2>2. CASE c \in ProxyCalls
    BY <2>1, <2>2, OfCall DEF ByProxy
  <2>3. CASE c \in HookCalls
    BY <2>1, <2>3, OfCall DEF ByHook
  <2> QED BY <2>2, <2>3
<1> QED BY <1>1, CaptureInitInv, CaptureNextInv, PTL DEF CaptureSpec

HIDE CaptureAssumption

-----------------------------------------------------------------------------
(* The collector: what it leaves behind had arrived.                         *)
USE CollectorAssumption

Kinds == {"plain", "bad"}
Files == [identity : 1..MaxRotations + 1, lines : Seq(Kinds), half : BOOLEAN]
Places == (1..MaxRotations + 1) \X (1..MaxLines)
Marks == [identity : Nat, at : Nat, ahead : BOOLEAN, known : BOOLEAN, up : BOOLEAN]

(* A place in the file f, of n lines, up to which all of it arrived.        *)
Behind(s, id, n, g, ex) ==
  /\ s \in Marks /\ (s.known => s.identity <= id)
  /\ s.known /\ s.identity = id =>
       /\ s.at <= n
       /\ \A i \in 1..s.at : g[<<id, i>>] > 0 \/ <<id, i>> \in ex

CollectorInv ==
  /\ logFile \in Files /\ Len(logFile.lines) <= MaxLines
  /\ got \in [Places -> Nat]
  /\ Behind(follower, logFile.identity, size, got, excuses)
  /\ bookmark = NoMark \/ Behind(bookmark, logFile.identity, size, got, excuses)

LEMMA CollectorBounds ==
  BATCH \in Nat \ {0} /\ MaxLines \in Nat \ {0} /\ MaxRotations \in Nat \ {0}
BY CollectorAssumption

LEMMA CollectorInitInv == CollectorInit => CollectorInv
<1> SUFFICES ASSUME CollectorInit PROVE CollectorInv
  OBVIOUS
<1>1. follower = Down /\ bookmark = NoMark /\ got = [l \in Places |-> 0]
  BY DEF CollectorInit, Places
<1>2. logFile \in Files /\ Len(logFile.lines) <= MaxLines
  <2>1. PICK l \in {<<>>, <<"plain">>} : logFile = [identity |-> 1, lines |-> l, half |-> FALSE]
    BY DEF CollectorInit
  <2>2. l \in Seq(Kinds) /\ Len(l) \in {0, 1}
    <3>1. CASE l = <<>>
      BY <3>1
    <3>2. CASE l = <<"plain">>
      BY <3>2 DEF Kinds
    <3> QED BY <3>1, <3>2
  <2>3. Len(l) <= MaxLines
    <3> DEFINE k == Len(l)
    <3>1. k \in {0, 1}
      BY <2>2
    <3> HIDE DEF k
    <3>2. k <= MaxLines
      BY <3>1, CollectorBounds
    <3> QED BY <3>2 DEF k
  <2>4. 1 \in 1..MaxRotations + 1
    BY CollectorBounds
  <2> QED BY <2>1, <2>2, <2>3, <2>4 DEF Files
<1>3. \A id, n, ex : Behind(follower, id, n, got, ex)
  BY <1>1 DEF Behind, Down, Marks
<1> QED BY <1>1, <1>2, <1>3 DEF CollectorInv

(* A place stays one when the file grows, or lines arrive or are excused.   *)
LEMMA StaysBehind ==
  ASSUME NEW s, NEW id \in Nat, NEW n \in Nat, NEW g, NEW ex, Behind(s, id, n, g, ex),
         NEW m \in Nat, n <= m, NEW h, NEW more,
         g \in [Places -> Nat], h \in [Places -> Nat], \A l \in Places : h[l] >= g[l], ex \subseteq more,
         n <= MaxLines, id \in 1..MaxRotations + 1
  PROVE  Behind(s, id, m, h, more)
<1>1. CASE ~(s.known /\ s.identity = id)
  BY <1>1 DEF Behind
<1>2. CASE s.known /\ s.identity = id
  <2>1. s.at \in Nat /\ s.at <= n /\ \A i \in 1..s.at : g[<<id, i>>] > 0 \/ <<id, i>> \in ex
    BY <1>2 DEF Behind, Marks
  <2>2. ASSUME NEW i \in 1..s.at PROVE h[<<id, i>>] > 0 \/ <<id, i>> \in more
    <3>1. <<id, i>> \in Places
      BY <2>1 DEF Places
    <3>2. h[<<id, i>>] \in Nat /\ g[<<id, i>>] \in Nat /\ h[<<id, i>>] >= g[<<id, i>>]
      BY <3>1
    <3> QED BY <2>1, <3>2
  <2>3. s.at <= m
    BY <2>1
  <2> QED BY <2>2, <2>3 DEF Behind
<1> QED BY <1>1, <1>2

LEMMA ReadTo ==
  ASSUME NEW s \in Marks, NEW t, NEW b
  PROVE  [s EXCEPT !.at = t, !.ahead = b]
           = [identity |-> s.identity, at |-> t, ahead |-> b, known |-> s.known, up |-> s.up]
<1> DEFINE m == [s EXCEPT !.at = t]
<1>1. s = [identity |-> s.identity, at |-> s.at, ahead |-> s.ahead, known |-> s.known, up |-> s.up]
  BY DEF Marks
<1>2. m = [identity |-> s.identity, at |-> t, ahead |-> s.ahead, known |-> s.known, up |-> s.up]
  BY <1>1
<1> HIDE DEF m
<1>3. [m EXCEPT !.ahead = b] = [identity |-> s.identity, at |-> t, ahead |-> b, known |-> s.known, up |-> s.up]
  BY <1>2
<1> QED BY <1>3 DEF m

LEMMA CollectorPolls ==
  ASSUME CollectorInv, Poll
  PROVE  CollectorInv'
<1> DEFINE id == logFile.identity
           n == size
           state == Resume
           upTo == cut(state.at)
           batch == state.at + 1..upTo
           first == state.at + 1
           broken == {i \in batch : (i = first /\ state.ahead) \/ (i = upTo /\ logFile.half /\ upTo = size)}
           next == [state EXCEPT !.at = upTo, !.ahead = \E i \in batch : logFile.lines[i] = "bad"]
           skipped == IF follower.known \/ source.fromStart THEN {} ELSE 1..size
           arrive == [l \in DOMAIN got |-> IF l[1] = logFile.identity /\ l[2] \in batch \ broken
                                           THEN got[l] + 1 ELSE got[l]]
           aside == skipped \cup {i \in broken : i = first /\ state.ahead}
<1>1. /\ logFile \in Files /\ id \in 1..MaxRotations + 1 /\ n \in Nat /\ n <= MaxLines
      /\ got \in [Places -> Nat] /\ Behind(follower, id, n, got, excuses)
      /\ bookmark = NoMark \/ Behind(bookmark, id, n, got, excuses)
  <2>1. logFile \in Files /\ Len(logFile.lines) <= MaxLines
    BY DEF CollectorInv
  <2>2. id \in 1..MaxRotations + 1 /\ n \in Nat
    BY <2>1 DEF Files, size
  <2> QED BY <2>1, <2>2 DEF CollectorInv, size
<1> DEFINE forgiven(lines) == excuses' = excuses \cup {<<logFile.identity, i>> : i \in lines}
<1>2. logFile' = logFile
  BY DEF Poll
<1>3. \/ upTo <= state.at /\ follower' = state /\ forgiven(aside) /\ bookmark' = bookmark /\ got' = got
      \/ ~(upTo <= state.at) /\ follower' = next /\ bookmark' = next /\ got' = arrive /\ forgiven(aside)
      \/ ~(upTo <= state.at) /\ follower' = state /\ bookmark' = bookmark /\ got' = got /\ forgiven(aside)
      \/ ~(upTo <= state.at) /\ follower' = state /\ bookmark' = bookmark /\ got' = arrive /\ forgiven(aside \cup batch)
      \/ ~(upTo <= state.at) /\ follower' = Down /\ bookmark' = bookmark /\ got' = arrive /\ forgiven(aside)
  BY DEF Poll
<1>4. /\ state \in Marks /\ state.known /\ state.identity = id /\ state.at <= n
      /\ \A i \in 1..state.at : got[<<id, i>>] > 0 \/ <<id, i>> \in excuses \/ i \in skipped
  <2>1. follower \in Marks /\ follower = [identity |-> follower.identity, at |-> follower.at,
              ahead |-> follower.ahead, known |-> follower.known, up |-> follower.up]
    BY <1>1 DEF Behind, Marks
  <2>2. CASE ~follower.known
    <3> DEFINE k == IF source.fromStart THEN 0 ELSE size
    <3>1. state = [follower EXCEPT !.known = TRUE, !.identity = id, !.at = k]
      BY <2>2 DEF Resume
    <3>2. k \in Nat /\ k <= n /\ \A i \in 1..k : i \in skipped
      BY <1>1, <2>2
    <3> HIDE DEF k, state, skipped, n, id
    <3>3. state = [identity |-> id, at |-> k, ahead |-> follower.ahead, known |-> TRUE, up |-> follower.up]
      BY <2>1, <3>1
    <3>4. state \in Marks
      BY <1>1, <2>1, <3>2, <3>3 DEF Marks
    <3> QED BY <3>2, <3>3, <3>4
  <2>3. CASE follower.known /\ (\/ follower.identity # id \/ size < follower.at
                                \/ follower.ahead /\ size = follower.at)
    <3>1. state = [follower EXCEPT !.identity = id, !.at = 0, !.ahead = FALSE]
      BY <2>3 DEF Resume
    <3> HIDE DEF state, skipped, n, id
    <3>3. state = [identity |-> id, at |-> 0, ahead |-> FALSE, known |-> follower.known, up |-> follower.up]
      BY <2>1, <3>1
    <3>4. state \in Marks
      BY <1>1, <2>1, <3>3 DEF Marks
    <3> QED BY <1>1, <2>3, <3>3, <3>4
  <2>4. CASE follower.known /\ ~(\/ follower.identity # id \/ size < follower.at
                                 \/ follower.ahead /\ size = follower.at)
    <3>1. state = follower
      BY <2>4 DEF Resume
    <3> HIDE DEF state, skipped
    <3> QED BY <1>1, <2>1, <2>4, <3>1 DEF Behind
  <2> QED BY <2>2, <2>3, <2>4
<1> HIDE DEF state
<1>5. upTo \in Int /\ upTo <= n /\ (logFile.half => upTo # n)
  <2> DEFINE whole == IF logFile.half THEN size - 1 ELSE size
  <2>1. upTo = (IF state.at + BATCH < whole THEN state.at + BATCH ELSE whole)
    BY DEF cut
  <2>2. whole \in Int /\ whole <= n /\ (logFile.half => whole < n)
    BY <1>1
  <2>3. state.at + BATCH \in Int
    BY <1>4, CollectorBounds DEF Marks
  <2> HIDE DEF whole, upTo, n
  <2> QED BY <1>1, <2>1, <2>2, <2>3
<1>6. arrive \in [Places -> Nat] /\ \A l \in Places : arrive[l] >= got[l]
  <2>1. \A l \in Places : got[l] \in Nat /\ got[l] + 1 \in Nat /\ got[l] + 1 >= got[l]
    BY <1>1
  <2>2. DOMAIN got = Places
    BY <1>1
  <2> HIDE DEF batch, broken
  <2>3. ASSUME NEW l \in Places PROVE arrive[l] \in Nat /\ arrive[l] >= got[l]
    BY <2>1, <2>2
  <2>4. arrive = [l \in Places |-> arrive[l]]
    BY <2>2
  <2> HIDE DEF arrive
  <2> QED BY <2>3, <2>4
<1>7. \A i \in batch \ broken : i \in 1..n => arrive[<<id, i>>] > 0
  <2>1. ASSUME NEW i \in batch \ broken, i \in 1..n PROVE arrive[<<id, i>>] > 0
    <3>1. <<id, i>> \in Places /\ <<id, i>>[1] = id /\ <<id, i>>[2] = i
      BY <1>1, <2>1, CollectorBounds DEF Places
    <3>2. arrive[<<id, i>>] = got[<<id, i>>] + 1 /\ got[<<id, i>>] \in Nat
      <4> HIDE DEF batch, broken
      <4> QED BY <1>1, <2>1, <3>1
    <3> HIDE DEF arrive
    <3> QED BY <3>2
  <2> QED BY <2>1
<1>8. Behind(state, id, n, got, excuses \cup {<<id, i>> : i \in aside})
  <2>1. skipped \subseteq aside
    OBVIOUS
  <2> HIDE DEF skipped, aside, arrive, next, broken, batch, upTo
  <2>2. \A i \in 1..state.at : got[<<id, i>>] > 0 \/ <<id, i>> \in excuses \cup {<<id, j>> : j \in aside}
    BY <1>4, <2>1
  <2>3. state.identity <= id
    BY <1>1, <1>4
  <2> HIDE DEF n, id
  <2> QED BY <1>4, <2>2, <2>3 DEF Behind
<1> HIDE DEF n, id
<1>9. ASSUME ~(upTo <= state.at)
      PROVE  Behind(next, id, n, arrive, excuses \cup {<<id, i>> : i \in aside})
  <2> DEFINE bad == \E i \in batch : logFile.lines[i] = "bad"
             ex == excuses \cup {<<id, i>> : i \in aside}
  <2>1. state = [identity |-> id, at |-> state.at, ahead |-> state.ahead,
                 known |-> state.known, up |-> state.up]
        /\ state.at \in Nat /\ state.known
    BY <1>4 DEF Marks
  <2>2. next = [identity |-> id, at |-> upTo, ahead |-> bad, known |-> state.known, up |-> state.up]
    <3>1. next = [state EXCEPT !.at = upTo, !.ahead = bad]
      OBVIOUS
    <3> HIDE DEF bad, upTo, next, batch, broken, arrive, aside, ex, skipped
    <3>2. [state EXCEPT !.at = upTo, !.ahead = bad]
             = [identity |-> state.identity, at |-> upTo, ahead |-> bad, known |-> state.known, up |-> state.up]
      BY <1>4, ReadTo
    <3> QED BY <1>4, <3>1, <3>2
  <2>3. next \in Marks /\ upTo \in Nat
    <3>1. bad \in BOOLEAN /\ state.up \in BOOLEAN /\ state.known \in BOOLEAN /\ upTo \in Nat
      BY <1>4, <1>5, <1>9, <2>1 DEF Marks
    <3> HIDE DEF bad, upTo, next
    <3> QED BY <1>1, <2>2, <3>1 DEF Marks
  <2>4. ASSUME NEW i \in 1..upTo PROVE arrive[<<id, i>>] > 0 \/ <<id, i>> \in ex
    <3>1. i \in Nat /\ i # 0 /\ i <= upTo /\ i \in 1..n
      BY <1>1, <1>5, <2>3, <2>4
    <3>2. CASE i <= state.at
      <4>1. got[<<id, i>>] > 0 \/ <<id, i>> \in excuses \/ i \in skipped
        BY <1>4, <2>1, <3>1, <3>2
      <4>2. <<id, i>> \in Places
        BY <1>1, <3>1, CollectorBounds DEF Places
      <4>3. arrive[<<id, i>>] \in Nat /\ got[<<id, i>>] \in Nat /\ arrive[<<id, i>>] >= got[<<id, i>>]
        BY <1>1, <1>6, <4>2
      <4> HIDE DEF arrive, skipped, broken
      <4> QED BY <4>1, <4>3
    <3>3. CASE i \in batch \ broken
      BY <1>7, <3>1, <3>3
    <3>4. CASE i \in broken
      <4>1. i = first /\ state.ahead
        BY <1>5, <3>4 DEF n
      <4> HIDE DEF broken, skipped, first
      <4> QED BY <3>4, <4>1
    <3>5. i \in batch \/ i <= state.at
      BY <2>1, <2>3, <3>1
    <3> HIDE DEF batch, broken, arrive, ex
    <3> QED BY <3>2, <3>3, <3>4, <3>5
  <2> HIDE DEF next, arrive, ex, aside
  <2>5. next.known /\ next.identity = id /\ next.at = upTo
    BY <2>1, <2>2
  <2>6. Behind(next, id, n, arrive, ex)
    BY <1>1, <1>5, <2>3, <2>4, <2>5 DEF Behind
  <2> QED BY <2>6 DEF ex
<1> HIDE DEF next, arrive, aside, batch, upTo, skipped, broken
<1>10. Behind(Down, id, n, got', excuses')
  BY DEF Behind, Down, Marks
<1>11. excuses \subseteq excuses' /\ excuses \cup {<<id, i>> : i \in aside} \subseteq excuses'
  BY <1>3 DEF id
<1>12. got' \in [Places -> Nat] /\ \A l \in Places : got'[l] >= got[l]
  <2>1. \A l \in Places : got[l] \in Nat /\ got[l] >= got[l]
    BY <1>1
  <2> QED BY <1>1, <1>3, <1>6, <2>1
<1>13. \A s : Behind(s, id, n, got, excuses \cup {<<id, i>> : i \in aside}) => Behind(s, id, n, got', excuses')
  BY <1>1, <1>11, <1>12, StaysBehind
<1>14. \A s : Behind(s, id, n, got, excuses) => Behind(s, id, n, got', excuses')
  BY <1>1, <1>11, <1>12, StaysBehind
<1>15. ~(upTo <= state.at) /\ got' = arrive => Behind(next, id, n, got', excuses')
  <2> SUFFICES ASSUME ~(upTo <= state.at), got' = arrive PROVE Behind(next, id, n, got', excuses')
    OBVIOUS
  <2>1. Behind(next, id, n, got', excuses \cup {<<id, i>> : i \in aside})
    BY <1>9
  <2>2. got' \in [Places -> Nat] /\ \A l \in Places : got'[l] >= got'[l]
    BY <1>12
  <2> QED BY <1>1, <1>11, <2>1, <2>2, StaysBehind
<1>16. Behind(follower', id, n, got', excuses')
  BY <1>3, <1>8, <1>10, <1>13, <1>15
<1>17. bookmark' = NoMark \/ Behind(bookmark', id, n, got', excuses')
  BY <1>1, <1>3, <1>14, <1>15
<1> QED BY <1>1, <1>2, <1>12, <1>16, <1>17 DEF CollectorInv, size, n, id

LEMMA CollectorNextInv == CollectorInv /\ [CollectorNext]_collectorVars => CollectorInv'
<1> SUFFICES ASSUME CollectorInv, [CollectorNext]_collectorVars PROVE CollectorInv'
  OBVIOUS
<1> DEFINE id == logFile.identity
           n == Len(logFile.lines)
<1>1. /\ logFile \in Files /\ id \in 1..MaxRotations + 1 /\ n \in Nat /\ n <= MaxLines
      /\ logFile.lines \in Seq(Kinds) /\ logFile.half \in BOOLEAN
      /\ logFile = [identity |-> id, lines |-> logFile.lines, half |-> logFile.half]
      /\ got \in [Places -> Nat] /\ Behind(follower, id, n, got, excuses)
      /\ bookmark = NoMark \/ Behind(bookmark, id, n, got, excuses)
  <2>1. logFile \in Files /\ Len(logFile.lines) <= MaxLines
    BY DEF CollectorInv
  <2>2. logFile.identity \in 1..MaxRotations + 1 /\ logFile.lines \in Seq(Kinds) /\ logFile.half \in BOOLEAN
    BY <2>1 DEF Files
  <2>3. n \in Nat
    BY <2>2
  <2> QED BY <2>1, <2>2, <2>3 DEF CollectorInv, size, Files
<1>2. CASE Poll
  BY <1>2, CollectorPolls
<1>3. CASE WriteLine
  <2>1. UNCHANGED <<follower, bookmark, got, excuses>>
    BY <1>3 DEF WriteLine
  <2>2. PICK kind \in Kinds, half \in BOOLEAN :
          \/ n < MaxLines /\ logFile' = [logFile EXCEPT !.lines = Append(@, kind), !.half = half]
          \/ logFile' = [logFile EXCEPT !.half = FALSE]
    BY <1>3 DEF WriteLine, size, Kinds
  <2>3. CASE logFile' = [logFile EXCEPT !.half = FALSE]
    <3>1. logFile' = [identity |-> id, lines |-> logFile.lines, half |-> FALSE]
      BY <1>1, <2>3
    <3> HIDE DEF id
    <3>2. logFile' \in Files
      BY <1>1, <3>1 DEF Files
    <3> QED BY <1>1, <2>1, <3>1, <3>2 DEF CollectorInv, size, id
  <2>4. CASE n < MaxLines /\ logFile' = [logFile EXCEPT !.lines = Append(@, kind), !.half = half]
    <3> DEFINE more == Append(logFile.lines, kind)
    <3>1. logFile' = [logFile EXCEPT !.lines = more, !.half = half]
      BY <2>4
    <3> DEFINE m == [logFile EXCEPT !.lines = more]
    <3> HIDE DEF id, n, more
    <3>9. m = [identity |-> id, lines |-> more, half |-> logFile.half]
      BY <1>1
    <3>10. logFile' = [m EXCEPT !.half = half]
      BY <1>1, <3>1
    <3> HIDE DEF m
    <3>2. logFile' = [identity |-> id, lines |-> more, half |-> half]
      BY <3>9, <3>10
    <3>3. more \in Seq(Kinds) /\ Len(more) = n + 1
      BY <1>1 DEF more, n
    <3>4. logFile' \in Files
      BY <1>1, <3>2, <3>3 DEF Files
    <3>5. \A s : Behind(s, id, n, got, excuses) => Behind(s, id, n + 1, got, excuses)
      <4>1. n + 1 \in Nat /\ n <= n + 1 /\ id \in Nat
        BY <1>1, CollectorBounds
      <4>2. \A l \in Places : got[l] >= got[l]
        BY <1>1
      <4> QED BY <1>1, <4>1, <4>2, StaysBehind
    <3>6. n + 1 <= MaxLines
      BY <1>1, <2>4, CollectorBounds
    <3>7. logFile'.identity = id /\ Len(logFile'.lines) = n + 1
      BY <3>2, <3>3
    <3>8. Behind(follower, id, n + 1, got, excuses)
          /\ (bookmark = NoMark \/ Behind(bookmark, id, n + 1, got, excuses))
      BY <1>1, <3>5
    <3> QED BY <1>1, <2>1, <3>4, <3>6, <3>7, <3>8 DEF CollectorInv, size
  <2> QED BY <2>2, <2>3, <2>4
<1>4. CASE Rotate
  <2>1. /\ UNCHANGED <<follower, bookmark, got, excuses>>
        /\ id <= MaxRotations /\ logFile' = [identity |-> id + 1, lines |-> <<>>, half |-> FALSE]
    BY <1>4 DEF Rotate
  <2> HIDE DEF id, n
  <2>2. id + 1 \in 1..MaxRotations + 1 /\ id + 1 \in Nat
    BY <1>1, <2>1, CollectorBounds
  <2>3. logFile' \in Files /\ Len(logFile'.lines) = 0 /\ 0 <= MaxLines /\ logFile'.identity = id + 1
    <3>1. <<>> \in Seq(Kinds) /\ Len(<<>>) = 0
      OBVIOUS
    <3> QED BY <2>1, <2>2, <3>1, CollectorBounds DEF Files
  <2>4. \A s : Behind(s, id, n, got, excuses) => Behind(s, id + 1, 0, got, excuses)
    <3>1. ASSUME NEW s, Behind(s, id, n, got, excuses) PROVE Behind(s, id + 1, 0, got, excuses)
      <4>1. s \in Marks /\ s.identity \in Nat /\ (s.known => s.identity <= id)
        BY <3>1 DEF Behind, Marks
      <4>2. s.known => s.identity <= id + 1 /\ s.identity # id + 1
        BY <1>1, <4>1, CollectorBounds
      <4> QED BY <4>1, <4>2 DEF Behind
    <3> QED BY <3>1
  <2>5. Behind(follower, id + 1, 0, got, excuses)
        /\ (bookmark = NoMark \/ Behind(bookmark, id + 1, 0, got, excuses))
    BY <1>1, <2>4
  <2> QED BY <1>1, <2>1, <2>3, <2>5 DEF CollectorInv, size
<1>5. CASE StartCollector \/ StopCollector \/ UNCHANGED collectorVars
  <2>1. /\ UNCHANGED <<logFile, bookmark, got, excuses>>
        /\ \/ follower' \in {follower, Down, [Down EXCEPT !.up = TRUE]}
           \/ bookmark # NoMark /\ follower' = bookmark
    BY <1>5 DEF StartCollector, StopCollector, collectorVars
  <2>2. Behind(Down, id, n, got, excuses) /\ Behind([Down EXCEPT !.up = TRUE], id, n, got, excuses)
    BY DEF Behind, Down, Marks
  <2>3. Behind(follower', id, n, got, excuses)
    BY <1>1, <2>1, <2>2
  <2> QED BY <1>1, <2>1, <2>3 DEF CollectorInv, size
<1> QED BY <1>2, <1>3, <1>4, <1>5 DEF CollectorNext

(* What the collector left behind arrived: see Collector.  Neither of the   *)
(* two places, in memory and in the bookmark, is ever past the end of the   *)
(* file they are in, nor in a file that is yet to come.                     *)
THEOREM NothingIsPassedOver == CollectorSpec => []LeftBehindArrived
<1>1. CollectorInv => LeftBehindArrived
  BY DEF CollectorInv, Behind, LeftBehindArrived
<1> QED BY <1>1, CollectorInitInv, CollectorNextInv, PTL DEF CollectorSpec

HIDE CollectorAssumption

-----------------------------------------------------------------------------
(* The reviews: no failed authentication and no flagged event is lost.       *)
USE ReviewsAssumption

(* The numbers of w, together: the function that Total defines exists, and  *)
(* a longer one begins as it does.                                          *)
Summed(w, n, f) == f = [i \in 0..n |-> IF i = 0 THEN 0 ELSE f[i - 1] + w[i]]

LEMMA SumStep ==
  ASSUME NEW w, NEW n \in Nat, NEW f, Summed(w, n, f)
  PROVE  f[0] = 0 /\ \A i \in 1..n : f[i] = f[i - 1] + w[i]
<1>1. \A i \in 0..n : f[i] = IF i = 0 THEN 0 ELSE f[i - 1] + w[i]
  BY DEF Summed
<1>2. 0 \in 0..n /\ \A i \in 1..n : i \in 0..n /\ i # 0
  OBVIOUS
<1> QED BY <1>1, <1>2

LEMMA SumExists ==
  ASSUME NEW w, NEW n \in Nat
  PROVE  \E f : Summed(w, n, f)
<1> DEFINE T == {m \in Nat : ~\E f : Summed(w, m, f)}
<1> SUFFICES ASSUME T # {} PROVE FALSE
  OBVIOUS
<1>1. PICK m \in T : \A k \in T : m <= k
  <2>1. T \subseteq Nat
    OBVIOUS
  <2> HIDE DEF T
  <2> QED BY <2>1, LeastNumber
<1>2. m # 0
  <2>1. Summed(w, 0, [i \in 0..0 |-> 0])
    BY DEF Summed
  <2> QED BY <2>1
<1>3. m \in Nat /\ m - 1 \in Nat /\ m - 1 \notin T
  BY <1>1, <1>2
<1>4. PICK f : Summed(w, m - 1, f)
  BY <1>3
<1> DEFINE g == [i \in 0..m |-> IF i < m THEN f[i] ELSE f[m - 1] + w[m]]
<1>5. f[0] = 0 /\ \A i \in 1..m - 1 : f[i] = f[i - 1] + w[i]
  BY <1>3, <1>4, SumStep
<1>6. ASSUME NEW i \in 0..m PROVE g[i] = IF i = 0 THEN 0 ELSE g[i - 1] + w[i]
  <2>1. CASE i = 0
    BY <1>2, <1>3, <1>5, <2>1
  <2>2. CASE i # 0 /\ i < m
    <3>1. i \in 1..m - 1 /\ g[i] = f[i] /\ g[i - 1] = f[i - 1]
      BY <1>3, <2>2
    <3> QED BY <1>5, <2>2, <3>1
  <2>3. CASE i = m
    <3>1. g[m] = f[m - 1] + w[m] /\ g[m - 1] = f[m - 1]
      BY <1>2, <1>3
    <3> QED BY <1>2, <2>3, <3>1
  <2> QED BY <1>3, <2>1, <2>2, <2>3
<1>7. g = [i \in 0..m |-> IF i = 0 THEN 0 ELSE g[i - 1] + w[i]]
  <2> DEFINE h == [i \in 0..m |-> IF i = 0 THEN 0 ELSE g[i - 1] + w[i]]
  <2>1. \A i \in 0..m : h[i] = g[i]
    BY <1>6
  <2>2. h = [i \in 0..m |-> h[i]] /\ g = [i \in 0..m |-> g[i]]
    OBVIOUS
  <2> QED BY <2>1, <2>2
<1>8. Summed(w, m, g)
  BY <1>7 DEF Summed
<1> QED BY <1>8

LEMMA SumsAgree ==
  ASSUME NEW w, NEW n \in Nat, NEW f, Summed(w, n, f),
         NEW v, NEW m \in Nat, NEW g, Summed(v, m, g),
         n <= m, \A i \in 1..n : w[i] = v[i] /\ w[i] \in Nat
  PROVE  \A i \in 0..n : f[i] = g[i] /\ f[i] \in Nat
<1> DEFINE T == {i \in 0..n : ~(f[i] = g[i] /\ f[i] \in Nat)}
<1> SUFFICES ASSUME T # {} PROVE FALSE
  OBVIOUS
<1>1. PICK i \in T : \A k \in T : i <= k
  <2>1. T \subseteq Nat
    OBVIOUS
  <2> HIDE DEF T
  <2> QED BY <2>1, LeastNumber
<1>2. /\ f[0] = 0 /\ \A k \in 1..n : f[k] = f[k - 1] + w[k]
      /\ g[0] = 0 /\ \A k \in 1..m : g[k] = g[k - 1] + v[k]
  BY SumStep
<1>3. i # 0 /\ i \in 0..n
  BY <1>2
<1>4. i - 1 \in 0..n /\ i - 1 \notin T /\ i \in 1..n /\ i \in 1..m
  <2>1. i \in Nat /\ i <= n
    BY <1>3
  <2>2. i - 1 \notin T
    <3> HIDE DEF T
    <3> QED BY <1>1, <2>1
  <2> QED BY <1>3, <2>1, <2>2
<1>5. f[i - 1] = g[i - 1] /\ f[i - 1] \in Nat
  BY <1>4
<1>6. f[i] = g[i] /\ f[i] \in Nat
  BY <1>2, <1>4, <1>5
<1> QED BY <1>6

LEMMA TotalIs ==
  ASSUME NEW w, NEW n \in Nat
  PROVE  \E f : Summed(w, n, f) /\ Total(w, n) = f[n]
<1> DEFINE f == CHOOSE g : Summed(w, n, g)
<1>1. Total(w, n) = f[n]
  BY DEF Total, Summed
<1>2. Summed(w, n, f)
  BY SumExists
<1> QED BY <1>1, <1>2

LEMMA TotalGrows ==
  ASSUME NEW w, NEW n \in Nat, NEW v, NEW k \in Nat,
         \A i \in 1..n : w[i] = v[i] /\ w[i] \in Nat, v[n + 1] = k
  PROVE  Total(w, n) \in Nat /\ Total(v, n + 1) = Total(w, n) + k
<1>1. PICK f : Summed(w, n, f) /\ Total(w, n) = f[n]
  BY TotalIs
<1>2. PICK g : Summed(v, n + 1, g) /\ Total(v, n + 1) = g[n + 1]
  BY TotalIs
<1>3. f[n] = g[n] /\ f[n] \in Nat
  <2>1. n \in 0..n /\ n + 1 \in Nat /\ n <= n + 1
    OBVIOUS
  <2>2. \A i \in 0..n : f[i] = g[i] /\ f[i] \in Nat
    BY <1>1, <1>2, <2>1, SumsAgree
  <2> QED BY <2>1, <2>2
<1>4. g[n + 1] = g[n] + k
  <2>1. n + 1 \in 1..n + 1 /\ (n + 1) - 1 = n
    OBVIOUS
  <2>2. g[n + 1] = g[(n + 1) - 1] + v[n + 1]
    BY <1>2, <2>1, SumStep
  <2> QED BY <2>1, <2>2
<1> QED BY <1>1, <1>2, <1>3, <1>4

LEMMA TotalNone == \A w : Total(w, 0) = 0
<1> SUFFICES ASSUME NEW w PROVE Total(w, 0) = 0
  OBVIOUS
<1>1. PICK f : Summed(w, 0, f) /\ Total(w, 0) = f[0]
  BY TotalIs
<1> QED BY <1>1, SumStep

-----------------------------------------------------------------------------
Events ==
  [type : {"model.call", "tool.result", "tool.call", "model.blocked", "admin.change", "auth.failed", "review"},
   flagged : BOOLEAN, target : Nat, decision : {"none", "closes", "escalated"},
   source : Sources \cup {"none"}, suppressed : Nat]

Logged(x) == x \in Events /\ (x.target # NoTarget => x.type = "review")

(* What the event x counts of the source s, and what the log E does.        *)
Counts(x, s) == IF x.type = "auth.failed" /\ x.source = s THEN x.suppressed + 1 ELSE 0
Counting(E, s) == Total([e \in DOMAIN E |-> Counts(E[e], s)], Len(E))

Slots == [source : Sources, since : Nat, count : Nat \ {0}]
Windowed(W) ==
  /\ W \in Seq(Slots) /\ Len(W) <= MAX_SLOTS
  /\ \A i \in DOMAIN W, j \in DOMAIN W : W[i].source = W[j].source => i = j

SlotsOf(W, s) == {i \in DOMAIN W : W[i].source = s}
Owed(W, s) == IF SlotsOf(W, s) = {} THEN 0 ELSE W[Max(SlotsOf(W, s))].count - 1

Quiet(x) == Logged(x) /\ x.type # "auth.failed"
GoodLog(E) == E \in Seq(Events) /\ \A e \in DOMAIN E : Logged(E[e])

ReviewsInv ==
  /\ GoodLog(auditEvents) /\ Windowed(authWindow) /\ minutes \in Nat
  /\ refusals \in [Sources -> Nat] /\ forgotten \in [Sources -> Nat]
  /\ \A s \in Sources : refusals[s] = forgotten[s] + Owed(authWindow, s) + Counting(auditEvents, s)

LEMMA ReviewsInitInv == ReviewsInit => ReviewsInv
<1> SUFFICES ASSUME ReviewsInit PROVE ReviewsInv
  OBVIOUS
<1>1. auditEvents = <<>> /\ authWindow = <<>> /\ minutes = 0
      /\ refusals = [s \in Sources |-> 0] /\ forgotten = [s \in Sources |-> 0]
  BY DEF ReviewsInit
<1>2. GoodLog(auditEvents)
  BY <1>1 DEF GoodLog
<1>3. Windowed(authWindow)
  <2>1. <<>> \in Seq(Slots) /\ Len(<<>>) = 0 /\ DOMAIN <<>> = {}
    OBVIOUS
  <2> QED BY <1>1, <2>1 DEF Windowed
<1>4. ASSUME NEW s \in Sources PROVE Owed(authWindow, s) = 0 /\ Counting(auditEvents, s) = 0
  <2>1. SlotsOf(authWindow, s) = {}
    BY <1>1 DEF SlotsOf
  <2>2. Len(auditEvents) = 0
    BY <1>1
  <2> QED BY <2>1, <2>2, TotalNone DEF Owed, Counting
<1> QED BY <1>1, <1>2, <1>3, <1>4 DEF ReviewsInv

LEMMA CountingAppend ==
  ASSUME NEW E \in Seq(Events), NEW x \in Events, NEW s
  PROVE  /\ Append(E, x) \in Seq(Events) /\ Counting(E, s) \in Nat
         /\ Counting(Append(E, x), s) = Counting(E, s) + Counts(x, s)
<1> DEFINE n == Len(E)
           F == Append(E, x)
           w == [e \in DOMAIN E |-> Counts(E[e], s)]
           v == [e \in DOMAIN F |-> Counts(F[e], s)]
<1>1. /\ F \in Seq(Events) /\ Len(F) = n + 1 /\ n \in Nat
      /\ \A i \in 1..n : F[i] = E[i] /\ E[i] \in Events
      /\ F[n + 1] = x
  OBVIOUS
<1>2. DOMAIN E = 1..n /\ DOMAIN F = 1..n + 1
  BY <1>1, LenProperties
<1>3. \A y \in Events : Counts(y, s) \in Nat
  BY DEF Counts, Events
<1> HIDE DEF F, n
<1>4. \A i \in 1..n : w[i] = v[i] /\ w[i] \in Nat
  BY <1>1, <1>2, <1>3
<1>5. v[n + 1] = Counts(x, s) /\ Counts(x, s) \in Nat
  BY <1>1, <1>2, <1>3
<1> HIDE DEF w, v
<1>6. Total(w, n) \in Nat /\ Total(v, n + 1) = Total(w, n) + Counts(x, s)
  BY <1>1, <1>4, <1>5, TotalGrows
<1> QED BY <1>1, <1>6 DEF Counting, F, n, w, v

LEMMA OneMore ==
  ASSUME NEW E \in Seq(Events), NEW x \in Events
  PROVE  E \o <<x>> = Append(E, x)
<1> DEFINE t == <<x>>
           F == Append(E, x)
<1>1. t \in Seq(Events) /\ Len(t) = 1 /\ t[1] = x
  OBVIOUS
<1>2. /\ F \in Seq(Events) /\ Len(F) = Len(E) + 1 /\ Len(E) \in Nat
      /\ \A i \in 1..Len(E) : F[i] = E[i]
      /\ F[Len(E) + 1] = x
  OBVIOUS
<1> HIDE DEF t, F
<1>3. /\ E \o t \in Seq(Events) /\ Len(E \o t) = Len(E) + 1
      /\ \A i \in 1..Len(E) + 1 : (E \o t)[i] = IF i <= Len(E) THEN E[i] ELSE t[i - Len(E)]
  BY <1>1, ConcatProperties
<1>4. \A i \in 1..Len(E \o t) : (E \o t)[i] = F[i]
  BY <1>1, <1>2, <1>3
<1>5. E \o t = F
  BY <1>2, <1>3, <1>4, SeqEqual
<1> QED BY <1>5 DEF t, F

LEMMA ThreeMore ==
  ASSUME NEW E \in Seq(Events), NEW x \in Events, NEW y \in Events, NEW z \in Events
  PROVE  E \o <<x, y, z>> = Append(Append(Append(E, x), y), z)
<1> DEFINE t == <<x, y, z>>
           F == Append(E, x)
           G == Append(F, y)
           H == Append(G, z)
           n == Len(E)
<1>1. t \in Seq(Events) /\ Len(t) = 3 /\ t[1] = x /\ t[2] = y /\ t[3] = z
  OBVIOUS
<1>2. /\ F \in Seq(Events) /\ Len(F) = n + 1 /\ n \in Nat
      /\ \A i \in 1..n : F[i] = E[i]
      /\ F[n + 1] = x
  OBVIOUS
<1> HIDE DEF t, F
<1>3. /\ G \in Seq(Events) /\ Len(G) = n + 2
      /\ \A i \in 1..n + 1 : G[i] = F[i]
      /\ G[n + 2] = y
  BY <1>2
<1> HIDE DEF G
<1>4. /\ H \in Seq(Events) /\ Len(H) = n + 3
      /\ \A i \in 1..n + 2 : H[i] = G[i]
      /\ H[n + 3] = z
  BY <1>2, <1>3
<1> HIDE DEF H
<1>5. /\ E \o t \in Seq(Events) /\ Len(E \o t) = n + 3
      /\ \A i \in 1..n + 3 : (E \o t)[i] = IF i <= n THEN E[i] ELSE t[i - n]
  <2>1. /\ E \o t \in Seq(Events) /\ Len(E \o t) = Len(E) + 3
        /\ \A i \in 1..Len(E) + 3 : (E \o t)[i] = IF i <= Len(E) THEN E[i] ELSE t[i - Len(E)]
    <3> HIDE DEF n
    <3>1. /\ E \o t \in Seq(Events) /\ Len(E \o t) = Len(E) + Len(t)
          /\ \A i \in 1..Len(E) + Len(t) : (E \o t)[i] = IF i <= Len(E) THEN E[i] ELSE t[i - Len(E)]
      BY <1>1, ConcatProperties
    <3> QED BY <1>1, <3>1
  <2> QED BY <2>1 DEF n
<1> HIDE DEF n
<1>6. ASSUME NEW i \in 1..n + 3 PROVE (E \o t)[i] = H[i]
  <2>1. CASE i \in 1..n
    <3>1. i \in 1..n + 1 /\ i \in 1..n + 2 /\ i <= n
      BY <1>2, <2>1
    <3> QED BY <1>2, <1>3, <1>4, <1>5, <2>1, <3>1
  <2>2. CASE i = n + 1
    <3>1. i \in 1..n + 1 /\ i \in 1..n + 2 /\ ~(i <= n) /\ i - n = 1
      BY <1>2, <2>2
    <3> QED BY <1>1, <1>2, <1>3, <1>4, <1>5, <2>2, <3>1
  <2>3. CASE i = n + 2
    <3>1. i \in 1..n + 2 /\ ~(i <= n) /\ i - n = 2
      BY <1>2, <2>3
    <3> QED BY <1>1, <1>3, <1>4, <1>5, <2>3, <3>1
  <2>4. CASE i = n + 3
    <3>1. ~(i <= n) /\ i - n = 3
      BY <1>2, <2>4
    <3> QED BY <1>1, <1>4, <1>5, <2>4, <3>1
  <2>5. i \in 1..n \/ i = n + 1 \/ i = n + 2 \/ i = n + 3
    BY <1>2
  <2> QED BY <2>1, <2>2, <2>3, <2>4, <2>5
<1>7. E \o t = H
  BY <1>4, <1>5, <1>6, SeqEqual
<1> QED BY <1>7 DEF t, F, G, H

(* What an append keeps of the log and what it adds to the count.           *)

LEMMA LogGrows ==
  ASSUME NEW E, GoodLog(E), NEW x, Logged(x)
  PROVE  /\ GoodLog(Append(E, x)) /\ E \o <<x>> = Append(E, x)
         /\ \A s : /\ Counting(E, s) \in Nat
                   /\ Counting(Append(E, x), s) = Counting(E, s) + Counts(x, s)
<1>1. E \in Seq(Events) /\ x \in Events
  BY DEF GoodLog, Logged
<1>2. E \o <<x>> = Append(E, x)
  BY <1>1, OneMore
<1>3. ASSUME NEW s
      PROVE  /\ Append(E, x) \in Seq(Events) /\ Counting(E, s) \in Nat
             /\ Counting(Append(E, x), s) = Counting(E, s) + Counts(x, s)
  BY <1>1, CountingAppend
<1>4. GoodLog(Append(E, x))
  <2> DEFINE F == Append(E, x)
  <2>1. F \in Seq(Events) /\ DOMAIN F = 1..Len(E) + 1 /\ DOMAIN E = 1..Len(E) /\ Len(E) \in Nat
    BY <1>1
  <2>2. F[Len(E) + 1] = x /\ \A e \in DOMAIN E : F[e] = E[e]
    BY <1>1
  <2> HIDE DEF F
  <2>3. ASSUME NEW e \in DOMAIN F PROVE Logged(F[e])
    <3>1. e \in DOMAIN E \/ e = Len(E) + 1
      BY <2>1
    <3>2. \A k \in DOMAIN E : Logged(E[k])
      BY DEF GoodLog
    <3> QED BY <2>2, <3>1, <3>2
  <2>4. GoodLog(F)
    BY <2>1, <2>3 DEF GoodLog
  <2> QED BY <2>4 DEF F
<1> QED BY <1>2, <1>3, <1>4

LEMMA QuietOne ==
  ASSUME NEW E, GoodLog(E), NEW x, Quiet(x)
  PROVE  GoodLog(E \o <<x>>) /\ \A s : Counting(E \o <<x>>, s) = Counting(E, s)
<1>1. Logged(x) /\ \A s : Counts(x, s) = 0
  BY DEF Quiet, Counts
<1>2. /\ GoodLog(Append(E, x)) /\ E \o <<x>> = Append(E, x)
      /\ \A s : /\ Counting(E, s) \in Nat
                /\ Counting(Append(E, x), s) = Counting(E, s) + Counts(x, s)
  BY <1>1, LogGrows
<1>3. ASSUME NEW s PROVE Counting(Append(E, x), s) = Counting(E, s)
  BY <1>1, <1>2
<1> QED BY <1>2, <1>3

LEMMA QuietThree ==
  ASSUME NEW E, GoodLog(E), NEW x, Quiet(x), NEW y, Quiet(y), NEW z, Quiet(z)
  PROVE  GoodLog(E \o <<x, y, z>>) /\ \A s : Counting(E \o <<x, y, z>>, s) = Counting(E, s)
<1>1. E \in Seq(Events) /\ x \in Events /\ y \in Events /\ z \in Events
  BY DEF GoodLog, Quiet, Logged
<1> DEFINE F == E \o <<x>>
           G == F \o <<y>>
           H == G \o <<z>>
<1>2. GoodLog(F) /\ \A s : Counting(F, s) = Counting(E, s)
  BY QuietOne
<1>3. F = Append(E, x)
  BY <1>1, OneMore
<1> HIDE DEF F
<1>4. GoodLog(G) /\ \A s : Counting(G, s) = Counting(F, s)
  BY <1>2, QuietOne
<1>5. G = Append(F, y)
  BY <1>1, <1>2, OneMore DEF GoodLog
<1> HIDE DEF G
<1>6. GoodLog(H) /\ \A s : Counting(H, s) = Counting(G, s)
  BY <1>4, QuietOne
<1>7. H = Append(G, z)
  BY <1>1, <1>4, OneMore DEF GoodLog
<1>8. E \o <<x, y, z>> = H
  BY <1>1, <1>3, <1>5, <1>7, ThreeMore
<1> QED BY <1>2, <1>4, <1>6, <1>8

LEMMA EventIs ==
  ASSUME NEW type \in {"model.call", "tool.result", "tool.call", "model.blocked", "admin.change", "auth.failed", "review"},
         NEW modes
  PROVE  /\ event(type, modes) \in Events /\ Logged(event(type, modes))
         /\ type # "auth.failed" => Quiet(event(type, modes))
<1>1. flagged(modes) \in BOOLEAN
  BY DEF flagged
<1>2. event(type, modes) = [type |-> type, flagged |-> flagged(modes), target |-> NoTarget,
                            decision |-> "none", source |-> "none", suppressed |-> 0]
  BY DEF event
<1>3. event(type, modes) \in Events
  BY <1>1, <1>2 DEF Events, NoTarget
<1>4. event(type, modes).type = type /\ event(type, modes).target = NoTarget
  BY <1>2
<1> QED BY <1>3, <1>4 DEF Logged, Quiet

-----------------------------------------------------------------------------
(* The windows: each source has one at most, and owes what it counts.       *)
LEMMA OneSlot ==
  ASSUME NEW W, Windowed(W), NEW i \in DOMAIN W
  PROVE  /\ SlotsOf(W, W[i].source) = {i} /\ Max({i}) = i /\ W[i] \in Slots
         /\ Owed(W, W[i].source) = W[i].count - 1
<1>1. W \in Seq(Slots) /\ \A j \in DOMAIN W : W[i].source = W[j].source => i = j
  BY DEF Windowed
<1>2. SlotsOf(W, W[i].source) = {i}
  BY <1>1 DEF SlotsOf
<1>3. Max({i}) = i
  <2>1. i \in Nat
    BY <1>1
  <2> QED BY <2>1 DEF Max
<1> QED BY <1>1, <1>2, <1>3 DEF Owed

LEMMA NoSlot ==
  ASSUME NEW W, NEW s, \A i \in DOMAIN W : W[i].source # s
  PROVE  SlotsOf(W, s) = {} /\ Owed(W, s) = 0
<1>1. SlotsOf(W, s) = {}
  BY DEF SlotsOf
<1> QED BY <1>1 DEF Owed

LEMMA OwedIs ==
  ASSUME NEW W, Windowed(W), NEW s
  PROVE  Owed(W, s) \in Nat
<1>1. CASE \E i \in DOMAIN W : W[i].source = s
  <2>1. PICK i \in DOMAIN W : W[i].source = s
    BY <1>1
  <2>2. Owed(W, W[i].source) = W[i].count - 1 /\ W[i] \in Slots
    BY OneSlot
  <2>3. W[i].count \in Nat \ {0}
    BY <2>2 DEF Slots
  <2> QED BY <2>1, <2>2, <2>3
<1>2. CASE \A i \in DOMAIN W : W[i].source # s
  BY <1>2, NoSlot
<1> QED BY <1>1, <1>2

(* Two windows owe the same to t when the same slot is t's in both.         *)
LEMMA OwedSame ==
  ASSUME NEW W, Windowed(W), NEW V, Windowed(V), NEW t,
         \A i \in DOMAIN W : W[i].source = t =>
           \E j \in DOMAIN V : V[j].source = t /\ V[j].count = W[i].count,
         \A j \in DOMAIN V : V[j].source = t => \E i \in DOMAIN W : W[i].source = t
  PROVE  Owed(V, t) = Owed(W, t)
<1>1. CASE \E i \in DOMAIN W : W[i].source = t
  <2>1. PICK i \in DOMAIN W : W[i].source = t
    BY <1>1
  <2>2. PICK j \in DOMAIN V : V[j].source = t /\ V[j].count = W[i].count
    BY <2>1
  <2>3. Owed(W, W[i].source) = W[i].count - 1 /\ Owed(V, V[j].source) = V[j].count - 1
    BY OneSlot
  <2> QED BY <2>1, <2>2, <2>3
<1>2. CASE \A i \in DOMAIN W : W[i].source # t
  <2>1. \A j \in DOMAIN V : V[j].source # t
    BY <1>2
  <2> QED BY <1>2, <2>1, NoSlot
<1> QED BY <1>1, <1>2

LEMMA OwedElsewhere ==
  ASSUME NEW W, Windowed(W), NEW V, Windowed(V), NEW i \in DOMAIN W, DOMAIN V = DOMAIN W,
         V[i].source = W[i].source, \A k \in DOMAIN W : k # i => V[k] = W[k],
         NEW t, t # W[i].source
  PROVE  Owed(V, t) = Owed(W, t)
<1>1. \A k \in DOMAIN W : W[k].source = t =>
        \E j \in DOMAIN V : V[j].source = t /\ V[j].count = W[k].count
  OBVIOUS
<1>2. \A j \in DOMAIN V : V[j].source = t => \E k \in DOMAIN W : W[k].source = t
  OBVIOUS
<1> QED BY <1>1, <1>2, OwedSame

(* A window that is opened: the slot is replaced, added last, or added when *)
(* the oldest goes; only that one's refusals are let go.                    *)
Lets(W, V, s, out) ==
  /\ Windowed(V) /\ Owed(V, s) = 0 /\ out[s] = 0
  /\ \A t \in Sources \ {s} : out[t] \in Nat /\ Owed(V, t) + out[t] = Owed(W, t)

LEMMA NewSlot ==
  ASSUME NEW V, Windowed(V), NEW s, NEW j \in DOMAIN V, V[j].source = s, V[j].count = 1
  PROVE  Owed(V, s) = 0
<1>1. Owed(V, V[j].source) = V[j].count - 1
  BY OneSlot
<1> QED BY <1>1

LEMMA Replaced ==
  ASSUME NEW W, Windowed(W), NEW i \in DOMAIN W, NEW x \in Slots,
         x.source = W[i].source, x.count = 1
  PROVE  LET V == [W EXCEPT ![i] = x]
         IN Lets(W, V, x.source, [t \in Sources |-> 0]) /\ Len(V) = Len(W)
<1> DEFINE V == [W EXCEPT ![i] = x]
           s == x.source
<1>1. /\ V \in Seq(Slots) /\ Len(V) = Len(W) /\ DOMAIN V = DOMAIN W
      /\ V[i] = x /\ \A k \in DOMAIN W : k # i => V[k] = W[k]
  BY DEF Windowed
<1> HIDE DEF V
<1>2. \A k \in DOMAIN W : V[k].source = W[k].source
  BY <1>1
<1>3. Windowed(V)
  BY <1>1, <1>2 DEF Windowed
<1>4. Owed(V, s) = 0
  BY <1>1, <1>3, NewSlot
<1>5. ASSUME NEW t \in Sources \ {s} PROVE Owed(V, t) = Owed(W, t)
  BY <1>1, <1>2, <1>3, <1>5, OwedElsewhere
<1>6. \A t : Owed(W, t) \in Nat
  BY OwedIs
<1>7. s \in Sources
  BY DEF Slots
<1>8. Lets(W, V, s, [t \in Sources |-> 0])
  BY <1>3, <1>4, <1>5, <1>6, <1>7 DEF Lets
<1> QED BY <1>1, <1>8 DEF V

LEMMA AddedLast ==
  ASSUME NEW W, Windowed(W), NEW x \in Slots, x.count = 1, Len(W) < MAX_SLOTS,
         \A i \in DOMAIN W : W[i].source # x.source
  PROVE  Lets(W, Append(W, x), x.source, [t \in Sources |-> 0])
<1> DEFINE V == Append(W, x)
           s == x.source
           n == Len(W)
<1>1. W \in Seq(Slots) /\ n \in Nat /\ DOMAIN W = 1..n
  BY DEF Windowed
<1>2. /\ V \in Seq(Slots) /\ Len(V) = n + 1 /\ DOMAIN V = 1..n + 1
      /\ V[n + 1] = x /\ \A k \in 1..n : V[k] = W[k]
  BY <1>1
<1> HIDE DEF V, n
<1>3. \A k \in 1..n + 1 : k \in 1..n \/ k = n + 1
  BY <1>1
<1>4. Windowed(V)
  <2>1. Len(V) <= MAX_SLOTS
    BY <1>1, <1>2 DEF n
  <2>2. ASSUME NEW k \in DOMAIN V, NEW j \in DOMAIN V, V[k].source = V[j].source PROVE k = j
    <3>1. CASE k \in 1..n /\ j \in 1..n
      BY <1>1, <1>2, <2>2, <3>1 DEF Windowed
    <3>2. CASE k = n + 1 /\ j \in 1..n
      BY <1>1, <1>2, <2>2, <3>2
    <3>3. CASE k \in 1..n /\ j = n + 1
      BY <1>1, <1>2, <2>2, <3>3
    <3> QED BY <1>2, <1>3, <3>1, <3>2, <3>3
  <2> QED BY <1>2, <2>1, <2>2 DEF Windowed
<1>5. n + 1 \in 1..n + 1 /\ 1..n \subseteq 1..n + 1
  BY <1>1
<1>6. Owed(V, s) = 0
  BY <1>2, <1>4, <1>5, NewSlot
<1>7. ASSUME NEW t \in Sources \ {s} PROVE Owed(V, t) = Owed(W, t)
  <2>1. ASSUME NEW k \in DOMAIN W, W[k].source = t
        PROVE  \E j \in DOMAIN V : V[j].source = t /\ V[j].count = W[k].count
    BY <1>1, <1>2, <1>5, <2>1
  <2>2. ASSUME NEW j \in DOMAIN V, V[j].source = t PROVE \E k \in DOMAIN W : W[k].source = t
    BY <1>1, <1>2, <1>3, <2>2
  <2> QED BY <1>4, <2>1, <2>2, OwedSame
<1>8. \A t : Owed(W, t) \in Nat
  BY OwedIs
<1>9. s \in Sources
  BY DEF Slots
<1>10. Lets(W, V, s, [t \in Sources |-> 0])
  BY <1>4, <1>6, <1>7, <1>8, <1>9 DEF Lets
<1> QED BY <1>10 DEF V

LEMMA OldestGone ==
  ASSUME NEW W, Windowed(W), NEW x \in Slots, x.count = 1, Len(W) = MAX_SLOTS,
         \A i \in DOMAIN W : W[i].source # x.source
  PROVE  Lets(W, Tail(Append(W, x)), x.source,
              [t \in Sources |-> IF W[1].source = t THEN W[1].count - 1 ELSE 0])
<1> DEFINE V == Tail(Append(W, x))
           s == x.source
           n == Len(W)
           out == [t \in Sources |-> IF W[1].source = t THEN W[1].count - 1 ELSE 0]
<1>1. W \in Seq(Slots) /\ n \in Nat \ {0} /\ DOMAIN W = 1..n /\ 1 \in DOMAIN W
  BY DEF Windowed
<1>2. /\ V \in Seq(Slots) /\ Len(V) = n /\ DOMAIN V = 1..n
      /\ V[n] = x /\ \A k \in 1..n : k # n => V[k] = W[k + 1]
  <2> DEFINE A == Append(W, x)
  <2>1. /\ A \in Seq(Slots) /\ Len(A) = n + 1 /\ A[n + 1] = x /\ \A k \in 1..n : A[k] = W[k]
    BY <1>1
  <2> HIDE DEF A
  <2>2. /\ Tail(A) \in Seq(Slots) /\ Len(Tail(A)) = n /\ \A k \in 1..n : Tail(A)[k] = A[k + 1]
    BY <1>1, <2>1
  <2>3. ASSUME NEW k \in 1..n, k # n PROVE k + 1 \in 1..n
    BY <1>1, <2>3
  <2>4. n \in 1..n
    BY <1>1
  <2>5. Tail(A)[n] = x /\ \A k \in 1..n : k # n => Tail(A)[k] = W[k + 1]
    BY <2>1, <2>2, <2>3, <2>4
  <2>6. DOMAIN Tail(A) = 1..n
    BY <2>2
  <2> QED BY <2>2, <2>5, <2>6 DEF A
<1> HIDE DEF V, n
<1>3. \A k \in 1..n : k # n => k + 1 \in 1..n
  BY <1>1
<1>4. Windowed(V)
  <2>1. Len(V) <= MAX_SLOTS
    BY <1>2 DEF n
  <2>2. ASSUME NEW k \in DOMAIN V, NEW j \in DOMAIN V, V[k].source = V[j].source PROVE k = j
    <3>1. CASE k # n /\ j # n
      <4>1. W[k + 1].source = W[j + 1].source /\ k + 1 \in DOMAIN W /\ j + 1 \in DOMAIN W
        BY <1>1, <1>2, <1>3, <2>2, <3>1
      <4>2. k + 1 = j + 1
        BY <4>1 DEF Windowed
      <4> QED BY <1>1, <1>2, <4>2
    <3>2. CASE k = n /\ j # n
      BY <1>1, <1>2, <1>3, <2>2, <3>2
    <3>3. CASE k # n /\ j = n
      BY <1>1, <1>2, <1>3, <2>2, <3>3
    <3> QED BY <3>1, <3>2, <3>3
  <2> QED BY <1>2, <2>1, <2>2 DEF Windowed
<1>5. n \in DOMAIN V
  BY <1>1, <1>2
<1>6. Owed(V, s) = 0
  BY <1>2, <1>4, <1>5, NewSlot
<1>7. /\ \A t : Owed(W, t) \in Nat
      /\ Owed(W, W[1].source) = W[1].count - 1
  BY <1>1, OwedIs, OneSlot
<1>8. ASSUME NEW t \in Sources \ {s}, t # W[1].source PROVE Owed(V, t) = Owed(W, t)
  <2>1. ASSUME NEW k \in DOMAIN W, W[k].source = t
        PROVE  \E j \in DOMAIN V : V[j].source = t /\ V[j].count = W[k].count
    <3>1. k # 1
      BY <1>8, <2>1
    <3>2. k - 1 \in 1..n /\ k - 1 # n /\ (k - 1) + 1 = k
      BY <1>1, <3>1
    <3>3. V[k - 1] = W[k]
      BY <1>2, <3>2
    <3> QED BY <1>2, <2>1, <3>2, <3>3
  <2>2. ASSUME NEW j \in DOMAIN V, V[j].source = t PROVE \E k \in DOMAIN W : W[k].source = t
    <3>1. j # n
      BY <1>2, <1>8, <2>2
    <3> QED BY <1>1, <1>2, <1>3, <2>2, <3>1
  <2> QED BY <1>4, <2>1, <2>2, OwedSame
<1>9. Owed(V, W[1].source) = 0
  <2>1. ASSUME NEW j \in DOMAIN V PROVE V[j].source # W[1].source
    <3>1. CASE j = n
      BY <1>1, <1>2, <3>1
    <3>2. CASE j # n
      <4>1. V[j] = W[j + 1] /\ j + 1 \in DOMAIN W /\ j + 1 # 1
        BY <1>1, <1>2, <1>3, <3>2
      <4> QED BY <1>1, <4>1 DEF Windowed
    <3> QED BY <3>1, <3>2
  <2> QED BY <2>1, NoSlot
<1>10. s \in Sources /\ W[1].source # s
  BY <1>1 DEF Slots
<1>11. ASSUME NEW t \in Sources \ {s} PROVE out[t] \in Nat /\ Owed(V, t) + out[t] = Owed(W, t)
  <2>1. CASE t = W[1].source
    BY <1>7, <1>9, <2>1
  <2>2. CASE t # W[1].source
    <3>1. out[t] = 0 /\ Owed(V, t) = Owed(W, t) /\ Owed(W, t) \in Nat
      BY <1>7, <1>8, <2>2
    <3> QED BY <3>1
  <2> QED BY <2>1, <2>2
<1>12. out[s] = 0
  BY <1>10
<1> HIDE DEF out
<1>13. Lets(W, V, s, out)
  BY <1>4, <1>6, <1>11, <1>12 DEF Lets
<1> QED BY <1>13 DEF V, out

LEMMA Opened ==
  ASSUME ReviewsInv, NEW s \in Sources
  PROVE  Lets(authWindow, opened(s), s, [t \in Sources |-> pushedOut(s, t)])
<1> DEFINE x == [source |-> s, since |-> minutes, count |-> 1]
<1>1. Windowed(authWindow) /\ x \in Slots /\ x.source = s /\ x.count = 1
  BY DEF ReviewsInv, Slots
<1>2. slotOf(s) = SlotsOf(authWindow, s)
  BY DEF slotOf, SlotsOf
<1>3. authWindow \in Seq(Slots) /\ Len(authWindow) \in Nat /\ Len(authWindow) <= MAX_SLOTS
  BY <1>1 DEF Windowed
<1>4. CASE \E i \in DOMAIN authWindow : authWindow[i].source = s
  <2>1. PICK i \in DOMAIN authWindow : authWindow[i].source = s
    BY <1>4
  <2>2. slotOf(s) = {i} /\ Max({i}) = i
    BY <1>1, <1>2, <2>1, OneSlot
  <2> DEFINE V == [authWindow EXCEPT ![i] = x]
  <2>3. Lets(authWindow, V, x.source, [t \in Sources |-> 0]) /\ Len(V) = Len(authWindow)
    <3> HIDE DEF x
    <3> QED BY <1>1, <2>1, Replaced
  <2>4. opened(s) = V
    <3>1. opened(s) = IF Len(V) > MAX_SLOTS THEN Tail(V) ELSE V
      BY <2>2 DEF opened
    <3>2. ~(Len(V) > MAX_SLOTS)
      BY <1>3, <2>3
    <3> QED BY <3>1, <3>2
  <2>5. [t \in Sources |-> pushedOut(s, t)] = [t \in Sources |-> 0]
    BY <2>2 DEF pushedOut
  <2> QED BY <1>1, <2>3, <2>4, <2>5
<1>5. CASE \A i \in DOMAIN authWindow : authWindow[i].source # s
  <2>1. slotOf(s) = {}
    BY <1>2, <1>5, NoSlot
  <2>2. Len(Append(authWindow, x)) = Len(authWindow) + 1
    BY <1>1, <1>3
  <2>3. CASE Len(authWindow) < MAX_SLOTS
    <3>1. Lets(authWindow, Append(authWindow, x), x.source, [t \in Sources |-> 0])
      <4> HIDE DEF x
      <4> QED BY <1>1, <1>5, <2>3, AddedLast
    <3>2. opened(s) = Append(authWindow, x)
      BY <1>3, <2>1, <2>2, <2>3 DEF opened
    <3>3. [t \in Sources |-> pushedOut(s, t)] = [t \in Sources |-> 0]
      BY <1>3, <2>3 DEF pushedOut
    <3> QED BY <1>1, <3>1, <3>2, <3>3
  <2>4. CASE Len(authWindow) = MAX_SLOTS
    <3>1. Lets(authWindow, Tail(Append(authWindow, x)), x.source,
               [t \in Sources |-> IF authWindow[1].source = t THEN authWindow[1].count - 1 ELSE 0])
      <4> HIDE DEF x
      <4> QED BY <1>1, <1>5, <2>4, OldestGone
    <3>2. opened(s) = Tail(Append(authWindow, x))
      BY <1>3, <2>1, <2>2, <2>4 DEF opened
    <3>3. [t \in Sources |-> pushedOut(s, t)]
            = [t \in Sources |-> IF authWindow[1].source = t THEN authWindow[1].count - 1 ELSE 0]
      BY <2>1, <2>4 DEF pushedOut
    <3> QED BY <1>1, <3>1, <3>2, <3>3
  <2> QED BY <1>3, <2>3, <2>4
<1> QED BY <1>4, <1>5

-----------------------------------------------------------------------------
(* What each action keeps.                                                  *)
Keep ==
  /\ GoodLog(auditEvents') /\ \A s \in Sources : Counting(auditEvents, s)' = Counting(auditEvents, s)
  /\ UNCHANGED <<authWindow, refusals, forgotten>> /\ minutes' \in Nat

LEMMA KeptIsEnough == ReviewsInv /\ Keep => ReviewsInv'
<1> SUFFICES ASSUME ReviewsInv, Keep PROVE ReviewsInv'
  OBVIOUS
<1>1. /\ GoodLog(auditEvents)' /\ Windowed(authWindow)' /\ minutes' \in Nat
      /\ refusals' \in [Sources -> Nat] /\ forgotten' \in [Sources -> Nat]
  BY DEF ReviewsInv, Keep
<1>2. ASSUME NEW s \in Sources
      PROVE  refusals'[s] = forgotten'[s] + Owed(authWindow, s)' + Counting(auditEvents, s)'
  <2>1. Owed(authWindow, s)' = Owed(authWindow, s)
    BY DEF Keep, Owed, SlotsOf
  <2> QED BY <2>1 DEF ReviewsInv, Keep
<1> QED BY <1>1, <1>2 DEF ReviewsInv

LEMMA ReviewIs ==
  ASSUME NEW e \in Nat, NEW d \in {"closes", "escalated"}
  PROVE  Quiet([event("review", {}) EXCEPT !.target = e, !.decision = d])
<1> DEFINE b == event("review", {})
           x == [b EXCEPT !.target = e, !.decision = d]
<1>1. b \in Events /\ b.type = "review"
  BY EventIs DEF event
<1> HIDE DEF b
<1>2. x \in Events /\ x.type = "review"
  BY <1>1 DEF Events
<1> HIDE DEF x
<1>3. Quiet(x)
  BY <1>2 DEF Quiet, Logged
<1> QED BY <1>3 DEF x, b

LEMMA OneAppended ==
  ASSUME ReviewsInv, NEW x, Quiet(x), Appended(<<x>>),
         UNCHANGED <<authWindow, refusals, forgotten, minutes>>
  PROVE  Keep
<1>1. GoodLog(auditEvents) /\ auditEvents' = auditEvents \o <<x>> /\ minutes \in Nat
  BY DEF ReviewsInv, Appended
<1>2. GoodLog(auditEvents \o <<x>>) /\ \A s : Counting(auditEvents \o <<x>>, s) = Counting(auditEvents, s)
  BY <1>1, QuietOne
<1>3. \A s \in Sources : Counting(auditEvents, s)' = Counting(auditEvents, s)
  BY <1>1, <1>2
<1> QED BY <1>1, <1>2, <1>3 DEF Keep

LEMMA KeptByMost ==
  ASSUME ReviewsInv,
         recordModelCall \/ recordBlocked \/ recordAdmin \/ reviewEvent \/ Later \/ UNCHANGED reviewsVars
  PROVE  Keep
<1>1. CASE recordModelCall
  <2>1. PICK m \in RuleModes, n \in RuleModes :
           \/ Appended(<<event("model.call", m)>>)
           \/ Appended(<<event("tool.result", m), event("model.call", {}), event("tool.call", n)>>)
    BY <1>1 DEF recordModelCall
  <2>2. UNCHANGED <<authWindow, refusals, forgotten, minutes>>
    BY <1>1 DEF recordModelCall
  <2>3. /\ Quiet(event("model.call", m)) /\ Quiet(event("tool.result", m))
        /\ Quiet(event("model.call", {})) /\ Quiet(event("tool.call", n))
    BY EventIs
  <2>4. CASE Appended(<<event("model.call", m)>>)
    BY <2>2, <2>3, <2>4, OneAppended
  <2>5. CASE Appended(<<event("tool.result", m), event("model.call", {}), event("tool.call", n)>>)
    <3> DEFINE F == auditEvents \o <<event("tool.result", m), event("model.call", {}), event("tool.call", n)>>
    <3>1. GoodLog(auditEvents) /\ auditEvents' = F /\ minutes \in Nat
      BY <2>5 DEF ReviewsInv, Appended
    <3>2. GoodLog(F) /\ \A s : Counting(F, s) = Counting(auditEvents, s)
      BY <2>3, <3>1, QuietThree
    <3> HIDE DEF F
    <3>3. \A s \in Sources : Counting(auditEvents, s)' = Counting(auditEvents, s)
      BY <3>1, <3>2
    <3> QED BY <2>2, <3>1, <3>2, <3>3 DEF Keep
  <2> QED BY <2>1, <2>4, <2>5
<1>2. CASE recordBlocked
  <2>1. Quiet(event("model.blocked", {"flag"}))
    BY EventIs
  <2> QED BY <1>2, <2>1, OneAppended DEF recordBlocked
<1>3. CASE recordAdmin
  <2>1. Quiet(event("admin.change", {}))
    BY EventIs
  <2>2. minutes' = minutes
    BY <1>3 DEF recordAdmin
  <2> QED BY <1>3, <2>1, <2>2, OneAppended DEF recordAdmin
<1>4. CASE reviewEvent
  <2>1. PICK e \in DOMAIN auditEvents, d \in {"closes", "escalated"} :
           Appended(<<[event("review", {}) EXCEPT !.target = e, !.decision = d]>>)
    BY <1>4 DEF reviewEvent
  <2>2. e \in Nat
    BY DEF ReviewsInv, GoodLog
  <2>3. Quiet([event("review", {}) EXCEPT !.target = e, !.decision = d])
    BY <2>2, ReviewIs
  <2> QED BY <1>4, <2>1, <2>3, OneAppended DEF reviewEvent
<1>5. CASE Later \/ UNCHANGED reviewsVars
  <2>1. UNCHANGED <<auditEvents, authWindow, refusals, forgotten>> /\ minutes' \in Nat
    BY <1>5 DEF Later, reviewsVars, ReviewsInv
  <2>2. \A s \in Sources : Counting(auditEvents, s)' = Counting(auditEvents, s)
    BY <2>1 DEF Counting, Counts
  <2>3. GoodLog(auditEvents')
    BY <2>1 DEF ReviewsInv, GoodLog
  <2> QED BY <2>1, <2>2, <2>3 DEF Keep
<1> QED BY <1>1, <1>2, <1>3, <1>4, <1>5

(* A failed authentication: its window counts it, its event does, or the    *)
(* append failed and it is let go with what the window had.                 *)
LEMMA RefusalIs ==
  ASSUME NEW s \in Sources, NEW n \in Nat
  PROVE  LET x == [event("auth.failed", {"flag"}) EXCEPT !.source = s, !.suppressed = n]
         IN Logged(x) /\ Counts(x, s) = n + 1 /\ \A t \in Sources \ {s} : Counts(x, t) = 0
<1> DEFINE b == event("auth.failed", {"flag"})
           x == [b EXCEPT !.source = s, !.suppressed = n]
<1>1. b \in Events /\ b.type = "auth.failed" /\ b.target = NoTarget
  BY EventIs DEF event
<1> HIDE DEF b
<1>2. x \in Events /\ x.type = "auth.failed" /\ x.target = NoTarget /\ x.source = s /\ x.suppressed = n
  BY <1>1 DEF Events
<1> HIDE DEF x
<1>3. Logged(x) /\ Counts(x, s) = n + 1 /\ \A t \in Sources \ {s} : Counts(x, t) = 0
  BY <1>2 DEF Logged, Counts
<1> QED BY <1>3 DEF x, b

OneCounted(W, V, i) ==
  V = [j \in DOMAIN W |-> IF j = i THEN [W[j] EXCEPT !.count = @ + 1] ELSE W[j]]

LEMMA CountedInItsWindow ==
  ASSUME NEW W, Windowed(W), NEW i \in DOMAIN W, NEW V, OneCounted(W, V, i)
  PROVE  /\ Windowed(V) /\ Owed(V, W[i].source) = Owed(W, W[i].source) + 1
         /\ \A t : t # W[i].source => Owed(V, t) = Owed(W, t)
<1> DEFINE s == W[i].source
           y == [W[i] EXCEPT !.count = @ + 1]
<1>1. W \in Seq(Slots) /\ Len(W) \in Nat /\ DOMAIN W = 1..Len(W) /\ Len(W) <= MAX_SLOTS
  BY DEF Windowed
<1>2. \A k \in DOMAIN W : W[k] \in Slots
  BY <1>1
<1>3. y \in Slots /\ y.source = s /\ y.count = W[i].count + 1 /\ W[i].count \in Nat
  BY <1>2 DEF Slots
<1>4. V[i] = y /\ \A k \in DOMAIN W : k # i => V[k] = W[k]
  BY DEF OneCounted
<1>5. /\ V \in Seq(Slots) /\ Len(V) = Len(W) /\ DOMAIN V = DOMAIN W
  <2>1. \A k \in DOMAIN W : V[k] \in Slots
    BY <1>2, <1>3, <1>4
  <2>2. V = [k \in 1..Len(W) |-> V[k]]
    BY <1>1 DEF OneCounted
  <2> QED BY <1>1, <2>1, <2>2
<1> HIDE DEF y
<1>6. \A k \in DOMAIN W : V[k].source = W[k].source
  BY <1>3, <1>4
<1>7. Windowed(V)
  BY <1>1, <1>5, <1>6 DEF Windowed
<1>8. Owed(W, W[i].source) = W[i].count - 1 /\ Owed(V, V[i].source) = V[i].count - 1
  BY <1>5, <1>7, OneSlot
<1>9. ASSUME NEW t, t # s PROVE Owed(V, t) = Owed(W, t)
  BY <1>4, <1>5, <1>6, <1>7, <1>9, OwedElsewhere
<1> QED BY <1>3, <1>4, <1>7, <1>8, <1>9

LEMMA SuppressedIsOwed == \A s : suppressed(s) = Owed(authWindow, s)
  BY DEF suppressed, Owed, slotOf, SlotsOf

LEMMA RefusalsStayCounted ==
  ASSUME ReviewsInv, NEW s \in Sources, recordAuthFailure(s)
  PROVE  ReviewsInv'
<1> DEFINE owed(t) == Owed(authWindow, t)
           seen(t) == Counting(auditEvents, t)
           out == [t \in Sources |-> pushedOut(s, t)]
<1>1. /\ GoodLog(auditEvents) /\ Windowed(authWindow) /\ minutes \in Nat
      /\ refusals \in [Sources -> Nat] /\ forgotten \in [Sources -> Nat]
      /\ \A t \in Sources : refusals[t] = forgotten[t] + owed(t) + seen(t)
  BY DEF ReviewsInv
<1>2. /\ refusals' = [refusals EXCEPT ![s] = @ + 1] /\ minutes' = minutes
  BY DEF recordAuthFailure
<1>3. \A t \in Sources : owed(t) \in Nat /\ seen(t) \in Nat
  <2>1. auditEvents \in Seq(Events)
    BY <1>1 DEF GoodLog
  <2>2. event("review", {}) \in Events
    BY EventIs
  <2>3. \A t : Counting(auditEvents, t) \in Nat
    BY <2>1, <2>2, CountingAppend
  <2> QED BY <1>1, <2>3, OwedIs
<1>4. ASSUME /\ \E i \in slotOf(s) : minutes - authWindow[i].since < WINDOW_MS
             /\ authWindow' = [i \in DOMAIN authWindow |->
                  IF i \in slotOf(s) THEN [authWindow[i] EXCEPT !.count = @ + 1] ELSE authWindow[i]]
             /\ UNCHANGED <<auditEvents, forgotten>>
      PROVE  ReviewsInv'
  <2>1. PICK i \in DOMAIN authWindow : authWindow[i].source = s
    BY <1>4 DEF slotOf
  <2>2. slotOf(s) = {i}
    BY <1>1, <2>1, OneSlot DEF slotOf, SlotsOf
  <2>3. authWindow' = [j \in DOMAIN authWindow |->
                         IF j = i THEN [authWindow[j] EXCEPT !.count = @ + 1] ELSE authWindow[j]]
    BY <1>4, <2>2
  <2>4. /\ Windowed(authWindow') /\ Owed(authWindow', s) = owed(s) + 1
        /\ \A t : t # s => Owed(authWindow', t) = owed(t)
    <3>1. OneCounted(authWindow, authWindow', i)
      BY <2>3 DEF OneCounted
    <3> QED BY <1>1, <2>1, <3>1, CountedInItsWindow
  <2>5. \A t \in Sources : Counting(auditEvents, t)' = seen(t)
    BY <1>4 DEF Counting, Counts
  <2>6. ASSUME NEW t \in Sources
        PROVE  refusals'[t] = forgotten'[t] + Owed(authWindow', t) + Counting(auditEvents, t)'
    <3> HIDE DEF owed, seen
    <3>1. CASE t = s
      BY <1>1, <1>2, <1>3, <1>4, <2>4, <2>5, <3>1
    <3>2. CASE t # s
      BY <1>1, <1>2, <1>3, <1>4, <2>4, <2>5, <3>2
    <3> QED BY <3>1, <3>2
  <2>7. GoodLog(auditEvents')
    BY <1>1, <1>4 DEF GoodLog
  <2>8. refusals' \in [Sources -> Nat] /\ forgotten' \in [Sources -> Nat]
    BY <1>1, <1>2, <1>4
  <2> QED BY <1>1, <1>2, <2>4, <2>6, <2>7, <2>8 DEF ReviewsInv
<1> DEFINE x == authFailed(s)
<1>5. suppressed(s) = owed(s) /\ owed(s) \in Nat
  BY <1>3, SuppressedIsOwed
<1>6. Logged(x) /\ Counts(x, s) = owed(s) + 1 /\ \A t \in Sources \ {s} : Counts(x, t) = 0
  <2> HIDE DEF owed
  <2>1. suppressed(s) \in Nat
    BY <1>5
  <2>2. Logged(x) /\ Counts(x, s) = suppressed(s) + 1 /\ \A t \in Sources \ {s} : Counts(x, t) = 0
    BY <2>1, RefusalIs DEF authFailed
  <2> QED BY <1>5, <2>2
<1>7. Lets(authWindow, opened(s), s, out)
  BY Opened
<1>8. ASSUME authWindow' = opened(s)
      PROVE  /\ Windowed(authWindow') /\ Owed(authWindow', s) = 0 /\ out[s] = 0
             /\ \A t \in Sources \ {s} : out[t] \in Nat /\ Owed(authWindow', t) + out[t] = owed(t)
  BY <1>7, <1>8 DEF Lets
<1>9. \A t \in Sources : pushedOut(s, t) = out[t]
  OBVIOUS
<1> HIDE DEF x, out
<1>10. ASSUME authWindow' = opened(s), Appended(<<x>>),
              forgotten' = [t \in Sources |-> forgotten[t] + pushedOut(s, t)]
       PROVE  ReviewsInv'
  <2>1. auditEvents' = auditEvents \o <<x>>
    BY <1>10 DEF Appended
  <2>2. /\ GoodLog(auditEvents')
        /\ \A t : Counting(auditEvents', t) = seen(t) + Counts(x, t)
    <3>1. /\ GoodLog(Append(auditEvents, x)) /\ auditEvents \o <<x>> = Append(auditEvents, x)
          /\ \A t : /\ Counting(auditEvents, t) \in Nat
                    /\ Counting(Append(auditEvents, x), t) = Counting(auditEvents, t) + Counts(x, t)
      BY <1>1, <1>6, LogGrows
    <3> QED BY <2>1, <3>1
  <2>3. /\ Windowed(authWindow') /\ Owed(authWindow', s) = 0 /\ out[s] = 0
        /\ \A t \in Sources \ {s} : out[t] \in Nat /\ Owed(authWindow', t) + out[t] = owed(t)
    BY <1>8, <1>10
  <2>4. \A t \in Sources : Owed(authWindow', t) \in Nat
    BY <2>3, OwedIs
  <2>5. ASSUME NEW t \in Sources
        PROVE  /\ refusals'[t] = forgotten'[t] + Owed(authWindow', t) + Counting(auditEvents', t)
               /\ refusals'[t] \in Nat /\ forgotten'[t] \in Nat
    <3> HIDE DEF owed, seen
    <3>1. CASE t = s
      BY <1>1, <1>2, <1>3, <1>6, <1>9, <1>10, <2>2, <2>3, <3>1
    <3>2. CASE t # s
      <4>1. /\ refusals'[t] = refusals[t] /\ forgotten'[t] = forgotten[t] + out[t]
            /\ Counting(auditEvents', t) = seen(t) /\ out[t] \in Nat
            /\ Owed(authWindow', t) + out[t] = owed(t)
        BY <1>1, <1>2, <1>3, <1>6, <1>9, <1>10, <2>2, <2>3, <3>2
      <4> QED BY <1>1, <1>3, <2>4, <4>1
    <3> QED BY <3>1, <3>2
  <2>6. refusals' \in [Sources -> Nat] /\ forgotten' \in [Sources -> Nat]
    BY <1>1, <1>2, <1>10, <2>5
  <2> QED BY <1>1, <1>2, <2>2, <2>3, <2>5, <2>6 DEF ReviewsInv
<1>11. ASSUME authWindow' = opened(s), UNCHANGED auditEvents,
              forgotten' = [t \in Sources |-> forgotten[t] + pushedOut(s, t)
                                                + IF t = s THEN suppressed(s) + 1 ELSE 0]
       PROVE  ReviewsInv'
  <2>1. GoodLog(auditEvents') /\ \A t : Counting(auditEvents', t) = seen(t)
    BY <1>1, <1>11
  <2>2. /\ Windowed(authWindow') /\ Owed(authWindow', s) = 0 /\ out[s] = 0
        /\ \A t \in Sources \ {s} : out[t] \in Nat /\ Owed(authWindow', t) + out[t] = owed(t)
    BY <1>8, <1>11
  <2>3. \A t \in Sources : Owed(authWindow', t) \in Nat
    BY <2>2, OwedIs
  <2>4. ASSUME NEW t \in Sources
        PROVE  /\ refusals'[t] = forgotten'[t] + Owed(authWindow', t) + Counting(auditEvents', t)
               /\ refusals'[t] \in Nat /\ forgotten'[t] \in Nat
    <3> HIDE DEF owed, seen
    <3>1. CASE t = s
      BY <1>1, <1>2, <1>3, <1>5, <1>9, <1>11, <2>1, <2>2, <3>1
    <3>2. CASE t # s
      <4>1. /\ refusals'[t] = refusals[t] /\ forgotten'[t] = forgotten[t] + out[t]
            /\ Counting(auditEvents', t) = seen(t) /\ out[t] \in Nat
            /\ Owed(authWindow', t) + out[t] = owed(t)
        BY <1>1, <1>2, <1>3, <1>9, <1>11, <2>1, <2>2, <3>2
      <4> QED BY <1>1, <1>3, <2>3, <4>1
    <3> QED BY <3>1, <3>2
  <2>5. refusals' \in [Sources -> Nat] /\ forgotten' \in [Sources -> Nat]
    BY <1>1, <1>2, <1>11, <2>4
  <2> QED BY <1>1, <1>2, <2>1, <2>2, <2>4, <2>5 DEF ReviewsInv
<1> QED BY <1>4, <1>10, <1>11 DEF recordAuthFailure, x

LEMMA ReviewsNextInv == ReviewsInv /\ [ReviewsNext]_reviewsVars => ReviewsInv'
<1> SUFFICES ASSUME ReviewsInv, [ReviewsNext]_reviewsVars PROVE ReviewsInv'
  OBVIOUS
<1>1. CASE \E s \in Sources : recordAuthFailure(s)
  BY <1>1, RefusalsStayCounted
<1>2. CASE recordModelCall \/ recordBlocked \/ recordAdmin \/ reviewEvent \/ Later \/ UNCHANGED reviewsVars
  BY <1>2, KeptByMost, KeptIsEnough
<1> QED BY <1>1, <1>2 DEF ReviewsNext

(* The review that decides is the latest, and what names the event after it *)
(* would be a review of it.                                                 *)
LEMMA ClosedStaysClosed ==
  ASSUME GoodLog(auditEvents), NEW e \in DOMAIN auditEvents, closed(e)
  PROVE  \E r \in reviewsOf(e) : auditEvents[r].decision = "closes"
           /\ \A later \in r + 1 .. Len(auditEvents) :
                ~(auditEvents[later].target = e /\ auditEvents[later].decision = "escalated")
<1> DEFINE S == reviewsOf(e)
           n == Len(auditEvents)
           r == Max(S)
<1>1. n \in Nat /\ DOMAIN auditEvents = 1..n /\ \A k \in 1..n : Logged(auditEvents[k])
  BY DEF GoodLog
<1>2. S # {} /\ S \subseteq 1..n /\ auditEvents[Max(S)].decision = "closes"
  BY <1>1 DEF closed, reviewsOf
<1>3. r \in S /\ \A k \in S : k <= r
  <2> HIDE DEF S, n
  <2>1. PICK m \in S : \A k \in S : k <= m
    BY <1>1, <1>2, GreatestNumber
  <2>2. S \subseteq Nat
    BY <1>1, <1>2
  <2>3. r \in S /\ \A k \in S : r >= k
    BY <2>1, <2>2 DEF Max
  <2> QED BY <2>2, <2>3
<1>4. ASSUME NEW later \in r + 1 .. n, auditEvents[later].target = e PROVE FALSE
  <2>1. r \in Nat /\ later \in 1..n /\ later > r
    BY <1>1, <1>2, <1>3
  <2>2. e # NoTarget
    BY <1>1 DEF NoTarget
  <2>3. auditEvents[later].type = "review"
    BY <1>1, <1>4, <2>1, <2>2 DEF Logged
  <2>4. later \in S
    BY <1>1, <1>4, <2>1, <2>3 DEF reviewsOf
  <2> QED BY <1>3, <2>1, <2>4
<1>5. r \in reviewsOf(e) /\ auditEvents[r].decision = "closes"
  BY <1>2, <1>3
<1> HIDE DEF r
<1> QED BY <1>4, <1>5

(* Every failed authentication that auditing met is counted once, and what  *)
(* is flagged waits until somebody closes it (audit/index.js,               *)
(* recordAuthFailure, reviewQueue).                                         *)
THEOREM NothingFlaggedGoesMissing == ReviewsSpec => []NothingFlaggedIsLost
<1>1. ReviewsInv => NothingFlaggedIsLost
  <2> SUFFICES ASSUME ReviewsInv PROVE NothingFlaggedIsLost
    OBVIOUS
  <2>1. \A s \in Sources : accounted(s) = Counting(auditEvents, s)
    BY DEF accounted, countedBy, Counting, Counts
  <2>2. \A s \in Sources : refusals[s] = forgotten[s] + suppressed(s) + accounted(s)
    BY <2>1, SuppressedIsOwed DEF ReviewsInv
  <2>3. ASSUME NEW e \in DOMAIN auditEvents, auditEvents[e].flagged, e \notin reviewQueue
        PROVE  closed(e)
    BY <2>3 DEF reviewQueue
  <2>4. GoodLog(auditEvents)
    BY DEF ReviewsInv
  <2>5. ASSUME NEW e \in DOMAIN auditEvents, auditEvents[e].flagged, e \notin reviewQueue
        PROVE  \E r \in reviewsOf(e) : auditEvents[r].decision = "closes"
                 /\ \A later \in r + 1 .. Len(auditEvents) :
                      ~(auditEvents[later].target = e /\ auditEvents[later].decision = "escalated")
    BY <2>3, <2>4, <2>5, ClosedStaysClosed
  <2> QED BY <2>2, <2>5 DEF NothingFlaggedIsLost
<1> QED BY <1>1, ReviewsInitInv, ReviewsNextInv, PTL DEF ReviewsSpec

HIDE ReviewsAssumption

-----------------------------------------------------------------------------
(* The processes of a machine: what explains one in the audit log.          *)
USE CorrelationAssumption

(* An entry and what it may be explained by.                                *)
Causes == Commands \cup {NoAction}
Process ==
  [pid : Pids, parent : Nat, kind : {"runtime", "helper", "tool"}, command : Commands \cup {NoCommand}]
Entry ==
  [of : Nat, pid : Pids, ppid : Nat, kind : {"runtime", "helper", "tool"},
   command : Commands \cup {NoCommand}, explainedBy : Causes]

(* The processes there were, each begun by an earlier one.                  *)
World(p) == p \in Seq(Process) /\ \A i \in DOMAIN p : p[i].parent < i

(* Of a process of p: the pid of its parent, where it comes from, whether   *)
(* it is cut off from there, and whether it came by an explanation rightly. *)
Parent(p, i) == IF p[i].parent = 0 THEN 0 ELSE p[p[i].parent].pid
Shut(p, S) == \A i \in S : p[i].parent # 0 => p[i].parent \in S
Lineage(p, i) == {j \in DOMAIN p : \A S \in SUBSET DOMAIN p : i \in S /\ Shut(p, S) => j \in S}
Lost(p, i, n) ==
  \E a \in Lineage(p, i) \ {i}, j \in 1..n : j > a /\ p[j].pid = p[a].pid
Came(p, by, i) == \E j \in Lineage(p, i) : p[j].command = by

(* The first h processes are in the table, if they have not been forgotten: *)
(* an entry is of the last of them that had its pid, or of a later one that *)
(* a snapshot had, whose explanation may still be that of another.          *)
Fits(p, e) ==
  /\ e.of \in DOMAIN p
  /\ e.pid = p[e.of].pid /\ e.ppid = Parent(p, e.of) /\ e.command = p[e.of].command
Honest(p, e, h) ==
  \/ e.explainedBy = NoAction \/ e.of > h
  \/ Lost(p, e.of, Len(p)) \/ Came(p, e.explainedBy, e.of)
Latest(p, e, h) == \A j \in 1..h : p[j].pid = e.pid => j <= e.of
Holds(p, e, h) == Fits(p, e) /\ Honest(p, e, h) /\ Latest(p, e, h)
Apart(t) == \A k, l \in DOMAIN t : t[k].pid = t[l].pid => k = l
Stored(p, t, h) == t \in Seq(Entry) /\ Apart(t) /\ \A k \in DOMAIN t : Holds(p, t[k], h)

Waiting == \A k \in 1..Len(sensor) : sensor[k] = Len(processes) - Len(sensor) + k
Living ==
  \A i \in alive, j \in DOMAIN processes : processes[j].pid = processes[i].pid => j <= i
Judged(p, v) ==
  /\ v.process \in DOMAIN p
  /\ v.by = NoAction \/ Lost(p, v.process, Len(p)) \/ Came(p, v.by, v.process)

CorrelationInv ==
  /\ World(processes) /\ alive \subseteq DOMAIN processes /\ Living
  /\ sensor \in Seq(Nat) /\ Len(sensor) <= Len(processes) /\ Waiting
  /\ Stored(processes, table, Len(processes) - Len(sensor))
  /\ \A v \in logged : Judged(processes, v)
  /\ actions \subseteq Commands

-----------------------------------------------------------------------------
(* Where a process comes from.                                              *)
LEMMA AnyOf ==
  ASSUME NEW S, NEW s \in Seq(S)
  PROVE  Len(s) \in Nat /\ DOMAIN s = 1..Len(s) /\ \A k \in DOMAIN s : s[k] \in S
OBVIOUS

LEMMA WorldIs ==
  ASSUME NEW p, World(p)
  PROVE  /\ Len(p) \in Nat /\ DOMAIN p = 1..Len(p)
         /\ \A j \in DOMAIN p : p[j] \in Process /\ p[j].parent \in Nat /\ p[j].parent < j
<1>1. Len(p) \in Nat /\ DOMAIN p = 1..Len(p) /\ \A k \in DOMAIN p : p[k] \in Process
  BY AnyOf DEF World
<1>2. \A x \in Process : x.parent \in Nat
  BY DEF Process
<1> QED BY <1>1, <1>2 DEF World

LEMMA LineIs ==
  ASSUME NEW p, World(p), NEW i \in DOMAIN p
  PROVE  /\ i \in Lineage(p, i) /\ Lineage(p, i) \subseteq 1..i
         /\ \A j \in Lineage(p, i) : p[j].parent # 0 => p[j].parent \in Lineage(p, i)
         /\ \A j \in Lineage(p, i) : Lineage(p, j) \subseteq Lineage(p, i)
<1>0. DOMAIN p = 1..Len(p) /\ Len(p) \in Nat
      /\ \A j \in DOMAIN p : p[j].parent \in Nat /\ p[j].parent < j
  BY WorldIs
<1>1. 1..i \in SUBSET DOMAIN p /\ i \in 1..i /\ Shut(p, 1..i)
  BY <1>0 DEF Shut
<1>2. i \in Lineage(p, i) /\ Lineage(p, i) \subseteq 1..i
  BY <1>1 DEF Lineage
<1>3. ASSUME NEW j \in Lineage(p, i), p[j].parent # 0 PROVE p[j].parent \in Lineage(p, i)
  <2>1. p[j].parent \in DOMAIN p
    <3>1. j \in DOMAIN p
      BY DEF Lineage
    <3>2. p[j].parent \in 1..Len(p)
      BY <1>0, <1>3, <3>1
    <3> QED BY <1>0, <3>2
  <2>2. ASSUME NEW S \in SUBSET DOMAIN p, i \in S, Shut(p, S) PROVE p[j].parent \in S
    BY <1>3, <2>2 DEF Lineage, Shut
  <2> QED BY <2>1, <2>2 DEF Lineage
<1>4. ASSUME NEW j \in Lineage(p, i), NEW k \in Lineage(p, j) PROVE k \in Lineage(p, i)
  BY <1>4 DEF Lineage
<1> QED BY <1>2, <1>3, <1>4

(* What is cut off above a process is cut off for it, and what one came by  *)
(* rightly it may have too.                                                 *)
LEMMA LineInherits ==
  ASSUME NEW p, World(p), NEW i \in DOMAIN p, NEW j \in Lineage(p, i), NEW n, NEW by
  PROVE  /\ Came(p, by, j) => Came(p, by, i)
         /\ j # i /\ Lost(p, j, n) => Lost(p, i, n)
<1>1. Lineage(p, j) \subseteq Lineage(p, i) /\ j \in 1..i /\ i \in Nat
  BY LineIs DEF World
<1>2. j # i => i \notin Lineage(p, j)
  <2>1. j \in DOMAIN p
    BY DEF Lineage
  <2>2. Lineage(p, j) \subseteq 1..j
    BY <2>1, LineIs
  <2> QED BY <1>1, <2>2
<1> QED BY <1>1, <1>2 DEF Came, Lost

(* Another process leaves the lines as they are.                            *)
LEMMA LineStays ==
  ASSUME NEW p, World(p), NEW x \in Process, x.parent \in 0..Len(p), NEW i \in DOMAIN p
  PROVE  /\ World(Append(p, x)) /\ Lineage(Append(p, x), i) = Lineage(p, i)
         /\ Parent(Append(p, x), i) = Parent(p, i)
<1> DEFINE q == Append(p, x)
<1>0. /\ Len(p) \in Nat /\ DOMAIN p = 1..Len(p) /\ i \in 1..Len(p)
      /\ \A j \in DOMAIN p : p[j].parent \in Nat /\ p[j].parent < j
  BY WorldIs
<1>1. /\ q \in Seq(Process) /\ Len(q) = Len(p) + 1 /\ DOMAIN q = 1..Len(p) + 1
      /\ \A j \in DOMAIN p : q[j] = p[j]
      /\ q[Len(p) + 1] = x
  BY <1>0 DEF World
<1> HIDE DEF q
<1>2. World(q)
  <2> SUFFICES ASSUME NEW j \in DOMAIN q PROVE q[j].parent < j
    BY <1>1 DEF World
  <2>1. CASE j \in DOMAIN p
    BY <1>0, <1>1, <2>1
  <2>2. CASE j = Len(p) + 1
    BY <1>0, <1>1, <2>2
  <2> QED BY <1>0, <1>1, <2>1, <2>2
<1>3. Shut(q, DOMAIN p) /\ DOMAIN p \in SUBSET DOMAIN q
  BY <1>0, <1>1 DEF Shut
<1>4. ASSUME NEW j \in Lineage(q, i) PROVE j \in Lineage(p, i)
  <2>1. j \in DOMAIN p
    BY <1>3, <1>4 DEF Lineage
  <2>2. ASSUME NEW S \in SUBSET DOMAIN p, i \in S, Shut(p, S) PROVE j \in S
    <3>1. S \in SUBSET DOMAIN q /\ Shut(q, S)
      BY <1>0, <1>1, <2>2 DEF Shut
    <3> QED BY <1>4, <2>2, <3>1 DEF Lineage
  <2> QED BY <2>1, <2>2 DEF Lineage
<1>5. ASSUME NEW j \in Lineage(p, i) PROVE j \in Lineage(q, i)
  <2>1. j \in DOMAIN q
    BY <1>0, <1>1, <1>5 DEF Lineage
  <2>2. ASSUME NEW S \in SUBSET DOMAIN q, i \in S, Shut(q, S) PROVE j \in S
    <3> DEFINE R == S \cap DOMAIN p
    <3>1. R \in SUBSET DOMAIN p /\ i \in R
      BY <2>2
    <3>2. ASSUME NEW k \in R, p[k].parent # 0 PROVE p[k].parent \in R
      <4>1. k \in 1..Len(p) /\ q[k] = p[k] /\ p[k].parent \in Nat /\ p[k].parent < k
        BY <1>0, <1>1
      <4>2. p[k].parent \in S
        BY <2>2, <3>2, <4>1 DEF Shut
      <4>3. p[k].parent \in 1..Len(p)
        BY <1>0, <3>2, <4>1
      <4> QED BY <1>0, <4>2, <4>3
    <3>3. Shut(p, R)
      BY <3>2 DEF Shut
    <3>4. j \in R
      <4> HIDE DEF R
      <4> QED BY <1>5, <3>1, <3>3 DEF Lineage
    <3> QED BY <3>4
  <2> QED BY <2>1, <2>2 DEF Lineage
<1>6. Parent(q, i) = Parent(p, i)
  <2>1. q[i] = p[i]
    BY <1>1
  <2>2. p[i].parent # 0 => q[p[i].parent] = p[p[i].parent]
    <3>1. p[i].parent \in Nat /\ p[i].parent < i
      BY <1>0
    <3>2. p[i].parent # 0 => p[i].parent \in 1..Len(p)
      BY <1>0, <3>1
    <3> QED BY <1>0, <1>1, <3>2
  <2> QED BY <2>1, <2>2 DEF Parent
<1> QED BY <1>2, <1>4, <1>5, <1>6 DEF q

(* What was so of the processes there were is so when there is one more,    *)
(* and what was cut off stays so.                                           *)
LEMMA HoldsStays ==
  ASSUME NEW p, World(p), NEW x \in Process, x.parent \in 0..Len(p), NEW h \in 0..Len(p)
  PROVE  /\ \A e \in Entry : Holds(p, e, h) => Holds(Append(p, x), e, h)
         /\ \A v : Judged(p, v) => Judged(Append(p, x), v)
<1> DEFINE q == Append(p, x)
<1>0. /\ Len(p) \in Nat /\ DOMAIN p = 1..Len(p)
      /\ Len(q) = Len(p) + 1 /\ DOMAIN q = 1..Len(p) + 1
      /\ \A j \in DOMAIN p : q[j] = p[j]
  BY DEF World
<1>1. \A i \in DOMAIN p : Lineage(q, i) = Lineage(p, i) /\ Parent(q, i) = Parent(p, i)
  BY LineStays
<1> HIDE DEF q
<1>2. ASSUME NEW i \in DOMAIN p, NEW by PROVE Came(p, by, i) => Came(q, by, i)
  <2>1. Lineage(p, i) \subseteq DOMAIN p
    BY DEF Lineage
  <2> QED BY <1>0, <1>1, <2>1 DEF Came
<1>3. ASSUME NEW i \in DOMAIN p, NEW n \in 0..Len(p), NEW m \in 0..Len(q), n <= m
      PROVE  Lost(p, i, n) => Lost(q, i, m)
  <2> SUFFICES ASSUME Lost(p, i, n) PROVE Lost(q, i, m)
    OBVIOUS
  <2>1. PICK a \in Lineage(p, i) \ {i}, j \in 1..n : j > a /\ p[j].pid = p[a].pid
    BY DEF Lost
  <2>2. a \in DOMAIN p /\ j \in DOMAIN p /\ j \in 1..m
    BY <1>0, <1>3 DEF Lineage
  <2>3. a \in Lineage(q, i) \ {i} /\ q[j].pid = q[a].pid
    BY <1>0, <1>1, <2>1, <2>2
  <2> QED BY <2>1, <2>2, <2>3 DEF Lost
<1>4. ASSUME NEW e \in Entry, Holds(p, e, h) PROVE Holds(q, e, h)
  <2>1. e.of \in DOMAIN p /\ e.of \in DOMAIN q
    BY <1>0, <1>4 DEF Holds, Fits
  <2>2. Fits(q, e)
    BY <1>0, <1>1, <1>4, <2>1 DEF Holds, Fits
  <2>3. Honest(q, e, h)
    <3>1. Len(p) \in 0..Len(p) /\ Len(q) \in 0..Len(q) /\ Len(p) <= Len(q)
      BY <1>0
    <3>2. Lost(p, e.of, Len(p)) => Lost(q, e.of, Len(q))
      BY <1>3, <2>1, <3>1
    <3> QED BY <1>2, <1>4, <2>1, <3>2 DEF Holds, Honest
  <2>4. Latest(q, e, h)
    <3>1. \A j \in 1..h : q[j] = p[j]
      BY <1>0
    <3> QED BY <1>4, <3>1 DEF Holds, Latest
  <2> QED BY <2>2, <2>3, <2>4 DEF Holds
<1>5. ASSUME NEW v, Judged(p, v) PROVE Judged(q, v)
  <2>1. /\ v.process \in DOMAIN p /\ v.process \in DOMAIN q
        /\ Len(p) \in 0..Len(p) /\ Len(q) \in 0..Len(q) /\ Len(p) <= Len(q)
    BY <1>0, <1>5 DEF Judged
  <2>2. Lost(p, v.process, Len(p)) => Lost(q, v.process, Len(q))
    BY <1>3, <2>1
  <2> QED BY <1>2, <1>5, <2>1, <2>2 DEF Judged
<1> QED BY <1>4, <1>5 DEF q

-----------------------------------------------------------------------------
(* The table: what an operation leaves was there, or is the new entry.      *)
Among(t, d) == \A k \in DOMAIN d : \E l \in DOMAIN t : d[k] = t[l]

LEMMA MinIs ==
  ASSUME NEW T, T \subseteq Nat, T # {}
  PROVE  Min(T) \in T /\ \A m \in T : Min(T) <= m
<1>1. PICK n \in T : \A m \in T : n <= m
  BY LeastNumber
<1>2. Min(T) = CHOOSE x \in T : \A y \in T : x <= y
  BY DEF Min
<1> QED BY <1>1, <1>2

(* A sequence less its p-th element.                                        *)
LEMMA RemovedIs ==
  ASSUME NEW S, NEW t \in Seq(S), NEW p \in 1..Len(t)
  PROVE  /\ RemoveAt(t, p) \in Seq(S) /\ Len(RemoveAt(t, p)) = Len(t) - 1
         /\ \A k \in 1..Len(t) - 1 : RemoveAt(t, p)[k] = t[IF k < p THEN k ELSE k + 1]
<1> DEFINE n == Len(t)  a == SubSeq(t, 1, p - 1)  b == SubSeq(t, p + 1, n)
<1>1. p \in 1..n /\ n \in Nat /\ t \in Seq(S)
  OBVIOUS
<1>2. RemoveAt(t, p) = a \o b
  BY DEF RemoveAt
<1> HIDE DEF n
<1>3. a \in Seq(S) /\ Len(a) = p - 1 /\ \A i \in 1..p - 1 : a[i] = t[i]
  BY <1>1 DEF n
<1>4. b \in Seq(S) /\ Len(b) = n - p /\ \A i \in 1..n - p : b[i] = t[p + i]
  BY <1>1 DEF n
<1> HIDE DEF a, b
<1>5. a \o b \in Seq(S) /\ Len(a \o b) = n - 1
  <2>1. a \in Seq(S) /\ b \in Seq(S) /\ Len(a) = p - 1 /\ Len(b) = n - p
    BY <1>3, <1>4
  <2>2. a \o b \in Seq(S) /\ Len(a \o b) = Len(a) + Len(b)
    BY <2>1, ConcatProperties
  <2>3. Len(a) + Len(b) = n - 1
    BY <1>1, <2>1
  <2> QED BY <2>2, <2>3
<1>6. ASSUME NEW i \in 1..n - 1 PROVE (a \o b)[i] = t[IF i < p THEN i ELSE i + 1]
  <2>1. CASE i < p
    <3>1. (a \o b)[i] = a[i] /\ i \in 1..p - 1
      BY <1>1, <1>3, <1>4, <2>1
    <3> QED BY <1>3, <2>1, <3>1
  <2>2. CASE ~(i < p)
    <3>1. (a \o b)[i] = b[i - (p - 1)] /\ i - (p - 1) \in 1..n - p /\ p + (i - (p - 1)) = i + 1
      BY <1>1, <1>3, <1>4, <2>2
    <3>2. b[i - (p - 1)] = t[p + (i - (p - 1))]
      BY <1>4, <3>1
    <3> QED BY <2>2, <3>1, <3>2
  <2> QED BY <2>1, <2>2
<1> QED BY <1>2, <1>5, <1>6 DEF n

LEMMA RemovedAt ==
  ASSUME NEW t \in Seq(Entry), Apart(t), NEW p \in DOMAIN t
  PROVE  /\ RemoveAt(t, p) \in Seq(Entry) /\ Apart(RemoveAt(t, p))
         /\ \A k \in DOMAIN RemoveAt(t, p) : \E l \in DOMAIN t : l # p /\ RemoveAt(t, p)[k] = t[l]
<1> DEFINE n == Len(t)  d == RemoveAt(t, p)  from(i) == IF i < p THEN i ELSE i + 1
<1>0. p \in 1..n /\ n \in Nat /\ DOMAIN t = 1..n
  OBVIOUS
<1>1. d \in Seq(Entry) /\ Len(d) = n - 1 /\ \A i \in 1..n - 1 : d[i] = t[from(i)]
  BY <1>0, RemovedIs
<1>2. DOMAIN d = 1..n - 1
  BY <1>0, <1>1
<1>3. /\ \A i \in 1..n - 1 : from(i) \in 1..n /\ from(i) # p
      /\ \A i, j \in 1..n - 1 : from(i) = from(j) => i = j
  BY <1>0
<1> HIDE DEF d, from
<1>4. Apart(d)
  <2> SUFFICES ASSUME NEW k \in DOMAIN d, NEW l \in DOMAIN d, d[k].pid = d[l].pid PROVE k = l
    BY DEF Apart
  <2>1. t[from(k)].pid = t[from(l)].pid /\ from(k) \in DOMAIN t /\ from(l) \in DOMAIN t
    BY <1>0, <1>1, <1>2, <1>3
  <2>2. from(k) = from(l)
    BY <2>1 DEF Apart
  <2> QED BY <1>2, <1>3, <2>2
<1> QED BY <1>0, <1>1, <1>2, <1>3, <1>4 DEF d

LEMMA AtIs ==
  ASSUME NEW t \in Seq(Entry), NEW pid, get(t, pid) # NoEntry
  PROVE  \E k \in DOMAIN t : t[k] = get(t, pid) /\ t[k].pid = pid
<1>1. placesOf(t, pid) # {} /\ get(t, pid) = t[placeOf(t, pid)]
  BY DEF get
<1>2. placeOf(t, pid) \in placesOf(t, pid)
  BY <1>1 DEF placeOf
<1> QED BY <1>1, <1>2 DEF placesOf

LEMMA DropIs ==
  ASSUME NEW t \in Seq(Entry), Apart(t), NEW pid
  PROVE  /\ drop(t, pid) \in Seq(Entry) /\ Apart(drop(t, pid)) /\ Among(t, drop(t, pid))
         /\ \A k \in DOMAIN drop(t, pid) : drop(t, pid)[k].pid # pid
<1>1. CASE placesOf(t, pid) = {}
  <2>1. drop(t, pid) = t
    BY <1>1 DEF drop
  <2> QED BY <1>1, <2>1 DEF placesOf, Among
<1>2. CASE placesOf(t, pid) # {}
  <2> DEFINE p == placeOf(t, pid)
  <2>1. p \in DOMAIN t /\ t[p].pid = pid
    BY <1>2 DEF placeOf, placesOf
  <2>2. drop(t, pid) = RemoveAt(t, p)
    BY <1>2 DEF drop
  <2> HIDE DEF p
  <2>3. /\ RemoveAt(t, p) \in Seq(Entry) /\ Apart(RemoveAt(t, p))
        /\ \A k \in DOMAIN RemoveAt(t, p) : \E l \in DOMAIN t : l # p /\ RemoveAt(t, p)[k] = t[l]
    BY <2>1, RemovedAt
  <2>4. \A l \in DOMAIN t : l # p => t[l].pid # pid
    BY <2>1 DEF Apart
  <2> QED BY <2>2, <2>3, <2>4 DEF Among
<1> QED BY <1>1, <1>2

LEMMA EvictIs ==
  ASSUME NEW t \in Seq(Entry), Apart(t)
  PROVE  evict(t) \in Seq(Entry) /\ Apart(evict(t)) /\ Among(t, evict(t))
<1> DEFINE plain == {i \in DOMAIN t : t[i].kind # "runtime"}
           p == IF plain = {} THEN 1 ELSE Min(plain)
<1>1. CASE Len(t) <= MAX_PER_HOST
  BY <1>1 DEF evict, Among
<1>2. CASE ~(Len(t) <= MAX_PER_HOST)
  <2>1. evict(t) = RemoveAt(t, p)
    BY <1>2 DEF evict
  <2>2. p \in DOMAIN t
    <3>1. DOMAIN t = 1..Len(t) /\ Len(t) \in Nat /\ MAX_PER_HOST \in Nat /\ plain \subseteq Nat
      OBVIOUS
    <3>2. plain # {} => Min(plain) \in plain
      <4> HIDE DEF plain
      <4> QED BY <3>1, MinIs
    <3>3. 1 \in DOMAIN t
      BY <1>2, <3>1
    <3> QED BY <3>2, <3>3
  <2> HIDE DEF p
  <2> QED BY <2>1, <2>2, RemovedAt DEF Among
<1> QED BY <1>1, <1>2

LEMMA PutIs ==
  ASSUME NEW t \in Seq(Entry), Apart(t), NEW e \in Entry
  PROVE  /\ put(t, e) \in Seq(Entry) /\ Apart(put(t, e))
         /\ \A k \in DOMAIN put(t, e) :
              \/ put(t, e)[k] = e
              \/ put(t, e)[k].pid # e.pid /\ \E l \in DOMAIN t : put(t, e)[k] = t[l]
<1> DEFINE d == drop(t, e.pid)  a == Append(d, e)
<1>1. /\ d \in Seq(Entry) /\ Apart(d) /\ Among(t, d)
      /\ \A k \in DOMAIN d : d[k].pid # e.pid
  BY DropIs
<1>2. put(t, e) = evict(a)
  BY DEF put
<1> HIDE DEF d
<1>3. /\ a \in Seq(Entry) /\ DOMAIN a = 1..Len(d) + 1 /\ DOMAIN d = 1..Len(d) /\ Len(d) \in Nat
      /\ a[Len(d) + 1] = e /\ \A k \in DOMAIN d : a[k] = d[k]
  BY <1>1
<1> HIDE DEF a
<1>4. \A k \in DOMAIN a : k \in DOMAIN d \/ k = Len(d) + 1
  BY <1>3
<1>5. Apart(a)
  <2> SUFFICES ASSUME NEW k \in DOMAIN a, NEW l \in DOMAIN a, a[k].pid = a[l].pid PROVE k = l
    BY DEF Apart
  <2>1. CASE k \in DOMAIN d /\ l \in DOMAIN d
    BY <1>1, <1>3, <2>1 DEF Apart
  <2>2. CASE k \notin DOMAIN d
    BY <1>1, <1>3, <1>4, <2>2
  <2>3. CASE l \notin DOMAIN d
    BY <1>1, <1>3, <1>4, <2>3
  <2> QED BY <2>1, <2>2, <2>3
<1>6. evict(a) \in Seq(Entry) /\ Apart(evict(a)) /\ Among(a, evict(a))
  BY <1>3, <1>5, EvictIs
<1>7. ASSUME NEW k \in DOMAIN evict(a)
      PROVE  \/ evict(a)[k] = e
             \/ evict(a)[k].pid # e.pid /\ \E l \in DOMAIN t : evict(a)[k] = t[l]
  <2>1. PICK l \in DOMAIN a : evict(a)[k] = a[l]
    BY <1>6 DEF Among
  <2>2. CASE l \in DOMAIN d
    BY <1>1, <1>3, <2>1, <2>2 DEF Among
  <2>3. CASE l = Len(d) + 1
    BY <1>3, <2>1, <2>3
  <2> QED BY <1>4, <2>2, <2>3
<1> QED BY <1>2, <1>6, <1>7

(* A row or an event that is put in leaves what the table holds as it is    *)
(* meant, for g processes that were heard of and now h.                     *)
LEMMA UpsertKeeps ==
  ASSUME World(processes), NEW g \in 0..Len(processes), NEW h \in 0..Len(processes),
         NEW t, Stored(processes, t, g), NEW i \in DOMAIN processes, NEW snapshot \in BOOLEAN,
         snapshot => g = h /\ \A j \in DOMAIN processes : processes[j].pid = processes[i].pid => j <= i,
         ~snapshot => i = g + 1 /\ h = g + 1
  PROVE  /\ Stored(processes, upsert(t, i, snapshot), h)
         /\ newEntry(t, i, snapshot) \in Entry /\ newEntry(t, i, snapshot).of = i
         /\ newEntry(t, i, snapshot).command = processes[i].command
         /\ Holds(processes, newEntry(t, i, snapshot), h)
<1> DEFINE e == newEntry(t, i, snapshot)
           prev == get(t, processes[i].pid)
           s == upsert(t, i, snapshot)
<1>0. /\ Len(processes) \in Nat /\ DOMAIN processes = 1..Len(processes)
      /\ \A j \in DOMAIN processes : processes[j] \in Process /\ processes[j].parent \in Nat
                                       /\ processes[j].parent < j
  BY WorldIs
<1>1. t \in Seq(Entry) /\ Apart(t) /\ \A k \in DOMAIN t : Holds(processes, t[k], g) /\ t[k] \in Entry
  BY AnyOf DEF Stored
<1>2. ppid(i) = Parent(processes, i) /\ ppid(i) \in Nat
  <2>1. processes[i].parent # 0 => processes[i].parent \in DOMAIN processes
    BY <1>0
  <2>2. \A j \in DOMAIN processes : processes[j].pid \in Nat
    BY <1>0 DEF Process
  <2> QED BY <2>1, <2>2 DEF ppid, Parent
<1>3. /\ e \in Entry /\ e.of = i /\ e.pid = processes[i].pid /\ e.ppid = Parent(processes, i)
      /\ e.command = processes[i].command
      /\ \/ e.explainedBy = NoAction
         \/ snapshot /\ prev # NoEntry /\ e.explainedBy = prev.explainedBy
  <2> DEFINE x == entryOf(i)
             same == snapshot /\ prev # NoEntry /\ prev.kind = x.kind /\ prev.ppid = x.ppid
             by == IF same THEN prev.explainedBy ELSE NoAction
  <2>1. e = [x EXCEPT !.explainedBy = by]
    BY Zenon DEF newEntry
  <2>2. x = [of |-> i, pid |-> processes[i].pid, ppid |-> ppid(i), kind |-> processes[i].kind,
             command |-> processes[i].command, explainedBy |-> NoAction]
    BY DEF entryOf
  <2>3. by \in Causes /\ (by = NoAction \/ (snapshot /\ prev # NoEntry /\ by = prev.explainedBy))
    <3>1. CASE same
      <4>1. PICK k \in DOMAIN t : t[k] = prev
        BY <1>1, <3>1, AtIs
      <4>2. prev.explainedBy \in Causes
        BY <1>1, <4>1 DEF Entry
      <4> QED BY <3>1, <4>2
    <3>2. CASE ~same
      BY <3>2 DEF Causes
    <3> QED BY <3>1, <3>2
  <2>4. i \in Nat /\ processes[i] \in Process
    BY <1>0
  <2> HIDE DEF x, by, same, e
  <2>5. e = [of |-> i, pid |-> processes[i].pid, ppid |-> ppid(i), kind |-> processes[i].kind,
             command |-> processes[i].command, explainedBy |-> by]
    BY <2>1, <2>2
  <2>6. e \in Entry
    BY <1>2, <2>3, <2>4, <2>5 DEF Entry, Process
  <2> QED BY <1>2, <2>3, <2>5, <2>6
<1>4. s = put(t, e)
  BY DEF upsert
<1> HIDE DEF e, s
<1>5. Holds(processes, e, h)
  <2>1. Fits(processes, e)
    BY <1>3 DEF Fits
  <2>2. Latest(processes, e, h)
    BY <1>0, <1>3 DEF Latest
  <2>3. Honest(processes, e, h)
    <3>1. CASE e.explainedBy = NoAction
      BY <3>1 DEF Honest
    <3>2. CASE snapshot /\ prev # NoEntry /\ e.explainedBy = prev.explainedBy
      <4>1. PICK k \in DOMAIN t : t[k] = prev /\ t[k].pid = processes[i].pid
        BY <1>1, <3>2, AtIs
      <4>2. Holds(processes, prev, g) /\ prev \in Entry
        BY <1>1, <4>1
      <4>3. CASE i > h
        BY <1>3, <4>3 DEF Honest
      <4>4. CASE i <= h
        <5>1. prev.of \in DOMAIN processes /\ processes[prev.of].pid = processes[i].pid
          BY <4>1, <4>2 DEF Holds, Fits
        <5>2. i <= prev.of
          BY <1>0, <3>2, <4>1, <4>2, <4>4 DEF Holds, Latest
        <5>3. prev.of <= i
          BY <3>2, <5>1
        <5>4. prev.of = i
          BY <1>0, <5>1, <5>2, <5>3
        <5> QED BY <1>3, <3>2, <4>2, <5>4 DEF Holds, Honest
      <4> QED BY <1>0, <4>3, <4>4
    <3> QED BY <1>3, <3>1, <3>2
  <2> QED BY <2>1, <2>2, <2>3 DEF Holds
<1>6. /\ s \in Seq(Entry) /\ Apart(s)
      /\ \A k \in DOMAIN s : s[k] = e \/ (s[k].pid # e.pid /\ \E l \in DOMAIN t : s[k] = t[l])
  <2>1. t \in Seq(Entry) /\ Apart(t) /\ e \in Entry
    BY <1>1, <1>3
  <2> HIDE DEF prev
  <2>2. /\ put(t, e) \in Seq(Entry) /\ Apart(put(t, e))
        /\ \A k \in DOMAIN put(t, e) :
             \/ put(t, e)[k] = e
             \/ put(t, e)[k].pid # e.pid /\ \E l \in DOMAIN t : put(t, e)[k] = t[l]
    BY <2>1, PutIs
  <2> QED BY <1>4, <2>2
<1>7. ASSUME NEW k \in DOMAIN s PROVE Holds(processes, s[k], h)
  <2>1. CASE s[k] = e
    BY <1>5, <2>1
  <2>2. CASE s[k].pid # e.pid /\ \E l \in DOMAIN t : s[k] = t[l]
    <3>1. PICK l \in DOMAIN t : s[k] = t[l]
      BY <2>2
    <3> DEFINE x == s[k]
    <3>2. Holds(processes, x, g) /\ x \in Entry /\ x.pid # processes[i].pid
      BY <1>1, <1>3, <2>2, <3>1
    <3> HIDE DEF x
    <3>3. Latest(processes, x, h)
      <4> SUFFICES ASSUME NEW j \in 1..h, processes[j].pid = x.pid PROVE j <= x.of
        BY DEF Latest
      <4>1. j # i
        BY <3>2
      <4>2. j \in 1..g
        BY <1>0, <4>1
      <4> QED BY <3>2, <4>2 DEF Holds, Latest
    <3>4. Honest(processes, x, h)
      <4>1. x.of # i /\ x.of \in DOMAIN processes
        BY <3>2 DEF Holds, Fits
      <4>2. x.of > g => x.of > h
        BY <1>0, <4>1
      <4> QED BY <3>2, <4>2 DEF Holds, Honest
    <3> QED BY <3>2, <3>3, <3>4 DEF Holds, x
  <2> QED BY <1>6, <2>1, <2>2
<1>8. Stored(processes, s, h)
  BY <1>6, <1>7 DEF Stored
<1> QED BY <1>3, <1>5, <1>8 DEF e, s

-----------------------------------------------------------------------------
(* The walk: the function that climb defines exists, and is the walk.       *)
Climbed(t, e, n, f) ==
  f = [k \in 0..n |-> IF k = 0 THEN e
                      ELSE IF f[k - 1] = NoEntry THEN NoEntry ELSE get(t, f[k - 1].ppid)]

LEMMA ClimbExists ==
  ASSUME NEW t, NEW e, NEW n \in Nat
  PROVE  \E f : Climbed(t, e, n, f)
<1> DEFINE T == {m \in Nat : ~\E f : Climbed(t, e, m, f)}
           F(x) == IF x = NoEntry THEN NoEntry ELSE get(t, x.ppid)
<1> SUFFICES ASSUME T # {} PROVE FALSE
  OBVIOUS
<1>0. \A m, f : Climbed(t, e, m, f) <=> f = [k \in 0..m |-> IF k = 0 THEN e ELSE F(f[k - 1])]
  BY DEF Climbed
<1>1. PICK m \in T : \A k \in T : m <= k
  <2>1. T \subseteq Nat
    OBVIOUS
  <2> HIDE DEF T
  <2> QED BY <2>1, LeastNumber
<1>2. m # 0
  <2> DEFINE z == [k \in 0..0 |-> e]
  <2>1. z = [k \in 0..0 |-> IF k = 0 THEN e ELSE F(z[k - 1])]
    OBVIOUS
  <2> QED BY <1>0, <2>1
<1>3. m \in Nat /\ m - 1 \in Nat /\ m - 1 \notin T
  BY <1>1, <1>2
<1>4. PICK f : Climbed(t, e, m - 1, f)
  BY <1>3
<1> DEFINE g == [k \in 0..m |-> IF k < m THEN f[k] ELSE F(f[m - 1])]
<1> HIDE DEF F
<1>5. \A k \in 0..m - 1 : f[k] = IF k = 0 THEN e ELSE F(f[k - 1])
  BY <1>0, <1>4
<1>6. ASSUME NEW k \in 0..m PROVE g[k] = IF k = 0 THEN e ELSE F(g[k - 1])
  <2>1. CASE k < m
    <3>1. k \in 0..m - 1 /\ g[k] = f[k] /\ (k # 0 => g[k - 1] = f[k - 1])
      BY <1>3, <2>1
    <3> QED BY <1>5, <3>1
  <2>2. CASE k = m
    <3>1. g[m] = F(f[m - 1]) /\ g[m - 1] = f[m - 1]
      BY <1>2, <1>3
    <3> QED BY <1>2, <2>2, <3>1
  <2> QED BY <1>3, <2>1, <2>2
<1>7. g = [k \in 0..m |-> IF k = 0 THEN e ELSE F(g[k - 1])]
  <2> DEFINE h == [k \in 0..m |-> IF k = 0 THEN e ELSE F(g[k - 1])]
  <2>1. \A k \in 0..m : h[k] = g[k]
    BY <1>6
  <2>2. h = [k \in 0..m |-> h[k]] /\ g = [k \in 0..m |-> g[k]]
    OBVIOUS
  <2> QED BY <2>1, <2>2
<1>8. Climbed(t, e, m, g)
  <2> HIDE DEF g
  <2> QED BY <1>0, <1>7
<1> QED BY <1>8

LEMMA ClimbIs ==
  ASSUME NEW t, NEW e
  PROVE  /\ climb(t, e)[0] = e
         /\ \A k \in 1..MAX_DEPTH :
              climb(t, e)[k] = IF climb(t, e)[k - 1] = NoEntry THEN NoEntry
                               ELSE get(t, climb(t, e)[k - 1].ppid)
<1> DEFINE f == CHOOSE g : Climbed(t, e, MAX_DEPTH, g)
<1>1. climb(t, e) = f
  BY DEF climb, Climbed
<1>2. Climbed(t, e, MAX_DEPTH, f)
  BY ClimbExists
<1> HIDE DEF f
<1>3. \A k \in 0..MAX_DEPTH :
        f[k] = IF k = 0 THEN e ELSE IF f[k - 1] = NoEntry THEN NoEntry ELSE get(t, f[k - 1].ppid)
  BY <1>2 DEF Climbed
<1>4. 0 \in 0..MAX_DEPTH /\ \A k \in 1..MAX_DEPTH : k \in 0..MAX_DEPTH /\ k # 0
  OBVIOUS
<1> QED BY <1>1, <1>3, <1>4

(* The walk from a process that is not cut off goes by those it comes from. *)
LEMMA ClimbComes ==
  ASSUME World(processes), NEW i \in DOMAIN processes,
         ~Lost(processes, i, Len(processes)),
         NEW t, Stored(processes, t, i), NEW e \in Entry, e.of = i, Fits(processes, e),
         NEW k \in 1..MAX_DEPTH, climb(t, e)[k] # NoEntry
  PROVE  /\ climb(t, e)[k] \in Entry /\ Holds(processes, climb(t, e)[k], i)
         /\ climb(t, e)[k].of \in Lineage(processes, i) \ {i}
<1> DEFINE walk == climb(t, e)
           Good(x) == x \in Entry /\ Fits(processes, x) /\ x.of \in Lineage(processes, i)
           Far(x) == x \in Entry /\ Holds(processes, x, i) /\ x.of \in Lineage(processes, i) \ {i}
           T == {m \in 1..MAX_DEPTH : walk[m] # NoEntry /\ ~Far(walk[m])}
<1>0. /\ Len(processes) \in Nat /\ DOMAIN processes = 1..Len(processes)
      /\ \A j \in DOMAIN processes : processes[j] \in Process /\ processes[j].parent \in Nat
                                       /\ processes[j].parent < j
  BY WorldIs
<1>1. /\ walk[0] = e
      /\ \A m \in 1..MAX_DEPTH : walk[m] = IF walk[m - 1] = NoEntry THEN NoEntry ELSE get(t, walk[m - 1].ppid)
  BY ClimbIs
<1> HIDE DEF walk
<1>2. /\ i \in Lineage(processes, i) /\ Lineage(processes, i) \subseteq 1..i
      /\ \A j \in Lineage(processes, i) :
           processes[j].parent # 0 => processes[j].parent \in Lineage(processes, i)
  BY LineIs
<1>3. Good(e)
  BY <1>2
<1>4. ASSUME NEW x, Good(x), get(t, x.ppid) # NoEntry PROVE Far(get(t, x.ppid))
  <2> DEFINE y == get(t, x.ppid)  a == processes[x.of].parent
  <2>1. t \in Seq(Entry) /\ \A l \in DOMAIN t : t[l] \in Entry /\ Holds(processes, t[l], i)
    BY AnyOf DEF Stored
  <2>2. PICK l \in DOMAIN t : t[l] = y /\ t[l].pid = x.ppid
    BY <1>4, <2>1, AtIs
  <2>3. y \in Entry /\ Holds(processes, y, i) /\ y.pid = x.ppid
    BY <2>1, <2>2
  <2> HIDE DEF y
  <2>4. y.pid # 0
    BY <2>3 DEF Entry
  <2>5. x.of \in DOMAIN processes /\ x.ppid = Parent(processes, x.of) /\ x.of \in Lineage(processes, i)
    BY <1>4 DEF Fits
  <2>6. a # 0 /\ y.pid = processes[a].pid
    BY <2>3, <2>4, <2>5 DEF Parent
  <2>7. a \in Lineage(processes, i) /\ a < x.of /\ x.of \in 1..i /\ a \in 1..i
    BY <1>0, <1>2, <2>5, <2>6
  <2> HIDE DEF a
  <2>8. a <= y.of /\ y.of \in DOMAIN processes /\ processes[y.of].pid = processes[a].pid
    BY <2>3, <2>6, <2>7 DEF Holds, Latest, Fits
  <2>9. a # i /\ ~(y.of > a)
    <3>1. a # i
      BY <1>0, <2>7
    <3>2. ASSUME y.of > a PROVE FALSE
      <4>1. a \in Lineage(processes, i) \ {i} /\ y.of \in 1..Len(processes)
        BY <1>0, <2>7, <2>8, <3>1
      <4> QED BY <2>8, <3>2, <4>1 DEF Lost
    <3> QED BY <3>1, <3>2
  <2>10. y.of = a
    BY <1>0, <2>7, <2>8, <2>9
  <2> QED BY <2>3, <2>7, <2>9, <2>10 DEF y
<1>5. \A x : Far(x) => Good(x)
  BY DEF Holds
<1> HIDE DEF Good, Far
<1>6. T = {}
  <2> SUFFICES ASSUME T # {} PROVE FALSE
    OBVIOUS
  <2>1. PICK m \in T : \A j \in T : m <= j
    <3>1. T \subseteq Nat
      OBVIOUS
    <3> HIDE DEF T
    <3> QED BY <3>1, LeastNumber
  <2>2. m \in 1..MAX_DEPTH /\ walk[m] # NoEntry /\ ~Far(walk[m])
    BY <2>1
  <2>3. walk[m - 1] # NoEntry /\ walk[m] = get(t, walk[m - 1].ppid)
    BY <1>1, <2>2
  <2>4. Good(walk[m - 1])
    <3>1. CASE m = 1
      BY <1>1, <1>3, <3>1
    <3>2. CASE m # 1
      <4>1. m - 1 \in 1..MAX_DEPTH /\ ~(m <= m - 1)
        BY <2>2, <3>2
      <4>2. m - 1 \notin T
        <5> HIDE DEF T
        <5> QED BY <2>1, <4>1
      <4> QED BY <1>5, <2>3, <4>1, <4>2
    <3> QED BY <3>1, <3>2
  <2> QED BY <1>4, <2>2, <2>3, <2>4
<1> QED BY <1>6 DEF walk, Far

(* So what it inherits is what one of them was explained by, and rightly.   *)
LEMMA InheritedIs ==
  ASSUME NEW t \in Seq(Entry), NEW e, classify(t, e).inherited # NoAction
  PROVE  \E k \in 1..MAX_DEPTH :
           /\ climb(t, e)[k] # NoEntry /\ climb(t, e)[k] \in Entry
           /\ classify(t, e).inherited = climb(t, e)[k].explainedBy
<1> DEFINE walk == climb(t, e)
           tops == {k \in reached(walk) : isTop(t, walk[k])}
           explained == {k \in reached(walk) : walk[k].explainedBy # NoAction /\ \A m \in tops : k <= m}
           k == Min(explained)
<1>1. classify(t, e).inherited =
        IF tops = {} \/ explained = {} THEN NoAction ELSE walk[k].explainedBy
  BY Zenon DEF classify
<1>2. explained # {} /\ classify(t, e).inherited = walk[k].explainedBy
  BY <1>1
<1>3. explained \subseteq Nat
  BY DEF reached
<1>4. k \in explained
  <2> HIDE DEF explained
  <2> QED BY <1>2, <1>3, MinIs
<1> HIDE DEF k
<1>5. k \in 1..MAX_DEPTH /\ walk[k] # NoEntry
  <2>1. k \in reached(walk)
    BY <1>4
  <2>2. k \in 1..MAX_DEPTH /\ \A m \in 1..k : walk[m] # NoEntry
    BY <2>1 DEF reached
  <2> QED BY <2>2
<1>6. walk[k] \in Entry
  <2>1. walk[k] = IF walk[k - 1] = NoEntry THEN NoEntry ELSE get(t, walk[k - 1].ppid)
    BY <1>5, ClimbIs
  <2> DEFINE pid == walk[k - 1].ppid
  <2>2. get(t, pid) # NoEntry /\ walk[k] = get(t, pid)
    BY <1>5, <2>1
  <2> HIDE DEF pid
  <2>3. PICK l \in DOMAIN t : t[l] = get(t, pid)
    BY <2>2, AtIs
  <2> QED BY <2>2, <2>3, AnyOf
<1> QED BY <1>2, <1>5, <1>6

LEMMA InheritedIsEarned ==
  ASSUME World(processes), NEW i \in DOMAIN processes,
         ~Lost(processes, i, Len(processes)),
         NEW t, Stored(processes, t, i), NEW e \in Entry, e.of = i, Fits(processes, e),
         classify(t, e).inherited # NoAction
  PROVE  Came(processes, classify(t, e).inherited, i)
<1>1. PICK k \in 1..MAX_DEPTH :
        climb(t, e)[k] # NoEntry /\ classify(t, e).inherited = climb(t, e)[k].explainedBy
  <2>1. t \in Seq(Entry)
    BY DEF Stored
  <2> QED BY <2>1, InheritedIs
<1> DEFINE x == climb(t, e)[k]
<1>2. Holds(processes, x, i) /\ x.of \in Lineage(processes, i) \ {i}
  BY <1>1, ClimbComes
<1>3. classify(t, e).inherited = x.explainedBy
  BY <1>1
<1> HIDE DEF x
<1>4. x.explainedBy # NoAction /\ Honest(processes, x, i) /\ x.of \in Lineage(processes, i) /\ x.of # i
  BY <1>2, <1>3 DEF Holds
<1>5. ~(x.of > i)
  <2>1. Lineage(processes, i) \subseteq 1..i /\ i \in Nat
    BY LineIs, WorldIs
  <2> QED BY <1>4, <2>1
<1>6. ~Lost(processes, x.of, Len(processes))
  BY <1>4, LineInherits
<1>7. Came(processes, x.explainedBy, x.of)
  BY <1>4, <1>5, <1>6 DEF Honest
<1>8. Came(processes, x.explainedBy, i)
  BY <1>4, <1>7, LineInherits
<1> QED BY <1>3, <1>8

-----------------------------------------------------------------------------
(* The names of the model are those above, for the processes there are.     *)
LEMMA SameNames ==
  /\ \A i : Ancestry(i) = Lineage(processes, i)
  /\ World(processes) => \A i : Estranged(i) = Lost(processes, i, Len(processes))
  /\ \A by, i : Earned(by, i) = Came(processes, by, i)
<1>1. World(processes) => DOMAIN processes = 1..Len(processes)
  BY DEF World
<1> QED BY <1>1 DEF Ancestry, Closed, Estranged, Earned, Lineage, Shut, Lost, Came

LEMMA ListOf ==
  ASSUME NEW S, NEW n \in Nat, NEW f \in [1..n -> S]
  PROVE  f \in Seq(S) /\ Len(f) = n /\ DOMAIN f = 1..n
OBVIOUS

LEMMA CorrelationStart == CorrelationInit => CorrelationInv
<1> SUFFICES ASSUME CorrelationInit PROVE CorrelationInv
  OBVIOUS
<1> DEFINE x == [pid |-> Min(Pids), parent |-> 0, kind |-> "runtime", command |-> NoCommand]
<1>1. x \in Process /\ x.parent = 0
  <2>1. Min(Pids) \in Pids
    BY MinIs
  <2> QED BY <2>1 DEF Process
<1> HIDE DEF x
<1>2. processes = <<x>> /\ alive = {1} /\ sensor = <<1>> /\ table = <<>> /\ logged = {} /\ actions = {}
  BY DEF CorrelationInit, x
<1>3. /\ processes \in Seq(Process) /\ Len(processes) = 1 /\ DOMAIN processes = 1..1
      /\ processes[1] = x
  BY <1>1, <1>2
<1>4. sensor \in Seq(Nat) /\ Len(sensor) = 1 /\ sensor[1] = 1
  BY <1>2
<1>5. World(processes)
  BY <1>1, <1>3 DEF World
<1>6. Living /\ Waiting
  BY <1>2, <1>3, <1>4 DEF Living, Waiting
<1>7. Stored(processes, table, Len(processes) - Len(sensor))
  BY <1>2 DEF Stored, Apart
<1> QED BY <1>2, <1>3, <1>4, <1>5, <1>6, <1>7 DEF CorrelationInv

LEMMA SpawnKeeps == CorrelationInv /\ Spawn => CorrelationInv'
<1> SUFFICES ASSUME CorrelationInv, Spawn PROVE CorrelationInv'
  OBVIOUS
<1> DEFINE n == Len(processes)  g == n - Len(sensor)
<1>0. /\ n \in Nat /\ DOMAIN processes = 1..n
      /\ \A j \in DOMAIN processes : processes[j] \in Process
      /\ Len(sensor) \in Nat /\ Len(sensor) <= n /\ alive \subseteq DOMAIN processes
      /\ g \in 0..n
  <2>1. sensor \in Seq(Nat) /\ Len(sensor) <= n /\ alive \subseteq DOMAIN processes
    BY DEF CorrelationInv
  <2>2. n \in Nat /\ DOMAIN processes = 1..n /\ \A j \in DOMAIN processes : processes[j] \in Process
    BY WorldIs DEF CorrelationInv
  <2> QED BY <2>1, <2>2
<1>1. PICK pid \in {Min(Pids \ {processes[i].pid : i \in alive})}, parent \in alive,
           kind \in {"runtime", "helper", "tool"}, command \in Commands :
        processes' = Append(processes, [pid |-> pid, parent |-> parent, kind |-> kind,
                              command |-> IF kind = "tool" THEN command ELSE NoCommand])
  BY Zenon DEF Spawn
<1>2. /\ alive' = alive \cup {n + 1} /\ sensor' = Append(sensor, n + 1)
      /\ table' = table /\ logged' = {} /\ actions' = actions
      /\ {processes[i].pid : i \in alive} # Pids
  BY DEF Spawn
<1>3. pid \in Pids /\ \A i \in alive : processes[i].pid # pid
  <2> DEFINE U == {processes[i].pid : i \in alive}
  <2>1. U \subseteq Pids
    BY <1>0 DEF Process
  <2>2. Pids \ U # {} /\ Pids \ U \subseteq Nat /\ pid = Min(Pids \ U)
    BY <1>1, <1>2, <2>1
  <2>3. pid \in Pids \ U
    <3> HIDE DEF U
    <3> QED BY <2>2, MinIs
  <2> QED BY <2>3
<1> DEFINE x == [pid |-> pid, parent |-> parent, kind |-> kind,
                 command |-> IF kind = "tool" THEN command ELSE NoCommand]
<1>4. x \in Process /\ x.parent \in 0..n /\ x.pid = pid
  BY <1>0, <1>1, <1>3 DEF Process
<1> HIDE DEF x
<1>5. processes' = Append(processes, x)
  BY <1>1 DEF x
<1>6. World(processes) /\ World(Append(processes, x))
  <2>1. World(processes)
    BY DEF CorrelationInv
  <2>2. parent \in DOMAIN processes
    BY <1>0
  <2> QED BY <1>4, <2>1, <2>2, LineStays
<1>7. /\ Len(processes') = n + 1 /\ DOMAIN processes' = 1..n + 1
      /\ \A j \in 1..n : processes'[j] = processes[j]
      /\ processes'[n + 1] = x
  <2>1. processes \in Seq(Process)
    BY <1>6 DEF World
  <2> QED BY <1>0, <1>4, <1>5, <2>1
<1>8. /\ sensor' \in Seq(Nat) /\ Len(sensor') = Len(sensor) + 1
      /\ \A k \in 1..Len(sensor) : sensor'[k] = sensor[k]
      /\ sensor'[Len(sensor) + 1] = n + 1
  <2>1. sensor \in Seq(Nat)
    BY DEF CorrelationInv
  <2> QED BY <1>0, <1>2, <2>1
<1>9. alive' \subseteq DOMAIN processes' /\ Living'
  <2>1. alive' \subseteq 1..n + 1
    BY <1>0, <1>2
  <2>2. ASSUME NEW i \in alive', NEW j \in DOMAIN processes', processes'[j].pid = processes'[i].pid
        PROVE  j <= i
    <3>1. CASE i = n + 1
      BY <1>0, <1>7, <3>1
    <3>2. CASE i \in alive
      <4>1. processes'[i] = processes[i] /\ i \in 1..n
        BY <1>0, <1>7, <3>2
      <4>2. j # n + 1
        BY <1>3, <1>4, <1>7, <2>2, <3>2, <4>1
      <4>3. j \in DOMAIN processes /\ processes[j].pid = processes[i].pid
        BY <1>0, <1>7, <2>2, <4>1, <4>2
      <4> QED BY <3>2, <4>3 DEF CorrelationInv, Living
    <3> QED BY <1>2, <3>1, <3>2
  <2> QED BY <1>7, <2>1, <2>2 DEF Living
<1>10. Waiting'
  <2> SUFFICES ASSUME NEW k \in 1..Len(sensor')
               PROVE  sensor'[k] = Len(processes') - Len(sensor') + k
    BY DEF Waiting
  <2>1. CASE k \in 1..Len(sensor)
    <3>1. sensor[k] = n - Len(sensor) + k
      BY <2>1 DEF CorrelationInv, Waiting
    <3> QED BY <1>0, <1>7, <1>8, <2>1, <3>1
  <2>2. CASE k = Len(sensor) + 1
    BY <1>0, <1>7, <1>8, <2>2
  <2> QED BY <1>0, <1>8, <2>1, <2>2
<1>11. Len(processes') - Len(sensor') = g
  BY <1>0, <1>7, <1>8
<1> HIDE DEF g
<1>12. Stored(processes, table, g)
  BY DEF CorrelationInv, g
<1>13. /\ \A e \in Entry : Holds(processes, e, g) => Holds(Append(processes, x), e, g)
       /\ \A v : Judged(processes, v) => Judged(Append(processes, x), v)
  BY <1>0, <1>4, <1>6, HoldsStays
<1>14. Stored(Append(processes, x), table, g)
  <2>1. table \in Seq(Entry) /\ \A k \in DOMAIN table : table[k] \in Entry
    BY <1>12, AnyOf DEF Stored
  <2> QED BY <1>12, <1>13, <2>1 DEF Stored
<1>15. Stored(processes', table', g)
  BY <1>2, <1>5, <1>14
<1>16. Stored(processes, table, Len(processes) - Len(sensor))'
  BY <1>11, <1>15
<1>17. (\A v \in logged : Judged(processes, v))'
  BY <1>2
<1>18. World(processes)' /\ (Len(sensor) <= Len(processes))' /\ (actions \subseteq Commands)'
  BY <1>0, <1>2, <1>5, <1>6, <1>7, <1>8 DEF CorrelationInv
<1> QED BY <1>8, <1>9, <1>10, <1>16, <1>17, <1>18 DEF CorrelationInv

LEMMA ProcessKeeps == CorrelationInv /\ IngestProcess => CorrelationInv'
<1> SUFFICES ASSUME CorrelationInv, IngestProcess PROVE CorrelationInv'
  OBVIOUS
<1> DEFINE n == Len(processes)  g == n - Len(sensor)  i == g + 1
           t == upsert(table, i, FALSE)
           entry == newEntry(table, i, FALSE)
           where == classify(t, entry)
           by == IF where.inherited # NoAction THEN where.inherited ELSE findExplanation(entry)
           judged == where.inTree /\ ~where.isRoot /\ entry.kind = "tool"
<1>0. /\ n \in Nat /\ DOMAIN processes = 1..n /\ World(processes)
      /\ sensor \in Seq(Nat) /\ Len(sensor) \in Nat /\ Len(sensor) <= n /\ Len(sensor) # 0
      /\ g \in 0..n /\ i \in 1..n
  <2>1. sensor \in Seq(Nat) /\ Len(sensor) <= n /\ World(processes)
    BY DEF CorrelationInv
  <2>2. n \in Nat /\ DOMAIN processes = 1..n
    BY <2>1, WorldIs
  <2>3. sensor # <<>>
    BY DEF IngestProcess
  <2>4. Len(sensor) \in Nat /\ Len(sensor) # 0
    BY <2>1, <2>3
  <2> QED BY <2>1, <2>2, <2>4
<1>1. sensor[1] = i
  BY <1>0 DEF CorrelationInv, Waiting
<1>2. /\ sensor' = Tail(sensor) /\ processes' = processes /\ alive' = alive /\ actions' = actions
      /\ \/ table' = t /\ logged' = {}
         \/ /\ judged
            /\ table' = [k \in DOMAIN t |-> IF t[k] = entry THEN [entry EXCEPT !.explainedBy = by] ELSE t[k]]
            /\ logged' = {[process |-> i, by |-> by]}
  BY <1>1, Zenon DEF IngestProcess
<1>3. /\ sensor' \in Seq(Nat) /\ Len(sensor') = Len(sensor) - 1
      /\ \A k \in 1..Len(sensor) - 1 : sensor'[k] = sensor[k + 1]
  BY <1>0, <1>2
<1>4. Waiting' /\ Len(sensor') <= Len(processes') /\ Len(processes') - Len(sensor') = i
  <2>1. \A k \in 1..Len(sensor) - 1 : sensor[k + 1] = n - Len(sensor) + (k + 1)
    <3> SUFFICES ASSUME NEW k \in 1..Len(sensor) - 1 PROVE sensor[k + 1] = n - Len(sensor) + (k + 1)
      OBVIOUS
    <3>1. k + 1 \in 1..Len(sensor)
      BY <1>0
    <3> QED BY <3>1 DEF CorrelationInv, Waiting
  <2> QED BY <1>0, <1>2, <1>3, <2>1 DEF Waiting
<1>5. i \in 0..n /\ i \in DOMAIN processes /\ Stored(processes, table, g)
  BY <1>0 DEF CorrelationInv
<1> HIDE DEF t, entry, where, by, judged, n
<1>6. /\ Stored(processes, t, i) /\ entry \in Entry /\ entry.of = i
      /\ entry.command = processes[i].command /\ Holds(processes, entry, i)
  <2>1. g \in 0..Len(processes) /\ i \in 0..Len(processes) /\ i = g + 1
    BY <1>0, <1>5 DEF n
  <2>2. PICK no : no = FALSE
    BY Zenon
  <2>3. no \in BOOLEAN /\ ~no
    BY <2>2
  <2>4. t = upsert(table, i, no) /\ entry = newEntry(table, i, no)
    BY <2>2, Zenon DEF t, entry
  <2> HIDE DEF g, i
  <2>5. /\ Stored(processes, upsert(table, i, no), i)
        /\ newEntry(table, i, no) \in Entry /\ newEntry(table, i, no).of = i
        /\ newEntry(table, i, no).command = processes[i].command
        /\ Holds(processes, newEntry(table, i, no), i)
    BY <1>0, <1>5, <2>1, <2>3, UpsertKeeps
  <2> QED BY <2>4, <2>5
<1>7. by \in Causes /\ (by = NoAction \/ Lost(processes, i, n) \/ Came(processes, by, i))
  <2>1. CASE where.inherited # NoAction
    <3>1. by = where.inherited
      BY <2>1 DEF by
    <3>2. where.inherited \in Causes
      <4>1. t \in Seq(Entry) /\ classify(t, entry).inherited # NoAction
        BY <1>6, <2>1 DEF Stored, where
      <4>2. PICK k \in 1..MAX_DEPTH : /\ climb(t, entry)[k] \in Entry
                                      /\ classify(t, entry).inherited = climb(t, entry)[k].explainedBy
        BY <4>1, InheritedIs
      <4>3. \A x \in Entry : x.explainedBy \in Causes
        BY DEF Entry
      <4> QED BY <4>2, <4>3 DEF where
    <3>3. ~Lost(processes, i, n) => Came(processes, where.inherited, i)
      <4> SUFFICES ASSUME ~Lost(processes, i, Len(processes))
                   PROVE  Came(processes, classify(t, entry).inherited, i)
        BY DEF where, n
      <4>1. Fits(processes, entry)
        BY <1>6 DEF Holds
      <4>2. classify(t, entry).inherited # NoAction
        BY <2>1 DEF where
      <4> HIDE DEF i
      <4> QED BY <1>0, <1>5, <1>6, <4>1, <4>2, InheritedIsEarned
    <3> QED BY <3>1, <3>2, <3>3
  <2>2. CASE where.inherited = NoAction
    <3>1. by = findExplanation(entry)
      BY <2>2 DEF by
    <3>2. by = NoAction \/ (by = processes[i].command /\ by \in actions)
      BY <1>6, <3>1 DEF findExplanation
    <3>3. i \in Lineage(processes, i)
      BY <1>0, <1>5, LineIs
    <3>4. by \in Causes
      BY <3>2 DEF CorrelationInv, Causes
    <3> QED BY <3>2, <3>3, <3>4 DEF Came
  <2> QED BY <2>1, <2>2
<1> HIDE DEF g, i
<1>8. Stored(processes, table', i) /\ \A v \in logged' : Judged(processes, v)
  <2>1. CASE table' = t /\ logged' = {}
    BY <1>6, <2>1
  <2>2. CASE /\ table' = [k \in DOMAIN t |-> IF t[k] = entry THEN [entry EXCEPT !.explainedBy = by] ELSE t[k]]
             /\ logged' = {[process |-> i, by |-> by]}
    <3> DEFINE x == [entry EXCEPT !.explainedBy = by]
               s == [k \in DOMAIN t |-> IF t[k] = entry THEN x ELSE t[k]]
               v == [process |-> i, by |-> by]
    <3>1. x \in Entry /\ x.of = i /\ x.explainedBy = by /\ x.pid = entry.pid
          /\ x.ppid = entry.ppid /\ x.command = entry.command
      BY <1>6, <1>7 DEF Entry
    <3>2. Holds(processes, x, i)
      <4>1. Fits(processes, x) /\ Latest(processes, x, i)
        BY <1>6, <3>1 DEF Holds, Fits, Latest
      <4>2. Honest(processes, x, i)
        BY <1>7, <3>1 DEF Honest, n
      <4> QED BY <4>1, <4>2 DEF Holds
    <3>3. t \in Seq(Entry) /\ Apart(t) /\ \A k \in DOMAIN t : Holds(processes, t[k], i)
      BY <1>6 DEF Stored
    <3> HIDE DEF x
    <3>4. Len(t) \in Nat /\ DOMAIN t = 1..Len(t) /\ \A k \in DOMAIN t : t[k] \in Entry
      BY <3>3, AnyOf
    <3>5. s \in [1..Len(t) -> Entry]
      BY <3>1, <3>4
    <3>6. s \in Seq(Entry) /\ DOMAIN s = DOMAIN t
      <4> HIDE DEF s
      <4> QED BY <3>4, <3>5, ListOf
    <3>7. \A k \in DOMAIN t : /\ s[k].pid = t[k].pid
                              /\ s[k] = x \/ s[k] = t[k]
      BY <3>1
    <3> HIDE DEF s
    <3>8. Stored(processes, s, i)
      BY <3>2, <3>3, <3>6, <3>7 DEF Stored, Apart
    <3>9. Judged(processes, v)
      BY <1>0, <1>5, <1>7 DEF Judged, n
    <3>10. table' = s /\ logged' = {v}
      BY <2>2 DEF s, x
    <3> HIDE DEF v
    <3> QED BY <3>8, <3>9, <3>10
  <2> QED BY <1>2, <2>1, <2>2
<1>9. Stored(processes, table, Len(processes) - Len(sensor))'
  BY <1>2, <1>4, <1>8
<1>10. (\A v \in logged : Judged(processes, v))' /\ World(processes)' /\ Living'
       /\ (alive \subseteq DOMAIN processes)' /\ (actions \subseteq Commands)'
  <2>1. Living /\ alive \subseteq DOMAIN processes /\ actions \subseteq Commands
    BY DEF CorrelationInv
  <2> QED BY <1>0, <1>2, <1>8, <2>1 DEF Living
<1> QED BY <1>3, <1>4, <1>9, <1>10 DEF CorrelationInv

(* A snapshot: the function that listed defines exists, and every row of it *)
(* is of the last process that had its pid.                                 *)
Listed(rows, n, f) ==
  f = [k \in 0..n |-> IF k = 0 THEN table ELSE upsert(f[k - 1], rows[k], TRUE)]

LEMMA ListedExists ==
  ASSUME NEW rows, NEW n \in Nat
  PROVE  \E f : Listed(rows, n, f)
<1> DEFINE T == {m \in Nat : ~\E f : Listed(rows, m, f)}
           F(x, k) == upsert(x, rows[k], TRUE)
<1> SUFFICES ASSUME T # {} PROVE FALSE
  OBVIOUS
<1>0. \A m, f : Listed(rows, m, f) <=> f = [k \in 0..m |-> IF k = 0 THEN table ELSE F(f[k - 1], k)]
  BY Zenon DEF Listed
<1>1. PICK m \in T : \A k \in T : m <= k
  <2>1. T \subseteq Nat
    OBVIOUS
  <2> HIDE DEF T
  <2> QED BY <2>1, LeastNumber
<1> HIDE DEF F
<1>2. m # 0
  <2> DEFINE z == [k \in 0..0 |-> table]
  <2>1. z = [k \in 0..0 |-> IF k = 0 THEN table ELSE F(z[k - 1], k)]
    OBVIOUS
  <2> QED BY <1>0, <2>1
<1>3. m \in Nat /\ m - 1 \in Nat /\ m - 1 \notin T
  BY <1>1, <1>2
<1>4. PICK f : Listed(rows, m - 1, f)
  BY <1>3
<1> DEFINE g == [k \in 0..m |-> IF k < m THEN f[k] ELSE F(f[m - 1], m)]
<1>5. \A k \in 0..m - 1 : f[k] = IF k = 0 THEN table ELSE F(f[k - 1], k)
  BY <1>0, <1>4
<1>6. ASSUME NEW k \in 0..m PROVE g[k] = IF k = 0 THEN table ELSE F(g[k - 1], k)
  <2>1. CASE k < m
    <3>1. k \in 0..m - 1 /\ g[k] = f[k] /\ (k # 0 => g[k - 1] = f[k - 1])
      BY <1>3, <2>1
    <3> QED BY <1>5, <3>1
  <2>2. CASE k = m
    <3>1. g[m] = F(f[m - 1], m) /\ g[m - 1] = f[m - 1]
      BY <1>2, <1>3
    <3> QED BY <1>2, <2>2, <3>1
  <2> QED BY <1>3, <2>1, <2>2
<1>7. g = [k \in 0..m |-> IF k = 0 THEN table ELSE F(g[k - 1], k)]
  <2> DEFINE h == [k \in 0..m |-> IF k = 0 THEN table ELSE F(g[k - 1], k)]
  <2>1. \A k \in 0..m : h[k] = g[k]
    BY <1>6
  <2>2. h = [k \in 0..m |-> h[k]] /\ g = [k \in 0..m |-> g[k]]
    OBVIOUS
  <2> QED BY <2>1, <2>2
<1>8. Listed(rows, m, g)
  <2> HIDE DEF g
  <2> QED BY <1>0, <1>7
<1> QED BY <1>8

LEMMA SnapshotKeeps == CorrelationInv /\ IngestSnapshot => CorrelationInv'
<1> SUFFICES ASSUME CorrelationInv, IngestSnapshot PROVE CorrelationInv'
  OBVIOUS
<1> DEFINE n == Cardinality(alive)  g == Len(processes) - Len(sensor)
<1>0. /\ World(processes) /\ Len(processes) \in Nat /\ DOMAIN processes = 1..Len(processes)
      /\ alive \subseteq DOMAIN processes /\ g \in 0..Len(processes)
  <2>1. World(processes) /\ sensor \in Seq(Nat) /\ Len(sensor) <= Len(processes)
        /\ alive \subseteq DOMAIN processes
    BY DEF CorrelationInv
  <2>2. Len(processes) \in Nat /\ DOMAIN processes = 1..Len(processes) /\ Len(sensor) \in Nat
    BY <2>1, WorldIs
  <2> QED BY <2>1, <2>2
<1>1. n \in Nat
  <2>1. IsFiniteSet(1..Len(processes))
    <3>1. 1 \in Int /\ Len(processes) \in Int
      BY <1>0
    <3> QED BY <3>1, FS_Interval
  <2> QED BY <1>0, <2>1, FS_Subset, FS_CardinalityType
<1>2. PICK rows \in orders : table' = listed(rows)
  BY DEF IngestSnapshot
<1>3. \A k \in 1..n : rows[k] \in alive
  BY <1>2 DEF orders
<1> DEFINE f == CHOOSE h : Listed(rows, n, h)
<1>4. listed(rows) = f[n]
  BY Zenon DEF listed, Listed
<1>5. Listed(rows, n, f)
  <2> HIDE DEF n
  <2> QED BY <1>1, ListedExists
<1> HIDE DEF f, n
<1>6. PICK yes : yes = TRUE
  BY Zenon
<1>7. f[0] = table /\ \A k \in 1..n : f[k] = upsert(f[k - 1], rows[k], yes)
  <2> DEFINE F(x, k) == upsert(x, rows[k], yes)
  <2>1. f = [k \in 0..n |-> IF k = 0 THEN table ELSE F(f[k - 1], k)]
    BY <1>5, <1>6, Zenon DEF Listed
  <2> HIDE DEF F
  <2>2. \A k \in 0..n : f[k] = IF k = 0 THEN table ELSE F(f[k - 1], k)
    BY <2>1
  <2>3. 0 \in 0..n /\ \A k \in 1..n : k \in 0..n /\ k # 0
    BY <1>1
  <2>4. f[0] = table /\ \A k \in 1..n : f[k] = F(f[k - 1], k)
    BY <2>2, <2>3
  <2> QED BY <2>4 DEF F
<1> HIDE DEF g
<1> DEFINE T == {k \in 0..n : ~Stored(processes, f[k], g)}
<1>8. Stored(processes, table, g)
  BY DEF CorrelationInv, g
<1>9. T = {}
  <2> SUFFICES ASSUME T # {} PROVE FALSE
    OBVIOUS
  <2>1. PICK k \in T : \A j \in T : k <= j
    <3>1. T \subseteq Nat
      OBVIOUS
    <3> HIDE DEF T
    <3> QED BY <3>1, LeastNumber
  <2>2. k \in 1..n /\ k - 1 \in 0..n /\ k - 1 \notin T
    <3>1. k \in 0..n /\ k # 0
      BY <1>7, <1>8, <2>1
    <3>2. k \in 1..n /\ k - 1 \in 0..n /\ ~(k <= k - 1)
      BY <1>1, <3>1
    <3> HIDE DEF T
    <3> QED BY <2>1, <3>2
  <2>3. Stored(processes, f[k - 1], g)
    BY <2>2
  <2> DEFINE i == rows[k]  t == f[k - 1]
  <2>4. i \in alive /\ i \in DOMAIN processes
    BY <1>0, <1>3, <2>2
  <2>5. \A j \in DOMAIN processes : processes[j].pid = processes[i].pid => j <= i
    BY <2>4 DEF CorrelationInv, Living
  <2>6. yes \in BOOLEAN /\ yes
    BY <1>6
  <2> HIDE DEF i, t
  <2>7. Stored(processes, t, g)
    BY <2>3 DEF t
  <2>8. Stored(processes, upsert(t, i, yes), g)
    BY <1>0, <2>4, <2>5, <2>6, <2>7, UpsertKeeps
  <2>9. f[k] = upsert(t, i, yes)
    BY <1>7, <2>2 DEF i, t
  <2>10. Stored(processes, f[k], g)
    BY <2>8, <2>9
  <2> QED BY <2>1, <2>10
<1>10. Stored(processes, table', g)
  <2>1. n \in 0..n
    BY <1>1
  <2> QED BY <1>2, <1>4, <1>9, <2>1
<1>11. /\ processes' = processes /\ alive' = alive /\ sensor' = sensor
       /\ actions' = actions /\ logged' = {}
  BY DEF IngestSnapshot
<1>12. Stored(processes, table, Len(processes) - Len(sensor))'
  BY <1>10, <1>11 DEF g
<1>13. (\A v \in logged : Judged(processes, v))'
  BY <1>11
<1> QED BY <1>11, <1>12, <1>13 DEF CorrelationInv, Living, Waiting

LEMMA CorrelationSteps == CorrelationInv /\ [CorrelationNext]_correlationVars => CorrelationInv'
<1> SUFFICES ASSUME CorrelationInv, [CorrelationNext]_correlationVars PROVE CorrelationInv'
  OBVIOUS
<1>1. CASE Spawn
  BY <1>1, SpawnKeeps
<1>2. CASE IngestProcess
  BY <1>2, ProcessKeeps
<1>3. CASE IngestSnapshot
  BY <1>3, SnapshotKeeps
<1>4. ASSUME processes' = processes, alive' \subseteq alive, sensor' = sensor, logged' \in {logged, {}},
             actions' \subseteq Commands, table' = table \/ table' = <<>>
      PROVE  CorrelationInv'
  <2>1. Stored(processes, table', Len(processes) - Len(sensor))
    <3>1. CASE table' = table
      BY <3>1 DEF CorrelationInv
    <3>2. CASE table' = <<>>
      BY <3>2 DEF Stored, Apart
    <3> QED BY <1>4, <3>1, <3>2
  <2>2. Stored(processes, table, Len(processes) - Len(sensor))'
    BY <1>4, <2>1
  <2>3. (\A v \in logged : Judged(processes, v))'
    BY <1>4 DEF CorrelationInv
  <2>4. (alive \subseteq DOMAIN processes)' /\ Living'
    BY <1>4 DEF CorrelationInv, Living
  <2> QED BY <1>4, <2>2, <2>3, <2>4 DEF CorrelationInv, Waiting
<1>5. CASE ProcessEnds
  BY <1>4, <1>5 DEF ProcessEnds, CorrelationInv
<1>6. CASE NoteAction
  BY <1>4, <1>6 DEF NoteAction, CorrelationInv
<1>7. CASE WindowCloses
  BY <1>4, <1>7 DEF WindowCloses, CorrelationInv
<1>8. CASE ForgetAll
  BY <1>4, <1>8 DEF ForgetAll, CorrelationInv
<1>9. CASE UNCHANGED correlationVars
  BY <1>4, <1>9 DEF correlationVars, CorrelationInv
<1> QED BY <1>1, <1>2, <1>3, <1>5, <1>6, <1>7, <1>8, <1>9 DEF CorrelationNext

CorrelationSpec == CorrelationInit /\ [][CorrelationNext]_correlationVars

(* What explains a process is its own or that of one it comes from, unless  *)
(* another has got the pid of one it comes from: see Correlation.           *)
THEOREM ExplanationsEarned == CorrelationSpec => []ExplanationsAreEarned
<1>1. CorrelationInv => ExplanationsAreEarned
  <2> SUFFICES ASSUME CorrelationInv, NEW v \in logged
               PROVE  v.by = NoAction \/ Estranged(v.process) \/ Earned(v.by, v.process)
    BY DEF ExplanationsAreEarned
  <2>1. /\ World(processes)
        /\ v.by = NoAction \/ Lost(processes, v.process, Len(processes)) \/ Came(processes, v.by, v.process)
    BY DEF CorrelationInv, Judged
  <2> QED BY <2>1, SameNames
<1> QED BY <1>1, CorrelationStart, CorrelationSteps, PTL DEF CorrelationSpec
=============================================================================
