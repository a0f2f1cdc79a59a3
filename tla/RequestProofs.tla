---------------------------- MODULE RequestProofs ----------------------------
(***************************************************************************)
(* What is proved, for every value of their constants, of what a request   *)
(* is made into: the chain of lanes a route resolves to, with the state    *)
(* that outlives a request, the conversation that compression leaves, and  *)
(* the reply as it is streamed back.                                       *)
(***************************************************************************)
EXTENDS MCRequest, FiniteSetTheorems, SequenceTheorems, WellFoundedInduction, TLAPS

(* A non-empty set of numbers has a least element.                          *)
LEMMA LeastNumber ==
  ASSUME NEW T, T \subseteq Nat, T # {}
  PROVE  \E n \in T : \A m \in T : n <= m
<1> DEFINE below == OpToRel(<, Nat)
<1>1. IsWellFoundedOn(below, Nat)
  BY NatLessThanWellFounded
<1>2. \E x \in T : \A y \in T : ~ (<<y, x>> \in below)
  <2> HIDE DEF below
  <2> QED BY <1>1, WFMin
<1>3. PICK x \in T : \A y \in T : ~ (<<y, x>> \in below)
  BY <1>2
<1>4. ASSUME NEW y \in T PROVE x <= y
  <2>1. ~ (<<y, x>> \in below)
    BY <1>3
  <2>2. ~ (y < x)
    BY <2>1 DEF OpToRel
  <2> QED BY <2>2
<1> QED BY <1>4

LEMMA WrapsAround ==
  ASSUME NEW n \in Nat, n > 0, NEW c \in 0 .. n - 1
  PROVE  (c + 1) % n = IF c + 1 < n THEN c + 1 ELSE 0
OBVIOUS

(* A linear order of the lanes of S: each is before or behind another.       *)
Linear(R, S) ==
  /\ \A a \in S : <<a, a>> \notin R
  /\ \A a \in S, b \in S : a = b \/ <<a, b>> \in R \/ <<b, a>> \in R
  /\ \A a \in S, b \in S, c \in S : <<a, b>> \in R /\ <<b, c>> \in R => <<a, c>> \in R

(* Rotated, it is one still: those at the front are before the others.      *)
LEMMA CutInTwo ==
  ASSUME NEW S, NEW R, Linear(R, S), NEW T, NEW Q,
         \A a \in S, b \in S :
           <<a, b>> \in Q <=> (a \in T /\ b \notin T) \/ ((a \in T <=> b \in T) /\ <<a, b>> \in R)
  PROVE  Linear(Q, S)
BY DEF Linear

LEMMA RotateOrders ==
  ASSUME NEW lanes, NEW at, Linear(byPriority, lanes)
  PROVE  Linear(rotate(lanes, at), lanes)
<1> DEFINE ahead(p) == Cardinality({q \in lanes : <<q, p>> \in byPriority}) >= at
           T == {p \in lanes : ahead(p)}
<1>1. \A a \in lanes, b \in lanes :
        <<a, b>> \in rotate(lanes, at)
        <=> (ahead(a) /\ ~ahead(b)) \/ ((ahead(a) <=> ahead(b)) /\ <<a, b>> \in byPriority)
  BY DEF rotate
<1>2. \A a \in lanes : ahead(a) <=> a \in T
  OBVIOUS
<1> HIDE DEF ahead, T
<1>3. \A a \in lanes, b \in lanes :
        <<a, b>> \in rotate(lanes, at)
        <=> (a \in T /\ b \notin T) \/ ((a \in T <=> b \in T) /\ <<a, b>> \in byPriority)
  BY <1>1, <1>2
<1> QED BY <1>3, CutInTwo

Ahead(R, S, p) == {q \in S : <<q, p>> \in R}
Rank(R, S, p) == Cardinality(Ahead(R, S, p))

LEMMA RankGrows ==
  ASSUME NEW S, IsFiniteSet(S), NEW R, Linear(R, S)
  PROVE  /\ Cardinality(S) \in Nat
         /\ \A p \in S : Rank(R, S, p) \in 0 .. Cardinality(S) - 1
         /\ \A a \in S, b \in S : <<a, b>> \in R <=> Rank(R, S, a) < Rank(R, S, b)
         /\ \A a \in S, b \in S : Rank(R, S, a) = Rank(R, S, b) => a = b
<1>1. \A p \in S : Ahead(R, S, p) \in SUBSET S /\ p \notin Ahead(R, S, p)
  BY DEF Ahead, Linear
<1>2. Cardinality(S) \in Nat
  BY FS_CardinalityType
<1>3. \A p \in S : IsFiniteSet(Ahead(R, S, p)) /\ Rank(R, S, p) \in Nat
  BY <1>1, FS_Subset, FS_CardinalityType DEF Rank
<1>4. ASSUME NEW p \in S PROVE Rank(R, S, p) < Cardinality(S)
  <2>1. /\ Cardinality(Ahead(R, S, p)) <= Cardinality(S)
        /\ Cardinality(S) = Cardinality(Ahead(R, S, p)) => S = Ahead(R, S, p)
    BY <1>1, FS_Subset
  <2> QED BY <1>1, <1>2, <1>3, <2>1 DEF Rank
<1>5. ASSUME NEW a \in S, NEW b \in S, <<a, b>> \in R PROVE Rank(R, S, a) < Rank(R, S, b)
  <2>1. Ahead(R, S, a) \in SUBSET Ahead(R, S, b)
    BY <1>5 DEF Ahead, Linear
  <2>2. a \in Ahead(R, S, b) /\ a \notin Ahead(R, S, a)
    BY <1>1, <1>5 DEF Ahead
  <2>3. /\ Cardinality(Ahead(R, S, a)) <= Cardinality(Ahead(R, S, b))
        /\ Cardinality(Ahead(R, S, b)) = Cardinality(Ahead(R, S, a)) => Ahead(R, S, b) = Ahead(R, S, a)
    BY <1>3, <2>1, FS_Subset
  <2>4. Rank(R, S, a) # Rank(R, S, b)
    BY <2>2, <2>3 DEF Rank
  <2> QED BY <1>3, <2>3, <2>4 DEF Rank
<1>6. ASSUME NEW a \in S, NEW b \in S, Rank(R, S, a) < Rank(R, S, b) PROVE <<a, b>> \in R
  <2>1. ~(Rank(R, S, b) < Rank(R, S, a)) /\ a # b
    BY <1>3, <1>6
  <2>2. <<a, b>> \in R \/ <<b, a>> \in R
    BY <2>1 DEF Linear
  <2>3. <<b, a>> \notin R
    BY <1>5, <2>1
  <2> QED BY <2>2, <2>3
<1>7. ASSUME NEW a \in S, NEW b \in S, Rank(R, S, a) = Rank(R, S, b) PROVE a = b
  <2>1. ~(Rank(R, S, b) < Rank(R, S, a)) /\ ~(Rank(R, S, a) < Rank(R, S, b))
    BY <1>3, <1>7
  <2>2. <<a, b>> \notin R /\ <<b, a>> \notin R
    BY <1>5, <2>1
  <2> QED BY <2>2 DEF Linear
<1>8. \A p \in S : Rank(R, S, p) \in 0 .. Cardinality(S) - 1
  BY <1>2, <1>3, <1>4
<1> QED BY <1>2, <1>5, <1>6, <1>7, <1>8

(* Every place has its lane.                                                *)
LEMMA EveryRank ==
  ASSUME NEW S, IsFiniteSet(S), NEW R, Linear(R, S), NEW k \in 0 .. Cardinality(S) - 1
  PROVE  \E p \in S : Rank(R, S, p) = k
<1> DEFINE n == Cardinality(S)
           f == [p \in S |-> Rank(R, S, p)]
<1>1. /\ n \in Nat /\ \A p \in S : Rank(R, S, p) \in 0 .. n - 1
      /\ \A a \in S, b \in S : Rank(R, S, a) = Rank(R, S, b) => a = b
  BY RankGrows
<1>2. f \in Injection(S, 0 .. n - 1)
  BY <1>1 DEF Injection, IsInjective
<1>3. IsFiniteSet(0 .. n - 1) /\ Cardinality(0 .. n - 1) = n
  <2>1. 0 \in Int /\ n - 1 \in Int
    BY <1>1
  <2>2. IsFiniteSet(0 .. n - 1) /\ Cardinality(0 .. n - 1) = IF 0 > n - 1 THEN 0 ELSE n - 1 - 0 + 1
    BY <2>1, FS_Interval
  <2> QED BY <1>1, <2>2
<1>4. f \in Surjection(S, 0 .. n - 1)
  <2> HIDE DEF f
  <2> QED BY <1>2, <1>3, FS_Injection
<1>5. \E p \in S : f[p] = k
  BY <1>4 DEF Surjection
<1> QED BY <1>5

(* The lanes in their order: each lane has its place, at its rank.          *)
LEMMA InOrderIs ==
  ASSUME NEW S, IsFiniteSet(S), NEW R, Linear(R, S)
  PROVE  /\ Cardinality(S) \in Nat /\ DOMAIN inOrder(S, R) = 1 .. Cardinality(S)
         /\ inOrder(S, R) \in Seq(S) /\ Len(inOrder(S, R)) = Cardinality(S)
         /\ \A i \in 1 .. Cardinality(S) :
              inOrder(S, R)[i] \in S /\ Rank(R, S, inOrder(S, R)[i]) = i - 1
         /\ \A p \in S : /\ Rank(R, S, p) + 1 \in 1 .. Cardinality(S)
                         /\ inOrder(S, R)[Rank(R, S, p) + 1] = p
<1> DEFINE n == Cardinality(S)
           s == inOrder(S, R)
           At(i) == CHOOSE p \in S : Rank(R, S, p) = i - 1
<1>1. /\ n \in Nat /\ \A p \in S : Rank(R, S, p) \in 0 .. n - 1
      /\ \A a \in S, b \in S : Rank(R, S, a) = Rank(R, S, b) => a = b
  BY RankGrows
<1>2. s = [i \in 1 .. n |-> At(i)]
  BY DEF inOrder, Rank, Ahead
<1>3. ASSUME NEW i \in 1 .. n PROVE s[i] \in S /\ Rank(R, S, s[i]) = i - 1
  <2>1. i - 1 \in 0 .. n - 1
    BY <1>1
  <2>2. \E p \in S : Rank(R, S, p) = i - 1
    BY <2>1, EveryRank
  <2>3. At(i) \in S /\ Rank(R, S, At(i)) = i - 1
    BY <2>2
  <2> HIDE DEF At
  <2> QED BY <1>2, <2>3
<1>4. DOMAIN s = 1 .. n
  BY <1>2
<1> HIDE DEF s
<1>5. s \in Seq(S) /\ Len(s) = n
  <2>1. s = [i \in 1 .. n |-> s[i]]
    BY <1>2
  <2> QED BY <1>1, <1>3, <2>1
<1>6. ASSUME NEW p \in S PROVE Rank(R, S, p) + 1 \in 1 .. n /\ s[Rank(R, S, p) + 1] = p
  <2>1. Rank(R, S, p) + 1 \in 1 .. n /\ (Rank(R, S, p) + 1) - 1 = Rank(R, S, p)
    BY <1>1
  <2>2. s[Rank(R, S, p) + 1] \in S /\ Rank(R, S, s[Rank(R, S, p) + 1]) = Rank(R, S, p)
    BY <1>3, <2>1
  <2> QED BY <1>1, <2>1, <2>2
<1> QED BY <1>1, <1>3, <1>4, <1>5, <1>6 DEF s

(* What the state holds.                                                    *)
StrategiesType ==
  /\ disabled \in SUBSET Providers /\ seen \in [Providers -> Observations]
  /\ cursor \in Nat /\ pinned \in Providers \cup {Nobody}

LEMMA OrdersFewer ==
  ASSUME NEW S, NEW T \in SUBSET S, NEW R, Linear(R, S)
  PROVE  Linear(R, T)
BY DEF Linear

LEMMA PriorityOrders == Linear(byPriority, Providers)
<1> DEFINE earlier(a, b) == Profile[a].priority < Profile[b].priority
                            \/ (Profile[a].priority = Profile[b].priority /\ Profile[a].name < Profile[b].name)
<1>1. \A a \in Providers, b \in Providers : <<a, b>> \in byPriority <=> earlier(a, b)
  BY DEF byPriority
<1>2. \A a \in Providers : Profile[a].priority \in Nat /\ Profile[a].name \in Nat
  BY StrategiesAssumption DEF StrategiesAssumption
<1>3. \A a \in Providers, b \in Providers : Profile[a].name = Profile[b].name => a = b
  BY StrategiesAssumption DEF StrategiesAssumption
<1>4. \A a \in Providers : ~earlier(a, a)
  BY <1>2
<1>5. \A a \in Providers, b \in Providers : a = b \/ earlier(a, b) \/ earlier(b, a)
  BY <1>2, <1>3
<1>6. \A a \in Providers, b \in Providers, c \in Providers : earlier(a, b) /\ earlier(b, c) => earlier(a, c)
  BY <1>2
<1> HIDE DEF earlier
<1> QED BY <1>1, <1>4, <1>5, <1>6 DEF Linear

LEMMA FileOrders == Linear(asConfigured, Providers)
<1>1. Configured \in Seq(Providers) /\ IsInjective(Configured)
  BY StrategiesAssumption DEF StrategiesAssumption
<1>2. \A i \in DOMAIN Configured : i \in Int /\ Configured[i] \in Providers
  BY <1>1 DEF Providers, Range
<1>3. \A a \in Providers : \E i \in DOMAIN Configured : a = Configured[i]
  BY DEF Providers, Range
<1>4. \A i \in DOMAIN Configured, j \in DOMAIN Configured : Configured[i] = Configured[j] => i = j
  BY <1>1 DEF IsInjective
<1>5. \A i \in DOMAIN Configured, j \in DOMAIN Configured :
        <<Configured[i], Configured[j]>> \in asConfigured <=> i < j
  <2> TAKE i \in DOMAIN Configured, j \in DOMAIN Configured
  <2>1. ASSUME i < j PROVE <<Configured[i], Configured[j]>> \in asConfigured
    BY <1>2, <2>1 DEF asConfigured
  <2>2. ASSUME <<Configured[i], Configured[j]>> \in asConfigured PROVE i < j
    <3>1. PICK k, l \in DOMAIN Configured : k < l /\ Configured[i] = Configured[k] /\ Configured[j] = Configured[l]
      BY <2>2 DEF asConfigured
    <3> QED BY <1>4, <3>1
  <2> QED BY <2>1, <2>2
<1>6. \A a \in Providers : <<a, a>> \notin asConfigured
  <2> TAKE a \in Providers
  <2>1. PICK i \in DOMAIN Configured : a = Configured[i]
    BY <1>3
  <2>2. ~(i < i)
    BY <1>2
  <2> QED BY <1>5, <2>1, <2>2
<1>7. \A a \in Providers, b \in Providers : a = b \/ <<a, b>> \in asConfigured \/ <<b, a>> \in asConfigured
  <2> TAKE a \in Providers, b \in Providers
  <2>1. PICK i \in DOMAIN Configured, j \in DOMAIN Configured : a = Configured[i] /\ b = Configured[j]
    BY <1>3
  <2>2. i = j \/ i < j \/ j < i
    BY <1>2
  <2> QED BY <1>5, <2>1, <2>2
<1>8. \A a \in Providers, b \in Providers, c \in Providers :
        <<a, b>> \in asConfigured /\ <<b, c>> \in asConfigured => <<a, c>> \in asConfigured
  <2> TAKE a \in Providers, b \in Providers, c \in Providers
  <2>1. PICK i \in DOMAIN Configured, j \in DOMAIN Configured, k \in DOMAIN Configured :
          a = Configured[i] /\ b = Configured[j] /\ c = Configured[k]
    BY <1>3
  <2>2. i < j /\ j < k => i < k
    BY <1>2
  <2> QED BY <1>5, <2>1, <2>2
<1> QED BY <1>6, <1>7, <1>8 DEF Linear

LEMMA ProvidersFinite == IsFiniteSet(Providers)
<1> DEFINE n == Len(Configured)
<1>1. Configured \in Seq(Providers) /\ IsInjective(Configured)
  BY StrategiesAssumption DEF StrategiesAssumption
<1>2. n \in Nat /\ DOMAIN Configured = 1 .. n
  BY <1>1
<1>3. IsFiniteSet(1 .. n)
  <2>1. 1 \in Int /\ n \in Int
    BY <1>2
  <2> HIDE DEF n
  <2> QED BY <2>1, FS_Interval
<1>4. Configured \in Surjection(1 .. n, Providers)
  <2>1. Configured \in [1 .. n -> Providers]
    BY <1>1, <1>2
  <2>2. \A p \in Providers : \E i \in 1 .. n : Configured[i] = p
    BY <1>2 DEF Providers, Range
  <2> QED BY <2>1, <2>2 DEF Surjection
<1> HIDE DEF n
<1> QED BY <1>3, <1>4, FS_Surjection

(* The strategies that sort give every lane a number.                       *)
Sorting == STRATEGIES \ {"priority", "roundrobin", "randomized", "sticky"}

LEMMA ScoreType ==
  ASSUME StrategiesType, NEW strategy \in Sorting, NEW p \in Providers
  PROVE  score(strategy, p) \in Int
<1>1. /\ Profile[p].price \in Nat /\ Profile[p].window \in Nat
      /\ Profile[p].billing \in {"subscription", "local", "free-tier", "metered"}
  BY StrategiesAssumption DEF StrategiesAssumption
<1>2. seen[p].latency \in Nat /\ seen[p].failures \in Nat /\ seen[p].headroom \in Nat
  <2>1. seen[p] \in Observations
    BY DEF StrategiesType
  <2> QED BY <2>1, StrategiesAssumption DEF StrategiesAssumption
<1>3. PromptTokens \in Nat
  BY StrategiesAssumption DEF StrategiesAssumption
<1> QED BY <1>1, <1>2, <1>3 DEF score, Sorting, STRATEGIES, Infinity, Behind

LEMMA SortOrders ==
  ASSUME NEW strategy, NEW lanes \in SUBSET Providers,
         \A p \in lanes : score(strategy, p) \in Int
  PROVE  Linear(sortBy(strategy, lanes), lanes)
<1> DEFINE of(p) == score(strategy, p)
<1>1. \A p \in lanes : of(p) \in Int
  OBVIOUS
<1>2. \A a \in lanes, b \in lanes :
        <<a, b>> \in sortBy(strategy, lanes)
        <=> of(a) < of(b) \/ (of(a) = of(b) /\ <<a, b>> \in IF of(a) = Infinity THEN asConfigured ELSE byPriority)
  BY DEF sortBy
<1>3. Linear(byPriority, lanes) /\ Linear(asConfigured, lanes)
  BY PriorityOrders, FileOrders, OrdersFewer
<1> HIDE DEF of
<1> QED BY <1>1, <1>2, <1>3 DEF Linear

LEMMA StrategyOrders ==
  ASSUME StrategiesType, NEW strategy \in STRATEGIES, NEW lanes \in SUBSET Providers,
         NEW from \in Nat, NEW luck \in Lucks
  PROVE  Linear(order(strategy, lanes, from, luck), lanes)
<1>1. Linear(byPriority, lanes)
  BY PriorityOrders, OrdersFewer
<1>2. CASE strategy = "priority"
  BY <1>1, <1>2 DEF order
<1>3. CASE strategy = "roundrobin"
  <2>1. order(strategy, lanes, from, luck) = rotate(lanes, advanced(from, lanes))
    BY <1>3 DEF order
  <2> QED BY <1>1, <2>1, RotateOrders
<1>4. CASE strategy = "randomized"
  <2>1. \A p \in Providers, q \in Providers : luck[p] \in Nat /\ (luck[p] = luck[q] => p = q)
    BY StrategiesAssumption DEF StrategiesAssumption
  <2>2. order(strategy, lanes, from, luck) = {pair \in lanes \X lanes : luck[pair[1]] < luck[pair[2]]}
    BY <1>4 DEF order
  <2>3. \A a \in lanes, b \in lanes : <<a, b>> \in order(strategy, lanes, from, luck) <=> luck[a] < luck[b]
    BY <2>2
  <2>4. \A a \in lanes : luck[a] \in Nat
    BY <2>1
  <2>5. \A a \in lanes, b \in lanes : a = b \/ luck[a] < luck[b] \/ luck[b] < luck[a]
    BY <2>1, <2>4
  <2>6. \A a \in lanes, b \in lanes, c \in lanes : luck[a] < luck[b] /\ luck[b] < luck[c] => luck[a] < luck[c]
    BY <2>4
  <2>7. \A a \in lanes : ~(luck[a] < luck[a])
    BY <2>4
  <2> QED BY <2>3, <2>5, <2>6, <2>7 DEF Linear
<1>5. CASE strategy = "sticky"
  <2>1. \A a \in lanes, b \in lanes :
          <<a, b>> \in sticky(lanes) <=> a # b /\ (a = pinned \/ (b # pinned /\ <<a, b>> \in byPriority))
    BY DEF sticky
  <2>2. Linear(sticky(lanes), lanes)
    BY <1>1, <2>1 DEF Linear
  <2>3. order(strategy, lanes, from, luck) = sticky(lanes)
    BY <1>5 DEF order
  <2> QED BY <2>2, <2>3
<1>6. CASE strategy \in Sorting
  <2>1. Linear(sortBy(strategy, lanes), lanes)
    BY <1>6, ScoreType, SortOrders
  <2>2. order(strategy, lanes, from, luck) = sortBy(strategy, lanes)
    BY <1>6 DEF order, Sorting
  <2> QED BY <2>1, <2>2
<1> QED BY <1>2, <1>3, <1>4, <1>5, <1>6 DEF Sorting

-----------------------------------------------------------------------------
LEMMA SequenceIs ==
  ASSUME NEW T, NEW s \in Seq(T)
  PROVE  /\ Len(s) \in Nat /\ DOMAIN s = 1 .. Len(s)
         /\ \A i \in 1 .. Len(s) : s[i] \in T
         /\ s = [i \in 1 .. Len(s) |-> s[i]]
OBVIOUS

LEMMA SequenceOf ==
  ASSUME NEW T, NEW m \in Nat, NEW s, s = [i \in 1 .. m |-> s[i]], \A i \in 1 .. m : s[i] \in T
  PROVE  s \in Seq(T) /\ Len(s) = m
OBVIOUS

LEMMA SequencesJoined ==
  ASSUME NEW T, NEW s \in Seq(T), NEW t \in Seq(T)
  PROVE  /\ s \o t \in Seq(T) /\ DOMAIN (s \o t) = 1 .. Len(s) + Len(t)
         /\ \A i \in 1 .. Len(s) : (s \o t)[i] = s[i]
         /\ \A i \in Len(s) + 1 .. Len(s) + Len(t) : (s \o t)[i] = t[i - Len(s)]
OBVIOUS

Placing(chain) == {chain[i].provider : i \in DOMAIN chain}

(* A chain of lanes of the pool in tiers 1 .. n: none twice, no tier before  *)
(* an earlier one, and no lane in a tier when an earlier one admits it.      *)
IsChain(chain, tiers, n) ==
  /\ chain \in Seq([provider : pool, tier : 1 .. n])
  /\ \A i \in DOMAIN chain, j \in DOMAIN chain :
       i < j => chain[i].provider # chain[j].provider /\ chain[i].tier <= chain[j].tier
  /\ \A i \in DOMAIN chain : \A t \in 1 .. chain[i].tier - 1 :
       ~admits(tiers[t].filter, chain[i].provider)

LEMMA PlacedKeeps ==
  ASSUME NEW n \in Nat, NEW chain, NEW tiers, NEW lanes \in SUBSET pool, NEW before,
         Linear(before, lanes), IsChain(chain, tiers, n),
         \A t \in 1 .. n : admitted(tiers[t]) \subseteq Placing(chain)
  PROVE  /\ IsChain(Placed(chain, n + 1, lanes, before), tiers, n + 1)
         /\ Placing(chain) \cup lanes \subseteq Placing(Placed(chain, n + 1, lanes, before))
<1> DEFINE new  == Placed(chain, n + 1, lanes, before)
           rest == Unplaced(chain, lanes)
           more == inOrder(rest, before)
           last == Len(chain)
           m    == Cardinality(rest)
<1>1. rest \in SUBSET lanes /\ rest \in SUBSET pool /\ IsFiniteSet(rest)
  <2>1. rest \in SUBSET lanes /\ rest \in SUBSET Providers
    BY DEF Unplaced, pool
  <2> HIDE DEF rest
  <2> QED BY <2>1, ProvidersFinite, FS_Subset
<1>2. Linear(before, rest)
  <2> HIDE DEF rest
  <2> QED BY <1>1, OrdersFewer
<1>3. /\ m \in Nat /\ DOMAIN more = 1 .. m /\ more \in Seq(rest) /\ Len(more) = m
      /\ \A i \in 1 .. m : more[i] \in rest /\ Rank(before, rest, more[i]) = i - 1
      /\ \A p \in rest : /\ Rank(before, rest, p) + 1 \in 1 .. m
                         /\ more[Rank(before, rest, p) + 1] = p
  <2> HIDE DEF rest
  <2> QED BY <1>1, <1>2, InOrderIs
<1>4. /\ chain \in Seq([provider : pool, tier : 1 .. n])
      /\ last \in Nat /\ DOMAIN chain = 1 .. last
  <2>1. chain \in Seq([provider : pool, tier : 1 .. n])
    BY DEF IsChain
  <2> QED BY <2>1
<1>5. \A i \in 1 .. last : chain[i].provider \in pool /\ chain[i].tier \in 1 .. n
  <2>1. \A i \in 1 .. last : chain[i] \in [provider : pool, tier : 1 .. n]
    <3> DEFINE T == [provider : pool, tier : 1 .. n]
    <3> HIDE DEF T
    <3>1. \A i \in 1 .. last : chain[i] \in T
      BY <1>4, SequenceIs DEF T
    <3> QED BY <3>1 DEF T
  <2> QED BY <2>1
<1>6. new = chain \o [i \in 1 .. m |-> [provider |-> more[i], tier |-> n + 1]]
  BY <1>3 DEF Placed
<1>7. \A p \in rest : \A i \in 1 .. last : chain[i].provider # p
  BY <1>4 DEF Unplaced
<1> HIDE DEF rest, more, m, last, new
<1>8. /\ DOMAIN new = 1 .. last + m
      /\ \A i \in 1 .. last : new[i] = chain[i]
      /\ \A i \in last + 1 .. last + m : new[i] = [provider |-> more[i - last], tier |-> n + 1]
      /\ new \in Seq([provider : pool, tier : 1 .. n + 1])
  <2> DEFINE T == [provider : pool, tier : 1 .. n + 1]
  <2>0. PICK added : added = [i \in 1 .. m |-> [provider |-> more[i], tier |-> n + 1]]
    OBVIOUS
  <2>1. added \in Seq(T) /\ Len(added) = m
    <3>1. \A i \in 1 .. m : added[i] \in T
      BY <1>1, <1>3, <2>0
    <3>2. added = [i \in 1 .. m |-> added[i]]
      BY <2>0
    <3>3. m \in Nat
      BY <1>3
    <3> HIDE DEF T
    <3> QED BY <3>1, <3>2, <3>3, SequenceOf
  <2>2. chain \in Seq(T) /\ Len(chain) = last
    <3>1. chain = [i \in 1 .. last |-> chain[i]]
      BY <1>4, SequenceIs DEF last
    <3>2. \A i \in 1 .. last : chain[i] \in [provider : pool, tier : 1 .. n]
      <4> DEFINE R == [provider : pool, tier : 1 .. n]
      <4> HIDE DEF R
      <4> QED BY <1>4, SequenceIs DEF R, last
    <3>3. \A i \in 1 .. last : chain[i] \in T
      BY <3>2
    <3> HIDE DEF T
    <3> QED BY <1>4, <3>1, <3>3, SequenceOf
  <2>3. \A i \in 1 .. m : added[i] = [provider |-> more[i], tier |-> n + 1]
    BY <2>0
  <2>4. new = chain \o added
    BY <1>6, <2>0
  <2> HIDE DEF T
  <2>5. /\ new \in Seq(T) /\ DOMAIN new = 1 .. last + m
        /\ \A i \in 1 .. last : new[i] = chain[i]
        /\ \A i \in last + 1 .. last + m : new[i] = added[i - last]
    BY <2>1, <2>2, <2>4, SequencesJoined
  <2>6. \A i \in last + 1 .. last + m : i - last \in 1 .. m
    BY <1>3, <1>4
  <2> QED BY <2>3, <2>5, <2>6 DEF T
<1>9. \A i \in DOMAIN new : \/ i \in 1 .. last /\ new[i] = chain[i]
                            \/ /\ i \in last + 1 .. last + m /\ i - last \in 1 .. m
                               /\ new[i].provider = more[i - last] /\ new[i].tier = n + 1
  <2> TAKE i \in DOMAIN new
  <2>1. i \in 1 .. last \/ (i \in last + 1 .. last + m /\ i - last \in 1 .. m)
    BY <1>3, <1>4, <1>8
  <2>2. CASE i \in 1 .. last
    BY <1>8, <2>2
  <2>3. CASE i \in last + 1 .. last + m /\ i - last \in 1 .. m
    <3>1. new[i] = [provider |-> more[i - last], tier |-> n + 1]
      BY <1>8, <2>3
    <3> QED BY <2>3, <3>1
  <2> QED BY <2>1, <2>2, <2>3
<1>10. ASSUME NEW i \in DOMAIN new, NEW j \in DOMAIN new, i < j
       PROVE  new[i].provider # new[j].provider /\ new[i].tier <= new[j].tier
  <2>1. i \in Int /\ j \in Int
    BY <1>3, <1>4, <1>8
  <2>2. CASE j \in 1 .. last
    <3>1. i \in 1 .. last
      BY <1>4, <1>9, <1>10, <2>1, <2>2
    <3> QED BY <1>4, <1>8, <1>10, <2>2, <3>1 DEF IsChain
  <2>3. CASE j \in last + 1 .. last + m /\ i \in 1 .. last
    <3>1. new[j].provider = more[j - last] /\ new[j].tier = n + 1 /\ j - last \in 1 .. m
      BY <1>4, <1>9, <2>1, <2>3
    <3>2. more[j - last] \in rest
      BY <1>3, <3>1
    <3> QED BY <1>5, <1>7, <1>8, <2>3, <3>1, <3>2
  <2>4. CASE i \in last + 1 .. last + m /\ j \in last + 1 .. last + m
    <3>1. /\ new[j].provider = more[j - last] /\ new[j].tier = n + 1 /\ j - last \in 1 .. m
          /\ new[i].provider = more[i - last] /\ new[i].tier = n + 1 /\ i - last \in 1 .. m
      BY <1>4, <1>9, <2>1, <2>4
    <3>2. Rank(before, rest, more[i - last]) = (i - last) - 1 /\ Rank(before, rest, more[j - last]) = (j - last) - 1
      BY <1>3, <3>1
    <3>3. (i - last) - 1 # (j - last) - 1
      BY <1>4, <1>10, <2>1
    <3> QED BY <3>1, <3>2, <3>3
  <2> QED BY <1>4, <1>9, <1>10, <2>1, <2>2, <2>3, <2>4
<1>11. ASSUME NEW i \in DOMAIN new, NEW t \in 1 .. new[i].tier - 1
       PROVE  ~admits(tiers[t].filter, new[i].provider)
  <2>1. CASE i \in 1 .. last /\ new[i] = chain[i]
    BY <1>4, <1>11, <2>1 DEF IsChain
  <2>2. CASE i - last \in 1 .. m /\ new[i].provider = more[i - last] /\ new[i].tier = n + 1
    <3>1. t \in 1 .. n
      BY <1>11, <2>2
    <3>2. more[i - last] \in rest
      BY <1>3, <2>2
    <3>3. more[i - last] \notin Placing(chain) /\ more[i - last] \in pool
      BY <1>1, <1>4, <1>7, <3>2 DEF Placing
    <3> QED BY <2>2, <3>1, <3>3 DEF admitted
  <2> QED BY <1>9, <2>1, <2>2
<1>12. Placing(chain) \subseteq Placing(new)
  <2>1. \A i \in 1 .. last : i \in DOMAIN new /\ new[i] = chain[i]
    BY <1>3, <1>4, <1>8
  <2> QED BY <1>4, <2>1 DEF Placing
<1>13. ASSUME NEW p \in rest PROVE p \in Placing(new)
  <2> DEFINE k == Rank(before, rest, p) + 1
  <2>1. k \in 1 .. m /\ more[k] = p
    BY <1>3
  <2> HIDE DEF k
  <2>2. last + k \in last + 1 .. last + m /\ (last + k) - last = k
    BY <1>3, <1>4, <2>1
  <2>3. last + k \in DOMAIN new
    BY <1>3, <1>4, <1>8, <2>1
  <2>4. new[last + k] = [provider |-> more[k], tier |-> n + 1]
    BY <1>8, <2>2
  <2> QED BY <2>1, <2>3, <2>4 DEF Placing
<1>14. lanes \subseteq Placing(chain) \cup rest
  BY <1>4 DEF Placing, rest, Unplaced
<1> QED BY <1>8, <1>10, <1>11, <1>12, <1>13, <1>14 DEF IsChain, new

(* What Tiered builds tier by tier: its function exists.                    *)
Built(tiers, n, luck, f) ==
  f = [t \in 0 .. n |-> IF t = 0 THEN [chain |-> <<>>, cursor |-> cursor]
                        ELSE addTier(f[t - 1], tiers[t], t, luck)]

LEMMA BuiltStep ==
  ASSUME NEW tiers, NEW n \in Nat, NEW luck, NEW f, Built(tiers, n, luck, f)
  PROVE  /\ f[0] = [chain |-> <<>>, cursor |-> cursor]
         /\ \A t \in 1 .. n : f[t] = addTier(f[t - 1], tiers[t], t, luck)
<1>1. \A t \in 0 .. n : f[t] = IF t = 0 THEN [chain |-> <<>>, cursor |-> cursor]
                               ELSE addTier(f[t - 1], tiers[t], t, luck)
  BY DEF Built
<1>2. 0 \in 0 .. n /\ \A t \in 1 .. n : t \in 0 .. n /\ t # 0
  OBVIOUS
<1> QED BY <1>1, <1>2

LEMMA BuiltExists ==
  ASSUME NEW tiers, NEW n \in Nat, NEW luck
  PROVE  \E f : Built(tiers, n, luck, f)
<1> DEFINE T == {m \in Nat : ~\E f : Built(tiers, m, luck, f)}
           none == [chain |-> <<>>, cursor |-> cursor]
<1> SUFFICES ASSUME T # {} PROVE FALSE
  OBVIOUS
<1>1. PICK m \in T : \A k \in T : m <= k
  <2>1. T \subseteq Nat
    OBVIOUS
  <2> HIDE DEF T
  <2> QED BY <2>1, LeastNumber
<1>2. m # 0
  <2>1. Built(tiers, 0, luck, [t \in 0 .. 0 |-> none])
    <3>1. [t \in 0 .. 0 |-> none] = [t \in 0 .. 0 |-> IF t = 0 THEN none
                                     ELSE addTier([s \in 0 .. 0 |-> none][t - 1], tiers[t], t, luck)]
      <4> HIDE DEF none
      <4> QED OBVIOUS
    <3> QED BY <3>1 DEF Built
  <2> QED BY <2>1
<1>3. m \in Nat /\ m - 1 \in Nat /\ m - 1 \notin T
  BY <1>1, <1>2
<1>4. PICK f : Built(tiers, m - 1, luck, f)
  BY <1>3
<1> DEFINE g == [t \in 0 .. m |-> IF t < m THEN f[t] ELSE addTier(f[m - 1], tiers[m], m, luck)]
           next(t) == IF t = 0 THEN none ELSE addTier(g[t - 1], tiers[t], t, luck)
<1>5. f[0] = none /\ \A t \in 1 .. m - 1 : f[t] = addTier(f[t - 1], tiers[t], t, luck)
  BY <1>3, <1>4, BuiltStep
<1>6. ASSUME NEW t \in 0 .. m PROVE g[t] = next(t)
  <2> HIDE DEF none
  <2>1. CASE t = 0
    BY <1>2, <1>3, <1>5, <2>1
  <2>2. CASE t # 0 /\ t < m
    <3>1. t \in 1 .. m - 1 /\ g[t] = f[t] /\ g[t - 1] = f[t - 1]
      BY <1>3, <2>2
    <3> QED BY <1>5, <2>2, <3>1
  <2>3. CASE t = m
    <3>1. g[m] = addTier(f[m - 1], tiers[m], m, luck) /\ g[m - 1] = f[m - 1]
      BY <1>2, <1>3
    <3> QED BY <1>2, <2>3, <3>1
  <2> QED BY <1>3, <2>1, <2>2, <2>3
<1>7. g = [t \in 0 .. m |-> next(t)]
  <2> HIDE DEF next
  <2> QED BY <1>6
<1>8. Built(tiers, m, luck, g)
  BY <1>7 DEF Built
<1> QED BY <1>8

tiering(tiers, n, luck) == CHOOSE f : Built(tiers, n, luck, f)

LEMMA TieredIs ==
  ASSUME NEW tiers, NEW n \in Nat, NEW luck
  PROVE  /\ Built(tiers, n, luck, tiering(tiers, n, luck))
         /\ Tiered(tiers, n, luck) = tiering(tiers, n, luck)[n]
<1>1. Tiered(tiers, n, luck) = tiering(tiers, n, luck)[n]
  BY DEF Tiered, Built, tiering
<1>2. Built(tiers, n, luck, tiering(tiers, n, luck))
  BY BuiltExists DEF tiering
<1> QED BY <1>1, <1>2

(* The tiers of a combo, one after the other.                               *)
TieredSoFar(sofar, tiers, n) ==
  /\ IsChain(sofar.chain, tiers, n) /\ sofar.cursor \in Nat
  /\ \A t \in 1 .. n : admitted(tiers[t]) \subseteq Placing(sofar.chain)

LEMMA AdvancedType ==
  ASSUME NEW lanes \in SUBSET Providers, NEW from \in Nat
  PROVE  advanced(from, lanes) \in Nat
<1>1. IsFiniteSet(lanes)
  BY ProvidersFinite, FS_Subset
<1>2. Cardinality(lanes) \in Nat /\ (Cardinality(lanes) = 0 <=> lanes = {})
  BY <1>1, FS_CardinalityType, FS_EmptySet
<1>3. CASE lanes = {}
  BY <1>3 DEF advanced
<1>4. CASE lanes # {}
  <2>1. \A c, n \in Nat : n > 0 => (c + 1) % n \in Nat
    OBVIOUS
  <2>2. Cardinality(lanes) > 0
    BY <1>2, <1>4
  <2> QED BY <1>2, <1>4, <2>1, <2>2 DEF advanced
<1> QED BY <1>3, <1>4

LEMMA EmptyChain ==
  ASSUME NEW tiers
  PROVE  IsChain(<<>>, tiers, 0) /\ Placing(<<>>) = {}
BY DEF IsChain, Placing

LEMMA TierAdded ==
  ASSUME StrategiesType, NEW tiers, NEW n \in Nat, NEW sofar, TieredSoFar(sofar, tiers, n),
         NEW luck \in Lucks, tiers[n + 1] \in Tiers
  PROVE  TieredSoFar(addTier(sofar, tiers[n + 1], n + 1, luck), tiers, n + 1)
<1> DEFINE tier  == tiers[n + 1]
           lanes == admitted(tier)
           before == order(tier.strategy, lanes, sofar.cursor, luck)
           more  == addTier(sofar, tier, n + 1, luck)
<1>1. tier.strategy \in STRATEGIES
  BY DEF Tiers
<1>2. lanes \in SUBSET pool /\ lanes \in SUBSET Providers
  BY DEF admitted, pool
<1>3. more.chain = Placed(sofar.chain, n + 1, lanes, before)
  BY DEF addTier
<1>4. more.cursor = IF tier.strategy = "roundrobin" THEN advanced(sofar.cursor, lanes) ELSE sofar.cursor
  BY DEF addTier
<1>5. /\ IsChain(sofar.chain, tiers, n) /\ sofar.cursor \in Nat
      /\ \A t \in 1 .. n : admitted(tiers[t]) \subseteq Placing(sofar.chain)
  BY DEF TieredSoFar
<1>6. Linear(before, lanes)
  <2> HIDE DEF lanes
  <2> QED BY <1>1, <1>2, <1>5, StrategyOrders
<1> HIDE DEF before, lanes, more
<1>7. /\ IsChain(Placed(sofar.chain, n + 1, lanes, before), tiers, n + 1)
      /\ Placing(sofar.chain) \cup lanes \subseteq Placing(Placed(sofar.chain, n + 1, lanes, before))
  BY <1>2, <1>5, <1>6, PlacedKeeps
<1>8. more.cursor \in Nat
  BY <1>2, <1>4, <1>5, AdvancedType
<1>9. \A t \in 1 .. n + 1 : admitted(tiers[t]) \subseteq Placing(more.chain)
  <2> TAKE t \in 1 .. n + 1
  <2>1. t \in 1 .. n \/ t = n + 1
    OBVIOUS
  <2> QED BY <1>3, <1>5, <1>7, <2>1 DEF lanes
<1> QED BY <1>3, <1>7, <1>8, <1>9 DEF TieredSoFar, more

LEMMA TiersAdded ==
  ASSUME StrategiesType, NEW tiers \in Seq(Tiers), NEW luck \in Lucks
  PROVE  TieredSoFar(Tiered(tiers, Len(tiers), luck), tiers, Len(tiers))
<1> DEFINE n == Len(tiers)
<1>1. n \in Nat /\ \A t \in 1 .. n : tiers[t] \in Tiers
  BY SequenceIs
<1> HIDE DEF n
<1> DEFINE f == tiering(tiers, n, luck)
<1>2. Built(tiers, n, luck, f) /\ Tiered(tiers, n, luck) = f[n]
  BY <1>1, TieredIs
<1> HIDE DEF f
<1>3. /\ f[0] = [chain |-> <<>>, cursor |-> cursor]
      /\ \A t \in 1 .. n : f[t] = addTier(f[t - 1], tiers[t], t, luck)
  BY <1>1, <1>2, BuiltStep
<1> DEFINE T == {t \in 0 .. n : ~TieredSoFar(f[t], tiers, t)}
<1>4. T = {}
  <2> SUFFICES ASSUME T # {} PROVE FALSE
    OBVIOUS
  <2>1. PICK t \in T : \A k \in T : t <= k
    <3>1. T \subseteq Nat
      OBVIOUS
    <3> HIDE DEF T
    <3> QED BY <3>1, LeastNumber
  <2>2. TieredSoFar(f[0], tiers, 0)
    <3>1. f[0].chain = <<>> /\ f[0].cursor = cursor
      BY <1>3
    <3> QED BY <3>1, EmptyChain DEF TieredSoFar, StrategiesType
  <2>3. t \in Nat /\ t # 0 /\ t \in 1 .. n /\ t - 1 \in Nat /\ t - 1 \in 0 .. n /\ (t - 1) + 1 = t
    BY <1>1, <2>2
  <2>4. TieredSoFar(f[t - 1], tiers, t - 1)
    <3>1. t - 1 \notin T
      <4> HIDE DEF T
      <4> QED BY <2>1, <2>3
    <3> QED BY <2>3, <3>1
  <2> DEFINE s == t - 1
  <2>5. s \in Nat /\ s + 1 = t /\ TieredSoFar(f[s], tiers, s) /\ tiers[s + 1] \in Tiers
        /\ f[t] = addTier(f[s], tiers[s + 1], s + 1, luck)
    BY <1>1, <1>3, <2>3, <2>4
  <2> HIDE DEF s
  <2>6. TieredSoFar(addTier(f[s], tiers[s + 1], s + 1, luck), tiers, s + 1)
    BY <2>5, TierAdded
  <2> QED BY <2>5, <2>6
<1> QED BY <1>1, <1>2, <1>4 DEF n

IsCombo(combo) == combo.tiers \in Seq(Tiers) /\ combo.strict \in BOOLEAN

LEMMA TierType ==
  ASSUME NEW strategy \in STRATEGIES, NEW filter \in SUBSET Conditions
  PROVE  Tier(strategy, filter) \in Tiers
BY DEF Tier, Tiers

LEMMA ComboType == \A tiers \in Seq(Tiers) : IsCombo(Combo(tiers))
BY DEF IsCombo, Combo

LEMMA CombosAre == \A name \in DOMAIN listCombos : IsCombo(listCombos[name])
<1>1. \A s \in STRATEGIES, filter \in SUBSET Conditions : Tier(s, filter) \in Tiers
  BY TierType
<1>2. /\ Tier("drain-free", {"freeOnly", "withQuotaRemaining"}) \in Tiers
      /\ Tier("cheapest", {}) \in Tiers /\ Tier("priority", {}) \in Tiers
      /\ Tier("drain-subscription", {"subscription-or-local"}) \in Tiers
      /\ Tier("cheapest", {"verifiedPricingOnly"}) \in Tiers
      /\ Tier("priority", {"frontier"}) \in Tiers /\ Tier("fastest", {"inference"}) \in Tiers
      /\ Tier("context-aware", {"minContextWindow"}) \in Tiers
      /\ Tier("context-aware", {}) \in Tiers /\ Tier("local-first", {"local"}) \in Tiers
  BY <1>1 DEF STRATEGIES, Conditions
<1>3. /\ \A a \in Tiers, b \in Tiers, c \in Tiers : IsCombo(Combo(<<a, b, c>>))
      /\ \A a \in Tiers : IsCombo(Combo(<<a>>))
  <2>1. \A a \in Tiers, b \in Tiers, c \in Tiers : <<a, b, c>> \in Seq(Tiers) /\ <<a>> \in Seq(Tiers)
    OBVIOUS
  <2> QED BY <2>1, ComboType
<1>4. \A name \in DOMAIN BUILTIN_COMBOS : IsCombo(BUILTIN_COMBOS[name])
  BY <1>2, <1>3 DEF BUILTIN_COMBOS
<1>5. \A name \in DOMAIN Custom : IsCombo(Custom[name])
  BY StrategiesAssumption DEF StrategiesAssumption, IsCombo
<1> QED BY <1>4, <1>5 DEF listCombos

LEMMA ComboChain ==
  ASSUME StrategiesType, NEW combo, IsCombo(combo), NEW luck \in Lucks
  PROVE  LET made == orderByCombo(combo, luck)
             n    == Len(combo.tiers)
         IN  /\ made.cursor \in Nat
             /\ \E m \in {n, n + 1} : IsChain(made.chain, combo.tiers, m)
             /\ ~combo.strict => pool \subseteq Placing(made.chain)
<1> DEFINE n == Len(combo.tiers)
           tiered == Tiered(combo.tiers, n, luck)
           made == orderByCombo(combo, luck)
<1>1. combo.tiers \in Seq(Tiers) /\ n \in Nat
  BY DEF IsCombo
<1>2. TieredSoFar(tiered, combo.tiers, n)
  BY <1>1, TiersAdded
<1>3. /\ IsChain(tiered.chain, combo.tiers, n) /\ tiered.cursor \in Nat
      /\ \A t \in 1 .. n : admitted(combo.tiers[t]) \subseteq Placing(tiered.chain)
  BY <1>2 DEF TieredSoFar
<1>4. CASE combo.strict
  <2>1. made = tiered
    BY <1>4 DEF orderByCombo
  <2> QED BY <1>3, <1>4, <2>1
<1>5. CASE ~combo.strict
  <2> DEFINE tailed == Placed(tiered.chain, n + 1, pool, byPriority)
  <2>1. made = [tiered EXCEPT !.chain = tailed]
    BY <1>5 DEF orderByCombo
  <2>2. made.chain = tailed /\ made.cursor = tiered.cursor
    <3>1. tiered \in [chain : {tiered.chain}, cursor : {tiered.cursor}]
      <4>1. PICK f : Built(combo.tiers, n, luck, f) /\ tiered = f[n]
        <5>1. \A m \in Nat : \E f : Built(combo.tiers, m, luck, f) /\ Tiered(combo.tiers, m, luck) = f[m]
          BY TieredIs
        <5> QED BY <1>1, <5>1
      <4>2. /\ f[0] = [chain |-> <<>>, cursor |-> cursor]
            /\ \A t \in 1 .. n : f[t] = addTier(f[t - 1], combo.tiers[t], t, luck)
        <5> HIDE DEF n, tiered
        <5> QED BY <1>1, <4>1, BuiltStep
      <4>3. \E c, d : f[n] = [chain |-> c, cursor |-> d]
        <5> HIDE DEF n, tiered
        <5>1. CASE n = 0
          BY <4>2, <5>1
        <5>2. CASE n # 0
          <6>1. f[n] = addTier(f[n - 1], combo.tiers[n], n, luck)
            BY <1>1, <4>2, <5>2
          <6> QED BY <6>1 DEF addTier
        <5> QED BY <5>1, <5>2
      <4> HIDE DEF n, tiered
      <4> QED BY <4>1, <4>3
    <3> HIDE DEF tailed, tiered
    <3> QED BY <2>1, <3>1
  <2>3. Linear(byPriority, pool) /\ pool \in SUBSET pool
    BY PriorityOrders, OrdersFewer DEF pool
  <2>4. IsChain(tailed, combo.tiers, n + 1) /\ pool \subseteq Placing(tailed)
    <3> HIDE DEF n, tiered
    <3> QED BY <1>1, <1>3, <2>3, PlacedKeeps
  <2> HIDE DEF tailed
  <2> QED BY <1>3, <2>2, <2>4
<1> QED BY <1>4, <1>5

LEMMA StrategyChain ==
  ASSUME StrategiesType, NEW strategy \in STRATEGIES, NEW luck \in Lucks
  PROVE  LET made == orderByStrategy(strategy, luck)
         IN  /\ made.cursor \in Nat
             /\ IsChain(made.chain, <<>>, 1)
             /\ pool \subseteq Placing(made.chain)
<1> DEFINE before == order(strategy, pool, cursor, luck)
           made   == orderByStrategy(strategy, luck)
<1>1. pool \in SUBSET Providers /\ pool \in SUBSET pool /\ cursor \in Nat
  BY DEF pool, StrategiesType
<1>2. Linear(before, pool)
  BY <1>1, StrategyOrders
<1>3. made.chain = Placed(<<>>, 1, pool, before)
      /\ made.cursor = IF strategy = "roundrobin" THEN advanced(cursor, pool) ELSE cursor
  BY DEF orderByStrategy
<1>4. IsChain(<<>>, <<>>, 0) /\ \A t \in 1 .. 0 : admitted(<<>>[t]) \subseteq Placing(<<>>)
  BY EmptyChain
<1> HIDE DEF before, made
<1>5. /\ IsChain(Placed(<<>>, 0 + 1, pool, before), <<>>, 0 + 1)
      /\ Placing(<<>>) \cup pool \subseteq Placing(Placed(<<>>, 0 + 1, pool, before))
  BY <1>1, <1>2, <1>4, PlacedKeeps
<1>6. advanced(cursor, pool) \in Nat
  BY <1>1, AdvancedType
<1> QED BY <1>1, <1>3, <1>5, <1>6 DEF made

(* What is chained holds every lane of the pool at most once.               *)
LEMMA ChainPlacesOnce ==
  ASSUME NEW chain, NEW tiers, NEW n \in Nat, IsChain(chain, tiers, n)
  PROVE  LET lanes == [i \in DOMAIN chain |-> chain[i].provider]
         IN  /\ IsInjective(lanes) /\ Range(lanes) \subseteq pool
             /\ Range(lanes) = Placing(chain)
<1> DEFINE lanes == [i \in DOMAIN chain |-> chain[i].provider]
           T == [provider : pool, tier : 1 .. n]
<1>1. Len(chain) \in Nat /\ DOMAIN chain = 1 .. Len(chain) /\ \A i \in 1 .. Len(chain) : chain[i] \in T
  <2>1. chain \in Seq(T)
    BY DEF IsChain
  <2> HIDE DEF T
  <2> QED BY <2>1, SequenceIs
<1>2. \A i \in DOMAIN chain : i \in Int /\ chain[i].provider \in pool
  BY <1>1
<1>3. \A i \in DOMAIN chain, j \in DOMAIN chain : i < j => chain[i].provider # chain[j].provider
  BY DEF IsChain
<1>4. \A i \in DOMAIN chain, j \in DOMAIN chain : chain[i].provider = chain[j].provider => i = j
  BY <1>2, <1>3
<1>5. IsInjective(lanes)
  BY <1>4 DEF IsInjective
<1>6. Range(lanes) = Placing(chain) /\ Range(lanes) \subseteq pool
  BY <1>2 DEF Range, Placing
<1> QED BY <1>5, <1>6

LEMMA CandidatesAreChains ==
  ASSUME StrategiesType, NEW route \in Routes, NEW luck \in Lucks
  PROVE  /\ buildCandidates(route, luck).cursor \in Nat
         /\ \E tiers : \E n \in Nat : IsChain(buildCandidates(route, luck).chain, tiers, n)
         /\ (route[1] = "combo" => ~listCombos[route[2]].strict)
              => pool \subseteq Placing(buildCandidates(route, luck).chain)
<1>1. CASE \E s \in STRATEGIES : route = <<"auto", s>>
  <2>1. PICK s \in STRATEGIES : route = <<"auto", s>>
    BY <1>1
  <2>2. buildCandidates(route, luck) = orderByStrategy(s, luck)
    BY <2>1 DEF buildCandidates
  <2>3. /\ orderByStrategy(s, luck).cursor \in Nat
        /\ IsChain(orderByStrategy(s, luck).chain, <<>>, 1)
        /\ pool \subseteq Placing(orderByStrategy(s, luck).chain)
    BY StrategyChain
  <2> QED BY <2>2, <2>3
<1>2. CASE \E c \in DOMAIN listCombos : route = <<"combo", c>>
  <2>1. PICK c \in DOMAIN listCombos : route = <<"combo", c>>
    BY <1>2
  <2> DEFINE combo == listCombos[c]
             n == Len(combo.tiers)
  <2>2. buildCandidates(route, luck) = orderByCombo(combo, luck) /\ listCombos[route[2]] = combo
        /\ route[1] = "combo"
    BY <2>1 DEF buildCandidates
  <2>3. IsCombo(combo)
    BY CombosAre
  <2>4. n \in Nat
    BY <2>3 DEF IsCombo
  <2> HIDE DEF combo
  <2>5. /\ orderByCombo(combo, luck).cursor \in Nat
        /\ \E m \in {n, n + 1} : IsChain(orderByCombo(combo, luck).chain, combo.tiers, m)
        /\ ~combo.strict => pool \subseteq Placing(orderByCombo(combo, luck).chain)
    BY <2>3, ComboChain
  <2>6. \E m \in Nat : IsChain(orderByCombo(combo, luck).chain, combo.tiers, m)
    <3> HIDE DEF n
    <3> QED BY <2>4, <2>5
  <2> QED BY <2>2, <2>5, <2>6
<1> QED BY <1>1, <1>2 DEF Routes

LEMMA LanesOnce == StrategiesType => EveryLaneOnce
<1> SUFFICES ASSUME StrategiesType, NEW route \in Routes, NEW luck \in Lucks
             PROVE  LET chain == buildCandidates(route, luck).chain
                        lanes == [i \in DOMAIN chain |-> chain[i].provider]
                    IN  /\ IsInjective(lanes) /\ Range(lanes) \subseteq pool
                        /\ (route[1] = "combo" => ~listCombos[route[2]].strict) => Range(lanes) = pool
  BY DEF EveryLaneOnce
<1> DEFINE chain == buildCandidates(route, luck).chain
           lanes == [i \in DOMAIN chain |-> chain[i].provider]
<1>1. PICK tiers : \E n \in Nat : IsChain(chain, tiers, n)
  BY CandidatesAreChains
<1>2. (route[1] = "combo" => ~listCombos[route[2]].strict) => pool \subseteq Placing(chain)
  BY CandidatesAreChains
<1>3. IsInjective(lanes) /\ Range(lanes) \subseteq pool /\ Range(lanes) = Placing(chain)
  <2> HIDE DEF chain
  <2> QED BY <1>1, ChainPlacesOnce
<1> QED BY <1>2, <1>3

LEMMA FirstTiers == StrategiesType => FirstTierWins
<1> SUFFICES ASSUME StrategiesType, NEW name \in DOMAIN listCombos, NEW luck \in Lucks
             PROVE  LET tiers == listCombos[name].tiers
                        chain == orderByCombo(listCombos[name], luck).chain
                    IN  \A i \in DOMAIN chain :
                          /\ \A t \in 1 .. chain[i].tier - 1 : ~admits(tiers[t].filter, chain[i].provider)
                          /\ \A j \in DOMAIN chain : i < j => chain[i].tier <= chain[j].tier
  BY DEF FirstTierWins
<1> DEFINE tiers == listCombos[name].tiers
           chain == orderByCombo(listCombos[name], luck).chain
<1>1. \E m : IsChain(chain, tiers, m)
  <2>1. IsCombo(listCombos[name])
    BY CombosAre
  <2> QED BY <2>1, ComboChain
<1> HIDE DEF chain, tiers
<1>2. /\ \A i \in DOMAIN chain, j \in DOMAIN chain :
           i < j => chain[i].provider # chain[j].provider /\ chain[i].tier <= chain[j].tier
      /\ \A i \in DOMAIN chain : \A t \in 1 .. chain[i].tier - 1 :
           ~admits(tiers[t].filter, chain[i].provider)
  BY <1>1 DEF IsChain
<1> QED BY <1>2 DEF chain, tiers

-----------------------------------------------------------------------------
(* The last k places of n up to c, around the corner if need be.            *)
Turned(r, c, k, n) == (c - k < r /\ r <= c) \/ r > n + c - k

(* Either every lane of the pool has had as many turns, or those that have   *)
(* had one more are the last k ranks up to the cursor.                      *)
FairFirsts ==
  /\ firsts \in [Providers -> Nat]
  /\ \A p \in Providers : p \notin pool => firsts[p] = 0
  /\ \/ \A p \in pool : firsts[p] = 0
     \/ /\ cursor < Cardinality(pool)
        /\ \E k \in 1 .. Cardinality(pool) - 1 : \A p \in pool :
             firsts[p] = IF Turned(Rank(byPriority, pool, p), cursor, k, Cardinality(pool))
                         THEN 1 ELSE 0

StrategiesInv == StrategiesType /\ FairFirsts

LEMMA PoolIs ==
  /\ pool \in SUBSET Providers /\ IsFiniteSet(pool) /\ Linear(byPriority, pool)
  /\ Cardinality(pool) \in Nat /\ (Cardinality(pool) = 0 <=> pool = {})
<1>1. pool \in SUBSET Providers
  BY DEF pool
<1>2. IsFiniteSet(pool)
  BY <1>1, ProvidersFinite, FS_Subset
<1>3. Linear(byPriority, pool)
  BY <1>1, PriorityOrders, OrdersFewer
<1> QED BY <1>1, <1>2, <1>3, FS_CardinalityType, FS_EmptySet

LEMMA AdvancedIs ==
  ASSUME StrategiesType, pool # {}
  PROVE  /\ advanced(cursor, pool) \in 0 .. Cardinality(pool) - 1
         /\ cursor < Cardinality(pool) =>
              advanced(cursor, pool) = IF cursor + 1 < Cardinality(pool) THEN cursor + 1 ELSE 0
<1> DEFINE n == Cardinality(pool)
<1>1. n \in Nat /\ n > 0 /\ cursor \in Nat
  BY PoolIs DEF StrategiesType
<1>2. advanced(cursor, pool) = (cursor + 1) % n
  BY DEF advanced
<1> HIDE DEF n
<1>3. \A c \in Nat : c % n \in 0 .. n - 1
  BY <1>1
<1>4. (cursor + 1) % n \in 0 .. n - 1
  BY <1>1, <1>3
<1>5. cursor < n => (cursor + 1) % n = IF cursor + 1 < n THEN cursor + 1 ELSE 0
  <2>1. cursor < n => cursor \in 0 .. n - 1
    BY <1>1
  <2> QED BY <1>1, <2>1, WrapsAround
<1> QED BY <1>2, <1>4, <1>5 DEF n

(* The lane a round robin puts first stands where the cursor then stands.   *)
LEMMA RotatedFirst ==
  ASSUME StrategiesType, pool # {}, NEW luck
  PROVE  LET made == orderByStrategy("roundrobin", luck)
         IN  /\ made.cursor = advanced(cursor, pool)
             /\ made.chain[1].provider \in pool
             /\ Rank(byPriority, pool, made.chain[1].provider) = advanced(cursor, pool)
<1> DEFINE at == advanced(cursor, pool)
           n  == Cardinality(pool)
           R  == rotate(pool, at)
           made == orderByStrategy("roundrobin", luck)
           more == inOrder(pool, R)
<1>1. at \in 0 .. n - 1 /\ n \in Nat
  BY AdvancedIs, PoolIs
<1>2. made.cursor = at /\ made.chain = Placed(<<>>, 1, pool, R)
  BY DEF orderByStrategy, order
<1>3. Unplaced(<<>>, pool) = pool
  BY DEF Unplaced
<1>4. made.chain = <<>> \o [i \in DOMAIN more |-> [provider |-> more[i], tier |-> 1]]
  BY <1>2, <1>3 DEF Placed
<1>5. \A p \in pool : Rank(byPriority, pool, p) \in 0 .. n - 1
      /\ \A q \in pool : <<p, q>> \in byPriority <=> Rank(byPriority, pool, p) < Rank(byPriority, pool, q)
  BY PoolIs, RankGrows
<1>6. PICK first \in pool : Rank(byPriority, pool, first) = at
  <2> HIDE DEF at
  <2> QED BY <1>1, PoolIs, EveryRank
<1> HIDE DEF at, n
<1>7. \A a \in pool, b \in pool :
        <<a, b>> \in R <=>
          \/ Rank(byPriority, pool, a) >= at /\ ~(Rank(byPriority, pool, b) >= at)
          \/ (Rank(byPriority, pool, a) >= at <=> Rank(byPriority, pool, b) >= at) /\ <<a, b>> \in byPriority
  BY DEF rotate, Rank, Ahead
<1>8. Linear(R, pool)
  <2>1. order("roundrobin", pool, cursor, luck) = R
    BY DEF order, at
  <2>2. Linear(byPriority, pool)
    BY PoolIs
  <2> HIDE DEF R
  <2> QED BY <1>7, <2>2 DEF Linear
<1> HIDE DEF R
<1>9. Ahead(R, pool, first) = {}
  <2> SUFFICES ASSUME NEW q \in pool, <<q, first>> \in R PROVE FALSE
    BY DEF Ahead
  <2>1. Rank(byPriority, pool, q) >= at /\ <<q, first>> \in byPriority
    BY <1>1, <1>6, <1>7
  <2>2. Rank(byPriority, pool, q) < at
    BY <1>5, <1>6, <2>1
  <2> QED BY <1>1, <1>5, <2>1, <2>2
<1>10. Rank(R, pool, first) = 0
  BY <1>9, FS_EmptySet DEF Rank
<1>11. /\ DOMAIN more = 1 .. n
       /\ \A p \in pool : /\ Rank(R, pool, p) + 1 \in 1 .. n
                          /\ more[Rank(R, pool, p) + 1] = p
  BY <1>8, PoolIs, InOrderIs DEF n
<1>12. 1 \in 1 .. n /\ more[1] = first
  BY <1>10, <1>11
<1> HIDE DEF more, made
<1>13. made.chain[1] = [provider |-> first, tier |-> 1]
  <2>1. PICK added : added = [i \in 1 .. n |-> [provider |-> more[i], tier |-> 1]]
    OBVIOUS
  <2>2. made.chain = <<>> \o added
    BY <1>4, <1>11, <2>1
  <2>3. Len(added) = n /\ added \in Seq({added[i] : i \in 1 .. n})
    <3> DEFINE T == {added[i] : i \in 1 .. n}
    <3>1. \A i \in 1 .. n : added[i] \in T
      OBVIOUS
    <3>2. added = [i \in 1 .. n |-> added[i]]
      BY <2>1
    <3>3. n \in Nat
      BY <1>1
    <3> HIDE DEF T
    <3>4. added \in Seq(T) /\ Len(added) = n
      BY <3>1, <3>2, <3>3, SequenceOf
    <3> QED BY <3>4 DEF T
  <2>4. <<>> \o added = added
    BY <2>3
  <2> QED BY <1>12, <2>1, <2>2, <2>4
<1> QED BY <1>2, <1>6, <1>13 DEF made, at

(* One turn more: the arithmetic of it.                                     *)
LEMMA OneTurn ==
  ASSUME NEW n \in Nat, NEW c \in 0 .. n - 1, NEW k \in 1 .. n - 1, NEW d \in 0 .. n - 1,
         d = IF c + 1 < n THEN c + 1 ELSE 0, NEW r \in 0 .. n - 1
  PROVE  /\ Turned(r, d, k + 1, n) <=> Turned(r, c, k, n) \/ r = d
         /\ ~Turned(d, c, k, n)
BY DEF Turned

LEMMA TurnsKept ==
  ASSUME StrategiesInv, NEW first \in pool,
         Rank(byPriority, pool, first) = advanced(cursor, pool),
         cursor' = advanced(cursor, pool), firsts' = Counted(first), disabled' = disabled
  PROVE  FairFirsts'
<1> DEFINE n == Cardinality(pool)
           d == advanced(cursor, pool)
           r(p) == Rank(byPriority, pool, p)
           more == [firsts EXCEPT ![first] = @ + 1]
<1>1. /\ n \in Nat /\ pool \in SUBSET Providers
      /\ \A p \in pool : r(p) \in 0 .. n - 1
      /\ \A a \in pool, b \in pool : r(a) = r(b) => a = b
  BY PoolIs, RankGrows
<1>2. /\ cursor \in Nat /\ d \in 0 .. n - 1
      /\ cursor < n => d = IF cursor + 1 < n THEN cursor + 1 ELSE 0
  BY AdvancedIs DEF StrategiesInv, StrategiesType
<1>3. firsts \in [Providers -> Nat] /\ (\A p \in Providers : p \notin pool => firsts[p] = 0)
  BY DEF StrategiesInv, FairFirsts
<1>4. \/ \A p \in pool : firsts[p] = 0
      \/ /\ cursor < n
         /\ \E k \in 1 .. n - 1 : \A p \in pool : firsts[p] = IF Turned(r(p), cursor, k, n) THEN 1 ELSE 0
  BY DEF StrategiesInv, FairFirsts
<1>5. /\ pool' = pool /\ Providers' = Providers /\ byPriority' = byPriority
      /\ Cardinality(pool)' = n /\ cursor' = d /\ \A p \in pool : Rank(byPriority, pool, p)' = r(p)
  BY DEF pool
<1>6. firsts' = IF \A q \in pool : more[q] > 0
                THEN [q \in Providers |-> IF q \in disabled THEN 0 ELSE more[q] - 1] ELSE more
  BY DEF Counted
<1>7. r(first) = d
  OBVIOUS
<1> HIDE DEF n, d, r
<1>8. /\ more \in [Providers -> Nat]
      /\ \A p \in Providers : more[p] = IF p = first THEN firsts[p] + 1 ELSE firsts[p]
  BY <1>1, <1>3
<1> HIDE DEF more
<1>9. \E k \in 1 .. n : \A p \in pool : more[p] = IF Turned(r(p), d, k, n) THEN 1 ELSE 0
  <2>1. CASE \A p \in pool : firsts[p] = 0
    <3>1. \A p \in pool : more[p] = IF r(p) = d THEN 1 ELSE 0
      BY <1>1, <1>7, <1>8, <2>1
    <3>2. \A p \in pool : Turned(r(p), d, 1, n) <=> r(p) = d
      BY <1>1, <1>2 DEF Turned
    <3>3. 1 \in 1 .. n
      BY <1>1, <1>2
    <3> QED BY <3>1, <3>2, <3>3
  <2>2. ASSUME cursor < n, NEW k \in 1 .. n - 1,
               \A p \in pool : firsts[p] = IF Turned(r(p), cursor, k, n) THEN 1 ELSE 0
        PROVE  \E l \in 1 .. n : \A p \in pool : more[p] = IF Turned(r(p), d, l, n) THEN 1 ELSE 0
    <3>1. cursor \in 0 .. n - 1 /\ d = IF cursor + 1 < n THEN cursor + 1 ELSE 0
      BY <1>1, <1>2, <2>2
    <3>2. \A p \in pool : /\ Turned(r(p), d, k + 1, n) <=> Turned(r(p), cursor, k, n) \/ r(p) = d
                          /\ ~Turned(d, cursor, k, n)
      <4> TAKE p \in pool
      <4>1. r(p) \in 0 .. n - 1 /\ k \in 1 .. n - 1 /\ cursor \in 0 .. n - 1 /\ d \in 0 .. n - 1 /\ n \in Nat
        BY <1>1, <1>2, <3>1
      <4> QED BY <3>1, <4>1 DEF Turned
    <3>3. \A p \in pool : more[p] = IF Turned(r(p), d, k + 1, n) THEN 1 ELSE 0
      <4> TAKE p \in pool
      <4>1. CASE p = first
        BY <1>1, <1>7, <1>8, <2>2, <3>2, <4>1
      <4>2. CASE p # first
        <5>1. r(p) # d
          BY <1>1, <1>7, <4>2
        <5> QED BY <1>1, <1>8, <2>2, <3>2, <4>2, <5>1
      <4> QED BY <4>1, <4>2
    <3>4. k + 1 \in 1 .. n
      BY <1>1
    <3> QED BY <3>3, <3>4
  <2> QED BY <1>4, <2>1, <2>2
<1>10. CASE \A q \in pool : more[q] > 0
  <2>1. \A p \in pool : more[p] = 1
    BY <1>9, <1>10
  <2>2. \A p \in Providers : p \in pool <=> p \notin disabled
    BY DEF pool
  <2>3. firsts' = [q \in Providers |-> IF q \in disabled THEN 0 ELSE more[q] - 1]
    BY <1>6, <1>10
  <2>4. \A p \in Providers : firsts'[p] = 0
    BY <2>1, <2>2, <2>3
  <2>5. firsts' \in [Providers -> Nat]
    BY <2>3, <2>4
  <2>6. \A p \in pool : firsts'[p] = 0
    BY <1>1, <2>4
  <2> QED BY <1>5, <2>4, <2>5, <2>6 DEF FairFirsts
<1>11. CASE ~(\A q \in pool : more[q] > 0)
  <2>1. firsts' = more
    BY <1>6, <1>11
  <2>2. PICK k \in 1 .. n : \A p \in pool : more[p] = IF Turned(r(p), d, k, n) THEN 1 ELSE 0
    BY <1>9
  <2>3. k # n
    <3> SUFFICES ASSUME k = n PROVE FALSE
      OBVIOUS
    <3>1. \A p \in pool : Turned(r(p), d, n, n)
      BY <1>1, <1>2 DEF Turned
    <3> QED BY <1>11, <2>2, <3>1
  <2>4. k \in 1 .. n - 1
    BY <1>1, <2>3
  <2>5. \A p \in Providers : p \notin pool => firsts'[p] = 0
    BY <1>3, <1>8, <2>1
  <2>6. d < n
    BY <1>1, <1>2
  <2>7. firsts' \in [Providers -> Nat]
    BY <1>8, <2>1
  <2>8. \A p \in pool : firsts'[p] = IF Turned(Rank(byPriority, pool, p)', d, k, n) THEN 1 ELSE 0
    BY <1>5, <2>1, <2>2
  <2>9. (cursor < Cardinality(pool))'
    BY <1>5, <2>6
  <2>10. (\E l \in 1 .. Cardinality(pool) - 1 : \A p \in pool :
            firsts[p] = IF Turned(Rank(byPriority, pool, p), cursor, l, Cardinality(pool)) THEN 1 ELSE 0)'
    BY <1>5, <2>4, <2>8
  <2> QED BY <1>5, <2>5, <2>7, <2>9, <2>10 DEF FairFirsts
<1> QED BY <1>10, <1>11

-----------------------------------------------------------------------------
LEMMA StartsFair == StrategiesInit => StrategiesInv
<1> SUFFICES ASSUME StrategiesInit PROVE StrategiesInv
  OBVIOUS
<1>1. StrategiesType
  BY DEF StrategiesInit, StrategiesType
<1>2. FairFirsts
  BY DEF StrategiesInit, FairFirsts, pool
<1> QED BY <1>1, <1>2 DEF StrategiesInv

(* Where neither the pool nor the cursor moves, nothing changes.            *)
LEMMA FairStays ==
  ASSUME FairFirsts, disabled' = disabled, cursor' = cursor, firsts' = firsts
  PROVE  FairFirsts'
<1>1. pool' = pool /\ byPriority' = byPriority
  BY DEF pool
<1>2. \A p \in pool : Rank(byPriority, pool, p)' = Rank(byPriority, pool, p)
  BY <1>1
<1> QED BY <1>1, <1>2 DEF FairFirsts

LEMMA FairAfresh ==
  ASSUME firsts' = NoFirsts
  PROVE  FairFirsts'
<1>1. \A p \in Providers : firsts'[p] = 0
  BY DEF NoFirsts
<1>2. firsts' \in [Providers -> Nat] /\ Providers' = Providers /\ pool' \subseteq Providers
  BY DEF NoFirsts, pool
<1> QED BY <1>1, <1>2 DEF FairFirsts

LEMMA RouteKeeps ==
  ASSUME StrategiesInv, NEW route \in Routes, Route(route)
  PROVE  StrategiesInv'
<1>1. PICK luck \in Lucks :
        /\ cursor' = buildCandidates(route, luck).cursor
        /\ firsts' = IF route = RoundRobin THEN Counted(buildCandidates(route, luck).chain[1].provider)
                     ELSE IF buildCandidates(route, luck).cursor # cursor THEN NoFirsts ELSE firsts
  BY DEF Route
<1>2. /\ pool # {} /\ UNCHANGED <<disabled, seen, pinned>>
      /\ StrategiesType /\ FairFirsts
  BY DEF Route, StrategiesInv
<1>3. cursor' \in Nat
  BY <1>1, <1>2, CandidatesAreChains
<1>4. StrategiesType'
  BY <1>2, <1>3 DEF StrategiesType
<1>5. CASE route = RoundRobin
  <2> DEFINE first == orderByStrategy("roundrobin", luck).chain[1].provider
  <2>1. buildCandidates(route, luck) = orderByStrategy("roundrobin", luck)
    BY <1>5 DEF RoundRobin, buildCandidates
  <2>2. /\ cursor' = advanced(cursor, pool) /\ first \in pool
        /\ Rank(byPriority, pool, first) = advanced(cursor, pool)
    BY <1>1, <1>2, <2>1, RotatedFirst
  <2>3. firsts' = Counted(first)
    BY <1>1, <1>5, <2>1
  <2>4. disabled' = disabled
    BY <1>2
  <2> HIDE DEF first
  <2>5. FairFirsts'
    BY <2>2, <2>3, <2>4, TurnsKept
  <2> QED BY <1>4, <2>5 DEF StrategiesInv
<1>6. CASE route # RoundRobin /\ cursor' # cursor
  <2>1. firsts' = NoFirsts
    BY <1>1, <1>6
  <2> QED BY <1>4, <2>1, FairAfresh DEF StrategiesInv
<1>7. CASE route # RoundRobin /\ cursor' = cursor
  <2>1. firsts' = firsts
    BY <1>1, <1>7
  <2> QED BY <1>2, <1>4, <1>7, <2>1, FairStays DEF StrategiesInv
<1> QED BY <1>5, <1>6, <1>7

LEMMA StrategiesKept ==
  ASSUME StrategiesInv, [StrategiesNext]_strategiesVars
  PROVE  StrategiesInv'
<1>1. StrategiesType /\ FairFirsts
  BY DEF StrategiesInv
<1>2. ASSUME NEW route \in Routes, Route(route) PROVE StrategiesInv'
  BY <1>2, RouteKeeps
<1>3. ASSUME NEW route \in Routes, Preview(route) PROVE StrategiesInv'
  <2>1. PICK luck \in Lucks : cursor' = buildCandidates(route, luck).cursor
    BY <1>3 DEF Preview
  <2>2. /\ UNCHANGED <<disabled, seen, pinned>>
        /\ firsts' = IF cursor' # cursor THEN NoFirsts ELSE firsts
    BY <1>3 DEF Preview
  <2>3. cursor' \in Nat
    BY <1>1, <2>1, CandidatesAreChains
  <2>4. StrategiesType'
    BY <1>1, <2>2, <2>3 DEF StrategiesType
  <2>5. FairFirsts'
    <3>1. CASE cursor' # cursor
      BY <2>2, <3>1, FairAfresh
    <3>2. CASE cursor' = cursor
      BY <1>1, <2>2, <3>2, FairStays
    <3> QED BY <3>1, <3>2
  <2> QED BY <2>4, <2>5 DEF StrategiesInv
<1>4. ASSUME NEW p \in Providers, Answered(p) PROVE StrategiesInv'
  <2>1. StrategiesType'
    BY <1>1, <1>4 DEF StrategiesType, Answered
  <2>2. FairFirsts'
    BY <1>1, <1>4, FairStays DEF Answered
  <2> QED BY <2>1, <2>2 DEF StrategiesInv
<1>5. ASSUME NEW p \in Providers, NEW o \in Observations, Observe(p, o) PROVE StrategiesInv'
  <2>1. StrategiesType'
    BY <1>1, <1>5 DEF StrategiesType, Observe
  <2>2. FairFirsts'
    BY <1>1, <1>5, FairStays DEF Observe
  <2> QED BY <2>1, <2>2 DEF StrategiesInv
<1>6. ASSUME NEW set \in SUBSET Providers, SetDisabled(set) PROVE StrategiesInv'
  <2>1. StrategiesType'
    BY <1>1, <1>6 DEF StrategiesType, SetDisabled
  <2>2. FairFirsts'
    BY <1>6, FairAfresh DEF SetDisabled
  <2> QED BY <2>1, <2>2 DEF StrategiesInv
<1>7. CASE UNCHANGED strategiesVars
  <2>1. StrategiesType'
    BY <1>1, <1>7 DEF StrategiesType, strategiesVars
  <2>2. FairFirsts'
    BY <1>1, <1>7, FairStays DEF strategiesVars
  <2> QED BY <2>1, <2>2 DEF StrategiesInv
<1> QED BY <1>2, <1>3, <1>4, <1>5, <1>6, <1>7 DEF StrategiesNext

LEMMA FairIsEven == StrategiesInv => EvenRotation
<1> SUFFICES ASSUME StrategiesInv, NEW p \in Providers PROVE firsts[p] <= 1
  BY DEF EvenRotation
<1>1. FairFirsts
  BY DEF StrategiesInv
<1>2. p \notin pool => firsts[p] = 0
  BY <1>1 DEF FairFirsts
<1>3. p \in pool => firsts[p] \in {0, 1}
  <2>1. CASE \A q \in pool : firsts[q] = 0
    BY <2>1
  <2>2. CASE \E k : \A q \in pool :
               firsts[q] = IF Turned(Rank(byPriority, pool, q), cursor, k, Cardinality(pool)) THEN 1 ELSE 0
    BY <2>2
  <2> QED BY <1>1, <2>1, <2>2 DEF FairFirsts
<1> QED BY <1>2, <1>3

LEMMA RoutedKeeps ==
  /\ RequestInit => StrategiesInv
  /\ StrategiesInv /\ [RequestNext]_requestVars => StrategiesInv'
<1>1. RequestInit => StrategiesInv
  BY StartsFair DEF RequestInit
<1>2. ASSUME StrategiesInv, [RequestNext]_requestVars PROVE StrategiesInv'
  <2>1. [StrategiesNext]_strategiesVars
    BY <1>2 DEF RequestNext, requestVars
  <2> QED BY <1>2, <2>1, StrategiesKept
<1> QED BY <1>1, <1>2

(* The rotation is even: while the pool stays and only round robin moves    *)
(* the cursor (rotate), no lane of it is first twice more often than        *)
(* another, for any providers and whatever else is routed in between.       *)
THEOREM RotationIsEven == RequestSpec => []EvenRotation
<1>1. RequestInit => StrategiesInv
  BY RoutedKeeps
<1>2. StrategiesInv /\ [RequestNext]_requestVars => StrategiesInv'
  BY RoutedKeeps
<1>3. StrategiesInv => EvenRotation
  BY FairIsEven
<1> QED BY <1>1, <1>2, <1>3, PTL DEF RequestSpec

(* Every route's chain has every lane of the pool at most once, all of them *)
(* unless its combo is strict, and in a combo's chain each lane stands in   *)
(* the first tier that admits it (orderByStrategy, orderByCombo): for any   *)
(* providers, saved combos, observations and shuffles.                      *)
THEOREM ChainsKeepOrder == RequestSpec => []ChainsInOrder
<1>1. RequestInit => StrategiesInv
  BY RoutedKeeps
<1>2. StrategiesInv /\ [RequestNext]_requestVars => StrategiesInv'
  BY RoutedKeeps
<1>3. StrategiesInv => ChainsInOrder
  BY LanesOnce, FirstTiers DEF StrategiesInv, ChainsInOrder
<1> QED BY <1>1, <1>2, <1>3, PTL DEF RequestSpec


-----------------------------------------------------------------------------
(* Compression.  Places in their turn: each of them once, increasing.       *)
Increasing(s) == \A m \in DOMAIN s, n \in DOMAIN s : m < n => s[m] < s[n]

LEMMA InTurnIs ==
  ASSUME NEW S, IsFiniteSet(S), S \subseteq Nat
  PROVE  /\ inTurn(S) \in Seq(S) /\ Increasing(inTurn(S))
         /\ \A i \in S : \E n \in DOMAIN inTurn(S) : inTurn(S)[n] = i
<1> DEFINE m == Cardinality(S)
           s == inTurn(S)
           At(n) == CHOOSE i \in S : Cardinality({j \in S : j < i}) = n - 1
<1>0. PICK R : R = {pair \in S \X S : pair[1] < pair[2]}
  OBVIOUS
<1>1. \A i \in S, j \in S : <<i, j>> \in R <=> i < j
  BY <1>0
<1>2. Linear(R, S)
  <2>1. \A i \in S : i \in Nat
    OBVIOUS
  <2>2. \A i \in S : ~(i < i)
    BY <2>1
  <2>3. \A i \in S, j \in S : i = j \/ i < j \/ j < i
    BY <2>1
  <2>4. \A i \in S, j \in S, k \in S : i < j /\ j < k => i < k
    BY <2>1
  <2> QED BY <1>1, <2>2, <2>3, <2>4 DEF Linear
<1>3. \A i \in S : Cardinality({j \in S : j < i}) = Rank(R, S, i)
  <2> TAKE i \in S
  <2>1. {j \in S : j < i} = Ahead(R, S, i)
    BY <1>1 DEF Ahead
  <2> QED BY <2>1 DEF Rank
<1>4. /\ m \in Nat /\ \A i \in S : Rank(R, S, i) \in 0 .. m - 1
      /\ \A a \in S, b \in S : <<a, b>> \in R <=> Rank(R, S, a) < Rank(R, S, b)
      /\ \A a \in S, b \in S : Rank(R, S, a) = Rank(R, S, b) => a = b
  BY <1>2, RankGrows
<1>5. s = [n \in 1 .. m |-> At(n)]
  BY DEF inTurn
<1>6. ASSUME NEW n \in 1 .. m PROVE s[n] \in S /\ Rank(R, S, s[n]) = n - 1
  <2>1. \A k \in 0 .. Cardinality(S) - 1 : \E i \in S : Rank(R, S, i) = k
    BY <1>2, EveryRank
  <2>2. \E i \in S : Rank(R, S, i) = n - 1
    <3>1. n - 1 \in 0 .. m - 1
      BY <1>4
    <3> QED BY <2>1, <3>1
  <2>3. At(n) \in S /\ Cardinality({j \in S : j < At(n)}) = n - 1
    BY <1>3, <2>2
  <2>4. s[n] = At(n)
    BY <1>5
  <2> HIDE DEF At
  <2> QED BY <1>3, <2>3, <2>4
<1>7. DOMAIN s = 1 .. m /\ s = [n \in 1 .. m |-> s[n]]
  BY <1>5
<1> HIDE DEF s, m
<1>8. s \in Seq(S)
  BY <1>4, <1>6, <1>7, SequenceOf
<1>9. Increasing(s)
  <2> SUFFICES ASSUME NEW k \in 1 .. m, NEW n \in 1 .. m, k < n PROVE s[k] < s[n]
    BY <1>7 DEF Increasing
  <2>1. Rank(R, S, s[k]) < Rank(R, S, s[n]) /\ s[k] \in S /\ s[n] \in S
    BY <1>4, <1>6
  <2> QED BY <1>1, <1>4, <2>1
<1>10. ASSUME NEW i \in S PROVE \E n \in DOMAIN s : s[n] = i
  <2> DEFINE n == Rank(R, S, i) + 1
  <2>1. n \in 1 .. m /\ n - 1 = Rank(R, S, i)
    BY <1>4
  <2>2. s[n] \in S /\ Rank(R, S, s[n]) = Rank(R, S, i)
    BY <1>6, <2>1
  <2> QED BY <1>4, <1>7, <2>1, <2>2
<1> QED BY <1>8, <1>9, <1>10 DEF s

(* Those before and those after, in their turn together.                    *)
LEMMA TurnsJoined ==
  ASSUME NEW S, IsFiniteSet(S), S \subseteq Nat, NEW T, IsFiniteSet(T), T \subseteq Nat,
         \A i \in S, j \in T : i < j
  PROVE  LET s == inTurn(S) \o inTurn(T)
         IN  /\ Increasing(s) /\ Len(s) \in Nat /\ DOMAIN s = 1 .. Len(s)
             /\ \A n \in DOMAIN s : s[n] \in S \cup T
             /\ \A i \in S \cup T : \E n \in DOMAIN s : s[n] = i
<1> DEFINE a == inTurn(S)
           b == inTurn(T)
           s == a \o b
           U == S \cup T
<1>1. a \in Seq(S) /\ Increasing(a) /\ \A i \in S : \E n \in DOMAIN a : a[n] = i
  BY InTurnIs
<1>2. b \in Seq(T) /\ Increasing(b) /\ \A i \in T : \E n \in DOMAIN b : b[n] = i
  BY InTurnIs
<1> HIDE DEF a, b
<1>3. /\ Len(a) \in Nat /\ DOMAIN a = 1 .. Len(a) /\ (\A n \in 1 .. Len(a) : a[n] \in S)
      /\ Len(b) \in Nat /\ DOMAIN b = 1 .. Len(b) /\ (\A n \in 1 .. Len(b) : b[n] \in T)
  BY <1>1, <1>2, SequenceIs
<1>4. a \in Seq(U) /\ b \in Seq(U)
  <2>1. a = [n \in 1 .. Len(a) |-> a[n]] /\ b = [n \in 1 .. Len(b) |-> b[n]]
    BY <1>1, <1>2, SequenceIs
  <2>2. (\A n \in 1 .. Len(a) : a[n] \in U) /\ (\A n \in 1 .. Len(b) : b[n] \in U)
    BY <1>3
  <2> HIDE DEF U
  <2> QED BY <1>3, <2>1, <2>2, SequenceOf
<1> HIDE DEF U
<1>5. /\ s \in Seq(U) /\ DOMAIN s = 1 .. Len(a) + Len(b)
      /\ \A n \in 1 .. Len(a) : s[n] = a[n]
      /\ \A n \in Len(a) + 1 .. Len(a) + Len(b) : s[n] = b[n - Len(a)]
  BY <1>4, SequencesJoined
<1> HIDE DEF s
<1>6. Len(s) \in Nat /\ DOMAIN s = 1 .. Len(s) /\ \A n \in DOMAIN s : s[n] \in U
  BY <1>5, SequenceIs
<1>7. \A n \in DOMAIN s : n \in 1 .. Len(a)
                          \/ (n \in Len(a) + 1 .. Len(a) + Len(b) /\ n - Len(a) \in 1 .. Len(b))
  BY <1>3, <1>5
<1>8. Increasing(s)
  <2> SUFFICES ASSUME NEW k \in DOMAIN s, NEW n \in DOMAIN s, k < n PROVE s[k] < s[n]
    BY DEF Increasing
  <2>0. k \in Nat /\ n \in Nat
    BY <1>6
  <2>1. CASE n \in 1 .. Len(a)
    <3>1. k \in 1 .. Len(a)
      BY <1>3, <1>7, <2>0, <2>1
    <3>2. s[k] = a[k] /\ s[n] = a[n]
      BY <1>5, <2>1, <3>1
    <3> QED BY <1>1, <1>3, <2>1, <3>1, <3>2 DEF Increasing
  <2>2. CASE n \in Len(a) + 1 .. Len(a) + Len(b) /\ n - Len(a) \in 1 .. Len(b)
    <3>1. s[n] = b[n - Len(a)] /\ s[n] \in T
      BY <1>3, <1>5, <2>2
    <3>2. CASE k \in 1 .. Len(a)
      <4>1. s[k] \in S
        BY <1>3, <1>5, <3>2
      <4> QED BY <3>1, <4>1
    <3>3. CASE k \in Len(a) + 1 .. Len(a) + Len(b) /\ k - Len(a) \in 1 .. Len(b)
      <4>1. s[k] = b[k - Len(a)]
        BY <1>5, <3>3
      <4>2. k - Len(a) < n - Len(a)
        BY <1>3, <2>0
      <4> QED BY <1>2, <1>3, <2>2, <3>1, <3>3, <4>1, <4>2 DEF Increasing
    <3> QED BY <1>7, <3>2, <3>3
  <2> QED BY <1>7, <2>1, <2>2
<1>9. ASSUME NEW i \in U PROVE \E n \in DOMAIN s : s[n] = i
  <2>1. CASE i \in S
    <3>1. PICK n \in 1 .. Len(a) : a[n] = i
      BY <1>1, <1>3, <2>1
    <3>2. n \in DOMAIN s /\ s[n] = i
      BY <1>3, <1>5, <3>1
    <3> QED BY <3>2
  <2>2. CASE i \in T
    <3>1. PICK n \in 1 .. Len(b) : b[n] = i
      BY <1>2, <1>3, <2>2
    <3>2. Len(a) + n \in Len(a) + 1 .. Len(a) + Len(b) /\ (Len(a) + n) - Len(a) = n
      BY <1>3, <3>1
    <3>3. Len(a) + n \in DOMAIN s
      BY <1>3, <1>5, <3>1
    <3>4. s[Len(a) + n] = i
      BY <1>5, <3>1, <3>2
    <3> QED BY <3>3, <3>4
  <2> QED BY <2>1, <2>2 DEF U
<1> QED BY <1>6, <1>8, <1>9 DEF s, a, b, U

(* The operator's text comes first, a result follows its call or another    *)
(* result, and what is sent is the conversation, compressed.                *)
WellSaid ==
  /\ conversation \in Seq(Roles)
  /\ \A i \in DOMAIN conversation, j \in DOMAIN conversation :
       i < j /\ conversation[j] = "system" => conversation[i] = "system"
  /\ \A i \in DOMAIN conversation : conversation[i] = "tool" =>
       i > 1 /\ conversation[i - 1] \in {"call", "tool"}

CompressionInv ==
  /\ WellSaid /\ config \in Configs
  /\ (conversation = <<>> /\ short = <<>>) \/ short = compressMessages(conversation, config)

LEMMA SayKeeps ==
  ASSUME CompressionInv, Say
  PROVE  CompressionInv'
<1> DEFINE last == Len(conversation)
<1>1. PICK role \in Roles : mayFollow(role) /\ conversation' = Append(conversation, role)
  BY DEF Say
<1>2. /\ conversation \in Seq(Roles)
      /\ \A i \in DOMAIN conversation, j \in DOMAIN conversation :
           i < j /\ conversation[j] = "system" => conversation[i] = "system"
      /\ \A i \in DOMAIN conversation : conversation[i] = "tool" =>
           i > 1 /\ conversation[i - 1] \in {"call", "tool"}
  BY DEF CompressionInv, WellSaid
<1>3. last \in Nat /\ DOMAIN conversation = 1 .. last /\ (conversation = <<>> <=> last = 0)
  BY <1>2
<1>4. /\ conversation' \in Seq(Roles) /\ DOMAIN conversation' = 1 .. last + 1
      /\ conversation'[last + 1] = role
      /\ \A i \in 1 .. last : conversation'[i] = conversation[i]
  BY <1>1, <1>2, <1>3
<1>5. /\ role = "tool" => last > 0 /\ conversation[last] \in {"call", "tool"}
      /\ role = "system" => last = 0 \/ conversation[last] = "system"
  <2>1. CASE last = 0
    BY <1>1, <1>3, <2>1 DEF mayFollow
  <2>2. CASE last # 0
    <3>1. conversation # <<>>
      BY <1>3, <2>2
    <3>2. CASE role = "tool"
      <4>1. conversation[Len(conversation)] \in {"call", "tool"}
        BY <1>1, <3>1, <3>2 DEF mayFollow
      <4> QED BY <1>3, <2>2, <3>2, <4>1
    <3>3. CASE role = "system"
      <4>1. conversation[Len(conversation)] \in {"none", "system"}
        BY <1>1, <3>1, <3>3 DEF mayFollow
      <4>2. conversation[Len(conversation)] \in Roles
        BY <1>2, <1>3, <2>2
      <4>3. conversation[Len(conversation)] # "none"
        BY <4>2 DEF Roles
      <4> QED BY <3>3, <4>1, <4>3
    <3> QED BY <3>2, <3>3
  <2> QED BY <2>1, <2>2
<1> HIDE DEF last
<1>6. ASSUME NEW i \in 1 .. last + 1, NEW j \in 1 .. last + 1, i < j, conversation'[j] = "system"
      PROVE  conversation'[i] = "system"
  <2>1. i \in 1 .. last /\ conversation'[i] = conversation[i]
    BY <1>3, <1>4, <1>6
  <2>2. CASE j \in 1 .. last
    BY <1>2, <1>3, <1>4, <1>6, <2>1, <2>2
  <2>3. CASE j = last + 1
    <3>1. conversation[last] = "system" /\ last \in 1 .. last
      BY <1>3, <1>4, <1>5, <1>6, <2>1, <2>3
    <3>2. i = last \/ i < last
      BY <1>3, <2>1
    <3> QED BY <1>2, <1>3, <2>1, <3>1, <3>2
  <2> QED BY <1>3, <2>2, <2>3
<1>7. ASSUME NEW i \in 1 .. last + 1, conversation'[i] = "tool"
      PROVE  i > 1 /\ conversation'[i - 1] \in {"call", "tool"}
  <2>1. CASE i \in 1 .. last
    <3>1. i > 1 /\ conversation[i - 1] \in {"call", "tool"}
      BY <1>2, <1>3, <1>4, <1>7, <2>1
    <3>2. i - 1 \in 1 .. last
      BY <1>3, <2>1, <3>1
    <3> QED BY <1>4, <3>1, <3>2
  <2>2. CASE i = last + 1
    <3>1. last > 0 /\ conversation[last] \in {"call", "tool"} /\ i - 1 = last /\ last \in 1 .. last
      BY <1>3, <1>4, <1>5, <1>7, <2>2
    <3> QED BY <1>3, <1>4, <2>2, <3>1
  <2> QED BY <1>3, <2>1, <2>2
<1>8. WellSaid'
  BY <1>4, <1>6, <1>7 DEF WellSaid
<1>9. config' = config /\ short' = compressMessages(conversation', config)
  BY DEF Say
<1>10. config' \in Configs /\ short' = compressMessages(conversation', config')
  BY <1>9 DEF CompressionInv
<1>11. compressMessages(conversation', config') = compressMessages(conversation, config)'
  BY DEF compressMessages, systemMsgs, kept, nonSystem, recent, latest, inTurn, paraphrased
<1> QED BY <1>8, <1>10, <1>11 DEF CompressionInv

(* What compression leaves of a conversation, by its places.                *)
LEMMA WhatIsKept ==
  ASSUME WellSaid, conversation # <<>>, NEW window \in Nat
  PROVE  LET talk == conversation
             K    == kept(talk, window)
         IN  /\ K \subseteq nonSystem(talk)
             /\ \A i \in K : talk[i] = "tool" => i - 1 \in K
             /\ \A i \in DOMAIN talk :
                  talk[i] = "user" /\ (\A j \in 1 .. i - 1 : talk[j] # "user") => i \in K
             /\ \A i \in nonSystem(talk) : talk[i] # "tool" /\ i > Len(talk) - window => i \in K
<1> DEFINE talk == conversation
           n    == Len(talk)
           others == nonSystem(talk)
           K    == kept(talk, window)
           asked == {i \in others : talk[i] = "user"}
           first == {i \in asked : \A j \in asked : i <= j}
           late  == latest(others, window)
           new   == recent(talk, others, window)
<1>1. /\ n \in Nat /\ DOMAIN talk = 1 .. n
      /\ \A i \in 1 .. n : talk[i] = "tool" => i > 1 /\ talk[i - 1] \in {"call", "tool"}
  <2>1. talk \in Seq(Roles) /\ \A i \in DOMAIN talk :
          talk[i] = "tool" => i > 1 /\ talk[i - 1] \in {"call", "tool"}
    BY DEF WellSaid
  <2>2. n \in Nat /\ DOMAIN talk = 1 .. n
    BY <2>1, SequenceIs
  <2> QED BY <2>1, <2>2
<1>2. \A i : i \in others <=> i \in 1 .. n /\ talk[i] # "system"
  BY <1>1 DEF nonSystem
<1>3. \A i \in others : talk[i] = "tool" => i - 1 \in others
  <2> TAKE i \in others
  <2> HAVE talk[i] = "tool"
  <2>1. i \in 1 .. n /\ i > 1 /\ talk[i - 1] \in {"call", "tool"}
    BY <1>1, <1>2
  <2>2. i - 1 \in 1 .. n
    BY <1>1, <2>1
  <2> QED BY <1>2, <2>1, <2>2
<1>4. \A i : i \in asked <=> i \in 1 .. n /\ talk[i] = "user"
  BY <1>2
<1>5. K = IF window = 0 \/ Cardinality(others) <= window THEN others ELSE new \cup first
  BY DEF kept
<1>6. late = {i \in others : Cardinality({j \in others : j > i}) < window}
  BY DEF latest
<1>7. new = {i \in others : \E j \in late : j <= i /\ talk[j] # "tool"}
  BY DEF recent
<1>8. first \subseteq asked /\ asked \subseteq others /\ new \subseteq others
  BY <1>7
<1>9. ASSUME NEW i \in 1 .. n, talk[i] = "user", \A j \in 1 .. i - 1 : talk[j] # "user"
      PROVE  i \in first /\ i \in others
  <2>1. i \in asked /\ i \in others
    BY <1>2, <1>4, <1>9
  <2>2. \A j \in asked : i <= j
    <3> TAKE j \in asked
    <3>1. j \in 1 .. n /\ talk[j] = "user"
      BY <1>4
    <3>2. j \notin 1 .. i - 1
      BY <1>9, <3>1
    <3> QED BY <1>1, <3>1, <3>2
  <2> QED BY <2>1, <2>2
<1>10. ASSUME NEW i \in others, talk[i] # "tool", i > n - window
       PROVE  i \in new
  <2> DEFINE rest == {j \in others : j > i}
  <2>1. i \in 1 .. n
    BY <1>2
  <2>2. rest \subseteq i + 1 .. n
    BY <1>1, <1>2, <2>1
  <2>3. i + 1 \in Int /\ n \in Int
    BY <1>1, <2>1
  <2> HIDE DEF rest
  <2>4. IsFiniteSet(i + 1 .. n)
        /\ Cardinality(i + 1 .. n) = IF i + 1 > n THEN 0 ELSE n - (i + 1) + 1
    BY <2>3, FS_Interval
  <2>5. IsFiniteSet(rest) /\ Cardinality(rest) <= Cardinality(i + 1 .. n)
    BY <2>2, <2>4, FS_Subset
  <2>6. Cardinality(rest) \in Nat
    BY <2>5, FS_CardinalityType
  <2>7. Cardinality(rest) < window
    <3> DEFINE c == Cardinality(rest)
               d == Cardinality(i + 1 .. n)
    <3>1. c \in Nat /\ c <= d /\ d = IF i + 1 > n THEN 0 ELSE n - (i + 1) + 1
      BY <2>4, <2>5, <2>6
    <3>2. n \in Nat /\ i \in 1 .. n /\ window \in Nat /\ i > n - window
      BY <1>1, <1>10, <2>1
    <3> HIDE DEF c, d, n
    <3>3. c < window
      BY <3>1, <3>2
    <3> QED BY <3>3 DEF c
  <2>8. i \in late
    BY <1>6, <2>7 DEF rest
  <2>9. i <= i
    BY <2>1
  <2> QED BY <1>7, <1>10, <2>8, <2>9
<1>11. ASSUME NEW i \in new, talk[i] = "tool" PROVE i - 1 \in new
  <2>1. PICK j \in late : j <= i /\ talk[j] # "tool"
    BY <1>7
  <2>2. i \in others /\ i - 1 \in others /\ j \in others
    BY <1>3, <1>6, <1>7, <1>11
  <2>3. i \in 1 .. n /\ j \in 1 .. n
    BY <1>2, <2>2
  <2>4. j <= i - 1
    <3>1. i # j
      BY <1>11, <2>1
    <3> QED BY <2>1, <2>3, <3>1
  <2> QED BY <1>7, <2>1, <2>2, <2>4
<1> HIDE DEF talk, n, others, asked, first, late, new
<1>12. CASE window = 0 \/ Cardinality(others) <= window
  <2>1. K = others
    BY <1>5, <1>12
  <2> QED BY <1>1, <1>3, <1>9, <2>1 DEF talk, n, others
<1>13. CASE ~(window = 0 \/ Cardinality(others) <= window)
  <2>1. K = new \cup first
    BY <1>5, <1>13
  <2>2. \A i \in first : talk[i] = "user"
    BY <1>4, <1>8
  <2>3. /\ K \subseteq others
        /\ \A i \in K : talk[i] = "tool" => i - 1 \in K
        /\ \A i \in 1 .. n : talk[i] = "user" /\ (\A j \in 1 .. i - 1 : talk[j] # "user") => i \in K
        /\ \A i \in others : talk[i] # "tool" /\ i > n - window => i \in K
    BY <1>8, <1>9, <1>10, <1>11, <2>1, <2>2
  <2> QED BY <1>1, <2>3 DEF talk, n, others
<1> QED BY <1>12, <1>13

(* Two places of an increasing sequence that follow each other among all    *)
(* that it holds are next to each other in it.                              *)
LEMMA NextToEachOther ==
  ASSUME NEW s, NEW m \in Nat, DOMAIN s = 1 .. m, \A n \in 1 .. m : s[n] \in Nat,
         Increasing(s), NEW n \in 1 .. m, NEW k \in 1 .. m, s[k] = s[n] - 1
  PROVE  n > 1 /\ s[n - 1] = s[n] - 1
<1>1. s[k] < s[n] /\ s[k] \in Nat /\ s[n] \in Nat
  OBVIOUS
<1>2. k < n
  <2>1. k = n \/ n < k \/ k < n
    OBVIOUS
  <2>2. n < k => s[n] < s[k]
    BY DEF Increasing
  <2> QED BY <1>1, <2>1, <2>2
<1>3. k = n - 1
  <2> SUFFICES ASSUME k < n - 1 PROVE FALSE
    BY <1>2
  <2>1. n - 1 \in 1 .. m /\ n - 1 < n
    BY <1>2
  <2>2. s[k] < s[n - 1] /\ s[n - 1] < s[n] /\ s[n - 1] \in Nat
    BY <2>1 DEF Increasing
  <2> QED BY <1>1, <2>2
<1> QED BY <1>2, <1>3

LEMMA SenseIsMade == CompressionInv => ConversationMakesSense
<1> SUFFICES ASSUME CompressionInv PROVE ConversationMakesSense
  OBVIOUS
<1>1. WellSaid /\ config \in Configs
  BY DEF CompressionInv
<1>2. config.historyWindow \in Nat
  BY <1>1 DEF Configs
<1>3. CASE conversation = <<>> /\ short = <<>>
  BY <1>3 DEF ConversationMakesSense
<1>4. CASE conversation = <<>> /\ short = compressMessages(conversation, config)
  <2>1. systemMsgs(conversation) = {} /\ nonSystem(conversation) = {}
    BY <1>4 DEF systemMsgs, nonSystem
  <2>2. kept(conversation, config.historyWindow) = {}
    <3>1. recent(conversation, {}, config.historyWindow) = {}
      BY DEF recent
    <3> QED BY <2>1, <3>1 DEF kept
  <2>3. DOMAIN short = DOMAIN (inTurn({}) \o inTurn({}))
    BY <1>4, <2>1, <2>2 DEF compressMessages
  <2>4. DOMAIN (inTurn({}) \o inTurn({})) = {}
    <3>1. /\ IsFiniteSet({}) /\ {} \subseteq Nat
      BY FS_EmptySet
    <3>2. LET s == inTurn({}) \o inTurn({})
          IN  \A n \in DOMAIN s : s[n] \in {} \cup {}
      BY <3>1, TurnsJoined
    <3> QED BY <3>2
  <2>5. DOMAIN short = {}
    BY <2>3, <2>4
  <2>6. Len(conversation) = 0 /\ DOMAIN conversation = {}
    BY <1>4
  <2>7. 1 .. Len(short) - 1 = {}
    <3>1. short = <<>>
      <4>1. short = [n \in {} |-> short[n]]
        BY <1>4, <2>5 DEF compressMessages
      <4> QED BY <4>1
    <3> QED BY <3>1
  <2> QED BY <2>5, <2>6, <2>7 DEF ConversationMakesSense
<1>5. CASE conversation # <<>> /\ short = compressMessages(conversation, config)
  <2> DEFINE talk == conversation
             window == config.historyWindow
             A == systemMsgs(talk)
             K == kept(talk, window)
             s == inTurn(A) \o inTurn(K)
  <2>1. /\ talk \in Seq(Roles)
        /\ \A i \in DOMAIN talk, j \in DOMAIN talk : i < j /\ talk[j] = "system" => talk[i] = "system"
        /\ \A i \in DOMAIN talk : talk[i] = "tool" => i > 1 /\ talk[i - 1] \in {"call", "tool"}
    BY <1>1 DEF WellSaid
  <2>2. Len(talk) \in Nat /\ DOMAIN talk = 1 .. Len(talk)
    BY <2>1, SequenceIs
  <2>3. /\ K \subseteq nonSystem(talk)
        /\ \A i \in K : talk[i] = "tool" => i - 1 \in K
        /\ \A i \in DOMAIN talk :
             talk[i] = "user" /\ (\A j \in 1 .. i - 1 : talk[j] # "user") => i \in K
        /\ \A i \in nonSystem(talk) : talk[i] # "tool" /\ i > Len(talk) - window => i \in K
    BY <1>1, <1>2, <1>5, WhatIsKept
  <2>4. short = [n \in DOMAIN s |-> [place |-> s[n], role |-> talk[s[n]],
                                     lossy |-> paraphrased(talk[s[n]], n = Len(s), config)]]
    BY <1>5 DEF compressMessages
  <2> HIDE DEF K
  <2>5. /\ A \subseteq DOMAIN talk /\ K \subseteq DOMAIN talk
        /\ \A i \in A, j \in K : i < j
    <3>1. A \subseteq DOMAIN talk /\ K \subseteq DOMAIN talk
      BY <2>3 DEF systemMsgs, nonSystem
    <3>2. ASSUME NEW i \in A, NEW j \in K PROVE i < j
      <4>1. talk[i] = "system" /\ talk[j] # "system" /\ i \in DOMAIN talk /\ j \in DOMAIN talk
        BY <2>3 DEF systemMsgs, nonSystem
      <4>2. i \in Nat /\ j \in Nat
        BY <2>2, <4>1
      <4>3. i = j \/ i < j \/ j < i
        BY <4>2
      <4> QED BY <2>1, <4>1, <4>3
    <3> QED BY <3>1, <3>2
  <2>6. IsFiniteSet(A) /\ A \subseteq Nat /\ IsFiniteSet(K) /\ K \subseteq Nat
    <3>1. IsFiniteSet(1 .. Len(talk))
      <4> DEFINE m == Len(talk)
      <4>1. 1 \in Int /\ m \in Int
        BY <2>2
      <4> HIDE DEF m
      <4>2. IsFiniteSet(1 .. m)
        BY <4>1, FS_Interval
      <4> QED BY <4>2 DEF m
    <3> HIDE DEF A
    <3>2. A \subseteq 1 .. Len(talk) /\ K \subseteq 1 .. Len(talk)
      BY <2>2, <2>5
    <3>3. 1 .. Len(talk) \subseteq Nat
      BY <2>2
    <3> QED BY <3>1, <3>2, <3>3, FS_Subset
  <2> HIDE DEF A
  <2>7. /\ Increasing(s) /\ Len(s) \in Nat /\ DOMAIN s = 1 .. Len(s)
        /\ \A n \in DOMAIN s : s[n] \in A \cup K
        /\ \A i \in A \cup K : \E n \in DOMAIN s : s[n] = i
    BY <2>5, <2>6, TurnsJoined
  <2> HIDE DEF s
  <2>8. /\ DOMAIN short = 1 .. Len(s) /\ Len(short) = Len(s)
        /\ \A n \in 1 .. Len(s) : short[n].place = s[n] /\ short[n].role = talk[s[n]]
    <3>1. DOMAIN short = 1 .. Len(s)
      BY <2>4, <2>7
    <3>2. Len(short) = Len(s)
      BY <2>4, <2>7, <3>1
    <3> QED BY <2>4, <2>7, <3>1, <3>2
  <2>9. \A n \in 1 .. Len(s) : s[n] \in Nat /\ s[n] \in DOMAIN talk
    BY <2>2, <2>5, <2>7
  <2>10. \A n \in 1 .. Len(s) - 1 : s[n] < s[n + 1]
    <3> TAKE n \in 1 .. Len(s) - 1
    <3>1. n \in 1 .. Len(s) /\ n + 1 \in 1 .. Len(s) /\ n < n + 1
      BY <2>7
    <3> QED BY <2>7, <3>1 DEF Increasing
  <2>11. ASSUME NEW n \in 1 .. Len(s), talk[s[n]] = "tool"
         PROVE  n > 1 /\ short[n - 1].role \in {"call", "tool"} /\ short[n - 1].place = s[n] - 1
    <3>1. s[n] \in K
      <4>1. s[n] \notin A
        BY <2>11 DEF A, systemMsgs
      <4> QED BY <2>7, <4>1
    <3>2. s[n] - 1 \in K
      BY <2>3, <2>11, <3>1
    <3>3. PICK k \in 1 .. Len(s) : s[k] = s[n] - 1
      BY <2>7, <3>2
    <3>4. n > 1 /\ s[n - 1] = s[n] - 1
      BY <2>7, <2>9, <3>3, NextToEachOther
    <3>5. n - 1 \in 1 .. Len(s)
      BY <2>7, <3>4
    <3>6. talk[s[n] - 1] \in {"call", "tool"}
      BY <2>1, <2>9, <2>11
    <3> QED BY <2>8, <3>4, <3>5, <3>6
  <2>12. ASSUME NEW i \in A \cup K PROVE \E n \in 1 .. Len(s) : s[n] = i
    BY <2>7
  <2>13. \A i \in DOMAIN talk : talk[i] = "system" => i \in A
    BY DEF A, systemMsgs
  <2>14. ASSUME NEW i \in DOMAIN talk, talk[i] # "tool", i > Len(talk) - window
         PROVE  i \in A \cup K
    <3>1. CASE talk[i] = "system"
      BY <2>13, <3>1
    <3>2. CASE talk[i] # "system"
      BY <2>3, <2>14, <3>2 DEF nonSystem
    <3> QED BY <3>1, <3>2
  <2>15. \A n \in DOMAIN short : short[n].role = "tool" =>
           n > 1 /\ short[n - 1].role \in {"call", "tool"} /\ short[n - 1].place = short[n].place - 1
    BY <2>8, <2>11
  <2>16. \A n \in 1 .. Len(short) - 1 : short[n].place < short[n + 1].place
    <3> TAKE n \in 1 .. Len(short) - 1
    <3>1. n \in 1 .. Len(s) /\ n + 1 \in 1 .. Len(s) /\ n \in 1 .. Len(s) - 1
      BY <2>7, <2>8
    <3> QED BY <2>8, <2>10, <3>1
  <2>17. \A i \in A \cup K : \E n \in DOMAIN short : short[n].place = i
    BY <2>8, <2>12
  <2>18. \A i \in DOMAIN conversation :
           conversation[i] = "system"
           \/ (conversation[i] = "user" /\ \A j \in 1 .. i - 1 : conversation[j] # "user")
             => i \in A \cup K
    BY <2>3, <2>13
  <2>19. \A i \in DOMAIN conversation :
           conversation[i] # "tool" /\ i > Len(conversation) - config.historyWindow => i \in A \cup K
    BY <2>14
  <2> QED BY <2>15, <2>16, <2>17, <2>18, <2>19 DEF ConversationMakesSense
<1> QED BY <1>1, <1>3, <1>4, <1>5 DEF CompressionInv

(* However long the conversation is and whatever the window, what           *)
(* compression forgets leaves a conversation (compressMessagesWithStats):   *)
(* no result without the message before it, the operator's text and the     *)
(* task there, what is recent there, and everything once and in order.      *)
THEOREM ForgettingMakesSense == RequestSpec => []ConversationMakesSense
<1>1. RequestInit => CompressionInv
  BY DEF RequestInit, CompressionInit, CompressionInv, WellSaid
<1>2. CompressionInv /\ [RequestNext]_requestVars => CompressionInv'
  <2> SUFFICES ASSUME CompressionInv, [RequestNext]_requestVars PROVE CompressionInv'
    OBVIOUS
  <2>1. Say \/ UNCHANGED compressionVars
    BY DEF RequestNext, requestVars, CompressionNext
  <2>2. CASE Say
    BY <2>2, SayKeeps
  <2>3. CASE UNCHANGED compressionVars
    <3>1. compressMessages(conversation, config)' = compressMessages(conversation, config)
      BY <2>3 DEF compressionVars, compressMessages, systemMsgs, kept, nonSystem, recent, latest, inTurn, paraphrased
    <3> QED BY <2>3, <3>1 DEF compressionVars, CompressionInv, WellSaid
  <2> QED BY <2>1, <2>2, <2>3
<1>3. CompressionInv => ConversationMakesSense
  BY SenseIsMade
<1> QED BY <1>1, <1>2, <1>3, PTL DEF RequestSpec

-----------------------------------------------------------------------------
(* A streamed reply keeps to its protocol and is the reply in one piece.    *)
(* Blocks first: what text and which calls they tell.  Then each encoder    *)
(* by itself, from its first delta to its last, against the pieces of text  *)
(* T and the pieces A[c] of each call c that were said; then what providers *)
(* say, and the two together.                                               *)
(* Streams.  What is known of any sequence.                                           *)
LEMMA ElementsOf ==
  ASSUME NEW S, NEW s \in Seq(S)
  PROVE  Len(s) \in Nat /\ DOMAIN s = 1..Len(s) /\ \A k \in 1..Len(s) : s[k] \in S
OBVIOUS

LEMMA ListOf ==
  ASSUME NEW S, NEW n \in Nat, NEW f \in [1..n -> S]
  PROVE  f \in Seq(S) /\ Len(f) = n /\ DOMAIN f = 1..n
OBVIOUS

LEMMA OneMore ==
  ASSUME NEW S, NEW s \in Seq(S), NEW x \in S
  PROVE  /\ Append(s, x) \in Seq(S) /\ Len(Append(s, x)) = Len(s) + 1
         /\ DOMAIN Append(s, x) = 1..Len(s) + 1
         /\ \A k \in 1..Len(s) : Append(s, x)[k] = s[k]
         /\ Append(s, x)[Len(s) + 1] = x
OBVIOUS

(* The blocks a client has heard, and one more piece in one of them.        *)
StreamBlock == [kind : {"text", "tool"}, holds : Seq(Nat)]

Grown(b, c, i, piece) ==
  /\ c \in Seq(StreamBlock) /\ Len(c) = Len(b)
  /\ \A j \in 1..Len(b) :
       /\ c[j].kind = b[j].kind
       /\ c[j].holds = IF j = i THEN Append(b[j].holds, piece) ELSE b[j].holds

LEMMA BlockIs ==
  ASSUME NEW b \in Seq(StreamBlock), NEW i \in 1..Len(b)
  PROVE  /\ b[i].kind \in {"text", "tool"} /\ b[i].holds \in Seq(Nat)
         /\ Len(b[i].holds) \in Nat /\ DOMAIN b[i].holds = 1..Len(b[i].holds)
         /\ \A k \in 1..Len(b[i].holds) : b[i].holds[k] \in Nat
<1>1. b[i] \in StreamBlock
  BY ElementsOf
<1>2. b[i].kind \in {"text", "tool"} /\ b[i].holds \in Seq(Nat)
  BY <1>1 DEF StreamBlock
<1> QED BY <1>2, ElementsOf

(* A block of that kind was announced.                                      *)
Opened(b, c, kind) ==
  /\ c \in Seq(StreamBlock) /\ Len(c) = Len(b) + 1
  /\ \A i \in 1..Len(b) : c[i] = b[i]
  /\ c[Len(b) + 1] = [kind |-> kind, holds |-> <<>>]

(* A new piece is after all that was said.                                  *)
Before(P, piece) == \A x \in P : x \in Nat /\ x < piece

(* A piece that is said last is told last.                                  *)
LEMMA ToldMore ==
  ASSUME NEW s \in Seq(Nat), NEW P, NEW piece \in Nat, Told(s, P), Before(P, piece)
  PROVE  Told(Append(s, piece), P \cup {piece})
<1> DEFINE t == Append(s, piece)
<1>1. /\ Len(s) \in Nat /\ DOMAIN s = 1..Len(s) /\ DOMAIN t = 1..Len(s) + 1
      /\ \A k \in 1..Len(s) : t[k] = s[k] /\ s[k] \in Nat
      /\ t[Len(s) + 1] = piece
  BY OneMore, ElementsOf
<1> HIDE DEF t
<1>2. \A k \in 1..Len(s) : s[k] \in P
  BY <1>1 DEF Told
<1>3. \A k, l \in DOMAIN t : k < l => t[k] < t[l]
  <2> SUFFICES ASSUME NEW k \in DOMAIN t, NEW l \in DOMAIN t, k < l PROVE t[k] < t[l]
    OBVIOUS
  <2>1. k \in 1..Len(s) /\ t[k] = s[k]
    BY <1>1
  <2>2. CASE l = Len(s) + 1
    BY <1>1, <1>2, <2>1, <2>2 DEF Before
  <2>3. CASE l # Len(s) + 1
    <3>1. l \in 1..Len(s)
      BY <1>1, <2>3
    <3> QED BY <1>1, <2>1, <3>1 DEF Told
  <2> QED BY <2>2, <2>3
<1>4. {t[k] : k \in DOMAIN t} = P \cup {piece}
  <2>1. ASSUME NEW k \in DOMAIN t PROVE t[k] \in P \cup {piece}
    BY <1>1, <1>2
  <2>2. ASSUME NEW x \in P PROVE \E k \in DOMAIN t : t[k] = x
    <3>1. PICK k \in DOMAIN s : s[k] = x
      BY DEF Told
    <3> QED BY <1>1, <3>1
  <2>3. Len(s) + 1 \in DOMAIN t
    BY <1>1
  <2> QED BY <1>1, <2>1, <2>2, <2>3
<1> QED BY <1>3, <1>4 DEF Told, t

LEMMA NothingTold == Told(<<>>, {})
BY DEF Told

-----------------------------------------------------------------------------
(* A piece is among the text of the blocks when a block of text holds it.   *)
LEMMA HeldIs ==
  ASSUME NEW b, NEW x
  PROVE  x \in Held(b) <=> \E i \in DOMAIN b : /\ b[i].kind = "text"
                                             /\ \E k \in DOMAIN b[i].holds : b[i].holds[k] = x
<1>1. ASSUME x \in Held(b)
      PROVE  \E i \in DOMAIN b : b[i].kind = "text" /\ \E k \in DOMAIN b[i].holds : b[i].holds[k] = x
  BY <1>1 DEF Held, Those
<1>2. ASSUME NEW i \in DOMAIN b, b[i].kind = "text", NEW k \in DOMAIN b[i].holds, b[i].holds[k] = x
      PROVE  x \in Held(b)
  <2>1. i \in Those(b, "text") /\ x \in {b[i].holds[m] : m \in DOMAIN b[i].holds}
    BY <1>2 DEF Those
  <2> QED BY <2>1 DEF Held
<1> QED BY <1>1, <1>2

(* A block that was announced holds nothing yet.                            *)
LEMMA TextAnnounced ==
  ASSUME NEW b \in Seq(StreamBlock), NEW c, NEW T, NEW kind, TextTold(b, T), Opened(b, c, kind)
  PROVE  TextTold(c, T)
<1> DEFINE x == [kind |-> kind, holds |-> <<>>]
<1>0. DOMAIN x.holds = {}
  OBVIOUS
<1>1. /\ Len(b) \in Nat /\ DOMAIN b = 1..Len(b) /\ DOMAIN c = 1..Len(b) + 1
      /\ \A i \in 1..Len(b) : c[i] = b[i]
      /\ c[Len(b) + 1] = x
  BY ElementsOf DEF Opened
<1> HIDE DEF x
<1>2. \A i \in DOMAIN c : DOMAIN c[i].holds # {} => i \in DOMAIN b /\ c[i] = b[i]
  BY <1>0, <1>1
<1>3. Held(c) = T
  <2>1. ASSUME NEW y PROVE y \in Held(c) <=> y \in Held(b)
    <3>1. ASSUME y \in Held(c) PROVE y \in Held(b)
      <4>1. PICK i \in DOMAIN c : c[i].kind = "text" /\ \E k \in DOMAIN c[i].holds : c[i].holds[k] = y
        BY <3>1, HeldIs
      <4>2. i \in DOMAIN b /\ c[i] = b[i]
        BY <1>2, <4>1
      <4> QED BY <4>1, <4>2, HeldIs
    <3>2. ASSUME y \in Held(b) PROVE y \in Held(c)
      <4>1. PICK i \in DOMAIN b : b[i].kind = "text" /\ \E k \in DOMAIN b[i].holds : b[i].holds[k] = y
        BY <3>2, HeldIs
      <4>2. i \in DOMAIN c /\ c[i] = b[i]
        BY <1>1, <4>1
      <4> QED BY <4>1, <4>2, HeldIs
    <3> QED BY <3>1, <3>2
  <2> QED BY <2>1 DEF TextTold
<1>4. ASSUME NEW i \in Those(c, "text"), NEW j \in Those(c, "text"),
             NEW k \in DOMAIN c[i].holds, NEW l \in DOMAIN c[j].holds, i < j \/ (i = j /\ k < l)
      PROVE  c[i].holds[k] < c[j].holds[l]
  <2>1. i \in DOMAIN c /\ j \in DOMAIN c /\ c[i].kind = "text" /\ c[j].kind = "text"
    BY DEF Those
  <2>2. i \in DOMAIN b /\ j \in DOMAIN b /\ c[i] = b[i] /\ c[j] = b[j]
    BY <1>2, <2>1
  <2>3. i \in Those(b, "text") /\ j \in Those(b, "text")
    BY <2>1, <2>2 DEF Those
  <2> QED BY <1>4, <2>2, <2>3 DEF TextTold
<1> QED BY <1>3, <1>4 DEF TextTold

(* Text goes into the last block.                                           *)
LEMMA TextFilled ==
  ASSUME NEW b \in Seq(StreamBlock), NEW c, NEW T, NEW piece \in Nat, TextTold(b, T),
         Before(T, piece), Len(b) > 0, b[Len(b)].kind = "text", Grown(b, c, Len(b), piece)
  PROVE  TextTold(c, T \cup {piece})
<1> DEFINE n == Len(b)
<1>1. /\ n \in Nat /\ n \in 1..n /\ DOMAIN b = 1..n /\ DOMAIN c = 1..n
      /\ \A j \in 1..n : /\ c[j].kind = b[j].kind
                         /\ j # n => c[j].holds = b[j].holds
  BY ElementsOf DEF Grown
<1>2. c[n].holds = Append(b[n].holds, piece)
  BY <1>1 DEF Grown
<1>3. \A j \in 1..n : /\ Len(b[j].holds) \in Nat /\ DOMAIN b[j].holds = 1..Len(b[j].holds)
                      /\ \A k \in 1..Len(b[j].holds) : b[j].holds[k] \in Nat
  BY BlockIs
<1>4. b[n].holds \in Seq(Nat) /\ b[n].kind = "text"
  BY <1>1, BlockIs
<1> DEFINE last == Len(b[n].holds) + 1
<1>5. /\ last \in Nat /\ DOMAIN c[n].holds = 1..last /\ c[n].holds[last] = piece
      /\ \A k \in 1..last - 1 : c[n].holds[k] = b[n].holds[k]
  <2> DEFINE s == b[n].holds
  <2>1. s \in Seq(Nat) /\ Len(s) \in Nat /\ c[n].holds = Append(s, piece)
    BY <1>1, <1>2, <1>3, <1>4
  <2> HIDE DEF s
  <2>2. /\ DOMAIN Append(s, piece) = 1..Len(s) + 1 /\ Append(s, piece)[Len(s) + 1] = piece
        /\ \A k \in 1..Len(s) : Append(s, piece)[k] = s[k]
    BY <2>1, OneMore
  <2>3. 1..(Len(s) + 1) - 1 = 1..Len(s)
    BY <2>1
  <2>4. last = Len(s) + 1 /\ b[n].holds = s
    BY DEF s
  <2> HIDE DEF last, n
  <2> QED BY <2>1, <2>2, <2>3, <2>4
<1> HIDE DEF n, last
<1>6. \A j \in Those(b, "text") : \A k \in DOMAIN b[j].holds : b[j].holds[k] \in T
  BY HeldIs DEF TextTold, Those
<1>7. Those(c, "text") = Those(b, "text") /\ n \in Those(b, "text")
  BY <1>1, <1>4 DEF Those
(* A piece of c is one of b in the same place, or the new one, at the end.  *)
<1>8. ASSUME NEW j \in Those(c, "text"), NEW k \in DOMAIN c[j].holds
      PROVE  \/ j = n /\ k = last /\ c[j].holds[k] = piece
             \/ /\ j \in Those(b, "text") /\ k \in DOMAIN b[j].holds
                /\ c[j].holds[k] = b[j].holds[k] /\ c[j].holds[k] \in T
                /\ (j # n \/ k < last)
  <2>1. j \in Those(b, "text") /\ j \in 1..n
    BY <1>1, <1>7 DEF Those
  <2>2. CASE j # n
    BY <1>1, <1>6, <2>1, <2>2
  <2>3. CASE j = n /\ k = last
    BY <1>5, <2>3
  <2>4. CASE j = n /\ k # last
    <3>1. k \in 1..last - 1 /\ k < last
      BY <1>5, <2>4
    <3>2. k \in DOMAIN b[n].holds
      BY <1>1, <1>3, <3>1 DEF last
    <3> QED BY <1>5, <1>6, <2>1, <2>4, <3>1, <3>2
  <2> QED BY <2>2, <2>3, <2>4
<1>9. Held(c) = T \cup {piece}
  <2>1. ASSUME NEW y \in Held(c) PROVE y \in T \cup {piece}
    <3>1. PICK i \in DOMAIN c : c[i].kind = "text" /\ \E k \in DOMAIN c[i].holds : c[i].holds[k] = y
      BY HeldIs
    <3>2. i \in Those(c, "text")
      BY <3>1 DEF Those
    <3> QED BY <1>8, <3>1, <3>2
  <2>2. ASSUME NEW y \in T PROVE y \in Held(c)
    <3>1. PICK i \in DOMAIN b : b[i].kind = "text" /\ \E k \in DOMAIN b[i].holds : b[i].holds[k] = y
      BY HeldIs DEF TextTold
    <3>2. PICK k \in DOMAIN b[i].holds : b[i].holds[k] = y
      BY <3>1
    <3>3. k \in DOMAIN c[i].holds /\ c[i].holds[k] = y /\ i \in DOMAIN c /\ c[i].kind = "text"
      <4>1. CASE i # n
        BY <1>1, <3>1, <3>2, <4>1
      <4>2. CASE i = n
        <5>1. k \in 1..last - 1 /\ k \in 1..last
          BY <1>1, <1>3, <3>2, <4>2 DEF last
        <5> QED BY <1>1, <1>5, <3>1, <3>2, <4>2, <5>1
      <4> QED BY <4>1, <4>2
    <3> QED BY <3>3, HeldIs
  <2>3. piece \in Held(c)
    <3>1. last \in DOMAIN c[n].holds
      BY <1>5 DEF last
    <3> QED BY <1>1, <1>4, <1>5, <3>1, HeldIs
  <2> QED BY <2>1, <2>2, <2>3
<1>10. ASSUME NEW i \in Those(c, "text"), NEW j \in Those(c, "text"),
              NEW k \in DOMAIN c[i].holds, NEW l \in DOMAIN c[j].holds, i < j \/ (i = j /\ k < l)
       PROVE  c[i].holds[k] < c[j].holds[l]
  <2>1. i \in 1..n /\ j \in 1..n
    BY <1>1 DEF Those
  <2>2. CASE j = n /\ l = last
    <3>1. ~(i = n /\ k = last)
      BY <1>1, <1>5, <1>10, <2>1, <2>2
    <3>2. c[i].holds[k] \in T
      BY <1>8, <3>1
    <3> QED BY <1>5, <2>2, <3>2 DEF Before
  <2>3. CASE ~(j = n /\ l = last)
    <3>1. j \in Those(b, "text") /\ l \in DOMAIN b[j].holds /\ c[j].holds[l] = b[j].holds[l]
          /\ (j # n \/ l < last)
      BY <1>8, <2>3
    <3>2. ~(i = n /\ k = last)
      BY <1>1, <1>5, <1>10, <2>1, <3>1
    <3>3. i \in Those(b, "text") /\ k \in DOMAIN b[i].holds /\ c[i].holds[k] = b[i].holds[k]
      BY <1>8, <3>2
    <3> QED BY <1>10, <3>1, <3>3 DEF TextTold
  <2> QED BY <2>2, <2>3
<1> QED BY <1>9, <1>10 DEF TextTold

(* What goes into a call leaves the text as it is.                          *)
LEMMA TextUntouched ==
  ASSUME NEW b \in Seq(StreamBlock), NEW c, NEW T, NEW piece, NEW i, TextTold(b, T),
         i \in 1..Len(b), b[i].kind = "tool", Grown(b, c, i, piece)
  PROVE  TextTold(c, T)
<1>1. /\ DOMAIN b = 1..Len(b) /\ DOMAIN c = 1..Len(b)
      /\ \A j \in 1..Len(b) : c[j].kind = b[j].kind
      /\ \A j \in 1..Len(b) : b[j].kind = "text" => c[j].holds = b[j].holds
  BY ElementsOf DEF Grown
<1>2. Those(c, "text") = Those(b, "text")
  BY <1>1 DEF Those
<1>3. \A j \in Those(b, "text") : c[j].holds = b[j].holds
  BY <1>1 DEF Those
<1>4. Held(c) = Held(b)
  BY <1>2, <1>3 DEF Held
<1> QED BY <1>2, <1>3, <1>4 DEF TextTold

-----------------------------------------------------------------------------
(* The n calls are in the blocks at `at`, and nothing else is a call.       *)
CallsPlaced(b, A, n, at) ==
  /\ \A c \in 1..n : at[c] \in 1..Len(b)
  /\ \A c, d \in 1..n : c < d => at[c] < at[d]
  /\ \A i \in 1..Len(b) : b[i].kind = "tool" <=> \E c \in 1..n : at[c] = i
  /\ \A c \in 1..n : Told(b[at[c]].holds, A[c])

(* A block of text that is announced leaves the calls where they are ...    *)
LEMMA CallsBeforeText ==
  ASSUME NEW b \in Seq(StreamBlock), NEW c, NEW A, NEW n \in Nat, NEW at, CallsPlaced(b, A, n, at),
         Opened(b, c, "text")
  PROVE  CallsPlaced(c, A, n, at)
<1> DEFINE x == [kind |-> "text", holds |-> <<>>]
<1>1. x.kind = "text"
  OBVIOUS
<1>2. /\ Len(b) \in Nat /\ Len(c) = Len(b) + 1
      /\ \A i \in 1..Len(b) : c[i] = b[i]
      /\ c[Len(b) + 1] = x
  BY ElementsOf DEF Opened
<1> HIDE DEF x
<1>3. \A i \in 1..Len(c) : c[i].kind = "tool" <=> \E k \in 1..n : at[k] = i
  <2> SUFFICES ASSUME NEW i \in 1..Len(c)
               PROVE  c[i].kind = "tool" <=> \E k \in 1..n : at[k] = i
    OBVIOUS
  <2>1. CASE i \in 1..Len(b)
    BY <1>2, <2>1 DEF CallsPlaced
  <2>2. CASE i = Len(b) + 1
    <3>1. \A k \in 1..n : at[k] # i
      BY <1>2, <2>2 DEF CallsPlaced
    <3> QED BY <1>1, <1>2, <2>2, <3>1
  <2> QED BY <1>2, <2>1, <2>2
<1>4. \A k \in 1..n : at[k] \in 1..Len(c) /\ c[at[k]] = b[at[k]]
  BY <1>2 DEF CallsPlaced
<1> QED BY <1>3, <1>4 DEF CallsPlaced

(* ... and so does a piece of text; a call that is announced comes last ... *)
LEMMA CallsBesideText ==
  ASSUME NEW b \in Seq(StreamBlock), NEW c, NEW A, NEW n \in Nat, NEW at, CallsPlaced(b, A, n, at),
         NEW i, i \in 1..Len(b), b[i].kind = "text", NEW piece, Grown(b, c, i, piece)
  PROVE  CallsPlaced(c, A, n, at)
<1>1. \A k \in 1..n : at[k] \in 1..Len(b) /\ at[k] # i
  BY DEF CallsPlaced
<1>2. \A k \in 1..n : c[at[k]].holds = b[at[k]].holds
  BY <1>1 DEF Grown
<1>3. Len(c) = Len(b) /\ \A j \in 1..Len(b) : c[j].kind = b[j].kind
  BY DEF Grown
<1> QED BY <1>1, <1>2, <1>3 DEF CallsPlaced

(* ... in a block of its own ...                                            *)
LEMMA CallAnnounced ==
  ASSUME NEW b \in Seq(StreamBlock), NEW c, NEW A, NEW B, NEW n \in Nat, NEW at, NEW by,
         CallsPlaced(b, A, n, at), Opened(b, c, "tool"), \A k \in 1..n : by[k] = at[k] /\ B[k] = A[k],
         by[n + 1] = Len(b) + 1, B[n + 1] = {}
  PROVE  CallsPlaced(c, B, n + 1, by)
<1> DEFINE x == [kind |-> "tool", holds |-> <<>>]
<1>1. x.kind = "tool" /\ x.holds = <<>>
  OBVIOUS
<1>2. /\ Len(b) \in Nat /\ Len(c) = Len(b) + 1
      /\ \A i \in 1..Len(b) : c[i] = b[i]
      /\ c[Len(b) + 1] = x
  BY ElementsOf DEF Opened
<1> HIDE DEF x
<1>3. \A k \in 1..n + 1 : k \in 1..n \/ k = n + 1
  OBVIOUS
<1>4. \A k \in 1..n : /\ k \in 1..n + 1 /\ by[k] \in 1..Len(b) /\ by[k] \in 1..Len(c)
                      /\ c[by[k]] = b[at[k]]
  <2>1. \A k \in 1..n : k \in 1..n + 1 /\ by[k] = at[k] /\ at[k] \in 1..Len(b)
    BY DEF CallsPlaced
  <2>2. \A k \in 1..Len(b) : k \in 1..Len(c)
    BY <1>2
  <2> QED BY <1>2, <2>1, <2>2, Zenon
<1>5. n + 1 \in 1..n + 1 /\ by[n + 1] \in 1..Len(c) /\ c[by[n + 1]] = x
  BY <1>2
<1>6. \A k, l \in 1..n + 1 : k < l => by[k] < by[l]
  <2> SUFFICES ASSUME NEW k \in 1..n + 1, NEW l \in 1..n + 1, k < l PROVE by[k] < by[l]
    OBVIOUS
  <2>1. k \in 1..n
    OBVIOUS
  <2>2. CASE l \in 1..n
    BY <2>1, <2>2 DEF CallsPlaced
  <2>3. CASE l = n + 1
    BY <1>2, <1>4, <2>1, <2>3
  <2> QED BY <1>3, <2>2, <2>3
<1>7. \A i \in 1..Len(c) : c[i].kind = "tool" <=> \E k \in 1..n + 1 : by[k] = i
  <2> SUFFICES ASSUME NEW i \in 1..Len(c)
               PROVE  c[i].kind = "tool" <=> \E k \in 1..n + 1 : by[k] = i
    OBVIOUS
  <2>1. CASE i \in 1..Len(b)
    <3>1. b[i].kind = "tool" <=> \E k \in 1..n : at[k] = i
      BY <2>1 DEF CallsPlaced
    <3>2. by[n + 1] # i
      BY <1>2, <2>1
    <3>3. (\E k \in 1..n + 1 : by[k] = i) <=> \E k \in 1..n : at[k] = i
      BY <1>3, <1>4, <3>2
    <3> QED BY <1>2, <2>1, <3>1, <3>3
  <2>2. CASE i = Len(b) + 1
    BY <1>1, <1>2, <1>5, <2>2
  <2> QED BY <1>2, <2>1, <2>2
<1>8. \A k \in 1..n + 1 : Told(c[by[k]].holds, B[k])
  BY <1>1, <1>3, <1>4, <1>5, NothingTold DEF CallsPlaced
<1>9. \A k \in 1..n + 1 : by[k] \in 1..Len(c)
  BY <1>3, <1>4, <1>5
<1> QED BY <1>6, <1>7, <1>8, <1>9 DEF CallsPlaced

(* ... and a fragment of its arguments comes last among them.               *)
LEMMA CallFilled ==
  ASSUME NEW b \in Seq(StreamBlock), NEW c, NEW A, NEW B, NEW n \in Nat, NEW at, CallsPlaced(b, A, n, at),
         NEW k \in 1..n, NEW piece \in Nat, Grown(b, c, at[k], piece), Before(A[k], piece),
         B[k] = A[k] \cup {piece}, \A l \in 1..n : l # k => B[l] = A[l]
  PROVE  CallsPlaced(c, B, n, at)
<1>1. \A l \in 1..n : at[l] \in 1..Len(b) /\ (l # k => at[l] # at[k])
  <2> SUFFICES ASSUME NEW l \in 1..n, l # k PROVE at[l] # at[k]
    BY DEF CallsPlaced
  <2>1. l < k \/ k < l
    OBVIOUS
  <2>2. at[l] \in 1..Len(b) /\ at[k] \in 1..Len(b) /\ (at[l] < at[k] \/ at[k] < at[l])
    BY <2>1 DEF CallsPlaced
  <2>3. Len(b) \in Nat
    BY ElementsOf
  <2> QED BY <2>2, <2>3
<1>2. Len(c) = Len(b) /\ \A j \in 1..Len(b) : c[j].kind = b[j].kind
  BY DEF Grown
<1>3. \A l \in 1..n : Told(c[at[l]].holds, B[l])
  <2> SUFFICES ASSUME NEW l \in 1..n PROVE Told(c[at[l]].holds, B[l])
    OBVIOUS
  <2>1. CASE l # k
    <3>1. c[at[l]].holds = b[at[l]].holds
      BY <1>1, <2>1 DEF Grown
    <3> QED BY <2>1, <3>1 DEF CallsPlaced
  <2>2. CASE l = k
    <3>1. c[at[k]].holds = Append(b[at[k]].holds, piece) /\ b[at[k]].holds \in Seq(Nat)
      BY <1>1, BlockIs DEF Grown
    <3>2. Told(b[at[k]].holds, A[k])
      BY DEF CallsPlaced
    <3> QED BY <2>2, <3>1, <3>2, ToldMore
  <2> QED BY <2>1, <2>2
<1> QED BY <1>1, <1>2, <1>3 DEF CallsPlaced

-----------------------------------------------------------------------------
(* What each event does to a client that has heard so much.                 *)
Ends == {"none", "stop", "length", "tool_calls", "content_filter", "end_turn", "tool_use",
         "max_tokens", "refusal", "completed", "incomplete"}

Client == [blocks : Seq(StreamBlock), open : Nat, finish : Ends,
           begun : BOOLEAN, over : BOOLEAN, ok : BOOLEAN]

LEMMA ClientIs ==
  ASSUME NEW h \in Client
  PROVE  /\ h.blocks \in Seq(StreamBlock) /\ h.open \in Nat /\ h.finish \in Ends
         /\ h.begun \in BOOLEAN /\ h.over \in BOOLEAN /\ h.ok \in BOOLEAN
BY DEF Client

(* What each event leaves of what was heard, and when it is allowed.        *)
LEMMA MustIs ==
  ASSUME NEW h \in Client, NEW allowed \in BOOLEAN
  PROVE  /\ Must(h, allowed) \in Client
         /\ Must(h, allowed).blocks = h.blocks /\ Must(h, allowed).open = h.open
         /\ Must(h, allowed).finish = h.finish /\ Must(h, allowed).begun = h.begun
         /\ Must(h, allowed).over = h.over
         /\ h.ok /\ allowed /\ ~h.over => Must(h, allowed).ok
BY Zenon DEF Must, Client

LEMMA BegunIs ==
  ASSUME NEW h \in Client
  PROVE  /\ Begun(h) \in Client
         /\ Begun(h).blocks = h.blocks /\ Begun(h).open = h.open /\ Begun(h).finish = h.finish
         /\ Begun(h).begun /\ Begun(h).over = h.over
         /\ h.ok /\ ~h.begun /\ ~h.over => Begun(h).ok
<1> DEFINE m == Must(h, ~h.begun)
           g == [m EXCEPT !.begun = TRUE]
<1>1. /\ m \in Client /\ m.blocks = h.blocks /\ m.open = h.open /\ m.finish = h.finish
      /\ m.over = h.over /\ (h.ok /\ ~h.begun /\ ~h.over => m.ok)
  BY MustIs
<1>2. Begun(h) = g
  BY DEF Begun
<1> HIDE DEF m
<1>3. /\ g \in Client /\ g.blocks = m.blocks /\ g.open = m.open /\ g.finish = m.finish
      /\ g.begun /\ g.over = m.over /\ g.ok = m.ok
  BY <1>1, Zenon DEF Client
<1> HIDE DEF g
<1> QED BY <1>1, <1>2, <1>3, Zenon

LEMMA AnnouncedIs ==
  ASSUME NEW h \in Client, NEW i, NEW kind \in {"text", "tool"}
  PROVE  LET g == Announced(h, i, kind)
         IN /\ g \in Client
            /\ Opened(h.blocks, g.blocks, kind) /\ g.open = Len(g.blocks)
            /\ g.finish = h.finish /\ g.begun = h.begun /\ g.over = h.over
            /\ h.ok /\ ~h.over /\ h.begun /\ h.open = None /\ i = Len(h.blocks) + 1 => g.ok
<1> DEFINE allowed == h.begun /\ h.open = None /\ i = Len(h.blocks) + 1
           m == Must(h, allowed)
           x == [kind |-> kind, holds |-> <<>>]
           g == [m EXCEPT !.blocks = Append(@, x), !.open = Len(h.blocks) + 1]
<1>1. allowed \in BOOLEAN
  OBVIOUS
<1>2. /\ m \in Client /\ m.blocks = h.blocks /\ m.finish = h.finish /\ m.begun = h.begun
      /\ m.over = h.over /\ (h.ok /\ allowed /\ ~h.over => m.ok)
  BY <1>1, MustIs
<1>3. x \in StreamBlock
  BY DEF StreamBlock
<1>4. Append(h.blocks, x) \in Seq(StreamBlock) /\ Len(h.blocks) + 1 \in Nat
  BY <1>3, ClientIs, OneMore, ElementsOf
<1>5. Announced(h, i, kind) = g
  BY DEF Announced
<1> HIDE DEF m, x
<1>6. /\ g \in Client /\ g.blocks = Append(h.blocks, x) /\ g.open = Len(h.blocks) + 1
      /\ g.finish = m.finish /\ g.begun = m.begun /\ g.over = m.over /\ g.ok = m.ok
  BY <1>2, <1>4, Zenon DEF Client
<1>7. Opened(h.blocks, g.blocks, kind) /\ g.open = Len(g.blocks)
  <2>1. h.blocks \in Seq(StreamBlock)
    BY ClientIs
  <2> DEFINE b == h.blocks
             c == Append(b, x)
  <2> HIDE DEF b
  <2>2. /\ c \in Seq(StreamBlock) /\ Len(c) = Len(b) + 1 /\ c[Len(b) + 1] = x
        /\ \A k \in 1..Len(b) : c[k] = b[k]
    BY <1>3, <2>1, OneMore DEF b
  <2>3. g.blocks = c /\ g.open = Len(b) + 1
    BY <1>6 DEF b
  <2> HIDE DEF c
  <2>4. Opened(b, c, kind)
    BY <2>2, Zenon DEF Opened, x
  <2> QED BY <2>2, <2>3, <2>4 DEF b
<1> HIDE DEF g
<1> QED BY <1>2, <1>5, <1>6, <1>7, Zenon

LEMMA FilledIs ==
  ASSUME NEW h \in Client, NEW i \in 1..Len(h.blocks), NEW piece \in Nat
  PROVE  LET g == Filled(h, i, piece)
         IN /\ g \in Client /\ Grown(h.blocks, g.blocks, i, piece)
            /\ g.open = h.open /\ g.finish = h.finish /\ g.begun = h.begun /\ g.over = h.over
            /\ h.ok /\ ~h.over /\ h.open = i => g.ok
<1> DEFINE m == Must(h, h.open = i)
           x == [h.blocks[i] EXCEPT !.holds = Append(@, piece)]
           c == [h.blocks EXCEPT ![i] = x]
           g == [m EXCEPT !.blocks = c]
<1>1. /\ m \in Client /\ m.blocks = h.blocks /\ m.open = h.open /\ m.finish = h.finish
      /\ m.begun = h.begun /\ m.over = h.over /\ (h.ok /\ h.open = i /\ ~h.over => m.ok)
  BY MustIs
<1>2. h.blocks \in Seq(StreamBlock) /\ i \in DOMAIN h.blocks
  BY ClientIs, ElementsOf
<1>3. h.blocks[i] \in StreamBlock
  BY <1>2, ElementsOf
<1>4. h.blocks[i].holds \in Seq(Nat)
  BY <1>3 DEF StreamBlock
<1>5. Append(h.blocks[i].holds, piece) \in Seq(Nat)
  BY <1>4, OneMore
<1>6. x \in StreamBlock /\ x.kind = h.blocks[i].kind /\ x.holds = Append(h.blocks[i].holds, piece)
  BY <1>3, <1>5 DEF StreamBlock
<1>7. Filled(h, i, piece) = g
  <2>1. m.blocks = h.blocks
    BY <1>1
  <2> QED BY <1>2, <2>1, Zenon DEF Filled
<1> HIDE DEF m, x
<1>8. c \in Seq(StreamBlock) /\ Len(c) = Len(h.blocks)
      /\ \A j \in 1..Len(h.blocks) : c[j] = IF j = i THEN x ELSE h.blocks[j]
  BY <1>2, <1>6, ExceptSeq, ElementsOf
<1> HIDE DEF c
<1>9. Grown(h.blocks, c, i, piece)
  BY <1>6, <1>8 DEF Grown
<1>10. /\ g \in Client /\ g.blocks = c /\ g.open = m.open
       /\ g.finish = m.finish /\ g.begun = m.begun /\ g.over = m.over /\ g.ok = m.ok
  BY <1>1, <1>8, Zenon DEF Client
<1> QED BY <1>1, <1>7, <1>9, <1>10, Zenon

LEMMA StoppedIs ==
  ASSUME NEW h \in Client, NEW i
  PROVE  LET g == Stopped(h, i)
         IN /\ g \in Client /\ g.blocks = h.blocks /\ g.open = None
            /\ g.finish = h.finish /\ g.begun = h.begun /\ g.over = h.over
            /\ h.ok /\ ~h.over /\ h.open = i => g.ok
<1>1. None \in Nat
  BY DEF None
<1> QED BY <1>1, MustIs, Zenon DEF Stopped, Client

LEMMA ItemDoneIs ==
  ASSUME NEW h \in Client, NEW i, NEW holds
  PROVE  LET g == ItemDone(h, i, holds)
         IN /\ g \in Client /\ g.blocks = h.blocks /\ g.open = None
            /\ g.finish = h.finish /\ g.begun = h.begun /\ g.over = h.over
            /\ h.ok /\ ~h.over /\ h.open = i /\ h.blocks[i].holds = holds => g.ok
<1> DEFINE m == Must(h, h.blocks[i].holds = holds)
<1>1. /\ m \in Client /\ m.blocks = h.blocks /\ m.open = h.open /\ m.finish = h.finish
      /\ m.begun = h.begun /\ m.over = h.over
      /\ (h.ok /\ h.blocks[i].holds = holds /\ ~h.over => m.ok)
  BY MustIs
<1>2. ItemDone(h, i, holds) = Stopped(m, i)
  BY DEF ItemDone
<1> DEFINE g == Stopped(m, i)
<1> HIDE DEF m
<1>3. /\ g \in Client /\ g.blocks = m.blocks /\ g.open = None
      /\ g.finish = m.finish /\ g.begun = m.begun /\ g.over = m.over
      /\ m.ok /\ ~m.over /\ m.open = i => g.ok
  BY <1>1, StoppedIs, Zenon
<1> HIDE DEF g
<1>4. ItemDone(h, i, holds) = g
  BY <1>2 DEF g
<1> QED BY <1>1, <1>3, <1>4, Zenon

-----------------------------------------------------------------------------
(* The key under which an encoder keeps the c-th call, by how calls are     *)
(* marked; and where a map by those keys says that each call is.            *)
Labels == {"index", "id", "none"}
Key(lb, c) == IF lb = "id" THEN <<"id", c>> ELSE <<"index", c - 1>>
Keys(lb, n) == {Key(lb, c) : c \in 1..n}
Where(lb, m, n) == [c \in 1..n |-> m[Key(lb, c)]]

(* Two calls have two keys, the next call's is new, and n calls have n of them. *)
LEMMA KeyDiffers ==
  ASSUME NEW lb, NEW c \in Nat, NEW d \in Nat, Key(lb, c) = Key(lb, d)
  PROVE  c = d
BY DEF Key

LEMMA KeysGrow ==
  ASSUME NEW lb, NEW n \in Nat
  PROVE  /\ Key(lb, n + 1) \notin Keys(lb, n)
         /\ Keys(lb, n + 1) = Keys(lb, n) \cup {Key(lb, n + 1)}
<1>1. Key(lb, n + 1) \notin Keys(lb, n)
  <2> SUFFICES ASSUME NEW c \in 1..n, Key(lb, c) = Key(lb, n + 1) PROVE FALSE
    BY DEF Keys
  <2>1. c = n + 1
    BY KeyDiffers
  <2> QED BY <2>1
<1>2. \A c : c \in 1..n + 1 <=> c \in 1..n \/ c = n + 1
  OBVIOUS
<1>3. Keys(lb, n + 1) = Keys(lb, n) \cup {Key(lb, n + 1)}
  BY <1>2, Zenon DEF Keys
<1> QED BY <1>1, <1>3

LEMMA KeysCounted ==
  ASSUME NEW lb, NEW n \in Nat
  PROVE  Cardinality(Keys(lb, n)) = n
<1> DEFINE S == 1..n
           f == [c \in S |-> Key(lb, c)]
<1>1. /\ \A c \in S : Key(lb, c) \in Keys(lb, n)
      /\ \A k \in Keys(lb, n) : \E c \in S : Key(lb, c) = k
  BY Zenon DEF Keys
<1>2. \A c, d \in S : Key(lb, c) = Key(lb, d) => c = d
  BY KeyDiffers
<1>3. IsFiniteSet(S) /\ Cardinality(S) = n
  BY FS_Interval
<1> HIDE DEF S
<1>4. f \in Bijection(S, Keys(lb, n))
  BY <1>1, <1>2, Zenon DEF Bijection, Injection, Surjection, IsInjective
<1> HIDE DEF f
<1>5. ExistsBijection(S, Keys(lb, n))
  BY <1>4, Zenon DEF ExistsBijection
<1> QED BY <1>3, <1>5, FS_Bijection

(* The key that an encoder finds for a bit: that of the call which it is   *)
(* of, whether it has had a bit of it before or not.                       *)
Marks(lb, bit, c) ==
  CASE lb = "index" -> bit.index = c - 1
    [] lb = "id" -> bit.index = NoIndex /\ bit.id = c
    [] lb = "none" -> bit.index = NoIndex /\ bit.id = None

(* The key an encoder computes for a fragment is that of the call it belongs to. *)
LEMMA KeyIs ==
  ASSUME NEW lb \in Labels, NEW n \in Nat, NEW c \in 1..n + 1, NEW bit, Marks(lb, bit, c),
         lb = "none" => c = n + 1
  PROVE  KeyOf(bit, Keys(lb, n)) = Key(lb, c)
<1>1. c \in Nat /\ c # 0 /\ c - 1 # NoIndex /\ c # None
  BY DEF NoIndex, None
<1>2. CASE lb = "index"
  BY <1>1, <1>2 DEF Marks, KeyOf, Key
<1>3. CASE lb = "id"
  <2>1. bit.index = NoIndex /\ bit.id = c
    BY <1>3 DEF Marks
  <2> QED BY <1>1, <1>3, <2>1 DEF KeyOf, Key
<1>4. CASE lb = "none"
  <2>1. bit.index = NoIndex /\ bit.id = None
    BY <1>4 DEF Marks
  <2>2. Cardinality(Keys(lb, n)) = c - 1
    BY <1>4, KeysCounted
  <2> QED BY <1>4, <2>1, <2>2 DEF KeyOf, Key
<1> QED BY <1>2, <1>3, <1>4 DEF Labels

LEMMA EnteredIs ==
  ASSUME NEW lb, NEW n \in Nat, NEW m \in [Keys(lb, n) -> Nat], NEW v \in Nat
  PROVE  LET g == Entered(m, Key(lb, n + 1), v)
         IN /\ g \in [Keys(lb, n + 1) -> Nat]
            /\ g[Key(lb, n + 1)] = v
            /\ \A c \in 1..n : g[Key(lb, c)] = m[Key(lb, c)]
<1> DEFINE key == Key(lb, n + 1)
           g == Entered(m, key, v)
<1>1. DOMAIN m = Keys(lb, n) /\ key \notin Keys(lb, n) /\ Keys(lb, n + 1) = Keys(lb, n) \cup {key}
  BY KeysGrow
<1>2. \A c \in 1..n : Key(lb, c) \in Keys(lb, n)
  BY DEF Keys
<1> HIDE DEF key
<1>3. g = [k \in Keys(lb, n) \cup {key} |-> IF k = key THEN v ELSE m[k]]
  BY <1>1 DEF Entered
<1>4. \A k \in Keys(lb, n) : g[k] = m[k] /\ m[k] \in Nat
  BY <1>1, <1>3
<1>5. g[key] = v /\ g \in [Keys(lb, n) \cup {key} -> Nat]
  BY <1>1, <1>3
<1> QED BY <1>1, <1>2, <1>4, <1>5 DEF key

-----------------------------------------------------------------------------
(* toAnthropicStream.  Its state fits what was said, the text T and the n   *)
(* calls A: the client has just that, the last block is open, and the keys  *)
(* say where the calls are.                                                 *)
AnthropicEncoder(lb, n) ==
  [started : BOOLEAN, open : Nat, kind : {"none", "text", "tool"}, next : Nat,
   blocks : [Keys(lb, n) -> Nat], stop : Ends, heard : Client]

AnthropicShape(e, b) ==
  /\ e.open = Len(b) /\ e.heard.open = Len(b) /\ e.next = Len(b) + 1
  /\ Len(b) = 0 => e.kind = "none"
  /\ Len(b) > 0 => e.kind = b[Len(b)].kind
  /\ IF e.started THEN e.heard.begun ELSE ~e.heard.begun /\ Len(b) = 0
  /\ ~e.heard.over

AnthropicFits(e, lb, T, A, n, f) ==
  /\ e \in AnthropicEncoder(lb, n)
  /\ TextTold(e.heard.blocks, T)
  /\ CallsPlaced(e.heard.blocks, A, n, Where(lb, e.blocks, n))
  /\ AnthropicShape(e, e.heard.blocks)
  /\ e.stop = stopReasonFor(f)

LEMMA AnthropicIs ==
  ASSUME NEW lb, NEW n, NEW e \in AnthropicEncoder(lb, n)
  PROVE  /\ e.started \in BOOLEAN /\ e.open \in Nat /\ e.next \in Nat
         /\ e.blocks \in [Keys(lb, n) -> Nat] /\ e.heard \in Client
         /\ e.heard.blocks \in Seq(StreamBlock) /\ Len(e.heard.blocks) \in Nat
         /\ DOMAIN e.heard.blocks = 1..Len(e.heard.blocks)
<1>1. /\ e.started \in BOOLEAN /\ e.open \in Nat /\ e.next \in Nat
      /\ e.blocks \in [Keys(lb, n) -> Nat] /\ e.heard \in Client
  BY DEF AnthropicEncoder
<1> QED BY <1>1, ClientIs, ElementsOf

(* message_start, sent once, and content_block_stop for the block that is open. *)
LEMMA AnthropicStarts ==
  ASSUME NEW lb, NEW T, NEW A, NEW n \in Nat, NEW f, NEW e, AnthropicFits(e, lb, T, A, n, f)
  PROVE  LET o == AnthropicStart(e)
         IN /\ AnthropicFits(o, lb, T, A, n, f) /\ o.started
            /\ o.open = e.open /\ o.blocks = e.blocks
            /\ e.heard.ok => o.heard.ok
<1> DEFINE h == Begun(e.heard)
           o == [e EXCEPT !.started = TRUE, !.heard = h]
<1>1. CASE e.started
  BY <1>1 DEF AnthropicStart
<1>2. CASE ~e.started
  <2>1. e \in AnthropicEncoder(lb, n) /\ e.heard \in Client
    BY AnthropicIs DEF AnthropicFits
  <2>2. /\ h \in Client /\ h.blocks = e.heard.blocks /\ h.open = e.heard.open /\ h.begun
        /\ h.over = e.heard.over /\ (e.heard.ok /\ ~e.heard.begun /\ ~e.heard.over => h.ok)
    BY <2>1, BegunIs, Zenon
  <2>3. AnthropicStart(e) = o
    BY <1>2, Zenon DEF AnthropicStart
  <2> HIDE DEF h
  <2>4. /\ o \in AnthropicEncoder(lb, n) /\ o.started /\ o.heard = h /\ o.open = e.open
        /\ o.kind = e.kind /\ o.next = e.next /\ o.blocks = e.blocks /\ o.stop = e.stop
    BY <2>1, <2>2, Zenon DEF AnthropicEncoder
  <2> HIDE DEF o
  <2>5. AnthropicShape(e, e.heard.blocks) /\ ~e.heard.begun /\ ~e.heard.over
    BY <1>2 DEF AnthropicFits, AnthropicShape
  <2>6. AnthropicShape(o, o.heard.blocks)
    BY <2>2, <2>4, <2>5, Zenon DEF AnthropicShape
  <2>7. AnthropicFits(o, lb, T, A, n, f)
    BY <2>2, <2>4, <2>6, Zenon DEF AnthropicFits
  <2> QED BY <2>2, <2>3, <2>4, <2>5, <2>7, Zenon
<1> QED BY <1>1, <1>2, AnthropicIs DEF AnthropicFits

LEMMA AnthropicCloses ==
  ASSUME NEW lb, NEW n \in Nat, NEW e \in AnthropicEncoder(lb, n),
         AnthropicShape(e, e.heard.blocks), e.started
  PROVE  LET k == AnthropicClose(e)
         IN /\ k \in AnthropicEncoder(lb, n) /\ k.started /\ k.next = e.next /\ k.blocks = e.blocks
            /\ k.stop = e.stop /\ k.heard \in Client /\ k.heard.blocks = e.heard.blocks
            /\ k.heard.open = None /\ k.heard.begun /\ ~k.heard.over
            /\ e.heard.ok => k.heard.ok
<1> DEFINE b == e.heard.blocks
           k == AnthropicClose(e)
<1>1. e.open \in Nat /\ e.heard \in Client /\ Len(b) \in Nat
  BY AnthropicIs
<1>2. e.open = Len(b) /\ e.heard.open = Len(b) /\ e.heard.begun /\ ~e.heard.over
  BY DEF AnthropicShape
<1>3. CASE e.open = None
  <2>1. k = e
    BY <1>3, Zenon DEF AnthropicClose
  <2> QED BY <1>1, <1>2, <1>3, <2>1
<1>4. CASE e.open # None
  <2> DEFINE g == Stopped(e.heard, e.open)
  <2>1. /\ g \in Client /\ g.blocks = b /\ g.open = None /\ g.begun = e.heard.begun
        /\ g.over = e.heard.over /\ (e.heard.ok /\ ~e.heard.over /\ e.heard.open = e.open => g.ok)
    BY <1>1, StoppedIs, Zenon
  <2>2. k = [e EXCEPT !.open = None, !.kind = "none", !.heard = g]
    BY <1>4, Zenon DEF AnthropicClose
  <2> HIDE DEF g, k
  <2>3. None \in Nat
    BY DEF None
  <2>4. /\ k \in AnthropicEncoder(lb, n) /\ k.started = e.started /\ k.next = e.next
        /\ k.blocks = e.blocks /\ k.stop = e.stop /\ k.heard = g
    BY <1>1, <2>1, <2>2, <2>3, Zenon DEF AnthropicEncoder
  <2>5. e.heard.open = e.open
    BY <1>2
  <2> QED BY <1>2, <2>1, <2>4, <2>5, Zenon DEF k
<1> QED BY <1>3, <1>4

(* A new block is opened behind the one that was open.                      *)
LEMMA AnthropicOpens ==
  ASSUME NEW lb, NEW T, NEW A, NEW n \in Nat, NEW f, NEW e, AnthropicFits(e, lb, T, A, n, f),
         e.started, NEW kind \in {"text", "tool"}
  PROVE  LET o == AnthropicOpen(e, kind)
             b == e.heard.blocks
         IN /\ o \in AnthropicEncoder(lb, n) /\ o.started
            /\ o.blocks = e.blocks /\ o.stop = e.stop
            /\ Opened(b, o.heard.blocks, kind) /\ AnthropicShape(o, o.heard.blocks)
            /\ e.heard.ok => o.heard.ok
<1> DEFINE b == e.heard.blocks
           k == AnthropicClose(e)
           h == Announced(k.heard, e.next, kind)
           o == [k EXCEPT !.open = e.next, !.kind = kind, !.next = @ + 1, !.heard = h]
<1>1. /\ e \in AnthropicEncoder(lb, n) /\ e.open \in Nat /\ e.next \in Nat /\ e.heard \in Client
      /\ b \in Seq(StreamBlock) /\ Len(b) \in Nat
  BY AnthropicIs DEF AnthropicFits
<1>2. /\ e.open = Len(b) /\ e.heard.open = Len(b) /\ e.next = Len(b) + 1
      /\ e.heard.begun /\ ~e.heard.over
  BY DEF AnthropicFits, AnthropicShape
<1>3. AnthropicOpen(e, kind) = o
  BY Zenon DEF AnthropicOpen
<1>4. /\ k \in AnthropicEncoder(lb, n) /\ k.started /\ k.next = e.next /\ k.blocks = e.blocks
      /\ k.stop = e.stop /\ k.heard \in Client /\ k.heard.blocks = b /\ k.heard.open = None
      /\ k.heard.begun /\ ~k.heard.over /\ (e.heard.ok => k.heard.ok)
  BY <1>1, AnthropicCloses DEF AnthropicFits
<1> HIDE DEF k
<1>5. /\ h \in Client /\ Opened(b, h.blocks, kind) /\ h.open = Len(h.blocks)
      /\ h.begun = k.heard.begun /\ h.over = k.heard.over
      /\ (k.heard.ok /\ ~k.heard.over /\ k.heard.begun /\ k.heard.open = None /\ e.next = Len(k.heard.blocks) + 1
           => h.ok)
  <2>1. k.heard \in Client /\ k.heard.blocks = b
    BY <1>4
  <2> HIDE DEF b
  <2>2. /\ h \in Client /\ Opened(k.heard.blocks, h.blocks, kind) /\ h.open = Len(h.blocks)
        /\ h.begun = k.heard.begun /\ h.over = k.heard.over
        /\ (k.heard.ok /\ ~k.heard.over /\ k.heard.begun /\ k.heard.open = None /\ e.next = Len(k.heard.blocks) + 1
             => h.ok)
    BY <2>1, AnnouncedIs
  <2> QED BY <2>1, <2>2, Zenon
<1> HIDE DEF h
<1>6. e.next + 1 \in Nat /\ e.next + 1 = Len(b) + 2 /\ e.next = Len(k.heard.blocks) + 1
  BY <1>1, <1>2, <1>4
<1>7. /\ o \in AnthropicEncoder(lb, n) /\ o.started = k.started /\ o.open = e.next
      /\ o.kind = kind /\ o.next = k.next + 1 /\ o.blocks = k.blocks /\ o.stop = k.stop /\ o.heard = h
  <2>1. k.next + 1 \in Nat /\ kind \in {"none", "text", "tool"}
    BY <1>4, <1>6
  <2> QED BY <1>1, <1>4, <1>5, <2>1, Zenon DEF AnthropicEncoder
<1> HIDE DEF o, b
<1>8. Len(h.blocks) = Len(b) + 1 /\ h.blocks[Len(b) + 1].kind = kind
  BY <1>5 DEF Opened
<1>9. AnthropicShape(o, o.heard.blocks)
  <2>1. o.started /\ o.heard.begun /\ ~o.heard.over
    BY <1>4, <1>5, <1>7, Zenon
  <2>2. /\ Len(o.heard.blocks) = Len(b) + 1 /\ o.open = Len(b) + 1 /\ o.heard.open = Len(b) + 1
        /\ o.next = Len(b) + 2 /\ o.kind = o.heard.blocks[Len(b) + 1].kind
    BY <1>2, <1>4, <1>5, <1>6, <1>7, <1>8
  <2> QED BY <1>1, <2>1, <2>2 DEF AnthropicShape
<1>10. e.heard.ok => o.heard.ok
  BY <1>4, <1>5, <1>6, <1>7, Zenon
<1>11. o.started /\ o.blocks = e.blocks /\ o.stop = e.stop /\ Opened(b, o.heard.blocks, kind)
  BY <1>4, <1>5, <1>7, Zenon
<1> QED BY <1>3, <1>7, <1>9, <1>10, <1>11 DEF b

(* What a block of text holds grows, and what a call holds.                 *)
LEMMA AnthropicFills ==
  ASSUME NEW lb, NEW n \in Nat, NEW e \in AnthropicEncoder(lb, n), AnthropicShape(e, e.heard.blocks),
         NEW i \in 1..Len(e.heard.blocks), NEW piece \in Nat
  PROVE  LET o == [e EXCEPT !.heard = Filled(@, i, piece)]
         IN /\ o \in AnthropicEncoder(lb, n) /\ AnthropicShape(o, o.heard.blocks)
            /\ Grown(e.heard.blocks, o.heard.blocks, i, piece)
            /\ o.started = e.started /\ o.open = e.open /\ o.blocks = e.blocks /\ o.stop = e.stop
            /\ e.heard.ok /\ e.open = i => o.heard.ok
<1> DEFINE b == e.heard.blocks
           h == Filled(e.heard, i, piece)
           o == [e EXCEPT !.heard = h]
<1>1. e.heard \in Client /\ b \in Seq(StreamBlock) /\ Len(b) \in Nat
  BY AnthropicIs
<1>2. /\ h \in Client /\ Grown(b, h.blocks, i, piece)
      /\ h.open = e.heard.open /\ h.begun = e.heard.begun /\ h.over = e.heard.over
      /\ e.heard.ok /\ ~e.heard.over /\ e.heard.open = i => h.ok
  BY <1>1, FilledIs
<1> HIDE DEF h
<1>3. /\ o \in AnthropicEncoder(lb, n) /\ o.started = e.started /\ o.open = e.open
      /\ o.kind = e.kind /\ o.next = e.next /\ o.blocks = e.blocks /\ o.stop = e.stop /\ o.heard = h
  BY <1>2, Zenon DEF AnthropicEncoder
<1> HIDE DEF o
<1>4. /\ e.open = Len(b) /\ e.heard.open = Len(b) /\ e.next = Len(b) + 1
      /\ (Len(b) = 0 => e.kind = "none") /\ (Len(b) > 0 => e.kind = b[Len(b)].kind)
      /\ (IF e.started THEN e.heard.begun ELSE ~e.heard.begun /\ Len(b) = 0)
      /\ ~e.heard.over
  BY DEF AnthropicShape
<1> HIDE DEF b
<1>5. Len(h.blocks) = Len(b) /\ (Len(b) > 0 => h.blocks[Len(b)].kind = b[Len(b)].kind)
  BY <1>1, <1>2 DEF Grown
<1>6. IF o.started THEN o.heard.begun ELSE ~o.heard.begun /\ Len(b) = 0
  BY <1>2, <1>3, <1>4, Zenon
<1>7. ~o.heard.over
  BY <1>2, <1>3, <1>4, Zenon
<1>8. AnthropicShape(o, o.heard.blocks)
  BY <1>2, <1>3, <1>4, <1>5, <1>6, <1>7, Zenon DEF AnthropicShape
<1>9. e.heard.ok /\ e.open = i => o.heard.ok
  BY <1>2, <1>3, <1>4, Zenon
<1> QED BY <1>2, <1>3, <1>8, <1>9 DEF o, h, b

(* A piece of text opens a block of text unless one is open, and goes there. *)
LEMMA AnthropicTells ==
  ASSUME NEW lb, NEW T, NEW A, NEW n \in Nat, NEW f, NEW e, AnthropicFits(e, lb, T, A, n, f),
         e.started, NEW piece \in Nat, Before(T, piece)
  PROVE  LET o == AnthropicText(e, piece)
         IN /\ AnthropicFits(o, lb, T \cup {piece}, A, n, f) /\ o.started
            /\ e.heard.ok => o.heard.ok
<1> DEFINE b == e.heard.blocks
           o == IF e.kind = "text" THEN e ELSE AnthropicOpen(e, "text")
           p == [o EXCEPT !.heard = Filled(@, o.open, piece)]
<1>0. AnthropicText(e, piece) = p
  BY Zenon DEF AnthropicText
<1>1. e \in AnthropicEncoder(lb, n) /\ b \in Seq(StreamBlock) /\ Len(b) \in Nat
  BY AnthropicIs DEF AnthropicFits
<1>2. /\ AnthropicFits(o, lb, T, A, n, f) /\ o.started /\ (e.heard.ok => o.heard.ok)
      /\ Len(o.heard.blocks) > 0 /\ o.open = Len(o.heard.blocks)
      /\ o.heard.blocks[Len(o.heard.blocks)].kind = "text"
  <2>1. CASE e.kind = "text"
    <3>1. Len(b) > 0 /\ e.open = Len(b) /\ b[Len(b)].kind = "text"
      BY <1>1, <2>1 DEF AnthropicFits, AnthropicShape
    <3> QED BY <2>1, <3>1
  <2>2. CASE e.kind # "text"
    <3> DEFINE w == AnthropicOpen(e, "text")
               c == w.heard.blocks
    <3>1. /\ w \in AnthropicEncoder(lb, n) /\ w.started /\ w.blocks = e.blocks /\ w.stop = e.stop
          /\ Opened(b, c, "text") /\ AnthropicShape(w, c) /\ (e.heard.ok => w.heard.ok)
      BY AnthropicOpens
    <3>2. o = w
      BY <2>2
    <3> HIDE DEF w, o
    <3>3. TextTold(c, T) /\ CallsPlaced(c, A, n, Where(lb, e.blocks, n)) /\ e.stop = stopReasonFor(f)
      BY <1>1, <3>1, TextAnnounced, CallsBeforeText DEF AnthropicFits
    <3>4. AnthropicFits(w, lb, T, A, n, f)
      BY <3>1, <3>3 DEF AnthropicFits
    <3>5. Len(c) > 0 /\ w.open = Len(c) /\ c[Len(c)].kind = "text"
      BY <1>1, <3>1 DEF Opened, AnthropicShape
    <3> QED BY <3>1, <3>2, <3>4, <3>5
  <2> QED BY <2>1, <2>2
<1> HIDE DEF o
<1> DEFINE c == o.heard.blocks
<1>3. o \in AnthropicEncoder(lb, n) /\ c \in Seq(StreamBlock) /\ Len(c) \in Nat
  BY <1>2, AnthropicIs DEF AnthropicFits
<1>4. Len(c) \in 1..Len(c) /\ AnthropicShape(o, c)
  BY <1>2, <1>3 DEF AnthropicFits
<1>5. /\ p \in AnthropicEncoder(lb, n) /\ AnthropicShape(p, p.heard.blocks)
      /\ Grown(c, p.heard.blocks, Len(c), piece)
      /\ p.started = o.started /\ p.blocks = o.blocks /\ p.stop = o.stop
      /\ o.heard.ok /\ o.open = Len(c) => p.heard.ok
  <2> DEFINE q == [o EXCEPT !.heard = Filled(@, Len(c), piece)]
  <2>1. p = q
    BY <1>2
  <2>2. /\ q \in AnthropicEncoder(lb, n) /\ AnthropicShape(q, q.heard.blocks)
        /\ Grown(c, q.heard.blocks, Len(c), piece)
        /\ q.started = o.started /\ q.blocks = o.blocks /\ q.stop = o.stop
        /\ (o.heard.ok /\ o.open = Len(c) => q.heard.ok)
    BY <1>3, <1>4, AnthropicFills
  <2> HIDE DEF p, q
  <2> QED BY <2>1, <2>2, Zenon
<1> HIDE DEF p
<1>6. TextTold(p.heard.blocks, T \cup {piece})
  BY <1>2, <1>3, <1>5, TextFilled DEF AnthropicFits
<1>7. CallsPlaced(p.heard.blocks, A, n, Where(lb, o.blocks, n))
  BY <1>2, <1>3, <1>4, <1>5, CallsBesideText DEF AnthropicFits
<1>8. o.stop = stopReasonFor(f)
  BY <1>2 DEF AnthropicFits
<1>9. AnthropicFits(p, lb, T \cup {piece}, A, n, f)
  BY <1>5, <1>6, <1>7, <1>8 DEF AnthropicFits
<1> HIDE DEF c
<1>10. e.heard.ok => p.heard.ok
  BY <1>2, <1>5, Zenon DEF c
<1> QED BY <1>0, <1>2, <1>5, <1>9, <1>10

LEMMA WhereIs ==
  ASSUME NEW lb, NEW m, NEW n \in Nat, NEW k \in 1..n
  PROVE  Where(lb, m, n)[k] = m[Key(lb, k)]
BY DEF Where

(* One more call, and one more piece of a call.                             *)
NewCall(A, B, n) == B[n + 1] = {} /\ \A k \in 1..n : B[k] = A[k]

NewPiece(A, B, n, k, piece) ==
  /\ Before(A[k], piece)
  /\ B[k] = A[k] \cup {piece}
  /\ \A l \in 1..n : l # k => B[l] = A[l]

(* A call is announced in a block of its own.                               *)
AnthropicWithCall(e, lb, n) ==
  [AnthropicOpen(e, "tool") EXCEPT !.blocks = Entered(@, Key(lb, n + 1), e.next)]

(* A call that begins opens a block and is entered under its key ...        *)
LEMMA AnthropicCalls ==
  ASSUME NEW lb, NEW T, NEW A, NEW B, NEW n \in Nat, NEW f, NEW e, AnthropicFits(e, lb, T, A, n, f),
         e.started, NewCall(A, B, n)
  PROVE  LET o == AnthropicWithCall(e, lb, n)
         IN /\ AnthropicFits(o, lb, T, B, n + 1, f) /\ o.started
            /\ o.open = o.blocks[Key(lb, n + 1)]
            /\ e.heard.ok => o.heard.ok
<1> DEFINE b == e.heard.blocks
           w == AnthropicOpen(e, "tool")
           c == w.heard.blocks
           m == Entered(e.blocks, Key(lb, n + 1), e.next)
           o == AnthropicWithCall(e, lb, n)
           p == [w EXCEPT !.blocks = m]
<1>1. /\ e \in AnthropicEncoder(lb, n) /\ b \in Seq(StreamBlock) /\ Len(b) \in Nat
      /\ e.blocks \in [Keys(lb, n) -> Nat] /\ e.next \in Nat /\ e.next = Len(b) + 1
  BY AnthropicIs DEF AnthropicFits, AnthropicShape
<1>2. /\ w \in AnthropicEncoder(lb, n) /\ w.started /\ w.blocks = e.blocks /\ w.stop = e.stop
      /\ Opened(b, c, "tool") /\ AnthropicShape(w, c) /\ (e.heard.ok => w.heard.ok)
  BY AnthropicOpens
<1>3. o = p
  <2>1. o = [w EXCEPT !.blocks = Entered(@, Key(lb, n + 1), e.next)]
    BY DEF AnthropicWithCall
  <2> HIDE DEF w, o
  <2> QED BY <1>2, <2>1
<1> HIDE DEF w
<1>4. /\ m \in [Keys(lb, n + 1) -> Nat] /\ m[Key(lb, n + 1)] = e.next
      /\ \A k \in 1..n : m[Key(lb, k)] = e.blocks[Key(lb, k)]
  BY <1>1, EnteredIs
<1> HIDE DEF m, o
<1>5. /\ p \in AnthropicEncoder(lb, n + 1) /\ p.started = w.started /\ p.open = w.open
      /\ p.kind = w.kind /\ p.next = w.next /\ p.blocks = m /\ p.stop = w.stop /\ p.heard = w.heard
  BY <1>2, <1>4, Zenon DEF AnthropicEncoder
<1> HIDE DEF p
<1>6. AnthropicShape(p, p.heard.blocks)
  BY <1>2, <1>5, Zenon DEF AnthropicShape
<1>7. TextTold(c, T) /\ e.stop = stopReasonFor(f)
  BY <1>1, <1>2, TextAnnounced DEF AnthropicFits
<1> DEFINE at == Where(lb, e.blocks, n)
           by == Where(lb, m, n + 1)
<1>8. \A k \in 1..n : k \in 1..n + 1 /\ by[k] = at[k] /\ B[k] = A[k]
  BY <1>4, WhereIs DEF NewCall
<1>9. by[n + 1] = Len(b) + 1
  BY <1>1, <1>4, WhereIs
<1>10. CallsPlaced(b, A, n, at)
  BY DEF AnthropicFits
<1> HIDE DEF at, by, c, b
<1>11. CallsPlaced(c, B, n + 1, by)
  BY <1>1, <1>2, <1>8, <1>9, <1>10, CallAnnounced DEF NewCall
<1>12. AnthropicFits(p, lb, T, B, n + 1, f)
  BY <1>2, <1>5, <1>6, <1>7, <1>11, Zenon DEF AnthropicFits, by, c
<1>13. p.open = p.blocks[Key(lb, n + 1)]
  <2>1. w.open = Len(b) + 1
    BY <1>2 DEF AnthropicShape, Opened
  <2> QED BY <1>1, <1>4, <1>5, <2>1
<1> QED BY <1>2, <1>3, <1>5, <1>12, <1>13, Zenon DEF o

(* What is said of a call goes into its block.                              *)
AnthropicWithPiece(e, lb, k, piece) ==
  [e EXCEPT !.heard = Filled(@, e.blocks[Key(lb, k)], piece)]

(* ... where its arguments are put from then on.                            *)
LEMMA AnthropicAdds ==
  ASSUME NEW lb, NEW T, NEW A, NEW B, NEW n \in Nat, NEW f, NEW e, AnthropicFits(e, lb, T, A, n, f),
         e.started, NEW k \in 1..n, NEW piece \in Nat, NewPiece(A, B, n, k, piece)
  PROVE  LET o == AnthropicWithPiece(e, lb, k, piece)
         IN /\ AnthropicFits(o, lb, T, B, n, f) /\ o.started
            /\ o.open = e.open /\ o.blocks = e.blocks
            /\ e.heard.ok /\ e.open = e.blocks[Key(lb, k)] => o.heard.ok
<1> DEFINE b == e.heard.blocks
           i == e.blocks[Key(lb, k)]
           at == Where(lb, e.blocks, n)
           o == [e EXCEPT !.heard = Filled(@, i, piece)]
<1>1. /\ e \in AnthropicEncoder(lb, n) /\ b \in Seq(StreamBlock) /\ Len(b) \in Nat
      /\ AnthropicShape(e, b) /\ TextTold(b, T) /\ CallsPlaced(b, A, n, at) /\ e.stop = stopReasonFor(f)
  BY AnthropicIs DEF AnthropicFits
<1>2. at[k] = i
  BY WhereIs
<1>3. i \in 1..Len(b) /\ b[i].kind = "tool"
  BY <1>1, <1>2 DEF CallsPlaced
<1> HIDE DEF i, at
<1>4. /\ o \in AnthropicEncoder(lb, n) /\ AnthropicShape(o, o.heard.blocks)
      /\ Grown(b, o.heard.blocks, i, piece)
      /\ o.started = e.started /\ o.open = e.open /\ o.blocks = e.blocks /\ o.stop = e.stop
      /\ (e.heard.ok /\ e.open = i => o.heard.ok)
  BY <1>1, <1>3, AnthropicFills
<1> HIDE DEF o, b
<1>5. TextTold(o.heard.blocks, T)
  BY <1>1, <1>3, <1>4, TextUntouched
<1>6. Grown(b, o.heard.blocks, at[k], piece)
  BY <1>2, <1>4
<1>7. CallsPlaced(o.heard.blocks, B, n, at)
  BY <1>1, <1>6, CallFilled DEF NewPiece
<1>8. AnthropicFits(o, lb, T, B, n, f)
  BY <1>1, <1>4, <1>5, <1>7, Zenon DEF AnthropicFits, at
<1> QED BY <1>4, <1>8 DEF AnthropicWithPiece, o, i

-----------------------------------------------------------------------------
(* A provider that keeps to one thing at a time finds the block of the call *)
(* it said last still open.                                                 *)
AnthropicHolds(e, lb, T, A, n, f, tidy, last) ==
  /\ AnthropicFits(e, lb, T, A, n, f)
  /\ tidy => e.heard.ok /\ (last # 0 => e.open = e.blocks[Key(lb, last)])

(* So each delta leaves an encoder that fits what was said.                 *)
LEMMA AnthropicOnText ==
  ASSUME NEW lb, NEW T, NEW A, NEW n \in Nat, NEW f, NEW tidy, NEW last, NEW e,
         AnthropicHolds(e, lb, T, A, n, f, tidy, last), NEW piece \in Nat, piece # None, Before(T, piece)
  PROVE  AnthropicHolds(AnthropicDelta(e, TextDelta(piece)), lb, T \cup {piece}, A, n, f, tidy, 0)
<1> DEFINE s == AnthropicStart(e)
           o == AnthropicText(s, piece)
<1>1. AnthropicDelta(e, TextDelta(piece)) = o
  BY DEF AnthropicDelta, TextDelta
<1>2. AnthropicFits(s, lb, T, A, n, f) /\ s.started /\ (e.heard.ok => s.heard.ok)
  BY AnthropicStarts DEF AnthropicHolds
<1> HIDE DEF s
<1>3. AnthropicFits(o, lb, T \cup {piece}, A, n, f) /\ o.started /\ (s.heard.ok => o.heard.ok)
  BY <1>2, AnthropicTells
<1> HIDE DEF o
<1> QED BY <1>1, <1>2, <1>3, Zenon DEF AnthropicHolds

LEMMA AnthropicOnCall ==
  ASSUME NEW lb \in Labels, NEW T, NEW A, NEW B, NEW n \in Nat, NEW f, NEW tidy, NEW last, NEW e,
         AnthropicHolds(e, lb, T, A, n, f, tidy, last), NEW bit, Marks(lb, bit, n + 1),
         bit.args \in Nat, \A k \in 1..n : B[k] = A[k],
         B[n + 1] = IF bit.args = None THEN {} ELSE {bit.args}
  PROVE  AnthropicHolds(AnthropicDelta(e, CallDelta(bit)), lb, T, B, n + 1, f, tidy, n + 1)
<1> DEFINE s == AnthropicStart(e)
           d == AnthropicCall(s, bit)
           key == Key(lb, n + 1)
           o == AnthropicWithCall(s, lb, n)
           C == [k \in 1..n + 1 |-> IF k = n + 1 THEN {} ELSE A[k]]
<1>1. AnthropicDelta(e, CallDelta(bit)) = d
  BY DEF AnthropicDelta, CallDelta
<1>2. AnthropicFits(s, lb, T, A, n, f) /\ s.started /\ (e.heard.ok => s.heard.ok)
  BY AnthropicStarts DEF AnthropicHolds
<1> HIDE DEF s
<1>3. /\ AnthropicFits(o, lb, T, C, n + 1, f) /\ o.started /\ o.open = o.blocks[key]
      /\ s.heard.ok => o.heard.ok
  <2>1. n + 1 \in 1..n + 1 /\ \A k \in 1..n : k \in 1..n + 1 /\ k # n + 1
    OBVIOUS
  <2>2. NewCall(A, C, n)
    BY <2>1 DEF NewCall
  <2>3. AnthropicFits(s, lb, T, A, n, f) /\ s.started
    BY <1>2
  <2> HIDE DEF C
  <2>4. LET z == AnthropicWithCall(s, lb, n)
        IN /\ AnthropicFits(z, lb, T, C, n + 1, f) /\ z.started
           /\ z.open = z.blocks[Key(lb, n + 1)]
           /\ s.heard.ok => z.heard.ok
    BY <2>2, <2>3, AnthropicCalls
  <2> QED BY <2>4
<1>4. d = IF bit.args = None THEN o ELSE [o EXCEPT !.heard = Filled(@, o.blocks[key], bit.args)]
  <2>1. DOMAIN s.blocks = Keys(lb, n)
    BY <1>2, AnthropicIs DEF AnthropicFits
  <2>2. KeyOf(bit, DOMAIN s.blocks) = key
    BY <2>1, KeyIs
  <2>3. key \notin DOMAIN s.blocks
    BY <2>1, KeysGrow
  <2> DEFINE w == KeyOf(bit, DOMAIN s.blocks)
             v == [AnthropicOpen(s, "tool") EXCEPT !.blocks = Entered(@, w, s.next)]
             u == IF w \in DOMAIN s.blocks THEN s ELSE v
  <2>4. o = v
    BY <2>2 DEF AnthropicWithCall
  <2>5. d = IF bit.args = None THEN u ELSE [u EXCEPT !.heard = Filled(@, u.blocks[w], bit.args)]
    BY DEF AnthropicCall
  <2>6. u = o
    BY <2>2, <2>3, <2>4
  <2> HIDE DEF w, u, o, key
  <2> QED BY <2>2, <2>5, <2>6 DEF w
<1> HIDE DEF o, d
<1>5. CASE bit.args = None
  <2>1. d = o /\ AnthropicFits(o, lb, T, B, n + 1, f)
    <3>1. \A k \in 1..n + 1 : C[k] = B[k]
      BY <1>5
    <3>2. CallsPlaced(o.heard.blocks, B, n + 1, Where(lb, o.blocks, n + 1))
      BY <1>3, <3>1 DEF AnthropicFits, CallsPlaced
    <3> QED BY <1>3, <1>4, <1>5, <3>2 DEF AnthropicFits
  <2> QED BY <1>1, <1>2, <1>3, <2>1, Zenon DEF AnthropicHolds
<1>6. CASE bit.args # None
  <2> DEFINE p == AnthropicWithPiece(o, lb, n + 1, bit.args)
  <2>1. d = p
    BY <1>4, <1>6 DEF AnthropicWithPiece
  <2>2. /\ AnthropicFits(p, lb, T, B, n + 1, f) /\ p.open = o.open /\ p.blocks = o.blocks
        /\ (o.heard.ok /\ o.open = o.blocks[key] => p.heard.ok)
    <3>1. n + 1 \in 1..n + 1 /\ n + 1 \in Nat
      OBVIOUS
    <3>2. NewPiece(C, B, n + 1, n + 1, bit.args)
      BY <1>6 DEF NewPiece, Before
    <3> HIDE DEF C
    <3> QED BY <1>3, <3>1, <3>2, AnthropicAdds
  <2> HIDE DEF p
  <2> QED BY <1>1, <1>2, <1>3, <2>1, <2>2, Zenon DEF AnthropicHolds
<1> QED BY <1>5, <1>6

LEMMA AnthropicOnArgs ==
  ASSUME NEW lb \in Labels, NEW T, NEW A, NEW B, NEW n \in Nat, NEW f, NEW tidy, NEW last, NEW e,
         AnthropicHolds(e, lb, T, A, n, f, tidy, last), NEW c \in 1..n, NEW bit, Marks(lb, bit, c),
         lb # "none", bit.args \in Nat, bit.args # None, NewPiece(A, B, n, c, bit.args),
         NEW tidier, tidier => tidy /\ last = c
  PROVE  AnthropicHolds(AnthropicDelta(e, CallDelta(bit)), lb, T, B, n, f, tidier, c)
<1> DEFINE s == AnthropicStart(e)
           d == AnthropicCall(s, bit)
           key == Key(lb, c)
           p == AnthropicWithPiece(s, lb, c, bit.args)
<1>1. AnthropicDelta(e, CallDelta(bit)) = d
  BY DEF AnthropicDelta, CallDelta
<1>2. /\ AnthropicFits(s, lb, T, A, n, f) /\ s.started /\ (e.heard.ok => s.heard.ok)
      /\ s.open = e.open /\ s.blocks = e.blocks
  BY AnthropicStarts DEF AnthropicHolds
<1> HIDE DEF s
<1>3. d = p
  <2>1. DOMAIN s.blocks = Keys(lb, n)
    BY <1>2, AnthropicIs DEF AnthropicFits
  <2>2. KeyOf(bit, DOMAIN s.blocks) = key
    BY <2>1, KeyIs
  <2>3. key \in DOMAIN s.blocks
    BY <2>1 DEF Keys
  <2>4. p = [s EXCEPT !.heard = Filled(@, s.blocks[key], bit.args)]
    BY DEF AnthropicWithPiece
  <2> HIDE DEF key, p
  <2> QED BY <2>2, <2>3, <2>4, Zenon DEF AnthropicCall
<1>4. /\ AnthropicFits(p, lb, T, B, n, f) /\ p.open = s.open /\ p.blocks = s.blocks
      /\ (s.heard.ok /\ s.open = s.blocks[key] => p.heard.ok)
  <2> DEFINE piece == bit.args
  <2>1. /\ AnthropicFits(s, lb, T, A, n, f) /\ s.started
        /\ piece \in Nat /\ NewPiece(A, B, n, c, piece)
    BY <1>2
  <2> HIDE DEF piece
  <2>2. LET o == AnthropicWithPiece(s, lb, c, piece)
        IN /\ AnthropicFits(o, lb, T, B, n, f) /\ o.open = s.open /\ o.blocks = s.blocks
           /\ s.heard.ok /\ s.open = s.blocks[Key(lb, c)] => o.heard.ok
    BY <2>1, AnthropicAdds
  <2> QED BY <2>2 DEF piece
<1> HIDE DEF p, d
<1>5. c # 0
  OBVIOUS
<1> QED BY <1>1, <1>2, <1>3, <1>4, <1>5, Zenon DEF AnthropicHolds, key

LEMMA AnthropicOnFinish ==
  ASSUME NEW lb, NEW T, NEW A, NEW n \in Nat, NEW f, NEW tidy, NEW last, NEW e,
         AnthropicHolds(e, lb, T, A, n, f, tidy, last), NEW g, g # "none"
  PROVE  AnthropicHolds(AnthropicDelta(e, FinishDelta(g)), lb, T, A, n, g, tidy, last)
<1> DEFINE s == AnthropicStart(e)
           r == stopReasonFor(g)
           o == [s EXCEPT !.stop = r]
<1>1. AnthropicDelta(e, FinishDelta(g)) = o
  BY DEF AnthropicDelta, FinishDelta, None
<1>2. /\ AnthropicFits(s, lb, T, A, n, f) /\ s.started /\ (e.heard.ok => s.heard.ok)
      /\ s.open = e.open /\ s.blocks = e.blocks
  BY AnthropicStarts DEF AnthropicHolds
<1> HIDE DEF s
<1>3. stopReasonFor(g) \in {"tool_use", "max_tokens", "refusal", "end_turn"}
  BY DEF stopReasonFor
<1>4. /\ o \in AnthropicEncoder(lb, n) /\ o.started = s.started /\ o.open = s.open
      /\ o.kind = s.kind /\ o.next = s.next /\ o.blocks = s.blocks
      /\ o.stop = r /\ o.heard = s.heard
  <2>1. s \in AnthropicEncoder(lb, n)
    BY <1>2 DEF AnthropicFits
  <2>2. r \in Ends
    BY <1>3 DEF Ends
  <2> HIDE DEF r
  <2>3. o \in AnthropicEncoder(lb, n)
    BY <2>1, <2>2, Zenon DEF AnthropicEncoder
  <2>4. /\ o.started = s.started /\ o.open = s.open
        /\ o.kind = s.kind /\ o.next = s.next /\ o.blocks = s.blocks
        /\ o.heard = s.heard
    BY <2>1, Zenon DEF AnthropicEncoder
  <2>5. o.stop = r
    BY <2>1, Zenon DEF AnthropicEncoder
  <2> QED BY <2>3, <2>4, <2>5
<1> HIDE DEF o
<1>5. AnthropicShape(o, o.heard.blocks)
  BY <1>2, <1>4, Zenon DEF AnthropicShape, AnthropicFits
<1>6. AnthropicFits(o, lb, T, A, n, g)
  BY <1>2, <1>4, <1>5, Zenon DEF AnthropicFits
<1> QED BY <1>1, <1>2, <1>4, <1>6, Zenon DEF AnthropicHolds

LEMMA AnthropicOnIdle ==
  ASSUME NEW lb, NEW T, NEW A, NEW n \in Nat, NEW f, NEW tidy, NEW last, NEW e,
         AnthropicHolds(e, lb, T, A, n, f, tidy, last)
  PROVE  AnthropicHolds(AnthropicStart(e), lb, T, A, n, f, tidy, last)
<1> DEFINE s == AnthropicStart(e)
<1>1. /\ AnthropicFits(s, lb, T, A, n, f) /\ (e.heard.ok => s.heard.ok)
      /\ s.open = e.open /\ s.blocks = e.blocks
  BY AnthropicStarts DEF AnthropicHolds
<1> HIDE DEF s
<1>2. AnthropicHolds(s, lb, T, A, n, f, tidy, last)
  BY <1>1, Zenon DEF AnthropicHolds
<1> QED BY <1>2 DEF s

-----------------------------------------------------------------------------
(* toResponsesStream.  Its items are the blocks of the client, all closed   *)
(* but the last; `message` is the last one when that is text.               *)
Item == [kind : {"text", "tool"}, holds : Seq(Nat), closed : BOOLEAN]

ResponsesEncoder(lb, n) ==
  [items : Seq(Item), message : Nat, current : Nat, calls : [Keys(lb, n) -> Nat],
   finish : Ends, heard : Client]

(* The items in front of the last m are closed.                             *)
Mirrors(items, b, m) ==
  /\ Len(items) = Len(b)
  /\ \A i \in 1..Len(b) : /\ items[i].kind = b[i].kind /\ items[i].holds = b[i].holds
                          /\ items[i].closed <=> i < m

ResponsesShape(e, b) ==
  /\ Mirrors(e.items, b, Len(b))
  /\ e.current = Len(b) /\ e.heard.open = Len(b)
  /\ e.heard.begun /\ ~e.heard.over

MessageAt(e, b) ==
  /\ e.message \in 0..Len(b)
  /\ Len(b) > 0 => (b[Len(b)].kind = "text" <=> e.message = Len(b))

ResponsesFits(e, lb, T, A, n, f) ==
  /\ e \in ResponsesEncoder(lb, n)
  /\ TextTold(e.heard.blocks, T)
  /\ CallsPlaced(e.heard.blocks, A, n, Where(lb, e.calls, n))
  /\ ResponsesShape(e, e.heard.blocks) /\ MessageAt(e, e.heard.blocks)
  /\ e.finish = f

LEMMA ResponsesIs ==
  ASSUME NEW lb, NEW n, NEW e \in ResponsesEncoder(lb, n)
  PROVE  /\ e.items \in Seq(Item) /\ e.message \in Nat /\ e.current \in Nat
         /\ e.calls \in [Keys(lb, n) -> Nat] /\ e.finish \in Ends /\ e.heard \in Client
         /\ e.heard.blocks \in Seq(StreamBlock) /\ Len(e.heard.blocks) \in Nat
         /\ DOMAIN e.heard.blocks = 1..Len(e.heard.blocks)
<1>1. /\ e.items \in Seq(Item) /\ e.message \in Nat /\ e.current \in Nat
      /\ e.calls \in [Keys(lb, n) -> Nat] /\ e.finish \in Ends /\ e.heard \in Client
  BY DEF ResponsesEncoder
<1> QED BY <1>1, ClientIs, ElementsOf

LEMMA ItemIs ==
  ASSUME NEW s \in Seq(Item), NEW i \in 1..Len(s)
  PROVE  /\ s[i] \in Item /\ s[i].kind \in {"text", "tool"} /\ s[i].holds \in Seq(Nat)
         /\ s[i].closed \in BOOLEAN
<1>1. s[i] \in Item
  BY ElementsOf
<1> QED BY <1>1 DEF Item

(* The item that is open is closed, with what it holds.                     *)
LEMMA ResponsesCloses ==
  ASSUME NEW lb, NEW n \in Nat, NEW e \in ResponsesEncoder(lb, n), ResponsesShape(e, e.heard.blocks)
  PROVE  LET k == ResponsesClose(e, e.current)
             b == e.heard.blocks
         IN /\ k \in ResponsesEncoder(lb, n)
            /\ k.message = e.message /\ k.current = e.current /\ k.calls = e.calls /\ k.finish = e.finish
            /\ Mirrors(k.items, b, Len(b) + 1)
            /\ k.heard.blocks = b /\ k.heard.open = None
            /\ k.heard.begun /\ ~k.heard.over
            /\ e.heard.ok => k.heard.ok
<1> DEFINE b == e.heard.blocks
           k == ResponsesClose(e, e.current)
<1>1. /\ e.heard \in Client /\ b \in Seq(StreamBlock) /\ Len(b) \in Nat /\ e.items \in Seq(Item)
  BY ResponsesIs
<1>2. /\ Mirrors(e.items, b, Len(b)) /\ e.current = Len(b) /\ e.heard.open = Len(b)
      /\ e.heard.begun /\ ~e.heard.over
  BY DEF ResponsesShape
<1> HIDE DEF b
<1>3. CASE Len(b) = 0
  <2>1. k = e
    BY <1>2, <1>3 DEF ResponsesClose, None
  <2>2. Mirrors(e.items, b, Len(b) + 1)
    BY <1>2, <1>3 DEF Mirrors
  <2> HIDE DEF k
  <2> QED BY <1>2, <1>3, <2>1, <2>2, Zenon DEF None, b, k
<1>4. CASE Len(b) # 0
  <2> DEFINE i == Len(b)
             x == [e.items[i] EXCEPT !.closed = TRUE]
             s == [e.items EXCEPT ![i] = x]
             g == ItemDone(e.heard, i, e.items[i].holds)
             p == [e EXCEPT !.items = s, !.heard = g]
  <2>1. i \in 1..Len(b) /\ i \in 1..Len(e.items) /\ ~e.items[i].closed /\ e.items[i].holds = b[i].holds
    BY <1>1, <1>2, <1>4 DEF Mirrors
  <2>2. k = p
    BY <1>2, <1>4, <2>1, Zenon DEF ResponsesClose, None
  <2> HIDE DEF i, k
  <2>3. e.items[i] \in Item
    BY <1>1, <2>1, ItemIs
  <2>4. x \in Item /\ x.kind = e.items[i].kind /\ x.holds = e.items[i].holds /\ x.closed
    BY <2>3, Zenon DEF Item
  <2> HIDE DEF x
  <2>5. /\ s \in Seq(Item) /\ Len(s) = Len(e.items)
        /\ \A j \in 1..Len(e.items) : s[j] = IF j = i THEN x ELSE e.items[j]
    BY <1>1, <2>1, <2>4, ExceptSeq, ElementsOf
  <2>6. /\ g \in Client /\ g.blocks = b /\ g.open = None
        /\ g.begun = e.heard.begun /\ g.over = e.heard.over
        /\ (e.heard.ok /\ ~e.heard.over /\ e.heard.open = i /\ b[i].holds = e.items[i].holds => g.ok)
    <3>1. /\ g \in Client /\ g.blocks = e.heard.blocks /\ g.open = None
          /\ g.begun = e.heard.begun /\ g.over = e.heard.over
          /\ (e.heard.ok /\ ~e.heard.over /\ e.heard.open = i /\ e.heard.blocks[i].holds = e.items[i].holds
               => g.ok)
      BY <1>1, ItemDoneIs
    <3> HIDE DEF g
    <3> QED BY <3>1, Zenon DEF b
  <2> HIDE DEF s, g
  <2>7. /\ p \in ResponsesEncoder(lb, n)
        /\ p.message = e.message /\ p.current = e.current /\ p.calls = e.calls /\ p.finish = e.finish
        /\ p.items = s /\ p.heard = g
    BY <2>5, <2>6, Zenon DEF ResponsesEncoder
  <2> HIDE DEF p
  <2>8. Mirrors(s, b, Len(b) + 1)
    <3> SUFFICES ASSUME NEW j \in 1..Len(b)
                 PROVE  /\ s[j].kind = b[j].kind /\ s[j].holds = b[j].holds /\ s[j].closed
      BY <1>1, <1>2, <2>5 DEF Mirrors
    <3>1. CASE j = i
      BY <1>2, <2>1, <2>4, <2>5, <3>1 DEF Mirrors
    <3>2. CASE j # i
      <4>1. j < Len(b) /\ j \in 1..Len(e.items)
        BY <1>1, <1>2, <3>2 DEF Mirrors, i
      <4> QED BY <1>2, <2>5, <3>2, <4>1 DEF Mirrors
    <3> QED BY <3>1, <3>2
  <2>9. e.heard.ok => g.ok
    BY <1>2, <2>1, <2>6 DEF i
  <2> QED BY <1>2, <2>2, <2>6, <2>7, <2>8, <2>9, Zenon DEF b, k
<1> QED BY <1>3, <1>4

(* A new item is opened behind the one that was open.                       *)
LEMMA ResponsesOpens ==
  ASSUME NEW lb, NEW T, NEW A, NEW n \in Nat, NEW f, NEW e, ResponsesFits(e, lb, T, A, n, f),
         NEW kind \in {"text", "tool"}
  PROVE  LET o == ResponsesOpen(e, kind)
             b == e.heard.blocks
         IN /\ o \in ResponsesEncoder(lb, n)
            /\ o.calls = e.calls /\ o.finish = e.finish /\ o.message = e.message
            /\ Opened(b, o.heard.blocks, kind) /\ ResponsesShape(o, o.heard.blocks)
            /\ o.current = Len(e.items) + 1 /\ Len(e.items) = Len(b)
            /\ e.heard.ok => o.heard.ok
<1> DEFINE b == e.heard.blocks
           k == ResponsesClose(e, e.current)
           i == Len(e.items) + 1
           x == [kind |-> kind, holds |-> <<>>, closed |-> FALSE]
           s == Append(k.items, x)
           h == Announced(k.heard, i, kind)
           o == [k EXCEPT !.items = s, !.current = i, !.heard = h]
<1>1. /\ e \in ResponsesEncoder(lb, n) /\ ResponsesShape(e, b) /\ e.items \in Seq(Item)
      /\ b \in Seq(StreamBlock) /\ Len(b) \in Nat
  BY ResponsesIs DEF ResponsesFits
<1>2. Len(e.items) = Len(b) /\ i \in Nat /\ i = Len(b) + 1
  BY <1>1 DEF ResponsesShape, Mirrors
<1>3. ResponsesOpen(e, kind) = o
  BY Zenon DEF ResponsesOpen
<1>4. /\ k \in ResponsesEncoder(lb, n)
      /\ k.message = e.message /\ k.current = e.current /\ k.calls = e.calls /\ k.finish = e.finish
      /\ Mirrors(k.items, b, Len(b) + 1)
      /\ k.heard.blocks = b /\ k.heard.open = None
      /\ k.heard.begun /\ ~k.heard.over
      /\ (e.heard.ok => k.heard.ok)
  BY <1>1, ResponsesCloses
<1> HIDE DEF k, i, b
<1>5. k.items \in Seq(Item) /\ k.heard \in Client
  BY <1>4, ResponsesIs
<1>6. x \in Item /\ x.kind = kind /\ x.holds = <<>> /\ ~x.closed
  BY DEF Item
<1> HIDE DEF x
<1>7. /\ s \in Seq(Item) /\ Len(s) = Len(k.items) + 1 /\ s[Len(k.items) + 1] = x
      /\ \A j \in 1..Len(k.items) : s[j] = k.items[j]
  BY <1>5, <1>6, OneMore
<1>8. /\ h \in Client /\ Opened(b, h.blocks, kind) /\ h.open = Len(h.blocks)
      /\ h.begun = k.heard.begun /\ h.over = k.heard.over
      /\ (k.heard.ok /\ ~k.heard.over /\ k.heard.begun /\ k.heard.open = None /\ i = Len(k.heard.blocks) + 1
           => h.ok)
  <2>2. /\ h \in Client /\ Opened(k.heard.blocks, h.blocks, kind) /\ h.open = Len(h.blocks)
        /\ h.begun = k.heard.begun /\ h.over = k.heard.over
        /\ (k.heard.ok /\ ~k.heard.over /\ k.heard.begun /\ k.heard.open = None /\ i = Len(k.heard.blocks) + 1
             => h.ok)
    BY <1>5, AnnouncedIs
  <2> QED BY <1>4, <2>2, Zenon
<1> HIDE DEF s, h
<1>9. /\ o \in ResponsesEncoder(lb, n) /\ o.items = s /\ o.message = k.message /\ o.current = i
      /\ o.calls = k.calls /\ o.finish = k.finish /\ o.heard = h
  BY <1>2, <1>4, <1>7, <1>8, Zenon DEF ResponsesEncoder
<1> HIDE DEF o
<1>10. /\ Len(h.blocks) = Len(b) + 1 /\ \A j \in 1..Len(b) : h.blocks[j] = b[j]
       /\ h.blocks[Len(b) + 1].kind = kind /\ h.blocks[Len(b) + 1].holds = <<>>
  BY <1>8 DEF Opened
<1>11. Mirrors(s, h.blocks, Len(h.blocks))
  <2>1. Len(k.items) = Len(b)
    BY <1>4 DEF Mirrors
  <2>2. Len(s) = Len(h.blocks)
    BY <1>7, <1>10, <2>1
  <2>3. ASSUME NEW j \in 1..Len(h.blocks)
        PROVE  /\ s[j].kind = h.blocks[j].kind /\ s[j].holds = h.blocks[j].holds
               /\ s[j].closed <=> j < Len(h.blocks)
    <3>1. CASE j = Len(b) + 1
      BY <1>1, <1>6, <1>7, <1>10, <2>1, <3>1
    <3>2. CASE j # Len(b) + 1
      <4>1. j \in 1..Len(b) /\ j < Len(b) + 1 /\ j < Len(h.blocks)
        BY <1>1, <1>10, <3>2
      <4>2. s[j] = k.items[j] /\ h.blocks[j] = b[j]
        BY <1>7, <1>10, <2>1, <4>1
      <4> QED BY <1>4, <4>1, <4>2 DEF Mirrors
    <3> QED BY <3>1, <3>2
  <2> QED BY <2>2, <2>3 DEF Mirrors
<1>12. ResponsesShape(o, o.heard.blocks)
  <2>1. o.current = Len(h.blocks)
    BY <1>2, <1>9, <1>10
  <2>2. o.heard = h /\ o.heard.open = Len(h.blocks) /\ o.heard.begun /\ ~o.heard.over /\ o.items = s
    BY <1>4, <1>8, <1>9, Zenon
  <2> QED BY <1>11, <2>1, <2>2, Zenon DEF ResponsesShape
<1>13. e.heard.ok => o.heard.ok
  <2>1. i = Len(k.heard.blocks) + 1
    BY <1>2, <1>4
  <2> QED BY <1>4, <1>8, <1>9, <2>1, Zenon
<1>14. /\ o.calls = e.calls /\ o.finish = e.finish /\ o.message = e.message
       /\ Opened(b, o.heard.blocks, kind) /\ o.current = Len(e.items) + 1
  BY <1>4, <1>8, <1>9, Zenon DEF i
<1> QED BY <1>2, <1>3, <1>9, <1>12, <1>13, <1>14, Zenon DEF b

(* What an item holds grows on both sides.                                  *)
LEMMA ResponsesSays ==
  ASSUME NEW lb, NEW n \in Nat, NEW e \in ResponsesEncoder(lb, n), ResponsesShape(e, e.heard.blocks),
         NEW i \in 1..Len(e.heard.blocks), NEW piece \in Nat
  PROVE  LET o == ResponsesSay(e, i, piece)
         IN /\ o \in ResponsesEncoder(lb, n) /\ ResponsesShape(o, o.heard.blocks)
            /\ Grown(e.heard.blocks, o.heard.blocks, i, piece)
            /\ o.message = e.message /\ o.current = e.current /\ o.calls = e.calls /\ o.finish = e.finish
            /\ e.heard.ok /\ e.current = i => o.heard.ok
<1> DEFINE b == e.heard.blocks
           x == [e.items[i] EXCEPT !.holds = Append(@, piece)]
           s == [e.items EXCEPT ![i] = x]
           h == Filled(e.heard, i, piece)
           o == [e EXCEPT !.items = s, !.heard = h]
<1>1. e.heard \in Client /\ b \in Seq(StreamBlock) /\ Len(b) \in Nat /\ e.items \in Seq(Item)
  BY ResponsesIs
<1>2. /\ Mirrors(e.items, b, Len(b)) /\ e.current = Len(b) /\ e.heard.open = Len(b)
      /\ e.heard.begun /\ ~e.heard.over
  BY DEF ResponsesShape
<1>3. i \in 1..Len(b) /\ i \in 1..Len(e.items) /\ DOMAIN e.items = 1..Len(e.items)
  BY <1>1, <1>2, ElementsOf DEF Mirrors
<1>4. ResponsesSay(e, i, piece) = o
  BY Zenon DEF ResponsesSay
<1>5. /\ h \in Client /\ Grown(b, h.blocks, i, piece)
      /\ h.open = e.heard.open /\ h.begun = e.heard.begun /\ h.over = e.heard.over
      /\ (e.heard.ok /\ ~e.heard.over /\ e.heard.open = i => h.ok)
  BY <1>1, FilledIs
<1> HIDE DEF h, b
<1>6. e.items[i] \in Item /\ e.items[i].holds \in Seq(Nat)
  BY <1>1, <1>3, ItemIs
<1>7. Append(e.items[i].holds, piece) \in Seq(Nat)
  BY <1>6, OneMore
<1>8. /\ x \in Item /\ x.kind = e.items[i].kind /\ x.holds = Append(e.items[i].holds, piece)
      /\ x.closed = e.items[i].closed
  BY <1>6, <1>7, Zenon DEF Item
<1> HIDE DEF x
<1>9. /\ s \in Seq(Item) /\ Len(s) = Len(e.items)
      /\ \A j \in 1..Len(e.items) : s[j] = IF j = i THEN x ELSE e.items[j]
  BY <1>1, <1>3, <1>8, ExceptSeq, ElementsOf
<1> HIDE DEF s
<1>10. /\ o \in ResponsesEncoder(lb, n) /\ o.items = s /\ o.message = e.message /\ o.current = e.current
       /\ o.calls = e.calls /\ o.finish = e.finish /\ o.heard = h
  BY <1>5, <1>9, Zenon DEF ResponsesEncoder
<1> HIDE DEF o
<1>11. Len(h.blocks) = Len(b) /\ Mirrors(s, h.blocks, Len(b))
  <2>1. Len(h.blocks) = Len(b) /\ Len(s) = Len(b)
    BY <1>2, <1>5, <1>9 DEF Grown, Mirrors
  <2>2. ASSUME NEW j \in 1..Len(b)
        PROVE  /\ s[j].kind = h.blocks[j].kind /\ s[j].holds = h.blocks[j].holds
               /\ s[j].closed <=> j < Len(b)
    <3>1. /\ e.items[j].kind = b[j].kind /\ e.items[j].holds = b[j].holds
          /\ e.items[j].closed <=> j < Len(b)
      BY <1>2 DEF Mirrors
    <3>2. /\ h.blocks[j].kind = b[j].kind
          /\ h.blocks[j].holds = IF j = i THEN Append(b[j].holds, piece) ELSE b[j].holds
      BY <1>5 DEF Grown
    <3>3. s[j] = IF j = i THEN x ELSE e.items[j]
      BY <1>2, <1>9 DEF Mirrors
    <3>4. CASE j = i
      BY <1>8, <3>1, <3>2, <3>3, <3>4
    <3>5. CASE j # i
      BY <3>1, <3>2, <3>3, <3>5
    <3> QED BY <3>4, <3>5
  <2> QED BY <2>1, <2>2 DEF Mirrors
<1>12. ResponsesShape(o, o.heard.blocks)
  <2>1. /\ Len(o.heard.blocks) = Len(b) /\ o.current = Len(b) /\ o.heard.open = Len(b)
        /\ Mirrors(o.items, o.heard.blocks, Len(o.heard.blocks))
    BY <1>2, <1>5, <1>10, <1>11
  <2>2. o.heard.begun /\ ~o.heard.over
    BY <1>2, <1>5, <1>10, Zenon
  <2> QED BY <2>1, <2>2, Zenon DEF ResponsesShape
<1>13. e.heard.ok /\ e.current = i => o.heard.ok
  <2>1. e.current = e.heard.open
    BY <1>2
  <2> QED BY <1>2, <1>5, <1>10, <2>1, Zenon
<1> QED BY <1>4, <1>5, <1>10, <1>12, <1>13, Zenon DEF b

(* The same of the Responses API: text, a call that begins, its arguments.  *)
LEMMA ResponsesTells ==
  ASSUME NEW lb, NEW T, NEW A, NEW n \in Nat, NEW f, NEW e, ResponsesFits(e, lb, T, A, n, f),
         NEW piece \in Nat, Before(T, piece)
  PROVE  LET o == ResponsesText(e, piece)
         IN /\ ResponsesFits(o, lb, T \cup {piece}, A, n, f)
            /\ e.heard.ok => o.heard.ok
<1> DEFINE b == e.heard.blocks
           w == ResponsesOpen(e, "text")
           v == [w EXCEPT !.message = Len(e.items) + 1]
           o == IF e.message # None /\ ~e.items[e.message].closed THEN e ELSE v
           p == ResponsesSay(o, o.message, piece)
<1>0. ResponsesText(e, piece) = p
  BY Zenon DEF ResponsesText
<1>1. /\ e \in ResponsesEncoder(lb, n) /\ b \in Seq(StreamBlock) /\ Len(b) \in Nat
      /\ ResponsesShape(e, b) /\ MessageAt(e, b)
  BY ResponsesIs DEF ResponsesFits
<1>2. /\ ResponsesFits(o, lb, T, A, n, f) /\ (e.heard.ok => o.heard.ok)
      /\ Len(o.heard.blocks) > 0 /\ o.current = Len(o.heard.blocks) /\ o.message = Len(o.heard.blocks)
      /\ o.heard.blocks[Len(o.heard.blocks)].kind = "text"
  <2>1. CASE e.message # None /\ ~e.items[e.message].closed
    <3>1. o = e
      BY <2>1
    <3>2. e.message \in 1..Len(b)
      BY <1>1, <2>1 DEF MessageAt, None
    <3>3. ~(e.message < Len(b))
      BY <1>1, <2>1, <3>2 DEF ResponsesShape, Mirrors
    <3>4. e.message = Len(b) /\ Len(b) > 0 /\ b[Len(b)].kind = "text" /\ e.current = Len(b)
      BY <1>1, <3>2, <3>3 DEF MessageAt, ResponsesShape
    <3> HIDE DEF o
    <3> QED BY <3>1, <3>4
  <2>2. CASE ~(e.message # None /\ ~e.items[e.message].closed)
    <3> DEFINE c == w.heard.blocks
    <3>1. o = v
      BY <2>2
    <3>2. /\ w \in ResponsesEncoder(lb, n)
          /\ w.calls = e.calls /\ w.finish = e.finish /\ w.message = e.message
          /\ Opened(b, c, "text") /\ ResponsesShape(w, c)
          /\ w.current = Len(e.items) + 1 /\ Len(e.items) = Len(b)
          /\ (e.heard.ok => w.heard.ok)
      BY ResponsesOpens
    <3> HIDE DEF w, o
    <3>3. Len(e.items) + 1 \in Nat
      BY <1>1, <3>2
    <3>4. /\ v \in ResponsesEncoder(lb, n) /\ v.items = w.items /\ v.message = Len(e.items) + 1
          /\ v.current = w.current /\ v.calls = w.calls /\ v.finish = w.finish /\ v.heard = w.heard
      BY <3>2, <3>3, Zenon DEF ResponsesEncoder
    <3> HIDE DEF v
    <3>5. /\ Len(c) = Len(b) + 1 /\ Len(c) > 0 /\ v.message = Len(c) /\ v.current = Len(c)
          /\ c[Len(c)].kind = "text"
      BY <1>1, <3>2, <3>4 DEF Opened
    <3>6. TextTold(c, T) /\ CallsPlaced(c, A, n, Where(lb, e.calls, n)) /\ e.finish = f
      BY <1>1, <3>2, TextAnnounced, CallsBeforeText DEF ResponsesFits
    <3>7. ResponsesShape(v, c)
      BY <3>2, <3>4, Zenon DEF ResponsesShape
    <3>8. MessageAt(v, c)
      BY <1>1, <3>5 DEF MessageAt
    <3>9. ResponsesFits(v, lb, T, A, n, f)
      BY <3>2, <3>4, <3>6, <3>7, <3>8, Zenon DEF ResponsesFits
    <3>10. v.heard = w.heard
      BY <3>4
    <3> HIDE DEF c
    <3>11. /\ Len(v.heard.blocks) > 0 /\ v.current = Len(v.heard.blocks) /\ v.message = Len(v.heard.blocks)
           /\ v.heard.blocks[Len(v.heard.blocks)].kind = "text"
      BY <3>5, <3>10, Zenon DEF c
    <3> QED BY <3>1, <3>2, <3>9, <3>10, <3>11, Zenon
  <2> QED BY <2>1, <2>2
<1> HIDE DEF o
<1> DEFINE c == o.heard.blocks
<1>3. o \in ResponsesEncoder(lb, n) /\ c \in Seq(StreamBlock) /\ Len(c) \in Nat
  BY <1>2, ResponsesIs DEF ResponsesFits
<1>4. Len(c) \in 1..Len(c) /\ ResponsesShape(o, c) /\ o.message = Len(c)
  BY <1>2, <1>3 DEF ResponsesFits
<1>5. /\ p \in ResponsesEncoder(lb, n) /\ ResponsesShape(p, p.heard.blocks)
      /\ Grown(c, p.heard.blocks, Len(c), piece)
      /\ p.message = o.message /\ p.calls = o.calls /\ p.finish = o.finish
      /\ (o.heard.ok /\ o.current = Len(c) => p.heard.ok)
  <2> DEFINE q == ResponsesSay(o, Len(c), piece)
  <2>1. p = q
    BY <1>4
  <2>2. /\ q \in ResponsesEncoder(lb, n) /\ ResponsesShape(q, q.heard.blocks)
        /\ Grown(c, q.heard.blocks, Len(c), piece)
        /\ q.message = o.message /\ q.calls = o.calls /\ q.finish = o.finish
        /\ (o.heard.ok /\ o.current = Len(c) => q.heard.ok)
    BY <1>3, <1>4, ResponsesSays
  <2> HIDE DEF p, q
  <2> QED BY <2>1, <2>2, Zenon
<1> HIDE DEF p
<1>6. TextTold(p.heard.blocks, T \cup {piece})
  BY <1>2, <1>3, <1>5, TextFilled DEF ResponsesFits
<1>7. CallsPlaced(p.heard.blocks, A, n, Where(lb, o.calls, n))
  BY <1>2, <1>3, <1>4, <1>5, CallsBesideText DEF ResponsesFits
<1>8. o.finish = f /\ MessageAt(o, c)
  BY <1>2 DEF ResponsesFits
<1>9. MessageAt(p, p.heard.blocks)
  <2>1. Len(p.heard.blocks) = Len(c) /\ p.heard.blocks[Len(c)].kind = c[Len(c)].kind
    BY <1>4, <1>5 DEF Grown
  <2> QED BY <1>5, <1>8, <2>1, Zenon DEF MessageAt
<1>10. ResponsesFits(p, lb, T \cup {piece}, A, n, f)
  BY <1>5, <1>6, <1>7, <1>8, <1>9 DEF ResponsesFits
<1> HIDE DEF c
<1>11. e.heard.ok => p.heard.ok
  BY <1>2, <1>5, Zenon DEF c
<1> QED BY <1>0, <1>10, <1>11

(* A call is announced as an item of its own.                               *)
ResponsesWithCall(e, lb, n) ==
  [ResponsesOpen(e, "tool") EXCEPT !.calls = Entered(@, Key(lb, n + 1), Len(e.items) + 1)]

LEMMA ResponsesCalls ==
  ASSUME NEW lb, NEW T, NEW A, NEW B, NEW n \in Nat, NEW f, NEW e, ResponsesFits(e, lb, T, A, n, f),
         NewCall(A, B, n)
  PROVE  LET o == ResponsesWithCall(e, lb, n)
         IN /\ ResponsesFits(o, lb, T, B, n + 1, f)
            /\ o.current = o.calls[Key(lb, n + 1)]
            /\ e.heard.ok => o.heard.ok
<1> DEFINE b == e.heard.blocks
           w == ResponsesOpen(e, "tool")
           c == w.heard.blocks
           i == Len(e.items) + 1
           m == Entered(e.calls, Key(lb, n + 1), i)
           o == ResponsesWithCall(e, lb, n)
           p == [w EXCEPT !.calls = m]
<1>1. /\ e \in ResponsesEncoder(lb, n) /\ b \in Seq(StreamBlock) /\ Len(b) \in Nat
      /\ e.calls \in [Keys(lb, n) -> Nat] /\ MessageAt(e, b)
  BY ResponsesIs DEF ResponsesFits
<1>2. /\ w \in ResponsesEncoder(lb, n)
      /\ w.calls = e.calls /\ w.finish = e.finish /\ w.message = e.message
      /\ Opened(b, c, "tool") /\ ResponsesShape(w, c)
      /\ w.current = i /\ Len(e.items) = Len(b)
      /\ (e.heard.ok => w.heard.ok)
  BY ResponsesOpens
<1>3. o = p
  <2>1. o = [w EXCEPT !.calls = Entered(@, Key(lb, n + 1), i)]
    BY DEF ResponsesWithCall
  <2> HIDE DEF w, o
  <2> QED BY <1>2, <2>1
<1> HIDE DEF w
<1>4. i \in Nat /\ i = Len(b) + 1
  BY <1>1, <1>2
<1> HIDE DEF i
<1>5. /\ m \in [Keys(lb, n + 1) -> Nat] /\ m[Key(lb, n + 1)] = i
      /\ \A k \in 1..n : m[Key(lb, k)] = e.calls[Key(lb, k)]
  BY <1>1, <1>4, EnteredIs
<1> HIDE DEF m, o
<1>6. /\ p \in ResponsesEncoder(lb, n + 1) /\ p.items = w.items /\ p.message = w.message
      /\ p.current = w.current /\ p.calls = m /\ p.finish = w.finish /\ p.heard = w.heard
  BY <1>2, <1>5, Zenon DEF ResponsesEncoder
<1> HIDE DEF p
<1>7. ResponsesShape(p, p.heard.blocks)
  BY <1>2, <1>6, Zenon DEF ResponsesShape
<1>8. TextTold(c, T) /\ e.finish = f
  BY <1>1, <1>2, TextAnnounced DEF ResponsesFits
<1>9. MessageAt(p, c)
  <2>1. Len(c) = Len(b) + 1 /\ c[Len(c)].kind = "tool"
    BY <1>2 DEF Opened
  <2>2. p.message = e.message /\ e.message \in 0..Len(b)
    BY <1>1, <1>2, <1>6 DEF MessageAt
  <2> HIDE DEF c, b
  <2> QED BY <1>1, <2>1, <2>2 DEF MessageAt
<1> DEFINE at == Where(lb, e.calls, n)
           by == Where(lb, m, n + 1)
<1>10. \A k \in 1..n : k \in 1..n + 1 /\ by[k] = at[k] /\ B[k] = A[k]
  BY <1>5, WhereIs DEF NewCall
<1>11. by[n + 1] = Len(b) + 1
  BY <1>4, <1>5, WhereIs
<1>12. CallsPlaced(b, A, n, at)
  BY DEF ResponsesFits
<1> HIDE DEF at, by, c, b
<1>13. CallsPlaced(c, B, n + 1, by)
  BY <1>1, <1>2, <1>10, <1>11, <1>12, CallAnnounced DEF NewCall
<1>14. ResponsesFits(p, lb, T, B, n + 1, f)
  BY <1>2, <1>6, <1>7, <1>8, <1>9, <1>13, Zenon DEF ResponsesFits, by, c
<1>15. p.current = p.calls[Key(lb, n + 1)]
  BY <1>2, <1>5, <1>6
<1> QED BY <1>2, <1>3, <1>6, <1>14, <1>15, Zenon DEF o, w

(* What is said of a call goes into its item.                               *)
ResponsesWithPiece(e, lb, k, piece) == ResponsesSay(e, e.calls[Key(lb, k)], piece)

LEMMA ResponsesAdds ==
  ASSUME NEW lb, NEW T, NEW A, NEW B, NEW n \in Nat, NEW f, NEW e, ResponsesFits(e, lb, T, A, n, f),
         NEW k \in 1..n, NEW piece \in Nat, NewPiece(A, B, n, k, piece)
  PROVE  LET o == ResponsesWithPiece(e, lb, k, piece)
         IN /\ ResponsesFits(o, lb, T, B, n, f)
            /\ o.current = e.current /\ o.calls = e.calls
            /\ e.heard.ok /\ e.current = e.calls[Key(lb, k)] => o.heard.ok
<1> DEFINE b == e.heard.blocks
           i == e.calls[Key(lb, k)]
           at == Where(lb, e.calls, n)
           o == ResponsesSay(e, i, piece)
<1>1. /\ e \in ResponsesEncoder(lb, n) /\ b \in Seq(StreamBlock) /\ Len(b) \in Nat
      /\ ResponsesShape(e, b) /\ MessageAt(e, b) /\ TextTold(b, T) /\ CallsPlaced(b, A, n, at) /\ e.finish = f
  BY ResponsesIs DEF ResponsesFits
<1>2. at[k] = i
  BY WhereIs
<1>3. i \in 1..Len(b) /\ b[i].kind = "tool"
  BY <1>1, <1>2 DEF CallsPlaced
<1> HIDE DEF i, at
<1>4. /\ o \in ResponsesEncoder(lb, n) /\ ResponsesShape(o, o.heard.blocks)
      /\ Grown(b, o.heard.blocks, i, piece)
      /\ o.message = e.message /\ o.current = e.current /\ o.calls = e.calls /\ o.finish = e.finish
      /\ (e.heard.ok /\ e.current = i => o.heard.ok)
  BY <1>1, <1>3, ResponsesSays
<1> HIDE DEF o, b
<1>5. TextTold(o.heard.blocks, T)
  BY <1>1, <1>3, <1>4, TextUntouched
<1>6. Grown(b, o.heard.blocks, at[k], piece)
  BY <1>2, <1>4
<1>7. CallsPlaced(o.heard.blocks, B, n, at)
  BY <1>1, <1>6, CallFilled DEF NewPiece
<1>8. MessageAt(o, o.heard.blocks)
  <2>1. /\ Len(o.heard.blocks) = Len(b)
        /\ \A j \in 1..Len(b) : o.heard.blocks[j].kind = b[j].kind
    BY <1>4 DEF Grown
  <2>2. Len(b) > 0 => Len(b) \in 1..Len(b)
    BY <1>1
  <2> QED BY <1>1, <1>4, <2>1, <2>2, Zenon DEF MessageAt
<1>9. ResponsesFits(o, lb, T, B, n, f)
  BY <1>1, <1>4, <1>5, <1>7, <1>8, Zenon DEF ResponsesFits, at
<1> QED BY <1>4, <1>9 DEF ResponsesWithPiece, o, i

-----------------------------------------------------------------------------
ResponsesHolds(e, lb, T, A, n, f, tidy, last) ==
  /\ ResponsesFits(e, lb, T, A, n, f)
  /\ tidy => e.heard.ok /\ (last # 0 => e.current = e.calls[Key(lb, last)])

(* Each delta leaves an encoder that fits what was said.                    *)
LEMMA ResponsesOnText ==
  ASSUME NEW lb, NEW T, NEW A, NEW n \in Nat, NEW f, NEW tidy, NEW last, NEW e,
         ResponsesHolds(e, lb, T, A, n, f, tidy, last), NEW piece \in Nat, piece # None, Before(T, piece)
  PROVE  ResponsesHolds(ResponsesDelta(e, TextDelta(piece)), lb, T \cup {piece}, A, n, f, tidy, 0)
<1> DEFINE o == ResponsesText(e, piece)
<1>1. ResponsesDelta(e, TextDelta(piece)) = o
  BY DEF ResponsesDelta, TextDelta
<1>2. ResponsesFits(o, lb, T \cup {piece}, A, n, f) /\ (e.heard.ok => o.heard.ok)
  BY ResponsesTells DEF ResponsesHolds
<1> HIDE DEF o
<1> QED BY <1>1, <1>2, Zenon DEF ResponsesHolds

LEMMA ResponsesOnCall ==
  ASSUME NEW lb \in Labels, NEW T, NEW A, NEW B, NEW n \in Nat, NEW f, NEW tidy, NEW last, NEW e,
         ResponsesHolds(e, lb, T, A, n, f, tidy, last), NEW bit, Marks(lb, bit, n + 1),
         bit.args \in Nat, \A k \in 1..n : B[k] = A[k],
         B[n + 1] = IF bit.args = None THEN {} ELSE {bit.args}
  PROVE  ResponsesHolds(ResponsesDelta(e, CallDelta(bit)), lb, T, B, n + 1, f, tidy, n + 1)
<1> DEFINE d == ResponsesCall(e, bit)
           key == Key(lb, n + 1)
           o == ResponsesWithCall(e, lb, n)
           C == [k \in 1..n + 1 |-> IF k = n + 1 THEN {} ELSE A[k]]
<1>1. ResponsesDelta(e, CallDelta(bit)) = d
  BY DEF ResponsesDelta, CallDelta
<1>2. ResponsesFits(e, lb, T, A, n, f)
  BY DEF ResponsesHolds
<1>3. /\ ResponsesFits(o, lb, T, C, n + 1, f) /\ o.current = o.calls[key]
      /\ (e.heard.ok => o.heard.ok)
  <2>1. n + 1 \in 1..n + 1 /\ \A k \in 1..n : k \in 1..n + 1 /\ k # n + 1
    OBVIOUS
  <2>2. NewCall(A, C, n)
    BY <2>1 DEF NewCall
  <2> HIDE DEF C
  <2> QED BY <1>2, <2>2, ResponsesCalls
<1>4. d = IF bit.args = None THEN o ELSE ResponsesSay(o, o.calls[key], bit.args)
  <2>1. DOMAIN e.calls = Keys(lb, n)
    BY <1>2, ResponsesIs DEF ResponsesFits
  <2>2. KeyOf(bit, DOMAIN e.calls) = key
    BY <2>1, KeyIs
  <2>3. key \notin DOMAIN e.calls
    BY <2>1, KeysGrow
  <2> DEFINE w == KeyOf(bit, DOMAIN e.calls)
             v == [ResponsesOpen(e, "tool") EXCEPT !.calls = Entered(@, w, Len(e.items) + 1)]
             u == IF w \in DOMAIN e.calls THEN e ELSE v
  <2>4. o = v
    BY <2>2 DEF ResponsesWithCall
  <2>5. d = IF bit.args = None THEN u ELSE ResponsesSay(u, u.calls[w], bit.args)
    BY DEF ResponsesCall
  <2>6. u = o
    BY <2>2, <2>3, <2>4
  <2> HIDE DEF w, u, o, key
  <2> QED BY <2>2, <2>5, <2>6 DEF w
<1> HIDE DEF o, d
<1>5. CASE bit.args = None
  <2>1. d = o /\ ResponsesFits(o, lb, T, B, n + 1, f)
    <3>1. \A k \in 1..n + 1 : C[k] = B[k]
      BY <1>5
    <3>2. CallsPlaced(o.heard.blocks, B, n + 1, Where(lb, o.calls, n + 1))
      BY <1>3, <3>1 DEF ResponsesFits, CallsPlaced
    <3> QED BY <1>3, <1>4, <1>5, <3>2 DEF ResponsesFits
  <2> QED BY <1>1, <1>3, <2>1, Zenon DEF ResponsesHolds
<1>6. CASE bit.args # None
  <2> DEFINE p == ResponsesWithPiece(o, lb, n + 1, bit.args)
  <2>1. d = p
    BY <1>4, <1>6 DEF ResponsesWithPiece
  <2>2. /\ ResponsesFits(p, lb, T, B, n + 1, f) /\ p.current = o.current /\ p.calls = o.calls
        /\ (o.heard.ok /\ o.current = o.calls[key] => p.heard.ok)
    <3>1. n + 1 \in 1..n + 1 /\ n + 1 \in Nat
      OBVIOUS
    <3>2. NewPiece(C, B, n + 1, n + 1, bit.args)
      BY <1>6 DEF NewPiece, Before
    <3>3. ResponsesFits(o, lb, T, C, n + 1, f)
      BY <1>3
    <3> HIDE DEF C
    <3>4. \A k \in 1..n + 1, x \in Nat : NewPiece(C, B, n + 1, k, x) =>
            LET q == ResponsesWithPiece(o, lb, k, x)
            IN /\ ResponsesFits(q, lb, T, B, n + 1, f)
               /\ q.current = o.current /\ q.calls = o.calls
               /\ (o.heard.ok /\ o.current = o.calls[Key(lb, k)] => q.heard.ok)
      BY <3>1, <3>3, ResponsesAdds
    <3> QED BY <3>1, <3>2, <3>4
  <2> HIDE DEF p
  <2> QED BY <1>1, <1>3, <2>1, <2>2, Zenon DEF ResponsesHolds
<1> QED BY <1>5, <1>6

LEMMA ResponsesOnArgs ==
  ASSUME NEW lb \in Labels, NEW T, NEW A, NEW B, NEW n \in Nat, NEW f, NEW tidy, NEW last, NEW e,
         ResponsesHolds(e, lb, T, A, n, f, tidy, last), NEW c \in 1..n, NEW bit, Marks(lb, bit, c),
         lb # "none", bit.args \in Nat, bit.args # None, NewPiece(A, B, n, c, bit.args),
         NEW tidier, tidier => tidy /\ last = c
  PROVE  ResponsesHolds(ResponsesDelta(e, CallDelta(bit)), lb, T, B, n, f, tidier, c)
<1> DEFINE d == ResponsesCall(e, bit)
           key == Key(lb, c)
           p == ResponsesWithPiece(e, lb, c, bit.args)
<1>1. ResponsesDelta(e, CallDelta(bit)) = d
  BY DEF ResponsesDelta, CallDelta
<1>2. ResponsesFits(e, lb, T, A, n, f)
  BY DEF ResponsesHolds
<1>3. d = p
  <2>1. DOMAIN e.calls = Keys(lb, n)
    BY <1>2, ResponsesIs DEF ResponsesFits
  <2>2. KeyOf(bit, DOMAIN e.calls) = key
    BY <2>1, KeyIs
  <2>3. key \in DOMAIN e.calls
    BY <2>1 DEF Keys
  <2>4. p = ResponsesSay(e, e.calls[key], bit.args)
    BY DEF ResponsesWithPiece
  <2> HIDE DEF key, p
  <2> QED BY <2>2, <2>3, <2>4, Zenon DEF ResponsesCall
<1>4. /\ ResponsesFits(p, lb, T, B, n, f) /\ p.current = e.current /\ p.calls = e.calls
      /\ (e.heard.ok /\ e.current = e.calls[key] => p.heard.ok)
  BY <1>2, ResponsesAdds
<1> HIDE DEF p, d
<1>5. c # 0
  OBVIOUS
<1> QED BY <1>1, <1>3, <1>4, <1>5, Zenon DEF ResponsesHolds, key

LEMMA ResponsesOnFinish ==
  ASSUME NEW lb, NEW T, NEW A, NEW n \in Nat, NEW f, NEW tidy, NEW last, NEW e,
         ResponsesHolds(e, lb, T, A, n, f, tidy, last), NEW g \in Ends, g # "none"
  PROVE  ResponsesHolds(ResponsesDelta(e, FinishDelta(g)), lb, T, A, n, g, tidy, last)
<1> DEFINE o == [e EXCEPT !.finish = g]
<1>1. ResponsesDelta(e, FinishDelta(g)) = o
  BY DEF ResponsesDelta, FinishDelta, None
<1>2. e \in ResponsesEncoder(lb, n) /\ ResponsesFits(e, lb, T, A, n, f)
  BY DEF ResponsesHolds, ResponsesFits
<1>3. /\ o \in ResponsesEncoder(lb, n) /\ o.items = e.items /\ o.message = e.message
      /\ o.current = e.current /\ o.calls = e.calls /\ o.finish = g /\ o.heard = e.heard
  BY <1>2, Zenon DEF ResponsesEncoder
<1> HIDE DEF o
<1>4. ResponsesShape(o, o.heard.blocks) /\ MessageAt(o, o.heard.blocks)
  BY <1>2, <1>3, Zenon DEF ResponsesShape, MessageAt, ResponsesFits
<1>5. ResponsesFits(o, lb, T, A, n, g)
  BY <1>2, <1>3, <1>4, Zenon DEF ResponsesFits
<1> QED BY <1>1, <1>3, <1>5, Zenon DEF ResponsesHolds

(* The end of a stream: nothing is open any more, and the client is told so. *)
LEMMA ReasonedIs ==
  ASSUME NEW h \in Client, NEW stop \in Ends
  PROVE  LET g == Reasoned(h, stop)
         IN /\ g \in Client /\ g.blocks = h.blocks /\ g.open = h.open /\ g.finish = stop
            /\ g.begun = h.begun /\ g.over = h.over
            /\ h.ok /\ ~h.over /\ h.begun /\ h.open = None => g.ok
<1> DEFINE m == Must(h, h.begun /\ h.open = None)
           g == [m EXCEPT !.finish = stop]
<1>1. /\ m \in Client /\ m.blocks = h.blocks /\ m.open = h.open /\ m.begun = h.begun
      /\ m.over = h.over /\ (h.ok /\ (h.begun /\ h.open = None) /\ ~h.over => m.ok)
  BY MustIs
<1>2. Reasoned(h, stop) = g
  BY DEF Reasoned
<1> HIDE DEF m
<1>3. /\ g \in Client /\ g.blocks = m.blocks /\ g.open = m.open /\ g.finish = stop
      /\ g.begun = m.begun /\ g.over = m.over /\ g.ok = m.ok
  BY <1>1, Zenon DEF Client
<1> HIDE DEF g
<1> QED BY <1>1, <1>2, <1>3, Zenon

LEMMA OverIs ==
  ASSUME NEW h \in Client
  PROVE  LET g == Over(h)
         IN /\ g.blocks = h.blocks /\ g.open = h.open /\ g.finish = h.finish /\ g.over
            /\ h.ok /\ ~h.over /\ h.finish # "none" => g.ok
<1> DEFINE m == Must(h, h.finish # "none")
           g == [m EXCEPT !.over = TRUE]
<1>1. /\ m \in Client /\ m.blocks = h.blocks /\ m.open = h.open /\ m.finish = h.finish
      /\ (h.ok /\ h.finish # "none" /\ ~h.over => m.ok)
  BY MustIs
<1>2. Over(h) = g
  BY DEF Over
<1> HIDE DEF m
<1>3. /\ g.blocks = m.blocks /\ g.open = m.open /\ g.finish = m.finish /\ g.over /\ g.ok = m.ok
  BY <1>1, Zenon DEF Client
<1> HIDE DEF g
<1> QED BY <1>1, <1>2, <1>3, Zenon

LEMMA CompletedIs ==
  ASSUME NEW h \in Client, NEW finish, NEW items
  PROVE  LET g == Completed(h, finish, items)
         IN /\ g.blocks = h.blocks /\ g.open = h.open /\ g.finish = finish /\ g.over
            /\ h.ok /\ ~h.over /\ h.open = None /\ items = [i \in DOMAIN h.blocks |-> h.blocks[i].holds]
                 => g.ok
<1> DEFINE allowed == h.open = None /\ items = [i \in DOMAIN h.blocks |-> h.blocks[i].holds]
           m == Must(h, allowed)
           g == [m EXCEPT !.finish = finish, !.over = TRUE]
<1>1. allowed \in BOOLEAN
  OBVIOUS
<1>2. Completed(h, finish, items) = g
  BY DEF Completed
<1>3. /\ m \in Client /\ m.blocks = h.blocks /\ m.open = h.open
      /\ (h.ok /\ allowed /\ ~h.over => m.ok)
  <2> HIDE DEF allowed
  <2> QED BY <1>1, MustIs
<1> HIDE DEF m
<1>4. /\ g.blocks = m.blocks /\ g.open = m.open /\ g.finish = finish /\ g.over /\ g.ok = m.ok
  BY <1>3, Zenon DEF Client
<1> HIDE DEF g
<1> QED BY <1>2, <1>3, <1>4, Zenon

LEMMA AnthropicEnds ==
  ASSUME NEW lb, NEW T, NEW A, NEW n \in Nat, NEW f, NEW e, AnthropicFits(e, lb, T, A, n, f),
         NEW stop \in Ends, stop = e.stop, stop # "none"
  PROVE  LET h == AnthropicEnd(e).heard
         IN /\ h.blocks = e.heard.blocks /\ h.open = None /\ h.over /\ h.finish = stop
            /\ e.heard.ok => h.ok
<1> DEFINE s == AnthropicStart(e)
           k == AnthropicClose(s)
           r == Reasoned(k.heard, stop)
           h == Over(r)
           o == [k EXCEPT !.heard = h]
<1>1. AnthropicEnd(e) = o
  BY DEF AnthropicEnd
<1>2. AnthropicFits(s, lb, T, A, n, f) /\ s.started /\ (e.heard.ok => s.heard.ok)
  BY AnthropicStarts
<1>3. s.heard.blocks = e.heard.blocks
  <2>1. CASE e.started
    BY <2>1 DEF AnthropicStart
  <2>2. CASE ~e.started
    <3>1. e \in AnthropicEncoder(lb, n) /\ e.heard \in Client
      BY AnthropicIs DEF AnthropicFits
    <3>2. Begun(e.heard).blocks = e.heard.blocks
      BY <3>1, BegunIs
    <3>3. s = [e EXCEPT !.started = TRUE, !.heard = Begun(@)]
      BY <2>2, Zenon DEF AnthropicStart
    <3> HIDE DEF s
    <3> QED BY <3>1, <3>2, <3>3, Zenon DEF AnthropicEncoder
  <2> QED BY <2>1, <2>2
<1> HIDE DEF s
<1>4. s \in AnthropicEncoder(lb, n) /\ AnthropicShape(s, s.heard.blocks)
  BY <1>2 DEF AnthropicFits
<1>5. /\ k \in AnthropicEncoder(lb, n) /\ k.heard \in Client /\ k.heard.blocks = s.heard.blocks
      /\ k.heard.open = None /\ k.heard.begun /\ ~k.heard.over /\ (s.heard.ok => k.heard.ok)
  BY <1>2, <1>4, AnthropicCloses
<1> HIDE DEF k
<1>6. /\ r \in Client /\ r.blocks = k.heard.blocks /\ r.open = k.heard.open /\ r.finish = stop
      /\ r.over = k.heard.over
      /\ (k.heard.ok /\ ~k.heard.over /\ k.heard.begun /\ k.heard.open = None => r.ok)
  BY <1>5, ReasonedIs
<1> HIDE DEF r
<1>7. /\ h.blocks = r.blocks /\ h.open = r.open /\ h.finish = r.finish /\ h.over
      /\ (r.ok /\ ~r.over /\ r.finish # "none" => h.ok)
  BY <1>6, OverIs
<1> HIDE DEF h
<1>8. o.heard = h
  BY <1>5, Zenon DEF AnthropicEncoder
<1> HIDE DEF o
<1> QED BY <1>1, <1>2, <1>3, <1>5, <1>6, <1>7, <1>8, Zenon

(* What ResponsesEnd closes, item by item: its function exists, and only    *)
(* the last item was open.                                                  *)
Closings(e, f) ==
  f = [i \in 0..Len(e.items) |-> IF i = 0 THEN e ELSE ResponsesClose(f[i - 1], i)]

(* The function of toResponsesStream's end: each item closed in its turn.   *)
LEMMA ClosingsExist ==
  ASSUME NEW lb, NEW n \in Nat, NEW e \in ResponsesEncoder(lb, n), ResponsesShape(e, e.heard.blocks)
  PROVE  \E f : Closings(e, f)
<1> DEFINE last == Len(e.items)
           k == ResponsesClose(e, last)
           f == [i \in 0..last |-> IF i = last /\ i # 0 THEN k ELSE e]
           next(i) == IF i = 0 THEN e ELSE ResponsesClose(f[i - 1], i)
<1>1. last \in Nat /\ \A i \in 1..last : e.items[i].closed <=> i < last
  BY ResponsesIs DEF ResponsesShape, Mirrors
<1>2. ASSUME NEW i \in 0..last PROVE f[i] = next(i)
  <2> HIDE DEF k
  <2>1. CASE i = 0
    BY <1>1, <2>1
  <2>2. CASE i # 0
    <3>1. i - 1 \in 0..last /\ i - 1 # last /\ i \in 1..last
      BY <1>1, <2>2
    <3>2. f[i - 1] = e
      BY <3>1
    <3>3. next(i) = ResponsesClose(e, i)
      BY <2>2, <3>2
    <3>4. CASE i = last
      BY <2>2, <3>3, <3>4 DEF k
    <3>5. CASE i # last
      <4>1. i < last /\ e.items[i].closed
        BY <1>1, <3>1, <3>5
      <4>2. ResponsesClose(e, i) = e
        BY <2>2, <4>1 DEF ResponsesClose, None
      <4> QED BY <2>2, <3>3, <3>5, <4>2
    <3> QED BY <3>4, <3>5
  <2> QED BY <2>1, <2>2
<1>3. f = [i \in 0..last |-> next(i)]
  <2> HIDE DEF next
  <2> QED BY <1>2
<1>4. Closings(e, f)
  BY <1>3 DEF Closings
<1> QED BY <1>4

(* All items but the open one are closed, so the last step is the only one. *)
LEMMA ClosingsAre ==
  ASSUME NEW lb, NEW n \in Nat, NEW e \in ResponsesEncoder(lb, n), ResponsesShape(e, e.heard.blocks),
         NEW f, Closings(e, f)
  PROVE  f[Len(e.items)] = ResponsesClose(e, e.current)
<1> DEFINE last == Len(e.items)
           T == {i \in Nat : i < last /\ f[i] # e}
<1>1. last \in Nat /\ e.current = last /\ \A i \in 1..last : e.items[i].closed <=> i < last
  BY ResponsesIs DEF ResponsesShape, Mirrors
<1>2. \A i \in 0..last : f[i] = IF i = 0 THEN e ELSE ResponsesClose(f[i - 1], i)
  BY DEF Closings
<1>3. \A i \in Nat : i < last => f[i] = e
  <2> SUFFICES ASSUME T # {} PROVE FALSE
    OBVIOUS
  <2>1. PICK i \in T : \A m \in T : i <= m
    <3>1. T \subseteq Nat
      OBVIOUS
    <3> HIDE DEF T
    <3> QED BY <3>1, LeastNumber
  <2>2. i \in 0..last /\ i < last /\ f[i] # e /\ i # 0
    BY <1>1, <1>2, <2>1
  <2>3. i - 1 \in Nat /\ i - 1 < last /\ i - 1 \notin T /\ i \in 1..last
    BY <1>1, <2>1, <2>2
  <2>4. f[i - 1] = e
    BY <2>3
  <2>5. f[i] = ResponsesClose(e, i)
    BY <1>2, <2>2, <2>4
  <2>6. ResponsesClose(e, i) = e
    BY <1>1, <2>2, <2>3 DEF ResponsesClose, None
  <2> QED BY <2>2, <2>5, <2>6
<1>4. CASE last = 0
  <2>1. f[0] = e
    BY <1>1, <1>2
  <2>2. ResponsesClose(e, 0) = e
    BY DEF ResponsesClose, None
  <2> QED BY <1>1, <1>4, <2>1, <2>2
<1>5. CASE last # 0
  <2>1. last \in 0..last /\ last - 1 \in Nat /\ last - 1 < last
    BY <1>1, <1>5
  <2>2. f[last] = ResponsesClose(f[last - 1], last)
    BY <1>2, <1>5, <2>1
  <2> QED BY <1>1, <1>3, <2>1, <2>2
<1> QED BY <1>4, <1>5

closings(e) == CHOOSE f : Closings(e, f)

LEMMA ResponsesEnds ==
  ASSUME NEW lb, NEW T, NEW A, NEW n \in Nat, NEW f, NEW e, ResponsesFits(e, lb, T, A, n, f)
  PROVE  LET h == ResponsesEnd(e).heard
         IN /\ h.blocks = e.heard.blocks /\ h.open = None /\ h.over
            /\ h.finish = IF f = "length" THEN "incomplete" ELSE "completed"
            /\ e.heard.ok => h.ok
<1> DEFINE b == e.heard.blocks
           k == ResponsesClose(e, e.current)
           finish == IF e.finish = "length" THEN "incomplete" ELSE "completed"
           items == [i \in DOMAIN e.items |-> e.items[i].holds]
           h == Completed(k.heard, finish, items)
           o == [k EXCEPT !.heard = h]
<1>1. /\ e \in ResponsesEncoder(lb, n) /\ ResponsesShape(e, b) /\ e.finish = f
      /\ b \in Seq(StreamBlock) /\ Len(b) \in Nat /\ DOMAIN b = 1..Len(b)
  BY ResponsesIs DEF ResponsesFits
<1>2. closings(e)[Len(e.items)] = k
  <2>1. Closings(e, closings(e))
    BY <1>1, ClosingsExist, Zenon DEF closings
  <2> QED BY <1>1, <2>1, ClosingsAre
<1>3. ResponsesEnd(e) = o
  <2>1. ResponsesEnd(e) = [closings(e)[Len(e.items)] EXCEPT !.heard = Completed(@, finish, items)]
    BY DEF ResponsesEnd, closings, Closings
  <2> HIDE DEF k, items, finish
  <2> QED BY <1>2, <2>1
<1>4. /\ k \in ResponsesEncoder(lb, n) /\ k.heard.blocks = b /\ k.heard.open = None
      /\ ~k.heard.over /\ (e.heard.ok => k.heard.ok)
  BY <1>1, ResponsesCloses
<1> HIDE DEF k
<1>5. items = [i \in DOMAIN b |-> b[i].holds]
  <2>1. DOMAIN e.items = DOMAIN b
    BY <1>1, ElementsOf, ResponsesIs DEF ResponsesShape, Mirrors
  <2>2. \A i \in DOMAIN b : e.items[i].holds = b[i].holds
    BY <1>1 DEF ResponsesShape, Mirrors
  <2> QED BY <2>1, <2>2
<1> HIDE DEF items, b
<1>6. k.heard \in Client /\ items = [i \in DOMAIN k.heard.blocks |-> k.heard.blocks[i].holds]
  BY <1>4, <1>5, ResponsesIs
<1>7. /\ h.blocks = k.heard.blocks /\ h.open = k.heard.open /\ h.finish = finish /\ h.over
      /\ (k.heard.ok /\ ~k.heard.over /\ k.heard.open = None
            /\ items = [i \in DOMAIN k.heard.blocks |-> k.heard.blocks[i].holds] => h.ok)
  <2> HIDE DEF finish
  <2> QED BY <1>6, CompletedIs
<1> HIDE DEF h
<1>8. o.heard = h
  BY <1>4, Zenon DEF ResponsesEncoder
<1> HIDE DEF o
<1>9. h.finish = IF f = "length" THEN "incomplete" ELSE "completed"
  BY <1>1, <1>7
<1>10. h.blocks = b /\ h.open = None /\ h.over /\ (e.heard.ok => h.ok)
  BY <1>4, <1>6, <1>7, Zenon
<1> QED BY <1>3, <1>8, <1>9, <1>10, Zenon DEF b

-----------------------------------------------------------------------------
(* What two sequences are together.                                         *)
LEMMA JoinedIs ==
  ASSUME NEW S, NEW s \in Seq(S), NEW t \in Seq(S)
  PROVE  /\ s \o t \in Seq(S) /\ Len(s \o t) = Len(s) + Len(t)
         /\ DOMAIN (s \o t) = 1..Len(s) + Len(t)
         /\ \A i \in 1..Len(s) : (s \o t)[i] = s[i]
         /\ \A i \in 1..Len(t) : (s \o t)[Len(s) + i] = t[i]
<1> DEFINE u == s \o t
<1>1. Len(s) \in Nat /\ Len(t) \in Nat
  OBVIOUS
<1>2. /\ u \in Seq(S) /\ Len(u) = Len(s) + Len(t)
      /\ \A i \in 1..Len(s) + Len(t) : u[i] = IF i <= Len(s) THEN s[i] ELSE t[i - Len(s)]
  BY ConcatProperties
<1> HIDE DEF u
<1>3. DOMAIN u = 1..Len(s) + Len(t)
  BY <1>2, ElementsOf
<1>4. \A i \in 1..Len(s) : i \in 1..Len(s) + Len(t) /\ i <= Len(s)
  BY <1>1
<1>5. \A i \in 1..Len(t) : /\ Len(s) + i \in 1..Len(s) + Len(t) /\ ~(Len(s) + i <= Len(s))
                           /\ (Len(s) + i) - Len(s) = i
  BY <1>1
<1>6. \A i \in 1..Len(t) : u[Len(s) + i] = t[i]
  <2> SUFFICES ASSUME NEW i \in 1..Len(t) PROVE u[Len(s) + i] = t[i]
    OBVIOUS
  <2> DEFINE j == Len(s) + i
  <2>1. j \in 1..Len(s) + Len(t) /\ ~(j <= Len(s)) /\ j - Len(s) = i
    BY <1>5
  <2> HIDE DEF j
  <2>2. u[j] = t[j - Len(s)]
    BY <1>2, <2>1
  <2> QED BY <2>1, <2>2 DEF j
<1> QED BY <1>2, <1>3, <1>4, <1>6 DEF u

(* The reply in one piece: its text, if it has any, in front of its calls.  *)
ReplyShape(rb, T, A, n, k) ==
  /\ k \in {0, 1} /\ (k = 0 <=> T = {})
  /\ DOMAIN rb = 1..n + k
  /\ k = 1 => rb[1] = [kind |-> "text", holds |-> T]
  /\ \A i \in 1 + k..n + k : rb[i] = [kind |-> "tool", holds |-> A[i - k]]

LEMMA ReplyIs ==
  ASSUME NEW T \in SUBSET Nat, NEW n \in Nat, NEW A \in [1..n -> SUBSET Nat], NEW r,
         r.text = T, r.calls = A
  PROVE  \E k \in {0, 1} : ReplyShape(ReplyBlocks(r), T, A, n, k)
<1> DEFINE R == [kind : {"text", "tool"}, holds : SUBSET Nat]
           front == IF T = {} THEN <<>> ELSE <<[kind |-> "text", holds |-> T]>>
           back == [i \in 1..n |-> [kind |-> "tool", holds |-> A[i]]]
           k == IF T = {} THEN 0 ELSE 1
<1>1. /\ front \in Seq(R) /\ Len(front) = k /\ k \in {0, 1} /\ (k = 0 <=> T = {})
      /\ (k = 1 => front[1] = [kind |-> "text", holds |-> T])
  <2> DEFINE x == [kind |-> "text", holds |-> T]
  <2>1. x \in R
    OBVIOUS
  <2> HIDE DEF x, R
  <2>2. /\ <<x>> \in Seq(R) /\ Len(<<x>>) = 1 /\ <<x>>[1] = x
        /\ <<>> \in Seq(R) /\ Len(<<>>) = 0
    BY <2>1
  <2>3. CASE T = {}
    BY <2>2, <2>3
  <2>4. CASE T # {}
    BY <2>2, <2>4 DEF x
  <2> QED BY <2>3, <2>4
<1>2. /\ back \in [1..n -> R]
      /\ \A i \in 1..n : back[i] = [kind |-> "tool", holds |-> A[i]]
  OBVIOUS
<1>3. back \in Seq(R) /\ Len(back) = n
  BY <1>2, ListOf
<1>4. ReplyBlocks(r) = front \o back
  BY DEF ReplyBlocks
<1> HIDE DEF front, back, R, k
<1>5. /\ Len(front \o back) = Len(front) + Len(back)
      /\ \A i \in 1..Len(front) : (front \o back)[i] = front[i]
      /\ \A i \in 1..Len(back) : (front \o back)[Len(front) + i] = back[i]
      /\ DOMAIN (front \o back) = 1..Len(front) + Len(back)
  <2>1. front \in Seq(R) /\ back \in Seq(R)
    BY <1>1, <1>3
  <2> QED BY <2>1, JoinedIs
<1>6. ReplyShape(front \o back, T, A, n, k)
  <2>1. DOMAIN (front \o back) = 1..n + k
    BY <1>1, <1>3, <1>5
  <2>2. k = 1 => (front \o back)[1] = [kind |-> "text", holds |-> T]
    BY <1>1, <1>5
  <2>3. ASSUME NEW i \in 1 + k..n + k
        PROVE  (front \o back)[i] = [kind |-> "tool", holds |-> A[i - k]]
    <3> DEFINE j == i - k
    <3>1. j \in 1..n /\ i = k + j
      BY <1>1
    <3> HIDE DEF j
    <3>2. (front \o back)[k + j] = back[j]
      BY <1>1, <1>3, <1>5, <3>1
    <3> QED BY <1>2, <3>1, <3>2 DEF j
  <2> QED BY <1>1, <2>1, <2>2, <2>3 DEF ReplyShape
<1> QED BY <1>1, <1>4, <1>6

(* The blocks a client has are the reply.                                   *)
LEMMA ReplyTold ==
  ASSUME NEW T, NEW n \in Nat, NEW A, NEW rb, NEW k, ReplyShape(rb, T, A, n, k),
         NEW b \in Seq(StreamBlock), TextTold(b, T)
  PROVE  TextTold(b, TextIn(rb))
<1>1. \A i \in 1..n + k : (i = 1 /\ k = 1) \/ i \in 1 + k..n + k
  <2>1. k \in {0, 1}
    BY DEF ReplyShape
  <2> QED BY <2>1
<1>2. \A i \in DOMAIN rb : rb[i].kind = "text" => i = 1 /\ k = 1
  <2> SUFFICES ASSUME NEW i \in 1..n + k, ~(i = 1 /\ k = 1) PROVE rb[i].kind # "text"
    BY DEF ReplyShape
  <2>1. rb[i] = [kind |-> "tool", holds |-> A[i - k]]
    BY <1>1 DEF ReplyShape
  <2> QED BY <2>1
<1>3. CASE k = 1
  <2>1. 1 \in DOMAIN rb /\ rb[1].kind = "text" /\ rb[1].holds = T
    BY <1>3 DEF ReplyShape
  <2>2. Those(rb, "text") = {1}
    BY <1>2, <2>1 DEF Those
  <2>3. TextIn(rb) = T
    BY <2>1, <2>2 DEF TextIn
  <2> QED BY <2>3
<1>4. CASE k = 0
  <2>1. Those(rb, "text") = {} /\ T = {}
    BY <1>2, <1>4 DEF Those, ReplyShape
  <2>2. TextIn(rb) = {}
    BY <2>1 DEF TextIn
  <2> QED BY <2>1, <2>2
<1> QED BY <1>3, <1>4 DEF ReplyShape

(* Calls in their places are the calls of the reply in one piece.           *)
LEMMA CallsAreTold ==
  ASSUME NEW T, NEW n \in Nat, NEW A, NEW rb, NEW k, ReplyShape(rb, T, A, n, k),
         NEW b \in Seq(StreamBlock), NEW at, CallsPlaced(b, A, n, at)
  PROVE  CallsTold(b, rb)
<1> DEFINE S == Those(rb, "tool")
           w == [i \in S |-> at[i - k]]
<1>1. k \in {0, 1}
  BY DEF ReplyShape
<1>2. \A i \in S : i \in Int /\ i - k \in 1..n /\ rb[i].holds = A[i - k]
  <2> SUFFICES ASSUME NEW i \in S PROVE i \in Int /\ i - k \in 1..n /\ rb[i].holds = A[i - k]
    OBVIOUS
  <2>1. i \in 1..n + k /\ rb[i].kind = "tool"
    BY DEF Those, ReplyShape
  <2>2. ~(i = 1 /\ k = 1)
    BY <2>1 DEF ReplyShape
  <2>3. i - k \in 1..n /\ i \in 1 + k..n + k
    BY <1>1, <2>1, <2>2
  <2>4. rb[i] = [kind |-> "tool", holds |-> A[i - k]]
    BY <2>3 DEF ReplyShape
  <2> QED BY <2>1, <2>3, <2>4
<1>3. \A c \in 1..n : c + k \in S /\ (c + k) - k = c
  <2> SUFFICES ASSUME NEW c \in 1..n PROVE c + k \in S /\ (c + k) - k = c
    OBVIOUS
  <2> DEFINE i == c + k
  <2>1. i \in 1..n + k /\ i \in 1 + k..n + k /\ i - k = c
    BY <1>1
  <2> HIDE DEF i
  <2>2. rb[i] = [kind |-> "tool", holds |-> A[i - k]] /\ DOMAIN rb = 1..n + k
    BY <2>1 DEF ReplyShape
  <2>3. i \in S
    BY <2>1, <2>2 DEF Those
  <2> QED BY <2>1, <2>3 DEF i
<1> HIDE DEF S
<1>4. \A i \in S : w[i] = at[i - k] /\ w[i] \in Those(b, "tool")
  <2> SUFFICES ASSUME NEW i \in S PROVE w[i] \in Those(b, "tool")
    OBVIOUS
  <2>1. w[i] = at[i - k] /\ i - k \in 1..n
    BY <1>2
  <2>2. w[i] \in 1..Len(b) /\ b[w[i]].kind = "tool"
    <3> HIDE DEF w
    <3>1. at[i - k] \in 1..Len(b)
      BY <2>1 DEF CallsPlaced
    <3>2. \E c \in 1..n : at[c] = at[i - k]
      BY <2>1
    <3>3. b[at[i - k]].kind = "tool"
      BY <3>1, <3>2, Zenon DEF CallsPlaced
    <3> QED BY <2>1, <3>1, <3>3
  <2>3. DOMAIN b = 1..Len(b)
    BY ElementsOf
  <2> QED BY <2>2, <2>3 DEF Those
<1>5. w \in [S -> Those(b, "tool")]
  BY <1>4
<1> HIDE DEF w
<1>6. \A i, j \in S : i < j => w[i] < w[j]
  <2> SUFFICES ASSUME NEW i \in S, NEW j \in S, i < j PROVE w[i] < w[j]
    OBVIOUS
  <2>1. i - k \in 1..n /\ j - k \in 1..n /\ i - k < j - k
    BY <1>1, <1>2
  <2>2. at[i - k] < at[j - k]
    BY <2>1 DEF CallsPlaced
  <2> QED BY <1>4, <2>2
<1>7. \A m \in Those(b, "tool") : \E i \in S : w[i] = m
  <2> SUFFICES ASSUME NEW m \in Those(b, "tool") PROVE \E i \in S : w[i] = m
    OBVIOUS
  <2>1. m \in 1..Len(b) /\ b[m].kind = "tool"
    BY ElementsOf DEF Those
  <2>2. PICK c \in 1..n : at[c] = m
    BY <2>1 DEF CallsPlaced
  <2>3. c + k \in S /\ w[c + k] = m
    BY <1>3, <1>4, <2>2
  <2> QED BY <2>3
<1>8. \A i \in S : Told(b[w[i]].holds, rb[i].holds)
  BY <1>2, <1>4 DEF CallsPlaced
<1>9. \E f \in [S -> Those(b, "tool")] :
        /\ \A i, j \in S : i < j => f[i] < f[j]
        /\ \A m \in Those(b, "tool") : \E i \in S : f[i] = m
        /\ \A i \in S : Told(b[f[i]].holds, rb[i].holds)
  BY <1>5, <1>6, <1>7, <1>8
<1> QED BY <1>9, Zenon DEF CallsTold, S

-----------------------------------------------------------------------------
(* toOllamaStream.  Each call has a slot, in their order, and the client    *)
(* has been given text only.                                                *)
Slot == [named : BOOLEAN, holds : Seq(Nat)]

OllamaEncoder == [calls : Seq(Slot), finish : Ends, heard : Client]

Collected(calls, A, n) ==
  Len(calls) = n /\ \A c \in 1..n : calls[c].named /\ Told(calls[c].holds, A[c])

OnlyText(h, T) ==
  /\ \A i \in 1..Len(h.blocks) : h.blocks[i].kind = "text"
  /\ TextTold(h.blocks, T)
  /\ h.ok /\ ~h.over /\ h.open = None

OllamaFits(e, T, A, n, f) ==
  /\ e \in OllamaEncoder
  /\ Collected(e.calls, A, n)
  /\ OnlyText(e.heard, T)
  /\ e.finish = IF f = "length" THEN "length" ELSE "stop"

LEMMA OllamaIs ==
  ASSUME NEW e \in OllamaEncoder
  PROVE  /\ e.calls \in Seq(Slot) /\ e.finish \in Ends /\ e.heard \in Client
         /\ e.heard.blocks \in Seq(StreamBlock)
<1>1. e.calls \in Seq(Slot) /\ e.finish \in Ends /\ e.heard \in Client
  BY DEF OllamaEncoder
<1> QED BY <1>1, ClientIs

LEMMA HeardTextIs ==
  ASSUME NEW h \in Client, NEW T, OnlyText(h, T), NEW piece \in Nat, Before(T, piece)
  PROVE  HeardText(h, piece) \in Client /\ OnlyText(HeardText(h, piece), T \cup {piece})
<1> DEFINE b == h.blocks
           n == Len(b)
           none == [kind |-> "text", holds |-> <<>>]
           x == [kind |-> "text", holds |-> <<piece>>]
           c == Append(b, none)
           d == Append(b, x)
           m == Must(h, TRUE)
           g == [m EXCEPT !.blocks = d]
<1>1. b \in Seq(StreamBlock) /\ n \in Nat
  BY ClientIs, ElementsOf
<1>2. none \in StreamBlock /\ x \in StreamBlock
  BY DEF StreamBlock
<1>3. /\ x.kind = "text" /\ none.kind = "text" /\ none.holds = <<>>
      /\ x.holds = Append(<<>>, piece)
  OBVIOUS
<1> HIDE DEF x, b
<1>4. /\ d \in Seq(StreamBlock) /\ Len(d) = n + 1 /\ d[n + 1] = x
      /\ \A k \in 1..n : d[k] = b[k]
  BY <1>1, <1>2, OneMore
<1>5. /\ c \in Seq(StreamBlock) /\ Len(c) = n + 1 /\ c[n + 1] = none
      /\ \A k \in 1..n : c[k] = b[k]
  <2> HIDE DEF none
  <2> QED BY <1>1, <1>2, OneMore
<1> HIDE DEF d, c
<1>6. Opened(b, c, "text")
  BY <1>5, Zenon DEF Opened
<1>7. TextTold(c, T)
  BY <1>1, <1>6, TextAnnounced DEF OnlyText, b
<1> HIDE DEF none
<1>8. Grown(c, d, Len(c), piece)
  <2>1. \A k \in 1..n + 1 : k \in 1..n \/ k = n + 1
    BY <1>1
  <2>2. ASSUME NEW k \in 1..Len(c)
        PROVE  /\ d[k].kind = c[k].kind
               /\ d[k].holds = IF k = Len(c) THEN Append(c[k].holds, piece) ELSE c[k].holds
    <3>1. CASE k = n + 1
      BY <1>3, <1>4, <1>5, <3>1
    <3>2. CASE k # n + 1
      BY <1>4, <1>5, <2>1, <3>2
    <3> QED BY <3>1, <3>2
  <2> QED BY <1>4, <1>5, <2>2 DEF Grown
<1>9. TextTold(d, T \cup {piece})
  <2>1. Len(c) > 0 /\ c[Len(c)].kind = "text"
    BY <1>1, <1>3, <1>5
  <2> QED BY <1>5, <1>7, <1>8, <2>1, TextFilled
<1>10. \A i \in 1..Len(d) : d[i].kind = "text"
  <2>1. \A k \in 1..n + 1 : k \in 1..n \/ k = n + 1
    BY <1>1
  <2> QED BY <1>3, <1>4, <2>1 DEF OnlyText, b
<1>11. /\ m \in Client /\ m.blocks = h.blocks /\ m.open = h.open /\ m.begun = h.begun /\ m.over = h.over
       /\ (h.ok /\ TRUE /\ ~h.over => m.ok)
  BY MustIs
<1>12. HeardText(h, piece) = g
  BY <1>11 DEF HeardText, d, x, b
<1> HIDE DEF m
<1>13. g \in Client /\ g.blocks = d /\ g.open = m.open /\ g.over = m.over /\ g.ok = m.ok
  BY <1>4, <1>11, Zenon DEF Client
<1> HIDE DEF g
<1>14. g.ok /\ ~g.over /\ g.open = None
  BY <1>11, <1>13, Zenon DEF OnlyText
<1>15. OnlyText(g, T \cup {piece})
  BY <1>9, <1>10, <1>13, <1>14, Zenon DEF OnlyText
<1> QED BY <1>12, <1>13, <1>15

LEMMA SlotIs ==
  ASSUME NEW s \in Seq(Slot), NEW i \in 1..Len(s)
  PROVE  s[i] \in Slot /\ s[i].holds \in Seq(Nat)
<1>1. s[i] \in Slot
  BY ElementsOf
<1> QED BY <1>1 DEF Slot

(* Each delta leaves an encoder that fits what was said.                    *)
LEMMA OllamaOnText ==
  ASSUME NEW T, NEW A, NEW n \in Nat, NEW f, NEW e, OllamaFits(e, T, A, n, f),
         NEW piece \in Nat, piece # None, Before(T, piece)
  PROVE  OllamaFits(OllamaDelta(e, TextDelta(piece)), T \cup {piece}, A, n, f)
<1> DEFINE h == HeardText(e.heard, piece)
           o == [e EXCEPT !.heard = h]
<1>1. OllamaDelta(e, TextDelta(piece)) = o
  BY DEF OllamaDelta, TextDelta
<1>2. e \in OllamaEncoder /\ e.heard \in Client /\ OnlyText(e.heard, T)
  BY OllamaIs DEF OllamaFits
<1>3. h \in Client /\ OnlyText(h, T \cup {piece})
  BY <1>2, HeardTextIs
<1> HIDE DEF h
<1>4. o \in OllamaEncoder /\ o.calls = e.calls /\ o.finish = e.finish /\ o.heard = h
  BY <1>2, <1>3, Zenon DEF OllamaEncoder
<1> HIDE DEF o
<1> QED BY <1>1, <1>3, <1>4 DEF OllamaFits

LEMMA OllamaOnFinish ==
  ASSUME NEW T, NEW A, NEW n \in Nat, NEW f, NEW e, OllamaFits(e, T, A, n, f), NEW g, g # "none"
  PROVE  OllamaFits(OllamaDelta(e, FinishDelta(g)), T, A, n, g)
<1> DEFINE x == IF g = "length" THEN "length" ELSE "stop"
           o == [e EXCEPT !.finish = x]
<1>1. OllamaDelta(e, FinishDelta(g)) = o
  BY DEF OllamaDelta, FinishDelta, None
<1>2. e \in OllamaEncoder /\ x \in Ends
  BY DEF OllamaFits, Ends
<1> HIDE DEF x
<1>3. o \in OllamaEncoder /\ o.calls = e.calls /\ o.finish = x /\ o.heard = e.heard
  BY <1>2, Zenon DEF OllamaEncoder
<1> HIDE DEF o
<1> QED BY <1>1, <1>3 DEF OllamaFits, x

(* What a slot holds has grown by what was said of its call.                *)
SlotFilled(calls, more, n, i, args) ==
  /\ more \in Seq(Slot) /\ Len(more) = n
  /\ more[i].named
  /\ more[i].holds = IF args = None THEN SlotAt(calls, i).holds
                     ELSE Append(SlotAt(calls, i).holds, args)
  /\ \A j \in 1..n : j # i => more[j] = SlotAt(calls, j)

(* A fragment goes to the slot of its index, or to a new one.               *)
LEMMA OllamaFills ==
  ASSUME NEW e \in OllamaEncoder, NEW n \in Nat, Len(e.calls) = n, NEW i \in 1..n + 1,
         NEW m \in Nat, m = IF i = n + 1 THEN n + 1 ELSE n,
         NEW bit, bit.args \in Nat,
         bit.index = i - 1 \/ (bit.index = NoIndex /\ i = n + 1)
  PROVE  LET o == OllamaDelta(e, CallDelta(bit))
         IN /\ o \in OllamaEncoder /\ o.finish = e.finish /\ o.heard = e.heard
            /\ SlotFilled(e.calls, o.calls, m, i, bit.args)
<1> DEFINE calls == e.calls
           w == IF bit.index # NoIndex THEN bit.index + 1 ELSE Len(calls) + 1
           holds == HeldWith(SlotAt(calls, i), bit.args)
           slot == [named |-> TRUE, holds |-> holds]
           more == [j \in 1..Longer(Len(calls), i) |-> IF j = i THEN slot ELSE SlotAt(calls, j)]
           o == [e EXCEPT !.calls = more]
<1>1. calls \in Seq(Slot) /\ DOMAIN calls = 1..n /\ Len(calls) = n /\ i \in Nat
  BY OllamaIs, ElementsOf
<1>2. w = i
  BY <1>1 DEF NoIndex
<1>3. Longer(Len(calls), i) = m
  BY <1>1 DEF Longer
<1>4. OllamaDelta(e, CallDelta(bit)) = OllamaCall(e, bit)
  BY DEF OllamaDelta, CallDelta, None
<1>5. OllamaCall(e, bit) = o
  <2>1. OllamaCall(e, bit) =
          [e EXCEPT !.calls =
             [j \in 1..Longer(Len(@), w) |->
                IF j = w THEN [named |-> TRUE, holds |-> HeldWith(SlotAt(calls, w), bit.args)]
                ELSE SlotAt(@, j)]]
    BY DEF OllamaCall
  <2> HIDE DEF w
  <2> QED BY <1>2, <2>1
<1>6. \A j \in 1..m : SlotAt(calls, j) \in Slot /\ SlotAt(calls, j).holds \in Seq(Nat)
  <2>1. NoSlot \in Slot /\ NoSlot.holds \in Seq(Nat)
    BY DEF NoSlot, Slot
  <2>2. \A j \in 1..n : calls[j] \in Slot /\ calls[j].holds \in Seq(Nat)
    BY <1>1, SlotIs
  <2> QED BY <1>1, <2>1, <2>2 DEF SlotAt
<1>7. i \in 1..m
  OBVIOUS
<1>8. holds \in Seq(Nat)
  BY <1>6, <1>7, OneMore DEF HeldWith
<1> HIDE DEF calls, holds
<1>9. slot \in Slot /\ slot.named /\ slot.holds = holds
  BY <1>8 DEF Slot
<1> HIDE DEF slot
<1>10. /\ more \in [1..m -> Slot] /\ more[i] = slot
       /\ \A j \in 1..m : j # i => more[j] = SlotAt(calls, j)
  <2>1. \A j \in 1..m : SlotAt(calls, j) \in Slot
    BY <1>6
  <2>2. more = [j \in 1..m |-> IF j = i THEN slot ELSE SlotAt(calls, j)]
    BY <1>3
  <2> HIDE DEF more
  <2> QED BY <1>7, <1>9, <2>1, <2>2
<1> HIDE DEF more
<1>11. more \in Seq(Slot) /\ Len(more) = m
  BY <1>10, ListOf
<1>12. o \in OllamaEncoder /\ o.calls = more /\ o.finish = e.finish /\ o.heard = e.heard
  BY <1>11, Zenon DEF OllamaEncoder
<1> HIDE DEF o
<1>13. SlotFilled(calls, more, m, i, bit.args)
  BY <1>9, <1>10, <1>11 DEF SlotFilled, holds, HeldWith
<1> QED BY <1>4, <1>5, <1>12, <1>13 DEF calls

LEMMA OllamaOnCall ==
  ASSUME NEW T, NEW A, NEW B, NEW n \in Nat, NEW f, NEW e, OllamaFits(e, T, A, n, f),
         NEW lb \in Labels, NEW bit, Marks(lb, bit, n + 1),
         bit.args \in Nat, \A k \in 1..n : B[k] = A[k],
         B[n + 1] = IF bit.args = None THEN {} ELSE {bit.args}
  PROVE  OllamaFits(OllamaDelta(e, CallDelta(bit)), T, B, n + 1, f)
<1> DEFINE o == OllamaDelta(e, CallDelta(bit))
<1>1. e \in OllamaEncoder /\ e.calls \in Seq(Slot) /\ Len(e.calls) = n /\ DOMAIN e.calls = 1..n
  BY OllamaIs, ElementsOf DEF OllamaFits, Collected
<1>2. bit.index = (n + 1) - 1 \/ (bit.index = NoIndex /\ n + 1 = n + 1)
  BY DEF Marks, Labels
<1>3. /\ o \in OllamaEncoder /\ o.finish = e.finish /\ o.heard = e.heard
      /\ SlotFilled(e.calls, o.calls, n + 1, n + 1, bit.args)
  <2>1. n + 1 \in 1..n + 1 /\ n + 1 \in Nat /\ n + 1 = IF n + 1 = n + 1 THEN n + 1 ELSE n
    OBVIOUS
  <2> QED BY <1>1, <1>2, <2>1, OllamaFills
<1> HIDE DEF o
<1>4. SlotAt(e.calls, n + 1).holds = <<>>
  BY <1>1 DEF SlotAt, NoSlot
<1>5. \A j \in 1..n : SlotAt(e.calls, j) = e.calls[j]
  BY <1>1 DEF SlotAt
<1>6. o.calls[n + 1].named /\ Told(o.calls[n + 1].holds, B[n + 1])
  <2>1. CASE bit.args = None
    BY <1>3, <1>4, <2>1, NothingTold DEF SlotFilled
  <2>2. CASE bit.args # None
    <3> DEFINE s == <<>>
               P == {}
    <3>1. s \in Seq(Nat) /\ Told(s, P) /\ Before(P, bit.args)
      BY NothingTold DEF Before
    <3> HIDE DEF s, P
    <3>2. Told(Append(s, bit.args), P \cup {bit.args})
      BY <3>1, ToldMore
    <3> QED BY <1>3, <1>4, <2>2, <3>2 DEF SlotFilled, s, P
  <2> QED BY <2>1, <2>2
<1>7. \A c \in 1..n : o.calls[c].named /\ Told(o.calls[c].holds, B[c])
  <2> SUFFICES ASSUME NEW c \in 1..n PROVE o.calls[c].named /\ Told(o.calls[c].holds, B[c])
    OBVIOUS
  <2>1. o.calls[c] = e.calls[c]
    BY <1>3, <1>5 DEF SlotFilled
  <2> QED BY <2>1 DEF OllamaFits, Collected
<1>8. Collected(o.calls, B, n + 1)
  <2>1. \A c \in 1..n + 1 : c \in 1..n \/ c = n + 1
    OBVIOUS
  <2> QED BY <1>3, <1>6, <1>7, <2>1 DEF Collected, SlotFilled
<1> QED BY <1>3, <1>8 DEF OllamaFits, o

LEMMA OllamaOnArgs ==
  ASSUME NEW T, NEW A, NEW B, NEW n \in Nat, NEW f, NEW e, OllamaFits(e, T, A, n, f),
         NEW c \in 1..n, NEW bit, bit.index = c - 1,
         bit.args \in Nat, bit.args # None, NewPiece(A, B, n, c, bit.args)
  PROVE  OllamaFits(OllamaDelta(e, CallDelta(bit)), T, B, n, f)
<1> DEFINE o == OllamaDelta(e, CallDelta(bit))
<1>1. e \in OllamaEncoder /\ e.calls \in Seq(Slot) /\ Len(e.calls) = n /\ DOMAIN e.calls = 1..n
  BY OllamaIs, ElementsOf DEF OllamaFits, Collected
<1>2. /\ o \in OllamaEncoder /\ o.finish = e.finish /\ o.heard = e.heard
      /\ SlotFilled(e.calls, o.calls, n, c, bit.args)
  <2>1. c \in 1..n + 1 /\ n = IF c = n + 1 THEN n + 1 ELSE n
    OBVIOUS
  <2> QED BY <1>1, <2>1, OllamaFills
<1> HIDE DEF o
<1>3. \A j \in 1..n : SlotAt(e.calls, j) = e.calls[j]
  BY <1>1 DEF SlotAt
<1>4. o.calls[c].named /\ Told(o.calls[c].holds, B[c])
  <2>1. e.calls[c].holds \in Seq(Nat) /\ Told(e.calls[c].holds, A[c])
    BY <1>1, SlotIs DEF OllamaFits, Collected
  <2>2. Told(Append(e.calls[c].holds, bit.args), A[c] \cup {bit.args})
    BY <2>1, ToldMore DEF NewPiece
  <2> QED BY <1>2, <1>3, <2>2 DEF SlotFilled, NewPiece
<1>5. ASSUME NEW k \in 1..n, k # c PROVE o.calls[k].named /\ Told(o.calls[k].holds, B[k])
  <2>1. o.calls[k] = e.calls[k] /\ B[k] = A[k]
    BY <1>2, <1>3, <1>5 DEF SlotFilled, NewPiece
  <2> QED BY <2>1 DEF OllamaFits, Collected
<1>6. Collected(o.calls, B, n)
  BY <1>2, <1>4, <1>5 DEF Collected, SlotFilled
<1> QED BY <1>2, <1>6 DEF OllamaFits, o

LEMMA HeardCallsIs ==
  ASSUME NEW h \in Client, NEW T, OnlyText(h, T), NEW A, NEW n \in Nat,
         NEW calls \in [1..n -> Seq(Nat)], \A c \in 1..n : Told(calls[c], A[c])
  PROVE  LET g == HeardCalls(h, calls)
         IN /\ g \in Client /\ g.open = None /\ ~g.over /\ g.ok
            /\ TextTold(g.blocks, T)
            /\ CallsPlaced(g.blocks, A, n, [c \in 1..n |-> Len(h.blocks) + c])
<1> DEFINE b == h.blocks
           x(c) == [kind |-> "tool", holds |-> calls[c]]
           t == [c \in 1..n |-> x(c)]
           d == b \o t
           m == Must(h, TRUE)
           g == [m EXCEPT !.blocks = d]
           at == [c \in 1..n |-> Len(b) + c]
<1>1. b \in Seq(StreamBlock) /\ Len(b) \in Nat /\ DOMAIN b = 1..Len(b)
  BY ClientIs, ElementsOf
<1>2. \A c \in 1..n : x(c) \in StreamBlock /\ x(c).kind = "tool" /\ x(c).holds = calls[c]
  BY DEF StreamBlock
<1>3. DOMAIN calls = 1..n
  OBVIOUS
<1> HIDE DEF x
<1>4. t \in [1..n -> StreamBlock] /\ \A c \in 1..n : t[c] = x(c)
  BY <1>2
<1> HIDE DEF t
<1>5. t \in Seq(StreamBlock) /\ Len(t) = n
  BY <1>4, ListOf
<1>6. /\ m \in Client /\ m.blocks = b /\ m.open = h.open /\ m.over = h.over
      /\ (h.ok /\ TRUE /\ ~h.over => m.ok)
  BY MustIs
<1>7. HeardCalls(h, calls) = g
  BY <1>3, <1>6 DEF HeardCalls, t, x
<1> HIDE DEF b, m
<1>8. /\ d \in Seq(StreamBlock) /\ Len(d) = Len(b) + n /\ DOMAIN d = 1..Len(b) + n
      /\ \A i \in 1..Len(b) : d[i] = b[i]
      /\ \A i \in 1..n : d[Len(b) + i] = t[i]
  <2>1. b \in Seq(StreamBlock) /\ t \in Seq(StreamBlock)
    BY <1>1, <1>5
  <2>2. /\ d \in Seq(StreamBlock) /\ Len(d) = Len(b) + Len(t) /\ DOMAIN d = 1..Len(b) + Len(t)
        /\ \A i \in 1..Len(b) : d[i] = b[i]
        /\ \A i \in 1..Len(t) : d[Len(b) + i] = t[i]
    BY <2>1, JoinedIs
  <2> HIDE DEF d
  <2> QED BY <1>5, <2>2
<1> HIDE DEF d
<1>9. g \in Client /\ g.blocks = d /\ g.open = m.open /\ g.over = m.over /\ g.ok = m.ok
  BY <1>6, <1>8, Zenon DEF Client
<1> HIDE DEF g
<1>10. ASSUME NEW i \in 1..Len(b) + n
       PROVE  \/ i \in 1..Len(b) /\ d[i] = b[i] /\ d[i].kind = "text"
              \/ /\ i - Len(b) \in 1..n /\ i = Len(b) + (i - Len(b))
                 /\ d[i] = x(i - Len(b)) /\ d[i].kind = "tool"
  <2>1. CASE i \in 1..Len(b)
    BY <1>8, <2>1 DEF OnlyText, b
  <2>2. CASE i \notin 1..Len(b)
    <3> DEFINE c == i - Len(b)
    <3>1. c \in 1..n /\ i = Len(b) + c
      BY <1>1, <2>2
    <3> HIDE DEF c
    <3>2. d[i] = x(c) /\ x(c).kind = "tool"
      BY <1>2, <1>4, <1>8, <3>1
    <3> QED BY <3>1, <3>2 DEF c
  <2> QED BY <2>1, <2>2
<1>11. Those(d, "text") = DOMAIN b /\ Those(b, "text") = DOMAIN b
  <2>1. \A i \in 1..Len(b) : i \in 1..Len(b) + n /\ d[i].kind = "text" /\ b[i].kind = "text"
    BY <1>1, <1>8 DEF OnlyText, b
  <2>2. \A i \in 1..Len(b) + n : d[i].kind = "text" => i \in 1..Len(b)
    BY <1>10
  <2> QED BY <1>1, <1>8, <2>1, <2>2 DEF Those
<1>12. TextTold(d, T)
  <2>1. \A i \in DOMAIN b : d[i] = b[i]
    BY <1>1, <1>8
  <2>2. Held(d) = Held(b)
    BY <1>11, <2>1 DEF Held
  <2>3. TextTold(b, T)
    BY DEF OnlyText, b
  <2> QED BY <1>11, <2>1, <2>2, <2>3 DEF TextTold
<1>13. CallsPlaced(d, A, n, at)
  <2>1. \A c \in 1..n : at[c] = Len(b) + c /\ at[c] \in 1..Len(d) /\ d[at[c]] = x(c)
    <3> SUFFICES ASSUME NEW c \in 1..n
                 PROVE  at[c] = Len(b) + c /\ at[c] \in 1..Len(d) /\ d[at[c]] = x(c)
      OBVIOUS
    <3>1. at[c] = Len(b) + c
      OBVIOUS
    <3>2. d[Len(b) + c] = x(c)
      BY <1>4, <1>8
    <3>3. Len(b) + c \in 1..Len(d)
      BY <1>1, <1>8
    <3> HIDE DEF at
    <3> QED BY <3>1, <3>2, <3>3
  <2> HIDE DEF at
  <2>2. \A c, e \in 1..n : c < e => at[c] < at[e]
    BY <1>1, <2>1
  <2>3. ASSUME NEW i \in 1..Len(d) PROVE d[i].kind = "tool" <=> \E c \in 1..n : at[c] = i
    <3>1. CASE i \in 1..Len(b)
      <4>1. d[i].kind = "text"
        BY <1>8, <3>1 DEF OnlyText, b
      <4>2. \A c \in 1..n : at[c] # i
        BY <1>1, <2>1, <3>1
      <4> QED BY <4>1, <4>2
    <3>2. CASE i \notin 1..Len(b)
      <4> DEFINE c == i - Len(b)
      <4>1. c \in 1..n /\ i = Len(b) + c /\ d[i].kind = "tool"
        BY <1>8, <1>10, <3>2
      <4> HIDE DEF c
      <4>2. at[c] = i
        BY <2>1, <4>1
      <4> QED BY <4>1, <4>2
    <3> QED BY <3>1, <3>2
  <2>4. \A c \in 1..n : Told(d[at[c]].holds, A[c])
    BY <1>2, <2>1
  <2> QED BY <2>1, <2>2, <2>3, <2>4 DEF CallsPlaced
<1>14. g.open = None /\ ~g.over /\ g.ok
  BY <1>6, <1>9, Zenon DEF OnlyText
<1> QED BY <1>7, <1>9, <1>12, <1>13, <1>14 DEF at, b

(* Every slot is the bit of a call that has a name.                        *)
LEMMA WholeIs ==
  ASSUME NEW calls \in Seq(Slot), NEW n \in Nat, Len(calls) = n, \A c \in 1..n : calls[c].named
  PROVE  whole(calls) = [k \in 1..n |-> calls[k].holds]
<1> DEFINE named == {i \in DOMAIN calls : calls[i].named}
           upto(i) == {j \in named : j <= i}
           nth(k) == CHOOSE i \in named : Cardinality(upto(i)) = k
<1>1. named = 1..n
  BY ElementsOf
<1>2. \A i \in 1..n : upto(i) = 1..i
  BY <1>1
<1>3. Cardinality(named) = n /\ \A i \in 1..n : Cardinality(1..i) = i
  <2>1. Cardinality(1..n) = n /\ \A i \in Nat : Cardinality(1..i) = i
    <3>1. ASSUME NEW i \in Nat PROVE Cardinality(1..i) = i
      <4>1. Cardinality(1..i) = IF 1 > i THEN 0 ELSE i - 1 + 1
        BY FS_Interval
      <4> QED BY <4>1
    <3> QED BY <3>1
  <2>2. \A i \in 1..n : i \in Nat
    OBVIOUS
  <2> QED BY <1>1, <2>1, <2>2
<1>4. \A i \in 1..n : Cardinality(upto(i)) = i
  BY <1>2, <1>3
<1> HIDE DEF upto
<1>5. ASSUME NEW k \in 1..n PROVE nth(k) = k
  <2>1. nth(k) \in named /\ Cardinality(upto(nth(k))) = k
    BY <1>1, <1>4
  <2> HIDE DEF nth
  <2> QED BY <1>1, <1>4, <2>1
<1>6. whole(calls) = [k \in 1..Cardinality(named) |-> calls[nth(k)].holds]
  BY DEF whole, upto
<1> HIDE DEF nth, named
<1>7. whole(calls) = [k \in 1..n |-> calls[nth(k)].holds]
  BY <1>3, <1>6
<1> QED BY <1>5, <1>7

LEMMA OllamaEnds ==
  ASSUME NEW T, NEW A, NEW n \in Nat, NEW f, NEW e, OllamaFits(e, T, A, n, f)
  PROVE  LET h == OllamaEnd(e).heard
         IN /\ h.blocks \in Seq(StreamBlock) /\ TextTold(h.blocks, T)
            /\ \E at : CallsPlaced(h.blocks, A, n, at)
            /\ h.ok /\ h.over /\ h.open = None
            /\ h.finish = IF f = "length" THEN "length" ELSE "stop"
<1> DEFINE calls == [k \in 1..n |-> e.calls[k].holds]
           h == IF calls = <<>> THEN e.heard ELSE HeardCalls(e.heard, calls)
           m == Must(h, TRUE)
           g == [m EXCEPT !.finish = e.finish, !.over = TRUE]
           o == [e EXCEPT !.heard = g]
<1>1. /\ e \in OllamaEncoder /\ e.calls \in Seq(Slot) /\ Len(e.calls) = n
      /\ e.heard \in Client /\ OnlyText(e.heard, T) /\ Collected(e.calls, A, n)
      /\ e.heard.blocks \in Seq(StreamBlock)
  BY OllamaIs DEF OllamaFits, Collected
<1>2. whole(e.calls) = calls
  BY <1>1, WholeIs DEF Collected
<1>3. \A c \in 1..n : e.calls[c].holds \in Seq(Nat) /\ Told(e.calls[c].holds, A[c])
  BY <1>1, SlotIs DEF Collected
<1>4. calls \in [1..n -> Seq(Nat)] /\ \A c \in 1..n : Told(calls[c], A[c])
  BY <1>3
<1>5. OllamaEnd(e) = o
  <2>1. OllamaEnd(e) = LET whole1 == whole(e.calls)
                           heard == IF whole1 = <<>> THEN e.heard ELSE HeardCalls(e.heard, whole1)
                       IN [e EXCEPT !.heard = Done(heard, e.finish)]
    BY DEF OllamaEnd
  <2> HIDE DEF calls
  <2> QED BY <1>2, <2>1 DEF Done
<1> HIDE DEF calls
<1>6. /\ h \in Client /\ TextTold(h.blocks, T) /\ h.open = None /\ ~h.over /\ h.ok
      /\ \E at : CallsPlaced(h.blocks, A, n, at)
  <2>1. CASE calls = <<>>
    <3>1. n = 0
      <4>1. Len(calls) = n
        BY <1>4, ListOf
      <4> QED BY <2>1, <4>1
    <3> DEFINE at == <<>>
    <3> HIDE DEF at
    <3>2. CallsPlaced(e.heard.blocks, A, n, at)
      <4>1. 1..n = {}
        BY <3>1
      <4>2. \A i \in 1..Len(e.heard.blocks) : e.heard.blocks[i].kind # "tool"
        BY <1>1 DEF OnlyText
      <4> DEFINE none == 1..n
      <4>3. none = {}
        BY <4>1
      <4> HIDE DEF none
      <4>4. \A i \in 1..Len(e.heard.blocks) : e.heard.blocks[i].kind = "tool" <=> \E c \in none : at[c] = i
        BY <4>2, <4>3
      <4>5. /\ \A c \in none : at[c] \in 1..Len(e.heard.blocks)
            /\ \A c, d \in none : c < d => at[c] < at[d]
            /\ \A c \in none : Told(e.heard.blocks[at[c]].holds, A[c])
        BY <4>3
      <4> QED BY <4>4, <4>5, Zenon DEF CallsPlaced, none
    <3>3. h = e.heard
      BY <2>1
    <3> HIDE DEF h
    <3>4. CallsPlaced(h.blocks, A, n, at)
      BY <3>2, <3>3
    <3> QED BY <1>1, <3>3, <3>4 DEF OnlyText
  <2>2. CASE calls # <<>>
    <3> DEFINE w == HeardCalls(e.heard, calls)
               at == [c \in 1..n |-> Len(e.heard.blocks) + c]
    <3>1. /\ w \in Client /\ w.open = None /\ ~w.over /\ w.ok
          /\ TextTold(w.blocks, T) /\ CallsPlaced(w.blocks, A, n, at)
      BY <1>1, <1>4, HeardCallsIs
    <3>2. h = w
      BY <2>2
    <3> HIDE DEF h, w, at
    <3> QED BY <3>1, <3>2, Zenon
  <2> QED BY <2>1, <2>2
<1> HIDE DEF h
<1>7. /\ m \in Client /\ m.blocks = h.blocks /\ m.open = h.open
      /\ (h.ok /\ TRUE /\ ~h.over => m.ok)
  BY <1>6, MustIs
<1> HIDE DEF m
<1>8. /\ g.blocks = m.blocks /\ g.open = m.open /\ g.finish = e.finish /\ g.over /\ g.ok = m.ok
  BY <1>7, Zenon DEF Client
<1> HIDE DEF g
<1>9. o.heard = g
  BY <1>1, Zenon DEF OllamaEncoder
<1> HIDE DEF o
<1>10. h.blocks \in Seq(StreamBlock)
  BY <1>6, ClientIs
<1>11. e.finish = IF f = "length" THEN "length" ELSE "stop"
  BY DEF OllamaFits
<1>12. /\ g.blocks \in Seq(StreamBlock) /\ TextTold(g.blocks, T)
       /\ (\E at : CallsPlaced(g.blocks, A, n, at))
       /\ g.ok /\ g.over /\ g.open = None
  BY <1>6, <1>7, <1>8, <1>10, Zenon
<1> QED BY <1>5, <1>8, <1>9, <1>11, <1>12

-----------------------------------------------------------------------------
(* The chat dialect.  Its client knows the calls apart by their index, when *)
(* the provider gives one.                                                  *)
ChatGathers(h, A, n) ==
  /\ h.ids = [c \in 1..n |-> <<c - 1, c>>]
  /\ DOMAIN h.calls \subseteq 0..n - 1
  /\ \A c \in 1..n : /\ HeldAt(h.calls, c - 1) \in Seq(Nat)
                     /\ Told(HeldAt(h.calls, c - 1), A[c])

ChatEncoder(e, text, ids, calls) == e = [heard |-> [text |-> text, ids |-> ids, calls |-> calls]]

ChatFits(e, lb, T, A, n) ==
  /\ ChatEncoder(e, e.heard.text, e.heard.ids, e.heard.calls)
  /\ e.heard.text \in Seq(Nat) /\ Told(e.heard.text, T)
  /\ lb = "index" => ChatGathers(e.heard, A, n)

LEMMA ChatIs ==
  ASSUME NEW e, NEW text, NEW ids, NEW calls, ChatEncoder(e, text, ids, calls)
  PROVE  e.heard.text = text /\ e.heard.ids = ids /\ e.heard.calls = calls
BY DEF ChatEncoder

(* Each delta leaves a client that has put together what was said.          *)
LEMMA ChatOnText ==
  ASSUME NEW lb, NEW T, NEW A, NEW n \in Nat, NEW e, ChatFits(e, lb, T, A, n),
         NEW piece \in Nat, piece # None, Before(T, piece)
  PROVE  ChatFits(ChatDelta(e, TextDelta(piece)), lb, T \cup {piece}, A, n)
<1> DEFINE tx == e.heard.text
           ids == e.heard.ids
           calls == e.heard.calls
           o == [e EXCEPT !.heard.text = Append(@, piece)]
           p == [heard |-> [text |-> tx, ids |-> ids, calls |-> calls]]
<1>1. ChatDelta(e, TextDelta(piece)) = o
  BY DEF ChatDelta, TextDelta
<1>2. /\ e = [heard |-> [text |-> tx, ids |-> ids, calls |-> calls]]
      /\ tx \in Seq(Nat) /\ Told(tx, T)
      /\ (lb = "index" => ChatGathers(e.heard, A, n))
  BY DEF ChatFits, ChatEncoder
<1>3. o = [heard |-> [text |-> Append(tx, piece), ids |-> ids, calls |-> calls]]
  <2> DEFINE u == Append(tx, piece)
             h == [text |-> tx, ids |-> ids, calls |-> calls]
  <2>1. e = [heard |-> h] /\ e.heard.text = tx
    BY <1>2
  <2>2. o = [heard |-> [h EXCEPT !.text = u]]
    <3> HIDE DEF h, u
    <3>1. o = [e EXCEPT !.heard.text = u]
      BY <2>1 DEF u
    <3> HIDE DEF o
    <3> QED BY <2>1, <3>1
  <2> HIDE DEF tx, ids, calls, u, o
  <2>3. o = [heard |-> [text |-> u, ids |-> ids, calls |-> calls]]
    BY <2>2
  <2> QED BY <2>3 DEF u
<1>4. Append(tx, piece) \in Seq(Nat) /\ Told(Append(tx, piece), T \cup {piece})
  BY <1>2, OneMore, ToldMore
<1> DEFINE u == Append(tx, piece)
<1>5. ChatEncoder(o, u, ids, calls)
  BY <1>3 DEF ChatEncoder
<1> HIDE DEF o, u
<1>6. o.heard.text = u /\ o.heard.ids = ids /\ o.heard.calls = calls
  BY <1>5, ChatIs
<1>7. lb = "index" => ChatGathers(o.heard, A, n)
  BY <1>2, <1>6 DEF ChatGathers
<1> QED BY <1>1, <1>4, <1>5, <1>6, <1>7 DEF ChatFits, u

(* What a bit of a call changes.                                           *)
LEMMA ChatPart ==
  ASSUME NEW e, ChatEncoder(e, e.heard.text, e.heard.ids, e.heard.calls), NEW bit
  PROVE  LET o == ChatDelta(e, CallDelta(bit))
             calls == e.heard.calls
         IN /\ ChatEncoder(o, o.heard.text, o.heard.ids, o.heard.calls)
            /\ o.heard.text = e.heard.text
            /\ o.heard.ids = IF bit.id = None THEN e.heard.ids
                             ELSE Append(e.heard.ids, <<bit.index, bit.id>>)
            /\ o.heard.calls = IF bit.args = None THEN calls
                               ELSE Entered(calls, bit.index, Append(HeldAt(calls, bit.index), bit.args))
<1> DEFINE tx == e.heard.text
           ids == e.heard.ids
           calls == e.heard.calls
           new == Append(ids, <<bit.index, bit.id>>)
           more == Entered(calls, bit.index, Append(HeldAt(calls, bit.index), bit.args))
           k == IF bit.id = None THEN e
                ELSE [e EXCEPT !.heard.ids = Append(@, <<bit.index, bit.id>>)]
           o == IF bit.args = None THEN k
                ELSE [k EXCEPT !.heard.calls =
                        Entered(@, bit.index, Append(HeldAt(@, bit.index), bit.args))]
           i == IF bit.id = None THEN ids ELSE new
           c == IF bit.args = None THEN calls ELSE more
<1>1. ChatDelta(e, CallDelta(bit)) = o
  BY DEF ChatDelta, CallDelta, ChatCall, None
<1>2. e = [heard |-> [text |-> tx, ids |-> ids, calls |-> calls]]
  BY DEF ChatEncoder
<1> HIDE DEF tx, ids, calls
<1>3. k = [heard |-> [text |-> tx, ids |-> i, calls |-> calls]]
  BY <1>2
<1> HIDE DEF k, i
<1>4. o = [heard |-> [text |-> tx, ids |-> i, calls |-> c]]
  BY <1>3
<1>5. ChatEncoder(o, tx, i, c)
  BY <1>4 DEF ChatEncoder
<1> HIDE DEF o, c
<1>6. o.heard.text = tx /\ o.heard.ids = i /\ o.heard.calls = c
  BY <1>5, ChatIs
<1> QED BY <1>1, <1>5, <1>6 DEF tx, i, c, ids, calls

LEMMA EnteredAt ==
  ASSUME NEW m, NEW key, NEW v, NEW k
  PROVE  HeldAt(Entered(m, key, v), k) = IF k = key THEN v ELSE HeldAt(m, k)
BY DEF HeldAt, Entered

(* The ids by index, with the next call's.                                  *)
LEMMA IdsGrow ==
  ASSUME NEW n \in Nat
  PROVE  Append([c \in 1..n |-> <<c - 1, c>>], <<n, n + 1>>) = [c \in 1..n + 1 |-> <<c - 1, c>>]
<1> DEFINE P == Int \X Int
           x(c) == <<c - 1, c>>
           s == [c \in 1..n |-> x(c)]
           t == [c \in 1..n + 1 |-> x(c)]
<1>1. \A c \in Int : x(c) \in P
  OBVIOUS
<1>2. x(n + 1) = <<n, n + 1>>
  OBVIOUS
<1> HIDE DEF x, P
<1>3. s \in [1..n -> P] /\ t \in [1..n + 1 -> P]
  BY <1>1
<1>4. s \in Seq(P) /\ Len(s) = n /\ x(n + 1) \in P
  BY <1>1, <1>3, ListOf
<1> DEFINE u == Append(s, x(n + 1))
<1>5. /\ DOMAIN u = 1..n + 1 /\ u[n + 1] = x(n + 1)
      /\ \A k \in 1..n : u[k] = s[k]
      /\ u \in Seq(P) /\ Len(u) = n + 1
  <2> HIDE DEF s
  <2> QED BY <1>4, OneMore
<1>6. u \in [1..n + 1 -> P]
  <2> HIDE DEF u
  <2> QED BY <1>5, ElementsOf
<1> HIDE DEF u
<1>7. \A k \in 1..n + 1 : u[k] = t[k]
  <2>1. \A k \in 1..n + 1 : k \in 1..n \/ k = n + 1
    OBVIOUS
  <2> QED BY <1>5, <2>1
<1>8. u = t
  BY <1>3, <1>6, <1>7
<1> QED BY <1>2, <1>8 DEF u, x

LEMMA ChatOnCall ==
  ASSUME NEW lb, NEW T, NEW A, NEW B, NEW n \in Nat, NEW e, ChatFits(e, lb, T, A, n),
         NEW bit, lb = "index" => bit.index = n /\ bit.id = n + 1,
         bit.args \in Nat, \A k \in 1..n : B[k] = A[k],
         B[n + 1] = IF bit.args = None THEN {} ELSE {bit.args}
  PROVE  ChatFits(ChatDelta(e, CallDelta(bit)), lb, T, B, n + 1)
<1> DEFINE o == ChatDelta(e, CallDelta(bit))
           calls == e.heard.calls
           more == o.heard.calls
<1>1. /\ ChatEncoder(e, e.heard.text, e.heard.ids, calls)
      /\ e.heard.text \in Seq(Nat) /\ Told(e.heard.text, T)
  BY DEF ChatFits
<1>2. /\ ChatEncoder(o, o.heard.text, o.heard.ids, more)
      /\ o.heard.text = e.heard.text
      /\ o.heard.ids = IF bit.id = None THEN e.heard.ids
                       ELSE Append(e.heard.ids, <<bit.index, bit.id>>)
      /\ more = IF bit.args = None THEN calls
                ELSE Entered(calls, bit.index, Append(HeldAt(calls, bit.index), bit.args))
  BY <1>1, ChatPart
<1>3. ASSUME lb = "index" PROVE ChatGathers(o.heard, B, n + 1)
  <2>1. /\ e.heard.ids = [c \in 1..n |-> <<c - 1, c>>]
        /\ DOMAIN calls \subseteq 0..n - 1
        /\ \A c \in 1..n : /\ HeldAt(calls, c - 1) \in Seq(Nat)
                           /\ Told(HeldAt(calls, c - 1), A[c])
    BY <1>3 DEF ChatFits, ChatGathers
  <2>2. bit.index = n /\ bit.id = n + 1 /\ bit.id # None
    BY <1>3 DEF None
  <2> HIDE DEF o, calls, more
  <2>3. o.heard.ids = [c \in 1..n + 1 |-> <<c - 1, c>>]
    BY <1>2, <2>1, <2>2, IdsGrow
  <2>4. HeldAt(calls, n) = <<>>
    <3>1. n \notin 0..n - 1
      OBVIOUS
    <3> QED BY <2>1, <3>1 DEF HeldAt
  <2>5. \A k \in 0..n - 1 : HeldAt(more, k) = HeldAt(calls, k)
    BY <1>2, <2>2, EnteredAt
  <2>6. HeldAt(more, n) = IF bit.args = None THEN <<>> ELSE Append(<<>>, bit.args)
    BY <1>2, <2>2, <2>4, EnteredAt
  <2>7. HeldAt(more, n) \in Seq(Nat) /\ Told(HeldAt(more, n), B[n + 1])
    <3> DEFINE s == <<>>
               P == {}
    <3>1. s \in Seq(Nat) /\ Told(s, P) /\ Before(P, bit.args)
      BY NothingTold DEF Before
    <3> HIDE DEF s, P
    <3>2. Told(Append(s, bit.args), P \cup {bit.args}) /\ Append(s, bit.args) \in Seq(Nat)
      BY <3>1, ToldMore, OneMore
    <3>3. CASE bit.args = None
      BY <2>6, <3>1, <3>3 DEF s, P
    <3>4. CASE bit.args # None
      BY <2>6, <3>2, <3>4 DEF s, P
    <3> QED BY <3>3, <3>4
  <2>8. ASSUME NEW c \in 1..n + 1
        PROVE  HeldAt(more, c - 1) \in Seq(Nat) /\ Told(HeldAt(more, c - 1), B[c])
    <3>1. CASE c = n + 1
      BY <2>7, <3>1
    <3>2. CASE c # n + 1
      <4>1. c \in 1..n /\ c - 1 \in 0..n - 1
        BY <3>2
      <4> QED BY <2>1, <2>5, <4>1
    <3> QED BY <3>1, <3>2
  <2>9. DOMAIN more \subseteq 0..(n + 1) - 1
    <3>1. DOMAIN more \subseteq DOMAIN calls \cup {n}
      BY <1>2, <2>2 DEF Entered
    <3> QED BY <2>1, <3>1
  <2> QED BY <2>3, <2>8, <2>9 DEF ChatGathers, more
<1> HIDE DEF o
<1> QED BY <1>1, <1>2, <1>3 DEF ChatFits, o

LEMMA ChatOnArgs ==
  ASSUME NEW T, NEW A, NEW B, NEW n \in Nat, NEW e, ChatFits(e, "index", T, A, n),
         NEW c \in 1..n, NEW bit, bit.index = c - 1, bit.id = None,
         bit.args \in Nat, bit.args # None, NewPiece(A, B, n, c, bit.args)
  PROVE  ChatFits(ChatDelta(e, CallDelta(bit)), "index", T, B, n)
<1> DEFINE o == ChatDelta(e, CallDelta(bit))
           calls == e.heard.calls
           more == o.heard.calls
<1>1. /\ ChatEncoder(e, e.heard.text, e.heard.ids, calls)
      /\ e.heard.text \in Seq(Nat) /\ Told(e.heard.text, T)
  BY DEF ChatFits
<1>2. /\ ChatEncoder(o, o.heard.text, o.heard.ids, more)
      /\ o.heard.text = e.heard.text
      /\ o.heard.ids = e.heard.ids
      /\ more = Entered(calls, c - 1, Append(HeldAt(calls, c - 1), bit.args))
  BY <1>1, ChatPart
<1>3. ChatGathers(o.heard, B, n)
  <2>1. /\ e.heard.ids = [k \in 1..n |-> <<k - 1, k>>]
        /\ DOMAIN calls \subseteq 0..n - 1
        /\ \A k \in 1..n : /\ HeldAt(calls, k - 1) \in Seq(Nat)
                           /\ Told(HeldAt(calls, k - 1), A[k])
    BY DEF ChatFits, ChatGathers
  <2> HIDE DEF o, calls, more
  <2>2. /\ HeldAt(more, c - 1) = Append(HeldAt(calls, c - 1), bit.args)
        /\ \A k \in 1..n : k # c => HeldAt(more, k - 1) = HeldAt(calls, k - 1)
    <3> DEFINE at(k) == k - 1
    <3>1. \A k \in 1..n : k # c => at(k) # at(c)
      OBVIOUS
    <3> HIDE DEF more
    <3>2. more = Entered(calls, at(c), Append(HeldAt(calls, at(c)), bit.args))
      BY <1>2
    <3> HIDE DEF at
    <3>3. /\ HeldAt(more, at(c)) = Append(HeldAt(calls, at(c)), bit.args)
          /\ \A k \in 1..n : k # c => HeldAt(more, at(k)) = HeldAt(calls, at(k))
      <4> DEFINE v == Append(HeldAt(calls, at(c)), bit.args)
      <4>1. more = Entered(calls, at(c), v)
        BY <3>2
      <4> HIDE DEF v
      <4>2. HeldAt(more, at(c)) = v
        BY <4>1, EnteredAt
      <4>3. ASSUME NEW k \in 1..n, k # c PROVE HeldAt(more, at(k)) = HeldAt(calls, at(k))
        BY <3>1, <4>1, <4>3, EnteredAt
      <4> QED BY <4>2, <4>3 DEF v
    <3> QED BY <3>3 DEF at
  <2>3. HeldAt(more, c - 1) \in Seq(Nat) /\ Told(HeldAt(more, c - 1), B[c])
    <3> DEFINE s == HeldAt(calls, c - 1)
    <3>1. s \in Seq(Nat) /\ Told(s, A[c]) /\ Before(A[c], bit.args) /\ B[c] = A[c] \cup {bit.args}
      BY <2>1 DEF NewPiece
    <3> HIDE DEF s
    <3>2. Told(Append(s, bit.args), A[c] \cup {bit.args}) /\ Append(s, bit.args) \in Seq(Nat)
      BY <3>1, ToldMore, OneMore
    <3> QED BY <2>2, <3>1, <3>2 DEF s
  <2>4. \A k \in 1..n : k # c => HeldAt(more, k - 1) \in Seq(Nat) /\ Told(HeldAt(more, k - 1), B[k])
    BY <2>1, <2>2 DEF NewPiece
  <2>5. DOMAIN more \subseteq 0..n - 1
    <3>1. DOMAIN more \subseteq DOMAIN calls \cup {c - 1}
      BY <1>2 DEF Entered
    <3> QED BY <2>1, <3>1
  <2> QED BY <1>2, <2>1, <2>3, <2>4, <2>5 DEF ChatGathers, more
<1> HIDE DEF o
<1> QED BY <1>1, <1>2, <1>3 DEF ChatFits, o

-----------------------------------------------------------------------------
(* What a provider has said, of n calls.                                    *)
Speech == [kind : {"text", "call", "args"}, call : Nat]

HasSaid(s, n) ==
  /\ s \in Seq(Speech)
  /\ \A i \in 1..Len(s) : s[i].kind = "text" <=> s[i].call = 0
  /\ CallsOf(s) = 1..n

(* The call that may be gone on with, if any.                               *)
LastOf(s) == IF Len(s) = 0 THEN 0 ELSE s[Len(s)].call

LEMMA CountTo ==
  ASSUME NEW n \in Nat
  PROVE  Cardinality(1..n) = n
BY FS_Interval

LEMMA SpeechIs ==
  ASSUME NEW s, NEW n, HasSaid(s, n)
  PROVE  /\ Len(s) \in Nat /\ DOMAIN s = 1..Len(s)
         /\ \A i \in 1..Len(s) : /\ s[i].kind \in {"text", "call", "args"} /\ s[i].call \in Nat
                                 /\ s[i].kind = "text" <=> s[i].call = 0
                                 /\ s[i].kind # "text" => s[i].call \in 1..n
<1>1. Len(s) \in Nat /\ DOMAIN s = 1..Len(s) /\ \A i \in 1..Len(s) : s[i] \in Speech
  BY ElementsOf DEF HasSaid
<1>2. \A i \in 1..Len(s) : s[i].kind \in {"text", "call", "args"} /\ s[i].call \in Nat
  BY <1>1 DEF Speech
<1>3. \A i \in 1..Len(s) : s[i].call # 0 => s[i].call \in CallsOf(s)
  BY <1>1 DEF CallsOf
<1> QED BY <1>1, <1>2, <1>3 DEF HasSaid

LEMMA CallsAre ==
  ASSUME NEW n \in Nat, NEW s, HasSaid(s, n)
  PROVE  /\ Cardinality(CallsOf(s)) = n
         /\ CallListOf(s) = [c \in 1..n |-> ArgsOf(s, c)]
         /\ CallListOf(s) \in [1..n -> SUBSET Nat] /\ TextOf(s) \in SUBSET Nat
<1>1. Cardinality(CallsOf(s)) = n
  BY CountTo DEF HasSaid
<1>2. CallListOf(s) = [c \in 1..n |-> ArgsOf(s, c)]
  BY <1>1 DEF CallListOf
<1>3. \A i \in DOMAIN s : i \in Nat
  BY SpeechIs
<1>4. TextOf(s) \in SUBSET Nat /\ \A c \in 1..n : ArgsOf(s, c) \in SUBSET Nat
  BY <1>3 DEF TextOf, ArgsOf
<1> QED BY <1>1, <1>2, <1>4

(* A new piece is after all that was said.                                  *)
LEMMA SaidBefore ==
  ASSUME NEW n \in Nat, NEW s, HasSaid(s, n), NEW piece \in Nat, piece > Len(s)
  PROVE  Before(TextOf(s), piece) /\ \A c \in 1..n : Before(ArgsOf(s, c), piece)
BY SpeechIs DEF Before, TextOf, ArgsOf

(* One thing more is said.                                                  *)
LEMMA SaidMore ==
  ASSUME NEW n \in Nat, NEW s, HasSaid(s, n), NEW x \in Speech, x.kind = "text" <=> x.call = 0
  PROVE  LET t == Append(s, x)
         IN /\ t \in Seq(Speech) /\ Len(t) = Len(s) + 1
            /\ \A i \in 1..Len(t) : t[i].kind = "text" <=> t[i].call = 0
            /\ CallsOf(t) = IF x.kind = "text" THEN 1..n ELSE 1..n \cup {x.call}
            /\ TextOf(t) = IF x.kind = "text" THEN TextOf(s) \cup {Len(s) + 1} ELSE TextOf(s)
            /\ \A c : ArgsOf(t, c) = IF x.kind = "args" /\ x.call = c THEN ArgsOf(s, c) \cup {Len(s) + 1}
                                     ELSE ArgsOf(s, c)
            /\ Orderly(t) => Orderly(s) /\ (x.kind = "args" => LastOf(s) = x.call)
            /\ LastOf(t) = x.call
<1> DEFINE t == Append(s, x)
           m == Len(s)
<1>1. /\ m \in Nat /\ DOMAIN s = 1..m /\ Len(t) = m + 1 /\ DOMAIN t = 1..m + 1
      /\ t \in Seq(Speech)
      /\ \A i \in 1..m : t[i] = s[i]
      /\ t[m + 1] = x
  BY ElementsOf, OneMore DEF HasSaid
<1>2. \A i \in 1..m + 1 : i \in 1..m \/ i = m + 1
  BY <1>1
<1>3. m + 1 \in 1..m + 1 /\ m + 1 \notin 1..m /\ \A i \in 1..m : i \in 1..m + 1
  BY <1>1
<1>4. CallsOf(s) = 1..n /\ \A i \in 1..m : s[i].kind = "text" <=> s[i].call = 0
  BY DEF HasSaid
<1> HIDE DEF t
<1>5. \A i \in 1..Len(t) : t[i].kind = "text" <=> t[i].call = 0
  BY <1>1, <1>2, <1>4
<1>6. CallsOf(t) = IF x.kind = "text" THEN 1..n ELSE 1..n \cup {x.call}
  <2>1. \A k : k \in CallsOf(t) <=> k \in CallsOf(s) \/ (k = x.call /\ k # 0)
    <3> DEFINE has(u, k) == \E i \in DOMAIN u : u[i].call = k
    <3>1. \A u, k : k \in CallsOf(u) <=> has(u, k) /\ k # 0
      BY DEF CallsOf
    <3>2. \A k : has(t, k) <=> has(s, k) \/ k = x.call
      BY <1>1, <1>2, <1>3
    <3> HIDE DEF has
    <3> QED BY <3>1, <3>2
  <2>2. CASE x.kind = "text"
    BY <1>4, <2>1, <2>2
  <2>3. CASE x.kind # "text"
    BY <1>4, <2>1, <2>3
  <2> QED BY <2>2, <2>3
<1>7. TextOf(t) = IF x.kind = "text" THEN TextOf(s) \cup {m + 1} ELSE TextOf(s)
  <2>1. \A i : i \in TextOf(t) <=> i \in TextOf(s) \/ (i = m + 1 /\ x.kind = "text")
    BY <1>1, <1>2, <1>3 DEF TextOf
  <2> QED BY <2>1
<1>8. ASSUME NEW c
      PROVE  ArgsOf(t, c) = IF x.kind = "args" /\ x.call = c THEN ArgsOf(s, c) \cup {m + 1}
                            ELSE ArgsOf(s, c)
  <2>1. \A i : i \in ArgsOf(t, c) <=> i \in ArgsOf(s, c) \/ (i = m + 1 /\ x.kind = "args" /\ x.call = c)
    BY <1>1, <1>2, <1>3 DEF ArgsOf
  <2> QED BY <2>1
<1>9. ASSUME Orderly(t) PROVE Orderly(s)
  <2> SUFFICES ASSUME NEW i \in 1..m, s[i].kind = "args"
               PROVE  i > 1 /\ s[i-1].kind # "text" /\ s[i-1].call = s[i].call
    BY <1>1 DEF Orderly
  <2>1. i \in 1..m + 1 /\ t[i] = s[i]
    BY <1>1, <1>3
  <2>2. i > 1 /\ t[i-1].kind # "text" /\ t[i-1].call = t[i].call
    BY <1>1, <1>9, <2>1 DEF Orderly
  <2>3. i - 1 \in 1..m
    BY <1>1, <2>2
  <2> QED BY <1>1, <2>1, <2>2, <2>3
<1>10. ASSUME Orderly(t), x.kind = "args" PROVE LastOf(s) = x.call
  <2>1. m + 1 > 1 /\ t[(m + 1) - 1].call = x.call
    BY <1>1, <1>3, <1>10 DEF Orderly
  <2>2. (m + 1) - 1 = m /\ m \in 1..m /\ m # 0
    BY <1>1, <2>1
  <2> QED BY <1>1, <2>1, <2>2 DEF LastOf
<1>11. LastOf(t) = x.call
  BY <1>1 DEF LastOf
<1> QED BY <1>1, <1>5, <1>6, <1>7, <1>8, <1>9, <1>10, <1>11 DEF t

(* Text, the beginning of a call, more of a call, a whole call.             *)
LEMMA SaidText ==
  ASSUME NEW n \in Nat, NEW s, HasSaid(s, n)
  PROVE  LET t == Append(s, Text)
         IN /\ HasSaid(t, n) /\ Len(t) = Len(s) + 1
            /\ TextOf(t) = TextOf(s) \cup {Len(s) + 1} /\ CallListOf(t) = CallListOf(s)
            /\ Orderly(t) => Orderly(s)
            /\ LastOf(t) = 0
<1> DEFINE x == Text
           t == Append(s, x)
<1>1. x \in Speech /\ x.kind = "text" /\ x.call = 0
  BY DEF Text, Speech
<1> HIDE DEF x
<1>2. /\ t \in Seq(Speech) /\ Len(t) = Len(s) + 1
      /\ \A i \in 1..Len(t) : t[i].kind = "text" <=> t[i].call = 0
      /\ CallsOf(t) = 1..n
      /\ TextOf(t) = TextOf(s) \cup {Len(s) + 1}
      /\ \A c : ArgsOf(t, c) = ArgsOf(s, c)
      /\ Orderly(t) => Orderly(s)
      /\ LastOf(t) = 0
  BY <1>1, SaidMore
<1> HIDE DEF t
<1>3. HasSaid(t, n)
  BY <1>2 DEF HasSaid
<1>4. CallListOf(t) = CallListOf(s)
  <2>1. CallListOf(t) = [c \in 1..n |-> ArgsOf(t, c)] /\ CallListOf(s) = [c \in 1..n |-> ArgsOf(s, c)]
    BY <1>3, CallsAre
  <2> QED BY <1>2, <2>1
<1> QED BY <1>2, <1>3, <1>4 DEF t, x

LEMMA SaidCall ==
  ASSUME NEW n \in Nat, NEW s, HasSaid(s, n)
  PROVE  LET t == Append(s, Call(n + 1))
         IN /\ HasSaid(t, n + 1) /\ Len(t) = Len(s) + 1
            /\ TextOf(t) = TextOf(s)
            /\ \A k \in 1..n : CallListOf(t)[k] = CallListOf(s)[k]
            /\ CallListOf(t)[n + 1] = {}
            /\ Orderly(t) => Orderly(s)
            /\ LastOf(t) = n + 1
<1> DEFINE x == Call(n + 1)
           t == Append(s, x)
<1>1. x \in Speech /\ x.kind = "call" /\ x.call = n + 1 /\ (x.kind = "text" <=> x.call = 0)
  BY DEF Call, Speech
<1> HIDE DEF x
<1>2. /\ t \in Seq(Speech) /\ Len(t) = Len(s) + 1
      /\ \A i \in 1..Len(t) : t[i].kind = "text" <=> t[i].call = 0
      /\ CallsOf(t) = 1..n \cup {n + 1}
      /\ TextOf(t) = TextOf(s)
      /\ \A c : ArgsOf(t, c) = ArgsOf(s, c)
      /\ Orderly(t) => Orderly(s)
      /\ LastOf(t) = n + 1
  BY <1>1, SaidMore
<1> HIDE DEF t
<1>3. 1..n \cup {n + 1} = 1..n + 1
  OBVIOUS
<1>4. HasSaid(t, n + 1)
  BY <1>2, <1>3 DEF HasSaid
<1>5. CallListOf(t) = [c \in 1..n + 1 |-> ArgsOf(t, c)] /\ CallListOf(s) = [c \in 1..n |-> ArgsOf(s, c)]
  BY <1>4, CallsAre
<1>6. ArgsOf(s, n + 1) = {}
  <2>1. \A i \in 1..Len(s) : s[i].call \notin {n + 1}
    BY SpeechIs
  <2> QED BY <2>1, SpeechIs DEF ArgsOf
<1>7. \A k \in 1..n : CallListOf(t)[k] = CallListOf(s)[k]
  BY <1>2, <1>5
<1>8. CallListOf(t)[n + 1] = {}
  BY <1>2, <1>5, <1>6
<1> QED BY <1>2, <1>4, <1>7, <1>8 DEF t, x

LEMMA SaidArgs ==
  ASSUME NEW n \in Nat, NEW s, HasSaid(s, n), NEW c \in 1..n
  PROVE  LET t == Append(s, Args(c))
         IN /\ HasSaid(t, n) /\ Len(t) = Len(s) + 1
            /\ TextOf(t) = TextOf(s)
            /\ NewPiece(CallListOf(s), CallListOf(t), n, c, Len(s) + 1)
            /\ Orderly(t) => Orderly(s) /\ LastOf(s) = c
            /\ LastOf(t) = c
<1> DEFINE x == Args(c)
           t == Append(s, x)
<1>1. x \in Speech /\ x.kind = "args" /\ x.call = c /\ (x.kind = "text" <=> x.call = 0)
  BY DEF Args, Speech
<1> HIDE DEF x
<1>2. /\ t \in Seq(Speech) /\ Len(t) = Len(s) + 1
      /\ \A i \in 1..Len(t) : t[i].kind = "text" <=> t[i].call = 0
      /\ CallsOf(t) = 1..n \cup {c}
      /\ TextOf(t) = TextOf(s)
      /\ \A k : ArgsOf(t, k) = IF k = c THEN ArgsOf(s, k) \cup {Len(s) + 1} ELSE ArgsOf(s, k)
      /\ Orderly(t) => Orderly(s) /\ LastOf(s) = c
      /\ LastOf(t) = c
  BY <1>1, SaidMore
<1> HIDE DEF t
<1>3. HasSaid(t, n)
  BY <1>2 DEF HasSaid
<1>4. CallListOf(t) = [k \in 1..n |-> ArgsOf(t, k)] /\ CallListOf(s) = [k \in 1..n |-> ArgsOf(s, k)]
  BY <1>3, CallsAre
<1>5. Len(s) + 1 \in Nat /\ Len(s) + 1 > Len(s)
  BY SpeechIs
<1>6. Before(ArgsOf(s, c), Len(s) + 1)
  BY <1>5, SaidBefore
<1>7. NewPiece(CallListOf(s), CallListOf(t), n, c, Len(s) + 1)
  BY <1>2, <1>4, <1>6 DEF NewPiece
<1> QED BY <1>2, <1>3, <1>7 DEF t, x

LEMMA SaidWhole ==
  ASSUME NEW n \in Nat, NEW s, HasSaid(s, n)
  PROVE  LET t == Whole(s, n + 1)
         IN /\ HasSaid(t, n + 1) /\ Len(t) = Len(s) + 2
            /\ TextOf(t) = TextOf(s)
            /\ \A k \in 1..n : CallListOf(t)[k] = CallListOf(s)[k]
            /\ CallListOf(t)[n + 1] = {Len(s) + 2}
            /\ Orderly(t) => Orderly(s)
            /\ LastOf(t) = n + 1
<1> DEFINE u == Append(s, Call(n + 1))
           t == Append(u, Args(n + 1))
<1>1. /\ HasSaid(u, n + 1) /\ Len(u) = Len(s) + 1
      /\ TextOf(u) = TextOf(s)
      /\ \A k \in 1..n : CallListOf(u)[k] = CallListOf(s)[k]
      /\ CallListOf(u)[n + 1] = {}
      /\ Orderly(u) => Orderly(s)
  BY SaidCall
<1> HIDE DEF u
<1>2. n + 1 \in Nat /\ n + 1 \in 1..n + 1 /\ \A k \in 1..n : k \in 1..n + 1 /\ k # n + 1
  OBVIOUS
<1>3. /\ HasSaid(t, n + 1) /\ Len(t) = Len(u) + 1
      /\ TextOf(t) = TextOf(u)
      /\ NewPiece(CallListOf(u), CallListOf(t), n + 1, n + 1, Len(u) + 1)
      /\ Orderly(t) => Orderly(u)
      /\ LastOf(t) = n + 1
  BY <1>1, <1>2, SaidArgs
<1>4. Len(u) + 1 = Len(s) + 2
  BY <1>1, SpeechIs
<1> HIDE DEF t
<1>5. \A k \in 1..n : CallListOf(t)[k] = CallListOf(s)[k]
  BY <1>1, <1>2, <1>3 DEF NewPiece
<1>6. CallListOf(t)[n + 1] = {Len(s) + 2}
  BY <1>1, <1>3, <1>4 DEF NewPiece
<1> QED BY <1>1, <1>3, <1>4, <1>5, <1>6 DEF t, u, Whole

-----------------------------------------------------------------------------
(* The adapter's index counts the calls.                                    *)
EmittedOf(a) == Cardinality({b \in DOMAIN a : a[b] # NoIndex})

Indexed(a, n) ==
  /\ a \in Seq(Int)
  /\ EmittedOf(a) = n
  /\ IsFiniteSet({b \in DOMAIN a : a[b] # NoIndex})
  /\ Len(a) > 0 /\ a[Len(a)] # NoIndex => n > 0 /\ a[Len(a)] = n - 1

(* A block that is a call is counted, another is not.                       *)
LEMMA IndexedNext ==
  ASSUME NEW n \in Nat, NEW a, Indexed(a, n), NEW x \in {n, NoIndex},
         NEW m \in Nat, m = IF x = NoIndex THEN n ELSE n + 1
  PROVE  Indexed(Append(a, x), m)
<1> DEFINE b == Append(a, x)
           P == {i \in DOMAIN a : a[i] # NoIndex}
           Q == {i \in DOMAIN b : b[i] # NoIndex}
           k == Len(a)
<1>1. x \in Int /\ (x = NoIndex <=> x # n)
  BY DEF NoIndex
<1>2. /\ k \in Nat /\ DOMAIN a = 1..k /\ DOMAIN b = 1..k + 1 /\ Len(b) = k + 1
      /\ b \in Seq(Int)
      /\ \A i \in 1..k : b[i] = a[i]
      /\ b[k + 1] = x
  BY <1>1, ElementsOf, OneMore DEF Indexed
<1>3. IsFiniteSet(P) /\ Cardinality(P) = n
  BY DEF Indexed, EmittedOf
<1> HIDE DEF b
<1>4. Q = IF x = NoIndex THEN P ELSE P \cup {k + 1}
  <2>1. \A i : i \in Q <=> i \in P \/ (i = k + 1 /\ x # NoIndex)
    BY <1>2
  <2> HIDE DEF P, Q
  <2> QED BY <2>1
<1>5. k + 1 \notin P
  BY <1>2
<1> HIDE DEF P, k
<1>6. IsFiniteSet(Q) /\ Cardinality(Q) = m
  <2> HIDE DEF Q
  <2>1. IsFiniteSet(P \cup {k + 1}) /\ Cardinality(P \cup {k + 1}) = n + 1
    BY <1>3, <1>5, FS_AddElement
  <2> QED BY <1>3, <1>4, <2>1
<1>7. Len(b) > 0 /\ b[Len(b)] # NoIndex => m > 0 /\ b[Len(b)] = m - 1
  BY <1>1, <1>2
<1> QED BY <1>2, <1>6, <1>7 DEF Indexed, EmittedOf, b, k

-----------------------------------------------------------------------------
(* The encoder of a dialect d fits what was said.                           *)
Encodes(d, e, lb, T, A, n, f, tidy, last) ==
  /\ d \in {"anthropic", "responses", "ollama", "chat"}
  /\ d = "anthropic" => AnthropicHolds(e, lb, T, A, n, f, tidy, last)
  /\ d = "responses" => ResponsesHolds(e, lb, T, A, n, f, tidy, last)
  /\ d = "ollama" => OllamaFits(e, T, A, n, f)
  /\ d = "chat" => ChatFits(e, lb, T, A, n)

WithCall(A, B, n, args) ==
  /\ \A k \in 1..n : B[k] = A[k]
  /\ B[n + 1] = IF args = None THEN {} ELSE {args}

(* What holds of a tidy stream holds of a stream that is tidier.            *)
LEMMA EncodesLess ==
  ASSUME NEW d, NEW e, NEW lb, NEW T, NEW A, NEW n, NEW f, NEW tidy, NEW last,
         Encodes(d, e, lb, T, A, n, f, tidy, last),
         NEW tidier, NEW later, tidier => tidy, later = last \/ later = 0
  PROVE  Encodes(d, e, lb, T, A, n, f, tidier, later)
BY DEF Encodes, AnthropicHolds, ResponsesHolds

(* Each delta, in whatever dialect.                                         *)
LEMMA EncodedText ==
  ASSUME NEW lb, NEW T, NEW A, NEW n \in Nat, NEW f, NEW tidy, NEW last, NEW e,
         Encodes(dialect, e, lb, T, A, n, f, tidy, last),
         NEW piece \in Nat, piece # None, Before(T, piece)
  PROVE  Encodes(dialect, Encoded(e, TextDelta(piece)), lb, T \cup {piece}, A, n, f, tidy, 0)
<1> DEFINE o == Encoded(e, TextDelta(piece))
           more == T \cup {piece}
<1>1. dialect = "anthropic" => AnthropicHolds(o, lb, more, A, n, f, tidy, 0)
  BY AnthropicOnText DEF Encodes, Encoded
<1>2. dialect = "responses" => ResponsesHolds(o, lb, more, A, n, f, tidy, 0)
  BY ResponsesOnText DEF Encodes, Encoded
<1>3. dialect = "ollama" => OllamaFits(o, more, A, n, f)
  BY OllamaOnText DEF Encodes, Encoded
<1>4. dialect = "chat" => ChatFits(o, lb, more, A, n)
  BY ChatOnText DEF Encodes, Encoded
<1> HIDE DEF o, more
<1> QED BY <1>1, <1>2, <1>3, <1>4 DEF Encodes, o, more

LEMMA EncodedCall ==
  ASSUME NEW lb \in Labels, NEW T, NEW A, NEW B, NEW n \in Nat, NEW f, NEW tidy, NEW last, NEW e,
         Encodes(dialect, e, lb, T, A, n, f, tidy, last),
         NEW bit, Marks(lb, bit, n + 1), lb = "index" => bit.index = n /\ bit.id = n + 1,
         bit.args \in Nat, WithCall(A, B, n, bit.args)
  PROVE  Encodes(dialect, Encoded(e, CallDelta(bit)), lb, T, B, n + 1, f, tidy, n + 1)
<1> DEFINE o == Encoded(e, CallDelta(bit))
<1>0. (\A k \in 1..n : B[k] = A[k]) /\ B[n + 1] = IF bit.args = None THEN {} ELSE {bit.args}
  BY DEF WithCall
<1>1. dialect = "anthropic" => AnthropicHolds(o, lb, T, B, n + 1, f, tidy, n + 1)
  BY <1>0, AnthropicOnCall DEF Encodes, Encoded
<1>2. dialect = "responses" => ResponsesHolds(o, lb, T, B, n + 1, f, tidy, n + 1)
  BY <1>0, ResponsesOnCall DEF Encodes, Encoded
<1>3. dialect = "ollama" => OllamaFits(o, T, B, n + 1, f)
  BY <1>0, OllamaOnCall DEF Encodes, Encoded
<1>4. dialect = "chat" => ChatFits(o, lb, T, B, n + 1)
  BY <1>0, ChatOnCall DEF Encodes, Encoded
<1> HIDE DEF o
<1> QED BY <1>1, <1>2, <1>3, <1>4 DEF Encodes, o

LEMMA EncodedArgs ==
  ASSUME NEW T, NEW A, NEW B, NEW n \in Nat, NEW f, NEW tidy, NEW last, NEW e,
         Encodes(dialect, e, "index", T, A, n, f, tidy, last),
         NEW c \in 1..n, NEW bit, bit.index = c - 1, bit.id = None,
         bit.args \in Nat, bit.args # None, NewPiece(A, B, n, c, bit.args),
         NEW tidier, tidier => tidy /\ last = c
  PROVE  Encodes(dialect, Encoded(e, CallDelta(bit)), "index", T, B, n, f, tidier, c)
<1> DEFINE o == Encoded(e, CallDelta(bit))
           lb == "index"
<1>0. lb \in Labels /\ lb # "none" /\ Marks(lb, bit, c)
  BY DEF Labels, Marks
<1>1. dialect = "anthropic" => AnthropicHolds(o, lb, T, B, n, f, tidier, c)
  BY <1>0, AnthropicOnArgs DEF Encodes, Encoded
<1>2. dialect = "responses" => ResponsesHolds(o, lb, T, B, n, f, tidier, c)
  BY <1>0, ResponsesOnArgs DEF Encodes, Encoded
<1>3. dialect = "ollama" => OllamaFits(o, T, B, n, f)
  BY OllamaOnArgs DEF Encodes, Encoded
<1>4. dialect = "chat" => ChatFits(o, lb, T, B, n)
  BY ChatOnArgs DEF Encodes, Encoded
<1> HIDE DEF o
<1> QED BY <1>1, <1>2, <1>3, <1>4 DEF Encodes, o

LEMMA EncodedFinish ==
  ASSUME NEW lb, NEW T, NEW A, NEW n \in Nat, NEW f, NEW tidy, NEW last, NEW e,
         Encodes(dialect, e, lb, T, A, n, f, tidy, last), NEW g \in Ends, g # "none"
  PROVE  Encodes(dialect, Encoded(e, FinishDelta(g)), lb, T, A, n, g, tidy, last)
<1> DEFINE o == Encoded(e, FinishDelta(g))
<1>1. dialect = "anthropic" => AnthropicHolds(o, lb, T, A, n, g, tidy, last)
  BY AnthropicOnFinish DEF Encodes, Encoded
<1>2. dialect = "responses" => ResponsesHolds(o, lb, T, A, n, g, tidy, last)
  BY ResponsesOnFinish DEF Encodes, Encoded
<1>3. dialect = "ollama" => OllamaFits(o, T, A, n, g)
  BY OllamaOnFinish DEF Encodes, Encoded
<1>4. dialect = "chat" => ChatFits(o, lb, T, A, n)
  BY DEF Encodes, Encoded, ChatDelta, FinishDelta, None
<1> HIDE DEF o
<1> QED BY <1>1, <1>2, <1>3, <1>4 DEF Encodes, o

LEMMA EncodedIdle ==
  ASSUME NEW lb, NEW T, NEW A, NEW n \in Nat, NEW f, NEW tidy, NEW last, NEW e,
         Encodes(dialect, e, lb, T, A, n, f, tidy, last)
  PROVE  Encodes(dialect, Idle(e), lb, T, A, n, f, tidy, last)
BY AnthropicOnIdle DEF Encodes, Idle

-----------------------------------------------------------------------------
(* What is promised of a stream, whose reply is r and whose blocks, had it   *)
(* not been streamed, are rb.                                               *)
Kept(d, s, ph, e) ==
  d # "chat" =>
    /\ d = "ollama" \/ Orderly(s) => e.heard.ok
    /\ ph = "closed" => e.heard.over /\ e.heard.open = None

Same(p, s, rs, lb, d, ph, e) ==
  LET r == normalizedResponse(p, s, rs)
  IN IF d = "chat" THEN SameToChat(lb, e.heard, r) ELSE SameReply(d, ph, e.heard, r)

FinishIs(p, rs, n) == IF rs = "none" THEN "none" ELSE finishOf(p, rs, n > 0)

(* Blocks that say all there was to say.                                    *)
AllSaid(b, d, ph, T, A, n) ==
  /\ b \in Seq(StreamBlock) /\ TextTold(b, T)
  /\ d # "ollama" \/ ph = "closed" => \E at : CallsPlaced(b, A, n, at)

(* The reply in one piece: its text, its calls, and why it finished.        *)
LEMMA ReplyGiven ==
  ASSUME NEW p, NEW n \in Nat, NEW s, HasSaid(s, n), NEW rs
  PROVE  LET r == normalizedResponse(p, s, rs)
         IN /\ r.text = TextOf(s) /\ r.calls = CallListOf(s)
            /\ CallListOf(s) # <<>> <=> n > 0
            /\ r.finish = IF rs = "none" THEN "stop" ELSE FinishIs(p, rs, n)
<1>1. CallListOf(s) # <<>> <=> n > 0
  <2> DEFINE A == CallListOf(s)
  <2>1. DOMAIN A = 1..n
    BY CallsAre
  <2> HIDE DEF A
  <2>2. A = <<>> => n = 0
    <3>1. A = <<>> => DOMAIN A = {}
      OBVIOUS
    <3>2. n > 0 => 1 \in 1..n
      OBVIOUS
    <3> QED BY <2>1, <3>1, <3>2
  <2>3. n = 0 => CallListOf(s) = <<>>
    <3> SUFFICES ASSUME n = 0 PROVE CallListOf(s) = <<>>
      OBVIOUS
    <3>1. CallListOf(s) = [c \in 1..0 |-> ArgsOf(s, c)]
      BY CallsAre
    <3> QED BY <3>1
  <2> QED BY <2>2, <2>3 DEF A
<1>2. (n > 0) = (CallListOf(s) # <<>>)
  BY <1>1
<1> QED BY <1>1, <1>2 DEF normalizedResponse, fromContent, FinishIs

(* Blocks that say all there was to say are the reply's.                    *)
LEMMA SameText ==
  ASSUME NEW p, NEW n \in Nat, NEW s, HasSaid(s, n), NEW rs, NEW lb,
         NEW d \in {"anthropic", "responses", "ollama"}, NEW ph, NEW e,
         AllSaid(e.heard.blocks, d, ph, TextOf(s), CallListOf(s), n),
         LET r == normalizedResponse(p, s, rs)
         IN ph = "closed" => \/ e.heard.finish = Buffered(d, r).finish
                             \/ d = "responses" /\ r.finish = "length" /\ e.heard.finish = "incomplete"
  PROVE  Same(p, s, rs, lb, d, ph, e)
<1> DEFINE r == normalizedResponse(p, s, rs)
           rb == ReplyBlocks(r)
           b == e.heard.blocks
           T == TextOf(s)
           A == CallListOf(s)
<1>1. r.text = T /\ r.calls = A
  BY ReplyGiven
<1>2. T \in SUBSET Nat /\ A \in [1..n -> SUBSET Nat]
  BY CallsAre
<1>3. Buffered(d, r).blocks = rb
  BY DEF Buffered, toAnthropicResponse, toResponsesResponse, toOllamaResponse
<1>4. PICK k \in {0, 1} : ReplyShape(rb, T, A, n, k)
  <2> HIDE DEF r, T, A
  <2> QED BY <1>1, <1>2, ReplyIs
<1>5. /\ b \in Seq(StreamBlock) /\ TextTold(b, T)
      /\ d # "ollama" \/ ph = "closed" => \E at : CallsPlaced(b, A, n, at)
  BY DEF AllSaid
<1>6. TextTold(b, TextIn(rb))
  <2> HIDE DEF rb, b, T, A
  <2> QED BY <1>4, <1>5, ReplyTold
<1>7. d # "ollama" \/ ph = "closed" => CallsTold(b, rb)
  <2> HIDE DEF rb, b, T, A
  <2> QED BY <1>4, <1>5, CallsAreTold
<1>8. SameReply(d, ph, e.heard, r)
  <2>1. ph = "closed" => \/ e.heard.finish = Buffered(d, r).finish
                         \/ d = "responses" /\ r.finish = "length" /\ e.heard.finish = "incomplete"
    OBVIOUS
  <2> HIDE DEF r, rb
  <2> QED BY <1>3, <1>6, <1>7, <2>1 DEF SameReply
<1> QED BY <1>8 DEF Same

-----------------------------------------------------------------------------
(* The encoder fits all that was said so far.                               *)
EncodesSaid(d, e, lb, s, n, f) ==
  /\ HasSaid(s, n)
  /\ Encodes(d, e, lb, TextOf(s), CallListOf(s), n, f, Orderly(s), LastOf(s))

(* What a provider may say, and what the encoder makes of it.               *)
LEMMA SaysText ==
  ASSUME NEW lb, NEW n \in Nat, NEW f, NEW s, NEW e, EncodesSaid(dialect, e, lb, s, n, f)
  PROVE  EncodesSaid(dialect, Encoded(e, TextDelta(Len(s) + 1)), lb, Append(s, Text), n, f)
<1> DEFINE t == Append(s, Text)
           k == Len(s) + 1
           o == Encoded(e, TextDelta(k))
<1>1. HasSaid(s, n) /\ Encodes(dialect, e, lb, TextOf(s), CallListOf(s), n, f, Orderly(s), LastOf(s))
  BY DEF EncodesSaid
<1>2. k \in Nat /\ k # None /\ k > Len(s)
  BY <1>1, SpeechIs DEF None
<1>3. /\ HasSaid(t, n) /\ TextOf(t) = TextOf(s) \cup {k} /\ CallListOf(t) = CallListOf(s)
      /\ Orderly(t) => Orderly(s)
      /\ LastOf(t) = 0
  BY <1>1, SaidText
<1> HIDE DEF t, k
<1>4. Before(TextOf(s), k)
  BY <1>1, <1>2, SaidBefore
<1>5. Encodes(dialect, o, lb, TextOf(s) \cup {k}, CallListOf(s), n, f, Orderly(s), 0)
  BY <1>1, <1>2, <1>4, EncodedText
<1> HIDE DEF o
<1>6. Encodes(dialect, o, lb, TextOf(s) \cup {k}, CallListOf(s), n, f, Orderly(t), 0)
  BY <1>3, <1>5, EncodesLess
<1> QED BY <1>3, <1>6 DEF EncodesSaid, t, k, o

LEMMA SaysCall ==
  ASSUME NEW lb \in Labels, NEW n \in Nat, NEW f, NEW s, NEW e, EncodesSaid(dialect, e, lb, s, n, f),
         NEW bit, Marks(lb, bit, n + 1), lb = "index" => bit.index = n /\ bit.id = n + 1,
         bit.args = None
  PROVE  EncodesSaid(dialect, Encoded(e, CallDelta(bit)), lb, Append(s, Call(n + 1)), n + 1, f)
<1> DEFINE t == Append(s, Call(n + 1))
           o == Encoded(e, CallDelta(bit))
<1>1. HasSaid(s, n) /\ Encodes(dialect, e, lb, TextOf(s), CallListOf(s), n, f, Orderly(s), LastOf(s))
  BY DEF EncodesSaid
<1>2. /\ HasSaid(t, n + 1) /\ TextOf(t) = TextOf(s)
      /\ \A k \in 1..n : CallListOf(t)[k] = CallListOf(s)[k]
      /\ CallListOf(t)[n + 1] = {}
      /\ Orderly(t) => Orderly(s)
      /\ LastOf(t) = n + 1
  BY <1>1, SaidCall
<1> HIDE DEF t
<1>3. bit.args \in Nat /\ WithCall(CallListOf(s), CallListOf(t), n, bit.args)
  BY <1>2 DEF WithCall, None
<1>4. Encodes(dialect, o, lb, TextOf(s), CallListOf(t), n + 1, f, Orderly(s), n + 1)
  BY <1>1, <1>3, EncodedCall
<1> HIDE DEF o
<1>5. Encodes(dialect, o, lb, TextOf(s), CallListOf(t), n + 1, f, Orderly(t), n + 1)
  BY <1>2, <1>4, EncodesLess
<1> QED BY <1>2, <1>5 DEF EncodesSaid, t, o

LEMMA SaysArgs ==
  ASSUME NEW n \in Nat, NEW f, NEW s, NEW e, EncodesSaid(dialect, e, "index", s, n, f),
         NEW c \in 1..n, NEW bit, bit.index = c - 1, bit.id = None, bit.args = Len(s) + 1
  PROVE  EncodesSaid(dialect, Encoded(e, CallDelta(bit)), "index", Append(s, Args(c)), n, f)
<1> DEFINE t == Append(s, Args(c))
           o == Encoded(e, CallDelta(bit))
<1>1. HasSaid(s, n) /\ Encodes(dialect, e, "index", TextOf(s), CallListOf(s), n, f, Orderly(s), LastOf(s))
  BY DEF EncodesSaid
<1>2. /\ HasSaid(t, n) /\ TextOf(t) = TextOf(s)
      /\ NewPiece(CallListOf(s), CallListOf(t), n, c, bit.args)
      /\ Orderly(t) => Orderly(s) /\ LastOf(s) = c
      /\ LastOf(t) = c
  BY <1>1, SaidArgs
<1> HIDE DEF t
<1>3. bit.args \in Nat /\ bit.args # None
  BY <1>1, SpeechIs DEF None
<1>4. Encodes(dialect, o, "index", TextOf(s), CallListOf(t), n, f, Orderly(t), c)
  BY <1>1, <1>2, <1>3, EncodedArgs
<1> QED BY <1>2, <1>4 DEF EncodesSaid, t, o

LEMMA SaysWhole ==
  ASSUME NEW lb \in Labels, NEW n \in Nat, NEW f, NEW s, NEW e, EncodesSaid(dialect, e, lb, s, n, f),
         NEW bit, Marks(lb, bit, n + 1), lb = "index" => bit.index = n /\ bit.id = n + 1,
         bit.args = Len(s) + 2
  PROVE  EncodesSaid(dialect, Encoded(e, CallDelta(bit)), lb, Whole(s, n + 1), n + 1, f)
<1> DEFINE t == Whole(s, n + 1)
           o == Encoded(e, CallDelta(bit))
<1>1. HasSaid(s, n) /\ Encodes(dialect, e, lb, TextOf(s), CallListOf(s), n, f, Orderly(s), LastOf(s))
  BY DEF EncodesSaid
<1>2. /\ HasSaid(t, n + 1) /\ TextOf(t) = TextOf(s)
      /\ \A k \in 1..n : CallListOf(t)[k] = CallListOf(s)[k]
      /\ CallListOf(t)[n + 1] = {bit.args}
      /\ Orderly(t) => Orderly(s)
      /\ LastOf(t) = n + 1
  BY <1>1, SaidWhole
<1> HIDE DEF t
<1>3. bit.args \in Nat /\ bit.args # None
  BY <1>1, SpeechIs DEF None
<1>4. WithCall(CallListOf(s), CallListOf(t), n, bit.args)
  BY <1>2, <1>3 DEF WithCall
<1>5. Encodes(dialect, o, lb, TextOf(s), CallListOf(t), n + 1, f, Orderly(s), n + 1)
  BY <1>1, <1>3, <1>4, EncodedCall
<1> HIDE DEF o
<1>6. Encodes(dialect, o, lb, TextOf(s), CallListOf(t), n + 1, f, Orderly(t), n + 1)
  BY <1>2, <1>5, EncodesLess
<1> QED BY <1>2, <1>6 DEF EncodesSaid, t, o

(* The call was said before the text and is sent after it.                  *)
LEMMA SaysBoth ==
  ASSUME NEW lb \in Labels, NEW n \in Nat, NEW f, NEW s, NEW e, EncodesSaid(dialect, e, lb, s, n, f),
         NEW bit, Marks(lb, bit, n + 1), lb = "index" => bit.index = n /\ bit.id = n + 1,
         bit.args = Len(s) + 2
  PROVE  EncodesSaid(dialect, Encoded(Encoded(e, TextDelta(Len(s) + 3)), CallDelta(bit)),
                     lb, Append(Whole(s, n + 1), Text), n + 1, f)
<1> DEFINE w == Whole(s, n + 1)
           t == Append(w, Text)
           k == Len(s) + 3
           o == Encoded(e, TextDelta(k))
           q == Encoded(o, CallDelta(bit))
<1>1. HasSaid(s, n) /\ Encodes(dialect, e, lb, TextOf(s), CallListOf(s), n, f, Orderly(s), LastOf(s))
  BY DEF EncodesSaid
<1>2. /\ HasSaid(w, n + 1) /\ TextOf(w) = TextOf(s) /\ Len(w) = Len(s) + 2
      /\ \A c \in 1..n : CallListOf(w)[c] = CallListOf(s)[c]
      /\ CallListOf(w)[n + 1] = {bit.args}
      /\ Orderly(w) => Orderly(s)
  BY <1>1, SaidWhole
<1> HIDE DEF w
<1>3. /\ bit.args \in Nat /\ bit.args # None
      /\ k \in Nat /\ k # None /\ k > Len(s) /\ Len(w) + 1 = k
  BY <1>1, <1>2, SpeechIs DEF None
<1> HIDE DEF k
<1>4. /\ HasSaid(t, n + 1) /\ TextOf(t) = TextOf(s) \cup {k} /\ CallListOf(t) = CallListOf(w)
      /\ Orderly(t) => Orderly(w)
      /\ LastOf(t) = 0
  <2>1. n + 1 \in Nat
    OBVIOUS
  <2> QED BY <1>2, <1>3, <2>1, SaidText
<1> HIDE DEF t
<1>5. WithCall(CallListOf(s), CallListOf(t), n, bit.args)
  BY <1>2, <1>3, <1>4 DEF WithCall
<1>6. Before(TextOf(s), k)
  BY <1>1, <1>3, SaidBefore
<1>7. Encodes(dialect, o, lb, TextOf(s) \cup {k}, CallListOf(s), n, f, Orderly(s), 0)
  BY <1>1, <1>3, <1>6, EncodedText
<1> HIDE DEF o
<1>8. Encodes(dialect, q, lb, TextOf(s) \cup {k}, CallListOf(t), n + 1, f, Orderly(s), n + 1)
  BY <1>3, <1>5, <1>7, EncodedCall
<1> HIDE DEF q
<1>9. Encodes(dialect, q, lb, TextOf(s) \cup {k}, CallListOf(t), n + 1, f, Orderly(t), 0)
  BY <1>2, <1>4, <1>8, EncodesLess
<1> QED BY <1>4, <1>9 DEF EncodesSaid, t, q, o, w, k

-----------------------------------------------------------------------------
(* As long as the stream is open ...                                        *)
LEMMA OpenKept ==
  ASSUME NEW p, NEW lb, NEW n \in Nat, NEW f, NEW s, NEW rs, NEW d, NEW e, EncodesSaid(d, e, lb, s, n, f),
         NEW ph, ph # "closed"
  PROVE  Kept(d, s, ph, e) /\ Same(p, s, rs, lb, d, ph, e)
<1> DEFINE T == TextOf(s)
           A == CallListOf(s)
           b == e.heard.blocks
<1>1. HasSaid(s, n) /\ Encodes(d, e, lb, T, A, n, f, Orderly(s), LastOf(s))
  BY DEF EncodesSaid
<1>2. d \in {"anthropic", "responses", "ollama", "chat"}
  BY <1>1 DEF Encodes
<1> HIDE DEF T, A
<1>3. CASE d = "chat"
  <2>1. ChatFits(e, lb, T, A, n)
    BY <1>1, <1>3 DEF Encodes
  <2>2. DOMAIN A = 1..n
    BY <1>1, CallsAre DEF A
  <2> DEFINE r == normalizedResponse(p, s, rs)
  <2>3. r.text = T /\ r.calls = A
    BY <1>1, ReplyGiven DEF T, A
  <2> HIDE DEF r
  <2>4. SameToChat(lb, e.heard, r)
    BY <2>1, <2>2, <2>3 DEF ChatFits, ChatGathers, SameToChat
  <2> QED BY <1>3, <2>4 DEF Kept, Same, r
<1>4. ASSUME d = "anthropic" PROVE Kept(d, s, ph, e) /\ AllSaid(b, d, ph, T, A, n)
  <2>1. AnthropicHolds(e, lb, T, A, n, f, Orderly(s), LastOf(s))
    BY <1>1, <1>4 DEF Encodes
  <2>2. AnthropicFits(e, lb, T, A, n, f) /\ (Orderly(s) => e.heard.ok)
    BY <2>1 DEF AnthropicHolds
  <2>3. /\ b \in Seq(StreamBlock) /\ TextTold(b, T)
        /\ CallsPlaced(b, A, n, Where(lb, e.blocks, n))
    BY <2>2, AnthropicIs DEF AnthropicFits
  <2> QED BY <1>4, <2>2, <2>3 DEF Kept, AllSaid
<1>5. ASSUME d = "responses" PROVE Kept(d, s, ph, e) /\ AllSaid(b, d, ph, T, A, n)
  <2>1. ResponsesHolds(e, lb, T, A, n, f, Orderly(s), LastOf(s))
    BY <1>1, <1>5 DEF Encodes
  <2>2. ResponsesFits(e, lb, T, A, n, f) /\ (Orderly(s) => e.heard.ok)
    BY <2>1 DEF ResponsesHolds
  <2>3. /\ b \in Seq(StreamBlock) /\ TextTold(b, T)
        /\ CallsPlaced(b, A, n, Where(lb, e.calls, n))
    BY <2>2, ResponsesIs DEF ResponsesFits
  <2> QED BY <1>5, <2>2, <2>3 DEF Kept, AllSaid
<1>6. ASSUME d = "ollama" PROVE Kept(d, s, ph, e) /\ AllSaid(b, d, ph, T, A, n)
  <2>1. OllamaFits(e, T, A, n, f)
    BY <1>1, <1>6 DEF Encodes
  <2>2. b \in Seq(StreamBlock) /\ TextTold(b, T) /\ e.heard.ok
    BY <2>1, OllamaIs DEF OllamaFits, OnlyText
  <2> QED BY <1>6, <2>2 DEF Kept, AllSaid
<1>7. ASSUME d # "chat" PROVE Same(p, s, rs, lb, d, ph, e)
  <2>1. d \in {"anthropic", "responses", "ollama"} /\ AllSaid(b, d, ph, T, A, n)
    BY <1>2, <1>4, <1>5, <1>6, <1>7
  <2> QED BY <1>1, <2>1, SameText DEF T, A
<1> QED BY <1>2, <1>3, <1>4, <1>5, <1>6, <1>7

-----------------------------------------------------------------------------
(* ... when it breaks ...                                                    *)
LEMMA FailedIs ==
  ASSUME NEW h \in Client
  PROVE  /\ Failed(h).blocks = h.blocks
         /\ h.ok /\ ~h.over => Failed(h).ok
<1> DEFINE m == Must(h, TRUE)
           g == [m EXCEPT !.over = TRUE]
<1>1. m \in Client /\ m.blocks = h.blocks /\ (h.ok /\ ~h.over => m.ok)
  BY MustIs
<1> HIDE DEF m
<1>2. g.blocks = m.blocks /\ g.ok = m.ok
  BY <1>1, Zenon DEF Client
<1> QED BY <1>1, <1>2 DEF Failed, m

LEMMA BrokenKept ==
  ASSUME NEW p, NEW lb, NEW n \in Nat, NEW f, NEW s, NEW rs, NEW d, NEW e, EncodesSaid(d, e, lb, s, n, f),
         NEW o, o = IF d = "chat" THEN e ELSE [e EXCEPT !.heard = Failed(@)]
  PROVE  Kept(d, s, "broken", o) /\ Same(p, s, rs, lb, d, "broken", o)
<1>1. Kept(d, s, "broken", e) /\ Same(p, s, rs, lb, d, "broken", e)
  BY OpenKept
<1>2. CASE d = "chat"
  BY <1>1, <1>2
<1>3. ASSUME d # "chat", e.heard \in Client, ~e.heard.over, DOMAIN e = DOMAIN [e EXCEPT !.heard = Failed(@)],
             "heard" \in DOMAIN e
      PROVE  Kept(d, s, "broken", o) /\ Same(p, s, rs, lb, d, "broken", o)
  <2>1. o.heard = Failed(e.heard)
    BY <1>3
  <2>2. o.heard.blocks = e.heard.blocks /\ (e.heard.ok => o.heard.ok)
    BY <1>3, <2>1, FailedIs
  <2>3. Kept(d, s, "broken", o)
    BY <1>1, <2>2 DEF Kept
  <2>4. Same(p, s, rs, lb, d, "broken", o)
    BY <1>1, <1>3, <2>2 DEF Same, SameReply
  <2> QED BY <2>3, <2>4
<1>4. Encodes(d, e, lb, TextOf(s), CallListOf(s), n, f, Orderly(s), LastOf(s))
  BY DEF EncodesSaid
<1>5. CASE d = "anthropic"
  <2>1. e \in AnthropicEncoder(lb, n) /\ ~e.heard.over
    BY <1>4, <1>5 DEF Encodes, AnthropicHolds, AnthropicFits, AnthropicShape
  <2>2. e.heard \in Client /\ "heard" \in DOMAIN e
    BY <2>1 DEF AnthropicEncoder
  <2> QED BY <1>3, <1>5, <2>1, <2>2
<1>6. CASE d = "responses"
  <2>1. e \in ResponsesEncoder(lb, n) /\ ~e.heard.over
    BY <1>4, <1>6 DEF Encodes, ResponsesHolds, ResponsesFits, ResponsesShape
  <2>2. e.heard \in Client /\ "heard" \in DOMAIN e
    BY <2>1 DEF ResponsesEncoder
  <2> QED BY <1>3, <1>6, <2>1, <2>2
<1>7. CASE d = "ollama"
  <2>1. e \in OllamaEncoder /\ ~e.heard.over
    BY <1>4, <1>7 DEF Encodes, OllamaFits, OnlyText
  <2>2. e.heard \in Client /\ "heard" \in DOMAIN e
    BY <2>1 DEF OllamaEncoder
  <2> QED BY <1>3, <1>7, <2>1, <2>2
<1> QED BY <1>2, <1>4, <1>5, <1>6, <1>7 DEF Encodes

(* ... and when it closes.                                                  *)
LEMMA StopIs ==
  ASSUME NEW f
  PROVE  stopReasonFor(f) \in Ends /\ stopReasonFor(f) # "none"
BY DEF stopReasonFor, Ends

LEMMA ClosedKept ==
  ASSUME NEW p, NEW lb, NEW n \in Nat, NEW s, NEW rs, NEW e,
         EncodesSaid(dialect, e, lb, s, n, FinishIs(p, rs, n))
  PROVE  LET o == Finished(e)
         IN Kept(dialect, s, "closed", o) /\ Same(p, s, rs, lb, dialect, "closed", o)
<1> DEFINE T == TextOf(s)
           A == CallListOf(s)
           f == FinishIs(p, rs, n)
           d == dialect
           o == Finished(e)
           h == o.heard
           r == normalizedResponse(p, s, rs)
           tidy == Orderly(s)
           last == LastOf(s)
<1> SUFFICES Kept(d, s, "closed", o) /\ Same(p, s, rs, lb, d, "closed", o)
  OBVIOUS
<1>1. HasSaid(s, n) /\ Encodes(d, e, lb, T, A, n, f, tidy, last)
  BY DEF EncodesSaid
<1>2. r.finish = IF rs = "none" THEN "stop" ELSE f
  BY <1>1, ReplyGiven
<1>3. rs = "none" => f = "none"
  BY DEF FinishIs
<1> HIDE DEF f
<1>4. ASSUME d \in {"anthropic", "responses", "ollama"},
             AllSaid(h.blocks, d, "closed", T, A, n), tidy => h.ok, d = "ollama" => h.ok,
             h.over, h.open = None,
             \/ h.finish = Buffered(d, r).finish
             \/ d = "responses" /\ r.finish = "length" /\ h.finish = "incomplete"
      PROVE  Kept(d, s, "closed", o) /\ Same(p, s, rs, lb, d, "closed", o)
  <2>1. Kept(d, s, "closed", o)
    BY <1>4 DEF Kept
  <2>2. Same(p, s, rs, lb, d, "closed", o)
    <3> HIDE DEF o, d, T, A
    <3> QED BY <1>1, <1>4, SameText DEF T, A
  <2> QED BY <2>1, <2>2
<1>5. CASE d = "chat"
  <2>1. o = e
    BY <1>5 DEF Finished
  <2>2. EncodesSaid(d, e, lb, s, n, f) /\ "open" # "closed"
    BY <1>1 DEF EncodesSaid
  <2> HIDE DEF o, d
  <2>3. Same(p, s, rs, lb, d, "open", e)
    BY <2>2, OpenKept
  <2> QED BY <1>5, <2>1, <2>3 DEF Same, Kept
<1>6. CASE d = "anthropic"
  <2>1. o = AnthropicEnd(e)
    BY <1>6 DEF Finished
  <2>2. AnthropicFits(e, lb, T, A, n, f) /\ (tidy => e.heard.ok)
    BY <1>1, <1>6 DEF Encodes, AnthropicHolds
  <2>3. Buffered(d, r).finish = stopReasonFor(r.finish)
    BY <1>6 DEF Buffered, toAnthropicResponse
  <2> HIDE DEF o, d, T, A, r, tidy
  <2>4. /\ e.heard.blocks \in Seq(StreamBlock) /\ TextTold(e.heard.blocks, T)
        /\ CallsPlaced(e.heard.blocks, A, n, Where(lb, e.blocks, n))
        /\ e.stop = stopReasonFor(f)
    BY <2>2, AnthropicIs DEF AnthropicFits
  <2>5. /\ h.blocks = e.heard.blocks /\ h.open = None /\ h.over /\ h.finish = stopReasonFor(f)
        /\ e.heard.ok => h.ok
    BY <2>1, <2>2, <2>4, StopIs, AnthropicEnds
  <2>6. stopReasonFor(r.finish) = stopReasonFor(f)
    BY <1>2, <1>3 DEF stopReasonFor
  <2>7. AllSaid(h.blocks, d, "closed", T, A, n)
    BY <2>4, <2>5 DEF AllSaid
  <2> QED BY <1>4, <1>6, <2>2, <2>3, <2>5, <2>6, <2>7 DEF d
<1>7. CASE d = "responses"
  <2>1. o = ResponsesEnd(e)
    BY <1>7 DEF Finished
  <2>2. ResponsesFits(e, lb, T, A, n, f) /\ (tidy => e.heard.ok)
    BY <1>1, <1>7 DEF Encodes, ResponsesHolds
  <2>3. Buffered(d, r).finish = "completed"
    BY <1>7 DEF Buffered, toResponsesResponse
  <2> HIDE DEF o, d, T, A, r, tidy
  <2>4. /\ e.heard.blocks \in Seq(StreamBlock) /\ TextTold(e.heard.blocks, T)
        /\ CallsPlaced(e.heard.blocks, A, n, Where(lb, e.calls, n))
    BY <2>2, ResponsesIs DEF ResponsesFits
  <2>5. /\ h.blocks = e.heard.blocks /\ h.open = None /\ h.over
        /\ h.finish = IF f = "length" THEN "incomplete" ELSE "completed"
        /\ e.heard.ok => h.ok
    BY <2>1, <2>2, ResponsesEnds
  <2>6. f = "length" => r.finish = "length"
    BY <1>2, <1>3
  <2>7. AllSaid(h.blocks, d, "closed", T, A, n)
    BY <2>4, <2>5 DEF AllSaid
  <2> QED BY <1>4, <1>7, <2>2, <2>3, <2>5, <2>6, <2>7 DEF d
<1>8. CASE d = "ollama"
  <2>1. o = OllamaEnd(e)
    BY <1>8 DEF Finished
  <2>2. OllamaFits(e, T, A, n, f)
    BY <1>1, <1>8 DEF Encodes
  <2>3. Buffered(d, r).finish = IF r.finish = "length" THEN "length" ELSE "stop"
    BY <1>8 DEF Buffered, toOllamaResponse
  <2> HIDE DEF o, d, T, A, r, tidy
  <2>4. /\ h.blocks \in Seq(StreamBlock) /\ TextTold(h.blocks, T)
        /\ \E at : CallsPlaced(h.blocks, A, n, at)
        /\ h.ok /\ h.over /\ h.open = None
        /\ h.finish = IF f = "length" THEN "length" ELSE "stop"
    BY <2>1, <2>2, OllamaEnds
  <2>5. f = "length" <=> r.finish = "length"
    BY <1>2, <1>3
  <2>6. AllSaid(h.blocks, d, "closed", T, A, n)
    BY <2>4 DEF AllSaid
  <2> QED BY <1>4, <1>8, <2>3, <2>4, <2>5, <2>6 DEF d
<1> QED BY <1>1, <1>5, <1>6, <1>7, <1>8 DEF Encodes

-----------------------------------------------------------------------------
(* The inductive invariant.                                                 *)
StreamAt(p, lb, d, s, rs, ph, a, e, n) ==
  /\ p \in {"openai", "anthropic", "gemini"}
  /\ lb \in Labels /\ (p # "openai" => lb = "index")
  /\ ph \in {"open", "closed", "broken"}
  /\ p # "openai" => Indexed(a, n)
  /\ HasSaid(s, n)
  /\ ph = "open" => EncodesSaid(d, e, lb, s, n, FinishIs(p, rs, n))
  /\ ph # "open" => Kept(d, s, ph, e) /\ Same(p, s, rs, lb, d, ph, e)

StreamInv == \E n \in Nat : StreamAt(provider, labels, dialect, said, reason, phase, adapter, enc, n)

LEMMA StreamKept ==
  ASSUME StreamInv
  PROVE  ProtocolKept /\ StreamedIsBuffered
<1>1. PICK n \in Nat : StreamAt(provider, labels, dialect, said, reason, phase, adapter, enc, n)
  BY DEF StreamInv
<1>2. Kept(dialect, said, phase, enc) /\ Same(provider, said, reason, labels, dialect, phase, enc)
  <2>1. CASE phase = "open"
    <3>1. EncodesSaid(dialect, enc, labels, said, n, FinishIs(provider, reason, n)) /\ phase # "closed"
      BY <1>1, <2>1 DEF StreamAt
    <3> QED BY <3>1, OpenKept
  <2>2. CASE phase # "open"
    BY <1>1, <2>2 DEF StreamAt
  <2> QED BY <2>1, <2>2
<1>3. ProtocolKept
  BY <1>2 DEF ProtocolKept, Kept
<1>4. StreamedIsBuffered
  BY <1>2 DEF StreamedIsBuffered, Same
<1> QED BY <1>3, <1>4

-----------------------------------------------------------------------------
(* Before anything was said.                                                *)
LEMMA SilenceIs ==
  /\ Silence \in Client /\ Silence.blocks = <<>> /\ Silence.open = None /\ Silence.finish = "none"
  /\ ~Silence.begun /\ ~Silence.over /\ Silence.ok
<1>1. <<>> \in Seq(StreamBlock) /\ "none" \in Ends /\ None \in Nat
  BY DEF Ends, None
<1> QED BY <1>1 DEF Silence, Client

LEMMA NoBlocks ==
  ASSUME NEW b \in Seq(StreamBlock), Len(b) = 0, NEW A, NEW at
  PROVE  TextTold(b, {}) /\ CallsPlaced(b, A, 0, at)
<1>1. DOMAIN b = {} /\ 1..Len(b) = {} /\ 1..0 = {}
  BY ElementsOf
<1> HIDE DEF CallsPlaced
<1>2. Those(b, "text") = {}
  BY <1>1 DEF Those
<1>3. TextTold(b, {})
  BY <1>2 DEF TextTold, Held
<1>4. CallsPlaced(b, A, 0, at)
  BY <1>1 DEF CallsPlaced
<1> QED BY <1>3, <1>4

LEMMA NothingSaid ==
  /\ HasSaid(<<>>, 0) /\ TextOf(<<>>) = {} /\ LastOf(<<>>) = 0 /\ Orderly(<<>>)
  /\ Keys("index", 0) = {} /\ \A lb : Keys(lb, 0) = {}
<1> DEFINE s == <<>>
<1>1. s \in Seq(Speech) /\ DOMAIN s = {} /\ Len(s) = 0 /\ 1..Len(s) = {} /\ 1..0 = {}
  OBVIOUS
<1> HIDE DEF s
<1>2. CallsOf(s) = {} /\ TextOf(s) = {} /\ LastOf(s) = 0 /\ Orderly(s)
  BY <1>1 DEF CallsOf, TextOf, LastOf, Orderly
<1>3. HasSaid(s, 0)
  BY <1>1, <1>2 DEF HasSaid
<1>4. \A lb : Keys(lb, 0) = {}
  BY <1>1 DEF Keys
<1> QED BY <1>2, <1>3, <1>4 DEF s

(* An encoder of each dialect fits what was said so far: nothing.           *)
LEMMA AnthropicBegins ==
  ASSUME NEW lb, NEW A
  PROVE  AnthropicHolds(AnthropicNew, lb, {}, A, 0, "none", TRUE, 0)
<1> DEFINE e == AnthropicNew
           h == Silence
           m == <<>>
<1>1. /\ h \in Client /\ h.blocks = m /\ h.open = None /\ ~h.begun /\ ~h.over /\ h.ok
  BY SilenceIs
<1>2. Keys(lb, 0) = {} /\ DOMAIN m = {} /\ m = [k \in {} |-> 0] /\ m \in Seq(StreamBlock) /\ Len(m) = 0
  BY NothingSaid
<1>3. m \in [Keys(lb, 0) -> Nat]
  BY <1>2
<1>4. e = [started |-> FALSE, open |-> 0, kind |-> "none", next |-> 1,
           blocks |-> m, stop |-> "end_turn", heard |-> h]
  BY DEF AnthropicNew, None
<1> HIDE DEF e, h, m
<1>5. e \in AnthropicEncoder(lb, 0)
  <2>1. "end_turn" \in Ends
    BY DEF Ends
  <2> QED BY <1>1, <1>3, <1>4, <2>1 DEF AnthropicEncoder
<1>6. e.heard = h /\ e.open = 0 /\ e.kind = "none" /\ e.next = 1 /\ ~e.started /\ e.stop = "end_turn"
  BY <1>4
<1>7. TextTold(m, {}) /\ CallsPlaced(m, A, 0, Where(lb, e.blocks, 0))
  BY <1>2, NoBlocks
<1>8. AnthropicShape(e, m)
  BY <1>1, <1>2, <1>6 DEF AnthropicShape, None
<1>9. e.stop = stopReasonFor("none")
  BY <1>6 DEF stopReasonFor
<1> QED BY <1>1, <1>5, <1>6, <1>7, <1>8, <1>9 DEF AnthropicHolds, AnthropicFits, e

LEMMA ResponsesBegins ==
  ASSUME NEW lb, NEW A
  PROVE  ResponsesHolds(ResponsesNew, lb, {}, A, 0, "none", TRUE, 0)
<1> DEFINE e == ResponsesNew
           h == Begun(Silence)
           m == <<>>
<1>1. /\ h \in Client /\ h.blocks = m /\ h.open = None /\ h.begun /\ ~h.over /\ h.ok
  BY SilenceIs, BegunIs
<1>2. Keys(lb, 0) = {} /\ DOMAIN m = {} /\ m = [k \in {} |-> 0] /\ m \in Seq(StreamBlock) /\ Len(m) = 0
      /\ m \in Seq(Item)
  BY NothingSaid
<1>3. m \in [Keys(lb, 0) -> Nat]
  BY <1>2
<1>4. e = [items |-> m, message |-> 0, current |-> 0, calls |-> m, finish |-> "none", heard |-> h]
  BY DEF ResponsesNew, None
<1> HIDE DEF e, h, m
<1>5. e \in ResponsesEncoder(lb, 0)
  <2>1. "none" \in Ends
    BY DEF Ends
  <2> QED BY <1>1, <1>2, <1>3, <1>4, <2>1 DEF ResponsesEncoder
<1>6. e.heard = h /\ e.items = m /\ e.message = 0 /\ e.current = 0 /\ e.finish = "none"
  BY <1>4
<1>7. TextTold(m, {}) /\ CallsPlaced(m, A, 0, Where(lb, e.calls, 0))
  BY <1>2, NoBlocks
<1>8. ResponsesShape(e, m) /\ MessageAt(e, m)
  BY <1>1, <1>2, <1>6 DEF ResponsesShape, MessageAt, Mirrors, None
<1> QED BY <1>1, <1>5, <1>6, <1>7, <1>8 DEF ResponsesHolds, ResponsesFits, e

LEMMA OllamaBegins ==
  ASSUME NEW A
  PROVE  OllamaFits(OllamaNew, {}, A, 0, "none")
<1> DEFINE e == OllamaNew
           h == Silence
           m == <<>>
<1>1. /\ h \in Client /\ h.blocks = m /\ h.open = None /\ ~h.over /\ h.ok
  BY SilenceIs
<1>2. m \in Seq(StreamBlock) /\ Len(m) = 0 /\ m \in Seq(Slot) /\ 1..0 = {} /\ 1..Len(m) = {}
  OBVIOUS
<1>3. e = [calls |-> m, finish |-> "stop", heard |-> h]
  BY DEF OllamaNew
<1> HIDE DEF e, h, m
<1>4. e \in OllamaEncoder
  <2>1. "stop" \in Ends
    BY DEF Ends
  <2> QED BY <1>1, <1>2, <1>3, <2>1 DEF OllamaEncoder
<1>5. e.heard = h /\ e.calls = m /\ e.finish = "stop"
  BY <1>3
<1>6. TextTold(m, {})
  BY <1>2, NoBlocks
<1> QED BY <1>1, <1>2, <1>4, <1>5, <1>6 DEF OllamaFits, Collected, OnlyText, e

LEMMA ChatBegins ==
  ASSUME NEW lb, NEW A
  PROVE  ChatFits(ChatNew, lb, {}, A, 0)
<1> DEFINE e == ChatNew
           m == <<>>
<1>1. m \in Seq(Nat) /\ Told(m, {}) /\ DOMAIN m = {} /\ 1..0 = {}
  BY NothingTold
<1>2. m = [c \in 1..0 |-> <<c - 1, c>>]
  OBVIOUS
<1>3. ChatEncoder(e, m, m, m)
  BY DEF ChatNew, ChatEncoder
<1> HIDE DEF e, m
<1>4. e.heard.text = m /\ e.heard.ids = m /\ e.heard.calls = m
  BY <1>3, ChatIs
<1>5. ChatGathers(e.heard, A, 0)
  BY <1>1, <1>2, <1>4 DEF ChatGathers
<1> QED BY <1>1, <1>3, <1>4, <1>5 DEF ChatFits, e

LEMMA StreamBegins ==
  ASSUME StreamsInit
  PROVE  StreamInv
<1> DEFINE s == <<>>
<1>1. /\ provider \in {"openai", "anthropic", "gemini"} /\ labels \in Labels
      /\ provider # "openai" => labels = "index"
      /\ dialect \in {"chat", "anthropic", "responses", "ollama"}
      /\ said = s /\ reason = "none" /\ phase = "open" /\ adapter = s
      /\ enc = EncoderNew(dialect)
  BY StreamsAssumption DEF StreamsInit, Labels
<1>2. HasSaid(s, 0) /\ TextOf(s) = {} /\ LastOf(s) = 0 /\ (Orderly(s) <=> TRUE)
  BY NothingSaid
<1>3. Indexed(s, 0)
  <2>1. s \in Seq(Int) /\ Len(s) = 0 /\ DOMAIN s = {}
    OBVIOUS
  <2> HIDE DEF s
  <2>2. {b \in DOMAIN s : s[b] # NoIndex} = {}
    BY <2>1
  <2> QED BY <2>1, <2>2, FS_EmptySet DEF Indexed, EmittedOf
<1> HIDE DEF s
<1> DEFINE A == CallListOf(s)
<1>4. Encodes(dialect, enc, labels, {}, A, 0, "none", TRUE, 0)
  <2> HIDE DEF A
  <2> QED BY <1>1, AnthropicBegins, ResponsesBegins, OllamaBegins, ChatBegins DEF Encodes, EncoderNew
<1>5. Encodes(dialect, enc, labels, TextOf(s), CallListOf(s), 0, "none", Orderly(s), LastOf(s))
  <2>1. Orderly(s) => TRUE
    OBVIOUS
  <2>2. Encodes(dialect, enc, labels, {}, A, 0, "none", Orderly(s), 0)
    BY <1>4, <2>1, EncodesLess
  <2> QED BY <1>2, <2>2
<1>6. FinishIs(provider, reason, 0) = "none"
  BY <1>1 DEF FinishIs
<1>7. StreamAt(provider, labels, dialect, said, reason, phase, adapter, enc, 0)
  BY <1>1, <1>2, <1>3, <1>5, <1>6 DEF StreamAt, EncodesSaid
<1> QED BY <1>7 DEF StreamInv

-----------------------------------------------------------------------------
(* Each step keeps the invariant.                                           *)
StreamNow(n) ==
  /\ provider \in {"openai", "anthropic", "gemini"}
  /\ labels \in Labels /\ (provider # "openai" => labels = "index")
  /\ phase = "open"
  /\ provider # "openai" => Indexed(adapter, n) /\ emitted = n
  /\ HasSaid(said, n) /\ LastCall = n /\ NextCall = n + 1
  /\ EncodesSaid(dialect, enc, labels, said, n, FinishIs(provider, reason, n))

(* The state in which a step is taken, with the number of calls so far.     *)
LEMMA NowIs ==
  ASSUME StreamInv, phase = "open"
  PROVE  \E n \in Nat : StreamNow(n)
<1>1. PICK n \in Nat : StreamAt(provider, labels, dialect, said, reason, phase, adapter, enc, n)
  BY DEF StreamInv
<1>2. HasSaid(said, n)
  BY <1>1 DEF StreamAt
<1>3. LastCall = n /\ NextCall = n + 1
  BY <1>2, CallsAre DEF LastCall, NextCall
<1>4. provider # "openai" => Indexed(adapter, n) /\ emitted = n
  BY <1>1 DEF StreamAt, Indexed, EmittedOf, emitted
<1>5. StreamNow(n)
  BY <1>1, <1>2, <1>3, <1>4 DEF StreamAt, StreamNow
<1> QED BY <1>5

(* One step of a provider, after which the stream is of m calls.            *)
Goes(m) ==
  /\ UNCHANGED <<provider, labels, dialect, reason, phase>>
  /\ provider # "openai" => Indexed(adapter', m)
  /\ EncodesSaid(dialect, enc', labels, said', m, "none")

LEMMA GoesOn ==
  ASSUME NEW n \in Nat, StreamNow(n), reason = "none", NEW m \in Nat, Goes(m)
  PROVE  StreamInv'
<1>1. FinishIs(provider', reason', m) = "none"
  BY DEF FinishIs, Goes
<1>2. HasSaid(said', m)
  BY DEF Goes, EncodesSaid
<1>3. StreamAt(provider', labels', dialect', said', reason', phase', adapter', enc', m)
  BY <1>1, <1>2 DEF StreamAt, StreamNow, Goes
<1> QED BY <1>3 DEF StreamInv

LEMMA OpenNow ==
  ASSUME NEW n \in Nat, StreamNow(n), reason = "none"
  PROVE  EncodesSaid(dialect, enc, labels, said, n, "none")
BY DEF StreamNow, FinishIs

LEMMA TextGoesOn ==
  ASSUME NEW n \in Nat, StreamNow(n), reason = "none",
         said' = Append(said, Text), enc' = Encoded(enc, TextDelta(Here))
  PROVE  EncodesSaid(dialect, enc', labels, said', n, "none")
BY OpenNow, SaysText DEF Here

(* A step of each provider.                                                 *)
LEMMA AnthropicGoesOn ==
  ASSUME NEW n \in Nat, StreamNow(n), AnthropicSays
  PROVE  StreamInv'
<1>1. /\ provider = "anthropic" /\ labels = "index" /\ reason = "none"
      /\ UNCHANGED <<provider, labels, dialect, reason, phase>>
      /\ Indexed(adapter, n) /\ emitted = n /\ NextCall = n + 1 /\ LastCall = n
      /\ "index" \in Labels /\ HasSaid(said, n)
  BY DEF AnthropicSays, Speaks, StreamNow, Labels
<1>2. EncodesSaid(dialect, enc, "index", said, n, "none")
  BY <1>1, OpenNow
<1>3. CASE said' = Append(said, Text) /\ Send(TextDelta(Here)) /\ adapter' = adapter
  <2>1. EncodesSaid(dialect, enc', labels, said', n, "none")
    BY <1>1, <1>3, TextGoesOn DEF Send
  <2>2. Goes(n)
    BY <1>1, <1>3, <2>1 DEF Goes
  <2> QED BY <1>1, <2>2, GoesOn
<1>4. CASE /\ said' = Append(said, Call(NextCall)) /\ adapter' = Append(adapter, emitted)
           /\ Send(CallDelta(Part(emitted, NextCall, None)))
  <2> DEFINE bit == Part(n, n + 1, None)
  <2>1. /\ bit.index = n /\ bit.id = n + 1 /\ bit.args = None
        /\ Marks("index", bit, n + 1)
    BY DEF Part, Marks
  <2>2. said' = Append(said, Call(n + 1)) /\ enc' = Encoded(enc, CallDelta(bit))
    BY <1>1, <1>4 DEF Send
  <2> HIDE DEF bit
  <2>3. EncodesSaid(dialect, enc', "index", said', n + 1, "none")
    BY <1>1, <1>2, <2>1, <2>2, SaysCall
  <2>4. Indexed(adapter', n + 1)
    BY <1>1, <1>4, IndexedNext DEF NoIndex
  <2>5. Goes(n + 1) /\ n + 1 \in Nat
    BY <1>1, <2>3, <2>4 DEF Goes
  <2> QED BY <1>1, <2>5, GoesOn
<1>5. CASE /\ said # <<>> /\ said[Len(said)].kind # "text" /\ adapter[Len(adapter)] # NoIndex
           /\ said' = Append(said, Args(LastCall))
           /\ Send(CallDelta(Part(adapter[Len(adapter)], None, Here)))
           /\ adapter' = adapter
  <2>1. n > 0
    <3>1. Len(said) \in Nat /\ (Len(said) = 0 => said = <<>>)
      BY <1>1 DEF HasSaid
    <3>2. Len(said) \in 1..Len(said)
      BY <1>5, <3>1
    <3>3. said[Len(said)].call \in 1..n
      BY <1>1, <1>5, <3>2, SpeechIs
    <3> QED BY <3>3
  <2>2. Len(adapter) > 0
    <3> DEFINE P == {b \in DOMAIN adapter : adapter[b] # NoIndex}
    <3>1. Cardinality(P) = n
      BY <1>1 DEF Indexed, EmittedOf
    <3>2. Len(adapter) \in Nat /\ DOMAIN adapter = 1..Len(adapter)
      BY <1>1, ElementsOf DEF Indexed
    <3>3. Len(adapter) = 0 => P = {}
      BY <3>2
    <3> HIDE DEF P
    <3> QED BY <2>1, <3>1, <3>2, <3>3, FS_EmptySet
  <2>3. adapter[Len(adapter)] = n - 1
    BY <1>1, <1>5, <2>2 DEF Indexed
  <2> DEFINE bit == Part(n - 1, None, Here)
  <2>4. bit.index = n - 1 /\ bit.id = None /\ bit.args = Len(said) + 1
    BY DEF Part, Here
  <2>5. said' = Append(said, Args(n)) /\ enc' = Encoded(enc, CallDelta(bit)) /\ n \in 1..n
    BY <1>1, <1>5, <2>1, <2>3 DEF Send
  <2> HIDE DEF bit
  <2>6. EncodesSaid(dialect, enc', "index", said', n, "none")
    BY <1>2, <2>4, <2>5, SaysArgs
  <2>7. Goes(n)
    BY <1>1, <1>5, <2>6 DEF Goes
  <2> QED BY <1>1, <2>7, GoesOn
<1>6. CASE /\ Len(adapter) < MaxSaid /\ adapter' = Append(adapter, NoIndex) /\ UNCHANGED <<said, enc>>
  <2>1. Indexed(adapter', n)
    BY <1>1, <1>6, IndexedNext DEF NoIndex
  <2>2. Goes(n)
    BY <1>1, <1>2, <1>6, <2>1 DEF Goes
  <2> QED BY <1>1, <2>2, GoesOn
<1> QED BY <1>3, <1>4, <1>5, <1>6 DEF AnthropicSays

LEMMA MarkedIs ==
  ASSUME labels \in Labels, NEW n \in Nat, NEW args
  PROVE  LET bit == Marked(n + 1, args, TRUE)
         IN /\ Marks(labels, bit, n + 1) /\ bit.args = args
            /\ labels = "index" => bit.index = n /\ bit.id = n + 1
<1> DEFINE c == n + 1
           bit == Marked(c, args, TRUE)
<1>1. c - 1 = n
  OBVIOUS
<1> HIDE DEF c
<1>2. bit = [index |-> IF labels = "index" THEN c - 1 ELSE NoIndex,
              id |-> IF labels = "none" THEN None ELSE c, args |-> args]
  BY DEF Labels, Marked, Part
<1> HIDE DEF bit
<1>3. /\ bit.index = IF labels = "index" THEN c - 1 ELSE NoIndex
      /\ bit.id = IF labels = "none" THEN None ELSE c
      /\ bit.args = args
  BY <1>2
<1>4. Marks(labels, bit, c)
  BY <1>3 DEF Marks, Labels
<1>5. labels = "index" => bit.index = n /\ bit.id = c
  BY <1>1, <1>3
<1> QED BY <1>3, <1>4, <1>5 DEF bit, c

LEMMA OpenAIGoesOn ==
  ASSUME NEW n \in Nat, StreamNow(n), OpenAISays
  PROVE  StreamInv'
<1>1. /\ provider = "openai" /\ labels \in Labels /\ reason = "none"
      /\ UNCHANGED <<provider, labels, dialect, reason, phase>>
      /\ NextCall = n + 1 /\ HasSaid(said, n)
  BY DEF OpenAISays, Speaks, StreamNow
<1>2. EncodesSaid(dialect, enc, labels, said, n, "none")
  BY <1>1, OpenNow
<1>3. ASSUME NEW m \in Nat, EncodesSaid(dialect, enc', labels, said', m, "none") PROVE StreamInv'
  <2>1. Goes(m)
    BY <1>1, <1>3 DEF Goes
  <2> QED BY <1>1, <2>1, GoesOn
<1>4. CASE said' = Append(said, Text) /\ Send(TextDelta(Here))
  BY <1>1, <1>3, <1>4, TextGoesOn DEF Send
<1>5. CASE said' = Whole(said, NextCall) /\ Send(CallDelta(Marked(NextCall, Here + 1, TRUE)))
  <2> DEFINE args == Len(said) + 2
             bit == Marked(n + 1, args, TRUE)
  <2>1. Here + 1 = args
    BY <1>1, SpeechIs DEF Here
  <2>2. said' = Whole(said, n + 1) /\ enc' = Encoded(enc, CallDelta(bit))
    <3> HIDE DEF args
    <3> QED BY <1>1, <1>5, <2>1 DEF Send
  <2>3. /\ Marks(labels, bit, n + 1) /\ bit.args = Len(said) + 2
        /\ labels = "index" => bit.index = n /\ bit.id = n + 1
    BY <1>1, MarkedIs
  <2> HIDE DEF bit, args
  <2>4. EncodesSaid(dialect, enc', labels, said', n + 1, "none")
    BY <1>1, <1>2, <2>2, <2>3, SaysWhole
  <2> QED BY <1>3, <2>4
<1>6. CASE said' = Append(said, Call(NextCall)) /\ Send(CallDelta(Marked(NextCall, None, TRUE)))
  <2> DEFINE bit == Marked(n + 1, None, TRUE)
  <2>1. said' = Append(said, Call(n + 1)) /\ enc' = Encoded(enc, CallDelta(bit))
    BY <1>1, <1>6 DEF Send
  <2>2. /\ Marks(labels, bit, n + 1) /\ bit.args = None
        /\ labels = "index" => bit.index = n /\ bit.id = n + 1
    BY <1>1, MarkedIs
  <2> HIDE DEF bit
  <2>3. EncodesSaid(dialect, enc', labels, said', n + 1, "none")
    BY <1>1, <1>2, <2>1, <2>2, SaysCall
  <2> QED BY <1>3, <2>3
<1>7. CASE /\ labels = "index"
           /\ \E c \in CallsOf(said) : said' = Append(said, Args(c)) /\ Send(CallDelta(Marked(c, Here, FALSE)))
  <2>1. PICK c \in 1..n : said' = Append(said, Args(c)) /\ Send(CallDelta(Marked(c, Here, FALSE)))
    BY <1>1, <1>7 DEF HasSaid
  <2> DEFINE bit == Marked(c, Here, FALSE)
  <2>2. bit.index = c - 1 /\ bit.id = None /\ bit.args = Len(said) + 1
    BY <1>7 DEF Marked, Part, Here
  <2>3. enc' = Encoded(enc, CallDelta(bit))
    BY <2>1 DEF Send
  <2> HIDE DEF bit
  <2>4. EncodesSaid(dialect, enc', "index", said', n, "none")
    BY <1>2, <1>7, <2>1, <2>2, <2>3, SaysArgs
  <2> QED BY <1>3, <1>7, <2>4
<1>8. CASE enc' = Idle(enc) /\ UNCHANGED <<said, adapter>>
  <2>1. EncodesSaid(dialect, enc', labels, said, n, "none")
    BY <1>2, <1>8, EncodedIdle DEF EncodesSaid
  <2>2. EncodesSaid(dialect, enc', labels, said', n, "none")
    BY <1>8, <2>1
  <2> QED BY <1>3, <2>2
<1> QED BY <1>4, <1>5, <1>6, <1>7, <1>8 DEF OpenAISays

LEMMA GeminiGoesOn ==
  ASSUME NEW n \in Nat, StreamNow(n), GeminiSays
  PROVE  StreamInv'
<1>1. /\ provider = "gemini" /\ labels = "index" /\ reason = "none"
      /\ UNCHANGED <<provider, labels, dialect, reason, phase>>
      /\ Indexed(adapter, n) /\ emitted = n /\ NextCall = n + 1
      /\ "index" \in Labels /\ HasSaid(said, n) /\ Len(said) \in Nat
  BY SpeechIs DEF GeminiSays, Speaks, StreamNow, Labels
<1>2. EncodesSaid(dialect, enc, "index", said, n, "none")
  BY <1>1, OpenNow
<1>3. ASSUME NEW m \in Nat, EncodesSaid(dialect, enc', "index", said', m, "none"), Indexed(adapter', m)
      PROVE  StreamInv'
  <2>1. Goes(m)
    BY <1>1, <1>3 DEF Goes
  <2> QED BY <1>1, <2>1, GoesOn
<1> DEFINE one == Part(n, n + 1, Len(said) + 2)
<1>4. /\ one.index = n /\ one.id = n + 1 /\ one.args = Len(said) + 2
      /\ Marks("index", one, n + 1)
  BY DEF Part, Marks
<1>5. Part(emitted, NextCall, Here + 1) = one
  BY <1>1 DEF Here
<1>6. Indexed(Append(adapter, n), n + 1)
  BY <1>1, IndexedNext DEF NoIndex
<1> HIDE DEF one
<1>7. CASE said' = Append(said, Text) /\ Send(TextDelta(Here)) /\ adapter' = adapter
  <2>1. EncodesSaid(dialect, enc', labels, said', n, "none")
    BY <1>1, <1>7, TextGoesOn DEF Send
  <2> QED BY <1>1, <1>3, <1>7, <2>1
<1>8. CASE /\ said' = Whole(said, NextCall) /\ Send(CallDelta(Part(emitted, NextCall, Here + 1)))
           /\ adapter' = Append(adapter, emitted)
  <2>1. /\ said' = Whole(said, n + 1) /\ enc' = Encoded(enc, CallDelta(one))
        /\ adapter' = Append(adapter, n)
    BY <1>1, <1>5, <1>8 DEF Send
  <2>2. EncodesSaid(dialect, enc', "index", said', n + 1, "none")
    BY <1>1, <1>2, <1>4, <2>1, SaysWhole
  <2> QED BY <1>3, <1>6, <2>1, <2>2
<1>9. CASE /\ said' = Append(Whole(said, NextCall), Text)
           /\ enc' = Encoded(Encoded(enc, TextDelta(Here + 2)), CallDelta(Part(emitted, NextCall, Here + 1)))
           /\ adapter' = Append(adapter, emitted)
  <2>1. Here + 2 = Len(said) + 3
    BY <1>1 DEF Here
  <2>2. /\ said' = Append(Whole(said, n + 1), Text)
        /\ enc' = Encoded(Encoded(enc, TextDelta(Len(said) + 3)), CallDelta(one))
        /\ adapter' = Append(adapter, n)
    BY <1>1, <1>5, <1>9, <2>1
  <2>3. EncodesSaid(dialect, enc', "index", said', n + 1, "none")
    BY <1>1, <1>2, <1>4, <2>2, SaysBoth
  <2> QED BY <1>3, <1>6, <2>2, <2>3
<1>10. CASE /\ said' = Whole(Whole(said, NextCall), NextCall + 1)
            /\ enc' = Encoded(Encoded(enc, CallDelta(Part(emitted, NextCall, Here + 1))),
                              CallDelta(Part(emitted + 1, NextCall + 1, Here + 3)))
            /\ adapter' = Append(Append(adapter, emitted), emitted + 1)
  <2> DEFINE w == Whole(said, n + 1)
             m == n + 1
             o == Encoded(enc, CallDelta(one))
             two == Part(m, m + 1, Len(w) + 2)
  <2>1. EncodesSaid(dialect, o, "index", w, m, "none") /\ Len(w) = Len(said) + 2
    <3>1. EncodesSaid(dialect, o, "index", w, n + 1, "none")
      BY <1>1, <1>2, <1>4, SaysWhole
    <3>2. Len(w) = Len(said) + 2
      BY <1>1, SaidWhole
    <3> QED BY <3>1, <3>2
  <2>2. /\ two.index = m /\ two.id = m + 1 /\ two.args = Len(w) + 2
        /\ Marks("index", two, m + 1) /\ m \in Nat
    BY DEF Part, Marks
  <2>3. Part(emitted + 1, NextCall + 1, Here + 3) = two
    <3>1. emitted + 1 = m /\ NextCall + 1 = m + 1
      BY <1>1
    <3>2. Here + 3 = Len(w) + 2
      <4> HIDE DEF w
      <4> QED BY <1>1, <2>1 DEF Here
    <3> HIDE DEF m, w
    <3> QED BY <3>1, <3>2
  <2>4. /\ said' = Whole(w, m + 1) /\ enc' = Encoded(o, CallDelta(two))
        /\ adapter' = Append(Append(adapter, n), m)
    <3>1. NextCall + 1 = m + 1 /\ Whole(said, NextCall) = w
      BY <1>1
    <3> HIDE DEF m, w, two
    <3>2. emitted + 1 = m
      BY <1>1 DEF m
    <3> QED BY <1>1, <1>5, <1>10, <2>3, <3>1, <3>2
  <2> HIDE DEF w, o, two
  <2>5. EncodesSaid(dialect, enc', "index", said', m + 1, "none")
    <3> HIDE DEF m
    <3> QED BY <1>1, <2>1, <2>2, <2>4, SaysWhole
  <2>6. Indexed(adapter', m + 1)
    <3>1. Indexed(Append(adapter, n), m)
      BY <1>6
    <3> DEFINE a == Append(adapter, n)
    <3> HIDE DEF a, m
    <3>2. Indexed(a, m) /\ m \in Nat
      BY <2>2, <3>1 DEF a
    <3>3. Indexed(Append(a, m), m + 1)
      BY <3>2, IndexedNext DEF NoIndex
    <3> QED BY <2>4, <3>3 DEF a
  <2>7. m + 1 \in Nat
    OBVIOUS
  <2> QED BY <1>3, <2>5, <2>6, <2>7
<1> QED BY <1>7, <1>8, <1>9, <1>10 DEF GeminiSays

(* The provider says why it finished; the stream closes; the stream breaks. *)
LEMMA FinishGoesOn ==
  ASSUME NEW n \in Nat, StreamNow(n), Finish
  PROVE  StreamInv'
<1> DEFINE has == CallsOf(said) # {}
<1>1. /\ reason = "none" /\ phase' = phase /\ provider' = provider /\ labels' = labels /\ dialect' = dialect
      /\ said' = said /\ adapter' = adapter /\ HasSaid(said, n)
  BY DEF Finish, StreamNow
<1>2. has = (n > 0)
  <2>1. CallsOf(said) = 1..n
    BY <1>1 DEF HasSaid
  <2>2. (n > 0) => 1 \in 1..n
    OBVIOUS
  <2>3. ~(n > 0) => 1..n = {}
    OBVIOUS
  <2> QED BY <2>1, <2>2, <2>3
<1>3. PICK r \in Reasons(has) : Send(FinishDelta(finishOf(provider, r, has))) /\ reason' = r
  BY DEF Finish
<1> DEFINE g == finishOf(provider, r, has)
<1>4. g \in Ends /\ g # "none" /\ r # "none"
  <2>1. provider \in {"openai", "anthropic", "gemini"}
    BY DEF StreamNow
  <2> QED BY <2>1 DEF Reasons, finishOf, finishFromAnthropic, finishFromGemini, Ends
<1>5. FinishIs(provider, r, n) = g
  BY <1>2, <1>4 DEF FinishIs
<1> HIDE DEF g, has
<1>6. EncodesSaid(dialect, enc, labels, said, n, "none")
  BY <1>1, OpenNow
<1>7. Encodes(dialect, enc', labels, TextOf(said), CallListOf(said), n, g, Orderly(said), LastOf(said))
  BY <1>3, <1>4, <1>6, EncodedFinish DEF EncodesSaid, Send, g
<1>8. EncodesSaid(dialect', enc', labels', said', n, FinishIs(provider', reason', n))
  BY <1>1, <1>3, <1>5, <1>7 DEF EncodesSaid
<1>9. StreamAt(provider', labels', dialect', said', reason', phase', adapter', enc', n)
  BY <1>1, <1>8 DEF StreamAt, StreamNow
<1> QED BY <1>9 DEF StreamInv

LEMMA CloseGoesOn ==
  ASSUME NEW n \in Nat, StreamNow(n), Close
  PROVE  StreamInv'
<1>1. /\ phase' = "closed" /\ enc' = Finished(enc) /\ provider' = provider /\ labels' = labels
      /\ dialect' = dialect /\ said' = said /\ adapter' = adapter /\ reason' = reason
  BY DEF Close
<1>2. Kept(dialect, said, "closed", enc') /\ Same(provider, said, reason, labels, dialect, "closed", enc')
  BY <1>1, ClosedKept DEF StreamNow
<1>3. StreamAt(provider', labels', dialect', said', reason', phase', adapter', enc', n)
  BY <1>1, <1>2 DEF StreamAt, StreamNow
<1> QED BY <1>3 DEF StreamInv

LEMMA BreakGoesOn ==
  ASSUME NEW n \in Nat, StreamNow(n), Break
  PROVE  StreamInv'
<1>1. /\ phase' = "broken" /\ provider' = provider /\ labels' = labels
      /\ enc' = IF dialect = "chat" THEN enc ELSE [enc EXCEPT !.heard = Failed(@)]
      /\ dialect' = dialect /\ said' = said /\ adapter' = adapter /\ reason' = reason
  BY DEF Break
<1>2. EncodesSaid(dialect, enc, labels, said, n, FinishIs(provider, reason, n))
  BY DEF StreamNow
<1>3. Kept(dialect, said, "broken", enc') /\ Same(provider, said, reason, labels, dialect, "broken", enc')
  BY <1>1, <1>2, BrokenKept
<1>4. StreamAt(provider', labels', dialect', said', reason', phase', adapter', enc', n)
  BY <1>1, <1>3 DEF StreamAt, StreamNow
<1> QED BY <1>4 DEF StreamInv

LEMMA StreamGoesOn ==
  ASSUME StreamInv, StreamsNext \/ UNCHANGED streamVars
  PROVE  StreamInv'
<1>1. CASE UNCHANGED streamVars
  BY <1>1 DEF streamVars, StreamInv
<1>2. CASE StreamsNext
  <2>1. phase = "open"
    BY <1>2 DEF StreamsNext, AnthropicSays, OpenAISays, GeminiSays, Speaks, Finish, Close, Break
  <2>2. PICK n \in Nat : StreamNow(n)
    BY <2>1, NowIs
  <2> QED BY <1>2, <2>2, AnthropicGoesOn, OpenAIGoesOn, GeminiGoesOn, FinishGoesOn, CloseGoesOn, BreakGoesOn
          DEF StreamsNext
<1> QED BY <1>1, <1>2

(* No encoder announces, fills or closes a block or an item out of turn, and *)
(* none leaves one open at the end (anthropicInbound.js, responsesInbound.js, *)
(* ollamaInbound.js): for replies of any length, by any of the providers.   *)
THEOREM StreamsKeepProtocol == RequestSpec => []ProtocolKept
<1>1. RequestInit => StreamInv
  BY StreamBegins DEF RequestInit
<1>2. StreamInv /\ [RequestNext]_requestVars => StreamInv'
  BY StreamGoesOn DEF RequestNext, requestVars
<1>3. StreamInv => ProtocolKept
  BY StreamKept
<1> QED BY <1>1, <1>2, <1>3, PTL DEF RequestSpec

(* What a client puts together from a stream is what it would have been     *)
(* given in one piece, its text, its calls with their arguments and why it  *)
(* finished: for any adapter, dialect and order of text and calls.          *)
THEOREM StreamsTellAll == RequestSpec => []StreamedIsBuffered
<1>1. RequestInit => StreamInv
  BY StreamBegins DEF RequestInit
<1>2. StreamInv /\ [RequestNext]_requestVars => StreamInv'
  BY StreamGoesOn DEF RequestNext, requestVars
<1>3. StreamInv => StreamedIsBuffered
  BY StreamKept
<1> QED BY <1>1, <1>2, <1>3, PTL DEF RequestSpec
=============================================================================
