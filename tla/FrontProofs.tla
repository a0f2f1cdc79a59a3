------------------------------ MODULE FrontProofs ------------------------------
(***************************************************************************)
(* What stands between a client and the router, proved for any number of   *)
(* clients, requests, processes and streams, any settings and any limits.  *)
(* The parts share no state but for Access, which composes Settings and    *)
(* Agents; each has a section of its own.                                  *)
(***************************************************************************)
EXTENDS MCFront, FiniteSetTheorems, WellFoundedInduction, TLAPS

(* The limiter: no window sees more than the burst and the refill, and a    *)
(* client that waits as long as it is told is served.                       *)
(* Looking at a bucket finds between nothing and a full one.                 *)
LEMMA LevelBounds ==
  ASSUME TypeOK, NEW c \in Clients
  PROVE  Level(c) \in Nat /\ Level(c) <= config.capacity
<1>1. config \in Config
  BY RateAssumption DEF TypeOK
<1>2. config.capacity \in Nat /\ config.refill \in Nat
  BY <1>1 DEF Config
<1>3. tokens[c] \in Nat /\ idle[c] \in Nat
  BY RateAssumption DEF TypeOK
<1>4. idle[c] * config.refill \in Nat
  BY <1>2, <1>3
<1> QED BY <1>2, <1>3, <1>4 DEF Level, Min2

LevelsInBounds == \A c \in Clients : Level(c) \in Nat /\ Level(c) <= config.capacity

LEMMA LevelsBounded == TypeOK => LevelsInBounds
BY LevelBounds DEF LevelsInBounds

(* The client that is served has a bucket afterwards.                        *)
LEMMA ServedIsTracked ==
  ASSUME TypeOK, NEW c \in Clients
  PROVE  Inserted(c) \in Seq(Clients) /\ c \in In(Inserted(c))
<1>1. CASE c \in Tracked
  BY <1>1 DEF Inserted, Tracked, TypeOK
<1>2. CASE c \notin Tracked
  <2> DEFINE kept == IF Len(order) >= MAX_BUCKETS THEN Tail(order) ELSE order
  <2>1. kept \in Seq(Clients)
    BY RateAssumption DEF TypeOK
  <2>2. Inserted(c) = Append(kept, c)
    BY <1>2 DEF Inserted
  <2> HIDE DEF kept
  <2>3. Append(kept, c) \in Seq(Clients) /\ Len(Append(kept, c)) = Len(kept) + 1
    BY <2>1
  <2>4. Append(kept, c)[Len(kept) + 1] = c /\ Len(kept) \in Nat
    BY <2>1
  <2>5. Len(kept) + 1 \in DOMAIN Append(kept, c)
    BY <2>3, <2>4
  <2> QED BY <2>2, <2>3, <2>4, <2>5 DEF In
<1> QED BY <1>1, <1>2

LEMMA InitInv == Init => Inv
<1> SUFFICES ASSUME Init PROVE Inv
  OBVIOUS
<1>1. Tracked = {}
  BY DEF Init, Tracked, In
<1>2. TypeOK
  BY RateAssumption DEF Init, TypeOK
<1> QED BY <1>1, <1>2 DEF Init, Inv, LevelAccounts

(* A column of the table keeps its type.                                     *)
LEMMA ColumnType ==
  ASSUME NEW S, NEW column \in [Clients -> S], NEW c \in Clients, NEW v \in S, 0 \in S
  PROVE  With(column, c, v) \in [Clients -> S]
BY DEF With

(* A request, allowed at the price of COST or refused for nothing, keeps     *)
(* what is in the bucket and what was taken from it in balance.              *)
LEMMA TakeStep ==
  ASSUME Inv, NEW c \in Clients, NEW price \in Nat, price <= Level(c),
         order' = Inserted(c),
         tokens' = With(tokens, c, Level(c) - price),
         idle' = With(idle, c, 0),
         excess' = With(excess, c, excess[c] + price),
         due' \in [Clients -> Int],
         UNCHANGED config
  PROVE  Inv'
<1> USE RateAssumption DEF Inv
<1>1. Level(c) \in Nat /\ Level(c) <= config.capacity
  BY LevelBounds
<1>2. order' \in Seq(Clients) /\ c \in Tracked'
  BY ServedIsTracked DEF Tracked
<1>3. TypeOK'
  <2>1. tokens' \in [Clients -> Nat]
    <3>1. Level(c) - price \in Nat
      BY <1>1
    <3> QED BY <3>1, ColumnType DEF TypeOK
  <2>2. idle' \in [Clients -> 0 .. MaxIdle]
    <3>1. 0 \in 0 .. MaxIdle
      OBVIOUS
    <3> QED BY <3>1, ColumnType DEF TypeOK
  <2>3. excess' \in [Clients -> Nat]
    <3>1. excess[c] + price \in Nat
      BY DEF TypeOK
    <3> QED BY <3>1, ColumnType DEF TypeOK
  <2> QED BY <1>2, <2>1, <2>2, <2>3 DEF TypeOK
<1>4. config.capacity \in Nat /\ config.refill \in Nat
  BY DEF TypeOK, Config
<1>5. excess[c] \in Nat /\ excess[c] + Level(c) <= config.capacity
  <2>1. CASE c \in Tracked
    BY <2>1 DEF LevelAccounts, TypeOK
  <2>2. CASE c \notin Tracked
    BY <2>2, <1>4 DEF LevelAccounts, TypeOK, Level
  <2> QED BY <2>1, <2>2
<1>6. ASSUME NEW x \in Clients
      PROVE  IF x \in Tracked' THEN excess'[x] + Level(x)' <= config'.capacity
             ELSE excess'[x] = 0
  <2>1. CASE x = c
    <3>1. tokens'[c] = Level(c) - price /\ idle'[c] = 0 /\ excess'[c] = excess[c] + price
      BY DEF With
    <3>2. idle'[c] * config.refill = 0
      BY <3>1, <1>4
    <3>3. Level(c)' = Level(c) - price
      BY <1>1, <1>2, <1>4, <3>1, <3>2 DEF Level, Min2
    <3> QED BY <1>1, <1>2, <1>4, <1>5, <2>1, <3>1, <3>3
  <2>2. CASE x # c /\ x \notin Tracked'
    BY <2>2 DEF With, Tracked
  <2>3. CASE x # c /\ x \in Tracked'
    <3>1. tokens'[x] = tokens[x] /\ idle'[x] = idle[x] /\ excess'[x] = excess[x]
      BY <2>3 DEF With, Tracked
    <3>2. CASE x \in Tracked
      <4>1. Level(x)' = Level(x)
        BY <2>3, <3>1, <3>2 DEF Level
      <4> QED BY <2>3, <3>1, <3>2, <4>1 DEF LevelAccounts
    <3>3. CASE x \notin Tracked
      <4>1. excess'[x] = 0
        BY <3>1, <3>3 DEF LevelAccounts
      <4>2. Level(x)' \in Nat /\ Level(x)' <= config'.capacity
        <5>1. LevelsInBounds'
          BY <1>3, LevelsBounded, PTL
        <5> QED BY <5>1 DEF LevelsInBounds
      <4> QED BY <2>3, <4>1, <4>2
    <3> QED BY <3>2, <3>3
  <2> QED BY <2>1, <2>2, <2>3
<1> QED BY <1>3, <1>6 DEF LevelAccounts

LEMMA NextInv == Inv /\ [Next]_vars => Inv'
<1> SUFFICES ASSUME Inv, [Next]_vars PROVE Inv'
  OBVIOUS
<1> USE RateAssumption DEF Inv
<1>t. /\ config.capacity \in Nat \ {0} /\ config.refill \in Nat \ {0}
      /\ config.capacity <= MaxIdle * config.refill
  BY DEF TypeOK, Config
<1>1. ASSUME NEW c \in Clients, Allow(c) PROVE Inv'
  <2>1. With(due, c, 0) \in [Clients -> Int]
    <3>1. 0 \in Int
      OBVIOUS
    <3> QED BY <3>1, ColumnType DEF TypeOK
  <2> QED BY <1>1, <2>1, TakeStep DEF Allow
<1>2. ASSUME NEW c \in Clients, Refuse(c) PROVE Inv'
  <2>1. Level(c) \in Nat
    BY LevelBounds
  <2>2. RetryAfter(c) + 1 \in Int
    BY <1>t, <2>1 DEF RetryAfter
  <2>3. With(due, c, RetryAfter(c) + 1) \in [Clients -> Int]
    <3>1. 0 \in Int
      OBVIOUS
    <3> QED BY <2>2, <3>1, ColumnType DEF TypeOK
  <2>4. Level(c) - 0 = Level(c) /\ excess[c] + 0 = excess[c]
    BY <2>1 DEF TypeOK
  <2> QED BY <1>2, <2>1, <2>3, <2>4, TakeStep DEF Refuse
<1>3. ASSUME NEW new \in Configs, configure(new) PROVE Inv'
  <2>1. TypeOK'
    BY <1>3 DEF configure, TypeOK
  <2>2. \A c \in Clients : Level(c)' \in Nat /\ Level(c)' <= config'.capacity
    <3>1. LevelsInBounds'
      BY <2>1, LevelsBounded, PTL
    <3> QED BY <3>1 DEF LevelsInBounds
  <2> QED BY <1>3, <2>1, <2>2 DEF configure, LevelAccounts
<1>4. CASE reset
  <2>1. Tracked' = {}
    BY <1>4 DEF reset, Tracked, In
  <2> QED BY <1>4, <2>1 DEF reset, TypeOK, LevelAccounts
<1>5. CASE Tick
  <2>1. TypeOK'
    BY <1>5, <1>t DEF Tick, TypeOK, MinusTo0
  <2>2. ASSUME NEW c \in Clients, c \in Tracked
        PROVE  excess'[c] + Level(c)' <= config'.capacity
    <3>1. /\ excess[c] \in Nat /\ tokens[c] \in Nat /\ idle[c] \in 0 .. MaxIdle
          /\ excess[c] + Level(c) <= config.capacity
      BY <2>2 DEF LevelAccounts, TypeOK
    <3>2. /\ config' = config /\ tokens'[c] = tokens[c] /\ Tracked' = Tracked
          /\ excess'[c] = MinusTo0(excess[c], config.refill)
          /\ idle'[c] = IF idle[c] < MaxIdle THEN idle[c] + 1 ELSE idle[c]
      BY <1>5, <2>2 DEF Tick, Tracked
    <3> DEFINE got == tokens[c] + idle[c] * config.refill
               new == tokens[c] + idle'[c] * config.refill
    <3>3. got \in Nat /\ new \in Nat
      BY <1>t, <3>1, <3>2
    <3>4. Level(c) = Min2(config.capacity, got) /\ Level(c)' = Min2(config.capacity, new)
      BY <2>2, <3>2 DEF Level
    <3>5. new = got + config.refill \/ (new = got /\ got >= config.capacity)
      <4>1. CASE idle[c] < MaxIdle
        <5>1. (idle[c] + 1) * config.refill = idle[c] * config.refill + config.refill
          BY <1>t, <3>1
        <5> QED BY <1>t, <3>1, <3>2, <4>1, <5>1
      <4>2. CASE idle[c] = MaxIdle
        BY <1>t, <3>1, <3>2, <4>2
      <4> QED BY <3>1, <4>1, <4>2
    <3> HIDE DEF got, new
    <3> QED BY <1>t, <3>1, <3>2, <3>3, <3>4, <3>5 DEF Min2, MinusTo0
  <2>3. ASSUME NEW c \in Clients, c \notin Tracked PROVE excess'[c] = 0
    BY <1>5, <1>t, <2>3 DEF Tick, LevelAccounts, MinusTo0
  <2>4. Tracked' = Tracked
    BY <1>5 DEF Tick, Tracked
  <2> QED BY <2>1, <2>2, <2>3, <2>4 DEF LevelAccounts
<1>6. CASE UNCHANGED vars
  BY <1>6 DEF vars, TypeOK, LevelAccounts, Level, Tracked
<1> QED BY <1>1, <1>2, <1>3, <1>4, <1>5, <1>6 DEF Next

LEMMA InvBounds == Inv => BurstBounded
<1> SUFFICES ASSUME Inv, NEW c \in Clients PROVE excess[c] <= config.capacity
  BY DEF BurstBounded
<1>1. Level(c) \in Nat /\ config.capacity \in Nat /\ excess[c] \in Nat
  BY LevelBounds, RateAssumption DEF Inv, TypeOK, Config
<1> QED BY <1>1 DEF Inv, LevelAccounts

(* Whatever the clients do, and however the limiter is configured, no       *)
(* client is allowed more in any window than a burst and what the refill    *)
(* rate grants: `take` of rateLimit.js, with its lazy refill, is a bound.   *)
THEOREM BurstHolds == Spec => [](TypeOK /\ BurstBounded)
<1>1. Inv => TypeOK
  BY DEF Inv
<1> QED BY InitInv, NextInv, InvBounds, <1>1, PTL DEF Spec

-----------------------------------------------------------------------------
(* What a client that was told to wait will find when it has: the refill   *)
(* of the ticks that are left makes up a token, or all that the bucket     *)
(* holds.                                                                  *)
Enough == Min2(COST, config.capacity)

Waited ==
  \A c \in Clients :
    /\ due[c] \in Nat
    /\ due[c] # 0 => c \in Tracked /\ Enough <= Level(c) + (due[c] - 1) * config.refill

WaitInv == Inv /\ Waited

LEMMA EnoughIs ==
  ASSUME Inv
  PROVE  Enough \in Nat /\ Enough <= COST /\ Enough <= config.capacity
BY RateAssumption DEF Enough, Min2, Inv, TypeOK, Config

LEMMA DivUp ==
  ASSUME NEW a \in Nat, NEW r \in Nat \ {0}
  PROVE  (a + r - 1) \div r \in Nat /\ a <= ((a + r - 1) \div r) * r
<1> DEFINE x == a + r - 1
           q == x \div r
           m == x % r
<1>1. x \in Nat
  OBVIOUS
<1>2. q \in Int /\ m \in 0 .. r - 1 /\ x = r * q + m
  <2> HIDE DEF x
  <2> QED BY <1>1
<1>3. q >= 0
  <2> HIDE DEF x
  <2> QED BY <1>1
<1>4. r * q = q * r
  <2> HIDE DEF q
  <2> QED BY <1>2
<1> HIDE DEF q, m
<1>5. q * r \in Int
  BY <1>2
<1> QED BY <1>2, <1>3, <1>4, <1>5 DEF q

(* A request of another client leaves a bucket as it is, or evicts it.     *)
LEMMA OthersWait ==
  ASSUME WaitInv, NEW c \in Clients, NEW x \in Clients \ {c}, NEW wait, NEW level,
         order' = Inserted(c), tokens' = With(tokens, c, level), idle' = With(idle, c, 0),
         due' = With(due, c, wait), UNCHANGED config
  PROVE  /\ due'[x] \in Nat
         /\ due'[x] # 0 => x \in Tracked' /\ Enough' <= Level(x)' + (due'[x] - 1) * config'.refill
<1>1. CASE x \notin Tracked'
  BY <1>1 DEF With, Tracked
<1>2. CASE x \in Tracked'
  <2>1. tokens'[x] = tokens[x] /\ idle'[x] = idle[x] /\ due'[x] = due[x]
    BY <1>2 DEF With, Tracked
  <2>2. CASE due[x] = 0
    BY <2>1, <2>2
  <2>3. CASE due[x] # 0
    <3>1. x \in Tracked
      BY <2>3 DEF WaitInv, Waited
    <3>2. Level(x)' = Level(x)
      BY <1>2, <2>1, <3>1 DEF Level
    <3>3. Enough' = Enough
      BY DEF Enough
    <3> QED BY <1>2, <2>1, <3>2, <3>3 DEF WaitInv, Waited
  <2> QED BY <2>2, <2>3
<1> QED BY <1>1, <1>2

LEMMA OneMore ==
  ASSUME NEW a \in Nat, NEW r \in Nat
  PROVE  (a + 1) * r = a * r + r
OBVIOUS

LEMMA WaitNext == WaitInv /\ [Next]_vars => WaitInv'
<1> SUFFICES ASSUME WaitInv, [Next]_vars PROVE Waited'
  BY NextInv DEF WaitInv
<1> USE RateAssumption
<1>t. /\ config.capacity \in Nat \ {0} /\ config.refill \in Nat \ {0}
      /\ config.capacity <= MaxIdle * config.refill
  BY DEF WaitInv, Inv, TypeOK, Config
<1>e. Enough \in Nat /\ Enough <= COST /\ Enough <= config.capacity
  BY EnoughIs DEF WaitInv
<1>f. config' = config => Enough' = Enough
  BY DEF Enough
<1>1. ASSUME NEW c \in Clients, Allow(c) PROVE Waited'
  <2>1. due'[c] = 0
    BY <1>1 DEF Allow, With
  <2>2. \A x \in Clients \ {c} :
          /\ due'[x] \in Nat
          /\ due'[x] # 0 => x \in Tracked' /\ Enough' <= Level(x)' + (due'[x] - 1) * config'.refill
    BY <1>1, OthersWait DEF Allow
  <2> QED BY <2>1, <2>2 DEF Waited
<1>2. ASSUME NEW c \in Clients, Refuse(c) PROVE Waited'
  <2>1. Level(c) \in Nat /\ Level(c) <= config.capacity /\ Level(c) < COST
    BY <1>2, LevelBounds DEF Refuse, WaitInv, Inv
  <2>2. c \in Tracked'
    BY <1>2, ServedIsTracked DEF Refuse, WaitInv, Inv, Tracked
  <2>3. tokens'[c] = Level(c) /\ idle'[c] = 0 /\ config' = config /\ due'[c] = RetryAfter(c) + 1
    BY <1>2, <2>2 DEF Refuse, With
  <2>4. Level(c)' = Level(c)
    <3>1. idle'[c] * config.refill = 0
      BY <1>t, <2>3
    <3> QED BY <1>t, <2>1, <2>2, <2>3, <3>1 DEF Level, Min2
  <2>5. RetryAfter(c) \in Nat /\ COST - Level(c) <= RetryAfter(c) * config.refill
    <3>1. COST - Level(c) \in Nat
      BY <2>1
    <3> QED BY <1>t, <3>1, DivUp DEF RetryAfter
  <2>6. due'[c] \in Nat /\ Enough' <= Level(c)' + (due'[c] - 1) * config'.refill
    <3> DEFINE wait == RetryAfter(c)
               level == Level(c)
    <3>1. wait \in Nat /\ COST - level <= wait * config.refill /\ level \in Nat
      BY <2>1, <2>5
    <3>2. due'[c] = wait + 1 /\ Level(c)' = level
      BY <2>3, <2>4
    <3> HIDE DEF wait, level
    <3>3. due'[c] \in Nat /\ due'[c] - 1 = wait
      BY <3>1, <3>2
    <3>4. wait * config.refill \in Nat
      BY <1>t, <3>1
    <3>5. COST <= level + wait * config.refill
      BY <3>1, <3>4
    <3> QED BY <1>e, <1>f, <2>3, <3>1, <3>2, <3>3, <3>4, <3>5
  <2>7. \A x \in Clients \ {c} :
          /\ due'[x] \in Nat
          /\ due'[x] # 0 => x \in Tracked' /\ Enough' <= Level(x)' + (due'[x] - 1) * config'.refill
    BY <1>2, OthersWait DEF Refuse
  <2> QED BY <2>2, <2>6, <2>7 DEF Waited
<1>3. ASSUME (\E new \in Configs : configure(new)) \/ reset PROVE Waited'
  BY <1>3 DEF configure, reset, Waited
<1>4. CASE Tick
  <2> SUFFICES ASSUME NEW c \in Clients
               PROVE  (/\ due[c] \in Nat
                       /\ due[c] # 0 => c \in Tracked /\ Enough <= Level(c) + (due[c] - 1) * config.refill)'
    BY DEF Waited
  <2>1. /\ config' = config /\ tokens'[c] = tokens[c] /\ Tracked' = Tracked
        /\ due'[c] = IF due[c] > 1 THEN due[c] - 1 ELSE due[c]
        /\ due[c] \in Nat
    BY <1>4 DEF Tick, Tracked, WaitInv, Waited
  <2>2. CASE due[c] = 0
    BY <2>1, <2>2
  <2>3. CASE due[c] # 0
    <3>1. c \in Tracked /\ Enough <= Level(c) + (due[c] - 1) * config.refill /\ Enough' = Enough
      BY <1>f, <2>1, <2>3 DEF WaitInv, Waited
    <3>2. tokens[c] \in Nat /\ idle[c] \in 0 .. MaxIdle
      BY DEF WaitInv, Inv, TypeOK
    <3>3. idle'[c] = IF idle[c] < MaxIdle THEN idle[c] + 1 ELSE idle[c]
      BY <1>4, <3>1 DEF Tick
    <3> DEFINE got == tokens[c] + idle[c] * config.refill
               new == tokens[c] + idle'[c] * config.refill
    <3>4. got \in Nat /\ new \in Nat
      BY <1>t, <3>2, <3>3
    <3>5. Level(c) = Min2(config.capacity, got) /\ Level(c)' = Min2(config.capacity, new)
      BY <2>1, <3>1 DEF Level
    <3>6. new = got + config.refill \/ (new = got /\ got >= config.capacity)
      <4>1. CASE idle[c] < MaxIdle
        <5>1. idle'[c] = idle[c] + 1
          BY <3>3, <4>1
        <5>2. (idle[c] + 1) * config.refill = idle[c] * config.refill + config.refill
          <6>1. idle[c] \in Nat /\ config.refill \in Nat
            BY <1>t, <3>2
          <6> QED BY <6>1, OneMore
        <5>3. new = tokens[c] + (idle[c] + 1) * config.refill
          BY <5>1
        <5>4. idle[c] * config.refill \in Nat
          BY <1>t, <3>2
        <5> QED BY <1>t, <3>2, <5>2, <5>3, <5>4
      <4>2. CASE idle[c] = MaxIdle
        BY <1>t, <3>2, <3>3, <4>2
      <4> QED BY <3>2, <4>1, <4>2
    <3> HIDE DEF got, new
    <3>7. Level(c)' \in Nat
          /\ (Level(c)' >= config.capacity \/ Level(c)' = Level(c) + config.refill)
      BY <1>t, <3>4, <3>5, <3>6 DEF Min2
    <3>8. due'[c] \in Nat \ {0} /\ (due'[c] - 1) * config.refill \in Nat
      BY <1>t, <2>1, <2>3
    <3>9. CASE Level(c)' >= config.capacity
      BY <1>t, <1>e, <2>1, <3>1, <3>7, <3>8, <3>9
    <3>10. CASE Level(c)' = Level(c) + config.refill
      <4>1. Level(c) \in Nat
        BY <1>t, <3>4, <3>5 DEF Min2
      <4>2. CASE due[c] = 1
        <5>1. (due[c] - 1) * config.refill = 0
          BY <1>t, <4>2
        <5> QED BY <1>t, <1>e, <2>1, <3>1, <3>7, <3>8, <3>10, <4>1, <4>2, <5>1
      <4>3. CASE due[c] # 1
        <5>1. due'[c] = due[c] - 1 /\ due[c] - 1 \in Nat
          BY <2>1, <2>3, <4>3
        <5>2. (due[c] - 1) * config.refill = (due'[c] - 1) * config.refill + config.refill
          BY <1>t, <5>1
        <5> QED BY <1>t, <1>e, <2>1, <3>1, <3>8, <3>10, <4>1, <5>2
      <4> QED BY <4>2, <4>3
    <3> QED BY <3>7, <3>9, <3>10
  <2> QED BY <2>2, <2>3
<1>5. CASE UNCHANGED vars
  <2>1. due' = due /\ config' = config /\ order' = order /\ tokens' = tokens /\ idle' = idle
    BY <1>5 DEF vars
  <2>2. Tracked' = Tracked /\ \A c \in Clients : Level(c)' = Level(c)
    BY <2>1 DEF Tracked, Level
  <2> QED BY <1>f, <2>1, <2>2 DEF WaitInv, Waited
<1> QED BY <1>1, <1>2, <1>3, <1>4, <1>5 DEF Next

(* However the clients ask, evict one another and are reconfigured, a       *)
(* client that waited as long as msUntilNextToken said finds a token, or    *)
(* all that a bucket too small for one can hold.                            *)
THEOREM RetryHolds == Spec => []RetryAfterIsEnough
<1>1. Init => WaitInv
  BY InitInv DEF Init, WaitInv, Waited
<1>2. WaitInv => RetryAfterIsEnough
  <2> SUFFICES ASSUME WaitInv, NEW c \in Clients, due[c] = 1 PROVE Level(c) >= Enough
    BY DEF RetryAfterIsEnough, Enough
  <2>1. config.refill \in Nat /\ Level(c) \in Nat /\ Enough \in Nat
    BY LevelBounds, EnoughIs, RateAssumption DEF WaitInv, Inv, TypeOK, Config
  <2>2. (due[c] - 1) * config.refill = 0
    BY <2>1
  <2>3. Enough <= Level(c) + (due[c] - 1) * config.refill
    BY DEF WaitInv, Waited
  <2> QED BY <2>1, <2>2, <2>3
<1> QED BY <1>1, <1>2, WaitNext, PTL DEF Spec

-----------------------------------------------------------------------------
(* The settings file: no save loses what another one kept, whoever can read it. *)
USE SettingsAssumption

(* What a process reads: a key it cannot read is none.                      *)
Readable == [key : {NoKey} \cup Nat, modelAuth : {"unset", "local", "required"},
             groups : [Groups -> GroupChoices]]

GoodPatch(p) ==
  \/ p.kind \in {"key", "first"} /\ p.key \in Nat
  \/ p.kind = "modelAuth" /\ p.to \in {"local", "required"}
  \/ p.kind = "groups" /\ \A g \in Groups : g \in DOMAIN p.to => p.to[g] \in GroupChoices

Sound(u) ==
  /\ u = [read |-> u.read, patch |-> u.patch, stale |-> u.stale]
  /\ u.read \in Readable /\ GoodPatch(u.patch) /\ u.stale \in BOOLEAN

(* An update that nobody overtook still has what the file says, as far as   *)
(* its process can read it.                                                 *)
UpdatesSound ==
  \A w \in Processes : update[w] # Free =>
    Sound(update[w]) /\ (~update[w].stale => update[w].read = getSettings(w))

StoreTyped ==
  /\ doc \in {Missing} \cup Document
  /\ secret \in [Processes -> Secrets \cup {NoSecret}]
  /\ update = [w \in Processes |-> update[w]]
  /\ minted \in Nat

SettingsInv == StoreTyped /\ UpdatesSound /\ SavedSurvives

-----------------------------------------------------------------------------
LEMMA Defaults == DEFAULTS \in Document /\ DEFAULTS \in Readable
BY DEF DEFAULTS, Document, Readable, GroupChoices

LEMMA RawTyped == StoreTyped => readRaw \in Document
BY Defaults DEF StoreTyped, readRaw

(* Records of these sets are told by their fields.                          *)
LEMMA ByFields ==
  ASSUME NEW a \in Readable, NEW b \in Readable,
         a.key = b.key, a.modelAuth = b.modelAuth, a.groups = b.groups
  PROVE  a = b
BY DEF Readable

LEMMA PlainFields ==
  ASSUME NEW d \in Document
  PROVE  /\ plain(d) \in Readable
         /\ plain(d).key = IF d.key = NoKey THEN NoKey ELSE d.key.key
         /\ plain(d).modelAuth = d.modelAuth /\ plain(d).groups = d.groups
BY DEF plain, Document, Readable, StoredKeys

LEMMA SettingsFields ==
  ASSUME StoreTyped, NEW w \in Processes
  PROVE  /\ getSettings(w) \in Readable
         /\ getSettings(w).key = decodeStored(w, readRaw.key)
         /\ getSettings(w).modelAuth = readRaw.modelAuth
         /\ getSettings(w).groups = readRaw.groups
<1>1. readRaw \in Document
  BY RawTyped
<1>2. decodeStored(w, readRaw.key) \in {NoKey} \cup Nat
  BY <1>1 DEF decodeStored, CanRead, Document, StoredKeys
<1> HIDE DEF readRaw
<1> QED BY <1>1, <1>2 DEF getSettings, Document, Readable

(* A patch changes each field by itself.                                    *)
LEMMA ApplyFields ==
  ASSUME NEW v \in Readable, NEW p, GoodPatch(p)
  PROVE  /\ Apply(v, p) \in Readable
         /\ Apply(v, p).key = IF p.kind \in {"key", "first"} THEN p.key ELSE v.key
         /\ Apply(v, p).modelAuth =
              IF p.kind = "modelAuth" THEN p.to
              ELSE IF p.kind = "first" /\ v.modelAuth = "unset" THEN "local" ELSE v.modelAuth
         /\ Apply(v, p).groups =
              IF p.kind = "groups" THEN [g \in Groups |-> IF g \in DOMAIN p.to THEN p.to[g] ELSE v.groups[g]]
              ELSE v.groups
<1>1. CASE p.kind = "key"
  <2>1. Apply(v, p) = [v EXCEPT !.key = p.key]
    BY <1>1 DEF Apply
  <2> QED BY <1>1, <2>1 DEF Readable, GoodPatch
<1>2. CASE p.kind = "first"
  <2>1. Apply(v, p) = [v EXCEPT !.key = p.key, !.modelAuth = IF @ = "unset" THEN "local" ELSE @]
    BY <1>2 DEF Apply
  <2> QED BY <1>2, <2>1 DEF Readable, GoodPatch
<1>3. CASE p.kind = "modelAuth"
  <2>1. Apply(v, p) = [v EXCEPT !.modelAuth = p.to]
    BY <1>3 DEF Apply
  <2> QED BY <1>3, <2>1 DEF Readable, GoodPatch
<1>4. CASE p.kind = "groups"
  <2> DEFINE gs == [g \in Groups |-> IF g \in DOMAIN p.to THEN p.to[g] ELSE v.groups[g]]
  <2>1. Apply(v, p) = [v EXCEPT !.groups = gs]
    BY <1>4 DEF Apply
  <2>2. gs \in [Groups -> GroupChoices]
    BY <1>4 DEF GoodPatch, Readable
  <2> HIDE DEF gs
  <2>3. Apply(v, p) \in Readable /\ Apply(v, p).groups = gs
        /\ Apply(v, p).key = v.key /\ Apply(v, p).modelAuth = v.modelAuth
    BY <2>1, <2>2 DEF Readable
  <2> QED BY <1>4, <2>3 DEF gs
<1> QED BY <1>1, <1>2, <1>3, <1>4 DEF GoodPatch

(* encodeForDisk keeps a key that was not asked about and not readable.     *)
LEMMA EncodeFields ==
  ASSUME StoreTyped, NEW w \in Processes, NEW v \in Readable, NEW explicit \in BOOLEAN
  PROVE  LET next == encodeForDisk(w, v, explicit)
         IN /\ next \in Document /\ next.modelAuth = v.modelAuth /\ next.groups = v.groups
            /\ v.key # NoKey => plain(next).key = v.key
            /\ v.key = NoKey => next.key = IF IsCipher(readRaw.key) /\ ~explicit THEN readRaw.key ELSE NoKey
<1> DEFINE next == encodeForDisk(w, v, explicit)
           k == IF v.key # NoKey THEN encrypt(w, v.key)
                ELSE IF IsCipher(readRaw.key) /\ ~explicit THEN readRaw.key ELSE NoKey
<1>1. readRaw \in Document
  BY RawTyped
<1>2. v.key # NoKey => k \in StoredKeys /\ k.key = v.key
  BY DEF encrypt, StoredKeys, StoreTyped, Readable
<1>3. k \in {NoKey} \cup StoredKeys
  BY <1>1, <1>2 DEF Document
<1>4. v.key = NoKey => k = IF IsCipher(readRaw.key) /\ ~explicit THEN readRaw.key ELSE NoKey
  OBVIOUS
<1>5. next = [v EXCEPT !.key = k]
  BY DEF encodeForDisk
<1> HIDE DEF k, next
<1>6. next \in Document /\ next.key = k /\ next.modelAuth = v.modelAuth /\ next.groups = v.groups
  BY <1>3, <1>5 DEF Document, Readable
<1>7. v.key # NoKey => plain(next).key = v.key
  BY <1>2, <1>6, PlainFields
<1> QED BY <1>4, <1>6, <1>7 DEF next

(* One process's read, patch and rename.                                    *)
LEMMA WriteSaves ==
  ASSUME SettingsInv, NEW w \in Processes, Write(w)
  PROVE  doc' \in Document /\ SavedSurvives'
<1> DEFINE u == update[w]
           explicit == u.patch.kind \in {"key", "first"}
           value == Apply(u.read, u.patch)
           next == encodeForDisk(w, value, explicit)
<1>1. /\ doc' = next
      /\ wanted' = IF u.stale THEN plain(next) ELSE Apply(wanted, u.patch)
  BY DEF Write
<1>2. /\ u.read \in Readable /\ GoodPatch(u.patch) /\ u.stale \in BOOLEAN
      /\ ~u.stale => u.read = getSettings(w)
  BY DEF Write, SettingsInv, UpdatesSound, Sound
<1>3. /\ value \in Readable
      /\ value.key = IF explicit THEN u.patch.key ELSE u.read.key
      /\ value.modelAuth = (IF u.patch.kind = "modelAuth" THEN u.patch.to
           ELSE IF u.patch.kind = "first" /\ u.read.modelAuth = "unset" THEN "local" ELSE u.read.modelAuth)
      /\ value.groups = IF u.patch.kind = "groups"
           THEN [g \in Groups |-> IF g \in DOMAIN u.patch.to THEN u.patch.to[g] ELSE u.read.groups[g]]
           ELSE u.read.groups
  BY <1>2, ApplyFields
<1>e. explicit => u.patch.key \in Nat
  BY <1>2 DEF GoodPatch
<1>b. explicit \in BOOLEAN
  OBVIOUS
<1> HIDE DEF value
<1>4. /\ next \in Document /\ next.modelAuth = value.modelAuth /\ next.groups = value.groups
      /\ value.key # NoKey => plain(next).key = value.key
      /\ value.key = NoKey => next.key = IF IsCipher(readRaw.key) /\ ~explicit THEN readRaw.key ELSE NoKey
  BY <1>3, <1>b, EncodeFields DEF SettingsInv
<1> HIDE DEF next
<1>5. readRaw' = next
  BY <1>1, <1>4 DEF readRaw
<1>6. CASE u.stale
  BY <1>1, <1>4, <1>5, <1>6 DEF SavedSurvives
<1>7. CASE ~u.stale
  <2>1. readRaw \in Document /\ wanted = plain(readRaw)
    BY RawTyped DEF SettingsInv, SavedSurvives
  <2>2. wanted \in Readable /\ wanted.modelAuth = readRaw.modelAuth /\ wanted.groups = readRaw.groups
        /\ wanted.key = IF readRaw.key = NoKey THEN NoKey ELSE readRaw.key.key
    BY <2>1, PlainFields
  <2>3. /\ u.read.key = decodeStored(w, readRaw.key)
        /\ u.read.modelAuth = readRaw.modelAuth /\ u.read.groups = readRaw.groups
    BY <1>2, <1>7, SettingsFields DEF SettingsInv
  <2> DEFINE goal == Apply(wanted, u.patch)
  <2>4. /\ goal \in Readable
        /\ goal.key = IF explicit THEN u.patch.key ELSE wanted.key
        /\ goal.modelAuth = value.modelAuth /\ goal.groups = value.groups
    BY <1>2, <1>3, <2>2, <2>3, ApplyFields
  <2> HIDE DEF goal
  <2>5. /\ plain(next) \in Readable /\ plain(next).modelAuth = value.modelAuth
        /\ plain(next).groups = value.groups
        /\ plain(next).key = IF next.key = NoKey THEN NoKey ELSE next.key.key
    BY <1>4, PlainFields
  <2>6. plain(next).key = goal.key
    <3>1. CASE explicit
      BY <1>3, <1>4, <1>e, <2>4, <3>1
    <3>2. CASE ~explicit /\ CanRead(w, readRaw.key)
      <4>1. value.key = readRaw.key.key /\ readRaw.key \in StoredKeys
        BY <1>3, <2>1, <2>3, <3>2 DEF decodeStored, CanRead, Document
      <4>2. value.key # NoKey /\ goal.key = value.key
        BY <2>2, <2>4, <3>2, <4>1 DEF StoredKeys
      <4> QED BY <1>4, <4>2
    <3>3. CASE ~explicit /\ ~CanRead(w, readRaw.key)
      <4>1. value.key = NoKey
        BY <1>3, <2>3, <3>3 DEF decodeStored
      <4>2. next.key = readRaw.key
        BY <1>4, <3>3, <4>1 DEF CanRead, IsCipher
      <4> QED BY <2>2, <2>4, <2>5, <3>3, <4>2
    <3> QED BY <3>1, <3>2, <3>3
  <2>7. plain(next) = goal
    BY <2>4, <2>5, <2>6, ByFields
  <2> QED BY <1>1, <1>4, <1>5, <1>7, <2>7 DEF goal, SavedSurvives
<1> QED BY <1>2, <1>6, <1>7

-----------------------------------------------------------------------------
LEMMA SettingsInitInv == SettingsInit => SettingsInv
<1> SUFFICES ASSUME SettingsInit PROVE SettingsInv
  OBVIOUS
<1>1. doc \in {Missing} \cup Document
  <2>1. DEFAULTS.groups \in [Groups -> GroupChoices]
    BY DEF DEFAULTS, GroupChoices
  <2> QED BY <2>1 DEF SettingsInit, Document, StoredKeys
<1> QED BY <1>1 DEF SettingsInit, SettingsInv, StoreTyped, UpdatesSound, SavedSurvives

(* A process reads, and is about to patch.                                  *)
LEMMA BeginInv ==
  ASSUME SettingsInv, NEW w \in Processes, NEW patch, GoodPatch(patch), Begin(w, patch),
         secret' = secret, minted' \in Nat
  PROVE  SettingsInv'
<1> DEFINE u == [read |-> getSettings(w), patch |-> patch, stale |-> FALSE]
<1>1. update' = [update EXCEPT ![w] = u] /\ doc' = doc /\ wanted' = wanted
  BY DEF Begin
<1>2. getSettings(w) \in Readable
  BY SettingsFields DEF SettingsInv
<1>3. Sound(u) /\ u.read = getSettings(w)
  BY <1>2 DEF Sound
<1> HIDE DEF u
<1>4. readRaw' = readRaw /\ \A v \in Processes : getSettings(v)' = getSettings(v)
  BY <1>1 DEF readRaw, getSettings, decodeStored, CanRead
<1>5. StoreTyped'
  BY <1>1 DEF SettingsInv, StoreTyped
<1>6. SavedSurvives'
  BY <1>1, <1>4 DEF SettingsInv, SavedSurvives
<1>7. ASSUME NEW v \in Processes, update'[v] # Free
      PROVE  Sound(update'[v]) /\ (~update'[v].stale => update'[v].read = getSettings(v)')
  <2>1. CASE v = w
    BY <1>1, <1>3, <1>4, <2>1 DEF SettingsInv, StoreTyped
  <2>2. CASE v # w
    <3>1. update'[v] = update[v]
      BY <1>1, <2>2 DEF SettingsInv, StoreTyped
    <3> QED BY <1>4, <1>7, <3>1 DEF SettingsInv, UpdatesSound
  <2> QED BY <2>1, <2>2
<1>8. UpdatesSound'
  BY <1>7 DEF UpdatesSound
<1> QED BY <1>5, <1>6, <1>8 DEF SettingsInv

LEMMA WriteInv == ASSUME SettingsInv, NEW w \in Processes, Write(w) PROVE SettingsInv'
<1>1. doc' \in Document /\ SavedSurvives'
  BY WriteSaves
<1>2. /\ secret' = secret /\ minted' = minted
      /\ update' = [v \in Processes |-> IF v = w THEN Free ELSE IF update[v] = Free THEN Free
             ELSE [read |-> update[v].read, patch |-> update[v].patch, stale |-> TRUE]]
  BY DEF Write
<1>3. StoreTyped'
  BY <1>1, <1>2 DEF SettingsInv, StoreTyped
<1>4. ASSUME NEW v \in Processes, update'[v] # Free
      PROVE  Sound(update'[v]) /\ update'[v].stale
  <2>1. update[v] # Free
        /\ update'[v] = [read |-> update[v].read, patch |-> update[v].patch, stale |-> TRUE]
    BY <1>2, <1>4
  <2>2. Sound(update[v])
    BY <2>1 DEF SettingsInv, UpdatesSound
  <2> DEFINE r == update[v].read
             p == update[v].patch
  <2>3. update'[v] = [read |-> r, patch |-> p, stale |-> TRUE]
    BY <2>1
  <2>4. r \in Readable /\ GoodPatch(p)
    BY <2>2 DEF Sound
  <2> HIDE DEF r, p
  <2> QED BY <2>3, <2>4 DEF Sound
<1> QED BY <1>1, <1>3, <1>4 DEF SettingsInv, UpdatesSound

(* Nothing that another action does touches an update that is under way.    *)
LEMMA SettingsNextInv == SettingsInv /\ [SettingsNext]_settingsVars => SettingsInv'
<1> SUFFICES ASSUME SettingsInv, [SettingsNext]_settingsVars PROVE SettingsInv'
  OBVIOUS
<1>1. ASSUME NEW w \in Processes, Start(w) PROVE SettingsInv'
  <2>1. PICK s \in Secrets \cup {NoSecret} : secret' = [secret EXCEPT ![w] = s]
    BY <1>1 DEF Start
  <2>2. update[w] = Free /\ doc' = doc /\ update' = update /\ minted' = minted /\ wanted' = wanted
    BY <1>1 DEF Start
  <2>3. readRaw' = readRaw
    BY <2>2 DEF readRaw
  <2>4. \A v \in Processes : v # w => getSettings(v)' = getSettings(v)
    BY <2>1, <2>3 DEF getSettings, decodeStored, CanRead, SettingsInv, StoreTyped
  <2>5. StoreTyped'
    BY <2>1, <2>2 DEF SettingsInv, StoreTyped
  <2>6. SavedSurvives'
    BY <2>2, <2>3 DEF SettingsInv, SavedSurvives
  <2>7. UpdatesSound'
    BY <2>2, <2>4 DEF SettingsInv, UpdatesSound
  <2> QED BY <2>5, <2>6, <2>7 DEF SettingsInv
<1>2. ASSUME NEW w \in Processes, ensureOperatorKey(w) \/ ReplaceKey(w) PROVE SettingsInv'
  <2>1. minted \in Nat
    BY DEF SettingsInv, StoreTyped
  <2>2. minted \in Nat /\ minted' \in Nat /\ secret' = secret
    <3>1. minted' = minted + 1 /\ secret' = secret
      BY <1>2 DEF ensureOperatorKey, ReplaceKey
    <3> QED BY <2>1, <3>1
  <2>3. CASE ensureOperatorKey(w)
    <3>1. GoodPatch([kind |-> "first", key |-> minted]) /\ Begin(w, [kind |-> "first", key |-> minted])
      BY <2>2, <2>3 DEF ensureOperatorKey, GoodPatch
    <3> QED BY <2>2, <3>1, BeginInv
  <2>4. CASE ReplaceKey(w)
    <3>1. GoodPatch(NewKey(minted)) /\ Begin(w, NewKey(minted))
      BY <2>2, <2>4 DEF ReplaceKey, GoodPatch, NewKey
    <3> QED BY <2>2, <3>1, BeginInv
  <2> QED BY <1>2, <2>3, <2>4
<1>3. ASSUME NEW w \in Processes, Write(w) PROVE SettingsInv'
  BY <1>3, WriteInv
<1>4. ASSUME NEW w \in Processes, Die(w) PROVE SettingsInv'
  <2>1. doc' = doc /\ secret' = secret /\ minted' = minted /\ wanted' = wanted
        /\ update' = [update EXCEPT ![w] = Free]
    BY <1>4 DEF Die
  <2>2. readRaw' = readRaw /\ \A v \in Processes : getSettings(v)' = getSettings(v)
    BY <2>1 DEF readRaw, getSettings, decodeStored, CanRead
  <2>3. \A v \in Processes : update'[v] # Free => update'[v] = update[v]
    BY <2>1 DEF SettingsInv, StoreTyped
  <2>4. StoreTyped'
    BY <2>1 DEF SettingsInv, StoreTyped
  <2>5. SavedSurvives'
    BY <2>1, <2>2 DEF SettingsInv, SavedSurvives
  <2>6. UpdatesSound'
    BY <2>2, <2>3 DEF SettingsInv, UpdatesSound
  <2> QED BY <2>4, <2>5, <2>6 DEF SettingsInv
<1>5. CASE SetModelAuth
  <2>1. "gateway" \in Processes /\ secret' = secret /\ minted' \in Nat
    BY <1>5 DEF SetModelAuth, SettingsInv, StoreTyped, Processes
  <2>2. PICK to \in {"local", "required"} : Begin("gateway", [kind |-> "modelAuth", to |-> to])
    BY <1>5 DEF SetModelAuth
  <2>3. GoodPatch([kind |-> "modelAuth", to |-> to])
    BY DEF GoodPatch
  <2> QED BY <2>1, <2>2, <2>3, BeginInv
<1>6. CASE SaveGroups
  <2>1. "gateway" \in Processes /\ secret' = secret /\ minted' = minted /\ minted \in Nat
    BY <1>6 DEF SaveGroups, SettingsInv, StoreTyped, Processes
  <2>2. PICK gs \in (SUBSET Groups) \ {{}} : \E to \in [gs -> {"one", "bad"}] :
          IF Validated(to) THEN Begin("gateway", [kind |-> "groups", to |-> to])
          ELSE UNCHANGED <<doc, update, wanted>>
    BY <1>6 DEF SaveGroups
  <2>3. PICK to \in [gs -> {"one", "bad"}] :
          IF Validated(to) THEN Begin("gateway", [kind |-> "groups", to |-> to])
          ELSE UNCHANGED <<doc, update, wanted>>
    BY <2>2
  <2>4. CASE Validated(to)
    <3>1. GoodPatch([kind |-> "groups", to |-> to])
      BY <2>4 DEF GoodPatch, Validated, GroupChoices
    <3> QED BY <2>1, <2>3, <2>4, <3>1, BeginInv
  <2>5. CASE ~Validated(to)
    <3>1. UNCHANGED settingsVars
      BY <2>1, <2>3, <2>5 DEF settingsVars
    <3>2. readRaw' = readRaw /\ \A v \in Processes : getSettings(v)' = getSettings(v)
      BY <3>1 DEF settingsVars, readRaw, getSettings, decodeStored, CanRead
    <3> QED BY <3>1, <3>2 DEF settingsVars, SettingsInv, StoreTyped, UpdatesSound, SavedSurvives
  <2> QED BY <2>4, <2>5
<1>7. CASE Lose
  <2>1. /\ doc' = Missing /\ wanted' = DEFAULTS /\ \A w \in Processes : update[w] = Free
        /\ secret' = secret /\ update' = update /\ minted' = minted
    BY <1>7 DEF Lose
  <2>2. plain(DEFAULTS) = DEFAULTS
    BY DEF plain, DEFAULTS
  <2>3. SavedSurvives'
    BY <2>1, <2>2 DEF SavedSurvives, readRaw
  <2> QED BY <2>1, <2>3 DEF SettingsInv, StoreTyped, UpdatesSound
<1>8. CASE UNCHANGED settingsVars
  <2>1. readRaw' = readRaw /\ \A v \in Processes : getSettings(v)' = getSettings(v)
    BY <1>8 DEF settingsVars, readRaw, getSettings, decodeStored, CanRead
  <2> QED BY <1>8, <2>1 DEF settingsVars, SettingsInv, StoreTyped, UpdatesSound, SavedSurvives
<1> QED BY <1>1, <1>2, <1>3, <1>4, <1>5, <1>6, <1>7, <1>8 DEF SettingsNext

(* "A field that cannot be decrypted at this boot" (settings.js:288) is kept *)
(* by every save that is not about it, for any secrets and keys: the file   *)
(* holds what the operator last saved, field by field, but where two        *)
(* processes saved at once.                                                 *)
THEOREM SavesAreKept == SettingsSpec => []SavedSurvives
<1>1. SettingsInv => SavedSurvives
  BY DEF SettingsInv
<1> QED BY SettingsInitInv, SettingsNextInv, <1>1, PTL DEF SettingsSpec

HIDE SettingsAssumption

-----------------------------------------------------------------------------
(* The pipeline: what becomes of the words of the callers.                  *)
USE ServingAssumption

Message  == [role : {"user", "system"}, words : Words \cup {"redacted"}, by : Users]
Session  == Users \X (Partitions \cup {Unnamed})
Row      == [session : Session, words : Words, by : Users]

(* What the operator is made to say was looked at.                         *)
NotInjected(all) == \A m \in all : m.role = "system" => m.words # "injection"
SaidBy(all, client) == \A m \in all : m.by = client

Guarded(sent, rule) ==
  \A m \in sent : /\ rule.redact => m.words # "personal"
                  /\ rule.block => m.words # "injection"
                  /\ m.role = "system" => m.words # "injection"

(* A request and its session are one caller's.                             *)
Owned(q) ==
  q.client \in Users /\ q.session \in Session /\ q.session[1] = q.client /\ q.words \in Words

(* So are its words, before they are prepared and after.                   *)
Recalls(q) == q.at = "recalls" => Owned(q) /\ q.policy \in AllPolicies

Routes(q) ==
  q.at \in {"routes", "answered"} =>
    /\ Owned(q)
    /\ SaidBy(q.sent, q.client) /\ Guarded(q.sent, q.policy)
    /\ q.answer = IF q.at = "answered" THEN q.sent ELSE {}

(* And what is kept of them: a row is of the session of who said it, an    *)
(* entry of the cache answers what its key says was asked.                 *)
RowsOwned  == rows \subseteq Row /\ \A m \in rows : m.session[1] = m.by
CacheOwned == \A e \in cached : e.answer = e.key[2]

EachOwned == \A r \in Served : Recalls(served[r]) /\ Routes(served[r])

ServingInv ==
  /\ policy \in AllPolicies
  /\ served = [r \in Served |-> served[r]]
  /\ RowsOwned /\ CacheOwned /\ EachOwned

-----------------------------------------------------------------------------
(* prepare: the scanner sees what is sent, and neither pass changes who    *)
(* said a message, or in which voice.                                      *)
LEMMA PreparedIsGuarded ==
  ASSUME NEW all \in SUBSET Message, NEW p \in AllPolicies, NEW client,
         SaidBy(all, client), NotInjected(all)
  PROVE  /\ SaidBy(prepared(all, p).sent, client)
         /\ ~prepared(all, p).blocked => Guarded(prepared(all, p).sent, p)
<1> DEFINE short == IF p.compress THEN {compressed(m) : m \in all} ELSE all
           sent  == IF p.redact THEN {redacted(m) : m \in short} ELSE short
<1>1. \A m \in Message : /\ compressed(m) \in Message /\ compressed(m).by = m.by
                         /\ compressed(m).role = m.role
                         /\ m.role = "system" => compressed(m) = m
  BY DEF compressed, Message, Words
<1>2. \A m \in Message : /\ redacted(m) \in Message /\ redacted(m).by = m.by
                         /\ redacted(m).role = m.role /\ redacted(m).words # "personal"
                         /\ redacted(m).words = "injection" => m.words = "injection"
  BY DEF redacted, Message, Words
<1>3. short \subseteq Message /\ SaidBy(short, client) /\ NotInjected(short)
  BY <1>1 DEF SaidBy, NotInjected
<1> HIDE DEF short
<1>4. /\ sent \subseteq Message /\ SaidBy(sent, client) /\ NotInjected(sent)
      /\ p.redact => \A m \in sent : m.words # "personal"
  BY <1>2, <1>3 DEF SaidBy, NotInjected
<1> HIDE DEF sent
<1>5. prepared(all, p).sent = sent /\ prepared(all, p).blocked = (p.block /\ findings(sent) # {})
  BY DEF prepared, sent, short
<1>6. ASSUME ~(p.block /\ findings(sent) # {}) PROVE Guarded(sent, p)
  BY <1>4, <1>6 DEF Guarded, findings, NotInjected
<1> QED BY <1>4, <1>5, <1>6

(* One request takes a step.                                               *)
LEMMA OneServedStep ==
  ASSUME ServingInv, NEW r \in Served, NEW next,
         served' = [served EXCEPT ![r] = next], Recalls(next), Routes(next)
  PROVE  served' = [x \in Served |-> served'[x]] /\ EachOwned'
<1>1. \A x \in Served : served'[x] = IF x = r THEN next ELSE served[x]
  BY DEF ServingInv
<1>2. served' = [x \in Served |-> served'[x]]
  BY DEF ServingInv
<1>3. ASSUME NEW x \in Served PROVE Recalls(served'[x]) /\ Routes(served'[x])
  <2>1. CASE x = r
    BY <1>1, <2>1
  <2>2. CASE x # r
    BY <1>1, <2>2 DEF ServingInv, EachOwned
  <2> QED BY <2>1, <2>2
<1> QED BY <1>2, <1>3 DEF EachOwned

LEMMA ServingInitInv == ServingInit => ServingInv
<1> SUFFICES ASSUME ServingInit PROVE ServingInv
  OBVIOUS
<1>1. \A r \in Served : served[r].at = "idle"
  BY DEF ServingInit, Unserved
<1> QED BY <1>1 DEF ServingInit, ServingInv, RowsOwned, CacheOwned, EachOwned, Recalls, Routes

LEMMA ArriveInv == ASSUME ServingInv, NEW r \in Served, Arrive(r) PROVE ServingInv'
<1>1. PICK dialect \in Dialects, client \in Users, partition \in Partitions \cup {Unnamed},
           words \in Said, stream \in BOOLEAN, plainly \in BOOLEAN :
       served' = [served EXCEPT ![r] =
         [at |-> "recalls", dialect |-> dialect, client |-> client,
          session |-> sessionOf(client, partition), words |-> words,
          stream |-> stream, caches |-> ~plainly /\ ~stream,
          policy |-> [policy EXCEPT !.compress = @ /\ ~plainly]]]
  BY DEF Arrive
<1> DEFINE p == [policy EXCEPT !.compress = @ /\ ~plainly]
           next == [at |-> "recalls", dialect |-> dialect, client |-> client,
                    session |-> sessionOf(client, partition), words |-> words,
                    stream |-> stream, caches |-> ~plainly /\ ~stream, policy |-> p]
<1>2. p \in AllPolicies
  BY DEF ServingInv, AllPolicies
<1> HIDE DEF p
<1>3. Recalls(next) /\ Routes(next)
  BY <1>2 DEF Recalls, Routes, Owned, Session, sessionOf
<1>4. served' = [served EXCEPT ![r] = next]
  BY <1>1 DEF p
<1> HIDE DEF next
<1>5. served' = [x \in Served |-> served'[x]] /\ EachOwned'
  BY <1>3, <1>4, OneServedStep
<1>6. policy' = policy /\ rows' = rows /\ cached' = cached
  BY DEF Arrive
<1> QED BY <1>5, <1>6 DEF ServingInv, RowsOwned, CacheOwned

LEMMA PrepareInv == ASSUME ServingInv, NEW r \in Served, Prepare(r) PROVE ServingInv'
<1> DEFINE q == served[r]
<1>1. q.at = "recalls" /\ Owned(q) /\ q.policy \in AllPolicies
  BY DEF Prepare, ServingInv, EachOwned, Recalls
<1>2. PICK recalled \in SUBSET recallable(q.session) :
        served' = [served EXCEPT ![r] =
          LET ready == prepared({said(q)} \cup recalled, q.policy)
              found == IF q.caches THEN hit(cacheKey(q.client, ready.sent)) ELSE {}
          IN IF ready.blocked THEN [at |-> "refused"]
             ELSE IF found = {} THEN Fixed(q, "routes", rules(q.policy), ready.sent, {}, FALSE)
             ELSE Fixed(q, "answered", rules(q.policy), ready.sent,
                        (CHOOSE e \in found : TRUE).answer, FALSE)]
  BY DEF Prepare
<1> DEFINE all   == {said(q)} \cup recalled
           ready == prepared(all, q.policy)
           found == IF q.caches THEN hit(cacheKey(q.client, ready.sent)) ELSE {}
           entry == CHOOSE e \in found : TRUE
           next  == IF ready.blocked THEN [at |-> "refused"]
                    ELSE IF found = {} THEN Fixed(q, "routes", rules(q.policy), ready.sent, {}, FALSE)
                    ELSE Fixed(q, "answered", rules(q.policy), ready.sent, entry.answer, FALSE)
<1>3. all \in SUBSET Message /\ SaidBy(all, q.client) /\ NotInjected(all)
  <2>1. /\ said(q) \in Message /\ said(q).by = q.client /\ said(q).role = "user"
    BY <1>1 DEF said, Message, Owned
  <2>2. \A m \in recalled : m \in Message /\ m.by = q.client /\ m.words # "injection"
    BY <1>1 DEF recallable, Message, Owned, ServingInv, RowsOwned, Row
  <2> QED BY <2>1, <2>2 DEF SaidBy, NotInjected
<1> HIDE DEF all
<1>4. SaidBy(ready.sent, q.client) /\ (~ready.blocked => Guarded(ready.sent, q.policy))
  BY <1>1, <1>3, PreparedIsGuarded
<1> HIDE DEF ready
<1>5. found # {} => entry.answer = ready.sent
  BY DEF hit, cacheKey, ServingInv, CacheOwned
<1> HIDE DEF found, entry
<1>6. Guarded(ready.sent, q.policy) => Guarded(ready.sent, rules(q.policy))
  BY DEF Guarded, rules
<1>7. Recalls(next) /\ Routes(next)
  <2>1. CASE ready.blocked
    BY <2>1 DEF Recalls, Routes
  <2>2. CASE ~ready.blocked /\ found = {}
    <3>1. next = Fixed(q, "routes", rules(q.policy), ready.sent, {}, FALSE)
      BY <2>2
    <3> QED BY <1>1, <1>4, <1>6, <2>2, <3>1 DEF Recalls, Routes, Owned, Fixed
  <2>3. CASE ~ready.blocked /\ found # {}
    <3>1. next = Fixed(q, "answered", rules(q.policy), ready.sent, entry.answer, FALSE)
      BY <2>3
    <3> QED BY <1>1, <1>4, <1>5, <1>6, <2>3, <3>1 DEF Recalls, Routes, Owned, Fixed
  <2> QED BY <2>1, <2>2, <2>3
<1>8. served' = [served EXCEPT ![r] = next]
  BY <1>2 DEF all, ready, found, entry
<1> HIDE DEF next
<1>9. served' = [x \in Served |-> served'[x]] /\ EachOwned'
  BY <1>7, <1>8, OneServedStep
<1>10. policy' = policy /\ rows' = rows /\ cached' = cached
  BY DEF Prepare
<1> QED BY <1>9, <1>10 DEF ServingInv, RowsOwned, CacheOwned

LEMMA AgentInv == ASSUME ServingInv, NEW r \in Served, AgentAsks(r) PROVE ServingInv'
<1> DEFINE p == [policy EXCEPT !.compress = FALSE]
<1>1. p \in AllPolicies /\ p.redact = policy.redact /\ p.block = policy.block
  BY DEF ServingInv, AllPolicies
<1>2. PICK client \in Users, words \in Said :
        LET said1 == [role |-> "user", words |-> words, by |-> client]
            ready == prepared({said1}, p)
        IN served' = [served EXCEPT ![r] =
             IF ready.blocked THEN [at |-> "refused"]
             ELSE [at |-> "routes", dialect |-> NoDialect, client |-> client,
                   session |-> sessionOf(client, Unnamed), words |-> words, stream |-> FALSE,
                   caches |-> FALSE, policy |-> rules(policy), sent |-> ready.sent,
                   answer |-> {}, told |-> FALSE]]
  BY DEF AgentAsks
<1> DEFINE all   == {[role |-> "user", words |-> words, by |-> client]}
           ready == prepared(all, p)
           next  == IF ready.blocked THEN [at |-> "refused"]
                    ELSE [at |-> "routes", dialect |-> NoDialect, client |-> client,
                          session |-> sessionOf(client, Unnamed), words |-> words, stream |-> FALSE,
                          caches |-> FALSE, policy |-> rules(policy), sent |-> ready.sent,
                          answer |-> {}, told |-> FALSE]
<1>3. all \in SUBSET Message /\ SaidBy(all, client) /\ NotInjected(all)
  BY DEF Message, SaidBy, NotInjected
<1> HIDE DEF all, p
<1>4. SaidBy(ready.sent, client) /\ (~ready.blocked => Guarded(ready.sent, p))
  BY <1>1, <1>3, PreparedIsGuarded
<1> HIDE DEF ready
<1>5. Guarded(ready.sent, p) => Guarded(ready.sent, rules(policy))
  BY <1>1 DEF Guarded, rules
<1>6. Recalls(next) /\ Routes(next)
  <2>1. CASE ready.blocked
    BY <2>1 DEF Recalls, Routes
  <2>2. CASE ~ready.blocked
    BY <1>4, <1>5, <2>2 DEF Recalls, Routes, Owned, Session, sessionOf
  <2> QED BY <2>1, <2>2
<1>7. served' = [served EXCEPT ![r] = next]
  BY <1>2 DEF all, ready
<1> HIDE DEF next
<1>8. served' = [x \in Served |-> served'[x]] /\ EachOwned'
  BY <1>6, <1>7, OneServedStep
<1>9. policy' = policy /\ rows' = rows /\ cached' = cached
  BY DEF AgentAsks
<1> QED BY <1>8, <1>9 DEF ServingInv, RowsOwned, CacheOwned

LEMMA AnswerInv == ASSUME ServingInv, NEW r \in Served, Answer(r) PROVE ServingInv'
<1> DEFINE q == served[r]
           told == q.dialect.recall /\ ~q.stream /\ \E m \in q.sent : m.role = "system"
           next == Fixed(q, "answered", q.policy, q.sent, q.sent, told)
<1>1. /\ Owned(q) /\ SaidBy(q.sent, q.client) /\ Guarded(q.sent, q.policy)
  BY DEF Answer, ServingInv, EachOwned, Routes
<1>2. served' = [served EXCEPT ![r] = next] /\ policy' = policy
  BY DEF Answer
<1> HIDE DEF told
<1>3. Recalls(next) /\ Routes(next)
  BY <1>1 DEF Recalls, Routes, Owned, Fixed
<1> HIDE DEF next
<1>4. served' = [x \in Served |-> served'[x]] /\ EachOwned'
  BY <1>2, <1>3, OneServedStep
<1>5. CacheOwned'
  <2>1. cached' \subseteq cached \cup {[key |-> <<q.client, q.sent>>, answer |-> q.sent]}
    BY DEF Answer, cacheKey
  <2> QED BY <2>1 DEF ServingInv, CacheOwned
<1>6. RowsOwned'
  <2>1. rows' \subseteq rows \cup turn(q)
    BY DEF Answer
  <2>2. \A m \in turn(q) : m \in Row /\ m.session[1] = m.by
    BY <1>1 DEF turn, Row, Owned
  <2> QED BY <2>1, <2>2 DEF ServingInv, RowsOwned
<1> QED BY <1>2, <1>4, <1>5, <1>6 DEF ServingInv

LEMMA EndInv == ASSUME ServingInv, NEW r \in Served, Fail(r) \/ Done(r) PROVE ServingInv'
<1>1. served' = [x \in Served |-> served'[x]] /\ EachOwned'
  <2>1. CASE Fail(r)
    <3> DEFINE next == [at |-> "failed", told |-> ~served[r].stream \/ served[r].dialect.cut]
    <3>1. Recalls(next) /\ Routes(next)
      BY DEF Recalls, Routes
    <3>2. served' = [served EXCEPT ![r] = next]
      BY <2>1 DEF Fail
    <3> HIDE DEF next
    <3> QED BY <3>1, <3>2, OneServedStep
  <2>2. CASE Done(r)
    <3>1. Recalls(Unserved) /\ Routes(Unserved)
      BY DEF Recalls, Routes, Unserved
    <3>2. served' = [served EXCEPT ![r] = Unserved]
      BY <2>2 DEF Done
    <3> QED BY <3>1, <3>2, OneServedStep
  <2> QED BY <2>1, <2>2
<1>2. policy' = policy /\ rows' = rows /\ cached' = cached
  BY DEF Fail, Done
<1> QED BY <1>1, <1>2 DEF ServingInv, RowsOwned, CacheOwned

LEMMA ServingNextInv == ServingInv /\ [ServingNext]_servingVars => ServingInv'
<1> SUFFICES ASSUME ServingInv, [ServingNext]_servingVars PROVE ServingInv'
  OBVIOUS
<1>1. ASSUME NEW r \in Served,
             Arrive(r) \/ Prepare(r) \/ AgentAsks(r) \/ Answer(r) \/ Fail(r) \/ Done(r)
      PROVE  ServingInv'
  BY <1>1, ArriveInv, PrepareInv, AgentInv, AnswerInv, EndInv
<1>2. CASE Forgets
  BY <1>2 DEF Forgets, ServingInv, RowsOwned, CacheOwned, EachOwned
<1>3. CASE Expire
  BY <1>3 DEF Expire, ServingInv, RowsOwned, CacheOwned, EachOwned
<1>4. CASE Switch
  BY <1>4 DEF Switch, ServingInv, RowsOwned, CacheOwned, EachOwned
<1>5. CASE UNCHANGED servingVars
  BY <1>5 DEF servingVars, ServingInv, RowsOwned, CacheOwned, EachOwned
<1> QED BY <1>1, <1>2, <1>3, <1>4, <1>5 DEF ServingNext

LEMMA InvGuards == ServingInv => SentAsGuarded /\ OwnWordsOnly
<1> SUFFICES ASSUME ServingInv PROVE SentAsGuarded /\ OwnWordsOnly
  OBVIOUS
<1>1. ASSUME NEW r \in atProvider
      PROVE  /\ SaidBy(served[r].sent, served[r].client) /\ Guarded(served[r].sent, served[r].policy)
             /\ served[r].answer = IF served[r].at = "answered" THEN served[r].sent ELSE {}
  BY DEF atProvider, ServingInv, EachOwned, Routes
<1>2. \A m \in rows : m.words \in Words /\ m.session[1] = m.by
  BY DEF ServingInv, RowsOwned, Row
<1>3. SentAsGuarded
  BY <1>1 DEF SentAsGuarded, Guarded
<1>4. OwnWordsOnly
  BY <1>1, <1>2 DEF OwnWordsOnly, SaidBy
<1> QED BY <1>3, <1>4

(* "The scanner sees what will be sent" (prepare of server.js): for any     *)
(* number of callers and requests, whatever they say and whenever the       *)
(* settings are switched, no request sends what the settings it met forbid. *)
THEOREM SentIsGuarded == ServingSpec => []SentAsGuarded
<1>1. ServingInv => SentAsGuarded
  BY InvGuards
<1> QED BY <1>1, ServingInitInv, ServingNextInv, PTL DEF ServingSpec

(* The sessions, the cache and the memory keep callers apart (sessionOf,    *)
(* cacheFor, ingestTurn): no caller's words reach another, and an answer    *)
(* from the cache is the answer to what was asked.                          *)
THEOREM WordsStayApart == ServingSpec => []OwnWordsOnly
<1>1. ServingInv => OwnWordsOnly
  BY InvGuards
<1> QED BY <1>1, ServingInitInv, ServingNextInv, PTL DEF ServingSpec

HIDE ServingAssumption

-----------------------------------------------------------------------------
(* The tools of MCP: what their marks are worth.                            *)
(* A tool that changes something, or shows what is not everybody's, is     *)
(* marked.                                                                 *)
Private == {"audit", "allMemory"}

Marked(tool) ==
  tool.changes \notin Harmless \/ tool.confined \in Private => tool.mutates \/ tool.operatorOnly

LEMMA MarkedKinds ==
  /\ Marked(Reads) /\ Marked(Resolves)
  /\ \A what : Marked(Writes(what)) /\ Marked(OperatorReads(what))
  /\ Marked(SearchesMemory)
  /\ Marked(Tool({"mutates", "operatorOnly"}, "audit", "audit"))
  /\ Marked(Confined(Tool({}, "nothing", "audit"), "state"))
  /\ Marked(Tool({"mutates"}, "settings", "audit"))
<1>1. Marked(Reads) /\ Marked(Resolves)
  BY DEF Marked, Reads, Resolves, Tool, Harmless, Private
<1>2. \A what : Marked(Writes(what))
  BY DEF Marked, Writes, Tool
<1>3. \A what : Marked(OperatorReads(what))
  BY DEF Marked, OperatorReads, Tool
<1>4. /\ Marked(SearchesMemory)
      /\ Marked(Confined(Tool({}, "nothing", "audit"), "state"))
  BY DEF Marked, SearchesMemory, Confined, Tool, Harmless, Private
<1>5. /\ Marked(Tool({"mutates", "operatorOnly"}, "audit", "audit"))
      /\ Marked(Tool({"mutates"}, "settings", "audit"))
  BY DEF Marked, Tool
<1> QED BY <1>1, <1>2, <1>3, <1>4, <1>5

LEMMA AllMarked == \A tool \in listTools : Marked(tool)
<1>1. \A tool \in Range(gatewayTools) : Marked(tool)
  BY MarkedKinds DEF Range, gatewayTools
<1>2. \A tool \in Range(providersTools) : Marked(tool)
  BY MarkedKinds DEF Range, providersTools
<1>3. \A tool \in Range(modelsTools) : Marked(tool)
  BY MarkedKinds DEF Range, modelsTools
<1>4. \A tool \in Range(routingTools) : Marked(tool)
  BY MarkedKinds DEF Range, routingTools
<1>5. \A tool \in Range(combosTools) : Marked(tool)
  BY MarkedKinds DEF Range, combosTools
<1>6. \A tool \in Range(completionsTools) : Marked(tool)
  BY MarkedKinds DEF Range, completionsTools
<1>7. \A tool \in Range(quotaTools) : Marked(tool)
  BY MarkedKinds DEF Range, quotaTools
<1>8. \A tool \in Range(budgetsTools) : Marked(tool)
  BY MarkedKinds DEF Range, budgetsTools
<1>9. \A tool \in Range(costTools) : Marked(tool)
  BY MarkedKinds DEF Range, costTools
<1>10. \A tool \in Range(cacheTools) : Marked(tool)
  BY MarkedKinds DEF Range, cacheTools
<1>11. \A tool \in Range(resilienceTools) : Marked(tool)
  BY MarkedKinds DEF Range, resilienceTools
<1>12. \A tool \in Range(compressionTools) : Marked(tool)
  BY MarkedKinds DEF Range, compressionTools
<1>13. \A tool \in Range(memoryTools) : Marked(tool)
  BY MarkedKinds DEF Range, memoryTools
<1>14. \A tool \in Range(notionTools) : Marked(tool)
  BY MarkedKinds DEF Range, notionTools
<1>15. \A tool \in Range(obsidianTools) : Marked(tool)
  BY MarkedKinds DEF Range, obsidianTools
<1>16. \A tool \in Range(auditTools) : Marked(tool)
  BY MarkedKinds DEF Range, auditTools, auditReads
<1>17. \A tool \in Range(guardsTools) : Marked(tool)
  BY MarkedKinds DEF Range, guardsTools
<1>18. \A tool \in Range(proxyTools) : Marked(tool)
  BY MarkedKinds DEF Range, proxyTools
<1>19. \A tool \in Range(tlsTools) : Marked(tool)
  BY MarkedKinds DEF Range, tlsTools
<1>20. \A tool \in Range(authTools) : Marked(tool)
  BY MarkedKinds DEF Range, authTools
<1>21. \A tool \in Range(servicesTools) : Marked(tool)
  BY MarkedKinds DEF Range, servicesTools
<1>22. \A tool \in Range(cloudAgentsTools) : Marked(tool)
  BY MarkedKinds DEF Range, cloudAgentsTools
<1>23. \A tool \in Range(gamificationTools) : Marked(tool)
  BY MarkedKinds DEF Range, gamificationTools
<1>24. \A tool \in Range(a2aTools) : Marked(tool)
  BY MarkedKinds DEF Range, a2aTools
<1>25. \A tool \in Range(mcpTools) : Marked(tool)
  BY MarkedKinds DEF Range, mcpTools
<1>26. \A tool \in Range(settingsTools) : Marked(tool)
  BY MarkedKinds DEF Range, settingsTools
<1>27. \A tool \in Range(usageTools) : Marked(tool)
  BY MarkedKinds DEF Range, usageTools
<1>28. \A tool \in Range(pricingTools) : Marked(tool)
  BY MarkedKinds DEF Range, pricingTools
<1>29. \A tool \in Range(contextTools) : Marked(tool)
  BY MarkedKinds DEF Range, contextTools
<1>30. \A tool \in Range(sessionsTools) : Marked(tool)
  BY MarkedKinds DEF Range, sessionsTools
<1>31. \A tool \in Range(diagnosticsTools) : Marked(tool)
  BY MarkedKinds DEF Range, diagnosticsTools
<1>32. \A tool \in Range(dialectsTools) : Marked(tool)
  BY MarkedKinds DEF Range, dialectsTools
<1> QED
  BY <1>1, <1>2, <1>3, <1>4, <1>5, <1>6, <1>7, <1>8, <1>9, <1>10, <1>11, <1>12, <1>13, <1>14, <1>15, <1>16, <1>17, <1>18, <1>19, <1>20, <1>21, <1>22, <1>23, <1>24, <1>25, <1>26, <1>27, <1>28, <1>29, <1>30, <1>31, <1>32
     DEF listTools

-----------------------------------------------------------------------------
(* A stream that may change something was opened by who held the operator  *)
(* key of that moment.                                                     *)
Entitled(caller) == ~readOnlyMode /\ \E n \in 0 .. operatorKey : caller = Holds(n)

StreamsEntitled ==
  \A c \in Channels :
    channels[c] # Closed /\ ~channels[c].readOnly => Entitled(channels[c].caller)

ToolsInv ==
  /\ operatorKey \in Nat /\ channels \in [Channels -> {channels[c] : c \in Channels}]
  /\ StreamsEntitled /\ ReadOnlyIsSo

LEMMA OperatorEntitled ==
  ASSUME operatorKey \in Nat, NEW caller, ~mcpReadOnly(caller)
  PROVE  Entitled(caller)
<1>1. ~readOnlyMode /\ calledBy(caller) = "operator"
  BY DEF mcpReadOnly
<1>2. caller = Holds(operatorKey)
  BY <1>1 DEF calledBy
<1> QED BY <1>1, <1>2 DEF Entitled

LEMMA ActEntitled ==
  ASSUME NEW caller, NEW tool \in listTools, NEW readOnly,
         ~readOnly => Entitled(caller), callTool(caller, tool, readOnly),
         UNCHANGED <<operatorKey, readOnlyMode>>
  PROVE  ReadOnlyIsSo'
<1>1. CASE ~allowed(tool, readOnly)
  BY <1>1 DEF callTool, NoAct, ReadOnlyIsSo, Harmless
<1>2. CASE allowed(tool, readOnly)
  <2>1. /\ acted'.caller = caller /\ acted'.changed = tool.changes
        /\ acted'.shown = IF readOnly THEN tool.confined ELSE tool.shows
    BY <1>2 DEF callTool
  <2>2. CASE ~readOnly
    BY <2>1, <2>2 DEF ReadOnlyIsSo, Entitled
  <2>3. CASE readOnly
    BY <1>2, <2>1, <2>3, AllMarked DEF allowed, Marked, Private, ReadOnlyIsSo
  <2> QED BY <2>2, <2>3
<1> QED BY <1>1, <1>2

LEMMA ToolsInitInv == ToolsInit => ToolsInv
BY DEF ToolsInit, ToolsInv, StreamsEntitled, ReadOnlyIsSo, NoAct, Harmless

LEMMA ToolsNextInv == ToolsInv /\ [ToolsNext]_toolVars => ToolsInv'
<1> SUFFICES ASSUME ToolsInv, [ToolsNext]_toolVars PROVE ToolsInv'
  OBVIOUS
<1> USE DEF ToolsInv
<1>1. ASSUME NEW caller \in Callers, NEW tool \in listTools, PostMcp(caller, tool) PROVE ToolsInv'
  <2>1. ReadOnlyIsSo'
    BY <1>1, OperatorEntitled, ActEntitled DEF PostMcp
  <2> QED BY <1>1, <2>1 DEF PostMcp, StreamsEntitled, Entitled
<1>2. ASSUME NEW c \in Channels, NEW caller \in Callers, OpenSse(c, caller) PROVE ToolsInv'
  <2>1. ~mcpReadOnly(caller) => Entitled(caller)
    BY OperatorEntitled
  <2>2. channels' = [channels EXCEPT ![c] = [caller |-> caller, readOnly |-> mcpReadOnly(caller)]]
    BY <1>2 DEF OpenSse
  <2>3. StreamsEntitled'
    BY <1>2, <2>1, <2>2 DEF OpenSse, StreamsEntitled, Entitled
  <2>4. ReadOnlyIsSo'
    BY <1>2 DEF OpenSse, ReadOnlyIsSo
  <2> QED BY <1>2, <2>2, <2>3, <2>4 DEF OpenSse
<1>3. ASSUME NEW c \in Channels, NEW tool \in listTools, PostMessage(c, tool) PROVE ToolsInv'
  <2>1. ~channels[c].readOnly => Entitled(channels[c].caller)
    BY <1>3 DEF PostMessage, StreamsEntitled
  <2>2. ReadOnlyIsSo'
    BY <1>3, <2>1, ActEntitled DEF PostMessage
  <2> QED BY <1>3, <2>2 DEF PostMessage, StreamsEntitled, Entitled
<1>4. ASSUME NEW c \in Channels, CloseSse(c) PROVE ToolsInv'
  BY <1>4 DEF CloseSse, StreamsEntitled, Entitled, ReadOnlyIsSo
<1>5. ASSUME RotateKey PROVE ToolsInv'
  BY <1>5 DEF RotateKey, StreamsEntitled, Entitled, ReadOnlyIsSo
<1>6. ASSUME RevokeKey \/ SwitchKeyless \/ UNCHANGED toolVars PROVE ToolsInv'
  BY <1>6 DEF RevokeKey, SwitchKeyless, toolVars, StreamsEntitled, Entitled, ReadOnlyIsSo
<1>7. ASSUME RestartMcp PROVE ToolsInv'
  BY <1>7 DEF RestartMcp, StreamsEntitled, ReadOnlyIsSo, NoAct, Harmless
<1> QED BY <1>1, <1>2, <1>3, <1>4, <1>5, <1>6, <1>7 DEF ToolsNext

(* "Mutations are marked" (mcp/scopes.js): no order of calls, streams,     *)
(* rotations, revocations and restarts lets anybody who did not hold the   *)
(* operator key when he asked, or opened the stream, change state, or read *)
(* the audit trail or another caller's memory, and nobody does so under    *)
(* MCP_READ_ONLY.                                                          *)
THEOREM ToolsGuarded == ToolsSpec => []ReadOnlyIsSo
<1>1. ToolsInv => ReadOnlyIsSo
  BY DEF ToolsInv
<1> QED BY ToolsInitInv, ToolsNextInv, <1>1, PTL DEF ToolsSpec

-----------------------------------------------------------------------------
(* The tasks of A2A: the bounded store.                                     *)
USE TasksAssumption

(* The store is the end of the list of all that has finished, all of it or *)
(* the last MAX_TASKS.                                                     *)
StoreIsEnd ==
  /\ tasks \in Seq(TaskIds) /\ finished \in Seq(TaskIds)
  /\ Len(tasks) <= MAX_TASKS /\ Len(tasks) <= Len(finished)
  /\ Len(tasks) < Len(finished) => Len(tasks) = MAX_TASKS
  /\ \A i \in 1 .. Len(tasks) : tasks[i] = finished[Len(finished) - Len(tasks) + i]

(* A batch that runs waits for tasks, and has answers; those that name a   *)
(* task name one that has finished.                                        *)
Waits   == [task : TaskIds, id : {"i", NoId}]
Answers == [code : Int, task : TaskIds \cup {NoTask}]
Posts   == {NoPost} \cup [at : {"runs"}, waits : SUBSET Waits, body : SUBSET Answers]

Finished(answer) == answer.code = 0 => \E j \in DOMAIN finished : finished[j] = answer.task

NamesFinished ==
  \A p \in Peers : posts[p].at = "runs" => \A answer \in posts[p].body : Finished(answer)

TasksInv ==
  /\ StoreIsEnd /\ begun \in 0 .. MaxTasks
  /\ posts \in [Peers -> Posts] /\ NamesFinished

LEMMA EndIsFound == TasksInv => AnsweredIsFound
<1> SUFFICES ASSUME TasksInv, NEW p \in Peers, posts[p].at = "runs",
                    NEW answer \in posts[p].body, answer.code = 0, ~remembered(answer.task)
             PROVE  \E j \in DOMAIN finished :
                      finished[j] = answer.task /\ Len(finished) - j >= MAX_TASKS
  BY DEF AnsweredIsFound
<1>1. PICK j \in DOMAIN finished : finished[j] = answer.task
  BY DEF TasksInv, NamesFinished, Finished
<1>2. Len(tasks) \in Nat /\ Len(finished) \in Nat /\ j \in 1 .. Len(finished)
      /\ DOMAIN tasks = 1 .. Len(tasks)
  BY DEF TasksInv, StoreIsEnd
<1>3. ~(j > Len(finished) - Len(tasks))
  <2> SUFFICES ASSUME j > Len(finished) - Len(tasks) PROVE FALSE
    OBVIOUS
  <2>1. j - (Len(finished) - Len(tasks)) \in 1 .. Len(tasks)
    BY <1>2
  <2>2. PICK i \in 1 .. Len(tasks) : i = j - (Len(finished) - Len(tasks))
    BY <2>1
  <2>3. tasks[i] = finished[Len(finished) - Len(tasks) + i]
    BY DEF TasksInv, StoreIsEnd
  <2>4. Len(finished) - Len(tasks) + i = j
    BY <1>2, <2>2
  <2>5. tasks[i] = answer.task /\ i \in DOMAIN tasks
    BY <1>1, <1>2, <2>3, <2>4
  <2> QED BY <2>5 DEF remembered
<1>4. Len(tasks) < Len(finished) => Len(tasks) = MAX_TASKS
  BY DEF TasksInv, StoreIsEnd
<1>5. Len(finished) - j >= MAX_TASKS
  <2>1. j \in Nat /\ j >= 1 /\ j <= Len(finished) - Len(tasks)
    BY <1>2, <1>3
  <2>2. Len(tasks) = MAX_TASKS
    <3>1. Len(tasks) < Len(finished)
      BY <1>2, <2>1
    <3> QED BY <1>4, <3>1
  <2> QED BY <1>2, <2>1, <2>2
<1> QED BY <1>1, <1>5

(* The calls of a batch that send are numbered on from `begun`.            *)
LEMMA Numbered ==
  ASSUME begun \in Nat, NEW n \in 1 .. MaxBatch, NEW sends \in SUBSET (1 .. n),
         begun + Cardinality(sends) <= MaxTasks, NEW i \in sends
  PROVE  begun + Cardinality({j \in sends : j <= i}) \in TaskIds
<1> DEFINE upTo == {j \in sends : j <= i}
<1>1. IsFiniteSet(1 .. n)
  BY FS_Interval
<1>2. IsFiniteSet(sends)
  BY <1>1, FS_Subset
<1>3. IsFiniteSet(upTo) /\ Cardinality(upTo) <= Cardinality(sends)
  BY <1>2, FS_Subset
<1>4. upTo # {}
  OBVIOUS
<1>5. Cardinality(upTo) \in Nat /\ Cardinality(sends) \in Nat /\ Cardinality(upTo) # 0
  <2> HIDE DEF upTo
  <2> QED BY <1>2, <1>3, <1>4, FS_CardinalityType, FS_EmptySet
<1> QED BY <1>3, <1>5 DEF TaskIds

LEMMA ImmediateAnswers ==
  ASSUME StoreIsEnd, NEW call \in Calls, call.method # "send"
  PROVE  immediate(call) \in Answers /\ Finished(immediate(call))
<1>0. ASSUME NEW i \in DOMAIN tasks
      PROVE  /\ tasks[i] \in TaskIds
             /\ Len(finished) - Len(tasks) + i \in DOMAIN finished
             /\ tasks[i] = finished[Len(finished) - Len(tasks) + i]
  <2>1. /\ Len(tasks) \in Nat /\ Len(finished) \in Nat /\ Len(tasks) <= Len(finished)
        /\ DOMAIN tasks = 1 .. Len(tasks) /\ DOMAIN finished = 1 .. Len(finished)
        /\ tasks[i] \in TaskIds
    BY DEF StoreIsEnd
  <2>2. tasks[i] = finished[Len(finished) - Len(tasks) + i]
    BY <2>1 DEF StoreIsEnd
  <2>3. Len(finished) - Len(tasks) + i \in 1 .. Len(finished)
    BY <2>1
  <2> QED BY <2>1, <2>2, <2>3
<1>1. CASE call.method = "malformed"
  BY <1>1 DEF immediate, failure, Answers, Finished
<1>2. CASE call.method = "sendUnknownSkill"
  BY <1>2 DEF immediate, failure, Answers, Finished
<1>3. CASE call.method = "get"
  BY <1>0, <1>3 DEF immediate, handleTasksGet, remembered, success, failure, Answers, Finished
<1>4. CASE call.method = "cancel"
  BY <1>4 DEF immediate, handleTasksCancel, failure, Answers, Finished
<1> QED BY <1>1, <1>2, <1>3, <1>4 DEF Calls

LEMMA TasksInitInv == A2AInit => TasksInv
<1> SUFFICES ASSUME A2AInit PROVE TasksInv
  OBVIOUS
<1>1. StoreIsEnd
  BY DEF A2AInit, StoreIsEnd
<1>2. posts \in [Peers -> Posts] /\ NamesFinished
  BY DEF A2AInit, Posts, NoPost, NamesFinished
<1> QED BY <1>1, <1>2 DEF TasksInv, A2AInit

LEMMA PostInv ==
  ASSUME TasksInv, NEW p \in Peers, Post(p)
  PROVE  TasksInv'
<1> PICK n \in 1 .. MaxBatch : \E calls \in [1 .. n -> Calls] :
      LET sends == {i \in 1 .. n : calls[i].method = "send"}
          number(i) == begun + Cardinality({j \in sends : j <= i}) IN
      /\ begun + Cardinality(sends) <= MaxTasks
      /\ begun' = begun + Cardinality(sends)
      /\ posts' = [posts EXCEPT ![p] =
           [at |-> "runs",
            waits |-> {[task |-> number(i), id |-> calls[i].id] : i \in sends},
            body |-> {immediate(calls[i]) : i \in {j \in 1 .. n \ sends : replied(calls[j])}}]]
  BY DEF Post
<1> PICK calls \in [1 .. n -> Calls] :
      LET sends == {i \in 1 .. n : calls[i].method = "send"}
          number(i) == begun + Cardinality({j \in sends : j <= i}) IN
      /\ begun + Cardinality(sends) <= MaxTasks
      /\ begun' = begun + Cardinality(sends)
      /\ posts' = [posts EXCEPT ![p] =
           [at |-> "runs",
            waits |-> {[task |-> number(i), id |-> calls[i].id] : i \in sends},
            body |-> {immediate(calls[i]) : i \in {j \in 1 .. n \ sends : replied(calls[j])}}]]
  OBVIOUS
<1> DEFINE sends == {i \in 1 .. n : calls[i].method = "send"}
           number(i) == begun + Cardinality({j \in sends : j <= i})
           waits == {[task |-> number(i), id |-> calls[i].id] : i \in sends}
           body == {immediate(calls[i]) : i \in {j \in 1 .. n \ sends : replied(calls[j])}}
<1>1. /\ begun + Cardinality(sends) <= MaxTasks /\ begun' = begun + Cardinality(sends)
      /\ posts' = [posts EXCEPT ![p] = [at |-> "runs", waits |-> waits, body |-> body]]
  OBVIOUS
<1>2. begun' \in 0 .. MaxTasks
  <2>1. IsFiniteSet(1 .. n)
    BY FS_Interval
  <2>2. IsFiniteSet(sends)
    BY <2>1, FS_Subset
  <2> HIDE DEF sends
  <2> QED BY <1>1, <2>2, FS_CardinalityType DEF TasksInv
<1>3. waits \in SUBSET Waits
  <2>1. \A i \in sends : calls[i].id \in {"i", NoId}
    BY DEF Calls
  <2>2. ASSUME NEW i \in sends PROVE number(i) \in TaskIds
    <3>1. begun \in Nat /\ sends \in SUBSET (1 .. n)
      BY DEF TasksInv
    <3> HIDE DEF sends
    <3> QED BY <1>1, <3>1, Numbered
  <2> HIDE DEF sends, number
  <2> QED BY <2>1, <2>2 DEF Waits
<1>4. body \in SUBSET Answers /\ \A answer \in body : Finished(answer)
  BY ImmediateAnswers DEF TasksInv
<1>5. UNCHANGED <<tasks, finished>>
  BY DEF Post
<1>6. posts' \in [Peers -> Posts]
  <2> HIDE DEF waits, body
  <2>1. [at |-> "runs", waits |-> waits, body |-> body] \in Posts
    BY <1>3, <1>4 DEF Posts
  <2> QED BY <1>1, <2>1 DEF TasksInv
<1>7. NamesFinished'
  <2> HIDE DEF waits, body
  <2>1. \A answer : Finished(answer) => Finished(answer)'
    BY <1>5 DEF Finished
  <2>2. posts'[p].body = body /\ \A q \in Peers \ {p} : posts'[q] = posts[q]
    BY <1>1 DEF TasksInv
  <2> QED BY <1>4, <2>1, <2>2 DEF TasksInv, NamesFinished
<1>8. StoreIsEnd'
  BY <1>5 DEF TasksInv, StoreIsEnd
<1> QED BY <1>2, <1>6, <1>7, <1>8 DEF TasksInv

LEMMA SkillInv ==
  ASSUME TasksInv, NEW p \in Peers, SkillEnds(p)
  PROVE  TasksInv'
<1>1. PICK call \in posts[p].waits :
       /\ posts[p].at = "runs" /\ UNCHANGED begun
       /\ tasks' = remember(call.task) /\ finished' = Append(finished, call.task)
       /\ posts' = [posts EXCEPT ![p].waits = @ \ {call},
                      ![p].body = IF call.id = NoId THEN @ ELSE @ \cup {success(call.task)}]
  BY DEF SkillEnds
<1>2. posts[p] \in [at : {"runs"}, waits : SUBSET Waits, body : SUBSET Answers]
      /\ call.task \in TaskIds
  BY <1>1 DEF TasksInv, Posts, NoPost, Waits
<1>3. StoreIsEnd'
  <2> DEFINE all == Append(tasks, call.task)
  <2>1. all \in Seq(TaskIds) /\ Len(all) = Len(tasks) + 1 /\ finished' \in Seq(TaskIds)
        /\ Len(finished') = Len(finished) + 1
    BY <1>1, <1>2 DEF TasksInv, StoreIsEnd
  <2>2. \A i \in 1 .. Len(all) : all[i] = finished'[Len(finished') - Len(all) + i]
    BY <1>1, <1>2 DEF TasksInv, StoreIsEnd
  <2>3. CASE Len(all) > MAX_TASKS
    <3>1. tasks' = Tail(all)
      BY <1>1, <2>3 DEF remember
    <3>2. tasks' \in Seq(TaskIds) /\ Len(tasks') = Len(all) - 1
          /\ \A i \in 1 .. Len(tasks') : tasks'[i] = all[i + 1]
      <4> HIDE DEF all
      <4> QED BY <2>1, <3>1 DEF TasksInv, StoreIsEnd
    <3> HIDE DEF all
    <3>3. /\ Len(tasks) \in Nat /\ Len(finished) \in Nat /\ Len(tasks) <= Len(finished)
          /\ Len(tasks) <= MAX_TASKS
      BY DEF TasksInv, StoreIsEnd
    <3>4. Len(tasks') = MAX_TASKS /\ Len(tasks') <= Len(finished')
      BY <2>1, <2>3, <3>2, <3>3
    <3>5. ASSUME NEW i \in 1 .. Len(tasks')
          PROVE  tasks'[i] = finished'[Len(finished') - Len(tasks') + i]
      <4> DEFINE a == Len(all)  f == Len(finished')  t == Len(tasks')
      <4>1. a \in Nat /\ f \in Nat /\ t \in Nat /\ t = a - 1 /\ i \in 1 .. t
        BY <2>1, <3>2, <3>3
      <4>2. i + 1 \in 1 .. Len(all)
            /\ all[i + 1] = finished'[Len(finished') - Len(all) + (i + 1)]
            /\ tasks'[i] = all[i + 1]
        <5>1. i + 1 \in 1 .. a
          <6> HIDE DEF a, f, t
          <6> QED BY <4>1
        <5> QED BY <2>2, <3>2, <5>1
      <4>3. f - a + (i + 1) = f - t + i
        <5> HIDE DEF a, f, t
        <5> QED BY <4>1
      <4> QED BY <4>2, <4>3
    <3>6. tasks' \in Seq(TaskIds) /\ finished' \in Seq(TaskIds)
      BY <2>1, <3>2
    <3>7. Len(tasks') <= MAX_TASKS
      BY <3>4 DEF TasksInv, StoreIsEnd
    <3> QED BY ONLY <3>4, <3>5, <3>6, <3>7 DEF StoreIsEnd
  <2>4. CASE ~(Len(all) > MAX_TASKS)
    <3>1. tasks' = all
      BY <1>1, <2>4 DEF remember
    <3> HIDE DEF all
    <3> QED BY <2>1, <2>2, <2>4, <3>1 DEF TasksInv, StoreIsEnd
  <2> QED BY <2>3, <2>4
<1>4. \A answer : Finished(answer) => Finished(answer)'
  BY <1>1, <1>2 DEF Finished, TasksInv, StoreIsEnd
<1>5. Finished(success(call.task))' /\ success(call.task) \in Answers
  <2>1. Len(finished) + 1 \in DOMAIN finished' /\ finished'[Len(finished) + 1] = call.task
    BY <1>1, <1>2 DEF TasksInv, StoreIsEnd
  <2> QED BY <1>2, <2>1 DEF Finished, success, Answers
<1>6. /\ posts'[p].at = "runs"
      /\ posts'[p].body \in {posts[p].body, posts[p].body \cup {success(call.task)}}
      /\ posts'[p] \in Posts
      /\ \A q \in Peers \ {p} : posts'[q] = posts[q]
  BY <1>1, <1>2, <1>5 DEF TasksInv, Posts
<1>7. posts' \in [Peers -> Posts]
  BY <1>1, <1>6 DEF TasksInv
<1>8. NamesFinished'
  BY <1>4, <1>5, <1>6, <1>1 DEF TasksInv, NamesFinished
<1> QED BY <1>1, <1>3, <1>7, <1>8 DEF TasksInv

LEMMA TasksNextInv == TasksInv /\ [A2ANext]_a2aVars => TasksInv'
<1> SUFFICES ASSUME TasksInv, [A2ANext]_a2aVars PROVE TasksInv'
  OBVIOUS
<1>1. ASSUME NEW p \in Peers, Reply(p) PROVE TasksInv'
  BY <1>1 DEF Reply, TasksInv, StoreIsEnd, NamesFinished, Finished, Posts, NoPost
<1>2. ASSUME RestartsA2A PROVE TasksInv'
  BY <1>2 DEF RestartsA2A, TasksInv, StoreIsEnd, NamesFinished, Finished, Posts, NoPost
<1>3. ASSUME UNCHANGED a2aVars PROVE TasksInv'
  BY <1>3 DEF a2aVars, TasksInv, StoreIsEnd, NamesFinished, Finished
<1> QED BY PostInv, SkillInv, <1>1, <1>2, <1>3 DEF A2ANext

(* A client that was told of a task can ask for it again (tasks/get), until *)
(* MAX_TASKS others have finished after it: `remember` evicts the oldest    *)
(* first, and handleA2A answers nothing before it is remembered, however    *)
(* batches interleave.                                                      *)
THEOREM AnswersAreFound == A2ASpec => []AnsweredIsFound
<1> QED BY TasksInitInv, TasksNextInv, EndIsFound, PTL DEF A2ASpec

HIDE TasksAssumption

-----------------------------------------------------------------------------
(* Who is let in: the agents, the codes and the gate that reads them.       *)
USE AgentsAssumption, AccessAssumption

(* A list of agents: each has a key of its own, of the kind it was issued   *)
(* for.                                                                     *)
AgentOf(given) == [key : DOMAIN given, name : Names, kind : Kinds, active : BOOLEAN]
Roster(list, given) ==
  /\ list \in Seq(AgentOf(given))
  /\ \A i, j \in DOMAIN list : list[i].key = list[j].key => i = j
  /\ \A i \in DOMAIN list : list[i].kind = given[list[i].key]

Ended(list) == {list[i].key : i \in {j \in DOMAIN list : ~list[j].active}}

(* The keys of the file that are not active are those whose revocation was  *)
(* acknowledged; and so they will be when a change that is not stale lands. *)
ChangeSound(c, given, gone) ==
  /\ c = [next |-> c.next, ends |-> c.ends, stale |-> c.stale]
  /\ Roster(c.next, given) /\ c.stale \in BOOLEAN
  /\ ~c.stale => Ended(c.next) = gone \cup c.ends

AgentsInv ==
  /\ issued \in Seq(Kinds) /\ Len(issued) <= MaxAgents
  /\ change = [w \in Writers |-> change[w]]
  /\ agentsFile # Corrupt =>
       /\ Roster(agentsFile, issued) /\ revoked = Ended(agentsFile)
       /\ \A w \in Writers : change[w] # Idle => ChangeSound(change[w], issued, revoked)

LEMMA AgentsInitInv == AgentsInit => AgentsInv
BY DEF AgentsInit, AgentsInv, Roster, Ended, Writers

(* A key that is issued takes none from the lists there are.                *)
LEMMA RosterGrows ==
  ASSUME NEW given \in Seq(Kinds), NEW kind \in Kinds, NEW list, Roster(list, given)
  PROVE  Roster(list, Append(given, kind))
<1> DEFINE after == Append(given, kind)
<1>1. DOMAIN given \subseteq DOMAIN after /\ \A k \in DOMAIN given : after[k] = given[k]
  OBVIOUS
<1> HIDE DEF after
<1>2. AgentOf(given) \subseteq AgentOf(after)
  BY <1>1 DEF AgentOf
<1>3. list \in Seq(AgentOf(given)) /\ \A i \in DOMAIN list : list[i] \in AgentOf(given)
  BY DEF Roster
<1>4. list \in Seq(AgentOf(after))
  BY <1>2, <1>3
<1>5. \A i \in DOMAIN list : list[i].key \in DOMAIN given
  BY <1>3 DEF AgentOf
<1> QED BY <1>1, <1>4, <1>5 DEF Roster, after

LEMMA RosterAppend ==
  ASSUME NEW given \in Seq(Kinds), NEW kind \in Kinds, NEW list, Roster(list, given), NEW name \in Names
  PROVE  LET new == [key |-> Len(given) + 1, name |-> name, kind |-> kind, active |-> TRUE]
         IN Roster(Append(list, new), Append(given, kind)) /\ Ended(Append(list, new)) = Ended(list)
<1> DEFINE new == [key |-> Len(given) + 1, name |-> name, kind |-> kind, active |-> TRUE]
           after == Append(given, kind)  next == Append(list, new)
<1>1. /\ after \in Seq(Kinds) /\ Len(given) + 1 \in DOMAIN after /\ Len(given) + 1 \notin DOMAIN given
      /\ after[Len(given) + 1] = kind
  OBVIOUS
<1>2. Roster(list, after)
  BY RosterGrows
<1> HIDE DEF after
<1>3. new \in AgentOf(after) /\ new.key = Len(given) + 1 /\ new.kind = kind /\ new.active
  BY <1>1 DEF AgentOf
<1>4. list \in Seq(AgentOf(given)) /\ \A i \in DOMAIN list : list[i] \in AgentOf(given)
  BY DEF Roster
<1>5. \A i \in DOMAIN list : list[i].key \in DOMAIN given
  BY <1>4 DEF AgentOf
<1> HIDE DEF new
<1>6. /\ next \in Seq(AgentOf(after)) /\ DOMAIN next = DOMAIN list \cup {Len(list) + 1}
      /\ next[Len(list) + 1] = new /\ Len(list) + 1 \notin DOMAIN list
      /\ \A i \in DOMAIN list : next[i] = list[i]
  BY <1>2, <1>3, <1>4 DEF Roster
<1> HIDE DEF next
<1>7. \A i, j \in DOMAIN next : next[i].key = next[j].key => i = j
  BY <1>1, <1>3, <1>5, <1>6, <1>2 DEF Roster
<1>8. \A i \in DOMAIN next : next[i].kind = after[next[i].key]
  BY <1>1, <1>3, <1>6, <1>2 DEF Roster
<1>9. Ended(next) = Ended(list)
  BY <1>3, <1>6 DEF Ended
<1> QED BY <1>6, <1>7, <1>8, <1>9 DEF Roster, next, new, after

LEMMA RosterEnds ==
  ASSUME NEW given, NEW list, Roster(list, given), NEW i \in DOMAIN list
  PROVE  LET next == [list EXCEPT ![i].active = FALSE]
         IN Roster(next, given) /\ Ended(next) = Ended(list) \cup {list[i].key}
<1> DEFINE next == [list EXCEPT ![i].active = FALSE]
<1>1. list \in Seq(AgentOf(given)) /\ \A j \in DOMAIN list : list[j] \in AgentOf(given)
  BY DEF Roster
<1>2. [list[i] EXCEPT !.active = FALSE] \in AgentOf(given)
  BY <1>1 DEF AgentOf
<1>3. /\ next \in Seq(AgentOf(given)) /\ DOMAIN next = DOMAIN list
      /\ next[i] = [list[i] EXCEPT !.active = FALSE] /\ \A j \in DOMAIN list \ {i} : next[j] = list[j]
  BY <1>1, <1>2
<1>4. next[i].key = list[i].key /\ next[i].kind = list[i].kind /\ ~next[i].active
  BY <1>1, <1>3 DEF AgentOf
<1> HIDE DEF next
<1>5. Roster(next, given)
  <2>1. \A j \in DOMAIN next : next[j].key = list[j].key /\ next[j].kind = list[j].kind
    BY <1>3, <1>4
  <2> QED BY <1>3, <2>1 DEF Roster
<1>6. Ended(next) = Ended(list) \cup {list[i].key}
  BY <1>3, <1>4 DEF Ended
<1> QED BY <1>5, <1>6 DEF next

LEMMA CreateInv == ASSUME AgentsInv, NEW w \in Writers, createAgent(w) PROVE AgentsInv'
<1>1. PICK name \in Names, kind \in Kinds :
        /\ issued' = Append(issued, kind)
        /\ change' = [change EXCEPT ![w] =
             [next |-> Append(read, [key |-> Len(issued) + 1, name |-> name, kind |-> kind,
                                     active |-> TRUE]),
              ends |-> {}, stale |-> FALSE]]
  BY DEF createAgent
<1> DEFINE new == [key |-> Len(issued) + 1, name |-> name, kind |-> kind, active |-> TRUE]
           next == Append(agentsFile, new)
<1>2. /\ agentsFile # Corrupt /\ read = agentsFile /\ Roster(agentsFile, issued)
      /\ revoked = Ended(agentsFile) /\ UNCHANGED <<agentsFile, revoked>> /\ Len(issued) < MaxAgents
  BY DEF createAgent, read, AgentsInv
<1>3. issued' \in Seq(Kinds) /\ Len(issued') <= MaxAgents
  BY <1>1, <1>2 DEF AgentsInv
<1>4. /\ Roster(next, issued') /\ Ended(next) = revoked
  BY <1>1, <1>2, RosterAppend DEF AgentsInv
<1>5. \A list : Roster(list, issued) => Roster(list, issued')
  BY <1>1, RosterGrows DEF AgentsInv
<1> HIDE DEF next
<1>6. change' = [change EXCEPT ![w] = [next |-> next, ends |-> {}, stale |-> FALSE]]
  BY <1>1, <1>2 DEF next
<1>7. ASSUME NEW v \in Writers, change'[v] # Idle PROVE ChangeSound(change'[v], issued', revoked')
  <2>1. CASE v = w
    <3>1. change'[v] = [next |-> next, ends |-> {}, stale |-> FALSE]
      BY <1>6, <2>1 DEF AgentsInv
    <3> QED BY <1>2, <1>4, <3>1 DEF ChangeSound
  <2>2. CASE v # w
    <3>1. change'[v] = change[v]
      BY <1>6, <2>2 DEF AgentsInv
    <3> QED BY <1>2, <1>5, <1>7, <3>1 DEF AgentsInv, ChangeSound
  <2> QED BY <2>1, <2>2
<1>8. change' = [v \in Writers |-> change'[v]]
  BY <1>6 DEF AgentsInv
<1> QED BY <1>2, <1>3, <1>5, <1>7, <1>8 DEF AgentsInv

LEMMA RevokeInv == ASSUME AgentsInv, NEW w \in Writers, revokeAgent(w) PROVE AgentsInv'
<1>1. PICK i \in DOMAIN read :
        change' = [change EXCEPT ![w] =
          [next |-> [read EXCEPT ![i].active = FALSE], ends |-> {read[i].key}, stale |-> FALSE]]
  BY DEF revokeAgent
<1>2. /\ agentsFile # Corrupt /\ read = agentsFile /\ Roster(agentsFile, issued)
      /\ revoked = Ended(agentsFile) /\ UNCHANGED <<agentsFile, issued, revoked>>
  BY DEF revokeAgent, read, AgentsInv
<1> DEFINE next == [agentsFile EXCEPT ![i].active = FALSE]
<1>3. Roster(next, issued) /\ Ended(next) = revoked \cup {agentsFile[i].key}
  BY <1>1, <1>2, RosterEnds
<1> HIDE DEF next
<1>4. change' = [change EXCEPT ![w] =
        [next |-> next, ends |-> {agentsFile[i].key}, stale |-> FALSE]]
  BY <1>1, <1>2 DEF next
<1>5. ASSUME NEW v \in Writers, change'[v] # Idle PROVE ChangeSound(change'[v], issued', revoked')
  <2>1. CASE v = w
    <3>1. change'[v] = [next |-> next, ends |-> {agentsFile[i].key}, stale |-> FALSE]
      BY <1>4, <2>1 DEF AgentsInv
    <3> QED BY <1>2, <1>3, <3>1 DEF ChangeSound
  <2>2. CASE v # w
    <3>1. change'[v] = change[v]
      BY <1>4, <2>2 DEF AgentsInv
    <3> QED BY <1>2, <1>5, <3>1 DEF AgentsInv
  <2> QED BY <2>1, <2>2
<1>6. change' = [v \in Writers |-> change'[v]]
  BY <1>4 DEF AgentsInv
<1> QED BY <1>2, <1>5, <1>6 DEF AgentsInv

LEMMA AgentsWriteInv == ASSUME AgentsInv, NEW w \in Writers, write(w) PROVE AgentsInv'
<1> DEFINE c == change[w]
<1>1. /\ c # Idle /\ UNCHANGED issued
      /\ change' = [v \in Writers |->
           IF v = w \/ change[v] = Idle \/ agentsFile = Corrupt
           THEN IF v = w THEN Idle ELSE change[v] ELSE [change[v] EXCEPT !.stale = TRUE]]
  BY DEF write
<1>2. change' = [v \in Writers |-> change'[v]]
  BY <1>1
<1>3. CASE agentsFile = Corrupt
  <2>1. agentsFile' = Corrupt
    BY <1>3 DEF write
  <2> QED BY <1>1, <1>2, <2>1 DEF AgentsInv
<1>4. CASE agentsFile # Corrupt
  <2>1. agentsFile' = c.next /\ revoked' = IF c.stale THEN Ended(c.next) ELSE revoked \cup c.ends
    BY <1>4 DEF write, Ended
  <2>2. ChangeSound(c, issued, revoked)
    BY <1>1, <1>4 DEF AgentsInv
  <2>3. Roster(agentsFile', issued') /\ revoked' = Ended(agentsFile')
    BY <1>1, <2>1, <2>2 DEF ChangeSound
  <2>4. ASSUME NEW v \in Writers, change'[v] # Idle PROVE ChangeSound(change'[v], issued', revoked')
    <3>1. v # w /\ change[v] # Idle /\ change'[v] = [change[v] EXCEPT !.stale = TRUE]
      BY <1>1, <1>4, <2>4
    <3>2. ChangeSound(change[v], issued, revoked)
      BY <1>4, <3>1 DEF AgentsInv
    <3>3. change'[v] = [next |-> change[v].next, ends |-> change[v].ends, stale |-> TRUE]
      BY <3>1, <3>2 DEF ChangeSound
    <3>4. change'[v].next = change[v].next /\ change'[v].stale = TRUE
          /\ change'[v] = [next |-> change'[v].next, ends |-> change'[v].ends, stale |-> change'[v].stale]
      BY <3>3
    <3> QED BY <1>1, <3>2, <3>4 DEF ChangeSound
  <2> QED BY <1>1, <1>2, <2>3, <2>4 DEF AgentsInv
<1> QED BY <1>3, <1>4

LEMMA AgentsNextInv == AgentsInv /\ [AgentsNext]_agentsVars => AgentsInv'
<1> SUFFICES ASSUME AgentsInv, [AgentsNext]_agentsVars PROVE AgentsInv'
  OBVIOUS
<1>1. CASE Garble
  BY <1>1 DEF Garble, AgentsInv
<1>2. CASE UNCHANGED agentsVars
  BY <1>2 DEF agentsVars, AgentsInv
<1> QED BY <1>1, <1>2, CreateInv, RevokeInv, AgentsWriteInv DEF AgentsNext

-----------------------------------------------------------------------------
(* The codes: what was traded is gone, and none is older than its minute.   *)
CodesInv ==
  /\ ticks \in Nat
  /\ codes \in Seq(Int)
  /\ \A c \in DOMAIN codes : codes[c] = Gone \/ codes[c] \in 0 .. ticks + CODE_TTL
  /\ unlocked \in Seq([code : Int, age : Int])
  /\ \A i \in DOMAIN unlocked :
       unlocked[i].code \in DOMAIN codes /\ codes[unlocked[i].code] = Gone
  /\ CodeOpensOnce

LEMMA CodesInitInv == AccessInit => CodesInv
BY DEF AccessInit, CodesInv, CodeOpensOnce

LEMMA LoginInv == ASSUME CodesInv, LoginCode PROVE CodesInv'
<1> DEFINE swept == [c \in DOMAIN codes |-> IF codes[c] < ticks THEN Gone ELSE codes[c]]
<1>1. codes' = Append(swept, ticks + CODE_TTL) /\ UNCHANGED <<ticks, unlocked>>
  BY DEF LoginCode
<1>2. Gone = -1 /\ ticks \in Nat /\ CODE_TTL \in Nat /\ codes \in Seq(Int)
  BY DEF Gone, CodesInv, AccessAssumption
<1>3. swept \in Seq(Int) /\ DOMAIN swept = DOMAIN codes
  BY <1>2
<1>4. \A c \in DOMAIN codes : /\ swept[c] = Gone \/ swept[c] \in 0 .. ticks + CODE_TTL
                              /\ codes[c] = Gone => swept[c] = Gone
  BY <1>2 DEF CodesInv
<1> HIDE DEF swept
<1>5. /\ codes' \in Seq(Int) /\ DOMAIN codes' = DOMAIN codes \cup {Len(swept) + 1}
      /\ codes'[Len(swept) + 1] = ticks + CODE_TTL
      /\ \A c \in DOMAIN codes : codes'[c] = swept[c] /\ c # Len(swept) + 1
  BY <1>1, <1>2, <1>3
<1>6. \A c \in DOMAIN codes' : codes'[c] = Gone \/ codes'[c] \in 0 .. ticks' + CODE_TTL
  BY <1>1, <1>2, <1>4, <1>5
<1>7. \A i \in DOMAIN unlocked :
        unlocked[i].code \in DOMAIN codes' /\ codes'[unlocked[i].code] = Gone
  BY <1>4, <1>5 DEF CodesInv
<1> QED BY <1>1, <1>5, <1>6, <1>7 DEF CodesInv, CodeOpensOnce

LEMMA TradeInv == ASSUME CodesInv, Trade PROVE CodesInv'
<1>1. PICK c \in DOMAIN codes :
        /\ codes' = [codes EXCEPT ![c] = Gone]
        /\ unlocked' = IF codes[c] = Gone \/ codes[c] < ticks \/ Operator = NoKey THEN unlocked
                       ELSE Append(unlocked, [code |-> c, age |-> ticks + CODE_TTL - codes[c]])
        /\ UNCHANGED ticks
  BY DEF Trade
<1>2. Gone = -1 /\ ticks \in Nat /\ CODE_TTL \in Nat /\ codes \in Seq(Int) /\ c \in Int
  BY <1>1 DEF Gone, CodesInv, AccessAssumption
<1>3. /\ codes' \in Seq(Int) /\ DOMAIN codes' = DOMAIN codes /\ codes'[c] = Gone
      /\ \A d \in DOMAIN codes \ {c} : codes'[d] = codes[d]
  BY <1>1, <1>2
<1>4. \A d \in DOMAIN codes' : codes'[d] = Gone \/ codes'[d] \in 0 .. ticks' + CODE_TTL
  BY <1>1, <1>3 DEF CodesInv
<1>5. CASE unlocked' = unlocked
  BY <1>1, <1>3, <1>4, <1>5 DEF CodesInv, CodeOpensOnce
<1>6. CASE /\ codes[c] # Gone /\ ~(codes[c] < ticks)
           /\ unlocked' = Append(unlocked, [code |-> c, age |-> ticks + CODE_TTL - codes[c]])
  <2> DEFINE age == ticks + CODE_TTL - codes[c]
  <2>1. codes[c] \in 0 .. ticks + CODE_TTL
    BY <1>6 DEF CodesInv
  <2>2. age \in 0 .. CODE_TTL
    BY <1>2, <1>6, <2>1
  <2>3. \A i \in DOMAIN unlocked : unlocked[i].code # c
    BY <1>6 DEF CodesInv
  <2> HIDE DEF age
  <2> DEFINE link == [code |-> c, age |-> age]
  <2>4. link \in [code : Int, age : Int] /\ link.code = c /\ link.age = age
    BY <1>2, <2>2
  <2>5. unlocked' = Append(unlocked, link)
    BY <1>6 DEF age
  <2> HIDE DEF link
  <2>6. /\ unlocked' \in Seq([code : Int, age : Int])
        /\ DOMAIN unlocked' = DOMAIN unlocked \cup {Len(unlocked) + 1}
        /\ unlocked'[Len(unlocked) + 1] = link
        /\ \A i \in DOMAIN unlocked : unlocked'[i] = unlocked[i] /\ i # Len(unlocked) + 1
    <3> DEFINE Link == [code : Int, age : Int]
    <3>1. unlocked \in Seq(Link) /\ link \in Link
      BY <2>4 DEF CodesInv
    <3> HIDE DEF Link
    <3>2. Len(unlocked) \in Nat /\ DOMAIN unlocked = 1 .. Len(unlocked)
      BY <3>1
    <3>3. /\ unlocked' \in Seq(Link) /\ DOMAIN unlocked' = 1 .. Len(unlocked) + 1
          /\ unlocked'[Len(unlocked) + 1] = link
          /\ \A i \in 1 .. Len(unlocked) : unlocked'[i] = unlocked[i]
      BY <2>5, <3>1, <3>2
    <3> QED BY <3>2, <3>3 DEF Link
  <2>7. ASSUME NEW i \in DOMAIN unlocked'
        PROVE  unlocked'[i].code \in DOMAIN codes' /\ codes'[unlocked'[i].code] = Gone
    <3>1. CASE i = Len(unlocked) + 1
      BY <1>1, <1>3, <2>4, <2>6, <3>1
    <3>2. CASE i \in DOMAIN unlocked
      <4>1. unlocked[i].code \in DOMAIN codes /\ codes[unlocked[i].code] = Gone
        BY <3>2 DEF CodesInv
      <4> QED BY <1>3, <2>6, <3>2, <4>1
    <3> QED BY <2>6, <3>1, <3>2
  <2>8. CodeOpensOnce'
    <3>1. CodeOpensOnce
      BY DEF CodesInv
    <3> QED BY <2>2, <2>3, <2>4, <2>6, <3>1 DEF CodeOpensOnce
  <2> QED BY <1>1, <1>3, <1>4, <2>6, <2>7, <2>8 DEF CodesInv
<1> QED BY <1>1, <1>5, <1>6

LEMMA CodesNextInv == CodesInv /\ [AccessNext]_accessVars => CodesInv'
<1> SUFFICES ASSUME CodesInv, [AccessNext]_accessVars PROVE CodesInv'
  OBVIOUS
<1>1. CASE AccessTick
  <2>1. ticks' = ticks + 1 /\ UNCHANGED <<codes, unlocked>> /\ ticks \in Nat
    BY <1>1 DEF AccessTick, CodesInv
  <2>2. \A c \in DOMAIN codes : codes[c] = Gone \/ codes[c] \in 0 .. ticks' + CODE_TTL
    BY <2>1 DEF CodesInv, AccessAssumption
  <2> QED BY <2>1, <2>2 DEF CodesInv, CodeOpensOnce
<1>2. CASE UNCHANGED accessVars
  BY <1>2 DEF accessVars, CodesInv, CodeOpensOnce
<1> QED BY <1>1, <1>2, LoginInv, TradeInv DEF AccessNext

-----------------------------------------------------------------------------
(* What the gateway reads of the operator key, against what was saved.      *)
LEMMA OperatorKey ==
  ASSUME SettingsInv
  PROVE  /\ wanted.key = NoKey => Operator = NoKey /\ ~isKeyUnreadable("gateway")
         /\ wanted.key # NoKey /\ isKeyUnreadable("gateway") => Operator = NoKey
         /\ wanted.key # NoKey /\ ~isKeyUnreadable("gateway") =>
              Operator = [op |-> wanted.key] /\ Operator # NoKey
<1>1. readRaw \in Document /\ wanted = plain(readRaw)
  BY RawTyped DEF SettingsInv, SavedSurvives
<1>2. wanted.key = IF readRaw.key = NoKey THEN NoKey ELSE readRaw.key.key
  BY <1>1, PlainFields
<1>3. getSettings("gateway").key = decodeStored("gateway", readRaw.key)
  BY <1>1 DEF getSettings, Document
<1>4. NoKey \notin Nat \cup StoredKeys
  BY SettingsAssumption DEF SettingsAssumption
<1>5. readRaw.key # NoKey => readRaw.key \in StoredKeys /\ readRaw.key.key \in Nat
  BY <1>1 DEF Document, StoredKeys
<1>6. wanted.key # NoKey => [op |-> wanted.key] # NoKey
  BY <1>2, <1>5, AccessAssumption DEF AccessAssumption
<1> QED BY <1>2, <1>3, <1>4, <1>5, <1>6 DEF Operator, decodeStored, isKeyUnreadable, CanRead, IsCipher

(* The agent of a key: the one that has it in the list, if any.             *)
LEMMA AgentOfKey ==
  ASSUME AgentsInv, NEW token
  PROVE  /\ \A agent \in matchAgentKey(token) :
              /\ matchAgentKey(token) = {agent} /\ agent.key = token /\ agentsFile # Corrupt
              /\ token \in DOMAIN issued /\ agent.kind = issued[token] /\ agent.active \in BOOLEAN
              /\ agent.active <=> token \notin revoked
              /\ agent.active => Active(agent.kind)
         /\ agentsFile # Corrupt /\ token \in revoked => matchAgentKey(token) # {}
<1>1. CASE agentsFile = Corrupt
  <2>1. DOMAIN read = {}
    BY <1>1 DEF read
  <2> QED BY <1>1, <2>1 DEF matchAgentKey
<1>2. CASE agentsFile # Corrupt
  <2>1. read = agentsFile /\ Roster(read, issued) /\ revoked = Ended(read)
    BY <1>2 DEF read, AgentsInv
  <2>2. read \in Seq(AgentOf(issued)) /\ DOMAIN read \subseteq Nat
        /\ \A i \in DOMAIN read : read[i].active \in BOOLEAN
    <3>1. read \in Seq(AgentOf(issued))
      BY <2>1 DEF Roster
    <3>2. DOMAIN read = 1 .. Len(read) /\ Len(read) \in Nat
          /\ \A i \in DOMAIN read : read[i] \in AgentOf(issued)
      BY <3>1
    <3> QED BY <3>1, <3>2 DEF AgentOf
  <2>3. matchAgentKey(token) = {read[i] : i \in {j \in DOMAIN read : read[j].key = token}}
    <3>1. \A i, j \in DOMAIN read : read[i].key = token /\ read[j].key = token => i = j
      BY <2>1 DEF Roster
    <3>2. {i \in {j \in DOMAIN read : read[j].key = token} :
             \A h \in {j \in DOMAIN read : read[j].key = token} : i <= h}
            = {j \in DOMAIN read : read[j].key = token}
      BY <2>2, <3>1
    <3> QED BY <3>2 DEF matchAgentKey
  <2>4. ASSUME NEW i \in DOMAIN read, read[i].key = token
        PROVE  /\ matchAgentKey(token) = {read[i]} /\ read[i].kind = issued[token]
               /\ token \in DOMAIN issued
               /\ read[i].active <=> token \notin revoked
               /\ read[i].active => Active(read[i].kind)
    <3>1. \A j \in DOMAIN read : read[j].key = token => j = i
      BY <2>1, <2>4 DEF Roster
    <3>2. matchAgentKey(token) = {read[i]}
      BY <2>3, <2>4, <3>1
    <3>3. read[i].kind = issued[token]
      BY <2>1, <2>4 DEF Roster
    <3>4. token \in revoked <=> \E j \in DOMAIN read : ~read[j].active /\ read[j].key = token
      BY <2>1 DEF Ended
    <3>5. read[i].active <=> token \notin revoked
      BY <2>4, <3>1, <3>4
    <3>6. token \in DOMAIN issued
      <4>1. read[i] \in AgentOf(issued)
        BY <2>2, <2>4
      <4> QED BY <2>4, <4>1 DEF AgentOf
    <3> QED BY <3>2, <3>3, <3>5, <3>6 DEF Active
  <2>5. token \in revoked => \E j \in DOMAIN read : read[j].key = token
    BY <2>1 DEF Ended
  <2> QED BY <1>2, <2>2, <2>3, <2>4, <2>5
<1> QED BY <1>1, <1>2

(* A request from the operator's machine or another, through no page, is   *)
(* decided by the key it carries alone.                                     *)
LEMMA RespondIs ==
  ASSUME NEW surface \in Surfaces, NEW token \in Presented, NEW loopback \in BOOLEAN
  PROVE  Respond(Request("localhost", FALSE, "no browser", surface, "header", token, loopback))
           = requireGatewayKey(surface, token, loopback)
<1> DEFINE r == Request("localhost", FALSE, "no browser", surface, "header", token, loopback)
<1>1. r.host = "localhost" /\ r.safe = FALSE /\ r.page = "no browser" /\ r.surface = surface
      /\ r.way = "header" /\ r.token = token /\ r.loopback = loopback
  BY DEF Request
<1> HIDE DEF r
<1>2. rewritePathToken(r) = r /\ isAllowedHost(r) /\ ~isCrossSite(r)
  BY <1>1 DEF rewritePathToken, isAllowedHost, isCrossSite
<1> QED BY <1>1, <1>2 DEF Respond, r

LEMMA CrossSiteRefused ==
  ASSUME NEW r, r.safe = FALSE, isCrossSite(r)
  PROVE  Respond(r) # 200
BY DEF Respond

LEMMA PagesActNot == NoPageActs
<1> SUFFICES ASSUME NEW page \in {"cross-site", "other origin", "null origin"},
                    NEW way \in {"header", "path"}
             PROVE  Respond(Request("listed", FALSE, page, "control", way, Operator, TRUE)) # 200
  BY DEF NoPageActs
<1> DEFINE r == Request("listed", FALSE, page, "control", way, Operator, TRUE)
<1>1. r.safe = FALSE /\ r.page = page
  BY DEF Request
<1> HIDE DEF r
<1>2. isCrossSite(r)
  BY <1>1 DEF isCrossSite
<1>3. Respond(r) # 200
  BY <1>1, <1>2, CrossSiteRefused
<1> QED BY <1>3 DEF r

-----------------------------------------------------------------------------
LEMMA KeysApart == \A k : [op |-> k] \notin AgentKeys
BY DEF AgentKeys

(* Who gets in, by the cases of requireGatewayKey.                          *)
KindAt(surface)       == IF surface = "model" THEN "agent" ELSE "sensor"
Operates(token)       == wanted.key # NoKey /\ token = [op |-> wanted.key]
NamedAt(surface, token) ==
  token \in AgentKeys /\ surface # "control" /\ token.agent \in Live(KindAt(surface))

Justly(passes, surface, token, loopback) ==
  /\ Operates(token) /\ ~isKeyUnreadable("gateway") => passes
  /\ NamedAt(surface, token) => passes
  /\ passes /\ ~Operates(token) /\ ~NamedAt(surface, token) =>
       /\ agentsFile # Corrupt => ~(token \in AgentKeys /\ token.agent \in revoked)
       /\ ~isKeyUnreadable("gateway")
       /\ surface # "control" \/ wanted.key = NoKey
       /\ surface = "control" \/ Live(KindAt(surface)) = {}
       /\ loopback \/ wanted.key = NoKey
  /\ passes /\ surface = "control" /\ requireAuthenticatedOrLocal(loopback) = 200 =>
       Operates(token) \/ loopback

LEMMA Decided ==
  ASSUME SettingsInv, AgentsInv, NEW surface \in Surfaces, NEW token \in Presented,
         NEW loopback \in BOOLEAN
  PROVE  Justly(requireGatewayKey(surface, token, loopback) = 200, surface, token, loopback)
<1> DEFINE passes == requireGatewayKey(surface, token, loopback) = 200
           operator == Operates(token)
           kind == KindAt(surface)
           known == NamedAt(surface, token)
           required == (hasAgentKeys /\ surface = "model") \/ (hasSensorKeys /\ surface = "sensor")
           isOperator == Operator # NoKey /\ token = Operator
<1>1. surface \in {"model", "sensor", "control"}
  BY DEF Surfaces
<1>2. /\ wanted.key = NoKey => Operator = NoKey /\ ~isKeyUnreadable("gateway")
      /\ wanted.key # NoKey /\ isKeyUnreadable("gateway") => Operator = NoKey
      /\ wanted.key # NoKey /\ ~isKeyUnreadable("gateway") =>
           Operator = [op |-> wanted.key] /\ Operator # NoKey
  BY OperatorKey
<1>3. CASE Matched(token) # {}
  <2>1. token \in AgentKeys /\ Matched(token) = matchAgentKey(token.agent)
    BY <1>3 DEF Matched
  <2>2. PICK agent : agent \in matchAgentKey(token.agent)
    BY <1>3, <2>1
  <2>3. /\ Matched(token) = {agent} /\ agentsFile # Corrupt
        /\ token.agent \in DOMAIN issued /\ agent.kind = issued[token.agent]
        /\ agent.active \in BOOLEAN /\ agent.active <=> token.agent \notin revoked
    BY <2>1, <2>2, AgentOfKey
  <2>4. requireGatewayKey(surface, token, loopback) = agentGate(surface, agent)
    BY <1>3, <2>3 DEF requireGatewayKey
  <2>5. passes <=> /\ agent.active
                   /\ (agent.kind = "sensor" /\ surface = "sensor") \/ (agent.kind = "agent" /\ surface = "model")
    BY <2>3, <2>4 DEF agentGate
  <2>6. known <=> surface # "control" /\ issued[token.agent] = kind /\ token.agent \notin revoked
    BY <1>3, <2>1, <2>3 DEF Live, NamedAt
  <2>7. ~operator
    BY <2>1, KeysApart DEF Operates
  <2> HIDE DEF passes, operator, known
  <2>8. passes <=> known
    BY <1>1, <2>3, <2>5, <2>6 DEF KindAt
  <2>9. ~(passes /\ surface = "control")
    BY <2>5
  <2> QED BY <2>7, <2>8, <2>9 DEF passes, operator, known, Justly
<1>4. CASE Matched(token) = {}
  <2>1. token \in AgentKeys => matchAgentKey(token.agent) = {}
    BY <1>4 DEF Matched
  <2>2. ~known
    BY <2>1 DEF Live, NamedAt
  <2>3. agentsFile # Corrupt => ~(token \in AgentKeys /\ token.agent \in revoked)
    BY <2>1, AgentOfKey
  <2>4. ~required /\ surface # "control" => Live(kind) = {}
    <3> SUFFICES ASSUME ~required, surface # "control", NEW a \in Live(kind) PROVE FALSE
      OBVIOUS
    <3>1. issued[a] = kind /\ a \notin revoked /\ matchAgentKey(a) # {}
      BY DEF Live
    <3>2. PICK agent : agent \in matchAgentKey(a)
      BY <3>1
    <3>3. Active(kind)
      BY <3>1, <3>2, AgentOfKey
    <3> QED BY <1>1, <3>3 DEF hasAgentKeys, hasSensorKeys, KindAt
  <2>5. isOperator => operator
    BY <1>2 DEF Operates
  <2>6. operator /\ ~isKeyUnreadable("gateway") => isOperator
    BY <1>2 DEF Operates
  <2>7. requireGatewayKey(surface, token, loopback) =
          IF Operator = NoKey /\ ~required
          THEN IF isKeyUnreadable("gateway") THEN 503 ELSE 200
          ELSE IF surface # "control" /\ ~required /\ ~modelKeyRequired
          THEN IF isOperator \/ loopback THEN 200 ELSE 401
          ELSE IF isOperator THEN 200 ELSE 401
    BY <1>4 DEF requireGatewayKey
  <2>8. passes <=> IF Operator = NoKey /\ ~required THEN ~isKeyUnreadable("gateway")
                   ELSE IF surface # "control" /\ ~required /\ ~modelKeyRequired
                   THEN isOperator \/ loopback ELSE isOperator
    BY <2>7
  <2>9. requireAuthenticatedOrLocal(loopback) = 200 => Operator # NoKey \/ loopback
    BY DEF requireAuthenticatedOrLocal
  <2>10. Operator = NoKey /\ ~isKeyUnreadable("gateway") => wanted.key = NoKey
    BY <1>2
  <2>11. isOperator => Operator # NoKey
    OBVIOUS
  <2>12. Operator # NoKey => ~isKeyUnreadable("gateway")
    BY <1>2
  <2> HIDE DEF passes, operator, known, required, isOperator
  <2>13. operator /\ ~isKeyUnreadable("gateway") => passes
    BY <2>6, <2>8, <2>11
  <2>14. passes /\ ~operator =>
           /\ ~isKeyUnreadable("gateway")
           /\ surface # "control" \/ wanted.key = NoKey
           /\ surface = "control" \/ Live(kind) = {}
           /\ loopback \/ wanted.key = NoKey
    BY <2>4, <2>5, <2>8, <2>10, <2>12
  <2>15. passes /\ surface = "control" /\ requireAuthenticatedOrLocal(loopback) = 200 =>
           operator \/ loopback
    BY <2>5, <2>8, <2>9
  <2>16. known => passes
    BY <2>2
  <2>17. passes /\ ~operator /\ ~known =>
           (agentsFile # Corrupt => ~(token \in AgentKeys /\ token.agent \in revoked))
    BY <2>3
  <2> QED BY ONLY <2>13, <2>14, <2>15, <2>16, <2>17 DEF passes, operator, known, kind, Justly
<1> QED BY <1>3, <1>4

LEMMA EntitledInv == SettingsInv /\ AgentsInv => OnlyTheEntitled
<1> SUFFICES ASSUME SettingsInv, AgentsInv PROVE EachByItsKey
  BY PagesActNot DEF OnlyTheEntitled
<1>1. ASSUME NEW surface \in Surfaces, NEW token \in Presented, NEW loopback \in BOOLEAN
      PROVE  Justly(Respond(Request("localhost", FALSE, "no browser", surface, "header",
                                    token, loopback)) = 200, surface, token, loopback)
  <2>1. Justly(requireGatewayKey(surface, token, loopback) = 200, surface, token, loopback)
    BY Decided
  <2>2. Respond(Request("localhost", FALSE, "no browser", surface, "header", token, loopback))
          = requireGatewayKey(surface, token, loopback)
    BY RespondIs
  <2> QED BY <2>1, <2>2
<1> QED BY <1>1 DEF EachByItsKey, Justly, Operates, NamedAt, KindAt

-----------------------------------------------------------------------------
AccessInv == SettingsInv /\ AgentsInv /\ CodesInv

LEMMA GateNextInv ==
  AccessInv /\ [GateNext]_<<settingsVars, agentsVars, accessVars>> => AccessInv'
<1>1. /\ UNCHANGED settingsVars => [SettingsNext]_settingsVars
      /\ UNCHANGED agentsVars => [AgentsNext]_agentsVars
      /\ UNCHANGED accessVars => [AccessNext]_accessVars
  OBVIOUS
<1>2. [GateNext]_<<settingsVars, agentsVars, accessVars>> =>
        [SettingsNext]_settingsVars /\ [AgentsNext]_agentsVars /\ [AccessNext]_accessVars
  BY <1>1 DEF GateNext
<1> QED BY <1>2, SettingsNextInv, AgentsNextInv, CodesNextInv DEF AccessInv

(* Who gets in is decided by what the operator saved and whom he named      *)
(* (auth.js, agents.js): for any secrets, keys, agents and codes, however   *)
(* the settings, the agents and the codes change in between.                *)
THEOREM EntitledGetIn == GateSpec => []OnlyTheEntitled
<1>1. GateInit => AccessInv
  BY SettingsInitInv, AgentsInitInv, CodesInitInv DEF GateInit, AccessInv
<1>2. AccessInv => OnlyTheEntitled
  BY EntitledInv DEF AccessInv
<1> QED BY <1>1, <1>2, GateNextInv, PTL DEF GateSpec

(* A link that opens the panel opens it once, and within its minute.        *)
THEOREM LinksOpenOnce == GateSpec => []CodeOpensOnce
<1>1. GateInit => AccessInv
  BY SettingsInitInv, AgentsInitInv, CodesInitInv DEF GateInit, AccessInv
<1>2. AccessInv => CodeOpensOnce
  BY DEF AccessInv, CodesInv
<1> QED BY <1>1, <1>2, GateNextInv, PTL DEF GateSpec

(* The same, in the behaviours the front run checks: each of them is of the *)
(* settings, of the agents, of the codes, or of parts nothing here reads.   *)
THEOREM FrontLetsIn == FrontSpec => []LetIn
<1>1. FrontInit => AccessInv
  BY SettingsInitInv, AgentsInitInv, CodesInitInv DEF FrontInit, AccessInv
<1>2. [FrontNext]_frontVars =>
        [SettingsNext]_settingsVars /\ [AgentsNext]_agentsVars /\ [AccessNext]_accessVars
  <2>1. UNCHANGED frontVars => UNCHANGED <<settingsVars, agentsVars, accessVars>>
    BY DEF frontVars
  <2> QED BY <2>1 DEF FrontNext
<1>3. AccessInv /\ [FrontNext]_frontVars => AccessInv'
  BY <1>2, SettingsNextInv, AgentsNextInv, CodesNextInv DEF AccessInv
<1>4. AccessInv => LetIn
  BY EntitledInv DEF AccessInv, CodesInv, LetIn
<1> QED BY <1>1, <1>3, <1>4, PTL DEF FrontSpec

HIDE AgentsAssumption
HIDE AccessAssumption

-----------------------------------------------------------------------------
(* The response cache: the order of the store is the order of use.          *)
USE CacheAssumption, NothingAssumption

(* The invariant: OrderIsRecency, with the types it needs.                 *)
CacheInv ==
  /\ store \in Seq(Entry)
  /\ waiting \in [Requests -> Questions \cup {Nothing}]
  /\ OrderIsRecency

(* What is said of the store, of any sequence, order and exceptions.       *)
Distinctly(s)     == \A i, j \in DOMAIN s : s[i].key = s[j].key => i = j
Ordered(s, o, x)  ==
  \A i, j \in DOMAIN s : i < j /\ {s[i].key, s[j].key} \cap x = {} => <<s[i].key, s[j].key>> \in o

LEMMA OrderParts ==
  OrderIsRecency <=> Len(store) <= MAX_ENTRIES /\ Distinctly(store) /\ Ordered(store, older, raced)
BY DEF OrderIsRecency, Bounded, Distinctly, Ordered

(* A key that is there has one place.                                      *)
LEMMA PlaceThere ==
  ASSUME CacheInv, NEW k \in keys(store)
  PROVE  PlaceOf(k) \in 1 .. Len(store) /\ store[PlaceOf(k)].key = k
         /\ \A i \in 1 .. Len(store) : store[i].key = k => i = PlaceOf(k)
<1>1. \E i \in DOMAIN store : store[i].key = k
  BY DEF keys
<1>2. PlaceOf(k) \in DOMAIN store /\ store[PlaceOf(k)].key = k
  BY <1>1 DEF PlaceOf
<1>3. DOMAIN store = 1 .. Len(store)
  BY DEF CacheInv
<1> QED BY <1>2, <1>3 DEF CacheInv, OrderIsRecency, Bounded

(* Without(k) is the store less its entry for k, in the same order.        *)
LEMMA Removed ==
  ASSUME CacheInv, NEW k \in keys(store)
  PROVE  /\ Without(k) \in Seq(Entry) /\ Len(Without(k)) = Len(store) - 1
         /\ \A i \in 1 .. Len(Without(k)) :
              Without(k)[i] = store[IF i < PlaceOf(k) THEN i ELSE i + 1]
<1> DEFINE p == PlaceOf(k)  n == Len(store)
<1>1. p \in 1 .. n /\ n \in Nat /\ store \in Seq(Entry)
  BY PlaceThere DEF CacheInv
<1>2. Without(k) = SubSeq(store, 1, p - 1) \o SubSeq(store, p + 1, n)
  BY DEF Without, RemoveAt
<1> HIDE DEF p
<1>3. SubSeq(store, 1, p - 1) \in Seq(Entry) /\ Len(SubSeq(store, 1, p - 1)) = p - 1
      /\ \A i \in 1 .. p - 1 : SubSeq(store, 1, p - 1)[i] = store[i]
  BY <1>1
<1>4. SubSeq(store, p + 1, n) \in Seq(Entry) /\ Len(SubSeq(store, p + 1, n)) = n - p
      /\ \A i \in 1 .. n - p : SubSeq(store, p + 1, n)[i] = store[p + i]
  BY <1>1
<1> DEFINE a == SubSeq(store, 1, p - 1)  b == SubSeq(store, p + 1, n)
<1> HIDE DEF a, b
<1>5. a \o b \in Seq(Entry) /\ Len(a \o b) = n - 1
  <2>1. a \in Seq(Entry) /\ b \in Seq(Entry) /\ Len(a) = p - 1 /\ Len(b) = n - p
    BY <1>3, <1>4 DEF a, b
  <2> QED BY <1>1, <2>1
<1>6. ASSUME NEW i \in 1 .. n - 1 PROVE (a \o b)[i] = store[IF i < p THEN i ELSE i + 1]
  <2>1. a \in Seq(Entry) /\ b \in Seq(Entry) /\ Len(a) = p - 1 /\ Len(b) = n - p
    BY <1>3, <1>4 DEF a, b
  <2>2. CASE i < p
    <3>1. (a \o b)[i] = a[i]
      BY <1>1, <2>1, <2>2
    <3> QED BY <1>1, <1>3, <2>2, <3>1 DEF a
  <2>3. CASE ~(i < p)
    <3>1. (a \o b)[i] = b[i - (p - 1)] /\ i - (p - 1) \in 1 .. n - p
          /\ p + (i - (p - 1)) = i + 1
      BY <1>1, <2>1, <2>3
    <3>2. b[i - (p - 1)] = store[p + (i - (p - 1))]
      BY <1>4, <3>1 DEF b
    <3> QED BY <2>3, <3>1, <3>2
  <2> QED BY <2>2, <2>3
<1> QED BY <1>1, <1>2, <1>5, <1>6 DEF a, b, p

(* What is left is in order, without k.                                    *)
LEMMA RemovedOrder ==
  ASSUME CacheInv, NEW k \in keys(store)
  PROVE  LET s == Without(k) IN
         /\ Distinctly(s) /\ k \notin keys(s) /\ keys(s) \subseteq keys(store) \ {k}
         /\ Ordered(s, UsedAfter(k, keys(store)), raced \ {k})
         /\ Ordered(s, {pair \in older : k \notin {pair[1], pair[2]}}, raced \ {k})
<1> DEFINE s == Without(k)  p == PlaceOf(k)  from(i) == IF i < p THEN i ELSE i + 1
<1>1. /\ s \in Seq(Entry) /\ Len(s) = Len(store) - 1
      /\ \A i \in 1 .. Len(s) : s[i] = store[from(i)]
  BY Removed
<1>2. /\ p \in 1 .. Len(store) /\ Len(store) \in Nat
      /\ \A i \in 1 .. Len(store) : store[i].key = k => i = p
  BY PlaceThere DEF CacheInv
<1> HIDE DEF s, p
<1>3. \A i \in 1 .. Len(s) : from(i) \in 1 .. Len(store) /\ from(i) # p
  BY <1>1, <1>2
<1>4. \A i, j \in 1 .. Len(s) : (from(i) = from(j) => i = j) /\ (i < j => from(i) < from(j))
  BY <1>1, <1>2
<1>5. DOMAIN s = 1 .. Len(s) /\ DOMAIN store = 1 .. Len(store)
  BY <1>1 DEF CacheInv
<1> HIDE DEF from
<1>6. \A i \in 1 .. Len(s) : s[i].key \in keys(store) \ {k}
  BY <1>1, <1>2, <1>3, <1>5 DEF keys
<1>7. Distinctly(s)
  BY <1>1, <1>3, <1>4, <1>5, OrderParts DEF CacheInv, Distinctly
<1>8. k \notin keys(s) /\ keys(s) \subseteq keys(store) \ {k}
  BY <1>5, <1>6 DEF keys
<1>9. ASSUME NEW i \in DOMAIN s, NEW j \in DOMAIN s, i < j,
             {s[i].key, s[j].key} \cap (raced \ {k}) = {}
      PROVE  <<s[i].key, s[j].key>> \in older
  <2>1. {s[i].key, s[j].key} \cap raced = {}
    BY <1>5, <1>6, <1>9
  <2>2. s[i] = store[from(i)] /\ s[j] = store[from(j)]
    BY <1>1, <1>5
  <2>3. from(i) < from(j) /\ from(i) \in DOMAIN store /\ from(j) \in DOMAIN store
    BY <1>3, <1>4, <1>5, <1>9
  <2> QED BY <2>1, <2>2, <2>3, OrderParts DEF CacheInv, Ordered
<1>10. Ordered(s, UsedAfter(k, keys(store)), raced \ {k})
  BY <1>5, <1>6, <1>9 DEF Ordered, UsedAfter
<1>11. Ordered(s, {pair \in older : k \notin {pair[1], pair[2]}}, raced \ {k})
  BY <1>5, <1>6, <1>9 DEF Ordered
<1> QED BY <1>7, <1>8, <1>10, <1>11 DEF s

(* An entry that is used after all the others goes to the end.             *)
LEMMA AppendOrder ==
  ASSUME NEW s \in Seq(Entry), NEW e \in Entry, NEW o, NEW x,
         Distinctly(s), Ordered(s, o, x), e.key \notin keys(s), keys(s) \X {e.key} \subseteq o
  PROVE  Append(s, e) \in Seq(Entry) /\ Distinctly(Append(s, e)) /\ Ordered(Append(s, e), o, x)
<1> DEFINE t == Append(s, e)  n == Len(s)
<1>1. /\ t \in Seq(Entry) /\ n \in Nat /\ DOMAIN t = 1 .. n + 1 /\ DOMAIN s = 1 .. n
      /\ t[n + 1] = e /\ \A i \in 1 .. n : t[i] = s[i]
  OBVIOUS
<1> HIDE DEF t, n
<1>2. \A i \in 1 .. n : t[i].key \in keys(s) /\ t[i].key # e.key
  BY <1>1 DEF keys
<1>3. Distinctly(t)
  BY <1>1, <1>2 DEF Distinctly
<1>4. Ordered(t, o, x)
  <2> SUFFICES ASSUME NEW i \in DOMAIN t, NEW j \in DOMAIN t, i < j,
                      {t[i].key, t[j].key} \cap x = {}
               PROVE  <<t[i].key, t[j].key>> \in o
    BY DEF Ordered
  <2>1. i \in 1 .. n
    BY <1>1
  <2>2. CASE j = n + 1
    BY <1>1, <1>2, <2>1, <2>2
  <2>3. CASE j # n + 1
    <3>1. j \in 1 .. n
      BY <1>1, <2>3
    <3> QED BY <1>1, <2>1, <3>1 DEF Ordered
  <2> QED BY <2>2, <2>3
<1> QED BY <1>1, <1>3, <1>4 DEF t

(* Eviction leaves room for one more, in order.                            *)
LEMMA EvictedOrder ==
  ASSUME CacheInv
  PROVE  /\ Evicted \in Seq(Entry) /\ Len(Evicted) + 1 <= MAX_ENTRIES
         /\ Distinctly(Evicted) /\ Ordered(Evicted, older, raced)
<1>1. /\ store \in Seq(Entry) /\ Len(store) <= MAX_ENTRIES
      /\ Distinctly(store) /\ Ordered(store, older, raced)
  BY OrderParts DEF CacheInv
<1>2. CASE Len(store) >= MAX_ENTRIES
  <2>1. Evicted = Tail(store)
    BY <1>2 DEF Evicted
  <2> DEFINE t == Tail(store)  n == Len(store)
  <2>2. /\ t \in Seq(Entry) /\ n \in Nat /\ Len(t) = n - 1 /\ DOMAIN t = 1 .. n - 1
        /\ DOMAIN store = 1 .. n /\ \A i \in 1 .. n - 1 : t[i] = store[i + 1]
    BY <1>1, <1>2
  <2> HIDE DEF t, n
  <2>3. Distinctly(t)
    <3> SUFFICES ASSUME NEW i \in DOMAIN t, NEW j \in DOMAIN t, t[i].key = t[j].key PROVE i = j
      BY DEF Distinctly
    <3>1. i + 1 \in DOMAIN store /\ j + 1 \in DOMAIN store
      BY <2>2
    <3>2. t[i] = store[i + 1] /\ t[j] = store[j + 1]
      BY <2>2
    <3>3. i + 1 = j + 1
      BY <1>1, <3>1, <3>2 DEF Distinctly
    <3> QED BY <2>2, <3>3
  <2>4. Ordered(t, older, raced)
    <3> SUFFICES ASSUME NEW i \in DOMAIN t, NEW j \in DOMAIN t, i < j,
                        {t[i].key, t[j].key} \cap raced = {}
                 PROVE  <<t[i].key, t[j].key>> \in older
      BY DEF Ordered
    <3>1. i + 1 \in 1 .. n /\ j + 1 \in 1 .. n /\ i + 1 < j + 1
      BY <2>2
    <3>2. t[i] = store[i + 1] /\ t[j] = store[j + 1]
      BY <2>2
    <3> QED BY <1>1, <2>2, <3>1, <3>2 DEF Ordered
  <2>5. Len(t) + 1 <= MAX_ENTRIES
    BY <1>1, <2>2 DEF n
  <2> QED BY <2>1, <2>2, <2>3, <2>4, <2>5 DEF t
<1>3. CASE ~(Len(store) >= MAX_ENTRIES)
  <2>1. Evicted = store
    BY <1>3 DEF Evicted
  <2> QED BY <1>1, <1>3, <2>1
<1> QED BY <1>2, <1>3

LEMMA CacheInitInv == CacheInit => CacheInv
BY DEF CacheInit, CacheInv, OrderIsRecency, Bounded

LEMMA HitInv ==
  ASSUME CacheInv, NEW r \in Requests, NEW k \in Questions, Hit(r, k)
  PROVE  CacheInv'
<1>1. k \in keys(store)
  BY DEF Hit, Fresh
<1>2. EntryOf(k) \in Entry /\ EntryOf(k).key = k
  BY <1>1, PlaceThere DEF EntryOf, CacheInv
<1>3. /\ store' = Append(Without(k), EntryOf(k)) /\ older' = UsedAfter(k, keys(store))
      /\ raced' = raced \ {k} /\ waiting' = waiting
  BY DEF Hit
<1>4. /\ Without(k) \in Seq(Entry) /\ Len(Without(k)) = Len(store) - 1
      /\ Distinctly(Without(k)) /\ k \notin keys(Without(k))
      /\ keys(Without(k)) \subseteq keys(store) \ {k}
      /\ Ordered(Without(k), older', raced')
  BY <1>1, <1>3, Removed, RemovedOrder
<1>5. keys(Without(k)) \X {k} \subseteq older'
  BY <1>3, <1>4 DEF UsedAfter
<1>6. store' \in Seq(Entry) /\ Distinctly(store') /\ Ordered(store', older', raced')
  BY <1>2, <1>3, <1>4, <1>5, AppendOrder
<1>7. Len(store') = Len(store)
  BY <1>2, <1>3, <1>4 DEF CacheInv
<1>8. Len(store') <= MAX_ENTRIES
  BY <1>7, OrderParts DEF CacheInv
<1> QED BY <1>3, <1>6, <1>8 DEF CacheInv, OrderIsRecency, Bounded, Distinctly, Ordered

LEMMA MissInv ==
  ASSUME CacheInv, NEW r \in Requests, NEW k \in Questions, Miss(r, k)
  PROVE  CacheInv'
<1>1. /\ store' = Without(k) /\ older' = {pair \in older : k \notin {pair[1], pair[2]}}
      /\ raced' = raced \ {k} /\ waiting' = [waiting EXCEPT ![r] = k]
  BY DEF Miss
<1>2. waiting' \in [Requests -> Questions \cup {Nothing}]
  BY <1>1 DEF CacheInv
<1>3. CASE k \in keys(store)
  <2>1. /\ store' \in Seq(Entry) /\ Len(store') = Len(store) - 1
        /\ Distinctly(store') /\ Ordered(store', older', raced')
    BY <1>1, <1>3, Removed, RemovedOrder
  <2>2. Len(store') <= MAX_ENTRIES
    BY <2>1, OrderParts DEF CacheInv
  <2> QED BY <1>2, <2>1, <2>2 DEF CacheInv, OrderIsRecency, Bounded, Distinctly, Ordered
<1>4. CASE k \notin keys(store)
  <2>1. store' = store
    BY <1>1, <1>4 DEF Without
  <2>2. \A i \in DOMAIN store : store[i].key # k
    BY <1>4 DEF keys
  <2>3. Ordered(store', older', raced')
    BY <1>1, <2>1, <2>2, OrderParts DEF CacheInv, Ordered
  <2> QED BY <1>2, <2>1, <2>3, OrderParts DEF CacheInv, OrderIsRecency, Bounded, Distinctly, Ordered
<1> QED BY <1>3, <1>4

LEMMA StoreInv ==
  ASSUME CacheInv, NEW r \in Requests, Store(r)
  PROVE  CacheInv'
<1> DEFINE k == waiting[r]  e == [key |-> k, left |-> TTL + 1]
<1>1. /\ k # Nothing /\ store' = Put(Evicted, k) /\ older' = UsedAfter(k, keys(Evicted))
      /\ raced' = (raced \cup {k}) \cap keys(Evicted) /\ waiting' = [waiting EXCEPT ![r] = Nothing]
  BY DEF Store
<1>2. k \in Questions /\ e \in Entry /\ waiting' \in [Requests -> Questions \cup {Nothing}]
  BY <1>1 DEF CacheInv, Entry
<1>3. /\ Evicted \in Seq(Entry) /\ Len(Evicted) + 1 <= MAX_ENTRIES
      /\ Distinctly(Evicted) /\ Ordered(Evicted, older, raced)
  BY EvictedOrder
<1> DEFINE s == Evicted
<1>4. DOMAIN s = 1 .. Len(s) /\ Len(s) \in Nat /\ \A i \in DOMAIN s : s[i].key \in keys(s)
  BY <1>3 DEF keys
<1> HIDE DEF k, s
(* A key that keeps its place is one that two requests asked for.           *)
<1>5. ASSUME NEW a \in keys(s), NEW b \in keys(s), a # k, b # k,
             {a, b} \cap raced' = {}, NEW i \in DOMAIN s, NEW j \in DOMAIN s, i < j,
             s[i].key = a, s[j].key = b
      PROVE  <<a, b>> \in older'
  <2>1. {a, b} \cap raced = {}
    BY <1>1, <1>5 DEF s
  <2>2. <<a, b>> \in older
    BY <1>3, <1>5, <2>1 DEF Ordered, s
  <2> QED BY <1>1, <1>5, <2>2 DEF UsedAfter, s
<1>6. CASE k \in keys(s)
  <2>1. store' = [i \in DOMAIN s |-> IF s[i].key = k THEN e ELSE s[i]]
    BY <1>1, <1>6 DEF Put, s
  <2>2. store' \in Seq(Entry) /\ Len(store') = Len(s) /\ DOMAIN store' = DOMAIN s
    BY <1>2, <1>3, <1>4, <2>1 DEF s
  <2>3. \A i \in DOMAIN s : store'[i].key = s[i].key
    BY <2>1
  <2>4. Distinctly(store')
    BY <1>3, <2>2, <2>3 DEF Distinctly, s
  <2>5. k \in raced'
    BY <1>1, <1>6 DEF s
  <2>6. Ordered(store', older', raced')
    BY <1>4, <1>5, <2>2, <2>3, <2>5 DEF Ordered
  <2>7. Len(store') <= MAX_ENTRIES
    BY <1>3, <1>4, <2>2 DEF s
  <2> QED BY <1>2, <2>2, <2>4, <2>6, <2>7 DEF CacheInv, OrderIsRecency, Bounded, Distinctly, Ordered
<1>7. CASE k \notin keys(s)
  <2>1. store' = Append(s, e)
    BY <1>1, <1>7 DEF Put, s
  <2>2. Ordered(s, older', raced')
    BY <1>4, <1>5, <1>7 DEF Ordered
  <2>3. keys(s) \X {k} \subseteq older'
    BY <1>1, <1>7 DEF UsedAfter, s
  <2>4. store' \in Seq(Entry) /\ Distinctly(store') /\ Ordered(store', older', raced')
    BY <1>2, <1>3, <1>7, <2>1, <2>2, <2>3, AppendOrder DEF s
  <2>5. Len(store') <= MAX_ENTRIES
    BY <1>2, <1>3, <1>4, <2>1 DEF s
  <2> QED BY <1>2, <2>4, <2>5 DEF CacheInv, OrderIsRecency, Bounded, Distinctly, Ordered
<1> QED BY <1>6, <1>7

LEMMA CacheNextInv == CacheInv /\ [CacheNext]_cacheVars => CacheInv'
<1> SUFFICES ASSUME CacheInv, [CacheNext]_cacheVars PROVE CacheInv'
  OBVIOUS
<1>1. ASSUME NEW r \in Requests, Fails(r) PROVE CacheInv'
  BY <1>1 DEF Fails, CacheInv, OrderIsRecency, Bounded
<1>2. CASE clear
  BY <1>2 DEF clear, CacheInv, OrderIsRecency, Bounded
<1>3. CASE Age
  <2>1. /\ store' = [i \in DOMAIN store |-> [store[i] EXCEPT !.left = IF @ = 0 THEN 0 ELSE @ - 1]]
        /\ UNCHANGED <<waiting, older, raced>>
    BY <1>3 DEF Age
  <2>2. store \in Seq(Entry) /\ DOMAIN store = 1 .. Len(store) /\ Len(store) \in Nat
        /\ \A i \in DOMAIN store : store[i] \in Entry
    BY DEF CacheInv
  <2>3. \A i \in DOMAIN store : store'[i] \in Entry /\ store'[i].key = store[i].key
    BY <2>1, <2>2 DEF Entry
  <2>4. DOMAIN store' = 1 .. Len(store)
    BY <2>1, <2>2
  <2>5. store' \in Seq(Entry) /\ Len(store') = Len(store)
    BY <2>1, <2>2, <2>3
  <2>6. Len(store') <= MAX_ENTRIES /\ Distinctly(store') /\ Ordered(store', older', raced')
    <3>1. Len(store) <= MAX_ENTRIES /\ Distinctly(store) /\ Ordered(store, older, raced)
      BY OrderParts DEF CacheInv
    <3>2. DOMAIN store' = DOMAIN store /\ \A i \in DOMAIN store : store'[i].key = store[i].key
      BY <2>2, <2>3, <2>4
    <3>3. Distinctly(store')
      BY <3>1, <3>2 DEF Distinctly
    <3>4. Ordered(store', older, raced)
      <4> SUFFICES ASSUME NEW i \in DOMAIN store, NEW j \in DOMAIN store, i < j,
                          {store'[i].key, store'[j].key} \cap raced = {}
                   PROVE  <<store'[i].key, store'[j].key>> \in older
        BY <3>2 DEF Ordered
      <4>1. {store[i].key, store[j].key} \cap raced = {}
        BY <3>2
      <4>2. <<store[i].key, store[j].key>> \in older
        BY <3>1, <4>1 DEF Ordered
      <4> QED BY <3>2, <4>2
    <3> QED BY <2>1, <2>5, <3>1, <3>3, <3>4
  <2> QED BY <2>1, <2>5, <2>6 DEF CacheInv, OrderIsRecency, Bounded, Distinctly, Ordered
<1>4. CASE UNCHANGED cacheVars
  BY <1>4 DEF cacheVars, CacheInv, OrderIsRecency, Bounded
<1> QED BY <1>1, <1>2, <1>3, <1>4, HitInv, MissInv, StoreInv DEF CacheNext

(* "The first key is the least recently used" (responseCache.js, set): for  *)
(* any number of requests, questions and entries, however lookups, late     *)
(* answers, expiry and clear() interleave, the cache is within its limit    *)
(* and ordered by last use, but for the questions two requests asked at once. *)
THEOREM EvictsTheLeastRecent == CacheSpec => []OrderIsRecency
<1>1. CacheInv => OrderIsRecency
  BY DEF CacheInv
<1> QED BY <1>1, CacheInitInv, CacheNextInv, PTL DEF CacheSpec

HIDE CacheAssumption
HIDE NothingAssumption

-----------------------------------------------------------------------------
(* The credentials: what a save leaves in the file.                         *)
(* A non-empty set of numbers has a least element.                          *)
LEMMA LeastNumber ==
  ASSUME NEW T, T \subseteq Nat, T # {}
  PROVE  \E n \in T : \A m \in T : n <= m
<1> DEFINE below == OpToRel(<, Nat)
<1>1. IsWellFoundedOn(below, Nat)
  BY NatLessThanWellFounded
<1>2. \E x \in T : \A y \in T : ~ (<<y, x>> \in below)
  <2> HIDE DEF below
  <2> QED BY <1>1, WFMin
<1>3. PICK x \in T : \A y \in T : ~ (<<y, x>> \in below)
  BY <1>2
<1>4. ASSUME NEW y \in T PROVE x <= y
  <2>1. ~ (<<y, x>> \in below)
    BY <1>3
  <2>2. ~ (y < x)
    BY <2>1 DEF OpToRel
  <2> QED BY <2>2
<1> QED BY <1>4

(* Every rank in a finite set of positions is that of one of them.          *)
LEMMA Ranked ==
  ASSUME NEW places, NEW m \in Nat, places \subseteq 1 .. m, NEW n \in 1 .. Cardinality(places)
  PROVE  \E i \in places : Cardinality({j \in places : j <= i}) = n
<1> DEFINE upTo(i) == {j \in places : j <= i}
           T == {i \in Nat : n <= Cardinality(upTo(i))}
<1>0. places \subseteq Nat /\ \A j \in places : 1 <= j /\ j <= m
  OBVIOUS
<1>1. IsFiniteSet(places) /\ Cardinality(places) \in Nat
  <2>1. IsFiniteSet(1 .. m)
    BY FS_Interval
  <2> QED BY <2>1, FS_Subset, FS_CardinalityType
<1>2. \A i \in Nat : IsFiniteSet(upTo(i)) /\ Cardinality(upTo(i)) \in Nat
  <2> TAKE i \in Nat
  <2>1. upTo(i) \subseteq places
    OBVIOUS
  <2> HIDE DEF upTo
  <2> QED BY <1>1, <2>1, FS_Subset, FS_CardinalityType
<1>3. m \in T
  <2>1. upTo(m) = places
    <3> HIDE DEF T
    <3> QED BY <1>0
  <2>2. n <= Cardinality(places)
    BY <1>1
  <2> QED BY <2>1, <2>2
<1>4. PICK i \in T : \A k \in T : i <= k
  <2>1. T \subseteq Nat /\ T # {}
    BY <1>3
  <2> HIDE DEF T
  <2> QED BY <2>1, LeastNumber
<1>5. i \in Nat /\ n <= Cardinality(upTo(i)) /\ n \in Nat /\ n >= 1
  BY <1>1
<1>6. i # 0
  <2>1. upTo(0) = {}
    <3>1. \A j \in places : ~(j <= 0)
      BY ONLY <1>0
    <3> HIDE DEF T
    <3> QED BY <3>1
  <2>2. Cardinality(upTo(0)) = 0
    BY <2>1, FS_EmptySet
  <2> HIDE DEF upTo
  <2> QED BY <1>5, <2>2
<1>7. i - 1 \in Nat /\ i - 1 \notin T
  <2> HIDE DEF T, upTo
  <2> QED BY <1>4, <1>5, <1>6
<1>8. Cardinality(upTo(i - 1)) < n
  <2> HIDE DEF upTo
  <2> QED BY <1>1, <1>2, <1>7
<1>9. i \in places
  <2> SUFFICES ASSUME i \notin places PROVE FALSE
    OBVIOUS
  <2>1. upTo(i) = upTo(i - 1)
    <3>1. \A j \in places : j <= i <=> j <= i - 1
      BY ONLY <1>0, <1>5, i \notin places
    <3> HIDE DEF T
    <3> QED BY <3>1
  <2> HIDE DEF upTo
  <2> QED BY <1>2, <1>5, <1>7, <1>8, <2>1
<1>10. Cardinality(upTo(i)) = Cardinality(upTo(i - 1)) + 1
  <2>1. upTo(i) = upTo(i - 1) \cup {i} /\ i \notin upTo(i - 1)
    <3>1. \A j \in places : j <= i <=> (j <= i - 1 \/ j = i)
      BY ONLY <1>0, <1>5
    <3>2. ~(i <= i - 1)
      BY ONLY <1>5
    <3> HIDE DEF T
    <3> QED BY <1>5, <1>9, <3>1, <3>2
  <2> HIDE DEF upTo
  <2> QED BY <1>2, <1>7, <2>1, FS_AddElement
<1>11. Cardinality(upTo(i)) = n
  <2> HIDE DEF upTo
  <2> QED BY <1>2, <1>5, <1>7, <1>8, <1>10
<1> QED BY <1>9, <1>11

(* What is taken from some places stood at one of them.                     *)
LEMMA TakenFrom ==
  ASSUME NEW S, NEW lines \in Seq(S), NEW places \in SUBSET (DOMAIN lines)
  PROVE  /\ Taken(lines, places) \in Seq(S)
         /\ \A n \in DOMAIN Taken(lines, places) : \E i \in places : Taken(lines, places)[n] = lines[i]
<1>1. DOMAIN lines = 1 .. Len(lines) /\ Len(lines) \in Nat
  OBVIOUS
<1>2. Cardinality(places) \in Nat
  <2>1. IsFiniteSet(1 .. Len(lines))
    BY <1>1, FS_Interval
  <2> QED BY <1>1, <2>1, FS_Subset, FS_CardinalityType
<1>3. ASSUME NEW n \in 1 .. Cardinality(places)
      PROVE  \E i \in places : Taken(lines, places)[n] = lines[i]
  <2> DEFINE i == CHOOSE i \in places : Cardinality({j \in places : j <= i}) = n
  <2>1. i \in places
    BY <1>1, Ranked
  <2>2. Taken(lines, places)[n] = lines[i]
    BY DEF Taken
  <2> QED BY <2>1, <2>2
<1>4. DOMAIN Taken(lines, places) = 1 .. Cardinality(places)
  BY DEF Taken
<1>5. \A n \in 1 .. Cardinality(places) : Taken(lines, places)[n] \in S
  BY <1>3
<1>6. Taken(lines, places) = [n \in 1 .. Cardinality(places) |-> Taken(lines, places)[n]]
  BY DEF Taken
<1> QED BY <1>2, <1>3, <1>4, <1>5, <1>6

USE CredentialsAssumption

Lines == [form : {"bare", "export", "other"}, value : Keys \cup {Unset}]

(* What was chosen is assigned somewhere in the file, and nothing is when   *)
(* the key was cleared.                                                     *)
FileHolds ==
  saves > 0 =>
    \/ chosen \in Keys /\ \E i \in Assignments(protectedFile) : protectedFile[i].value = chosen
    \/ chosen = Unset /\ Assignments(protectedFile) = {}

CredentialsInv == protectedFile \in Seq(Lines) /\ saves \in Nat /\ FileHolds

LEMMA ShortLists ==
  ASSUME NEW S
  PROVE  <<>> \in Seq(S) /\ \A a, b \in S : <<a>> \in Seq(S) /\ <<a, b>> \in Seq(S)
OBVIOUS

LEMMA CredentialsInitInv == CredentialsInit => CredentialsInv
<1> SUFFICES ASSUME CredentialsInit PROVE CredentialsInv
  OBVIOUS
<1>1. protectedFile \in Files /\ saves = 0
  BY DEF CredentialsInit
<1>2. Other \in Lines /\ \A k \in Plain : Line("bare", k) \in Lines /\ Line("export", k) \in Lines
  BY DEF Other, Line, Lines, Keys
<1>3. protectedFile \in Seq(Lines)
  <2> HIDE DEF Lines
  <2>1. <<>> \in Seq(Lines) /\ \A a, b \in Lines : <<a>> \in Seq(Lines) /\ <<a, b>> \in Seq(Lines)
    BY ShortLists
  <2>2. CASE protectedFile \in {<<>>, <<Other>>}
    BY <1>2, <2>1, <2>2
  <2>3. CASE protectedFile \in {<<Line(form, k)>> : form \in {"bare", "export"}, k \in Plain}
    <3>1. PICK form \in {"bare", "export"}, k \in Plain : protectedFile = <<Line(form, k)>>
      BY <2>3
    <3>2. Line(form, k) \in Lines
      BY <1>2
    <3> QED BY <2>1, <3>1, <3>2
  <2>4. CASE protectedFile \in {<<Line("bare", k), Line("export", l)>> : k, l \in Plain}
    <3>1. PICK k \in Plain, l \in Plain : protectedFile = <<Line("bare", k), Line("export", l)>>
      BY <2>4
    <3> QED BY <1>2, <2>1, <3>1
  <2> QED BY <1>1, <2>2, <2>3, <2>4 DEF Files
<1> QED BY <1>1, <1>3 DEF CredentialsInv, FileHolds

LEMMA SaveInv == ASSUME CredentialsInv, SaveKey PROVE CredentialsInv'
<1>1. PICK k \in Keys : setCredential(k) /\ chosen' = k
  BY DEF SaveKey
<1>2. saves' \in Nat
  BY DEF SaveKey, CredentialsInv
<1> DEFINE hits == {i \in DOMAIN protectedFile : assignmentMatcher(protectedFile[i])}
           first == CHOOSE i \in hits : \A j \in hits : i <= j
           line == Line("bare", k)
<1>3. line \in Lines /\ line.form = "bare" /\ line.value = k
  BY DEF Line, Lines
<1>4. protectedFile \in Seq(Lines) /\ DOMAIN protectedFile = 1 .. Len(protectedFile)
  BY DEF CredentialsInv
<1>5. protectedFile' = IF hits # {} THEN [protectedFile EXCEPT ![first] = line]
                       ELSE Append(protectedFile, line)
  BY <1>1 DEF setCredential
<1> HIDE DEF line
<1>6. CASE hits # {}
  <2>1. PICK n \in hits : \A m \in hits : n <= m
    <3>1. hits \subseteq Nat
      BY <1>4
    <3> HIDE DEF hits
    <3> QED BY <1>6, <3>1, LeastNumber
  <2>2. first \in hits
    BY <2>1
  <2> HIDE DEF first
  <2>3. protectedFile' \in Seq(Lines) /\ first \in DOMAIN protectedFile' /\ protectedFile'[first] = line
    BY <1>3, <1>4, <1>5, <1>6, <2>2
  <2>4. first \in Assignments(protectedFile') /\ protectedFile'[first].value = k
    BY <1>3, <2>3 DEF Assignments
  <2> QED BY <1>1, <1>2, <2>3, <2>4 DEF CredentialsInv, FileHolds
<1>7. CASE hits = {}
  <2> DEFINE n == Len(protectedFile) + 1
  <2>1. protectedFile' \in Seq(Lines) /\ n \in DOMAIN protectedFile' /\ protectedFile'[n] = line
    BY <1>3, <1>4, <1>5, <1>7
  <2>2. n \in Assignments(protectedFile') /\ protectedFile'[n].value = k
    BY <1>3, <2>1 DEF Assignments
  <2> QED BY <1>1, <1>2, <2>1, <2>2 DEF CredentialsInv, FileHolds
<1> QED BY <1>6, <1>7

LEMMA ClearInv == ASSUME CredentialsInv, ClearKey PROVE CredentialsInv'
<1> DEFINE rest == {i \in DOMAIN protectedFile : ~assignmentMatcher(protectedFile[i])}
<1>1. protectedFile' = Taken(protectedFile, rest) /\ chosen' = Unset /\ saves' \in Nat
  BY DEF ClearKey, clearCredential, CredentialsInv
<1>2. protectedFile \in Seq(Lines) /\ rest \in SUBSET DOMAIN protectedFile
      /\ \A i \in DOMAIN protectedFile : protectedFile[i] \in Lines
  BY DEF CredentialsInv
<1>3. \A i \in rest : protectedFile[i].form = "other"
  BY <1>2 DEF assignmentMatcher, Lines
<1> HIDE DEF rest
<1>4. /\ protectedFile' \in Seq(Lines)
      /\ \A n \in DOMAIN protectedFile' : \E i \in rest : protectedFile'[n] = protectedFile[i]
  BY <1>1, <1>2, TakenFrom
<1>5. Assignments(protectedFile') = {}
  BY <1>3, <1>4 DEF Assignments
<1> QED BY <1>1, <1>4, <1>5 DEF CredentialsInv, FileHolds

LEMMA CredentialsNextInv == CredentialsInv /\ [CredentialsNext]_credentialVars => CredentialsInv'
<1> SUFFICES ASSUME CredentialsInv, [CredentialsNext]_credentialVars PROVE CredentialsInv'
  OBVIOUS
<1>1. CASE LoadEnvironment
  BY <1>1 DEF LoadEnvironment, CredentialsInv, FileHolds
<1>2. CASE UNCHANGED credentialVars
  BY <1>2 DEF credentialVars, CredentialsInv, FileHolds
<1> QED BY <1>1, <1>2, SaveInv, ClearInv DEF CredentialsNext

LEMMA HoldsOutlives == CredentialsInv => KeyOutlivesTheProcess
<1> SUFFICES ASSUME CredentialsInv, saves > 0, chosen \notin Quoted,
                    Cardinality(Assignments(protectedFile)) < 2
             PROVE  LET next == Loaded(Unset, protectedFile, projectFile)
                    IN next = chosen \/ (chosen = Unset /\ ~named /\ next = Parsed(projectFile))
  BY DEF KeyOutlivesTheProcess
<1>1. CASE chosen = Unset /\ Assignments(protectedFile) = {}
  <2>1. Parsed(protectedFile) = Unset
    BY <1>1 DEF Parsed
  <2> QED BY <1>1, <2>1 DEF Loaded
<1>2. CASE chosen \in Keys /\ \E i \in Assignments(protectedFile) : protectedFile[i].value = chosen
  <2> DEFINE mine == Assignments(protectedFile)
  <2>1. PICK i \in mine : protectedFile[i].value = chosen
    BY <1>2
  <2>2. IsFiniteSet(mine) /\ mine \subseteq Nat
    <3>1. DOMAIN protectedFile = 1 .. Len(protectedFile) /\ Len(protectedFile) \in Nat
      BY DEF CredentialsInv
    <3>2. mine \subseteq 1 .. Len(protectedFile)
      BY <3>1 DEF Assignments
    <3>3. IsFiniteSet(1 .. Len(protectedFile))
      BY <3>1, FS_Interval
    <3> HIDE DEF mine
    <3>4. IsFiniteSet(mine)
      BY <3>2, <3>3, FS_Subset
    <3> QED BY <3>2, <3>4
  <2> HIDE DEF mine
  <2>3. mine = {i}
    <3>1. Cardinality(mine) \in Nat /\ Cardinality(mine) < 2 /\ Cardinality(mine) # 0
      BY <2>1, <2>2, FS_CardinalityType, FS_EmptySet DEF mine
    <3>2. Cardinality(mine) = 1
      BY <3>1
    <3> QED BY <2>1, <2>2, <3>2, FS_Singleton
  <2>4. (CHOOSE l \in mine : \A j \in mine : j <= l) = i
    BY <2>2, <2>3
  <2>5. Parsed(protectedFile) = chosen
    BY <2>1, <2>3, <2>4 DEF Parsed, mine
  <2> QED BY <1>2, <2>5 DEF Loaded, Keys
<1> QED BY <1>1, <1>2 DEF CredentialsInv, FileHolds

(* A key the panel saved, or cleared, is the one the gateway has at its     *)
(* next start (credentialStore.js, env.js): for any keys, files and shells, *)
(* and any number of saves and restarts.                                    *)
THEOREM SavedKeysOutlive == CredentialsSpec => []KeyOutlivesTheProcess
<1> QED BY CredentialsInitInv, CredentialsNextInv, HoldsOutlives, PTL DEF CredentialsSpec

HIDE CredentialsAssumption

-----------------------------------------------------------------------------
(* Memory: whose memories a recall shows.                                   *)
(* In the database an id names one memory for ever: a point, stored or on   *)
(* its way, is of the session of the memory that has its id.                *)
SameSession(points) ==
  \A id \in DOMAIN points :
    id <= lastId /\ (id \in DOMAIN memories => points[id].session = memories[id].session)

IsMemory(m) == m = [session |-> m.session, text |-> m.text, embedded |-> m.embedded]

IdsAreForEver ==
  /\ lastId \in Nat
  /\ DOMAIN memories \subseteq Nat /\ \A id \in DOMAIN memories : id <= lastId
  /\ \A id \in DOMAIN memories : IsMemory(memories[id])
  /\ DOMAIN vectors \subseteq Nat /\ SameSession(vectors)
  /\ DOMAIN sync.pending \subseteq Nat /\ \A id \in DOMAIN sync.pending : id <= lastId
  /\ sync.at \in {"upserts", "stored"} => SameSession(sync.pending)

RecallSound(q) ==
  /\ q = [at |-> q.at, sessions |-> q.sessions, keyword |-> q.keyword, results |-> q.results]
  /\ \A h \in q.keyword : h.session \in q.sessions

MemoryInv ==
  /\ backend = "sqlite" => IdsAreForEver
  /\ sync = [at |-> sync.at, pending |-> sync.pending]
  /\ recalls = [r \in Recallers |-> recalls[r]]
  /\ \A r \in Recallers : RecallSound(recalls[r])

LEMMA MemoryInitInv == MemoryInit => MemoryInv
<1> SUFFICES ASSUME MemoryInit PROVE MemoryInv
  OBVIOUS
<1>1. sync = NoSync /\ memories = NoMemories /\ vectors = NoMemories /\ lastId = 0
      /\ recalls = [r \in Recallers |-> NoRecall]
  BY DEF MemoryInit
<1>2. DOMAIN NoMemories = {} /\ NoSync.at = "idle" /\ NoSync.pending = NoMemories
      /\ NoSync = [at |-> NoSync.at, pending |-> NoSync.pending]
  BY DEF NoMemories, NoSync
<1>3. RecallSound(NoRecall)
  BY DEF RecallSound, NoRecall
<1>4. IdsAreForEver
  BY <1>1, <1>2 DEF IdsAreForEver, SameSession
<1> QED BY <1>1, <1>2, <1>3, <1>4 DEF MemoryInv

(* What the store shows is of a session that was asked for.                 *)
LEMMA ShownIs ==
  ASSUME NEW ids, NEW h \in shown(ids)
  PROVE  \E id \in ids : h.id = id /\ h.session = memories[id].session /\ h.text = memories[id].text
BY DEF shown

LEMMA RecallInv ==
  ASSUME MemoryInv, NEW r \in Recallers, NEW sessions, NEW t, NEW mode, Recall(r, sessions, t, mode)
  PROVE  MemoryInv'
<1> DEFINE keyword == IF mode = "vector" THEN {} ELSE keywordSearch(sessions, t)
           q == [at |-> IF mode = "keyword" THEN "done" ELSE "waits", sessions |-> sessions,
                 keyword |-> keyword, results |-> IF mode = "keyword" THEN scanned(keyword) ELSE {}]
<1>1. recalls' = [recalls EXCEPT ![r] = q] /\ UNCHANGED <<backend, memories, lastId, vectors, sync, boots>>
  BY DEF Recall
<1>2. \A h \in keyword : h.session \in sessions
  BY ShownIs DEF keywordSearch
<1>3. RecallSound(q)
  BY <1>2 DEF RecallSound
<1> HIDE DEF q
<1>4. \A s \in Recallers : RecallSound(recalls'[s])
  BY <1>1, <1>3 DEF MemoryInv
<1>5. recalls' = [s \in Recallers |-> recalls'[s]]
  BY <1>1 DEF MemoryInv
<1> QED BY <1>1, <1>4, <1>5 DEF MemoryInv, IdsAreForEver, SameSession

LEMMA RecalledInv ==
  ASSUME MemoryInv, NEW r \in Recallers, NEW hits, Recalled(r, hits)
  PROVE  /\ MemoryInv'
         /\ recalls'[r].results = scanned(recalls[r].keyword \cup hits)
         /\ recalls'[r].sessions = recalls[r].sessions /\ recalls'[r].keyword = recalls[r].keyword
         /\ \A s \in Recallers \ {r} : recalls'[s] = recalls[s]
<1> DEFINE q == recalls[r]  found == scanned(recalls[r].keyword \cup hits)
<1>1. recalls' = [recalls EXCEPT ![r].at = "done", ![r].results = found]
      /\ UNCHANGED <<backend, memories, lastId, vectors, sync, boots>>
  BY DEF Recalled
<1>2. RecallSound(q) /\ recalls = [s \in Recallers |-> recalls[s]]
  BY DEF MemoryInv
<1> HIDE DEF found
<1>3. recalls'[r] = [at |-> "done", sessions |-> q.sessions, keyword |-> q.keyword, results |-> found]
  BY <1>1, <1>2 DEF RecallSound
<1>4. \A s \in Recallers \ {r} : recalls'[s] = recalls[s]
  BY <1>1, <1>2
<1>5. RecallSound(recalls'[r])
  BY <1>2, <1>3 DEF RecallSound
<1>6. recalls' = [s \in Recallers |-> recalls'[s]]
  BY <1>1, <1>2
<1>7. MemoryInv'
  BY <1>1, <1>4, <1>5, <1>6 DEF MemoryInv, IdsAreForEver, SameSession
<1> QED BY <1>3, <1>4, <1>7 DEF found

LEMMA IngestInv == ASSUME MemoryInv, NEW s, NEW t, ingest(s, t) PROVE MemoryInv'
<1> DEFINE new == [session |-> s, text |-> t, embedded |-> FALSE]
<1>1. /\ lastId' = lastId + 1
      /\ memories' = [id \in DOMAIN memories \cup {lastId + 1} |->
                        IF id = lastId + 1 THEN new ELSE memories[id]]
      /\ UNCHANGED <<backend, vectors, recalls, sync, boots>>
  BY DEF ingest, nextId
<1>3. IsMemory(new)
  BY DEF IsMemory
<1> HIDE DEF new
<1>2. ASSUME backend = "sqlite" PROVE IdsAreForEver'
  <2>1. IdsAreForEver
    BY <1>2 DEF MemoryInv
  <2>2. /\ DOMAIN memories' = DOMAIN memories \cup {lastId + 1} /\ lastId \in Nat
        /\ \A id \in Nat : id <= lastId => id # lastId + 1 /\ id <= lastId'
        /\ \A id \in DOMAIN memories : id # lastId + 1 => memories'[id] = memories[id]
    BY <1>1, <2>1 DEF IdsAreForEver
  <2>3. DOMAIN memories' \subseteq Nat /\ \A id \in DOMAIN memories' : id <= lastId'
    BY <1>1, <2>1, <2>2 DEF IdsAreForEver
  <2>4. ASSUME NEW points, DOMAIN points \subseteq Nat, SameSession(points)
        PROVE  \A id \in DOMAIN points :
                 id <= lastId' /\ (id \in DOMAIN memories' => points[id].session = memories'[id].session)
    BY <2>2, <2>4 DEF SameSession
  <2>5. SameSession(vectors)' /\ DOMAIN vectors' \subseteq Nat
    BY <1>1, <2>1, <2>4 DEF IdsAreForEver, SameSession
  <2>6. (sync.at \in {"upserts", "stored"} => SameSession(sync.pending))'
    BY <1>1, <2>1, <2>4 DEF IdsAreForEver, SameSession
  <2>7. DOMAIN sync'.pending \subseteq Nat /\ \A id \in DOMAIN sync'.pending : id <= lastId'
    BY <1>1, <2>1, <2>2 DEF IdsAreForEver
  <2>8. \A id \in DOMAIN memories' : IsMemory(memories'[id])
    BY <1>1, <1>3, <2>1, <2>2 DEF IdsAreForEver
  <2> QED BY <1>1, <2>1, <2>2, <2>3, <2>5, <2>6, <2>7, <2>8 DEF IdsAreForEver
<1> QED BY <1>1, <1>2 DEF MemoryInv

LEMMA ForgetInv == ASSUME MemoryInv, NEW ids, forget(ids) PROVE MemoryInv'
<1>1. /\ memories' = [id \in DOMAIN memories \ ids |-> memories[id]]
      /\ UNCHANGED <<backend, lastId, vectors, recalls, sync, boots>>
  <2>1. memories' = Restrict(memories, DOMAIN memories \ ids)
    BY DEF forget
  <2> QED BY <2>1 DEF forget, Restrict
<1>2. DOMAIN memories' \subseteq DOMAIN memories /\ \A id \in DOMAIN memories' : memories'[id] = memories[id]
  BY <1>1
<1> QED BY <1>1, <1>2 DEF MemoryInv, IdsAreForEver, SameSession

LEMMA SyncBegins == ASSUME MemoryInv, SyncVectors PROVE MemoryInv'
<1> DEFINE pending == [id \in pendingEmbedding |-> [text |-> memories[id].text]]
<1>1. sync' = [at |-> "embeds", pending |-> pending]
      /\ UNCHANGED <<backend, memories, lastId, vectors, recalls, boots>>
  BY DEF SyncVectors
<1>2. DOMAIN pending \subseteq DOMAIN memories
  BY DEF pendingEmbedding
<1> HIDE DEF pending
<1>3. sync'.at = "embeds" /\ sync'.pending = pending /\ sync' = [at |-> sync'.at, pending |-> sync'.pending]
  BY <1>1
<1> QED BY <1>1, <1>2, <1>3 DEF MemoryInv, IdsAreForEver, SameSession

LEMMA EmbeddedInv == ASSUME MemoryInv, Embedded PROVE MemoryInv'
<1> DEFINE points == [id \in DOMAIN sync.pending |-> point(id)]
<1>1. sync' = [at |-> "upserts", pending |-> points]
      /\ UNCHANGED <<backend, memories, lastId, vectors, recalls, boots>>
  BY DEF Embedded
<1>2. DOMAIN points = DOMAIN sync.pending
      /\ \A id \in DOMAIN points : id \in DOMAIN memories => points[id].session = memories[id].session
  BY DEF point
<1> HIDE DEF points
<1>3. sync'.at = "upserts" /\ sync'.pending = points /\ sync' = [at |-> sync'.at, pending |-> sync'.pending]
  BY <1>1
<1> QED BY <1>1, <1>2, <1>3 DEF MemoryInv, IdsAreForEver, SameSession

LEMMA StoredInv == ASSUME MemoryInv, Stored PROVE MemoryInv'
<1>1. /\ vectors' = [id \in DOMAIN vectors \cup DOMAIN sync.pending |->
                       IF id \in DOMAIN sync.pending THEN sync.pending[id] ELSE vectors[id]]
      /\ sync.at = "upserts" /\ sync' = [sync EXCEPT !.at = "stored"]
      /\ UNCHANGED <<backend, memories, lastId, recalls, boots>>
  BY DEF Stored
<1>2. sync'.at = "stored" /\ sync'.pending = sync.pending /\ sync' = [at |-> sync'.at, pending |-> sync'.pending]
  <2>1. sync' = [at |-> "stored", pending |-> sync.pending]
    BY <1>1 DEF MemoryInv
  <2> QED BY <2>1
<1>3. ASSUME backend = "sqlite" PROVE IdsAreForEver'
  <2>1. IdsAreForEver /\ SameSession(sync.pending)
    BY <1>1, <1>3 DEF MemoryInv, IdsAreForEver
  <2>2. SameSession(vectors)' /\ DOMAIN vectors' \subseteq Nat
    BY <1>1, <2>1 DEF IdsAreForEver, SameSession
  <2> QED BY <1>1, <1>2, <2>1, <2>2 DEF IdsAreForEver, SameSession
<1> QED BY <1>1, <1>2, <1>3 DEF MemoryInv

LEMMA MarkInv == ASSUME MemoryInv, markEmbedded PROVE MemoryInv'
<1>1. memories' = marked(DOMAIN sync.pending) /\ sync' = NoSync
      /\ UNCHANGED <<backend, lastId, vectors, recalls, boots>>
  BY DEF markEmbedded
<1>2. /\ sync'.at = "idle" /\ DOMAIN sync'.pending = {}
      /\ sync' = [at |-> sync'.at, pending |-> sync'.pending]
  BY <1>1 DEF NoSync, NoMemories
<1>3. ASSUME backend = "sqlite" PROVE IdsAreForEver'
  <2>1. IdsAreForEver
    BY <1>3 DEF MemoryInv
  <2>2. DOMAIN memories' = DOMAIN memories
    BY <1>1 DEF marked
  <2>3. ASSUME NEW id \in DOMAIN memories
        PROVE  IsMemory(memories'[id]) /\ memories'[id].session = memories[id].session
    <3> DEFINE m == memories[id]  told == m.embedded \/ id \in DOMAIN sync.pending
    <3>1. m = [session |-> m.session, text |-> m.text, embedded |-> m.embedded]
      BY <2>1 DEF IdsAreForEver, IsMemory
    <3>2. memories'[id] = [m EXCEPT !.embedded = told]
      BY <1>1 DEF marked
    <3> HIDE DEF told
    <3>3. memories'[id] = [session |-> m.session, text |-> m.text, embedded |-> told]
      BY <3>1, <3>2
    <3> HIDE DEF m
    <3>4. memories'[id].session = m.session /\ memories'[id].text = m.text /\ memories'[id].embedded = told
      BY <3>3
    <3> QED BY <3>3, <3>4 DEF IsMemory, m
  <2> QED BY <1>1, <1>2, <2>1, <2>2, <2>3 DEF IdsAreForEver, SameSession
<1> QED BY <1>1, <1>2, <1>3 DEF MemoryInv

LEMMA SyncEnds == ASSUME MemoryInv, SyncFails PROVE MemoryInv'
<1>1. sync' = NoSync /\ UNCHANGED <<backend, memories, lastId, vectors, recalls, boots>>
  BY DEF SyncFails
<1>2. /\ sync'.at = "idle" /\ DOMAIN sync'.pending = {}
      /\ sync' = [at |-> sync'.at, pending |-> sync'.pending]
  BY <1>1 DEF NoSync, NoMemories
<1> QED BY <1>1, <1>2 DEF MemoryInv, IdsAreForEver, SameSession

LEMMA NoRecallSound == RecallSound(NoRecall)
BY DEF RecallSound, NoRecall

LEMMA RestartInv == ASSUME MemoryInv, RestartMemory PROVE MemoryInv'
<1>1. /\ backend = "sqlite" => lastId' = lastId
      /\ recalls' = [r \in Recallers |-> NoRecall] /\ sync' = NoSync
      /\ UNCHANGED <<backend, memories, vectors>>
  BY DEF RestartMemory
<1>2. /\ sync'.at = "idle" /\ DOMAIN sync'.pending = {}
      /\ sync' = [at |-> sync'.at, pending |-> sync'.pending]
  BY <1>1 DEF NoSync, NoMemories
<1> QED BY <1>1, <1>2, NoRecallSound DEF MemoryInv, IdsAreForEver, SameSession

LEMMA LeaveInv == ASSUME MemoryInv, NEW r \in Recallers, Leave(r) PROVE MemoryInv'
<1>1. recalls' = [recalls EXCEPT ![r] = NoRecall]
      /\ UNCHANGED <<backend, memories, lastId, vectors, sync, boots>>
  BY DEF Leave
<1>2. /\ recalls' = [s \in Recallers |-> recalls'[s]]
      /\ \A s \in Recallers : recalls'[s] \in {recalls[s], NoRecall}
  BY <1>1 DEF MemoryInv
<1>3. \A s \in Recallers : RecallSound(recalls'[s])
  BY <1>2, NoRecallSound DEF MemoryInv
<1> QED BY <1>1, <1>2, <1>3 DEF MemoryInv, IdsAreForEver, SameSession

LEMMA MemoryNextInv == MemoryInv /\ [MemoryNext]_memoryVars => MemoryInv'
<1> SUFFICES ASSUME MemoryInv, [MemoryNext]_memoryVars PROVE MemoryInv'
  OBVIOUS
<1>1. CASE UNCHANGED memoryVars
  BY <1>1 DEF memoryVars, MemoryInv, IdsAreForEver, SameSession
<1>2. CASE Forget
  BY <1>2, ForgetInv DEF Forget
<1>3. ASSUME NEW r \in Recallers, VectorFound(r) \/ VectorUnavailable(r) PROVE MemoryInv'
  BY <1>3, RecalledInv DEF VectorFound, VectorUnavailable
<1> QED BY <1>1, <1>2, <1>3, IngestInv, RecallInv, LeaveInv, SyncBegins, EmbeddedInv, StoredInv,
           MarkInv, SyncEnds, RestartInv DEF MemoryNext

(* One step shows a request only what is its own.                           *)
OwnOnly ==
  \A r \in Recallers : recalls[r].at # "done" /\ recalls'[r].at = "done" =>
    \A h \in recalls'[r].results :
      /\ h \in shown(DOMAIN memories) \cup recalls'[r].keyword
      /\ backend = "sqlite" => h.session \in recalls'[r].sessions
      /\ h.text \notin Injected

LEMMA OthersDone ==
  ASSUME NEW r \in Recallers, \A s \in Recallers \ {r} : recalls'[s] = recalls[s],
         \A h \in recalls'[r].results :
           recalls[r].at # "done" /\ recalls'[r].at = "done" =>
             /\ h \in shown(DOMAIN memories) \cup recalls'[r].keyword
             /\ backend = "sqlite" => h.session \in recalls'[r].sessions
             /\ h.text \notin Injected
  PROVE  OwnOnly
BY DEF OwnOnly

LEMMA VectorOwn ==
  ASSUME MemoryInv, NEW r \in Recallers, NEW hits \in SUBSET vectorHits(recalls[r].sessions),
         Recalled(r, hits)
  PROVE  OwnOnly
<1>1. /\ recalls'[r].results = scanned(recalls[r].keyword \cup hits)
      /\ recalls'[r].sessions = recalls[r].sessions /\ recalls'[r].keyword = recalls[r].keyword
      /\ \A s \in Recallers \ {r} : recalls'[s] = recalls[s]
  BY RecalledInv
<1>2. ASSUME NEW h \in recalls'[r].results
      PROVE  /\ h \in shown(DOMAIN memories) \cup recalls'[r].keyword
             /\ backend = "sqlite" => h.session \in recalls'[r].sessions
             /\ h.text \notin Injected
  <2>1. h \in recalls[r].keyword \cup hits /\ h.text \notin Injected
    BY <1>1 DEF scanned
  <2>2. CASE h \in recalls[r].keyword
    BY <1>1, <2>1, <2>2 DEF MemoryInv, RecallSound
  <2>3. CASE h \in hits
    <3> DEFINE found == {id \in DOMAIN vectors : vectors[id].session \in recalls[r].sessions}
                          \cap DOMAIN memories
    <3>1. h \in shown(found)
      BY <2>3 DEF vectorHits
    <3>2. PICK id \in found : h.session = memories[id].session
      BY <3>1, ShownIs
    <3>3. h \in shown(DOMAIN memories)
      BY <3>1 DEF shown
    <3>4. backend = "sqlite" => vectors[id].session = memories[id].session
      BY <3>2 DEF MemoryInv, IdsAreForEver, SameSession
    <3> QED BY <1>1, <2>1, <3>2, <3>3, <3>4
  <2> QED BY <2>1, <2>2, <2>3
<1> QED BY <1>1, <1>2, OthersDone

LEMMA KeywordOwn ==
  ASSUME MemoryInv, NEW r \in Recallers, NEW sessions, NEW t, NEW mode, Recall(r, sessions, t, mode)
  PROVE  OwnOnly
<1> DEFINE keyword == IF mode = "vector" THEN {} ELSE keywordSearch(sessions, t)
           q == [at |-> IF mode = "keyword" THEN "done" ELSE "waits", sessions |-> sessions,
                 keyword |-> keyword, results |-> IF mode = "keyword" THEN scanned(keyword) ELSE {}]
<1>1. recalls' = [recalls EXCEPT ![r] = q] /\ recalls = [s \in Recallers |-> recalls[s]]
  BY DEF Recall, MemoryInv
<1>2. \A h \in keyword : h.session \in sessions
  BY ShownIs DEF keywordSearch
<1>3. q.sessions = sessions /\ q.keyword = keyword
      /\ \A h \in q.results : h \in keyword /\ h.text \notin Injected
  BY DEF scanned
<1> HIDE DEF q, keyword
<1>4. recalls'[r] = q /\ \A s \in Recallers \ {r} : recalls'[s] = recalls[s]
  BY <1>1
<1> QED BY <1>2, <1>3, <1>4, OthersDone

LEMMA StepOwn == MemoryInv /\ [MemoryNext]_memoryVars => OwnOnly
<1> SUFFICES ASSUME MemoryInv, [MemoryNext]_memoryVars PROVE OwnOnly
  OBVIOUS
<1>1. CASE UNCHANGED recalls
  BY <1>1 DEF OwnOnly
<1>2. CASE RestartMemory
  <2>1. recalls' = [r \in Recallers |-> NoRecall]
    BY <1>2 DEF RestartMemory
  <2> QED BY <2>1 DEF OwnOnly, NoRecall
<1>3. ASSUME NEW r \in Recallers, Leave(r) PROVE OwnOnly
  BY <1>3 DEF Leave, OwnOnly
<1>4. ASSUME NEW r \in Recallers, VectorFound(r) \/ VectorUnavailable(r) PROVE OwnOnly
  <2>1. PICK hits \in SUBSET vectorHits(recalls[r].sessions) : Recalled(r, hits)
    BY <1>4 DEF VectorFound, VectorUnavailable
  <2> QED BY <2>1, VectorOwn
<1>5. ASSUME NEW s, NEW t, ingest(s, t) PROVE UNCHANGED recalls
  BY <1>5 DEF ingest
<1>6. CASE Forget
  BY <1>1, <1>6 DEF Forget, forget
<1>7. ASSUME SyncVectors \/ Embedded \/ Stored \/ markEmbedded \/ SyncFails PROVE UNCHANGED recalls
  BY <1>7 DEF SyncVectors, Embedded, Stored, markEmbedded, SyncFails
<1>8. UNCHANGED memoryVars => UNCHANGED recalls
  BY DEF memoryVars
<1> QED BY <1>1, <1>2, <1>3, <1>4, <1>5, <1>6, <1>7, <1>8, KeywordOwn DEF MemoryNext

(* What a request is shown is its own (recall.js, index.js): for any        *)
(* sessions, texts and requests, however memories are forgotten, vectors    *)
(* brought up to date and the gateway restarted in between.                 *)
THEOREM RecallsStayOwn == MemorySpec => RecallIsOwn
<1>1. MemoryInv /\ [MemoryNext]_memoryVars => [OwnOnly]_memoryVars
  BY StepOwn
<1> QED BY <1>1, MemoryInitInv, MemoryNextInv, PTL DEF MemorySpec, RecallIsOwn, OwnOnly
=============================================================================
