------------------------------- MODULE RateLimit -------------------------------
(***************************************************************************)
(* The token buckets of src/src/middleware/rateLimit.js, one per client.   *)
(*                                                                         *)
(* Tokens are real numbers there; here they are counted in units, COST of  *)
(* them to the token a request takes, and time in ticks.  A bucket is      *)
(* refilled when it is looked at, for the time since it last was.          *)
(***************************************************************************)
EXTENDS Integers, Sequences

CONSTANTS
  Clients,        \* identities
  MAX_BUCKETS,
  COST,           \* units to a token
  Configs,        \* bound: what configure can be left with
  MaxIdle         \* bound: time beyond this, which fills any bucket, is not counted

Config == [enabled : BOOLEAN, capacity : Nat \ {0}, refill : Nat \ {0}]

ASSUME RateAssumption ==
  /\ MAX_BUCKETS \in Nat \ {0}
  /\ COST \in Nat \ {0}
  /\ MaxIdle \in Nat
  /\ Configs \subseteq Config
  /\ \A g \in Configs : g.capacity <= MaxIdle * g.refill

VARIABLES
  config,
  order,      \* the keys of `buckets`, in the order they were inserted
  tokens,     \* what is in each bucket, at its last refill
  idle,       \* ticks since that
  excess,     \* history: see BurstBounded
  due         \* history: 1 + ticks left of the Retry-After a client was given, or 0

vars == <<config, order, tokens, idle, excess, due>>

In(s)   == {s[i] : i \in DOMAIN s}
Tracked == In(order)

Min2(a, b)  == IF a < b THEN a ELSE b
MinusTo0(a, b) == IF a > b THEN a - b ELSE 0

Init ==
  /\ config \in Configs
  /\ order = <<>>
  /\ tokens = [c \in Clients |-> 0] /\ idle = [c \in Clients |-> 0]
  /\ excess = [c \in Clients |-> 0]
  /\ due = [c \in Clients |-> 0]

-----------------------------------------------------------------------------

(* What a look at the bucket of c finds: a new one is full.                 *)
Level(c) ==
  IF c \in Tracked THEN Min2(config.capacity, tokens[c] + idle[c] * config.refill)
                   ELSE config.capacity

(* A client that is not tracked gets a bucket, at the cost of the oldest.   *)
Inserted(c) ==
  IF c \in Tracked THEN order
  ELSE Append(IF Len(order) >= MAX_BUCKETS THEN Tail(order) ELSE order, c)

(* A column of the table when the bucket of c gets v: what is not in the    *)
(* table is 0.                                                              *)
With(column, c, v) ==
  [x \in Clients |-> IF x = c THEN v ELSE IF x \in In(Inserted(c)) THEN column[x] ELSE 0]

(* Mutant: rounded down.                                                    *)
RetryAfterFloor(c) == (COST - Level(c)) \div config.refill

(* msUntilNextToken, rounded up to whole ticks.                             *)
RetryAfter(c) == (COST - Level(c) + config.refill - 1) \div config.refill

(* Mutant: the request that makes the bucket is free.                       *)
AllowFirstFree(c) ==
  /\ config.enabled /\ Level(c) >= COST
  /\ order' = Inserted(c)
  /\ tokens' = With(tokens, c, IF c \in Tracked THEN Level(c) - COST ELSE Level(c))
  /\ idle' = With(idle, c, 0)
  /\ excess' = With(excess, c, excess[c] + COST)
  /\ due' = With(due, c, 0)
  /\ UNCHANGED config

(* take. *)
Allow(c) ==
  /\ config.enabled /\ Level(c) >= COST
  /\ order' = Inserted(c)
  /\ tokens' = With(tokens, c, Level(c) - COST)
  /\ idle' = With(idle, c, 0)
  /\ excess' = With(excess, c, excess[c] + COST)
  /\ due' = With(due, c, 0)
  /\ UNCHANGED config

Refuse(c) ==
  /\ config.enabled /\ Level(c) < COST
  /\ order' = Inserted(c)
  /\ tokens' = With(tokens, c, Level(c))
  /\ idle' = With(idle, c, 0)
  /\ excess' = With(excess, c, excess[c])
  /\ due' = With(due, c, RetryAfter(c) + 1)
  /\ UNCHANGED config

(* Buckets are left as they are; the histories start again.                 *)
configure(new) ==
  /\ config' = new
  /\ excess' = [c \in Clients |-> 0] /\ due' = [c \in Clients |-> 0]
  /\ UNCHANGED <<order, tokens, idle>>

reset ==
  /\ order' = <<>>
  /\ tokens' = [c \in Clients |-> 0] /\ idle' = [c \in Clients |-> 0]
  /\ excess' = [c \in Clients |-> 0] /\ due' = [c \in Clients |-> 0]
  /\ UNCHANGED config

Tick ==
  /\ idle' = [c \in Clients |-> IF c \in Tracked /\ idle[c] < MaxIdle THEN idle[c] + 1 ELSE idle[c]]
  /\ excess' = [c \in Clients |-> MinusTo0(excess[c], config.refill)]
  /\ due' = [c \in Clients |-> IF due[c] > 1 THEN due[c] - 1 ELSE due[c]]
  /\ UNCHANGED <<config, order, tokens>>

Next ==
  \/ \E c \in Clients : Allow(c) \/ Refuse(c)
  \/ \E new \in Configs : configure(new)
  \/ reset
  \/ Tick

Spec == Init /\ [][Next]_vars

-----------------------------------------------------------------------------
TypeOK ==
  /\ config \in Configs
  /\ order \in Seq(Clients)
  /\ tokens \in [Clients -> Nat] /\ idle \in [Clients -> 0 .. MaxIdle]
  /\ excess \in [Clients -> Nat] /\ due \in [Clients -> Int]

(* `excess` is the greatest, over all the windows of time that end now, of  *)
(* what the client was allowed in the window less what the refill rate      *)
(* grants in it; a window begins no earlier than the bucket, which is new   *)
(* after an eviction, or the last configure.  In no window is a client      *)
(* allowed more than the burst and what the rate grants: not by waiting,    *)
(* not by asking often, not while others come and go.                       *)
BurstBounded == \A c \in Clients : excess[c] <= config.capacity

(* What a bucket still has and what was taken from it make up a full one:   *)
(* this is what makes BurstBounded inductive.                               *)
LevelAccounts ==
  \A c \in Clients :
    IF c \in Tracked THEN excess[c] + Level(c) <= config.capacity ELSE excess[c] = 0

Inv == TypeOK /\ LevelAccounts

(* A client that waited as long as Retry-After told it to is not refused    *)
(* again, whatever the others did meanwhile: it finds a token, and where    *)
(* the bucket is too small to hold one, a full bucket.  For such a          *)
(* capacity, which configure takes (0.5 is positive), Retry-After is never  *)
(* true: the limiter does "reject every request forever" (rateLimit.js:23). *)
RetryAfterIsEnough ==
  \A c \in Clients : due[c] = 1 => Level(c) >= Min2(COST, config.capacity)
=============================================================================
