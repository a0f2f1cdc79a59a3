------------------------------ MODULE Strategies ------------------------------
(***************************************************************************)
(* The orderings of src/src/routing/strategies.js: what chain a route      *)
(* string resolves to, and the state that outlives a request: the          *)
(* rotating cursor and the sticky pin.                                     *)
(*                                                                         *)
(* What a strategy reads of a provider is its profile, which does not      *)
(* change, and what has been observed of it, which does.  Prices, windows, *)
(* latencies and headrooms are small numbers here: only their order and    *)
(* the bounds the code compares them with matter.                          *)
(***************************************************************************)
EXTENDS Integers, FiniteSets, SequencesExt

CONSTANTS
  Configured,    \* config/providers.json: the provider ids in the order of the file
  Profile,       \* of each provider: what the file says of it, and the operator
  Observations,  \* bound: what can be observed of a provider
  PromptTokens,
  LongContext,   \* the window the combo long-context asks for
  Custom,        \* saved combos, by name
  Lucks          \* bound: what Math.random can make of the order of providers

Providers == Range(Configured)

STRATEGIES == {"priority", "roundrobin", "randomized", "sticky", "cheapest", "fastest",
               "drain-free", "drain-subscription", "context-aware", "least-errors",
               "local-first", "verified-pricing"}

(* A filter is a set of conditions, all of which a lane has to meet.        *)
Conditions == {"freeOnly", "withQuotaRemaining", "verifiedPricingOnly", "subscription-or-local",
               "minContextWindow", "frontier", "inference", "aggregator", "local"}
Tiers == [strategy : STRATEGIES, filter : SUBSET Conditions]

Infinity == 1000000
Behind   == 1000        \* more than any price, window, headroom, latency or count

ASSUME StrategiesAssumption ==
  /\ Configured \in Seq(Providers) /\ IsInjective(Configured)
  /\ \A p \in Providers :
       /\ Profile[p].priority \in Nat
       /\ Profile[p].name \in Nat                  \* where its id is among all of them
       /\ Profile[p].category \in {"frontier", "inference", "aggregator", "local"}
       /\ Profile[p].billing \in {"subscription", "local", "free-tier", "metered"}
       /\ Profile[p].free \in BOOLEAN /\ Profile[p].verified \in BOOLEAN
       /\ Profile[p].price \in Nat
       /\ Profile[p].window \in Nat                \* 0: undeclared
  /\ \A o \in Observations :
       /\ o.latency \in Nat                        \* 0: never measured
       /\ o.recorded \in BOOLEAN                   \* the health state knows of it
       /\ o.failures \in Nat                       \* counted; Behind: the breaker is OPEN
       /\ o.headroom \in Nat                       \* of the free quota; 0: exhausted
  /\ \A p \in Providers, q \in Providers : Profile[p].name = Profile[q].name => p = q
  /\ PromptTokens \in Nat /\ LongContext \in Nat
  /\ \A name \in DOMAIN Custom :
       Custom[name].tiers \in Seq(Tiers) /\ Custom[name].strict \in BOOLEAN   \* validateCombo
  /\ \A luck \in Lucks : \A p \in Providers, q \in Providers :
       luck[p] \in Nat /\ (luck[p] = luck[q] => p = q)

VARIABLES
  disabled,    \* settings.disabledProviders
  seen,        \* what is observed of each provider
  cursor,      \* cursors.roundrobin
  pinned,      \* lastSuccessful, or Nobody
  firsts       \* history: how often auto/roundrobin put each provider first, less what
               \* it put every one of them, since the pool changed or the cursor was moved
               \* by anything else
strategiesVars == <<disabled, seen, cursor, pinned, firsts>>

CONSTANT Nobody
ASSUME NobodyAssumption == Nobody \notin Providers

pool == Providers \ disabled

-----------------------------------------------------------------------------
(* Strategies.  An order is a relation: <<a, b>> is in it when a is tried    *)
(* before b.                                                                *)

(* The lanes, the first of them first.                                      *)
inOrder(lanes, before) ==
  [i \in 1 .. Cardinality(lanes) |->
     CHOOSE p \in lanes : Cardinality({q \in lanes : <<q, p>> \in before}) = i - 1]

byPriority ==
  {pair \in Providers \X Providers :
     LET a == Profile[pair[1]]  b == Profile[pair[2]]
     IN a.priority < b.priority \/ (a.priority = b.priority /\ a.name < b.name)}

asConfigured ==
  {pair \in Providers \X Providers :
     \E i, j \in DOMAIN Configured : i < j /\ pair = <<Configured[i], Configured[j]>>}

(* What each strategy sorts by, lowest first.                               *)
score(strategy, p) ==
  LET profile == Profile[p]  now == seen[p] IN
  CASE strategy = "cheapest" -> profile.price
    [] strategy = "fastest"  -> IF now.latency > 0 THEN now.latency ELSE Infinity
    [] strategy = "drain-free" ->
         IF ~profile.free THEN Behind
         ELSE IF now.headroom = 0 THEN 2 * Behind ELSE 0 - now.headroom
    [] strategy = "drain-subscription" ->
         CASE profile.billing = "subscription" -> 0 [] profile.billing = "local" -> 1
           [] profile.billing = "free-tier" -> 2    [] OTHER -> 3
    [] strategy = "context-aware" ->
         IF profile.window = 0 THEN Behind
         ELSE IF profile.window < PromptTokens THEN 2 * Behind - profile.window ELSE profile.window
    [] strategy = "least-errors" ->
         IF now.recorded THEN now.failures ELSE 0
    [] strategy = "local-first" -> IF profile.category = "local" THEN 0 ELSE 1
    [] strategy = "verified-pricing" -> IF profile.verified THEN 0 ELSE 1

(* sortBy.  Two lanes without a measurement differ by Infinity - Infinity,  *)
(* which is NaN: not 0, so byPriority is not consulted, and to sort() no    *)
(* reason to move either.                                                   *)
sortBy(strategy, lanes) ==
  {pair \in lanes \X lanes :
     LET a == score(strategy, pair[1])  b == score(strategy, pair[2])
     IN a < b \/ (a = b /\ pair \in IF a = Infinity THEN asConfigured ELSE byPriority)}

(* Mutant: the cursor counts by two.                                        *)
advancedTwice(from, lanes) == IF lanes = {} THEN from ELSE (from + 2) % Cardinality(lanes)

advanced(from, lanes) == IF lanes = {} THEN from ELSE (from + 1) % Cardinality(lanes)

(* The lanes from the cursor on, and then those before it.                  *)
rotate(lanes, at) ==
  LET ahead(p) == Cardinality({q \in lanes : <<q, p>> \in byPriority}) >= at
  IN  {pair \in lanes \X lanes :
         \/ ahead(pair[1]) /\ ~ahead(pair[2])
         \/ (ahead(pair[1]) <=> ahead(pair[2])) /\ pair \in byPriority}

sticky(lanes) ==
  {pair \in lanes \X lanes :
     pair[1] # pair[2] /\ (pair[1] = pinned \/ (pair[2] # pinned /\ pair \in byPriority))}

(* How a strategy orders the lanes.  The cursor stands at `from`.           *)
order(strategy, lanes, from, luck) ==
  CASE strategy = "priority"   -> byPriority
    [] strategy = "roundrobin" -> rotate(lanes, advanced(from, lanes))
    [] strategy = "randomized" -> {pair \in lanes \X lanes : luck[pair[1]] < luck[pair[2]]}
    [] strategy = "sticky"     -> sticky(lanes)
    [] OTHER -> sortBy(strategy, lanes)

-----------------------------------------------------------------------------
(* Combos.                                                                  *)

meets(condition, p) ==
  CASE condition = "freeOnly"              -> Profile[p].free
    [] condition = "withQuotaRemaining"    -> Profile[p].free /\ seen[p].headroom > 0
    [] condition = "verifiedPricingOnly"   -> Profile[p].verified
    [] condition = "subscription-or-local" -> Profile[p].billing \in {"subscription", "local"}
    [] condition = "minContextWindow"      -> Profile[p].window >= LongContext
    [] OTHER                               -> Profile[p].category = condition

admits(filter, p) == \A condition \in filter : meets(condition, p)

Tier(strategy, filter) == [strategy |-> strategy, filter |-> filter]
Combo(tiers) == [tiers |-> tiers, strict |-> FALSE]

BUILTIN_COMBOS ==
  [free_first    |-> Combo(<<Tier("drain-free", {"freeOnly", "withQuotaRemaining"}),
                             Tier("cheapest", {}), Tier("priority", {})>>),
   paid_for_it   |-> Combo(<<Tier("drain-subscription", {"subscription-or-local"}),
                             Tier("drain-free", {"freeOnly", "withQuotaRemaining"}),
                             Tier("cheapest", {})>>),
   cost_floor    |-> Combo(<<Tier("cheapest", {"verifiedPricingOnly"}), Tier("cheapest", {}),
                             Tier("priority", {})>>),
   quality_first |-> Combo(<<Tier("priority", {"frontier"}), Tier("fastest", {"inference"}),
                             Tier("priority", {})>>),
   long_context  |-> Combo(<<Tier("context-aware", {"minContextWindow"}),
                             Tier("context-aware", {}), Tier("priority", {})>>),
   private       |-> Combo(<<Tier("local-first", {"local"})>>)]

(* A saved combo replaces the built-in one of its name.                     *)
listCombos == [name \in DOMAIN BUILTIN_COMBOS \cup DOMAIN Custom |->
                 IF name \in DOMAIN Custom THEN Custom[name] ELSE BUILTIN_COMBOS[name]]

(* Mutant: repetitions are kept.                                            *)
UnplacedAll(chain, lanes) == lanes

Unplaced(chain, lanes) == {p \in lanes : \A i \in DOMAIN chain : chain[i].provider # p}

(* Lanes of a tier that no earlier tier has placed join the chain, in the    *)
(* order they have among all lanes of the tier.                             *)
Placed(chain, tier, lanes, before) ==
  LET more == inOrder(Unplaced(chain, lanes), before)
  IN chain \o [i \in DOMAIN more |-> [provider |-> more[i], tier |-> tier]]

admitted(tier) == {p \in pool : admits(tier.filter, p)}

(* One tier more.                                                           *)
addTier(sofar, tier, t, luck) ==
  LET lanes == admitted(tier)
  IN  [chain  |-> Placed(sofar.chain, t, lanes, order(tier.strategy, lanes, sofar.cursor, luck)),
       cursor |-> IF tier.strategy = "roundrobin" THEN advanced(sofar.cursor, lanes)
                  ELSE sofar.cursor]

(* The chain and the cursor after the first n tiers.                        *)
Tiered(tiers, n, luck) ==
  LET upTo[t \in 0 .. n] == IF t = 0 THEN [chain |-> <<>>, cursor |-> cursor]
                            ELSE addTier(upTo[t - 1], tiers[t], t, luck)
  IN  upTo[n]

orderByCombo(combo, luck) ==
  LET tiered == Tiered(combo.tiers, Len(combo.tiers), luck)
  IN  IF combo.strict THEN tiered
      ELSE [tiered EXCEPT !.chain = Placed(@, Len(combo.tiers) + 1, pool, byPriority)]

orderByStrategy(strategy, luck) ==
  [chain  |-> Placed(<<>>, 1, pool, order(strategy, pool, cursor, luck)),
   cursor |-> IF strategy = "roundrobin" THEN advanced(cursor, pool) ELSE cursor]

(* buildCandidates, for `auto/<strategy>` and `combo/<name>`.               *)
Routes == {<<"auto", s>> : s \in STRATEGIES} \cup {<<"combo", c>> : c \in DOMAIN listCombos}

buildCandidates(route, luck) ==
  IF route[1] = "auto" THEN orderByStrategy(route[2], luck)
                       ELSE orderByCombo(listCombos[route[2]], luck)

-----------------------------------------------------------------------------
StrategiesInit ==
  /\ disabled = {} /\ cursor = 0 /\ pinned = Nobody
  /\ seen \in [Providers -> Observations]
  /\ firsts = [p \in Providers |-> 0]

(* One more first place for p, and one less for all if all have one.        *)
Counted(p) ==
  LET more == [firsts EXCEPT ![p] = @ + 1]
  IN  IF \A q \in pool : more[q] > 0
      THEN [q \in Providers |-> IF q \in disabled THEN 0 ELSE more[q] - 1]
      ELSE more

NoFirsts == [p \in Providers |-> 0]

RoundRobin == <<"auto", "roundrobin">>

(* A request is routed.                                                     *)
Route(route) ==
  /\ pool # {}
  /\ \E luck \in Lucks :
       LET made == buildCandidates(route, luck)
       IN /\ cursor' = made.cursor
          /\ firsts' = IF route = RoundRobin THEN Counted(made.chain[1].provider)
                       ELSE IF made.cursor # cursor THEN NoFirsts ELSE firsts
  /\ UNCHANGED <<disabled, seen, pinned>>

(* POST /api/panel/routing/preview builds the same candidates, which moves  *)
(* the cursor, and sends nothing.                                           *)
Preview(route) ==
  /\ \E luck \in Lucks : cursor' = buildCandidates(route, luck).cursor
  /\ firsts' = IF cursor' # cursor THEN NoFirsts ELSE firsts
  /\ UNCHANGED <<disabled, seen, pinned>>

(* recordStrategyOutcome: a lane of a request sent earlier has answered.    *)
Answered(p) == pinned' = p /\ UNCHANGED <<disabled, seen, cursor, firsts>>

Observe(p, o) ==
  seen' = [seen EXCEPT ![p] = o] /\ UNCHANGED <<disabled, cursor, pinned, firsts>>

SetDisabled(set) ==
  /\ disabled' = set /\ firsts' = NoFirsts
  /\ UNCHANGED <<seen, cursor, pinned>>

StrategiesNext ==
  \/ \E route \in Routes : Route(route) \/ Preview(route)
  \/ \E p \in Providers : Answered(p) \/ \E o \in Observations : Observe(p, o)
  \/ \E set \in SUBSET Providers : SetDisabled(set)

StrategiesSpec == StrategiesInit /\ [][StrategiesNext]_strategiesVars

-----------------------------------------------------------------------------
(* "Every strategy is a total order over the whole pool, never a filter",   *)
(* and a combo without `strict` has a tail: whatever is observed, pinned or *)
(* disabled, the chain of a route has every lane of the pool once.  It is   *)
(* what the retries and the billing of the router rely on.                  *)
EveryLaneOnce ==
  \A route \in Routes, luck \in Lucks :
    LET chain == buildCandidates(route, luck).chain
        lanes == [i \in DOMAIN chain |-> chain[i].provider]
    IN  /\ IsInjective(lanes) /\ Range(lanes) \subseteq pool
        /\ (route[1] = "combo" => ~listCombos[route[2]].strict) => Range(lanes) = pool

(* "Its first appearance is its best one": a lane stands in the first tier  *)
(* that admits it, and behind every lane of an earlier tier.                *)
FirstTierWins ==
  \A name \in DOMAIN listCombos, luck \in Lucks :
    LET tiers == listCombos[name].tiers
        chain == orderByCombo(listCombos[name], luck).chain
    IN  \A i \in DOMAIN chain :
          /\ \A t \in 1 .. chain[i].tier - 1 : ~admits(tiers[t].filter, chain[i].provider)
          /\ \A j \in DOMAIN chain : i < j => chain[i].tier <= chain[j].tier

(* "Rotates the starting point every call.  Even distribution.",            *)
(* strategies.js:143: while the pool stays as it is and neither a preview   *)
(* nor a combo turns the one cursor they share, no lane is first twice more *)
(* often than another, whatever other requests are routed in between.       *)
EvenRotation == \A p \in Providers : firsts[p] <= 1

(* "Nothing leaves the machine; fails rather than falling back",            *)
(* strategies.js:432, of the built-in combo `private`.                      *)
PrivateStaysLocal ==
  \A luck \in Lucks : \A i \in DOMAIN orderByCombo(listCombos.private, luck).chain :
    Profile[orderByCombo(listCombos.private, luck).chain[i].provider].category = "local"
=============================================================================
