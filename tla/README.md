# Tollpike in TLA+

Tollpike is a gateway for AI agents: clients speak to it in the dialects of
OpenAI, Anthropic, Ollama and the Responses API, it routes each request to one of
many providers, keeps the spend under monthly caps, remembers conversations, sits
between agents and their MCP tools, and records what was said and done in a
tamper-evident log. This directory holds TLA+ modules of the parts of it where
order, failure and concurrency decide what is right, the TLC runs that check them
on small instances, and proofs that hold for instances of any size.

Paths below are relative to the repository; the gateway's modules are in
`src/src/`.

## 1. Inventory

The gateway is one Node process: JavaScript runs from one `await` to the next
without interruption, so a function without an `await` is atomic, and requests
interleave at their awaits (the upstream call, a backoff, an embedding, the next
chunk). Other processes share its data directory: the CLI, the hooks of coding
agents, a second gateway. Collectors on other machines post to it.

| component | state | operations | what is hard |
|---|---|---|---|
| Resilience, `routing/resilience.js` | three maps: breaker of a provider, cooldown of a key, lockout of a model | ask a gate, record success or failure, clear, reset | late verdicts, concurrent probes, a probe that never reports |
| Budget, `storage/costTracker.js` | spend by month, reservations in flight | reserve, release, record, reload | concurrent calls at the cap, the end of a month, every exit must release |
| Router, `routing/router.js` | the locals of each request | walk the chain, call, retry, stream, fall back | hang-ups, retries, replaced keys, partial streams |
| Strategies and combos, `routing/strategies.js` | a cursor, a sticky pin | order the pool, flatten a combo | lanes lost or repeated, a cursor with several users |
| Usage ledger, `storage/costTracker.js` | `usage.jsonl`, `usage.head`, the aggregates | append, anchor, load, verify, seal | crashes between file operations, torn lines, a second process |
| Audit log, `audit/log.js` | `audit.jsonl`, its anchor, a lock file, a cached head per process | append, verify | processes that die holding the lock, stale heads, appends without the lock |
| Audit layer, `audit/index.js`, `audit/rules.js` | windows of failed authentication, the review queue | record, coalesce, review | bounded windows, appends that fail, reopened reviews |
| Response cache, `storage/responseCache.js` | a Map of 500 answers | get, set, clear | two answers to one question, the limit |
| Rate limiter, `middleware/rateLimit.js` | token buckets of up to 10,000 clients | take, configure, reset | eviction, rounding, new limits under old buckets |
| Quota tracker, `storage/quotaTracker.js` | events of a minute and a day per pool, flushed 2 s late | record, status, reset | crash before a flush, a flush that fails, the vendor's day |
| Settings, credentials, agents (`storage/settings.js`, `security/credentialStore.js`, `audit/agents.js`) | encrypted JSON, `.env` files | read, patch, set, clear, revoke | a secret that is not there at this boot, two writers, several files that assign one variable |
| Access, `middleware/*`, `server.js` | one-time panel codes | judge a request | three kinds of key, four surfaces, files another process writes |
| Serving, `server.js`, `security/*` | none of its own but the caches above | recall, compress, guard, route, remember | the order of the rewrites, whose words they are |
| Adapters and dialects, `providers/*`, `inbound/*` | which call a fragment belongs to, which block is open | translate requests, replies, streams | interleaved fragments, parallel calls, ids that some formats lack |
| Compression, `compression/*` | none | window, layers | a window that begins in a tool exchange |
| Memory, `memory/*` | rows in SQLite or a file, vectors in Qdrant | ingest, recall, forget, sync | rows and vectors drifting apart, a forget during an embedding |
| MCP server, `mcp/*` | SSE sessions and the mode of each | 32 scopes of tools | keys replaced under an open stream |
| A2A server, `a2a/*` | the last 500 tasks | send, get, cancel, in batches | a bounded map filled while a batch runs |
| MCP proxy and hooks, `audit/mcpProxy.js`, `audit/hooks.js` | connections, routes | connect, call, swap | late answers, failed appends, two connects at once |
| Embedded services, `services/embedded.js` | child processes | start, stop, exit | exit events that come late, a gateway that dies |
| Vendor pull, `audit/vendors/*` | a cursor and a window of seen ids per vendor | pull, page by page | crash between recording and saving, page limits |
| Collector and correlation, `audit/endpoint/*` | a bookmark; a table of processes | follow, send; match | rotation, half-written lines, reused pids |
| GRC export, `audit/grc/*` | a token; what the platform holds | push, one request after another | lost replies, sessions left open |
| Knowledge sources, gamification, cloud agents, panel, CLI screens, scripts, proxy and TLS setup | none that others read | fetch, render | not modelled, see section 6 |

How they interact. A request passes the host, cross-site and path-token guards,
the keys and the rate limiter; its memories are recalled, it is compressed and
scanned; the cache is asked; on a miss Strategies gives a chain, and for each lane
the router asks Resilience and Budget whether to try it, holds an estimate, and
calls an adapter. The verdict goes to Resilience, the cost to the ledger, which is
also the committed spend of Budget, an event to the audit log, and what was said to
memory. The panel, the MCP tools and the CLI change the same state from the side:
credentials, resets, `usage.reload`, previews, limits, agents, settings.

`PROJECT.json` lists every component with its status, and every hazard with the
line where it bites and the properties that watch it.

## 2. Modules

| module | models | state, and what stands for what |
|---|---|---|
| `Registry` | providers, positional connections, lanes | constants |
| `Resilience` | `resilience.js` | `breaker`, `cooling`, `locked`. A timestamp is the number of ticks for which the code still answers "no": only that is ever asked of it |
| `ProbeWindow` | abstract: what the breaker promises, at most one probe per cooldown | `down`, `quiet`, `probes` |
| `ResilienceSpec` | Resilience under any use | plus the histories `probes` and `outages` |
| `Budget`, `BudgetSpec` | reservations and caps, and any set of concurrent calls | `month`, `committed`, `reserved`, and `hold`, what each release closure would give back |
| `Router` | both walks of `router.js`, on top of Resilience and Budget | `req[r]` holds a request's locals; a step is what runs between two awaits |
| `Strategies` | the orderings and combos | `cursor`, `pinned`, and what is observed of each provider |
| `UsageLedger` | ledger, anchor, gateway, sealing process | a seal is the sequence of rows it commits to: hashing is injective. A line that cannot be parsed is `Junk` |
| `AuditLog` | `appendEvent` in several processes | each file operation is a step; `cache[p]` is the module variable `state` of process p |
| `Reviews` | `audit/index.js` | `auditEvents`, the windows of `authFailures`; a flagged event and those that review it |
| `ResponseCache` | the Map, and requests around it | the Map is the sequence of its keys in insertion order |
| `RateLimit` | the buckets | a token is `COST` units, time is ticks |
| `Quota` | `quotaTracker.js` | `events` of each pool, `quotaFile`, what a crash or a failed write may forget (`asked`) |
| `Settings`, `Agents`, `Access` | who may do what: the settings file under several secrets, the agents file of two writers, the decisions made from both | `doc`, `agentsFile` as they are on disk; a key is its number |
| `Credentials` | `.env` files and the running process | each file is the sequence of its lines |
| `Serving` | `prepare` and the four dialects around recall, compression, guardrails, cache, router | words are of four kinds; a message carries who said it, which no code reads |
| `Memory` | both backends, three modes of recall, the sync of vectors | ids in use and their rows; a vector remembers the session it was stored under |
| `Compression` | the window and what each message gets | a message is its role and its place |
| `Conversations` | requests of four dialects on their way to three kinds of provider | calls and texts are numbered as they were made |
| `Streams` | the streaming adapters and encoders; what a client of each dialect makes of the events | a piece of text is its position in what the provider said |
| `McpTools` | both HTTP transports and the tools of every scope | a tool is its marks, what it changes and what it shows |
| `A2A` | JSON-RPC batches over the map of tasks | `tasks`, and `finished`, all that ever ended |
| `Capture` | the MCP proxy (`ProxyNext`) and hooks (`HookNext`) | `hubs`, `conns`, and what the record says of each call |
| `Embedded` | child processes | `running` is the map, `children` is what the machine runs |
| `VendorPull` | the pull, with the shape of nine connectors | `saved` on disk, `log`, and the `fate` of each record |
| `Collector`, `Correlation` | log followers; the process table | `follower`, `bookmark`; `table`, and the processes there really are |
| `Grc` | the pushes to Vanta and Drata | `push`, the requests left; `remote`, what the platform holds |
| `MC*` | instances for TLC | |
| `BudgetLemmas`, `*Proofs` | theorems and their lemmas, section 4 | |

`Router` composes `Resilience` and `Budget` by EXTENDS: their operators are the
calls the router makes. `ProbeWindow` is instantiated twice, by `ResilienceSpec`
and by `Router`. `Access` composes `Settings` and `Agents`. `Serving` takes over
what `Memory`, `ResponseCache` and `Router` promise: it recalls any memories of
the session, may lose a cache entry at any time, and a routed request is answered
or fails.

`MCRequest`, `MCFront` and `MCKeepers` each check several modules in one run. Their
variable `part` is chosen at the start: a behaviour is of one part, the others stay
as they began, pinned to one initial value where nobody reads them. Parts of one
run share no state in the program either, so nothing is lost but interleavings that
no property can see.

Operators introduced by a comment `Mutant:` are not part of the model. Each is a
plausible bug in the definition that follows it, and for each property there is one
that breaks it.

`trusted`, in the two file modules, is a set of assumptions on the environment,
chosen at the start and constant: `Trusts` lists the sets a run covers. A property
that needs an assumption says so; one run then shows both what holds with it and
what holds without. In `UsageLedger` the assumptions are that appends are whole,
that the gateway is stopped during a seal, that the seal finishes, that nobody
deletes rows; in `AuditLog`, that a holder of the lock is quick, that a stale lock is
removed by one process at a time, and that nobody gives up waiting. Elsewhere what
may go wrong is remembered by a history variable (`excuses`, `excused`, `lost`) at
the step where it does, and a property excuses exactly that.

## 3. Runs

| run | shows | instance | distinct states |
|---|---|---|---|
| `resilience` | the breaker is open exactly after enough outages since the last success, whatever late verdicts arrive (`OpenExactlyOnOutages`); it implements `ProbeWindow` (`OneProbePerWindow`); a provider that stays down is probed again and again, also after a probe that never reports (`ProbedAgain`) | 2 providers, 1 key, 1 model, threshold 3, cooldowns of 1 and 2 ticks | 46,656 |
| `budget` | no estimate outlives its call (`HeldAsPromised`); the overshoot of the cap is bounded (`CapHolds`) | 3 calls, 1 provider, 2 months, estimates to 2, costs to 3, reload at any time | 128,322 |
| `router_walk` | a client that left harms no lane, and probes stay bounded (`BlamesAndProbes`) | 2 requests, 2 lanes, threshold 2, 1 retry, an outage or a refused key, buffered | 361,740 |
| `router_ends` | through every exit: exact holds (`EstimatesFollowCalls`), one lane's success, billed once and to that lane (`BilledOnce`), ends (`EveryRequestEnds`) | 1 request, threshold 1, six verdicts, buffered and streamed, both caps, 2 months | 119,940 |
| `audit_log` | with trust: one writer, breaks only at torn lines, nothing durable lost (`LockKeepsTheLog`); without: nothing lost silently (`NoSilentLoss`); appends end (`AppendEnds`) | 2 processes, 3 events | 341,254 |
| `request` | the chain has every lane once, first tier first (`ChainsInOrder`), with even rotation (`EvenRotation`); a compressed conversation still makes sense (`ConversationMakesSense`); a translated one loses nothing and is one the provider accepts (`RequestKept`, `EveryCallAnswered`); a stream keeps to its protocol and says what the buffered reply would (`ProtocolKept`, `StreamedIsBuffered`) | 3 lanes, 12 strategies, 8 combos; 5 turns, 2 function names; 6 messages; 5 pieces from 3 kinds of provider to 4 dialects | 229,262 |
| `front` | what is granted, cached, saved, let in, sent, recalled, changed and answered: the limiter (`BurstBounded`, `RetryAfterIsEnough`), the cache (`OrderIsRecency`), the files (`SavedSurvives`, `KeyOutlivesTheProcess`), access (`LetIn`), the pipeline (`SentAsGuarded`, `OwnWordsOnly`), memory (`RecallIsOwn`), MCP (`ReadOnlyIsSo`), A2A (`AnsweredIsFound`), quotas (`UsedIsAsked`) | 3 clients for 2 buckets, a capacity below a token among the configurations; 3 requests, 3 questions, 2 entries; 2 secrets, 2 keys, 2 agents, 2 codes; 3 lines in each file; 2 users; 2 memories; 1 stream, 1 rotation; 2 batches of 2 over 2 remembered tasks; 3 free calls in 5 ticks | 619,386 up to the names of users and sessions |
| `keepers` | what is kept beside the requests: the ledger (`LedgerAgrees`, `TearCostsOneMore`), vendor records (`NothingSkippedSilently`), pushes (`PushIsWhatWasRecorded`), captured calls (`RecordedIsTrue`), children (`NoHiddenChild`), lines of a log (`LeftBehindArrived`), explanations (`ExplanationsAreEarned`), reviews (`NothingFlaggedIsLost`) | 4 rows; 3 records, pages of 1, window of 2; 3 pushes; 2 proxied calls and 2 hooks; 3 children, 2 gateways; 2 restarts and 1 rotation; 4 processes of 4 pids, 2 commands of which 1 is reported, 3 places in the table, walks of 2; 3 events, 3 refusals of each source, so that one carries a count | 1,612,426 |
| `router_fresh_key` | violated: a late 401 of the old key benches the new one | 1 request, 1 key | |
| `strategies_private` | violated: `private` falls back to remote lanes | as in `request` | |
| `proxy_spawn` | violated: two early calls spawn one server twice | 2 calls, 1 hub | |
| `sse_rotation` | violated: a stream opened with a key outlives the key's replacement | 1 stream, 1 rotation | |

Bounds. Two providers are enough for a chain with a fallback, which is where hold,
health and billing meet; every lane after the second repeats it. Two requests are
enough for a late verdict of one to meet the probe of the other: each history the
properties speak of relates one provider to one or two calls. Cooldowns of one or
two ticks let a period end before, between and after any two steps. Three rows or
events allow a torn line, a row glued to it, and a row after that; two processes
are enough for each of them to hold, wait for, take over and lose the lock. Three
clients compete for two buckets, three requests for two entries, three tasks for
two places, two sources for one window, so that each table is full and still
asked. Three records in pages of one reach past a window of two ids and a limit of
two pages. Of four processes one may have the pid of another that ended, or all may
live, of which a table of three evicts one; a walk of two places has an ancestor between
a runtime and the process that is judged. Five pieces hold two
interleaved calls with text around them; five turns hold parallel calls, their
results in either order and a later turn. Two secrets, keys, agents or codes are
what a replacement needs; a second of each is also what makes a mix-up visible. Three
refusals of one source in two minutes are one that opens a window, one that is only
counted, and one whose event carries the count. `front` is checked up to a renaming of
users, and of the sessions of memory: no definition tells one of them from another.

Type invariants are conjuncts of a property of the same module (`HeldAsPromised`,
`EstimatesFollowCalls`, `LockKeepsTheLog`) or of the invariants proved in section 4
(`BreakerCorrect`, `BurstHolds`, `TasksInv`).

Deadlock is not checked where the bounds stop a model; in `resilience`,
`router_walk` and `router_ends` TLC checks it.

Fairness. `resilience`: time passes, and the gate is asked now and then (there are
requests); nothing is assumed of their outcome. `router_ends`: a call answers,
fails or is aborted, which `REQUEST_TIMEOUT_MS` and the stall timeout of
`providers/http.js` enforce, except for a stream that keeps sending chunks for
ever: that it ends is assumed of the provider. A backoff's timer fires.
`audit_log`: a process that lives runs on, and time passes, so a lock file grows
old; nothing forces a crash or a give-up. The other runs state safety only.

## 4. Proofs

All of them are safety properties, for every value of the constants. A run checks
the same property on a small instance, and TLC was asked about every inductive
invariant before it was proved. `BudgetLemmas` holds what several modules need of
sums and finite sets; each other module has a section per component.

**Routing and spend** (`ResilienceProofs`, `BudgetProofs`, `RouterProofs`)

* `BreakerCorrect`: types, and `OpenExactlyOnOutages`. The inductive invariant adds
  `CountsOutages`: the breaker's counter is the number of outages since the last
  success, as far as the threshold. Without it the step in which the counter
  reaches the threshold cannot be judged.
* `GateKeepsWindow`: every step of `ResilienceSpec` is a step of `ProbeWindow` or
  leaves it unchanged, provider by provider.
* `HoldsAreReleased`, `BudgetSafe`: `HeldAsPromised` and `CapHolds`. `reserved` is a sum
  over the calls in flight. Each unit of an estimate is an element (`HeldUnits`), so
  that the sum is a cardinality and the lemmas on adding and removing a call's units
  are about finite sets. `CapKept` needs that sum to be exact and `NothingAhead`, that
  a month which has not begun is empty; after a `usage.reload` only the first half of
  `HeldAsPromised` is left.
* `QuotaIsWhatWasAsked`: `UsedIsAsked`, for any tiers, resets and durations. The lists of a
  pool hold the numbers of its calls (`Listed`), so that a count is a cardinality and a sum
  of tokens the cardinality of `Units`. The invariant says of a call the process may not
  forget that it is in the lists, and in the file, or that a timer is due before it would
  have to be (`QuotaInv`); `DayIsADay` is why pruning by the day drops nothing a vendor's
  own day still counts.
* `HoldsFollowCalls`, `AnswersBilledOnce`: `EstimatesFollowCalls` and `BilledOnce`. The
  history `books` lists, for each request, the lanes whose success was recorded and the
  lanes its usage was recorded for; that a stream which is under way is of the lane
  whose success was recorded is part of the invariant (`WalksOn`). A
  step of the router is a walk along a chain to the first lane it may call, which is
  the least of a set of places. The invariant is stated request by request (`Fits`),
  so that a walk of one leaves the others' part alone.
* `BlameAndProbesInTurn`: `BlamesAndProbes`, an action property. Each provider's
  projection of a step is a step of `ProbeWindow` or a stutter; `WaitsWhenDown` is
  what it needs of the breaker.

**The audit log, and the vendors' logs pulled into it** (`AuditLogProofs`)

* `LockSafe`: `LockKeepsTheLog`, for any number of processes that may die at any
  step. The invariant is `Locked` (who holds the lock, who may be past the look at
  it, and that a stale lock is a dead process's) with `Chained` (the chain of the
  file is the one the writer's cached head continues when it appends, and the anchor
  never contradicts the file). The head before a line is the last of the parsable
  lines before it; that a finite set of lines has a last is kept as a part of the
  invariant (`AllTopped`).
* `LossIsNeverSilent`: `NoSilentLoss`, with no trust at all. A torn line is never
  removed, so that a file that verifies never had two rows glued (`Whole`), and every
  event that was said to be written is still a line of it.
* `NothingIsSkipped`: `NothingSkippedSilently`, for every connector and any number of pages,
  failed appends and cuts. `VendorInv` says of the saved cursor, and of the place a pull has
  reached, that what lies behind was dealt with (`Covered`, `Progress`), and that a record
  added now lies before it (`Past`). One lemma per order of reading moves the place
  (`NewestStep`, `OldestStep`, `WindowStep`); `CursorCovers`, `TailCovers` and `SkipCovers`
  are the three ways in which the cursor moves. `Once` is why nothing is recorded twice
  while the seen window holds it. `inTurn` lists a set by counting what comes before
  each of its elements, and `InTurnIs` shows that it leaves none out.

**Requests and their doors** (`FrontProofs`)

* `BurstHolds`: `BurstBounded`, from `LevelAccounts`: what a bucket has and what was
  taken from it beyond the refill never exceed the capacity.
* `RetryHolds`: `RetryAfterIsEnough`, for every configuration. The invariant is `Waited`:
  what a bucket has, and the refill of the ticks its client was told to wait and has not
  yet waited, make up a token, or the whole of a bucket too small for one. A refusal
  establishes it because the wait is rounded up (`DivUp`); a tick keeps it, also when
  the bucket is full; a client that is evicted is no longer waiting.
* `SavesAreKept`: `SavedSurvives`. An update that nobody overtook still holds what the
  file says as far as its process can read it (`UpdatesSound`), also after that process
  was restarted with another secret, for a restart has no update under way. Lemma
  `EncodeFields`: what cannot be read is written back as it was, unless the save is
  about it.
* `FrontLetsIn`: `LetIn`, from `SettingsInv`, `AgentsInv` (the agents file is a roster of
  keys that were issued, and so is what each writer has read of it) and `CodesInv` (a
  code that was traded is gone, and none is older than its minute).
* `SentIsGuarded`, `WordsStayApart`: `SentAsGuarded` and `OwnWordsOnly`. The invariant
  says whose the words are before they are prepared and after, and that what outlives
  a request keeps it so: a row of the memory is in a session of the one who said it
  (`RowsOwned`), an entry of the cache answers what its key asks (`CacheOwned`). The
  lemma `PreparedIsGuarded` is the order of the passes: the scanner reads what the
  others leave.
* `RecallsStayOwn`: `RecallIsOwn`, an action property. `RecallSound` says what each
  recall has collected at each of its awaits; `IdsAreForEver`, that the database never
  gives an id a second time, is why a stale vector shows nobody else's row.
* `EvictsTheLeastRecent`: `OrderIsRecency`. It is inductive with the types alone, but
  each step moves an entry within a sequence: lemmas say what removal and insertion
  do to the order.
* `SavedKeysOutlive`: `KeyOutlivesTheProcess`. The invariant is `FileHolds`: what was
  chosen is assigned in the protected file, and nothing is after a clear.
* `ToolsGuarded`: `ReadOnlyIsSo`. Every tool that changes something or shows what is
  not everybody's carries a mark (`AllMarked`, by the list of tools); `StreamsEntitled`
  says that a stream that may write was opened by a holder of the operator key in a
  gateway that is not read-only.
* `AnswersAreFound`: `AnsweredIsFound`. The invariant is `StoreIsEnd`: the store is the
  end of the list of all finished tasks, all of it or the last `MAX_TASKS`, and every
  answer that names a task names one that has finished.

**Chains, conversations and streams** (`RequestProofs`)

* `ChainsKeepOrder`: `ChainsInOrder`, which is a fact about `buildCandidates` in any
  state. An order is a relation, and `inOrder` lists a set by a total one: lemmas show
  that each strategy's is linear, that a rotated one is too, and that every place in
  the list is some lane's (`StrategyOrders`, `RotateOrders`, `InOrderIs`). `IsChain` is
  what a chain is after each tier; the tier at which it would first fail to be one is
  the least of its kind, and there is none.
* `RotationIsEven`: `EvenRotation`. That no lane is ahead by two is not inductive: which
  lane is ahead matters. `FairFirsts` says that the lanes one turn ahead are the last
  k ranks up to the cursor, counted around the end, so the next is one of the others.
* `ForgettingMakesSense`: `ConversationMakesSense`. The invariant (`WellSaid`) is of the
  conversation: the system's messages are first and a result follows its call or
  another result. A window that begins on no result then keeps each with its call.
* `StreamsKeepProtocol`, `StreamsTellAll`: `ProtocolKept` and `StreamedIsBuffered`, for
  replies of any length, any adapter and any dialect. The invariant (`StreamInv`)
  compares the encoder with what was said: `Encodes` says for each dialect which pieces
  of text and which arguments of each call the client has by now, under which key the
  encoder keeps each call, and, as long as the provider says one thing at a time, that the
  block or item of the last call is the one open. It needs `Indexed`: the adapter's index counts
  the calls begun, so a key names one call. A lemma per encoder and kind of delta keeps
  `Encodes` (`AnthropicOnCall`, `ResponsesOnArgs`, ...), independently of the provider;
  those about providers (`AnthropicGoesOn`, ...) say which deltas a step is. The end of a
  Responses stream, which closes the items in turn, is a recursive function: that it
  exists and what its last value is comes from the one item that was open (`ClosingsAre`).

**Records** (`KeepersProofs`)

* `LedgerVerifies`: `LedgerAgrees`. `FileChained`: the file is rows without a seal and
  then rows that each seal the one before, and the gateway's head and count are those
  of its end. `AnchorNames`: the anchor names a row of it, but between the two steps of
  a seal. `SealerAlone`: what the sealer read is what the file still is.
* `TearCostsTwoRows`: `TearCostsOneMore`. A line left open is of a row nobody was told of,
  and so was the last row recorded (`LastIsSpare`).
* `ChildrenAreKnown`: `NoHiddenChild`, for any profile. A start of a profile is a
  recursive function of the place in it (`Started`); that it keeps `Tended` is shown by
  the least place at which it would not.
* `PushedAsRecorded`: `PushIsWhatWasRecorded`. The invariant relates what the platform
  holds to the place a push has reached in its requests (`Pushing`), and says who may
  have left a session open (`Sessions`).
* `RecordHolds`: `RecordedIsTrue`. `CallOk` says for every point a call may be at what must
  be on record by then, whether it may have run, and what the agent may have got.
* `NothingIsPassedOver`: `LeftBehindArrived`. Both positions, the follower's and the
  bookmark's, have only delivered or excused lines behind them (`Behind`), also in a
  file that was rotated away, for it may be what the bookmark still names.
* `NothingFlaggedGoesMissing`: `NothingFlaggedIsLost`. The counts of an event are settled by
  the event after it, so the sum over a log is a recursive function (`Total`); lemmas say
  what appending to the log, and closing a window, do to it.

* `ExplanationsEarned`: `ExplanationsAreEarned`. The walk (`walk`) is of rows of a table; what a
  process comes from is a set of processes (`Lineage`), which holds whatever the walk
  meets as long as no pid on it was given away. `Stored` relates each row to the process
  it was made from, also after a snapshot took one process for another of the same image
  and parent. That a walk of any depth exists and follows the table is by the least place
  at which it would not (`ClimbIs`).

The argument that stands for induction over data is always the same one: a set of
numbers that is not empty has a least element (`WFMin` with `NatLessThanWellFounded`),
so a recursive function that departs from a predicate does so at a least place. It
asks for functions (`Total`, `Started`, `Tiered`) where one
might declare an operator RECURSIVE.

Assumptions are those named in the modules, which TLC evaluates: positive
thresholds, durations and limits in Nat, finitely many calls for the sums of
Budget, names that tell providers apart, connectors of the nine shapes.

Only model-checked:

* Liveness (`ProbedAgain`, `EveryRequestEnds`, `AppendEnds`).
* `EveryCallAnswered`, `RequestKept`: the translations of `Conversations` are folds over
  filtered sequences; what they make of every input needs them restated as functions
  first.

## 5. Where code and words differ

Shown by a run:

1. `strategies_private`: `BUILTIN_COMBOS.private` has no `strict`, so every remote lane
   is appended behind the local ones. `strategies.js:432`: "Nothing leaves the machine;
   fails rather than falling back".
2. `router_fresh_key`: connection ids are positions, so the rejection of the old key,
   arriving after the change, cools the new one down. `server.js:1344`: "A new
   credential must not inherit the rejected one's cooldown."
3. `proxy_spawn`: the hub looks for a connection before it awaits one and enters it
   after. `mcpProxy.js:112`: "a stdio server is spawned once, not once per request".
   The first connection's process is orphaned, and its close deletes the entry of the
   second.
4. `sse_rotation`: the mode of a stream is the one of its opening.
   `mcp/server.js:94`: it "takes effect the moment that state changes".

Stated in a module, and violated when its line is added to the `INVARIANTS` of the
run that has its module:

* `DeletionStaysReported` (`UsageLedger`, `keepers`): the anchor is rewritten from what was
  counted at boot, so a deletion of the last rows is forgotten after a restart and
  one request. `README.md:1039`: it "is caught as well".
* `ClosedMeansRecorded` (`Capture`, `keepers`): a hook that fails closed lets a call run
  though the append of its event failed (`tollpike.mjs:624`).
* `RestartIsExact` (`Collector`, `keepers`): the offset counts decoded bytes, so lines that
  are not UTF-8 make it run ahead, and lines whose acceptance was lost with the
  process come twice (`collect.js:243`: "neither resends nor skips").
* `NeverAStrangers` (`Correlation`, `keepers` with 4 pids, 5 processes and 5 places in the
  table): the walk from a process goes by pids. A helper outlives its runtime, whose pid
  goes to a process that an action explains, and what the helper starts is recorded as
  explained by that action. `correlate.js:98`: "keeping its explanation would hand it to
  a stranger".
* `RoleChangesRecorded` (`VendorPull`, `keepers`): a role change whose append failed is
  not reported again (`connectors/anthropic.js:121`).
* `RecallIsTold` (`Serving`, `front`): `X-Tollpike-Memory-Recalled` is set by the buffered,
  uncached chat route only; `memory/index.js:12` says "whenever anything was injected".

Met while modelling, by component.

Routing and spend.

* A probe is granted by `isProviderAvailable` before the lane's other skip conditions
  are asked, so a granted probe need not be sent (`router.js:144`); the next one
  waits for a cooldown. `canServe`, which listings use, says yes to HALF_OPEN when the
  gate says no.
* The cap is exceeded by a call admitted in an earlier month, by a cost above its
  estimate, and after a `usage.reload`, which `CapHolds` states.
* A consumer that closed the router's generator at the first yield would leave its
  estimate held (`router.js:396`); no consumer does.
* `sortBy` subtracts Infinity from Infinity for two unmeasured lanes: their order is
  that of the file, not the tiebreak `strategies.js:104` promises. `least-errors` puts a
  provider nothing is known of first, where `strategies.js:26` says unknown sorts last.
  A preview moves the round-robin cursor.
* `configure` of the rate limiter accepts a capacity below one token, with which it
  does "reject every request forever" (`rateLimit.js:23`), and no Retry-After it sends is
  true: all that `RetryAfterIsEnough` can say there is that the bucket is full by then.
* When two requests asked the same question, the second answer does not move the
  entry to the end (`responseCache.js:83`): `raced` in `OrderIsRecency`.

Files.

* A torn write costs the row after it too (`TearCostsOneMore`), not "one row of
  history" (`costTracker.js:112`).
* `verify --seal` beside a running gateway makes the gateway seal against a head that
  is no longer there, and verification reports damage nobody did; the properties of
  the ledger are conditional on "gateway stopped".
* Two processes that find the same stale lock can both hold it (`audit/log.js:185`).
* `flushQuota` is not called at shutdown; a failed quota write is retried only when
  something else is recorded, and a reset whose write failed is undone by a restart.
* Two processes that read, change and write the settings or the agents file may undo
  a save or a revocation. A corrupt or deleted settings file reads as defaults. With a
  garbled agents file agents' keys are refused, and a key is still asked for.
* `setCredential` replaces the first assignment of a variable, a boot takes the last;
  quotes and backslashes are escaped and not unescaped by the reader;
  `clearCredential` leaves the project's own value to come back at a restart.

Translation.

* A Messages client's `tool_choice` of type "none" is dropped
  (`anthropicInbound.js:88`), though `anthropicTranslate.js:89` has a case for it.
* `toResponsesResponse` always says "completed", the stream says "incomplete" when the
  reply was cut off. Gemini's MAX_TOKENS with tool calls reads "tool_calls"
  (`geminiTranslate.js:153`).
* Fragments of two calls that come interleaved are sent to blocks that are closed:
  `ProtocolKept` needs a provider that says one thing at a time. Text blocks are joined
  with a newline when buffered, with nothing when streamed.
* The text of a Responses client after its calls parts the calls from their results.
  Gemini's call ids repeat from one reply to the next (`geminiTranslate.js:126`), and
  its events emit texts before calls.

Serving, memory, compression.

* The settings in `prepare` are read before the await of the recall. Streams and cache
  hits are not ingested. The panel's tests (`server.js:889`, `server.js:1616`) route without guardrails. The
  A2A card says "compression applied" (`skills.js:28`); it is not. Recalled text is
  scanned before compression.
* The file backend gives a forgotten id out again after a restart, so that a stale
  vector may show a memory of another session: the session half of `RecallIsOwn` is
  claimed for SQLite. A vector whose row is forgotten during a sync is stored under
  the default session. Mode "vector" uses the first list only; keyword hits that are
  forgotten during the embedding are still shown; `dropCollection` has no caller.
* Compression says the newest user turn gets the base pass only; RTK runs on it, and
  caveman does when it is not the last message. A window of tool results only leaves
  just the task. System messages move to the front.

MCP and A2A.

* `models_resolve`, `routing_preview` and `routing_order_by_strategy` turn the round-robin
  cursor though unmarked; `memory_recall` may call a paid embedding provider, and creates the
  collection in Qdrant when there is none (`vector.js:92`). `ReadOnlyIsSo` excuses the
  cursor and the empty collection by name (`Harmless`).
* The proxy leaks the connection of a hub that is replaced while it connects. Rules
  read the first 64 KB only. A hook that fails open lets a call run whose answer came
  late. The task state "canceled" is not reachable.

Embedded services and the audit layer.

* SIGINT stops everything twice (`embedded.js:301` says once). An error of `kill` marks a
  living child as ended. `stopAll` sends SIGTERM only.
* Reviews answer `ok: true` when the append failed. Failed authentication counted in the
  last window is never reported, and an evicted window loses its count.
* A vendor record whose append failed is not marked as seen, but the cursor moves past
  it (`vendors/index.js:86`). Records fetched while auditing is off are marked as seen and
  never recorded. The instant at the edge of a window of Microsoft's chats is skipped. A first
  pull that fails for over a day loses what is older. Repeated identical Admin changes
  share an id; connectors that exclude their cursor assume distinct instants; the
  event of a gap may itself fail to append.
* GRC: a POST whose reply was lost may make a second item of evidence; a session left
  IN_PROGRESS keeps later pushes out.
* Collector: the first position is bookmarked only with the first accepted batch; a line
  over 4 MB without an end never moves on; rotation drops unread lines; with auditing
  off the gateway answers `ok: true`, so the bookmark moves.
* Correlation: with auditing off events are dropped and the table keeps stale entries;
  `networkSeen` and the heartbeat move on though the append failed.

## 6. What the modules leave out

Within the modelled parts: `Router` has no `disabledProviders`, no audit rows and no
sticky pin; its chains are a constant, any that `buildCandidates` can return, and
`Strategies` shows that none has a lane twice. `RateLimit` counts a window from the
bucket's creation or the last `configure`: a client evicted from the table starts with
a full bucket, as in the code. `Strategies` covers 12 of the 19 strategies and 6 of the 8
built-in combos: those that weigh several measures order lanes by a number the model
would have to make up. Nobody in `AuditLog` forges an anchor. `Serving` has the setting
`crossSession` off, which `Memory` has both ways. `Collector` has no file truncated in
place; `Correlation` has auditing on, no rules for helper processes, and evicts the first
row of no runtime wherever it is (the code looks at 1,000 rows); `Memory` has no failing writes of the fallback's file. Which text a rule, a
pattern or a search matches is nondeterministic everywhere.

Not modelled: knowledge sources (read-only fetchers), gamification (counters for
display), cloud agents (a client of vendor APIs), proxy and TLS setup, the parsers of
sensor formats, PDF and reports, the panel and the CLI's screens, maintenance
scripts. None of them keeps state another part reads, and what they do is format.

## 7. Plan

Done, in this order: Resilience, Budget, Router; the two logs; cache, limiter,
strategies; streams and conversations; settings, agents, access, credentials; quota,
vendor pulls, pushes, capture, services, collector, correlation, reviews; serving,
memory, compression, MCP and A2A; the proofs of section 4.

Next:

1. Theorems on `Conversations`, with its folds as functions.
2. `Router` with quota use, `disabledProviders` and the sticky pin, which would join it to
   `Quota` and `Strategies`.
3. `Serving` with `Memory` in place of its own rows, for the forget that races a recall.
