------------------------------- MODULE Serving -------------------------------
(***************************************************************************)
(* What happens to the words of a request between the client and the        *)
(* provider (server.js, prepare and the four dialects; the agents' way in,   *)
(* policy.js): recall, compression, guardrails, cache, routing, and what is  *)
(* remembered of it.  The recall itself is Memory's, the cache's order and   *)
(* lifetimes are ResponseCache's, the routing is Router's: here a recall     *)
(* finds any memories of the session, an entry may leave the cache at any    *)
(* time, and a routed request is answered or fails.                          *)
(*                                                                          *)
(* The words of a message are one of four kinds, told apart by what the      *)
(* pipeline does to them.  Every message carries who said it: no code reads  *)
(* that, the properties do.  Recall stays in its session here; the setting    *)
(* crossSession, which is there to leave it, is Memory's.                     *)
(***************************************************************************)
EXTENDS Integers, FiniteSets

CONSTANTS
  Said,           \* bound: the kinds of words said
  Policies,       \* bound: the settings met, a subset of AllPolicies
  Users,        \* callers, as the gateway key tells them apart
  Partitions,     \* what X-Tollpike-Session may name
  Unnamed,        \* no such header
  Served,         \* requests
  MaxSwitches,    \* bound: changes of the settings
  MaxRows,        \* bound: memories
  MaxCached       \* bound: entries of the cache (an entry may leave at any time)

VARIABLES
  policy,         \* the settings the pipeline reads
  rows,           \* the memory: who said what in which session
  cached,         \* the response cache
  served,         \* the requests and how far each one is
  switches        \* changes of the settings so far

servingVars == <<policy, rows, cached, served, switches>>

\* Plain words; personal data; words that become an injection once their
\* prose is stripped; an injection.
Words == {"plain", "personal", "latent", "injection"}

AllPolicies == [memory : BOOLEAN, compress : BOOLEAN, redact : BOOLEAN, block : BOOLEAN]

\* The four dialects, the same but for what they tell their client: that words
\* were recalled, and that a stream was cut short.
chat      == [recall |-> TRUE,  cut |-> TRUE]
messages  == [recall |-> FALSE, cut |-> FALSE]
responses == [recall |-> FALSE, cut |-> FALSE]
ollama    == [recall |-> FALSE, cut |-> FALSE]
Dialects  == {chat, messages, responses, ollama}

ASSUME ServingAssumption == Said \subseteq Words /\ Policies \subseteq AllPolicies

Unserved == [at |-> "idle"]

\* MCP and A2A.
NoDialect == [recall |-> FALSE, cut |-> TRUE]

ServingInit ==
  /\ policy \in Policies
  /\ rows = {} /\ cached = {} /\ switches = 0
  /\ served = [r \in Served |-> Unserved]

-----------------------------------------------------------------------------
\* Whose memory a request reads and writes: a named session lies inside the
\* caller's own.
(* Mutant: the header replaces the caller. *)
sessionNamed(client, partition) ==
  IF partition = Unnamed THEN <<client, Unnamed>> ELSE <<Unnamed, partition>>
sessionOf(client, partition) == <<client, partition>>

\* hydrate: recalled words become a system message; what the scanner finds in
\* them stays out.
recallable(session) == {[role |-> "system", words |-> m.words, by |-> m.by] :
                          m \in {n \in rows : n.session = session /\ n.words # "injection"}}

\* The lossy pass leaves system messages alone.
compressed(m) == IF m.role # "system" /\ m.words = "latent" THEN [m EXCEPT !.words = "injection"] ELSE m

\* applyGuardrails: redaction reads every message, the scanner only those that
\* are not the operator's.
redacted(m) == IF m.words = "personal" THEN [m EXCEPT !.words = "redacted"] ELSE m
findings(all) == {m \in all : m.role # "system" /\ m.words = "injection"}

\* prepare: compression first, so that the scanner sees what will be sent.
(* Mutant: the guardrails look at the words as the client sent them. *)
guardedFirst(all, p) ==
  LET safe == IF p.redact THEN {redacted(m) : m \in all} ELSE all
      sent == IF p.compress THEN {compressed(m) : m \in safe} ELSE safe
  IN [sent |-> sent, blocked |-> p.block /\ findings(all) # {}]
prepared(all, p) ==
  LET short == IF p.compress THEN {compressed(m) : m \in all} ELSE all
      sent  == IF p.redact THEN {redacted(m) : m \in short} ELSE short
  IN [sent |-> sent, blocked |-> p.block /\ findings(sent) # {}]

cacheKey(client, sent) == <<client, sent>>
hit(key) == {e \in cached : e.key = key}

-----------------------------------------------------------------------------
\* A request arrives; the settings are read once, before the recall is
\* awaited.  A client may ask for no compression and for no caching.
Arrive(r) ==
  /\ served[r].at = "idle"
  /\ \E dialect \in Dialects, client \in Users, partition \in Partitions \cup {Unnamed},
        words \in Said, stream \in BOOLEAN, plainly \in BOOLEAN :
       served' = [served EXCEPT ![r] =
         [at |-> "recalls", dialect |-> dialect, client |-> client,
          session |-> sessionOf(client, partition), words |-> words,
          stream |-> stream, caches |-> ~plainly /\ ~stream,
          policy |-> [policy EXCEPT !.compress = @ /\ ~plainly]]]
  /\ UNCHANGED <<policy, rows, cached, switches>>

rules(p) == [redact |-> p.redact, block |-> p.block]

said(q) == [role |-> "user", words |-> q.words, by |-> q.client]

\* A request whose words are fixed: what is sent, and what was answered.
Fixed(q, at, rule, sent, answer, told) ==
  [at |-> at, dialect |-> q.dialect, client |-> q.client, session |-> q.session, words |-> q.words,
   stream |-> q.stream, caches |-> q.caches, policy |-> rule, sent |-> sent, answer |-> answer,
   told |-> told]

\* The recall is here: the rest of prepare, and the cache.
Prepare(r) ==
  LET q == served[r] IN
  /\ q.at = "recalls"
  /\ \E recalled \in SUBSET recallable(q.session) :
       LET ready == prepared({said(q)} \cup recalled, q.policy)
           found == IF q.caches THEN hit(cacheKey(q.client, ready.sent)) ELSE {} IN
       /\ recalled # {} => q.policy.memory
       /\ served' = [served EXCEPT ![r] =
            IF ready.blocked THEN [at |-> "refused"]
            ELSE IF found = {} THEN Fixed(q, "routes", rules(q.policy), ready.sent, {}, FALSE)
            ELSE Fixed(q, "answered", rules(q.policy), ready.sent,
                       (CHOOSE e \in found : TRUE).answer, FALSE)]
  /\ UNCHANGED <<policy, rows, cached, switches>>

\* MCP and A2A: guardrails, then the router; no memory, no cache.
AgentAsks(r) ==
  /\ served[r].at = "idle"
  /\ \E client \in Users, words \in Said :
       LET said1 == [role |-> "user", words |-> words, by |-> client]
           ready == prepared({said1}, [policy EXCEPT !.compress = FALSE]) IN
       served' = [served EXCEPT ![r] =
         IF ready.blocked THEN [at |-> "refused"]
         ELSE [at |-> "routes", dialect |-> NoDialect, client |-> client,
               session |-> sessionOf(client, Unnamed), words |-> words, stream |-> FALSE,
               caches |-> FALSE, policy |-> rules(policy), sent |-> ready.sent,
               answer |-> {}, told |-> FALSE]]
  /\ UNCHANGED <<policy, rows, cached, switches>>

\* ingestTurn: what the client said and what it was answered, unless it has no
\* text or is known.
turn(q) == {[session |-> q.session, words |-> words, by |-> q.client] : words \in {q.words} \cup Said}

\* The provider answers what it was sent.  A stream is neither cached nor
\* remembered; only chat says that words were recalled.
Answer(r) ==
  LET q == served[r] IN
  /\ q.at = "routes"
  /\ served' = [served EXCEPT ![r] = Fixed(q, "answered", q.policy, q.sent, q.sent,
                  q.dialect.recall /\ ~q.stream /\ \E m \in q.sent : m.role = "system")]
  /\ cached' = IF q.caches
               THEN {e \in cached : e.key # cacheKey(q.client, q.sent)}
                    \cup {[key |-> cacheKey(q.client, q.sent), answer |-> q.sent]}
               ELSE cached
  /\ Cardinality(cached') <= MaxCached
  /\ \/ policy.memory /\ ~q.stream /\ q.dialect # NoDialect
        /\ \E kept \in SUBSET turn(q) : Cardinality(kept) <= 2 /\ rows' = rows \cup kept
        /\ Cardinality(rows') <= MaxRows
     \/ ~(policy.memory /\ ~q.stream /\ q.dialect # NoDialect) /\ UNCHANGED rows
  /\ UNCHANGED <<policy, switches>>

Fail(r) ==
  /\ served[r].at = "routes"
  /\ served' = [served EXCEPT ![r] =
       [at |-> "failed", told |-> ~served[r].stream \/ served[r].dialect.cut]]
  /\ UNCHANGED <<policy, rows, cached, switches>>

Done(r) ==
  /\ served[r].at \in {"answered", "refused", "failed"}
  /\ served' = [served EXCEPT ![r] = Unserved]
  /\ UNCHANGED <<policy, rows, cached, switches>>

Forgets ==
  /\ \E m \in rows : rows' = rows \ {m}
  /\ UNCHANGED <<policy, cached, served, switches>>

\* An entry expires or is the least recently used.
Expire ==
  /\ \E e \in cached : cached' = cached \ {e}
  /\ UNCHANGED <<policy, rows, served, switches>>

Switch ==
  /\ switches < MaxSwitches
  /\ switches' = switches + 1
  /\ policy' \in Policies
  /\ UNCHANGED <<rows, cached, served>>

ServingNext ==
  \/ \E r \in Served : Arrive(r) \/ Prepare(r) \/ AgentAsks(r) \/ Answer(r) \/ Fail(r) \/ Done(r)
  \/ Forgets \/ Expire \/ Switch

ServingSpec == ServingInit /\ [][ServingNext]_servingVars

-----------------------------------------------------------------------------
atProvider == {r \in Served : served[r].at \in {"routes", "answered"}}

\* What reaches a provider obeys the settings the request met when it came,
\* whatever was recalled, compressed or switched since, and on whichever
\* surface it came in: nothing personal when redaction is on, no injection
\* when blocking is on, and never an injection in the operator's voice
\* (server.js, prepare; index.js, hydrate; policy.js).
SentAsGuarded ==
  \A r \in atProvider : \A m \in served[r].sent :
    /\ served[r].policy.redact => m.words # "personal"
    /\ served[r].policy.block => m.words # "injection"
    /\ m.role = "system" => m.words # "injection"

\* The words of one caller reach nobody else, neither through a recall nor
\* through a cached answer; an answer is the answer to what was asked; and
\* memory keeps what was said, not what the pipeline made of it (server.js,
\* sessionOf, cacheFor and ingestTurn).
OwnWordsOnly ==
  /\ \A r \in atProvider :
       /\ \A m \in served[r].sent \cup served[r].answer : m.by = served[r].client
       /\ served[r].at = "answered" => served[r].answer = served[r].sent
  /\ \A m \in rows : m.words \in Words /\ m.session[1] = m.by

\* index.js, 12-15: "X-Tollpike-Memory-Recalled is set whenever anything was
\* injected".
RecallIsTold ==
  \A r \in Served : served[r].at = "answered" /\ (\E m \in served[r].sent : m.role = "system")
    => served[r].told
=============================================================================
