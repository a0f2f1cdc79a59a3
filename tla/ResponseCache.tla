---------------------------- MODULE ResponseCache ----------------------------
(***************************************************************************)
(* The exact-match cache of src/src/storage/responseCache.js, and the      *)
(* requests of src/src/server.js around it: look up, call a provider on a  *)
(* miss, store the answer when it arrives.                                 *)
(*                                                                         *)
(* A Map iterates in the order its keys were first set: it is a sequence   *)
(* here.  A key stands for everything cacheKey hashes.                     *)
(***************************************************************************)
EXTENDS Integers, SequencesExt

CONSTANTS
  Requests,        \* requests that can be waiting for a provider at once
  Questions,       \* cache keys
  MAX_ENTRIES,
  TTL              \* DEFAULT_TTL_MS, in ticks

ASSUME CacheAssumption == MAX_ENTRIES \in Nat \ {0} /\ TTL \in Nat

VARIABLES
  store,      \* the Map: keys in insertion order, each with what is left of its TTL
  waiting,    \* the question each request put to a provider, or Nothing
  older,      \* history: <<p, q>> when p was last used, hit or stored, before q was
  raced       \* history: the keys answered twice over, since they were last looked up

cacheVars == <<store, waiting, older, raced>>

CONSTANT Nothing
ASSUME NothingAssumption == Nothing \notin Questions

Entry == [key : Questions, left : 0 .. TTL + 1]   \* 0: expired

keys(s)     == {s[i].key : i \in DOMAIN s}
PlaceOf(k)  == CHOOSE i \in DOMAIN store : store[i].key = k
EntryOf(k)  == store[PlaceOf(k)]
Without(k)  == IF k \in keys(store) THEN RemoveAt(store, PlaceOf(k)) ELSE store

(* k is used after whatever else is kept, and what is not kept is forgotten. *)
UsedAfter(k, kept) ==
  {pair \in older : pair[1] \in kept \ {k} /\ pair[2] \in kept \ {k}} \cup ((kept \ {k}) \X {k})

CacheInit ==
  /\ store = <<>> /\ waiting = [r \in Requests |-> Nothing]
  /\ older = {} /\ raced = {}

Fresh(k) == k \in keys(store) /\ EntryOf(k).left > 0

(* Mutant: a hit leaves the entry where it is.                              *)
HitInPlace(r, k) ==
  /\ waiting[r] = Nothing
  /\ Fresh(k)
  /\ older' = UsedAfter(k, keys(store))
  /\ raced' = raced \ {k}
  /\ UNCHANGED <<store, waiting>>

(* get, when it answers: the entry moves to the end.                        *)
Hit(r, k) ==
  /\ waiting[r] = Nothing
  /\ Fresh(k)
  /\ store' = Append(Without(k), EntryOf(k))
  /\ older' = UsedAfter(k, keys(store))
  /\ raced' = raced \ {k}
  /\ UNCHANGED waiting

(* get, when it does not: an expired entry is deleted, and a provider asked. *)
Miss(r, k) ==
  /\ waiting[r] = Nothing
  /\ ~Fresh(k)
  /\ store' = Without(k)
  /\ older' = {pair \in older : k \notin {pair[1], pair[2]}}
  /\ raced' = raced \ {k}
  /\ waiting' = [waiting EXCEPT ![r] = k]

Evicted == IF Len(store) >= MAX_ENTRIES THEN Tail(store) ELSE store

(* Map.set keeps the place of a key that is there, and appends one that is  *)
(* not.                                                                     *)
Put(s, k) ==
  LET entry == [key |-> k, left |-> TTL + 1]
  IN  IF k \in keys(s)
      THEN [i \in DOMAIN s |-> IF s[i].key = k THEN entry ELSE s[i]]
      ELSE Append(s, entry)

(* set, when the answer has arrived.                                        *)
Store(r) ==
  LET k == waiting[r] IN
  /\ k # Nothing
  /\ store' = Put(Evicted, k)
  /\ older' = UsedAfter(k, keys(Evicted))
  /\ raced' = (raced \cup {k}) \cap keys(Evicted)
  /\ waiting' = [waiting EXCEPT ![r] = Nothing]

Fails(r) ==
  /\ waiting[r] # Nothing /\ waiting' = [waiting EXCEPT ![r] = Nothing]
  /\ UNCHANGED <<store, older, raced>>

clear == store' = <<>> /\ older' = {} /\ raced' = {} /\ UNCHANGED waiting

Age ==
  /\ store' = [i \in DOMAIN store |->
       [store[i] EXCEPT !.left = IF @ = 0 THEN 0 ELSE @ - 1]]
  /\ UNCHANGED <<waiting, older, raced>>

CacheNext ==
  \/ \E r \in Requests : Store(r) \/ Fails(r) \/ \E k \in Questions : Hit(r, k) \/ Miss(r, k)
  \/ clear
  \/ Age

CacheSpec == CacheInit /\ [][CacheNext]_cacheVars

-----------------------------------------------------------------------------
(* The cache never outgrows its limit, and answers a question from one      *)
(* entry, however lookups, late answers and clear() interleave.             *)
Bounded ==
  /\ Len(store) <= MAX_ENTRIES
  /\ \A i, j \in DOMAIN store : store[i].key = store[j].key => i = j

(* "The first key is the least recently used (get() re-inserts on every     *)
(* hit)", responseCache.js:83: what eviction drops is what was used least   *)
(* recently, but for questions that two requests asked at once: the second  *)
(* answer leaves the entry in the place of the first.                       *)
OrderIsRecency ==
  /\ Bounded
  /\ \A i, j \in DOMAIN store :
       i < j /\ {store[i].key, store[j].key} \cap raced = {} => <<store[i].key, store[j].key>> \in older
=============================================================================
