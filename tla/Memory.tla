------------------------------- MODULE Memory -------------------------------
(***************************************************************************)
(* The conversation memory: store.js (the two backends), recall.js and      *)
(* index.js (hydrate, ingest, syncVectors) and the vector store it keeps in *)
(* step with by hand (vector.js).                                           *)
(*                                                                          *)
(* A memory is a record of its session, its text and whether its vector is  *)
(* said to be stored; memories is a function from the ids in use, and what  *)
(* it holds is on disk (a write that fails is left out).  A recall          *)
(* searches the keywords in one synchronous step, then awaits the embedding *)
(* and the vector search; a sync awaits the embedding and the upsert.  The  *)
(* operator may forget memories, and the gateway may restart, in between.   *)
(***************************************************************************)
EXTENDS Integers, FiniteSets, Functions, FiniteSetsExt

CONSTANTS
  Sessions,       \* memory partitions, "default" excepted
  Default,        \* the session of a vector whose memory is gone
  Texts,          \* what can be said
  Injected,       \* the texts the injection scanner finds
  Recallers,      \* requests that recall
  MaxMemories,    \* bound: ids ever given
  MaxBoots        \* bound: restarts of the gateway

VARIABLES
  backend,        \* "sqlite" or "memory", chosen at boot
  memories,       \* id -> the memory the store holds
  lastId,         \* the last id the backend remembers having given
  vectors,        \* id -> the point Qdrant holds
  recalls,        \* the recall of each request
  sync,           \* the sync of the vectors that is under way
  boots           \* restarts so far

memoryVars == <<backend, memories, lastId, vectors, recalls, sync, boots>>

NoMemories == [id \in {} |-> Default]
NoSync == [at |-> "idle", pending |-> NoMemories]
NoRecall == [at |-> "idle", sessions |-> {}, keyword |-> {}, results |-> {}]

MemoryInit ==
  /\ backend \in {"sqlite", "memory"}
  /\ memories = NoMemories /\ vectors = NoMemories
  /\ lastId = 0 /\ boots = 0
  /\ recalls = [r \in Recallers |-> NoRecall]
  /\ sync = NoSync

-----------------------------------------------------------------------------
\* The store.

\* What a memory is told apart by: one memory per session and text.
fingerprint(m) == <<m.session, m.text>>

nextId == lastId + 1

\* ingest of a turn: known text is not stored twice.
ingest(s, t) ==
  LET new == [session |-> s, text |-> t, embedded |-> FALSE] IN
  /\ lastId < MaxMemories /\ nextId <= MaxMemories
  /\ \A id \in DOMAIN memories : fingerprint(memories[id]) # fingerprint(new)
  /\ lastId' = nextId
  /\ memories' = [id \in DOMAIN memories \cup {nextId} |-> IF id = nextId THEN new ELSE memories[id]]
  /\ UNCHANGED <<backend, vectors, recalls, sync, boots>>

forget(ids) ==
  /\ ids \cap DOMAIN memories # {}
  /\ memories' = Restrict(memories, DOMAIN memories \ ids)
  /\ UNCHANGED <<backend, lastId, vectors, recalls, sync, boots>>

\* By id, by session, or all of them.
Forget ==
  \/ \E id \in DOMAIN memories : forget({id})
  \/ \E s \in Sessions : forget({id \in DOMAIN memories : memories[id].session = s})
  \/ forget(DOMAIN memories)

-----------------------------------------------------------------------------
\* A request recalls.

shown(ids) == {[id |-> id, session |-> memories[id].session, text |-> memories[id].text] : id \in ids}

keywordSearch(sessions, t) ==
  shown({id \in DOMAIN memories : memories[id].session \in sessions /\ memories[id].text = t})

\* A hit of the vector store stands for the memory the store holds under its
\* id, if it holds one.
(* Mutant: the copy that travels with the vector is believed. *)
vectorCopies(sessions) ==
  {[id |-> id, session |-> vectors[id].session, text |-> vectors[id].text]
     : id \in {i \in DOMAIN vectors : vectors[i].session \in sessions}}
vectorHits(sessions) ==
  shown({id \in DOMAIN vectors : vectors[id].session \in sessions} \cap DOMAIN memories)

\* hydrate: what the injection scanner finds is dropped.
scanned(hits) == {h \in hits : h.text \notin Injected}

\* One session is searched, or all of them when crossSession is on.  The
\* keyword half runs at once; a recall that wants the other half waits.
Recall(r, sessions, t, mode) ==
  LET keyword == IF mode = "vector" THEN {} ELSE keywordSearch(sessions, t) IN
  /\ recalls[r].at = "idle"
  /\ recalls' = [recalls EXCEPT ![r] =
       [at |-> IF mode = "keyword" THEN "done" ELSE "waits",
        sessions |-> sessions, keyword |-> keyword,
        results |-> IF mode = "keyword" THEN scanned(keyword) ELSE {}]]
  /\ UNCHANGED <<backend, memories, lastId, vectors, sync, boots>>

Recalled(r, hits) ==
  /\ recalls[r].at = "waits"
  /\ recalls' = [recalls EXCEPT ![r].at = "done", ![r].results = scanned(recalls[r].keyword \cup hits)]
  /\ UNCHANGED <<backend, memories, lastId, vectors, sync, boots>>

\* The fused lists are cut to the limit: any of the hits may be left out.
VectorFound(r) == \E hits \in SUBSET vectorHits(recalls[r].sessions) : Recalled(r, hits)

\* No embedding provider, or Qdrant is down: the half is skipped.
VectorUnavailable(r) == Recalled(r, {})

Leave(r) ==
  /\ recalls[r].at = "done"
  /\ recalls' = [recalls EXCEPT ![r] = NoRecall]
  /\ UNCHANGED <<backend, memories, lastId, vectors, sync, boots>>

-----------------------------------------------------------------------------
\* The vectors are brought up to date.

pendingEmbedding == {id \in DOMAIN memories : ~memories[id].embedded}

SyncVectors ==
  /\ sync.at = "idle" /\ pendingEmbedding # {}
  /\ sync' = [at |-> "embeds", pending |-> [id \in pendingEmbedding |-> [text |-> memories[id].text]]]
  /\ UNCHANGED <<backend, memories, lastId, vectors, recalls, boots>>

\* The points are built when the embeddings arrive: the session is looked up
\* then, in the store.
point(id) ==
  [text |-> sync.pending[id].text,
   session |-> IF id \in DOMAIN memories THEN memories[id].session ELSE Default]

Embedded ==
  /\ sync.at = "embeds"
  /\ sync' = [at |-> "upserts", pending |-> [id \in DOMAIN sync.pending |-> point(id)]]
  /\ UNCHANGED <<backend, memories, lastId, vectors, recalls, boots>>

\* Qdrant has the points; the answer is still on its way.
Stored ==
  /\ sync.at = "upserts"
  /\ vectors' = [id \in DOMAIN vectors \cup DOMAIN sync.pending |->
                   IF id \in DOMAIN sync.pending THEN sync.pending[id] ELSE vectors[id]]
  /\ sync' = [sync EXCEPT !.at = "stored"]
  /\ UNCHANGED <<backend, memories, lastId, recalls, boots>>

marked(ids) == [id \in DOMAIN memories |-> [memories[id] EXCEPT !.embedded = @ \/ id \in ids]]

markEmbedded ==
  /\ sync.at = "stored"
  /\ memories' = marked(DOMAIN sync.pending)
  /\ sync' = NoSync
  /\ UNCHANGED <<backend, lastId, vectors, recalls, boots>>

\* The embedding or the upsert fails, or its answer is lost.
SyncFails ==
  /\ sync.at # "idle"
  /\ sync' = NoSync
  /\ UNCHANGED <<backend, memories, lastId, vectors, recalls, boots>>

-----------------------------------------------------------------------------
\* The database remembers the last id (AUTOINCREMENT); the fallback takes it
\* from the rows it reads.
RestartMemory ==
  /\ boots < MaxBoots
  /\ boots' = boots + 1
  /\ lastId' = IF backend = "sqlite" THEN lastId ELSE Max(DOMAIN memories \cup {0})
  /\ recalls' = [r \in Recallers |-> NoRecall]
  /\ sync' = NoSync
  /\ UNCHANGED <<backend, memories, vectors>>

MemoryNext ==
  \/ \E s \in Sessions, t \in Texts : ingest(s, t)
  \/ Forget
  \/ \E r \in Recallers, sessions \in {{s} : s \in Sessions} \cup {Sessions \cup {Default}},
        t \in Texts, mode \in {"keyword", "vector", "hybrid"} : Recall(r, sessions, t, mode)
  \/ \E r \in Recallers : VectorFound(r) \/ VectorUnavailable(r) \/ Leave(r)
  \/ SyncVectors \/ Embedded \/ Stored \/ markEmbedded \/ SyncFails
  \/ RestartMemory

MemorySpec == MemoryInit /\ [][MemoryNext]_memoryVars

-----------------------------------------------------------------------------
\* What a request is shown the store found for it when it asked, or holds when
\* it is answered: a memory deleted before does not resurface from a stale
\* vector (recall.js, the lookup of every vector hit).  In the database, where an id
\* names one memory for ever, it is also a memory of a session that was asked
\* for.
\* And nothing the scanner finds is shown.
RecallIsOwn ==
  [][\A r \in Recallers : recalls[r].at # "done" /\ recalls'[r].at = "done" =>
       \A h \in recalls'[r].results :
         /\ h \in shown(DOMAIN memories) \cup recalls'[r].keyword
         /\ backend = "sqlite" => h.session \in recalls'[r].sessions
         /\ h.text \notin Injected]_memoryVars
=============================================================================
