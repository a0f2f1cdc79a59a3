------------------------------- MODULE AuditLog -------------------------------
(***************************************************************************)
(* The audit log of src/src/audit/log.js: audit.jsonl, its anchor, and     *)
(* the processes (gateway, CLI, hooks) that append to it under a lock      *)
(* file.  Each file operation is a step of its own, because other          *)
(* processes run between them.                                             *)
(***************************************************************************)
EXTENDS Integers, Sequences, FiniteSets

CONSTANTS
  Processes,
  Nobody,       \* no process: the lock file does not exist
  MaxEvents,    \* bound: appends ever tried
  Trusts        \* what the environment may be trusted with: sets of assumptions

(* "quick holders": a process that holds the lock and lives is done with   *)
(* it in less than LOCK_WAIT_MS.                                           *)
(* "lone takeover": a stale lock is stat'ed and removed by one process     *)
(* without another doing the same in between.                              *)
(* "patience": a process never gives the lock up; that is, nobody appends  *)
(* in the seconds between a crash and the lock going stale.                *)
Environment == {"quick holders", "lone takeover", "patience"}

ASSUME AuditAssumption ==
  Nobody \notin Processes /\ MaxEvents \in Nat /\ Trusts \subseteq SUBSET Environment

VARIABLES
  file,      \* lines of audit.jsonl
  open,      \* the last of them is not ended by a newline
  size,      \* how often the file grew, for its size in bytes
  anchor,    \* audit.head
  lock,      \* audit.lock: who made it, or Nobody
  old,       \* it is older than LOCK_STALE_MS
  pc,        \* where each process is in appendEvent
  held,      \* acquireLock gave the process a release function
  cache,     \* the state variable of each process
  lead,      \* whether it found a last line to end first
  tried,     \* history: events so far; they are numbered in order
  event,     \* history: the event a process is appending
  durable,   \* history: events whose append succeeded
  trusted    \* what the environment is trusted with in this behaviour

files == <<file, open, size, anchor>>
locks == <<lock, old>>
histories == <<tried, event, durable>>
vars == <<files, locks, pc, held, cache, lead, histories, trusted>>

Events  == 1 .. MaxEvents
GENESIS == <<>>
Seals   == Seq(Events)
Junk    == [event |-> 0, h |-> <<0>>]               \* a line JSON.parse rejects
Line    == [event : Events, h : Seals] \cup {Junk}
NoAnchor == [count |-> 0, head |-> GENESIS]
Unknown == [head |-> GENESIS, count |-> 0, size |-> -1]     \* state = null
Cache   == [head : Seals, count : Nat, size : Nat] \cup {Unknown}

chainHash(prev, e) == Append(prev, e)

Parsable(f) == {i \in DOMAIN f : f[i] # Junk}

HeadBefore(f, i) ==
  LET before == {j \in Parsable(f) : j < i}
  IN  IF before = {} THEN GENESIS ELSE f[CHOOSE j \in before : \A k \in before : k <= j].h

-----------------------------------------------------------------------------
Init ==
  /\ file = <<>> /\ open = FALSE /\ size = 0 /\ anchor = NoAnchor
  /\ lock = Nobody /\ old = FALSE
  /\ pc = [p \in Processes |-> "idle"]
  /\ held = [p \in Processes |-> FALSE]
  /\ cache = [p \in Processes |-> Unknown]
  /\ lead = [p \in Processes |-> FALSE]
  /\ tried = 0 /\ event = [p \in Processes |-> 0] /\ durable = {}
  /\ trusted \in Trusts

(* acquireLock.                                                             *)
Begin(p) ==
  /\ pc[p] = "idle" /\ tried < MaxEvents
  /\ tried' = tried + 1 /\ event' = [event EXCEPT ![p] = tried + 1]
  /\ pc' = [pc EXCEPT ![p] = "lock"]
  /\ UNCHANGED <<files, locks, held, cache, lead, durable>>

TakeLock(p) ==
  /\ pc[p] = "lock" /\ lock = Nobody
  /\ lock' = p /\ old' = FALSE
  /\ held' = [held EXCEPT ![p] = TRUE]
  /\ pc' = [pc EXCEPT ![p] = "load"]
  /\ UNCHANGED <<files, cache, lead, histories>>

SeeStale(p) ==
  /\ pc[p] = "lock" /\ lock # Nobody /\ old
  /\ "lone takeover" \in trusted => \A q \in Processes : pc[q] # "takeover"
  /\ pc' = [pc EXCEPT ![p] = "takeover"]
  /\ UNCHANGED <<files, locks, held, cache, lead, histories>>

(* Mutant: the lock file stays.                                             *)
RemoveNothing(p) ==
  /\ pc[p] = "takeover"
  /\ pc' = [pc EXCEPT ![p] = "lock"]
  /\ UNCHANGED <<files, locks, held, cache, lead, histories>>

(* rmSync of the path, whoever made the lock that is there by now.          *)
RemoveStale(p) ==
  /\ pc[p] = "takeover"
  /\ lock' = Nobody /\ old' = FALSE
  /\ pc' = [pc EXCEPT ![p] = "lock"]
  /\ UNCHANGED <<files, held, cache, lead, histories>>

(* LOCK_WAIT_MS have passed, or the lock file cannot be made: go ahead      *)
(* without it.                                                              *)
GoAhead(p) ==
  /\ "patience" \notin trusted
  /\ pc[p] = "lock"
  /\ pc' = [pc EXCEPT ![p] = "load"]
  /\ UNCHANGED <<files, locks, held, cache, lead, histories>>

(* The lock file grows old if its maker died, or is slow.                   *)
LockAges ==
  /\ lock # Nobody /\ ~old
  /\ "quick holders" \in trusted => ~held[lock]
  /\ old' = TRUE
  /\ UNCHANGED <<files, lock, pc, held, cache, lead, histories>>

(* Mutant: the head once read is kept.                                      *)
LoadOnce(p) ==
  /\ pc[p] = "load"
  /\ cache' = IF cache[p] # Unknown THEN cache
              ELSE [cache EXCEPT ![p] =
                     [head |-> HeadBefore(file, Len(file) + 1), count |-> Len(file), size |-> size]]
  /\ lead' = [lead EXCEPT ![p] = open]
  /\ pc' = [pc EXCEPT ![p] = "append"]
  /\ UNCHANGED <<files, locks, held, histories>>

(* Read the file again if its size moved, and look at its last byte.        *)
Load(p) ==
  /\ pc[p] = "load"
  /\ cache' = IF cache[p].size = size THEN cache
              ELSE [cache EXCEPT ![p] =
                     [head |-> HeadBefore(file, Len(file) + 1), count |-> Len(file), size |-> size]]
  /\ lead' = [lead EXCEPT ![p] = open]
  /\ pc' = [pc EXCEPT ![p] = "append"]
  /\ UNCHANGED <<files, locks, held, histories>>

Sealed(p) == [event |-> event[p], h |-> chainHash(cache[p].head, event[p])]

(* The file after process p appended to it: on a line of its own, or glued  *)
(* to one that was left unfinished after p looked.                          *)
Extended(p, line) ==
  IF open /\ ~lead[p] THEN [file EXCEPT ![Len(file)] = Junk] ELSE Append(file, line)

AppendRow(p) ==
  /\ pc[p] = "append"
  /\ file' = Extended(p, Sealed(p)) /\ open' = FALSE /\ size' = size + 1
  /\ cache' = [cache EXCEPT ![p] = [head |-> Sealed(p).h, count |-> @.count + 1, size |-> @.size]]
  /\ durable' = durable \cup {event[p]}
  /\ pc' = [pc EXCEPT ![p] = "anchor"]
  /\ UNCHANGED <<anchor, locks, held, lead, tried, event>>

(* The append throws, or the process is killed in it: nothing of the row,   *)
(* a fragment, or all but its newline is in the file.                       *)
HalfAppended(p) ==
  \/ UNCHANGED <<file, open, size>>
  \/ /\ file' \in {Extended(p, Junk), Extended(p, Sealed(p))}
     /\ open' = TRUE /\ size' = size + 1

AppendFails(p) ==
  /\ pc[p] = "append"
  /\ HalfAppended(p)
  /\ pc' = [pc EXCEPT ![p] = "release"]
  /\ UNCHANGED <<anchor, locks, held, cache, lead, histories>>

(* fileSize, then writeAnchor, whose failure is only logged.                *)
WriteAnchor(p) ==
  /\ pc[p] = "anchor"
  /\ cache' = [cache EXCEPT ![p].size = size]
  /\ anchor' \in {anchor, [count |-> cache[p].count, head |-> cache[p].head]}
  /\ pc' = [pc EXCEPT ![p] = "release"]
  /\ UNCHANGED <<file, open, size, locks, held, lead, histories>>

Release(p) ==
  /\ pc[p] = "release"
  /\ IF held[p] THEN lock' = Nobody /\ old' = FALSE ELSE UNCHANGED locks
  /\ held' = [held EXCEPT ![p] = FALSE]
  /\ pc' = [pc EXCEPT ![p] = "idle"]
  /\ UNCHANGED <<files, cache, lead, histories>>

(* The process dies, and a new one takes its place: the lock file stays.    *)
Crash(p) ==
  /\ pc[p] # "idle"
  /\ IF pc[p] = "append" THEN HalfAppended(p) ELSE UNCHANGED <<file, open, size>>
  /\ held' = [held EXCEPT ![p] = FALSE]
  /\ cache' = [cache EXCEPT ![p] = Unknown]
  /\ pc' = [pc EXCEPT ![p] = "idle"]
  /\ UNCHANGED <<anchor, locks, lead, histories>>

(* A step of appendEvent. *)
Works(p) ==
  /\ \/ TakeLock(p) \/ SeeStale(p) \/ RemoveStale(p) \/ GoAhead(p) \/ Load(p)
     \/ AppendRow(p) \/ AppendFails(p) \/ WriteAnchor(p) \/ Release(p)
  /\ UNCHANGED trusted

Ages == LockAges /\ UNCHANGED trusted

Next ==
  \/ \E p \in Processes : Works(p) \/ ((Begin(p) \/ Crash(p)) /\ UNCHANGED trusted)
  \/ Ages

Spec == Init /\ [][Next]_vars

(* appendEvent runs to its end in a process that lives, and time passes.    *)
FairSpec == Spec /\ WF_vars(Ages) /\ \A p \in Processes : WF_vars(Works(p))

-----------------------------------------------------------------------------
TypeOK ==
  /\ file \in Seq(Line) /\ open \in BOOLEAN /\ size \in Nat
  /\ anchor \in [count : Nat, head : Seals]
  /\ lock \in Processes \cup {Nobody} /\ old \in BOOLEAN
  /\ pc \in [Processes -> {"idle", "lock", "takeover", "load", "append", "anchor", "release"}]
  /\ held \in [Processes -> BOOLEAN]
  /\ cache \in [Processes -> Cache] /\ lead \in [Processes -> BOOLEAN]
  /\ tried \in 0 .. MaxEvents /\ event \in [Processes -> 0 .. MaxEvents]
  /\ durable \subseteq Events /\ trusted \in Trusts

(* Mutant: lines that do not parse are passed over.                         *)
brokenSeals ==
  {i \in Parsable(file) : file[i].h # chainHash(HeadBefore(file, i), file[i].event)}

(* What verifyAudit looks for.                                              *)
brokenAt == {i \in DOMAIN file :
               file[i] = Junk \/ file[i].h # chainHash(HeadBefore(file, i), file[i].event)}

truncated  == Len(file) < anchor.count
rolledBack == /\ anchor.count \in Parsable(file)
              /\ file[anchor.count].h # anchor.head

(* "Appends take a lock file so each one chains from the true head",        *)
(* log.js:17: whoever dies, at whatever step, the only breaks in the chain  *)
(* are the lines a crash tore, and the anchor never contradicts the file.   *)
(* It takes all of the trust.                                               *)
OnlyTearsBreak ==
  trusted = Environment =>
    (\A i \in brokenAt : file[i] = Junk) /\ ~truncated /\ ~rolledBack

NothingLost == durable \subseteq {file[i].event : i \in Parsable(file)}

(* A torn line costs its own event: no event whose append succeeded is      *)
(* glued to it, overwritten, or lost in a fork.                             *)
DurableIsReadable == trusted = Environment => NothingLost

(* "A rare fork, which verify then reports, is better than losing the       *)
(* event", log.js:162: with no trust in anybody, appends that went ahead    *)
(* without the lock may fork the chain and glue rows together, but a log    *)
(* that verifies has every event whose append succeeded.                    *)
NoSilentLoss == brokenAt = {} /\ ~truncated /\ ~rolledBack => NothingLost

(* Two processes are never both between reading the head and anchoring it.  *)
OneWriter ==
  trusted = Environment =>
    \A p, q \in Processes :
      pc[p] \in {"append", "anchor"} /\ pc[q] \in {"append", "anchor"} => p = q

(* What the lock file is for, together: one writer, an unbroken chain, and  *)
(* nothing lost.                                                            *)
LockKeepsTheLog == TypeOK /\ OneWriter /\ OnlyTearsBreak /\ DurableIsReadable

(* An append comes to an end, though the process that holds the lock may    *)
(* have died with it.                                                       *)
AppendEnds == \A p \in Processes : pc[p] # "idle" ~> pc[p] = "idle"
=============================================================================
