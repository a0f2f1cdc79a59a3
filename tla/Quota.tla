-------------------------------- MODULE Quota --------------------------------
(***************************************************************************)
(* src/src/storage/quotaTracker.js: what was asked of each free pool, in   *)
(* the minute and the day that vendors count by.  Several providers may    *)
(* draw on one pool.  The counts live in memory, and are written to        *)
(* quota.json a moment after they change; a write that fails is not tried  *)
(* again until something else is recorded.                                 *)
(***************************************************************************)
EXTENDS Integers, Sequences, FiniteSets

CONSTANTS Tiers,     \* of each provider: its pool, and the tick of the day
                     \* at which the vendor resets it, if it says so
          NoTier,    \* a tier without limits, or none
          Rolling,   \* no such tick: the day is the last DAY ticks
          MINUTE, DAY, FLUSH_MS,
          Tokens,    \* how many tokens a call may have used
          MaxCalls, MaxTime

ASSUME QuotaAssumption ==
  /\ {MINUTE, DAY, FLUSH_MS} \subseteq Nat \ {0} /\ MINUTE < DAY
  /\ Tokens \subseteq Nat
  /\ \A p \in DOMAIN Tiers : Tiers[p] # NoTier => Tiers[p].resetsAt \in 0..DAY-1 \cup {Rolling}

VARIABLES clock,    \* Date.now(), in ticks
          events,   \* of each pool, the calls whose times its lists hold
          quotaFile,    \* quota.json
          dirty, flushAt,  \* the flag, and when the timer fires
          asked     \* every call made, by its number: its pool, time and
                    \* tokens, and whether the process may forget it

quotaVars == <<clock, events, quotaFile, dirty, flushAt, asked>>

Never == -1
Pools == {Tiers[p].pool : p \in {q \in DOMAIN Tiers : Tiers[q] # NoTier}}
Empty == [pool \in Pools |-> [requests |-> {}, tokens |-> {}]]

QuotaInit ==
  /\ clock = 0 /\ events = Empty /\ quotaFile = Empty
  /\ dirty = FALSE /\ flushAt = Never /\ asked = <<>>

notBefore(calls, at) == {i \in calls : asked[i].at >= at}

(* Mutant: what is older than a minute is dropped.                         *)
pruneMinute(entry) ==
  [requests |-> notBefore(entry.requests, clock - MINUTE),
   tokens |-> notBefore(entry.tokens, clock - MINUTE)]

(* The lists are in the order of their times, so that the code may look at *)
(* the first alone to see whether anything is old.                         *)
prune(entry) ==
  [requests |-> notBefore(entry.requests, clock - DAY),
   tokens |-> notBefore(entry.tokens, clock - DAY)]

(* When the day of a provider began.                                       *)
dayStart(p) ==
  LET at == Tiers[p].resetsAt
      reset == clock - (clock % DAY) + at
  IN IF at = Rolling THEN clock - DAY ELSE IF reset <= clock THEN reset ELSE reset - DAY

recordFreeUsage(p, tokens) ==
  LET pool == Tiers[p].pool
      entry == prune(events[pool])
      call == {Len(asked) + 1}
  IN /\ events' = [events EXCEPT ![pool] =
           [requests |-> entry.requests \cup call,
            tokens |-> IF tokens > 0 THEN entry.tokens \cup call ELSE entry.tokens]]
     /\ dirty' = TRUE
     /\ flushAt' = IF flushAt = Never THEN clock + FLUSH_MS ELSE flushAt

(* A call that reached the vendor, answered or not.                        *)
Consume ==
  /\ Len(asked) < MaxCalls
  /\ \E p \in DOMAIN Tiers, tokens \in Tokens :
       IF Tiers[p] = NoTier THEN UNCHANGED <<events, dirty, flushAt, asked>>
       ELSE /\ recordFreeUsage(p, tokens)
            /\ asked' = Append(asked, [pool |-> Tiers[p].pool, at |-> clock,
                                       tokens |-> tokens, lost |-> FALSE, unsaved |-> FALSE])
  /\ UNCHANGED <<clock, quotaFile>>

(* flush, when the timer fires: the flag is down before the write is tried. *)
flush(written) ==
  /\ dirty' = FALSE
  /\ quotaFile' = IF dirty /\ written THEN events ELSE quotaFile
  /\ asked' = IF ~dirty THEN asked
              ELSE [i \in DOMAIN asked |-> [asked[i] EXCEPT !.unsaved = ~written]]

TimerFires ==
  /\ flushAt = clock
  /\ flushAt' = Never
  /\ \E written \in BOOLEAN : flush(written)
  /\ UNCHANGED <<clock, events>>

(* quotaStatus: what it looks at, it prunes.                               *)
Look ==
  /\ \E pool \in Pools : events' = [events EXCEPT ![pool] = prune(@)]
  /\ UNCHANGED <<clock, quotaFile, dirty, flushAt, asked>>

(* The counts are dropped and the file is written at once; if that fails,  *)
(* they are back after a restart.                                          *)
resetQuota ==
  /\ events' = Empty
  /\ dirty' = FALSE
  /\ \/ quotaFile' = Empty /\ asked' = <<>>
     \/ /\ quotaFile' = quotaFile
        /\ asked' = [i \in DOMAIN asked |-> [asked[i] EXCEPT !.lost = TRUE, !.unsaved = TRUE]]
  /\ UNCHANGED <<clock, flushAt>>

(* The process ends, and another loads the file.  The timer does not keep  *)
(* a process alive, so leaving in good order is no different.              *)
Restart ==
  /\ events' = quotaFile
  /\ dirty' = FALSE /\ flushAt' = Never
  /\ asked' = [i \in DOMAIN asked |->
                 [asked[i] EXCEPT !.lost = @ \/ asked[i].unsaved \/ clock - asked[i].at <= FLUSH_MS]]
  /\ UNCHANGED <<clock, quotaFile>>

(* Timers fire when they are due.                                          *)
QuotaTick ==
  /\ clock < MaxTime /\ flushAt # clock
  /\ clock' = clock + 1
  /\ UNCHANGED <<events, quotaFile, dirty, flushAt, asked>>

QuotaNext == Consume \/ TimerFires \/ Look \/ resetQuota \/ Restart \/ QuotaTick

QuotaSpec == QuotaInit /\ [][QuotaNext]_quotaVars

-----------------------------------------------------------------------------
(* The tokens of some calls, one by one.                                   *)
Units(calls) == UNION {{i} \X (1 .. asked[i].tokens) : i \in calls}

countSince(calls, at) == Cardinality(notBefore(calls, at))
sumSince(calls, at) == Cardinality(Units(notBefore(calls, at)))

quotaUsed(p) ==
  LET entry == prune(events[Tiers[p].pool])
  IN [requestsThisMinute |-> countSince(entry.requests, clock - MINUTE),
      requestsToday |-> countSince(entry.requests, dayStart(p)),
      tokensThisMinute |-> sumSince(entry.tokens, clock - MINUTE),
      tokensToday |-> sumSince(entry.tokens, dayStart(p))]

(* The same counts of the calls that were made, of all of them or of those *)
(* the process has no excuse to forget.                                    *)
CallsOf(p, all) == {i \in DOMAIN asked : asked[i].pool = Tiers[p].pool /\ (all \/ ~asked[i].lost)}
Asked(p, all) ==
  [requestsThisMinute |-> countSince(CallsOf(p, all), clock - MINUTE),
   requestsToday |-> countSince(CallsOf(p, all), dayStart(p)),
   tokensThisMinute |-> sumSince(CallsOf(p, all), clock - MINUTE),
   tokensToday |-> sumSince(CallsOf(p, all), dayStart(p))]

(* What a provider of a free pool is said to have used is what was asked   *)
(* of the pool, by any of its members and in the vendor's own day: never   *)
(* more, and less only by the calls of the last moment before a restart    *)
(* and those whose write failed (quotaTracker.js:72, 188).                 *)
UsedIsAsked ==
  \A p \in DOMAIN Tiers : Tiers[p] # NoTier =>
    \A k \in {"requestsThisMinute", "requestsToday", "tokensThisMinute", "tokensToday"} :
      quotaUsed(p)[k] \in Asked(p, FALSE)[k]..Asked(p, TRUE)[k]
==============================================================================
