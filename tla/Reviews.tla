------------------------------- MODULE Reviews -------------------------------
(***************************************************************************)
(* What the audit layer writes and what is made of it (audit/index.js):      *)
(* the events of a model call, failed authentication gathered into one event *)
(* a minute, changes by the administrator, reviews of flagged events and the *)
(* queue of those that wait for one.  The log itself, its chain and its      *)
(* writes are AuditLog's; here an event is appended, or its append fails.    *)
(***************************************************************************)
EXTENDS Integers, Sequences, FiniteSets, FiniteSetsExt

CONSTANTS
  Sources,        \* where failed authentication comes from: address and reason
  WINDOW_MS,      \* AUTH_WINDOW_MS
  MAX_SLOTS,      \* sources remembered
  MaxEvents,      \* bound: events of the log
  MaxClock,       \* bound: time
  MaxRefusals     \* bound: failed authentications

ASSUME ReviewsAssumption == MAX_SLOTS \in Nat \ {0} /\ WINDOW_MS \in Nat

VARIABLES
  auditOn,        \* auditEnabled()
  auditEvents,    \* the log: what it has of every event
  authWindow,     \* the open windows, the oldest first
  refusals,       \* failed authentications of each source that auditing met
  forgotten,      \* of those, the ones that no event and no window counts any more
  minutes

reviewsVars == <<auditOn, auditEvents, authWindow, refusals, forgotten, minutes>>

NoTarget == 0

ReviewsInit ==
  /\ auditOn \in BOOLEAN
  /\ auditEvents = <<>> /\ authWindow = <<>> /\ minutes = 0
  /\ refusals = [s \in Sources |-> 0] /\ forgotten = [s \in Sources |-> 0]

-----------------------------------------------------------------------------
\* finish: a finding flags its event unless its rule only observes.
flagged(modes) == \E mode \in modes : mode # "observe"
event(type, modes) == [type |-> type, flagged |-> flagged(modes), target |-> NoTarget,
                       decision |-> "none", source |-> "none", suppressed |-> 0]

Appended(new) ==
  /\ Len(auditEvents) + Len(new) <= MaxEvents
  /\ auditEvents' = auditEvents \o new

RuleModes == {{"observe"}, {"observe", "block"}}

\* recordModelCall: the results the agent reports, the call, and the calls the
\* model proposes, in that order; recordModelFailure and recordBlocked: one.
recordModelCall ==
  /\ auditOn
  /\ \E m \in RuleModes, n \in RuleModes :
       \/ Appended(<<event("model.call", m)>>)
       \/ Appended(<<event("tool.result", m), event("model.call", {}), event("tool.call", n)>>)
  /\ UNCHANGED <<auditOn, authWindow, refusals, forgotten, minutes>>

recordBlocked ==
  /\ auditOn
  /\ Appended(<<event("model.blocked", {"flag"})>>)
  /\ UNCHANGED <<auditOn, authWindow, refusals, forgotten, minutes>>

\* recordAdmin: also when auditing is off.
recordAdmin ==
  /\ Appended(<<event("admin.change", {})>>)
  /\ auditOn' = ~auditOn
  /\ UNCHANGED <<authWindow, refusals, forgotten, minutes>>

-----------------------------------------------------------------------------
slotOf(s) == {i \in DOMAIN authWindow : authWindow[i].source = s}

suppressed(s) == IF slotOf(s) = {} THEN 0 ELSE authWindow[Max(slotOf(s))].count - 1

\* A window that is opened again keeps its place; a new one goes last and may
\* push the oldest out.
opened(s) ==
  LET slot == [source |-> s, since |-> minutes, count |-> 1]
      all  == IF slotOf(s) = {} THEN Append(authWindow, slot)
              ELSE [authWindow EXCEPT ![Max(slotOf(s))] = slot]
  IN IF Len(all) > MAX_SLOTS THEN Tail(all) ELSE all

(* Mutant: the event does not carry what was counted in its source's last   *)
(* window.                                                                  *)
authFailedAlone(s) == [event("auth.failed", {"flag"}) EXCEPT !.source = s]

\* The event that opens a window carries what the source's last window counted
\* and no event told.
authFailed(s) == [event("auth.failed", {"flag"}) EXCEPT !.source = s, !.suppressed = suppressed(s)]

pushedOut(s, t) ==
  IF Len(authWindow) = MAX_SLOTS /\ slotOf(s) = {} /\ authWindow[1].source = t
  THEN authWindow[1].count - 1 ELSE 0

\* recordAuthFailure: counted while its window is open, an event otherwise.
recordAuthFailure(s) ==
  /\ auditOn
  /\ refusals[s] < MaxRefusals
  /\ refusals' = [refusals EXCEPT ![s] = @ + 1]
  /\ \/ /\ \E i \in slotOf(s) : minutes - authWindow[i].since < WINDOW_MS
        /\ authWindow' = [i \in DOMAIN authWindow |->
             IF i \in slotOf(s) THEN [authWindow[i] EXCEPT !.count = @ + 1] ELSE authWindow[i]]
        /\ UNCHANGED <<auditEvents, forgotten>>
     \/ /\ \A i \in slotOf(s) : minutes - authWindow[i].since >= WINDOW_MS
        /\ authWindow' = opened(s)
        /\ \/ /\ Appended(<<authFailed(s)>>)
              /\ forgotten' = [t \in Sources |-> forgotten[t] + pushedOut(s, t)]
           \/ /\ UNCHANGED auditEvents      \* the append fails
              /\ forgotten' = [t \in Sources |-> forgotten[t] + pushedOut(s, t)
                                 + IF t = s THEN suppressed(s) + 1 ELSE 0]
  /\ UNCHANGED <<auditOn, minutes>>

Later ==
  /\ minutes < MaxClock
  /\ minutes' = minutes + 1
  /\ UNCHANGED <<auditOn, auditEvents, authWindow, refusals, forgotten>>

-----------------------------------------------------------------------------
\* reviewEvent: a flagged event, not itself a review; the review is appended,
\* the event is not touched.
reviewEvent ==
  /\ \E e \in DOMAIN auditEvents, decision \in {"closes", "escalated"} :
       /\ auditEvents[e].flagged /\ auditEvents[e].type # "review"
       /\ Appended(<<[event("review", {}) EXCEPT !.target = e, !.decision = decision]>>)
  /\ UNCHANGED <<auditOn, authWindow, refusals, forgotten, minutes>>

reviewsOf(e) == {r \in DOMAIN auditEvents : auditEvents[r].type = "review" /\ auditEvents[r].target = e}

\* reviewQueue: what is flagged and whose latest review does not close it.
closed(e) == reviewsOf(e) # {} /\ auditEvents[Max(reviewsOf(e))].decision = "closes"
reviewQueue == {e \in DOMAIN auditEvents : auditEvents[e].flagged /\ ~closed(e)}

ReviewsNext ==
  \/ recordModelCall \/ recordBlocked \/ recordAdmin
  \/ \E s \in Sources : recordAuthFailure(s)
  \/ reviewEvent \/ Later

ReviewsSpec == ReviewsInit /\ [][ReviewsNext]_reviewsVars

-----------------------------------------------------------------------------
countedBy(e, s) ==
  IF auditEvents[e].type = "auth.failed" /\ auditEvents[e].source = s
  THEN auditEvents[e].suppressed + 1 ELSE 0

\* The first n numbers of w, together.
Total(w, n) == LET upTo[i \in 0..n] == IF i = 0 THEN 0 ELSE upTo[i - 1] + w[i] IN upTo[n]

accounted(s) == Total([e \in DOMAIN auditEvents |-> countedBy(e, s)], Len(auditEvents))

\* Every failed authentication is counted once: by an event, by the event that
\* follows it or by a window that is still there; none is left out but those
\* of a window pushed out by too many others or of an event whose append
\* failed (audit/index.js, recordAuthFailure).  And a flagged event waits for
\* a review unless somebody closed it and nobody escalated it since
\* (reviewQueue).
NothingFlaggedIsLost ==
  /\ \A s \in Sources : refusals[s] = forgotten[s] + suppressed(s) + accounted(s)
  /\ \A e \in DOMAIN auditEvents : auditEvents[e].flagged =>
       \/ e \in reviewQueue
       \/ \E r \in reviewsOf(e) : auditEvents[r].decision = "closes"
            /\ \A later \in r + 1 .. Len(auditEvents) :
                 ~(auditEvents[later].target = e /\ auditEvents[later].decision = "escalated")
=============================================================================
