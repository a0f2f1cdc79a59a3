--------------------------------- MODULE Grc ---------------------------------
(***************************************************************************)
(* src/src/audit/grc: the evidence pushed to a compliance platform, Vanta  *)
(* or Drata, one request after another.  A request may be refused, and one *)
(* whose reply is lost is sent again though it was carried out.  The       *)
(* payload is told by the push that built it.                              *)
(***************************************************************************)
EXTENDS Integers, Sequences, FiniteSets, SequencesExt

CONSTANTS NoPush, MaxPushes, MaxLost

(* The requests there are, of both platforms.                              *)
Requests ==
  [verb : {"token", "put", "upload", "submit", "session", "complete", "find", "create", "update"},
   on : {"app", "tests", "accounts", "evidence"}]

ASSUME GrcAssumption ==
  /\ MaxPushes \in Nat \ {0} /\ MaxLost \in Nat
  /\ NoPush \notin [payload : Nat, match : Nat, left : Seq(Requests)]

VARIABLES platform, config,   \* which platform, and what is set up there
          push,       \* the push under way: what it built and the requests left
          pushed,     \* pushes begun
          token,      \* whether a live token of Vanta's is cached
          remote,     \* what the platform holds
          grcEvents,  \* the grc.push events
          lost        \* replies lost, sessions and items they may leave behind

grcVars == <<platform, config, push, pushed, token, remote, grcEvents, lost>>

GrcInit ==
  /\ platform \in {"vanta", "drata"}
  /\ config \in SUBSET {"tests", "accounts", "evidence"}
  /\ IF platform = "vanta" THEN "tests" \in config ELSE "evidence" \in config
  /\ push = NoPush /\ pushed = 0 /\ token = FALSE
  /\ remote = [tests |-> 0, accounts |-> 0, session |-> {}, files |-> {}, items |-> <<>>]
  /\ grcEvents = <<>>
  /\ lost = [replies |-> 0, sessions |-> FALSE, items |-> FALSE]

(* The requests of a push, as they are set up.                             *)
Ask(verb, on) == [verb |-> verb, on |-> on]
If(what, requests) == IF what \in config THEN requests ELSE <<>>

vantaPush ==
  <<Ask("token", "app"), Ask("put", "tests")>> \o If("accounts", <<Ask("put", "accounts")>>)
    \o If("evidence", <<Ask("upload", "evidence"), Ask("submit", "evidence")>>)

replaceDataset(what) == <<Ask("session", what), Ask("complete", what)>>

(* Mutant: the item of an earlier push is not looked for.                  *)
drataUnfound ==
  If("tests", replaceDataset("tests")) \o If("accounts", replaceDataset("accounts"))
    \o <<Ask("upload", "evidence"), Ask("create", "evidence")>>

drataPush ==
  If("tests", replaceDataset("tests")) \o If("accounts", replaceDataset("accounts"))
    \o <<Ask("upload", "evidence"), Ask("find", "evidence")>>

(* One push of a platform at a time.                                       *)
PushGrc ==
  /\ push = NoPush /\ pushed < MaxPushes
  /\ pushed' = pushed + 1
  /\ push' = [payload |-> pushed + 1, match |-> 0,
              left |-> IF platform = "vanta" THEN vantaPush ELSE drataPush]
  /\ UNCHANGED <<platform, config, token, remote, grcEvents, lost>>

(* What a request does to the platform, when it is carried out.            *)
Carried(a, r, p) ==
  CASE a.verb = "put" -> [r EXCEPT ![a.on] = p.payload]
    [] a.verb = "upload" -> [r EXCEPT !.files = @ \cup {p.payload}]
    [] a.verb \in {"submit", "create"} -> [r EXCEPT !.items = Append(@, r.files \cap {p.payload})]
    [] a.verb = "update" -> [r EXCEPT !.items[p.match] = @ \cup (r.files \cap {p.payload})]
    [] a.verb = "session" -> [r EXCEPT !.session = @ \cup {<<a.on, p.payload>>}]
    [] a.verb = "complete" -> [r EXCEPT ![a.on] = p.payload, !.session = @ \ {<<a.on, p.payload>>}]
    [] a.verb \in {"token", "find"} -> r

(* Drata has one session of a resource at a time, and completes it once.   *)
Accepted(a, r, p) ==
  /\ a.verb = "session" => \A s \in r.session : s[1] # a.on
  /\ a.verb = "complete" => <<a.on, p.payload>> \in r.session

Finish(ok) ==
  /\ push' = NoPush
  /\ grcEvents' = Append(grcEvents, [ok |-> ok, payload |-> push.payload])

(* A request is answered: with the next to be made, after a search with    *)
(* the item found, or with the end of the push.                            *)
Answered ==
  /\ push # NoPush
  /\ LET request == Head(push.left)
         rest == Tail(push.left)
         found == Len(remote.items) > 0
     IN /\ Accepted(request, remote, push)
        /\ remote' = Carried(request, remote, push)
        /\ token' = (token \/ request.verb = "token")
        /\ IF request.verb = "find"
           THEN \E i \in IF found THEN DOMAIN remote.items ELSE {0} :
                  /\ push' = [push EXCEPT !.left = <<Ask(IF found THEN "update" ELSE "create", "evidence")>>, !.match = i]
                  /\ UNCHANGED grcEvents
           ELSE IF rest = <<>> THEN Finish(TRUE)
           ELSE push' = [push EXCEPT !.left = rest] /\ UNCHANGED grcEvents
  /\ UNCHANGED <<platform, config, pushed, lost>>

(* The reply to a request that was carried out is lost: vendorFetch sends  *)
(* it again.                                                               *)
ReplyLost ==
  /\ push # NoPush /\ lost.replies < MaxLost
  /\ LET request == Head(push.left)
     IN /\ Accepted(request, remote, push)
        /\ remote' = Carried(request, remote, push)
        /\ lost' = [lost EXCEPT !.replies = @ + 1, !.items = @ \/ request.verb = "create"]
  /\ UNCHANGED <<platform, config, push, pushed, token, grcEvents>>

(* Mutant: a session that failed is left as it is.                         *)
cancelNothing(r, p) == r

(* A failed session is cancelled, so that the next push may open one.      *)
cancel(r, p) == [r EXCEPT !.session = {s \in @ : s[2] # p.payload}]

(* A request is refused, or fails for good: the push is over.              *)
Refused ==
  /\ push # NoPush
  /\ LET request == Head(push.left)
         session == request.verb \in {"session", "complete"}
     IN \E cancelled \in BOOLEAN :
          /\ ~session => cancelled
          /\ remote' = IF session /\ cancelled THEN cancel(remote, push) ELSE remote
          /\ lost' = [lost EXCEPT !.sessions = @ \/ ~cancelled]
  /\ Finish(FALSE)
  /\ UNCHANGED <<platform, config, pushed, token>>

(* The row of Drata's evidence is made, with a file short.                 *)
CreatedShort ==
  /\ push # NoPush /\ Head(push.left).verb = "create"
  /\ remote' = [remote EXCEPT !.items = Append(@, {})]
  /\ Finish(FALSE)
  /\ UNCHANGED <<platform, config, pushed, token, lost>>

(* The process dies in a push: nothing is recorded of it.                  *)
DieInPush ==
  /\ push # NoPush
  /\ push' = NoPush /\ token' = FALSE
  /\ lost' = [lost EXCEPT !.sessions = TRUE]
  /\ UNCHANGED <<platform, config, pushed, remote, grcEvents>>

(* A cached token is not asked for again, and is dropped before it ends.   *)
TokenCached ==
  /\ push # NoPush /\ Head(push.left).verb = "token" /\ token
  /\ push' = [push EXCEPT !.left = Tail(@)]
  /\ UNCHANGED <<platform, config, pushed, token, remote, grcEvents, lost>>

TokenExpires ==
  /\ token /\ token' = FALSE
  /\ UNCHANGED <<platform, config, push, pushed, remote, grcEvents, lost>>

GrcNext ==
  \/ PushGrc \/ Answered \/ ReplyLost \/ Refused \/ CreatedShort \/ DieInPush
  \/ TokenCached \/ TokenExpires

GrcSpec == GrcInit /\ [][GrcNext]_grcVars

-----------------------------------------------------------------------------
(* A push that is recorded as made is at the platform, all of it, or a     *)
(* later one is; a session is left open at Drata, where it would keep      *)
(* every later push out, only by a process that died or a platform that    *)
(* could not be told; and there is one item of evidence, unless a reply    *)
(* was lost (index.js:98, drata.js:60, 150).                               *)
PushIsWhatWasRecorded ==
  /\ \A i \in DOMAIN grcEvents : grcEvents[i].ok =>
       LET v == grcEvents[i].payload
       IN /\ "tests" \in config => remote.tests >= v
          /\ "accounts" \in config => remote.accounts >= v
          /\ "evidence" \in config => \E k \in DOMAIN remote.items : v \in remote.items[k]
  /\ push = NoPush /\ remote.session # {} => lost.sessions
  /\ platform = "drata" /\ Len(remote.items) > 1 => lost.items
==============================================================================
