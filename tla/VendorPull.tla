----------------------------- MODULE VendorPull ------------------------------
(***************************************************************************)
(* src/src/audit/vendors: the audit logs of the vendors, pulled page by    *)
(* page from a saved cursor and recorded one by one in Tollpike's own log. *)
(* A connector is told by how it reads: from which end, whether the cursor *)
(* itself is read again, up to where, and on which pages it hands back a   *)
(* cursor.  One connector is pulled here; two of them share no state but   *)
(* a file each rewrites in one step.  The pages of a vendor do not change  *)
(* behind its cursor; what it adds comes at the end.                       *)
(***************************************************************************)
EXTENDS Integers, Sequences, FiniteSets, FiniteSetsExt, SequencesExt

CONSTANTS None,
          Connectors,     \* the connectors to pull, each by its shape
          Roles,          \* the roles of the one account of the Admin API
          PAGE, SEEN_MAX, MAX_PAGES,
          WINDOW,         \* the day that a window of the activity feed spans
          MaxRecords, MaxNow, MaxPulls

ASSUME VendorAssumption ==
  /\ {PAGE, SEEN_MAX, MAX_PAGES, WINDOW, MaxRecords, MaxNow, MaxPulls} \subseteq Nat \ {0}
  /\ None \notin Nat

(* order: which records come first, or windows of time.  again: whether    *)
(* the cursor's own instant is read again.  closed: whether reading stops  *)
(* short of the present.  moves: on which pages a cursor comes, "tail"     *)
(* being a page of its own after the last.                                 *)
openaiPlatform ==
  [order |-> "newest", again |-> TRUE, closed |-> FALSE, moves |-> "tail", ascending |-> FALSE]
chatgptEnterprise ==
  [order |-> "oldest", again |-> FALSE, closed |-> FALSE, moves |-> "each", ascending |-> FALSE]
anthropicCompliance ==
  [order |-> "newest", again |-> FALSE, closed |-> FALSE, moves |-> "tail", ascending |-> FALSE]
cursorAudit ==
  [order |-> "newest", again |-> TRUE, closed |-> FALSE, moves |-> "last", ascending |-> FALSE]
githubCopilot ==
  [order |-> "oldest", again |-> TRUE, closed |-> FALSE, moves |-> "last", ascending |-> TRUE]
googleGemini ==
  [order |-> "newest", again |-> TRUE, closed |-> TRUE, moves |-> "tail", ascending |-> FALSE]
microsoftCopilot ==
  [order |-> "windows", again |-> TRUE, closed |-> FALSE, moves |-> "each", ascending |-> FALSE]
microsoftCopilotChat ==
  [order |-> "newest", again |-> FALSE, closed |-> TRUE, moves |-> "tail", ascending |-> FALSE]
anthropicAdmin ==
  [order |-> "snapshot", again |-> FALSE, closed |-> FALSE, moves |-> "each", ascending |-> FALSE]

ASSUME ConnectorsAssumption ==
  Connectors \subseteq {openaiPlatform, chatgptEnterprise, anthropicCompliance, cursorAudit,
                        githubCopilot, googleGemini, microsoftCopilot, microsoftCopilotChat,
                        anthropicAdmin}

VARIABLES connector, now,
          log,          \* the vendor's records, each by its time
          saved,        \* vendor-state.json: cursor, seen, and snapshot
          pull,         \* the pull under way: `running` and its locals
          pulls,
          role,         \* what the account's role is
          fate,         \* of each record: what became of it here
          excused,      \* the records that may well be recorded twice
          told          \* the role, as the audit log has it

vendorVars == <<connector, now, log, saved, pull, pulls, role, fate, excused, told>>

Unsure == "unsure"   \* the log had no room for a change of role

VendorInit ==
  /\ connector \in Connectors
  /\ now = 1 /\ log = <<>> /\ pull = None /\ pulls = 0
  /\ saved = [cursor |-> None, seen |-> <<>>, snapshot |-> None]
  /\ role \in Roles /\ told = Unsure
  /\ connector.order # "snapshot" => role = CHOOSE r \in Roles : TRUE
  /\ fate = <<>> /\ excused = {}

-----------------------------------------------------------------------------
(* What a query from `since` matches, and what is left of it.              *)
Match(since, end) ==
  {i \in DOMAIN log : /\ IF connector.again THEN log[i] >= since ELSE log[i] > since
                      /\ connector.closed => log[i] < end}
Left(p) ==
  {i \in Match(p.since, p.end) : IF connector.order = "newest" THEN i < p.at ELSE i > p.at}

to(p) == IF p.from + WINDOW < now THEN p.from + WINDOW ELSE now
Window(p) == {i \in DOMAIN log : p.from <= log[i] /\ log[i] < to(p)}

(* Whether record i is handled before record j.                            *)
sooner(i, j) == IF connector.order = "newest" THEN i > j ELSE i < j

ahead(ids, i) == {j \in ids : sooner(j, i)}
final(ids) == CHOOSE i \in ids : \A j \in ids : j = i \/ sooner(j, i)
inTurn(ids) ==
  [n \in 1 .. Cardinality(ids) |-> CHOOSE i \in ids : Cardinality(ahead(ids, i)) = n - 1]

(* The records of the next page.                                           *)
Records(p) ==
  IF connector.order = "windows" THEN Window(p)
  ELSE {i \in Left(p) : Cardinality(ahead(Left(p), i)) < PAGE}

Newest(t, ids) ==
  LET times == ({t} \cup {log[i] : i \in ids}) \ {None}
  IN  IF times = {} THEN None ELSE Max(times)

More(p, ids) == IF connector.order = "windows" THEN to(p) < now - 1 ELSE ids # Left(p)

(* Mutant: a cursor comes with every page.                                 *)
CursorEach(p, ids) ==
  IF p.tail THEN IF connector.closed THEN p.end ELSE p.newest
  ELSE IF connector.order = "windows" THEN to(p)
  ELSE IF ids = {} THEN None ELSE Newest(p.newest, ids)

(* The cursor that comes with a page, if one does.                         *)
Cursor(p, ids) ==
  IF p.tail THEN IF connector.closed THEN p.end ELSE p.newest
  ELSE IF connector.order = "windows" THEN to(p)
  ELSE CASE connector.moves = "each" -> IF ids = {} THEN None ELSE log[final(ids)]
         [] connector.moves = "last" /\ ~More(p, ids) -> Newest(p.newest, ids)
         [] OTHER -> None

rememberSeen(ids) ==
  LET all == saved.seen \o ids
  IN IF Len(all) > SEEN_MAX THEN SubSeq(all, Len(all) - SEEN_MAX + 1, Len(all)) ELSE all

(* pullVendor, up to the first page: one pull of a vendor at a time.       *)
StartPull ==
  /\ pull = None /\ pulls < MaxPulls /\ connector.order # "snapshot"
  /\ LET since == IF saved.cursor = None THEN 0 ELSE saved.cursor
         end == now - 1
         p == [since |-> since, end |-> end, from |-> since,
               at |-> IF connector.order = "newest" THEN Len(log) + 1 ELSE 0,
               newest |-> since, newestTs |-> None, moved |-> FALSE, pages |-> 0,
               tail |-> FALSE, seen |-> ToSet(saved.seen)]
         nothing == \/ connector.closed /\ since >= end
                    \/ connector.order = "windows" /\ since >= now - 1
                    \/ connector = chatgptEnterprise /\ Left(p) = {}
     IN pull' = IF nothing THEN None ELSE p
  /\ pulls' = pulls + 1
  /\ UNCHANGED <<connector, now, log, saved, role, fate, excused, told>>

(* Whether the next pull may be offered a record, and what never will be:  *)
(* the instant that both ends of a window leave out.                       *)
Offered(i, cursor) ==
  cursor = None \/ (IF connector.again THEN log[i] >= cursor ELSE log[i] > cursor)
Edge(cursor) ==
  {i \in DOMAIN log : connector.closed /\ ~connector.again /\ log[i] = cursor}

(* The records in the window told of when a long backlog is cut.           *)
gap(p, newestTs) ==
  IF connector.ascending THEN {}
  ELSE {i \in DOMAIN log : p.since <= log[i] /\ log[i] <= newestTs}

(* A page: its new records are recorded, or could not be, or, with auditing *)
(* off, are passed over; then the cursor and the seen window are     *)
(* saved.  After MAX_PAGES the cursor moves to the newest record read.     *)
Page ==
  /\ pull # None
  /\ LET p == pull
         ids == IF p.tail THEN {} ELSE Records(p)
         fresh == ids \ p.seen
         newestTs == Newest(p.newestTs, fresh)
         c == Cursor(p, ids)
         moved == p.moved \/ c # None
         capped == p.pages + 1 >= MAX_PAGES
         skip == capped /\ ~moved /\ newestTs # None
         cursor == IF c # None THEN c ELSE IF skip THEN newestTs ELSE saved.cursor
         over == p.tail \/ (~More(p, ids) /\ connector.moves # "tail")
     IN \E failed \in SUBSET fresh, auditing \in BOOLEAN :
          /\ ~auditing => failed = {}
          /\ LET marked == fresh \ failed
                 seen == rememberSeen(inTurn(marked))
             IN /\ saved' = [saved EXCEPT !.cursor = cursor, !.seen = seen]
                /\ excused' = excused \cup ((ToSet(saved.seen) \cup marked) \ ToSet(seen))
                /\ fate' = [i \in DOMAIN log |->
                     IF i \in fresh
                     THEN fate[i] \cup {IF ~auditing THEN "off"
                                         ELSE IF i \in failed THEN "failed"
                                         ELSE IF "recorded" \in fate[i] THEN "twice"
                                         ELSE "recorded"}
                     ELSE IF i \in Edge(cursor) THEN fate[i] \cup {"edge"}
                     ELSE IF skip /\ i \in gap(p, newestTs) THEN fate[i] \cup {"gap"}
                     ELSE fate[i]]
                /\ pull' = IF over \/ capped THEN None
                     ELSE [p EXCEPT !.pages = @ + 1, !.moved = moved, !.newestTs = newestTs,
                             !.newest = Newest(@, ids), !.seen = @ \cup marked,
                             !.at = IF ids = {} THEN @ ELSE final(ids),
                             !.from = IF connector.order = "windows" THEN to(p) ELSE @,
                             !.tail = ~More(p, ids)]
  /\ UNCHANGED <<connector, now, log, pulls, role, told>>

(* The process dies, or the state cannot be written, with some of a page   *)
(* recorded: that page comes again.                                        *)
CutShort ==
  /\ pull # None /\ ~pull.tail
  /\ LET fresh == Records(pull) \ pull.seen
     IN \E n \in 0..Cardinality(fresh) :
          LET done == {i \in fresh : Cardinality(ahead(fresh, i)) < n}
          IN /\ fate' = [i \in DOMAIN log |->
                  IF i \notin done THEN fate[i]
                  ELSE IF "recorded" \in fate[i] THEN fate[i] \cup {"twice"}
                  ELSE fate[i] \cup {"recorded"}]
             /\ excused' = excused \cup done
  /\ pull' = None
  /\ UNCHANGED <<connector, now, log, saved, pulls, role, told>>

(* vendorFetch gives up after three tries: the pages before stay saved.    *)
PageFails ==
  /\ pull # None /\ ~pull.tail
  /\ pull' = None
  /\ UNCHANGED <<connector, now, log, saved, pulls, role, fate, excused, told>>

-----------------------------------------------------------------------------
(* The name of a change: what it was from and to, and not when.            *)
vendorId(from, toRole) == <<from, toRole>>

(* A pull of the Admin API: the snapshot is compared with the one before,  *)
(* and the change, if it was not seen before, is recorded.                 *)
PullSnapshot ==
  /\ connector.order = "snapshot" /\ pulls < MaxPulls
  /\ pulls' = pulls + 1
  /\ LET was == saved.snapshot
         id == vendorId(was, role)
         changed == was \notin {None, role}
         fresh == changed /\ id \notin ToSet(saved.seen)
     IN \E written, auditing \in BOOLEAN :
          /\ ~fresh \/ ~auditing => ~written
          /\ told' = IF was = None \/ (fresh /\ written) THEN role
                     ELSE IF fresh THEN Unsure ELSE told
          /\ saved' = [saved EXCEPT !.snapshot = role, !.cursor = now,
                         !.seen = rememberSeen(IF fresh /\ (written \/ ~auditing)
                                               THEN <<id>> ELSE <<>>)]
  /\ UNCHANGED <<connector, now, log, pull, role, fate, excused>>

-----------------------------------------------------------------------------
(* At the vendor: a record is added, a role is changed.  Where the instant *)
(* of the cursor is not read again no two records bear the same instant.   *)
Arrive ==
  /\ connector.order # "snapshot" /\ Len(log) < MaxRecords
  /\ ~connector.again /\ log # <<>> => Last(log) < now
  /\ log' = Append(log, now) /\ fate' = Append(fate, {})
  /\ UNCHANGED <<connector, now, saved, pull, pulls, role, excused, told>>

ChangeRole ==
  /\ connector.order = "snapshot"
  /\ \E r \in Roles \ {role} : role' = r
  /\ UNCHANGED <<connector, now, log, saved, pull, pulls, fate, excused, told>>

VendorTick ==
  /\ now < MaxNow /\ now' = now + 1
  /\ UNCHANGED <<connector, log, saved, pull, pulls, role, fate, excused, told>>

VendorNext ==
  \/ StartPull \/ Page \/ CutShort \/ PageFails \/ PullSnapshot
  \/ Arrive \/ ChangeRole \/ VendorTick

VendorSpec == VendorInit /\ [][VendorNext]_vendorVars

-----------------------------------------------------------------------------
(* A record the vendor will not be asked for again is in Tollpike's log,   *)
(* or in a gap the log tells of, or is one the log had no room for or was  *)
(* told not to keep; and it is there once, unless the process died before  *)
(* its page was saved, or it fell out of the seen window.  Left out is the *)
(* one instant at the edge of a window of Microsoft's chats (index.js:86,  *)
(* 99, 112; microsoft.js:150).                                             *)
NothingSkippedSilently ==
  \A i \in DOMAIN log :
    /\ ~Offered(i, saved.cursor) => fate[i] # {}
    /\ "twice" \in fate[i] => i \in excused

(* A role that was changed is in the log as it is, unless the log had no   *)
(* room for the change (anthropic.js:121: users' role changes are covered).*)
RoleChangesRecorded ==
  saved.snapshot # None => told \in {saved.snapshot, Unsure}
==============================================================================
