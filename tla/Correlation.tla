----------------------------- MODULE Correlation -----------------------------
(***************************************************************************)
(* src/src/audit/endpoint/correlate.js and index.js: which processes of a  *)
(* machine are an agent's, and which recorded action explains each.  The   *)
(* gateway's table is made of creation events and snapshots; it does not   *)
(* hear of exits, and a pid is used again.  The events of one machine come *)
(* in order, and auditing is on: with auditing off they are dropped, and   *)
(* the table keeps what it had.                                            *)
(***************************************************************************)
EXTENDS Integers, Sequences, FiniteSets, FiniteSetsExt, SequencesExt

CONSTANTS Pids, Commands,
          Reported,    \* the commands that some capture point records
          NoCommand, NoEntry, NoAction,
          MAX_PER_HOST, MAX_DEPTH, MaxProcesses, MaxQueue

ASSUME CorrelationAssumption ==
  /\ {MAX_PER_HOST, MAX_DEPTH, MaxProcesses, MaxQueue} \subseteq Nat \ {0}
  /\ Pids \subseteq Nat \ {0} /\ Pids # {}
  /\ Commands # {} /\ Reported \subseteq Commands
  /\ NoAction \notin Commands /\ NoCommand \notin Commands

VARIABLES processes,   \* every process there was: pid, parent, kind, command
          alive,       \* those that live
          sensor,      \* the creation events on their way
          table,       \* the gateway's entries, in the order they were put there;
                       \* `of` is the process whose row an entry was made from,
                       \* which the gateway does not know
          actions,     \* the commands recorded within the window
          logged       \* what the step just taken said of a process in the audit log

correlationVars == <<processes, alive, sensor, table, actions, logged>>

CorrelationInit ==
  /\ processes = <<[pid |-> Min(Pids), parent |-> 0, kind |-> "runtime", command |-> NoCommand]>>
  /\ alive = {1} /\ sensor = <<1>>
  /\ table = <<>> /\ actions = {} /\ logged = {}

-----------------------------------------------------------------------------
(* On the machine: a process starts another, of the agent's runtime again, *)
(* of its helpers, or one that runs a command, under the least free pid;   *)
(* or it ends.                                                             *)
Spawn ==
  /\ Len(processes) < MaxProcesses /\ Len(sensor) < MaxQueue
  /\ {processes[i].pid : i \in alive} # Pids
  /\ \E pid \in {Min(Pids \ {processes[i].pid : i \in alive})}, parent \in alive,
        kind \in {"runtime", "helper", "tool"}, command \in Commands :
       /\ kind # "tool" => command = CHOOSE c \in Commands : TRUE
       /\ processes' = Append(processes, [pid |-> pid, parent |-> parent, kind |-> kind,
                                command |-> IF kind = "tool" THEN command ELSE NoCommand])
  /\ alive' = alive \cup {Len(processes) + 1}
  /\ sensor' = Append(sensor, Len(processes) + 1)
  /\ logged' = {} /\ UNCHANGED <<table, actions>>

ProcessEnds ==
  /\ \E i \in alive : alive' = alive \ {i}
  /\ logged' = {} /\ UNCHANGED <<processes, sensor, table, actions>>

-----------------------------------------------------------------------------
placesOf(t, pid) == {i \in DOMAIN t : t[i].pid = pid}
placeOf(t, pid) == CHOOSE i \in placesOf(t, pid) : TRUE
get(t, pid) == IF placesOf(t, pid) = {} THEN NoEntry ELSE t[placeOf(t, pid)]
drop(t, pid) == IF placesOf(t, pid) = {} THEN t ELSE RemoveAt(t, placeOf(t, pid))

(* The oldest entry that is no runtime goes, or else the oldest.           *)
evict(t) ==
  IF Len(t) <= MAX_PER_HOST THEN t
  ELSE LET plain == {i \in DOMAIN t : t[i].kind # "runtime"}
       IN RemoveAt(t, IF plain = {} THEN 1 ELSE Min(plain))

ppid(i) == IF processes[i].parent = 0 THEN 0 ELSE processes[processes[i].parent].pid

entryOf(i) ==
  [of |-> i, pid |-> processes[i].pid, ppid |-> ppid(i), kind |-> processes[i].kind,
   command |-> processes[i].command, explainedBy |-> NoAction]

put(t, entry) == evict(Append(drop(t, entry.pid), entry))

(* Mutant: an explanation stays with the pid.                              *)
entryKeeps(t, i, snapshot) ==
  LET prev == get(t, processes[i].pid)
  IN [entryOf(i) EXCEPT !.explainedBy = IF prev = NoEntry THEN NoAction ELSE prev.explainedBy]

(* A row of a snapshot that has the image and the parent of the entry      *)
(* before it is taken to be the same process; an event is of a new one.    *)
newEntry(t, i, snapshot) ==
  LET prev == get(t, processes[i].pid)
      entry == entryOf(i)
      same == snapshot /\ prev # NoEntry /\ prev.kind = entry.kind /\ prev.ppid = entry.ppid
  IN [entry EXCEPT !.explainedBy = IF same THEN prev.explainedBy ELSE NoAction]

upsert(t, i, snapshot) == put(t, newEntry(t, i, snapshot))

(* The walk from an entry to what the table has under its parent's pid,     *)
(* and on, for MAX_DEPTH places; it ends where it comes to a pid again.     *)
climb(t, entry) ==
  LET up[k \in 0..MAX_DEPTH] ==
        IF k = 0 THEN entry
        ELSE IF up[k - 1] = NoEntry THEN NoEntry ELSE get(t, up[k - 1].ppid)
  IN up

reached(up) ==
  {k \in 1..MAX_DEPTH : \A m \in 1..k :
     up[m] # NoEntry /\ \A l \in 0..m - 1 : up[l].pid # up[m].pid}

(* classify: the runtime's process at the top of the tree, and what the    *)
(* nearest ancestor below it was explained by.                             *)
isTop(t, entry) ==
  LET parent == get(t, entry.ppid)
  IN entry.kind = "runtime" /\ ~(parent # NoEntry /\ parent.kind = "runtime")

classify(t, entry) ==
  LET up == climb(t, entry)
      tops == {k \in reached(up) : isTop(t, up[k])}
      explained == {k \in reached(up) : up[k].explainedBy # NoAction /\ \A m \in tops : k <= m}
  IN [isRoot |-> isTop(t, entry), inTree |-> tops # {},
      inherited |-> IF tops = {} \/ explained = {} THEN NoAction
                    ELSE up[Min(explained)].explainedBy]

findExplanation(entry) == IF entry.command \in actions THEN entry.command ELSE NoAction

-----------------------------------------------------------------------------
(* ingestEndpoint, for a creation event: the process is put in the table,  *)
(* and if it is in an agent's tree, and no helper, the log has it with     *)
(* what explains it.                                                       *)
IngestProcess ==
  /\ sensor # <<>> /\ sensor' = Tail(sensor)
  /\ LET i == sensor[1]
         t == upsert(table, i, FALSE)
         entry == newEntry(table, i, FALSE)
         where == classify(t, entry)
         by == IF where.inherited # NoAction THEN where.inherited ELSE findExplanation(entry)
         judged == where.inTree /\ ~where.isRoot /\ entry.kind = "tool"
     IN IF ~judged
        THEN table' = t /\ logged' = {}
        ELSE /\ table' = [k \in DOMAIN t |->
                            IF t[k] = entry THEN [entry EXCEPT !.explainedBy = by] ELSE t[k]]
             /\ logged' = {[process |-> i, by |-> by]}
  /\ UNCHANGED <<processes, alive, actions>>

(* A snapshot: what lives now, in the order in which it was started where   *)
(* the machine tells the time of that, or in the order of the pids.         *)
orders ==
  LET n == Cardinality(alive)
  IN {rows \in [1..n -> alive] :
        \/ \A k, l \in 1..n : k < l => rows[k] < rows[l]
        \/ \A k, l \in 1..n : k < l => processes[rows[k]].pid < processes[rows[l]].pid}

listed(rows) ==
  LET t[k \in 0..Cardinality(alive)] ==
        IF k = 0 THEN table ELSE upsert(t[k - 1], rows[k], TRUE)
  IN t[Cardinality(alive)]

IngestSnapshot ==
  /\ \E rows \in orders : table' = listed(rows)
  /\ logged' = {} /\ UNCHANGED <<processes, alive, sensor, actions>>

(* noteAction, and the window that closes.                                 *)
NoteAction ==
  /\ \E c \in Reported \ actions : actions' = actions \cup {c}
  /\ logged' = {} /\ UNCHANGED <<processes, alive, sensor, table>>

WindowCloses ==
  /\ \E c \in actions : actions' = actions \ {c}
  /\ logged' = {} /\ UNCHANGED <<processes, alive, sensor, table>>

(* The gateway restarts: table and actions were in memory.                 *)
ForgetAll ==
  /\ table' = <<>> /\ actions' = {}
  /\ logged' = {} /\ UNCHANGED <<processes, alive, sensor>>

CorrelationNext ==
  \/ Spawn \/ ProcessEnds \/ IngestProcess \/ IngestSnapshot
  \/ NoteAction \/ WindowCloses \/ ForgetAll

-----------------------------------------------------------------------------
(* A process and those it comes from: what any set has that has the process *)
(* and the parent of whatever it has.                                      *)
Closed(S) == \A i \in S : processes[i].parent # 0 => processes[i].parent \in S
Ancestry(i) ==
  {j \in DOMAIN processes :
     \A S \in SUBSET DOMAIN processes : i \in S /\ Closed(S) => j \in S}

Earned(by, i) == \E j \in Ancestry(i) : processes[j].command = by

(* The pid of one that i comes from was given to another, whose place in   *)
(* the table is then where the walk from i leads.                          *)
Estranged(i) ==
  \E a \in Ancestry(i) \ {i}, j \in DOMAIN processes : j > a /\ processes[j].pid = processes[a].pid

(* What explains a process in the audit log is an action that it, or one   *)
(* of the processes it really comes from, was started by, and never one    *)
(* that belonged to an earlier process with its pid (correlate.js:96), as  *)
(* long as no process it comes from has ended and left its pid to another. *)
ExplanationsAreEarned ==
  \A v \in logged :
    v.by = NoAction \/ Estranged(v.process) \/ Earned(v.by, v.process)

(* What the comments promise of every process: it inherits what explains   *)
(* an ancestor of it (correlate.js:11, 136), and no explanation is handed  *)
(* to a stranger (:98).  The walk goes by pids alone: once a parent has    *)
(* ended, it leads to whatever process has its pid now.                    *)
NeverAStrangers ==
  \A v \in logged : v.by = NoAction \/ Earned(v.by, v.process)
==============================================================================
