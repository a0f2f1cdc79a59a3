--------------------------------- MODULE A2A ---------------------------------
(***************************************************************************)
(* The agent-to-agent server (a2a/server.js, a2a/skills.js): JSON-RPC calls, *)
(* alone or in a batch, over a bounded store of finished tasks.  The calls   *)
(* of a batch all start in one synchronous pass; message/send then awaits    *)
(* its skill, and the batch is answered when its last skill has ended.       *)
(***************************************************************************)
EXTENDS Integers, Sequences, FiniteSets

CONSTANTS
  Peers,          \* requests in flight
  NoId,           \* the id of a notification
  NoTask,
  MAX_TASKS,      \* tasks remembered
  MaxTasks,       \* bound: tasks ever begun
  MaxBatch        \* bound: calls in a batch

ASSUME TasksAssumption == MAX_TASKS \in Nat \ {0} /\ MaxTasks \in Nat /\ MaxBatch \in Nat

VARIABLES
  tasks,          \* the finished tasks, the oldest first
  finished,       \* every task that has finished since the start, in order
  posts,          \* the request of each peer
  begun           \* tasks begun so far

a2aVars == <<tasks, finished, posts, begun>>

TaskIds == 1 .. MaxTasks
NoPost == [at |-> "idle"]

\* message/send for a skill, known or not; tasks/get and tasks/cancel of a
\* task; what is no call at all or names no method.
Calls == [method : {"send", "sendUnknownSkill", "malformed"}, task : {NoTask}, id : {"i", NoId}]
           \cup [method : {"get", "cancel"}, task : TaskIds, id : {"i"}]

A2AInit ==
  /\ tasks = <<>> /\ finished = <<>> /\ begun = 0
  /\ posts = [p \in Peers |-> NoPost]

-----------------------------------------------------------------------------
remembered(task) == \E i \in DOMAIN tasks : tasks[i] = task

\* An answer: the error code, or the task.
failure(code) == [code |-> code, task |-> NoTask]
success(task) == [code |-> 0, task |-> task]

\* tasks/get and tasks/cancel: every task a peer can name has ended.
handleTasksGet(call) == IF remembered(call.task) THEN success(call.task) ELSE failure(-32001)
handleTasksCancel(call) == failure(IF remembered(call.task) THEN -32002 ELSE -32001)

\* The calls that do not wait.
immediate(call) ==
  CASE call.method = "malformed"        -> failure(-32600)
    [] call.method = "sendUnknownSkill" -> failure(-32602)
    [] call.method = "get"              -> handleTasksGet(call)
    [] call.method = "cancel"           -> handleTasksCancel(call)

\* A notification is answered with nothing, unless it is malformed.
replied(call) == call.id # NoId \/ call.method = "malformed"

\* handleA2A: every call starts, in order; those that send a message wait.
Post(p) ==
  /\ posts[p].at = "idle"
  /\ \E n \in 1 .. MaxBatch : \E calls \in [1 .. n -> Calls] :
       LET sends == {i \in 1 .. n : calls[i].method = "send"}
           number(i) == begun + Cardinality({j \in sends : j <= i}) IN
       /\ begun + Cardinality(sends) <= MaxTasks
       /\ begun' = begun + Cardinality(sends)
       /\ posts' = [posts EXCEPT ![p] =
            [at |-> "runs",
             waits |-> {[task |-> number(i), id |-> calls[i].id] : i \in sends},
             body |-> {immediate(calls[i]) : i \in {j \in 1 .. n \ sends : replied(calls[j])}}]]
  /\ UNCHANGED <<tasks, finished>>

\* Map keeps insertion order: the first key is the oldest task.
(* Mutant: one too few are kept. *)
keepFewer(task) == LET all == Append(tasks, task) IN
  IF Len(all) >= MAX_TASKS THEN Tail(all) ELSE all
remember(task) == LET all == Append(tasks, task) IN
  IF Len(all) > MAX_TASKS THEN Tail(all) ELSE all

\* A skill ends, well or not: either way its task is remembered and is the
\* answer to the call, if the call has an id.
SkillEnds(p) ==
  /\ posts[p].at = "runs"
  /\ \E call \in posts[p].waits :
       /\ tasks' = remember(call.task)
       /\ finished' = Append(finished, call.task)
       /\ posts' = [posts EXCEPT ![p].waits = @ \ {call},
                      ![p].body = IF call.id = NoId THEN @ ELSE @ \cup {success(call.task)}]
  /\ UNCHANGED begun

\* The last call has ended: what is left of the answers is the reply.
Reply(p) ==
  /\ posts[p].at = "runs" /\ posts[p].waits = {}
  /\ posts' = [posts EXCEPT ![p] = NoPost]
  /\ UNCHANGED <<tasks, finished, begun>>

\* A restart loses the tasks, and the requests.
RestartsA2A ==
  /\ finished # <<>>
  /\ tasks' = <<>> /\ finished' = <<>>
  /\ posts' = [p \in Peers |-> NoPost]
  /\ UNCHANGED begun

A2ANext ==
  \/ \E p \in Peers : Post(p) \/ SkillEnds(p) \/ Reply(p)
  \/ RestartsA2A

A2ASpec == A2AInit /\ [][A2ANext]_a2aVars

-----------------------------------------------------------------------------
\* A task that an answer names, as the one just run or as the one asked for,
\* is found by tasks/get until MAX_TASKS newer ones have finished, whatever
\* else the batch did or was refused, and however the batches interleave
\* (a2a/server.js, remember and handleA2A).
AnsweredIsFound ==
  \A p \in Peers : posts[p].at = "runs" =>
    \A answer \in posts[p].body : answer.code = 0 =>
      \/ remembered(answer.task)
      \/ \E j \in DOMAIN finished :
           finished[j] = answer.task /\ Len(finished) - j >= MAX_TASKS
=============================================================================
