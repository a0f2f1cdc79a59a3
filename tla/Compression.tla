----------------------------- MODULE Compression -----------------------------
(***************************************************************************)
(* What compression does to a conversation (compression/compress.js): which *)
(* messages it forgets and which layers it runs over the others.  What the  *)
(* layers do to the text is left out: a message that is sent carries where  *)
(* it stood in the conversation and whether its prose was compressed.       *)
(*                                                                          *)
(* A client sends its whole conversation every time, one turn longer; each   *)
(* request is compressed for itself, under the settings of the moment.      *)
(***************************************************************************)
EXTENDS Integers, Sequences, FiniteSets, SequencesExt

CONSTANTS
  MaxMessages     \* bound: messages of a conversation

VARIABLES
  config,         \* the compression settings: historyWindow, caveman's level and scope
  conversation,   \* the conversation, as the client sends it
  short           \* what becomes of it

compressionVars == <<config, conversation, short>>

\* An assistant message that calls a tool is told from one that does not; the
\* results of its calls follow it, and then it is the assistant's turn.
Roles == {"system", "user", "assistant", "call", "tool"}

Configs == [historyWindow : 0 .. 3, caveman : BOOLEAN, scope : {"tools", "tools+history", "all"}]

mayFollow(role) ==
  LET last == IF conversation = <<>> THEN "none" ELSE conversation[Len(conversation)] IN
  CASE role = "tool"   -> last \in {"call", "tool"}
    [] role = "system" -> last \in {"none", "system"}
    [] role = "user"   -> last # "call"
    [] OTHER           -> last # "call"

-----------------------------------------------------------------------------
\* The messages that are the system's, and the others, by their place.
systemMsgs(said) == {i \in DOMAIN said : said[i] = "system"}
nonSystem(said) == {i \in DOMAIN said : said[i] # "system"}

inTurn(places) ==
  [n \in 1 .. Cardinality(places) |->
     CHOOSE i \in places : Cardinality({j \in places : j < i}) = n - 1]

\* The window: never does it begin on a result, whose call would be left out.
latest(others, window) == {i \in others : Cardinality({j \in others : j > i}) < window}

(* Mutant: it begins where it begins. *)
cutAnywhere(said, others, window) == latest(others, window)
recent(said, others, window) ==
  {i \in others : \E j \in latest(others, window) : j <= i /\ said[j] # "tool"}

\* Old turns are forgotten, the first user message excepted: it is the task.
kept(said, window) ==
  LET others == nonSystem(said)
      asked  == {i \in others : said[i] = "user"}
  IN IF window = 0 \/ Cardinality(others) <= window THEN others
     ELSE recent(said, others, window) \cup {i \in asked : \A j \in asked : i <= j}

\* layersFor: is the prose of this message compressed?
paraphrased(role, isNewest, c) ==
  /\ c.caveman /\ role # "system"
  /\ \/ role = "tool"
     \/ isNewest /\ c.scope = "all"
     \/ ~isNewest /\ c.scope \in {"all", "tools+history"}

compressMessages(said, c) ==
  LET truncated == inTurn(systemMsgs(said)) \o inTurn(kept(said, c.historyWindow)) IN
  [n \in DOMAIN truncated |->
     [place |-> truncated[n], role |-> said[truncated[n]],
      lossy |-> paraphrased(said[truncated[n]], n = Len(truncated), c)]]

-----------------------------------------------------------------------------
CompressionInit ==
  /\ config \in Configs
  /\ conversation = <<>> /\ short = <<>>

Say ==
  /\ Len(conversation) < MaxMessages
  /\ \E role \in Roles : mayFollow(role) /\ conversation' = Append(conversation, role)
  /\ short' = compressMessages(conversation', config)
  /\ UNCHANGED config

CompressionNext == Say

-----------------------------------------------------------------------------
\* However the window falls, the conversation still makes sense to a provider
\* and to the model: no result without the call before it, the operator's text
\* and the task are there and in their words' order, what is recent is there
\* unless it is a result, and nothing is said twice (compress.js, 195-211).
ConversationMakesSense ==
  LET place(n) == short[n].place IN
  /\ \A n \in DOMAIN short : short[n].role = "tool" =>
       n > 1 /\ short[n - 1].role \in {"call", "tool"} /\ place(n - 1) = place(n) - 1
  /\ \A n \in 1 .. Len(short) - 1 : place(n) < place(n + 1)
  /\ \A i \in DOMAIN conversation :
       conversation[i] = "system" \/ (conversation[i] = "user" /\ \A j \in 1 .. i - 1 : conversation[j] # "user")
         => \E n \in DOMAIN short : place(n) = i
  /\ \A i \in DOMAIN conversation : conversation[i] # "tool" /\ i > Len(conversation) - config.historyWindow
         => \E n \in DOMAIN short : place(n) = i
=============================================================================
