------------------------------ MODULE MCRequest ------------------------------
(***************************************************************************)
(* What becomes of a request: the chain of lanes it is routed along, the    *)
(* conversation as compression leaves it, the conversation as the provider  *)
(* is sent it, and the reply on its way back.  The four share no state, so  *)
(* a behaviour is of one of them and the others stay as they began.         *)
(***************************************************************************)
EXTENDS Streams, Conversations, Compression, Strategies

CONSTANTS anthropic, groq, ollama

(* Three lanes whose order in the file is not their priority, two of them    *)
(* free, one of them local, and a saved combo of each kind.                  *)
MCConfigured == <<groq, ollama, anthropic>>

Of(priority, name, category, billing, free, price, window) ==
  [priority |-> priority, name |-> name, category |-> category, billing |-> billing, free |-> free,
   verified |-> category = "frontier", price |-> price, window |-> window]

MCProfile ==
  anthropic :> Of(1, 1, "frontier", "metered", FALSE, 9, 8) @@
  groq      :> Of(11, 2, "inference", "free-tier", TRUE, 2, 4) @@
  ollama    :> Of(50, 3, "local", "local", TRUE, 0, 0)

Seen(latency, recorded, failures, headroom) ==
  [latency |-> latency, recorded |-> recorded, failures |-> failures, headroom |-> headroom]

(* Never used; measured and well; measured and down; and out of quota.       *)
MCObservations ==
  {Seen(0, FALSE, 0, 2), Seen(3, TRUE, 0, 1), Seen(5, TRUE, Behind, 2), Seen(4, TRUE, 1, 0)}

MCLucks == {anthropic :> 1 @@ groq :> 2 @@ ollama :> 3,
            anthropic :> 3 @@ groq :> 1 @@ ollama :> 2}

MCCustom == [mine    |-> Combo(<<Tier("roundrobin", {}), Tier("sticky", {"freeOnly"})>>),
             offline |-> [Combo(<<Tier("randomized", {"local"})>>) EXCEPT !.strict = TRUE]]

-----------------------------------------------------------------------------
VARIABLE part

requestVars == <<part, streamVars, conversationVars, compressionVars, strategiesVars>>

RequestInit ==
  /\ part \in {"chain", "compression", "conversation", "reply"}
  /\ StrategiesInit /\ CompressionInit /\ ConversationsInit /\ StreamsInit
  /\ part # "chain" => seen = [p \in Providers |-> Seen(0, FALSE, 0, 2)]
  /\ part # "compression" => config = [historyWindow |-> 0, caveman |-> FALSE, scope |-> "tools"]
  /\ part # "conversation" => speaks = "chat" /\ turns = <<>>
  /\ part # "reply" => provider = "gemini" /\ dialect = "chat"

RequestNext ==
  \/ /\ part = "chain" /\ StrategiesNext
     /\ UNCHANGED <<part, streamVars, conversationVars, compressionVars>>
  \/ /\ part = "compression" /\ CompressionNext
     /\ UNCHANGED <<part, streamVars, conversationVars, strategiesVars>>
  \/ /\ part = "conversation" /\ ConversationsNext
     /\ UNCHANGED <<part, streamVars, compressionVars, strategiesVars>>
  \/ /\ part = "reply" /\ StreamsNext
     /\ UNCHANGED <<part, conversationVars, compressionVars, strategiesVars>>

RequestSpec == RequestInit /\ [][RequestNext]_requestVars

(* The two promises of a chain together, in the behaviours that route.      *)
ChainsInOrder == part = "chain" => EveryLaneOnce /\ FirstTierWins

(* The two promises of a translated request together.                       *)
RequestKept == NothingLost /\ ChoiceKept
==============================================================================
