---------------------------- MODULE Conversations ----------------------------
(***************************************************************************)
(* A conversation with tool calls on its way from a client to a provider:  *)
(* what the client wrote in its dialect becomes chat messages              *)
(* (src/src/inbound), and these become what the provider accepts           *)
(* (src/src/providers).  The dialects disagree about where calls and       *)
(* results are put, about ids, and about how messages may follow another.  *)
(*                                                                         *)
(* Calls are numbered as they are made; a result holds the number of the   *)
(* call it answers.  Texts are numbered as they are written.               *)
(***************************************************************************)
EXTENDS Integers, Sequences, FiniteSets, SequencesExt

CONSTANTS Names,    \* of tools
          MaxTurns  \* of a conversation

ASSUME ConversationsAssumption == MaxTurns \in Nat

VARIABLES speaks,  \* the client's dialect
          turns    \* what was said, turn by turn

conversationVars == <<speaks, turns>>

Nothing == 0

-----------------------------------------------------------------------------
(* Turns, as every dialect can write them.  `late` is an assistant's text  *)
(* that came after its calls; `names` says whether results name the tool.  *)

System(n) == [who |-> "system", text |-> n]
User(n) == [who |-> "user", text |-> n]
Assistant(n, calls, late) == [who |-> "assistant", text |-> n, calls |-> calls, late |-> late]
Results(order, n, names) == [who |-> "results", answers |-> order, text |-> n, names |-> names]

CallsIn(t) == IF t.who = "assistant" THEN t.calls ELSE <<>>
Calls == FlattenSeq([i \in DOMAIN turns |-> CallsIn(turns[i])])
NameOf(c) == Calls[c].name
IdOf(c) == Calls[c].id

(* Gemini gives no ids: one is made from the tool and the position in the  *)
(* reply, so it comes back in a later turn.  Other ids are all different.  *)
Made(by, name, c, position) ==
  IF by = "gemini" THEN <<"gemini", name, position>> ELSE <<"id", c>>

-----------------------------------------------------------------------------
(* Chat messages.                                                          *)
Message(role, text, calls, answers, holds) ==
  [role |-> role, text |-> text, calls |-> calls, answers |-> answers, holds |-> holds]
NoId == <<>>
Said(role, text) == Message(role, text, <<>>, NoId, Nothing)
ToolMessage(id, holds) == Message("tool", Nothing, <<>>, id, holds)
SaidIf(role, text) == IF text = Nothing THEN <<>> ELSE <<Said(role, text)>>

ChatCalls(t) == [i \in DOMAIN t.calls |-> [id |-> t.calls[i].id, name |-> t.calls[i].name]]

(* A message of the Messages API: calls and results are blocks inside it.  *)
fromAnthropicTurn(t) ==
  CASE t.who \in {"system", "user"} -> <<Said(t.who, t.text)>>
    [] t.who = "assistant" -> <<Message("assistant", t.text, ChatCalls(t), NoId, Nothing)>>
    [] t.who = "results" ->
         [i \in DOMAIN t.answers |-> ToolMessage(IdOf(t.answers[i]), t.answers[i])]
           \o SaidIf("user", t.text)

(* The items of the Responses API: every call is an item, and consecutive  *)
(* ones join the assistant's message before them.                          *)
ItemsOf(t) ==
  CASE t.who = "assistant" ->
         LET calls == [i \in DOMAIN t.calls |->
                         Message("assistant", Nothing, <<ChatCalls(t)[i]>>, NoId, Nothing)]
             text == SaidIf("assistant", t.text)
         IN IF t.late THEN calls \o text ELSE text \o calls
    [] OTHER -> fromAnthropicTurn(t)

AddItem(out, item) ==
  IF item.calls # <<>> /\ out # <<>> /\ out[Len(out)].role = "assistant"
  THEN [out EXCEPT ![Len(out)].calls = @ \o item.calls]
  ELSE Append(out, item)

inputToMessages == FoldLeft(AddItem, <<>>, FlattenSeq([i \in DOMAIN turns |-> ItemsOf(turns[i])]))

(* Messages of the Ollama API: calls have no ids, and a result names its   *)
(* tool or nothing.  Ids are made up, and a result gets that of the first  *)
(* open call of its name, or of the first open call.                       *)
WithOpen(s, t) ==
  LET ids == [i \in DOMAIN t.calls |-> [id |-> <<"call", s.n + i>>, name |-> t.calls[i].name]]
  IN [out |-> Append(s.out, Message("assistant", t.text, ids, NoId, Nothing)),
      open |-> s.open \o ids, n |-> s.n + Len(ids)]

(* Mutant: a result gets the first open call, whatever its name.           *)
WithAnswerInOrder(s, c, named) ==
  [s EXCEPT !.out = Append(@, ToolMessage(s.open[1].id, c)), !.open = Tail(@)]

WithAnswer(s, c, named) ==
  LET mine == {i \in DOMAIN s.open : named => s.open[i].name = NameOf(c)}
      i == CHOOSE j \in mine : \A k \in mine : j <= k
  IN [s EXCEPT !.out = Append(@, ToolMessage(s.open[i].id, c)), !.open = RemoveAt(@, i)]

OllamaTurn(s, t) ==
  CASE t.who = "assistant" /\ t.calls # <<>> -> WithOpen(s, t)
    [] t.who = "results" ->
         LET answered == FoldLeft(LAMBDA x, c : WithAnswer(x, c, t.names), s, t.answers)
         IN [answered EXCEPT !.out = @ \o SaidIf("user", t.text)]
    [] OTHER -> [s EXCEPT !.out = Append(@, Said(t.who, t.text))]

fromOllamaMessages == FoldLeft(OllamaTurn, [out |-> <<>>, open |-> <<>>, n |-> 0], turns).out

Messages ==
  CASE speaks \in {"chat", "anthropic"} ->
         FlattenSeq([i \in DOMAIN turns |-> fromAnthropicTurn(turns[i])])
    [] speaks = "responses" -> inputToMessages
    [] speaks = "ollama" -> fromOllamaMessages

-----------------------------------------------------------------------------
(* What a provider is sent.  Anthropic and Gemini take the system text     *)
(* apart, and messages of two roles in turn, each a sequence of parts.     *)
Block(kind, id, holds) == [kind |-> kind, id |-> id, holds |-> holds]

systemTextOf(ms) ==
  LET system == SelectSeq(ms, LAMBDA m : m.role = "system")
  IN [i \in DOMAIN system |-> system[i].text]

\* Calls and results are told apart by a field of the call, id or name.
PartsOf(m, field) ==
  IF m.role = "tool" THEN <<Block("result", m.answers, m.holds)>>
  ELSE (IF m.text = Nothing THEN <<>> ELSE <<Block("text", NoId, m.text)>>)
         \o [i \in DOMAIN m.calls |-> Block("call", m.calls[i][field], Nothing)]

RoleOf(m) == IF m.role = "assistant" THEN "assistant" ELSE "user"

(* Mutant: messages of one role that follow one another are not merged.    *)
MergedNever(raw) == raw

Merged(raw) ==
  FoldLeft(LAMBDA out, m :
             IF out # <<>> /\ out[Len(out)].role = m.role
             THEN [out EXCEPT ![Len(out)].parts = @ \o m.parts]
             ELSE Append(out, m), <<>>, raw)

Conversed(ms) == SelectSeq(ms, LAMBDA m : m.role # "system")

toAnthropicMessages(ms) ==
  LET c == Conversed(ms)
  IN Merged([i \in DOMAIN c |-> [role |-> RoleOf(c[i]),
                                 parts |-> PartsOf(c[i], "id")]])

(* Gemini has names for ids: a result carries the name its id stood for    *)
(* last.                                                                   *)
nameByToolCallId(ms) ==
  FoldLeft(LAMBDA f, call : (call.id :> call.name) @@ f, <<>>,
           FlattenSeq([i \in DOMAIN ms |-> ms[i].calls]))

toGeminiContents(ms) ==
  LET c == Conversed(ms)
      names == nameByToolCallId(ms)
      named(m) == IF m.role # "tool" THEN m
                  ELSE [m EXCEPT !.answers = IF @ \in DOMAIN names THEN names[@]
                                             ELSE "unknown_function"]
  IN Merged([i \in DOMAIN c |-> [role |-> RoleOf(c[i]),
                                 parts |-> PartsOf(named(c[i]), "name")]])

-----------------------------------------------------------------------------
(* Which tools the model may call: "unset", "auto", "none", "required", or *)
(* one by name.                                                            *)
ToolChoices == {"unset", "auto", "none", "required", "only"}
fromAnthropicToolChoice(c) == IF c = "none" THEN "unset" ELSE c
Chosen(c) == CASE speaks = "anthropic" -> fromAnthropicToolChoice(c)
               [] speaks = "ollama" -> "unset"
               [] OTHER -> c
(* Mutant: "none" is taken for "auto".                                     *)
toProviderChoiceLoose(c) == IF c \in {"unset", "auto", "none"} THEN "auto" ELSE c
toProviderChoice(c) == IF c \in {"unset", "auto"} THEN "auto" ELSE c

-----------------------------------------------------------------------------
(* The conversation grows, as a client's does: calls are answered before   *)
(* anything else is said.                                                  *)
ConversationsInit ==
  /\ speaks \in {"chat", "anthropic", "responses", "ollama"}
  /\ turns \in {<<>>, <<System(1)>>}

NextTurn == Len(turns) + 1
Unanswered == IF turns = <<>> THEN <<>> ELSE CallsIn(turns[Len(turns)])
Grow(t) == /\ Len(turns) < MaxTurns
           /\ turns' = Append(turns, t)
           /\ speaks' = speaks
LastSaid(who) == turns # <<>> /\ turns[Len(turns)].who \in who

Ask == Unanswered = <<>> /\ Grow(User(NextTurn))

Reply ==
  /\ LastSaid({"user", "results"})
  /\ \E names \in UNION {[1..k -> Names] : k \in 0..2}, by \in {"gemini", "other"},
        text \in {Nothing, NextTurn}, late \in BOOLEAN :
       LET first == Len(Calls)
       IN /\ names # <<>> \/ (text # Nothing /\ by = "other")
          /\ late => text # Nothing /\ names # <<>> /\ speaks = "responses"
          /\ Grow(Assistant(text, [i \in DOMAIN names |->
                    [id |-> Made(by, names[i], first + i, i), name |-> names[i]]], late))

(* Results come in any order, those of one tool in the order of its calls, *)
(* and all in order where they name no tool.                               *)
Orders ==
  LET first == Len(Calls) - Len(Unanswered)
      mine == {first + i : i \in DOMAIN Unanswered}
  IN {o \in SetToAllKPermutations(mine) :
        /\ Len(o) = Cardinality(mine)
        /\ \A i, j \in DOMAIN o : i < j /\ o[i] > o[j] => NameOf(o[i]) # NameOf(o[j])}

AnswerCalls ==
  /\ Unanswered # <<>>
  /\ \E o \in Orders, text \in {Nothing, NextTurn}, names \in BOOLEAN :
       /\ names \/ (speaks = "ollama" /\ \A i, j \in DOMAIN o : i < j => o[i] < o[j])
       /\ Grow(Results(o, text, names))

ConversationsNext == Ask \/ Reply \/ AnswerCalls

-----------------------------------------------------------------------------
(* What a provider that keeps ids demands: two roles in turn, beginning    *)
(* with the user's, and after every message that makes calls one that      *)
(* begins with their results, each once, and results nowhere else.         *)
PartsOfKind(m, k) == SelectSeq(m.parts, LAMBDA p : p.kind = k)
IdsOf(parts) == [i \in DOMAIN parts |-> parts[i].id]
BagOf(s) == [x \in ToSet(s) |-> Cardinality({i \in DOMAIN s : s[i] = x})]

Accepts(ms) ==
  /\ \A i \in DOMAIN ms : ms[i].role = (IF i % 2 = 1 THEN "user" ELSE "assistant")
  /\ \A i \in DOMAIN ms :
       LET results == PartsOfKind(ms[i], "result")
           asked == IF i = 1 THEN <<>> ELSE PartsOfKind(ms[i-1], "call")
       IN /\ BagOf(IdsOf(results)) = BagOf(IdsOf(asked))
          /\ SubSeq(ms[i].parts, 1, Len(results)) = results

(* And one of OpenAI's shape: an assistant's calls are answered by the     *)
(* messages right after it.                                                *)
AcceptsChat(ms) ==
  \A i \in DOMAIN ms :
    LET n == Len(ms[i].calls)
    IN n > 0 => /\ i + n <= Len(ms)
                /\ {ms[j].answers : j \in i+1..i+n} = {ms[i].calls[k].id : k \in 1..n}

Waiting == Unanswered # <<>>

(* A conversation in which every call was answered reaches each provider   *)
(* in a form it accepts: roles take turns, and results follow their calls, *)
(* each once, with ids where there are ids and names where there are names *)
(* (anthropicTranslate.js:57, geminiTranslate.js:45).  The exception is a  *)
(* Responses client whose assistant spoke after it made calls, on its way  *)
(* to an OpenAI-compatible provider: that text parts the calls from their  *)
(* results.                                                                *)
EveryCallAnswered ==
  (~Waiting /\ \E i \in DOMAIN turns : turns[i].who = "user") =>
    /\ Accepts(toAnthropicMessages(Messages))
    /\ Accepts(toGeminiContents(Messages))
    /\ \/ AcceptsChat(Messages)
       \/ speaks = "responses" /\ \E i \in DOMAIN turns :
            turns[i].who = "assistant" /\ turns[i].late

TextsOf(ms) == FlattenSeq([i \in DOMAIN ms |->
  LET t == PartsOfKind(ms[i], "text") IN [j \in DOMAIN t |-> t[j].holds]])
TextsSaid == LET s == SelectSeq(turns, LAMBDA t : t.who # "system" /\ t.text # Nothing)
             IN [i \in DOMAIN s |-> s[i].text]

(* Nothing is lost or swapped on the way: the texts arrive in order, the   *)
(* system's apart; every call arrives, in order and by its name; and a     *)
(* result arrives under the id of the very call it answers, though Ollama  *)
(* has no ids and Gemini repeats its own in every reply                    *)
(* (ollamaInbound.js:11, geminiTranslate.js:116).                          *)
NothingLost ==
  LET ms == Messages
      chat == FlattenSeq([i \in DOMAIN ms |-> ms[i].calls])
  IN /\ TextsOf(toAnthropicMessages(ms)) = TextsSaid
     /\ TextsOf(toGeminiContents(ms)) = TextsSaid
     /\ systemTextOf(ms) = (IF turns # <<>> /\ turns[1].who = "system" THEN <<1>> ELSE <<>>)
     /\ [i \in DOMAIN chat |-> chat[i].name] = [i \in DOMAIN Calls |-> Calls[i].name]
     /\ \A i \in DOMAIN ms : ms[i].role = "tool" => chat[ms[i].holds].id = ms[i].answers

(* A client that forbids tools, demands one or names one is obeyed by      *)
(* every provider, except that the "none" of an Anthropic client gets lost *)
(* (anthropicInbound.js:86, anthropicTranslate.js:89).                     *)
ChoiceKept ==
  \A c \in ToolChoices :
    (speaks # "ollama" /\ ~(speaks = "anthropic" /\ c = "none")) =>
      toProviderChoice(Chosen(c)) = (IF c = "unset" THEN "auto" ELSE c)
==============================================================================
