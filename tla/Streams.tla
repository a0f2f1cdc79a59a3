------------------------------- MODULE Streams -------------------------------
(***************************************************************************)
(* A streamed reply on its way from a provider to a client: the adapter of *)
(* the provider (src/src/providers) turns what the provider sends into     *)
(* deltas of OpenAI's shape, the encoder of the client's dialect           *)
(* (src/src/inbound) turns the deltas into that dialect's events, and the  *)
(* client puts together what it hears.  All of them keep state between two *)
(* chunks: which tool call a fragment belongs to, and which block or item  *)
(* is open.                                                                *)
(*                                                                         *)
(* A piece of text or of a call's arguments is the position at which the   *)
(* provider said it, a tool call is its number.                            *)
(***************************************************************************)
EXTENDS Integers, Sequences, FiniteSets

CONSTANTS Adapters,  \* of "openai", "anthropic", "gemini"
          Dialects,   \* of "chat", "anthropic", "responses", "ollama"
          MaxSaid     \* the length of a reply, in pieces and calls

ASSUME StreamsAssumption ==
  /\ Adapters \subseteq {"openai", "anthropic", "gemini"}
  /\ Dialects \subseteq {"chat", "anthropic", "responses", "ollama"}
  /\ MaxSaid \in Nat

VARIABLES provider,  \* who answers
          labels,    \* how an OpenAI-compatible provider marks its calls
          dialect,   \* what the client speaks
          said,      \* what the provider has said
          reason,    \* why it finished, once it has said so
          phase,     \* "open", "closed" or "broken"
          adapter,   \* the adapter's index for each block that is a call
          enc        \* the encoder, and in `heard` the client at its other end

streamVars == <<provider, labels, dialect, said, reason, phase, adapter, enc>>

-----------------------------------------------------------------------------
(* What a provider says: text, the beginning of a call, more of a call.    *)

Text == [kind |-> "text", call |-> 0]
Call(c) == [kind |-> "call", call |-> c]
Args(c) == [kind |-> "args", call |-> c]

Whole(s, c) == Append(Append(s, Call(c)), Args(c))

CallsOf(s) == {s[i].call : i \in DOMAIN s} \ {0}

(* What is left of a reply when it is taken apart: its text, and its calls *)
(* with their arguments, each of them the pieces it is made of.            *)
TextOf(s) == {i \in DOMAIN s : s[i].kind = "text"}
ArgsOf(s, c) == {i \in DOMAIN s : s[i].kind = "args" /\ s[i].call = c}
CallListOf(s) == [c \in 1..Cardinality(CallsOf(s)) |-> ArgsOf(s, c)]

(* A provider that keeps to one thing at a time: a fragment belongs to the *)
(* call begun last, and no text came in between.                           *)
Orderly(s) ==
  \A i \in DOMAIN s : s[i].kind = "args" =>
     i > 1 /\ s[i-1].kind # "text" /\ s[i-1].call = s[i].call

-----------------------------------------------------------------------------
(* The adapters.  A delta has text, calls, and a reason to finish, each of *)
(* which may be missing; a call has an index, an id and arguments, each of *)
(* which may be missing too.  A delta of several calls is several deltas:  *)
(* every reader takes them one by one.                                     *)

None == 0
NoIndex == -1
Part(index, id, args) == [index |-> index, id |-> id, args |-> args]
TextDelta(piece) == [text |-> piece, calls |-> <<>>, finish |-> "none"]
CallDelta(part) == [text |-> None, calls |-> <<part>>, finish |-> "none"]
FinishDelta(finish) == [text |-> None, calls |-> <<>>, finish |-> finish]

finishFromAnthropic(r) ==
  CASE r = "tool_use" -> "tool_calls"
    [] r \in {"max_tokens", "model_context_window_exceeded"} -> "length"
    [] r = "refusal" -> "content_filter"
    [] OTHER -> "stop"

finishFromGemini(r, hasCalls) ==
  CASE hasCalls -> "tool_calls"
    [] ~hasCalls /\ r = "MAX_TOKENS" -> "length"
    [] ~hasCalls /\ r = "SAFETY" -> "content_filter"
    [] OTHER -> "stop"

(* The reasons a provider has to finish, with or without calls.            *)
Reasons(calls) ==
  CASE provider = "anthropic" ->
         IF calls THEN {"tool_use", "max_tokens"}
         ELSE {"end_turn", "model_context_window_exceeded", "refusal"}
    [] provider = "gemini" -> {"STOP", "MAX_TOKENS"} \cup (IF calls THEN {} ELSE {"SAFETY"})
    [] provider = "openai" ->
         IF calls THEN {"tool_calls", "length"} ELSE {"stop", "length", "content_filter"}

finishOf(p, r, hasCalls) ==
  CASE p = "anthropic" -> finishFromAnthropic(r)
    [] p = "gemini" -> finishFromGemini(r, hasCalls)
    [] p = "openai" -> r

(* toolCallIndexByBlockIndex.size, or emittedToolCalls: the index of the   *)
(* next call counts the calls only.                                        *)
emitted == Cardinality({b \in DOMAIN adapter : adapter[b] # NoIndex})

(* How an OpenAI-compatible provider marks the parts of its calls: by      *)
(* index, by id alone, or, when it sends each call whole, not at all.      *)
Marked(c, args, first) ==
  CASE labels = "index" -> Part(c - 1, IF first THEN c ELSE None, args)
    [] labels = "id" -> Part(NoIndex, c, args)
    [] labels = "none" -> Part(NoIndex, None, args)

-----------------------------------------------------------------------------
(* The clients.  What one has heard: its blocks or items with the pieces   *)
(* they hold, which of them is open, why the reply finished, whether it is *)
(* over, and whether every event so far was one its protocol allows.       *)
Silence == [blocks |-> <<>>, open |-> None, finish |-> "none",
            begun |-> FALSE, over |-> FALSE, ok |-> TRUE]

Must(h, allowed) == [h EXCEPT !.ok = @ /\ allowed /\ ~h.over]

(* message_start; response.created                                         *)
Begun(h) == [Must(h, ~h.begun) EXCEPT !.begun = TRUE]

(* content_block_start; response.output_item.added                         *)
Announced(h, i, kind) ==
  [Must(h, h.begun /\ h.open = None /\ i = Len(h.blocks) + 1)
     EXCEPT !.blocks = Append(@, [kind |-> kind, holds |-> <<>>]), !.open = Len(h.blocks) + 1]

(* content_block_delta; response.output_text.delta and its like            *)
Filled(h, i, piece) ==
  LET m == Must(h, h.open = i)
  IN IF i \in DOMAIN h.blocks THEN [m EXCEPT !.blocks[i].holds = Append(@, piece)] ELSE m

(* content_block_stop; response.output_item.done, which repeats the item   *)
Stopped(h, i) == [Must(h, h.open = i) EXCEPT !.open = None]
ItemDone(h, i, holds) == Stopped(Must(h, h.blocks[i].holds = holds), i)

(* message_delta and message_stop; response.completed, which repeats all   *)
Reasoned(h, stop) == [Must(h, h.begun /\ h.open = None) EXCEPT !.finish = stop]
Over(h) == [Must(h, h.finish # "none") EXCEPT !.over = TRUE]
Completed(h, finish, items) ==
  [Must(h, h.open = None /\ items = [i \in DOMAIN h.blocks |-> h.blocks[i].holds])
     EXCEPT !.finish = finish, !.over = TRUE]

(* A client of the Ollama API takes text and whole calls.                  *)
HeardText(h, piece) ==
  [Must(h, TRUE) EXCEPT !.blocks = Append(@, [kind |-> "text", holds |-> <<piece>>])]
HeardCalls(h, calls) ==
  [Must(h, TRUE) EXCEPT !.blocks =
     @ \o [c \in DOMAIN calls |-> [kind |-> "tool", holds |-> calls[c]]]]
Done(h, finish) == [Must(h, TRUE) EXCEPT !.finish = finish, !.over = TRUE]

Failed(h) == [Must(h, TRUE) EXCEPT !.over = TRUE]

-----------------------------------------------------------------------------
(* The encoders.                                                           *)

(* The key of a call: its index, else its id, else the number of calls.    *)
KeyOf(part, known) ==
  CASE part.index # NoIndex -> <<"index", part.index>>
    [] part.index = NoIndex /\ part.id # None -> <<"id", part.id>>
    [] OTHER -> <<"index", Cardinality(known)>>

Entered(f, key, v) == [k \in DOMAIN f \cup {key} |-> IF k = key THEN v ELSE f[k]]

(* toAnthropicStream: one block is open at a time.                         *)
AnthropicNew == [started |-> FALSE, open |-> None, kind |-> "none", next |-> 1,
                 blocks |-> <<>>, stop |-> "end_turn", heard |-> Silence]

stopReasonFor(finish) ==
  CASE finish = "tool_calls" -> "tool_use"
    [] finish = "length" -> "max_tokens"
    [] finish = "content_filter" -> "refusal"
    [] OTHER -> "end_turn"

AnthropicStart(e) ==
  IF e.started THEN e ELSE [e EXCEPT !.started = TRUE, !.heard = Begun(@)]

AnthropicClose(e) ==
  IF e.open = None THEN e
  ELSE [e EXCEPT !.open = None, !.kind = "none", !.heard = Stopped(@, e.open)]

(* Mutant: the open block is left open.                                    *)
AnthropicOpenOver(e, kind) ==
  [e EXCEPT !.open = e.next, !.kind = kind, !.next = @ + 1, !.heard = Announced(@, e.next, kind)]

AnthropicOpen(e, kind) ==
  [AnthropicClose(e) EXCEPT !.open = e.next, !.kind = kind, !.next = @ + 1,
                            !.heard = Announced(@, e.next, kind)]

AnthropicText(e, piece) ==
  LET o == IF e.kind = "text" THEN e ELSE AnthropicOpen(e, "text")
  IN [o EXCEPT !.heard = Filled(@, o.open, piece)]

AnthropicCall(e, part) ==
  LET key == KeyOf(part, DOMAIN e.blocks)
      o == IF key \in DOMAIN e.blocks THEN e
           ELSE [AnthropicOpen(e, "tool") EXCEPT !.blocks = Entered(@, key, e.next)]
  IN IF part.args = None THEN o ELSE [o EXCEPT !.heard = Filled(@, o.blocks[key], part.args)]

AnthropicDelta(e, d) ==
  LET begun == AnthropicStart(e)
      text == IF d.text = None THEN begun ELSE AnthropicText(begun, d.text)
      calls == IF d.calls = <<>> THEN text ELSE AnthropicCall(text, d.calls[1])
  IN IF d.finish = "none" THEN calls ELSE [calls EXCEPT !.stop = stopReasonFor(d.finish)]

AnthropicEnd(e) ==
  [AnthropicClose(AnthropicStart(e)) EXCEPT !.heard = Over(Reasoned(@, e.stop))]

(* toResponsesStream: items are announced, streamed and closed; what an    *)
(* item holds is sent once more when it closes and when the reply does.    *)
ResponsesNew == [items |-> <<>>, message |-> None, current |-> None, calls |-> <<>>,
                 finish |-> "none", heard |-> Begun(Silence)]

ResponsesClose(e, i) ==
  IF i = None \/ (i # None /\ e.items[i].closed) THEN e
  ELSE [e EXCEPT !.items[i].closed = TRUE, !.heard = ItemDone(@, i, e.items[i].holds)]

ResponsesOpen(e, kind) ==
  LET i == Len(e.items) + 1
  IN [ResponsesClose(e, e.current) EXCEPT
        !.items = Append(@, [kind |-> kind, holds |-> <<>>, closed |-> FALSE]),
        !.current = i, !.heard = Announced(@, i, kind)]

ResponsesSay(e, i, piece) ==
  [e EXCEPT !.items[i].holds = Append(@, piece), !.heard = Filled(@, i, piece)]

ResponsesText(e, piece) ==
  LET o == IF e.message # None /\ ~e.items[e.message].closed THEN e
           ELSE [ResponsesOpen(e, "text") EXCEPT !.message = Len(e.items) + 1]
  IN ResponsesSay(o, o.message, piece)

ResponsesCall(e, part) ==
  LET key == KeyOf(part, DOMAIN e.calls)
      o == IF key \in DOMAIN e.calls THEN e
           ELSE [ResponsesOpen(e, "tool") EXCEPT !.calls = Entered(@, key, Len(e.items) + 1)]
  IN IF part.args = None THEN o ELSE ResponsesSay(o, o.calls[key], part.args)

ResponsesDelta(e, d) ==
  LET ended == IF d.finish = "none" THEN e ELSE [e EXCEPT !.finish = d.finish]
      text == IF d.text = None THEN ended ELSE ResponsesText(ended, d.text)
  IN IF d.calls = <<>> THEN text ELSE ResponsesCall(text, d.calls[1])

ResponsesEnd(e) ==
  LET closing[i \in 0..Len(e.items)] ==
        IF i = 0 THEN e ELSE ResponsesClose(closing[i - 1], i)
      finish == IF e.finish = "length" THEN "incomplete" ELSE "completed"
  IN [closing[Len(e.items)] EXCEPT
        !.heard = Completed(@, finish, [i \in DOMAIN e.items |-> e.items[i].holds])]

(* toOllamaStream: a call is kept until it is whole, and sent at the end.  *)
(* `calls` is an array: a slot that was skipped stays a hole.              *)
OllamaNew == [calls |-> <<>>, finish |-> "stop", heard |-> Silence]
NoSlot == [named |-> FALSE, holds |-> <<>>]
SlotAt(calls, i) == IF i \in DOMAIN calls THEN calls[i] ELSE NoSlot
Longer(n, i) == IF i > n THEN i ELSE n
HeldWith(slot, args) == IF args = None THEN slot.holds ELSE Append(slot.holds, args)

(* Mutant: the number of calls is the key of every fragment.               *)
OllamaCallNew(e, part) ==
  [e EXCEPT !.calls = Append(@, [named |-> TRUE, holds |-> HeldWith(NoSlot, part.args)])]

OllamaCall(e, part) ==
  LET i == IF part.index # NoIndex THEN part.index + 1 ELSE Len(e.calls) + 1
      slot == [named |-> TRUE, holds |-> HeldWith(SlotAt(e.calls, i), part.args)]
  IN [e EXCEPT !.calls =
        [j \in 1..Longer(Len(@), i) |-> IF j = i THEN slot ELSE SlotAt(@, j)]]

OllamaDelta(e, d) ==
  LET ended == IF d.finish = "none" THEN e
               ELSE [e EXCEPT !.finish = IF d.finish = "length" THEN "length" ELSE "stop"]
      text == IF d.text = None THEN ended ELSE [ended EXCEPT !.heard = HeardText(@, d.text)]
  IN IF d.calls = <<>> THEN text ELSE OllamaCall(text, d.calls[1])

(* calls.filter(Boolean): the slots that are no holes, in their order.     *)
whole(calls) ==
  LET named == {i \in DOMAIN calls : calls[i].named}
  IN [k \in 1..Cardinality(named) |->
        calls[CHOOSE i \in named : Cardinality({j \in named : j <= i}) = k].holds]

OllamaEnd(e) ==
  LET calls == whole(e.calls)
      heard == IF calls = <<>> THEN e.heard ELSE HeardCalls(e.heard, calls)
  IN [e EXCEPT !.heard = Done(heard, e.finish)]

(* The chat dialect: the deltas as they are.  Its client puts fragments    *)
(* together by their index.                                                *)
ChatNew == [heard |-> [text |-> <<>>, ids |-> <<>>, calls |-> <<>>]]
HeldAt(calls, index) == IF index \in DOMAIN calls THEN calls[index] ELSE <<>>

ChatCall(e, part) ==
  LET known == IF part.id = None THEN e
               ELSE [e EXCEPT !.heard.ids = Append(@, <<part.index, part.id>>)]
  IN IF part.args = None THEN known
     ELSE [known EXCEPT !.heard.calls =
             Entered(@, part.index, Append(HeldAt(@, part.index), part.args))]

ChatDelta(e, d) ==
  LET text == IF d.text = None THEN e ELSE [e EXCEPT !.heard.text = Append(@, d.text)]
  IN IF d.calls = <<>> THEN text ELSE ChatCall(text, d.calls[1])

-----------------------------------------------------------------------------
EncoderNew(d) ==
  CASE d = "anthropic" -> AnthropicNew
    [] d = "responses" -> ResponsesNew
    [] d = "ollama" -> OllamaNew
    [] d = "chat" -> ChatNew

Encoded(e, d) ==
  CASE dialect = "anthropic" -> AnthropicDelta(e, d)
    [] dialect = "responses" -> ResponsesDelta(e, d)
    [] dialect = "ollama" -> OllamaDelta(e, d)
    [] dialect = "chat" -> ChatDelta(e, d)

Finished(e) ==
  CASE dialect = "anthropic" -> AnthropicEnd(e)
    [] dialect = "responses" -> ResponsesEnd(e)
    [] dialect = "ollama" -> OllamaEnd(e)
    [] dialect = "chat" -> e

(* An event of the router that carries no delta: it opens the message of   *)
(* an Anthropic client all the same.                                       *)
Idle(e) == IF dialect = "anthropic" THEN AnthropicStart(e) ELSE e

Send(delta) == enc' = Encoded(enc, delta)

StreamsInit ==
  /\ provider \in Adapters
  /\ labels \in (IF provider = "openai" THEN {"index", "id", "none"} ELSE {"index"})
  /\ dialect \in Dialects
  /\ said = <<>> /\ reason = "none" /\ phase = "open"
  /\ adapter = <<>>
  /\ enc = EncoderNew(dialect)

Speaks(p, n) ==
  /\ provider = p /\ phase = "open" /\ reason = "none"
  /\ Len(said) + n <= MaxSaid
  /\ UNCHANGED <<provider, labels, dialect, reason, phase>>

Here == Len(said) + 1
LastCall == Cardinality(CallsOf(said))
NextCall == LastCall + 1

(* Anthropic: text, a block that is a call, a fragment of its arguments,   *)
(* and blocks of other kinds (thinking, tools of the provider's own), whose *)
(* fragments are ignored.                                                  *)
AnthropicSays ==
  /\ Speaks("anthropic", 1)
  /\ \/ /\ said' = Append(said, Text)
        /\ Send(TextDelta(Here))
        /\ adapter' = adapter
     \/ /\ said' = Append(said, Call(NextCall))
        /\ adapter' = Append(adapter, emitted)
        /\ Send(CallDelta(Part(emitted, NextCall, None)))
     \/ /\ said # <<>> /\ said[Len(said)].kind # "text" /\ adapter[Len(adapter)] # NoIndex
        /\ said' = Append(said, Args(LastCall))
        /\ Send(CallDelta(Part(adapter[Len(adapter)], None, Here)))
        /\ adapter' = adapter
     \/ /\ Len(adapter) < MaxSaid
        /\ adapter' = Append(adapter, NoIndex)
        /\ UNCHANGED <<said, enc>>

(* An OpenAI-compatible provider, whose lines are passed through.  When it *)
(* marks calls by index it may come back to any of them; by id or without  *)
(* a mark, each call comes whole.  A line that is not JSON carries nothing. *)
OpenAISays ==
  \/ /\ Speaks("openai", 1)
     /\ said' = Append(said, Text)
     /\ Send(TextDelta(Here))
     /\ adapter' = adapter
  \/ /\ Speaks("openai", 2)
     /\ said' = Whole(said, NextCall)
     /\ Send(CallDelta(Marked(NextCall, Here + 1, TRUE)))
     /\ adapter' = adapter
  \/ /\ Speaks("openai", 1) /\ labels = "index"
     /\ \/ /\ said' = Append(said, Call(NextCall))
           /\ Send(CallDelta(Marked(NextCall, None, TRUE)))
        \/ \E c \in CallsOf(said) :
             /\ said' = Append(said, Args(c))
             /\ Send(CallDelta(Marked(c, Here, FALSE)))
     /\ adapter' = adapter
  \/ /\ Speaks("openai", 0)
     /\ enc' = Idle(enc)
     /\ UNCHANGED <<said, adapter>>

(* Gemini: an event holds several parts: text, a call, a call and text, or *)
(* two calls.  Its texts are sent first, joined, then its calls, each whole. *)
GeminiSays ==
  \/ /\ Speaks("gemini", 1)
     /\ said' = Append(said, Text)
     /\ Send(TextDelta(Here))
     /\ adapter' = adapter
  \/ /\ Speaks("gemini", 2)
     /\ said' = Whole(said, NextCall)
     /\ Send(CallDelta(Part(emitted, NextCall, Here + 1)))
     /\ adapter' = Append(adapter, emitted)
  \/ /\ Speaks("gemini", 3)
     /\ said' = Append(Whole(said, NextCall), Text)
     /\ enc' = Encoded(Encoded(enc, TextDelta(Here + 2)),
                       CallDelta(Part(emitted, NextCall, Here + 1)))
     /\ adapter' = Append(adapter, emitted)
  \/ /\ Speaks("gemini", 4)
     /\ said' = Whole(Whole(said, NextCall), NextCall + 1)
     /\ enc' = Encoded(Encoded(enc, CallDelta(Part(emitted, NextCall, Here + 1))),
                       CallDelta(Part(emitted + 1, NextCall + 1, Here + 3)))
     /\ adapter' = Append(Append(adapter, emitted), emitted + 1)

(* The provider says why it finished.                                      *)
Finish ==
  /\ phase = "open" /\ reason = "none"
  /\ \E r \in Reasons(CallsOf(said) # {}) :
       /\ Send(FinishDelta(finishOf(provider, r, CallsOf(said) # {})))
       /\ reason' = r
  /\ UNCHANGED <<provider, labels, dialect, said, phase, adapter>>

(* The stream closes, with or without a reason given.                      *)
Close ==
  /\ phase = "open"
  /\ phase' = "closed"
  /\ enc' = Finished(enc)
  /\ UNCHANGED <<provider, labels, dialect, said, reason, adapter>>

(* The stream breaks: the failure is reported inside it, and a chat client *)
(* keeps what it has.                                                      *)
Break ==
  /\ phase = "open"
  /\ phase' = "broken"
  /\ enc' = IF dialect = "chat" THEN enc ELSE [enc EXCEPT !.heard = Failed(@)]
  /\ UNCHANGED <<provider, labels, dialect, said, reason, adapter>>

StreamsNext ==
  AnthropicSays \/ OpenAISays \/ GeminiSays \/ Finish \/ Close \/ Break

-----------------------------------------------------------------------------
(* The same reply, had it not been streamed: the provider's content taken   *)
(* apart, and put into the shape of the dialect.                           *)
fromContent(s) == [text |-> TextOf(s), calls |-> CallListOf(s)]

normalizedResponse(p, s, r) ==
  [text |-> fromContent(s).text, calls |-> fromContent(s).calls,
   finish |-> IF r = "none" THEN "stop" ELSE finishOf(p, r, fromContent(s).calls # <<>>)]

ReplyBlocks(r) ==
  (IF r.text = {} THEN <<>> ELSE <<[kind |-> "text", holds |-> r.text]>>)
    \o [i \in DOMAIN r.calls |-> [kind |-> "tool", holds |-> r.calls[i]]]

toAnthropicResponse(r) == [blocks |-> ReplyBlocks(r), finish |-> stopReasonFor(r.finish)]
toResponsesResponse(r) == [blocks |-> ReplyBlocks(r), finish |-> "completed"]
toOllamaResponse(r) ==
  [blocks |-> ReplyBlocks(r), finish |-> IF r.finish = "length" THEN "length" ELSE "stop"]

Buffered(d, r) ==
  CASE d = "anthropic" -> toAnthropicResponse(r)
    [] d = "responses" -> toResponsesResponse(r)
    [] d = "ollama" -> toOllamaResponse(r)

-----------------------------------------------------------------------------
(* What was streamed is these pieces, in the order in which they were said. *)
Told(holds, pieces) ==
  /\ {holds[k] : k \in DOMAIN holds} = pieces
  /\ \A k, l \in DOMAIN holds : k < l => holds[k] < holds[l]

Those(blocks, kind) == {i \in DOMAIN blocks : blocks[i].kind = kind}
Held(blocks) == UNION {{blocks[i].holds[k] : k \in DOMAIN blocks[i].holds} : i \in Those(blocks, "text")}

(* The text of all blocks, one after the other.                            *)
TextTold(blocks, pieces) ==
  /\ Held(blocks) = pieces
  /\ \A i, j \in Those(blocks, "text") :
       \A k \in DOMAIN blocks[i].holds, l \in DOMAIN blocks[j].holds :
         i < j \/ (i = j /\ k < l) => blocks[i].holds[k] < blocks[j].holds[l]

(* The blocks that are calls are those of `whole`, in their order.         *)
CallsTold(blocks, buffered) ==
  \E at \in [Those(buffered, "tool") -> Those(blocks, "tool")] :
    /\ \A i, j \in Those(buffered, "tool") : i < j => at[i] < at[j]
    /\ \A k \in Those(blocks, "tool") : \E i \in Those(buffered, "tool") : at[i] = k
    /\ \A i \in Those(buffered, "tool") : Told(blocks[at[i]].holds, buffered[i].holds)

TextIn(buffered) == UNION {buffered[i].holds : i \in Those(buffered, "text")}

SameToChat(l, h, r) ==
  /\ Told(h.text, r.text)
  /\ l = "index" =>
       /\ \A c \in DOMAIN r.calls : Told(HeldAt(h.calls, c - 1), r.calls[c])
       /\ h.ids = [c \in DOMAIN r.calls |-> <<c - 1, c>>]

SameReply(d, ph, h, r) ==
  LET b == Buffered(d, r)
  IN /\ TextTold(h.blocks, TextIn(b.blocks))
     /\ (d # "ollama" \/ ph = "closed") => CallsTold(h.blocks, b.blocks)
     /\ ph = "closed" =>
          \/ h.finish = b.finish
          \/ d = "responses" /\ r.finish = "length" /\ h.finish = "incomplete"

(* Every stream keeps to the protocol of its dialect, whatever mixture of  *)
(* text and calls the provider sends: each block or item is announced in   *)
(* order, filled only while it is open and closed before the next, what an *)
(* item is closed with is what was streamed, and nothing follows the end,  *)
(* which finds nothing open (anthropicInbound.js:219, responsesInbound.js: *)
(* 197).  For the two dialects of blocks it needs a provider that says one *)
(* thing at a time: a fragment for a call that is closed goes out all the  *)
(* same.                                                                   *)
ProtocolKept ==
  dialect # "chat" =>
    /\ dialect = "ollama" \/ Orderly(said) => enc.heard.ok
    /\ phase = "closed" => enc.heard.over /\ enc.heard.open = None

(* What a client puts together from a stream is what it would have been    *)
(* given in one piece: all of the text in order, every call once and in    *)
(* order with all of its arguments, also when fragments of two calls come  *)
(* interleaved, and when the stream has closed, why it finished.  Ollama's *)
(* clients get the calls at the end, the others as they come.  One thing   *)
(* differs: the Responses API is told of a truncated reply only when it is *)
(* streamed (responsesInbound.js:127, 225).                                *)
StreamedIsBuffered ==
  LET r == normalizedResponse(provider, said, reason)
  IN IF dialect = "chat" THEN SameToChat(labels, enc.heard, r)
     ELSE SameReply(dialect, phase, enc.heard, r)
==============================================================================
