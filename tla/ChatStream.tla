----------------------------- MODULE ChatStream -----------------------------
(***************************************************************************)
(* A chat or completion request from its validation to the last chunk of   *)
(* its answer (api/app.py, api/reasoning.py, api/request_helpers.py,       *)
(* tool_calls.py).  After every token the handler decodes all ids so far,  *)
(* splits the text at the thinking markers and sends what each field has   *)
(* grown by; a request with tools sends reasoning as it comes and keeps    *)
(* the content back until it can be told from tool calls.                  *)
(*                                                                         *)
(* A text is a sequence of pieces.  The markers are two pieces each and    *)
(* share the first, as <think> and </think> do; a tool call is one piece,  *)
(* well formed or not, and the two pieces of ForcedCall are the JSON object *)
(* of a forced one; "head" and "tail" are the two halves of a character    *)
(* that the tokenizer splits, and a "head" alone is shown as U+FFFD.       *)
(***************************************************************************)
EXTENDS Integers, Sequences, SequencesExt, FiniteSets

CONSTANTS
  Pieces,         \* pieces the model may emit, by kind of request
  Parsers,        \* values of --tool-parser: "hermes", "lfm2" or "gemma"
  WindowLen,      \* max_len of the engine
  PromptLens,     \* prompt lengths of the requests
  MaxTokens,      \* max_tokens of the requests
  LateThinking    \* whether </think> may follow no <think> that the server saw

ASSUME ChatAssumption ==
  /\ Pieces \in [{"text", "chat", "tools", "forced"} ->
                  SUBSET {"lt", "t", "sl", "a", "call", "bad", "head", "tail", "json", "end"}]
  /\ Parsers \subseteq {"hermes", "lfm2", "gemma"} /\ Parsers # {}
  /\ PromptLens \subseteq Nat /\ WindowLen \in Nat /\ MaxTokens \in Nat \ {0}
  /\ LateThinking \in BOOLEAN

VARIABLES
  chat,    \* the request: kind, parser, prefilled, budget, and where it is
  ids,     \* tokens generated so far
  prev,    \* prev_reasoning and prev_content
  sent     \* the deltas sent, put together by the client

chatVars == <<chat, ids, prev, sent>>

Open == <<"lt", "t">>
Close == <<"lt", "sl">>
ForcedCall == <<"json", "end">>

Blank == [reasoning |-> <<>>, content |-> <<>>]
NoMessage == [reasoning |-> <<>>, content |-> <<>>, calls |-> 0, reason |-> "none"]

-----------------------------------------------------------------------------
(* Text *)

\* tokenizer.decode: the second half of a character completes the first.
Decode(tokens) ==
  FoldLeft(LAMBDA text, p :
             IF p = "tail" /\ text # <<>> /\ Last(text) = "head"
               THEN Append(Front(text), "char")
               ELSE Append(text, p),
           <<>>, tokens)

MarkerAt(text, marker, i) ==
  i + Len(marker) - 1 <= Len(text) /\ SubSeq(text, i, i + Len(marker) - 1) = marker

\* text.find(marker, from), 0 when there is none.
Find(text, marker, from) ==
  LET at == {i \in from..Len(text) : MarkerAt(text, marker, i)}
  IN  IF at = {} THEN 0 ELSE CHOOSE i \in at : \A j \in at : i <= j

From(text, i) == SubSeq(text, i, Len(text))

\* prompt_prefills_thinking: the rendered prompt ends in the open marker.
PrefillsThinking(prompt) == Len(prompt) > Len(Open) /\ IsSuffix(Open, prompt)

\* Mutant: nothing is held back.
PartialCloseKept(text) == text

\* _without_partial_close
WithoutPartialClose(text) ==
  IF text # <<>> /\ Last(text) = Close[1] THEN Front(text) ELSE text

\* split_reasoning_content
Split(text, prefilled, final) ==
  LET explicit == IsPrefix(Open, text)
      start == IF explicit THEN Len(Open) + 1 ELSE 1
      closeAt == Find(text, Close, start)
      thinking == From(text, start)
  IN  IF ~ prefilled /\ ~ explicit /\ closeAt = 0
        THEN [reasoning |-> <<>>,
              content |-> IF ~ final /\ IsPrefix(text, Open) THEN <<>> ELSE text]
      ELSE IF closeAt > 0
        THEN [reasoning |-> SubSeq(text, start, closeAt - 1),
              content |-> From(text, closeAt + Len(Close))]
      ELSE [reasoning |-> IF final THEN thinking ELSE WithoutPartialClose(thinking),
            content |-> <<>>]

-----------------------------------------------------------------------------
(* Tool calls *)

\* _json_safe_literal and the shape tests: whether an envelope is a call.
WellFormed(p) == p = "call"

Envelope(p) == p \in {"call", "bad"}

\* What is left as content once there is a call.
HermesContent(text) ==
  LET first == SelectInSeq(text, Envelope) IN SubSeq(text, 1, first - 1)

LFM2Content(text) == SelectSeq(text, LAMBDA p : ~ Envelope(p))

GemmaContent(text) == SelectSeq(text, LAMBDA p : ~ WellFormed(p))

\* parsed_tool_message
ParsedMessage(parser, text, reason) ==
  LET calls == Len(SelectSeq(text, WellFormed))
  IN  IF calls = 0
        THEN [content |-> text, calls |-> 0, reason |-> reason]
        ELSE [content |-> CASE parser = "hermes" -> HermesContent(text)
                            [] parser = "lfm2"   -> LFM2Content(text)
                            [] parser = "gemma"  -> GemmaContent(text),
              calls |-> calls, reason |-> "tool_calls"]

\* forced_tool_message of a whole JSON object; of a part of one it raises.
ForcedMessage == [content |-> <<>>, calls |-> 1, reason |-> "tool_calls"]

\* The message of the request that does not stream, from all its tokens.
Whole(kind, parser, prefilled, tokens, reason) ==
  LET text == Decode(tokens)
      split == Split(text, prefilled, TRUE)
      said == CASE kind = "text"   -> [content |-> text, calls |-> 0, reason |-> reason]
                [] kind = "chat"   -> [content |-> split.content, calls |-> 0, reason |-> reason]
                [] kind = "tools"  -> ParsedMessage(parser, split.content, reason)
                [] kind = "forced" -> ForcedMessage
  IN  [reasoning |-> IF kind = "text" THEN <<>> ELSE split.reasoning,
       content |-> said.content, calls |-> said.calls, reason |-> said.reason]

-----------------------------------------------------------------------------
(* The handlers *)

\* What a field has grown by: now[len(before):].
Grown(before, now) == From(now, Len(before) + 1)

\* sampling_params: max_tokens clamped to the room the prompt leaves.
Budget(promptLen, maxTokens) ==
  LET room == IF WindowLen - promptLen > 1 THEN WindowLen - promptLen ELSE 1
  IN  IF maxTokens < room THEN maxTokens ELSE room

\* chat_completions, completions: an over-long prompt is a 400.
Accept(kind, parser, prompt, promptLen) ==
  /\ chat.phase = "idle"
  /\ chat' = [phase |-> IF promptLen > WindowLen THEN "rejected" ELSE "open",
              kind |-> kind, parser |-> parser,
              prefilled |-> kind \in {"chat", "tools"} /\ PrefillsThinking(prompt),
              budget |-> Budget(promptLen, MaxTokens)]
  /\ UNCHANGED <<ids, prev, sent>>

\* What the model may say: a forced call is constrained to be one.
MaySay(tokens) ==
  LET text == Decode(tokens)
  IN  /\ chat.kind = "forced" <=> IsPrefix(tokens, ForcedCall)
      /\ LateThinking \/ chat.kind = "text" \/ chat.prefilled
           \/ IsPrefix(Open, text) \/ Find(text, Close, 1) = 0

\* chunks_for and reasoning_chunk: the deltas of this text.
SendDeltas(text, final) ==
  LET split == IF chat.kind = "text" THEN [reasoning |-> <<>>, content |-> text]
               ELSE Split(text, chat.prefilled, final)
      shown == [split EXCEPT !.content =
                  IF chat.kind \in {"tools", "forced"} THEN <<>> ELSE @]
  IN  /\ prev' = shown
      /\ sent' = [sent EXCEPT !.reasoning = @ \o Grown(prev.reasoning, shown.reasoning),
                              !.content = @ \o Grown(prev.content, shown.content)]

Token(p) ==
  /\ chat.phase = "open" /\ Len(ids) < chat.budget
  /\ MaySay(Append(ids, p))
  /\ ids' = Append(ids, p)
  /\ SendDeltas(Decode(ids'), FALSE)
  /\ UNCHANGED chat

\* Done of a chat or a completion: the rest of the text and the reason.  The
\* completion has sent all there is.
Finish(reason) ==
  LET text == Decode(ids)
      split == Split(text, chat.prefilled, TRUE)
  IN  /\ prev' = IF chat.kind = "text" THEN prev ELSE split
      /\ sent' = IF chat.kind = "text" THEN [sent EXCEPT !.reason = reason]
                 ELSE [sent EXCEPT
                         !.reasoning = @ \o Grown(prev.reasoning, split.reasoning),
                         !.content = @ \o Grown(prev.content, split.content),
                         !.reason = reason]

\* Done of a request with tools: the held content becomes text or calls.
FinishTools(reason) ==
  LET split == Split(Decode(ids), chat.prefilled, TRUE)
      message == IF chat.kind = "forced" THEN ForcedMessage
                 ELSE ParsedMessage(chat.parser, split.content, reason)
  IN  /\ prev' = [prev EXCEPT !.reasoning = split.reasoning]
      /\ sent' = [reasoning |-> sent.reasoning \o Grown(prev.reasoning, split.reasoning),
                  content |-> message.content, calls |-> message.calls,
                  reason |-> message.reason]

\* A forced call that max_tokens cut short.
Truncated == chat.kind = "forced" /\ ids # ForcedCall

Done(reason) ==
  /\ chat.phase = "open"
  /\ reason = "length" <=> Len(ids) = chat.budget
  /\ ids # <<>>
  /\ \/ /\ Truncated
        /\ chat' = [chat EXCEPT !.phase = "raised"]
        /\ UNCHANGED <<prev, sent>>
     \/ /\ ~ Truncated
        /\ chat' = [chat EXCEPT !.phase = "done"]
        /\ IF chat.kind \in {"text", "chat"} THEN Finish(reason) ELSE FinishTools(reason)
  /\ UNCHANGED ids

ChatInit ==
  /\ chat = [phase |-> "idle", kind |-> "none", parser |-> "none", prefilled |-> FALSE, budget |-> 0]
  /\ ids = <<>>
  /\ prev = Blank
  /\ sent = NoMessage

ChatNext ==
  \/ \E kind \in {"text", "chat", "tools", "forced"}, n \in PromptLens,
        prompt \in {<<"a">> \o Open, <<"a", "a">>} :
       IF kind = "tools" THEN \E parser \in Parsers : Accept(kind, parser, prompt, n)
       ELSE Accept(kind, "none", prompt, n)
  \/ chat.phase = "open" /\ \E p \in Pieces[chat.kind] : Token(p)
  \/ \E reason \in {"stop", "length"} : Done(reason)

-----------------------------------------------------------------------------
(* Property *)

\* What a client puts together from the deltas of a stream is the message the
\* same tokens make when the request does not stream: no piece is lost, sent
\* twice or sent in one field and later counted to the other, wherever token
\* boundaries cut the markers, and no tool call goes out as text.
StreamedIsWhole ==
  chat.phase = "done" =>
    sent = Whole(chat.kind, chat.parser, chat.prefilled, ids,
                 IF Len(ids) = chat.budget THEN "length" ELSE "stop")
=============================================================================
