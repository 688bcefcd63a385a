---------------------------- MODULE Conversations ----------------------------
(***************************************************************************)
(* The chat models (core/chat_models): the memory of a session becomes the *)
(* request of one of four services, the answer of the service becomes a    *)
(* response in the form of the Anthropic API, and the orchestrator         *)
(* (orchestrator/anthropic.py) puts the response and the results of its    *)
(* tool calls back into the memory; the planner (extensions/plan/llm.py)   *)
(* leaves messages of a long memory out.  "chat" and "responses" are the   *)
(* adapters of the OpenAI services, "gemini" and "claude" the other two.   *)
(*                                                                         *)
(* A message is a role and a sequence of parts; what a part says is a      *)
(* sequence of words, and a mark the code adds to a text is a word of it.  *)
(* A part of kind "invalid" stands for the exception the conversion of     *)
(* that part raises.  What becomes of the schemas of the tools is left to  *)
(* ModelAdapters.                                                          *)
(***************************************************************************)
EXTENDS Naturals, Sequences, SequencesExt

CONSTANTS
  Adapters,
  Settings,             \* [tools, choice, chosen, budget, thinker, planner]: the parameters
  SchemaOf,             \* tool -> schema, a tree of [ref, below]
  GoogleSchemas,        \* tool -> schema, as json_schema_to_google makes it
  Inputs,               \* sequences of parts: what a user may say
  Answers,              \* adapter -> what its service may answer
  ServiceErrors,        \* adapter -> names of the exceptions of its client
  ToolOutcomes,         \* words of a tool's result
  ProgressTool,         \* the tool of the solo mode, None without it
  CallIds,              \* the ids of the calls, in the order they are handed out
  Retries,              \* retryable_config.retries
  MaxTurns,
  PlanFrom,             \* no memory of fewer messages is too long for the planner
  None

\* Words are strings.  A user says texts and attaches files.
InputPart ==
  [kind: {"text", "attachment"}, id: {None}, name: {None} \cup STRING, body: Seq(STRING)]

ASSUME InputsAssumption == Inputs \subseteq Seq(InputPart) \ {<<>>}

ASSUME OutcomesAssumption == ToolOutcomes \subseteq Seq(STRING)

VARIABLES
  adapter, settings,    \* of the chat model that is used
  history,              \* the prompt and the messages of the memory
  opening,              \* how many of them the user said first
  omitted,              \* how many of those that follow are OMITTED
  request,              \* the request the service works on
  phase,                \* "idle", "invoke", "planned", "sent", or "tools"
  tries,                \* attempts of this request
  stop,                 \* stop_reason of the last response, until the next request
  queue,                \* _tool_use_queue
  reminder,             \* _has_continue_message_pending
  handedOut, turns      \* ids handed out, and messages of the user

conversationVars == <<adapter, settings, history, opening, omitted, request, phase, tries,
                      stop, queue, reminder, handedOut, turns>>

-----------------------------------------------------------------------------
\* Messages and their parts.

Part(kind, id, name, body) == [kind |-> kind, id |-> id, name |-> name, body |-> body]
Message(role, parts) == [role |-> role, parts |-> parts]

Text(words) == Part("text", None, None, words)
ToolUse(id, name, input) == Part("tool_use", id, name, <<input>>)
ToolResult(id, words) == Part("tool_result", id, None, words)
Invalid == Part("invalid", None, None, <<>>)

ImageTypes == {"image/jpeg", "image/png", "image/gif", "image/webp"}
FileTypes == {"application/pdf", "text/plain"}

\* x, if it is kept: a selection is a FlattenSeq of these.
Kept(x, keep) == IF keep THEN <<x>> ELSE <<>>

OfKinds(parts, kinds) ==
  FlattenSeq([i \in DOMAIN parts |-> Kept(parts[i], parts[i].kind \in kinds)])
WordsOf(parts) == FlattenSeq([i \in DOMAIN parts |-> parts[i].body])

\* lc_message_attachment_to_ant_content, lc_message_to_ant_message
AntPart(p) ==
  IF p.kind # "attachment" THEN p
  ELSE CASE p.name \in ImageTypes -> [p EXCEPT !.kind = "image"]
         [] p.name \in FileTypes -> [p EXCEPT !.kind = "document"]
         [] OTHER -> Invalid

AntMessage(m) == Message(m.role, [j \in DOMAIN m.parts |-> AntPart(m.parts[j])])
AntMessages(messages) == [i \in DOMAIN messages |-> AntMessage(messages[i])]

IsSystem(m) == m.role = "system"
SystemMessages(messages) ==
  FlattenSeq([i \in DOMAIN messages |-> Kept(messages[i], IsSystem(messages[i]))])
Spoken(messages) ==
  FlattenSeq([i \in DOMAIN messages |-> Kept(messages[i], ~IsSystem(messages[i]))])
Items(messages) == FlattenSeq([i \in DOMAIN messages |-> messages[i].parts])

-----------------------------------------------------------------------------
\* The request of the chat completions.

ChatPart(p) ==
  CASE p.kind \in {"text", "image", "tool_use", "invalid"} -> p
    [] p.kind = "thinking" -> Text(<<"[Thinking]">> \o p.body)
    [] OTHER -> Text(<<"[Unsupported]">>)

\* A message for every part: what has been gathered is flushed before each of them.
ChatUserMessages(parts) ==
  [i \in DOMAIN parts |->
     CASE parts[i].kind = "tool_result" -> Message("tool", <<parts[i]>>)
       [] parts[i].kind = "tool_use" -> Message("user", <<Invalid>>)
       [] OTHER -> Message("user", <<ChatPart(parts[i])>>)]

\* One message, with the texts before the calls; images are left out.
ChatAssistantMessages(parts) ==
  LET content == [i \in DOMAIN parts |->
                    IF parts[i].kind = "tool_result" THEN Invalid ELSE ChatPart(parts[i])]
  IN  <<Message("assistant", OfKinds(content, {"text", "invalid"})
                               \o OfKinds(content, {"tool_use"}))>>

ChatMessages(m) ==
  CASE m.role = "user" -> ChatUserMessages(m.parts)
    [] m.role = "assistant" -> ChatAssistantMessages(m.parts)
    [] OTHER -> <<Message("system", <<Text(WordsOf(m.parts))>>)>>

ChatRequest(messages) ==
  [system   |-> <<>>,
   messages |-> FlattenSeq([i \in DOMAIN messages |-> ChatMessages(messages[i])])]

-----------------------------------------------------------------------------
\* The request of the responses API: an item for every part, and instructions.

ImagesOf(words) ==
  FlattenSeq([i \in DOMAIN words |-> Kept(words[i], words[i] = "IMAGE")])
WithoutImages(words) ==
  FlattenSeq([i \in DOMAIN words |-> Kept(words[i], words[i] # "IMAGE")])

InputOfResult(p) ==
  <<Message("output", <<[p EXCEPT !.body = WithoutImages(p.body)]>>)>>
    \o Kept(Message("user", <<Part("image", None, None, <<"[Images]">> \o ImagesOf(p.body))>>),
            ImagesOf(p.body) # <<>>)

InputOfPart(role, p) ==
  CASE p.kind \in {"text", "invalid"} -> <<Message(role, <<p>>)>>
    [] p.kind \in {"image", "document"} ->
         <<Message(role, <<IF role = "user" THEN p ELSE Invalid>>)>>
    [] p.kind = "tool_use" -> <<Message("call", <<p>>)>>
    [] p.kind = "tool_result" -> InputOfResult(p)
    [] p.kind \in {"thinking", "redacted"} -> <<>>

InputOfMessage(m) ==
  FlattenSeq([i \in DOMAIN m.parts |-> InputOfPart(m.role, m.parts[i])])

ResponsesRequest(messages) ==
  [system   |-> Items(SystemMessages(messages)),
   messages |-> FlattenSeq([i \in DOMAIN Spoken(messages) |->
                              InputOfMessage(Spoken(messages)[i])])]

-----------------------------------------------------------------------------
\* The requests of Gemini and of Claude.

GeminiPart(p) ==
  CASE p.kind = "redacted" -> Invalid
    [] p.kind = "tool_result" -> [p EXCEPT !.name = p.id]
    [] OTHER -> p

GeminiMessage(m) ==
  Message(IF m.role = "assistant" THEN "model" ELSE m.role,
          [j \in DOMAIN m.parts |-> GeminiPart(m.parts[j])])

\* Only the first system message is used.
GeminiRequest(messages) ==
  [system   |-> IF SystemMessages(messages) = <<>> THEN <<>>
                ELSE Head(SystemMessages(messages)).parts,
   messages |-> [i \in DOMAIN Spoken(messages) |-> GeminiMessage(Spoken(messages)[i])]]

\* Mutant: the role is compared with that of the first message.
JoinRole_First(joined, m) ==
  IF joined # <<>> /\ Head(joined).role = m.role
  THEN [joined EXCEPT ![Len(joined)].parts = @ \o m.parts]
  ELSE Append(joined, m)

\* Messages of one role in a row become one message.
JoinRole(joined, m) ==
  IF joined # <<>> /\ Last(joined).role = m.role
  THEN [joined EXCEPT ![Len(joined)].parts = @ \o m.parts]
  ELSE Append(joined, m)

Joined(messages) ==
  LET upto[k \in 0..Len(messages)] ==
        IF k = 0 THEN <<>> ELSE JoinRole(upto[k - 1], messages[k])
  IN  upto[Len(messages)]

\* Each system message replaces the one before.
ClaudeRequest(messages) ==
  [system   |-> IF SystemMessages(messages) = <<>> THEN <<>>
                ELSE Last(SystemMessages(messages)).parts,
   messages |-> Joined(Spoken(messages))]

RequestOf(service, messages) ==
  CASE service = "chat" -> ChatRequest(messages)
    [] service = "responses" -> ResponsesRequest(messages)
    [] service = "gemini" -> GeminiRequest(messages)
    [] service = "claude" -> ClaudeRequest(messages)

-----------------------------------------------------------------------------
\* Tools, the choice of a tool, and thinking.

Recursion == [ref |-> "RecursionError", below |-> <<>>]

ToolSchema(tool) == IF adapter = "gemini" THEN GoogleSchemas[tool] ELSE SchemaOf[tool]
Tools == [tool \in settings.tools |-> ToolSchema(tool)]

\* prepare_openai_tool_choice, _get_response_tool_choice, and Gemini's
Choice(mode, name) == [mode |-> mode, name |-> name]

NamedChoice(unnamed) ==
  IF settings.chosen = None THEN unnamed ELSE Choice("function", settings.chosen)

OpenAIChoice(unnamed) ==
  CASE settings.choice = "any" -> Choice("required", None)
    [] settings.choice = "tool" -> NamedChoice(unnamed)
    [] OTHER -> Choice(settings.choice, None)

NotGiven == Choice(None, None)

ToolChoice ==
  CASE settings.choice = None -> NotGiven
    [] settings.choice # None /\ adapter = "chat" ->
         IF settings.tools = {} THEN NotGiven ELSE OpenAIChoice(NotGiven)
    [] settings.choice # None /\ adapter = "responses" -> OpenAIChoice(Choice("invalid", None))
    [] settings.choice # None /\ adapter = "gemini" ->
         Choice(IF settings.choice = "tool" THEN "unspecified" ELSE settings.choice,
                settings.chosen)
    [] settings.choice # None /\ adapter = "claude" ->
         Choice(settings.choice, settings.chosen)

\* ant_thinking_to_reasoning_effort, of a budget of tokens
EffortOf(budget) ==
  CASE budget = None -> None
    [] budget # None /\ budget <= 2048 -> "minimal"
    [] budget # None /\ budget \in 2049..8192 -> "low"
    [] budget # None /\ budget \in 8193..16384 -> "medium"
    [] budget # None /\ budget \in 16385..32768 -> "high"
    [] OTHER -> "xhigh"

\* A model that thinks is not given a temperature.
Params ==
  [tools    |-> Tools,
   choice   |-> ToolChoice,
   effort   |-> EffortOf(settings.budget),
   sampling |-> IF adapter = "claude" THEN settings.budget = None
                ELSE adapter = "gemini" \/ ~settings.thinker]

\* An exception in the conversion leaves no request.
Converts(r) ==
  /\ \A i \in DOMAIN r.messages : OfKinds(r.messages[i].parts, {"invalid"}) = <<>>
  /\ r.params.choice.mode # "invalid"
  /\ \A tool \in DOMAIN r.params.tools : r.params.tools[tool] # Recursion

FullRequest(messages) ==
  LET r == RequestOf(adapter, AntMessages(messages))
  IN  [system |-> r.system, messages |-> r.messages, params |-> Params]

-----------------------------------------------------------------------------
\* The answers of the services, as responses [content, stop].  The part at place j of
\* an answer has the id IdAt(j), given by the service or made by the adapter.

IdAt(j) == CallIds[handedOut + j]
TextOf(words) == IF words = <<>> THEN <<>> ELSE <<Text(words)>>
Response(content, reason) == [content |-> content, stop |-> reason]

\* The input of a call must be an object.
Called(call, id) ==
  IF call.args = "object" THEN ToolUse(id, call.name, "object") ELSE Invalid

\* _extract_inline_tool_calls: calls written into the text; what cannot be read is passed.
InlineCalls(text) ==
  FlattenSeq([j \in DOMAIN text |->
    IF text[j].name = None \/ text[j].args = "bad" THEN <<>>
    ELSE <<Called(text[j], IdAt(j))>>])

\* _extract_tool_calls: the old form of a call has its name for an id.
StructuredCalls(raw) ==
  [j \in DOMAIN raw.calls |-> Called(raw.calls[j], IdAt(j))]
    \o IF raw.legacy = None THEN <<>> ELSE <<Called(raw.legacy, raw.legacy.name)>>

StopOfFinish(finish) ==
  CASE finish = "length" -> "max_tokens"
    [] finish \in {"tool_calls", "function_call"} -> "tool_use"
    [] OTHER -> "end_turn"

\* openai_response_to_ant_response
ChatResponse(raw) ==
  LET calls   == StructuredCalls(raw)
      inline  == IF calls = <<>> THEN InlineCalls(raw.text) ELSE <<>>
      pieces  == IF inline = <<>> THEN raw.text
                 ELSE FlattenSeq([j \in DOMAIN raw.text |->
                                    Kept(raw.text[j], raw.text[j].name = None)])
      content == calls \o inline \o TextOf([j \in DOMAIN pieces |-> pieces[j].word])
  IN  CASE ~raw.choices -> Response(<<Invalid>>, None)
        [] raw.choices /\ content = <<>> -> Response(<<Text(<<>>)>>, StopOfFinish(raw.finish))
        [] OTHER -> Response(content, IF OfKinds(content, {"tool_use"}) # <<>> THEN "tool_use"
                                      ELSE StopOfFinish(raw.finish))

\* Of the content of a message, the first text or refusal only.  A citation that
\* begins at 0 is refused by the type it is given.
MessageOutput(item) ==
  IF item.texts = <<>> THEN <<>>
  ELSE LET first == Head(item.texts)
       IN  CASE first.refusal -> <<Text(<<"[Refusal]">> \o first.words)>>
             [] ~first.refusal /\ first.cited = 0 /\ first.words # <<>> -> <<Invalid>>
             [] OTHER -> TextOf(first.words)

FunctionCall(item, id) ==
  CASE item.name = None -> <<>>
    [] item.name # None /\ item.args = "bad" -> <<ToolUse(id, item.name, "empty")>>
    [] OTHER -> <<Called(item, id)>>

AdvancedName ==
  [file_search_call |-> "file_search", computer_call |-> "computer_tool",
   code_interpreter_call |-> "code_interpreter"]

Reasoning(item) ==
  LET words == IF item.content # <<>> THEN item.content ELSE item.summary
  IN  CASE item.encrypted # None -> <<Part("redacted", None, None, <<item.encrypted>>)>>
        [] item.encrypted = None /\ words # <<>> -> <<Part("thinking", None, None, words)>>
        [] OTHER -> <<>>

\* A response has no images: its type refuses one.
ImageOutput(item) ==
  CASE item.data -> <<Invalid>>
    [] ~item.data /\ (item.call \/ item.url) -> <<Text(<<"[Image]">>)>>
    [] OTHER -> <<>>

\* The words of the first of these fields that the item has.
FieldOf(item, names) ==
  LET has == FlattenSeq([j \in DOMAIN names |->
               Kept(names[j], names[j] \in DOMAIN item.fields /\ item.fields[names[j]] # <<>>)])
  IN  IF has = <<>> THEN <<>> ELSE item.fields[Head(has)]

Prefixed(mark, words) == IF words = <<>> THEN <<>> ELSE <<Text(<<mark>> \o words)>>

DocumentOutput(item) ==
  IF {"content", "data"} \cap DOMAIN item.fields = {} THEN <<>>
  ELSE Prefixed("[Document]", FieldOf(item, <<"analysis", "summary", "content", "data">>))
SearchOutput(item) == Prefixed("[Search]", FieldOf(item, <<"results", "content", "text">>))
ErrorOutput(item) == Prefixed("[Error]", FieldOf(item, <<"message", "error", "text">>))
UnknownOutput(item) ==
  <<Text(<<"[Unknown]">> \o FieldOf(item, <<"content", "text", "data">>))>>

\* _convert_output_item
OutputItem(item, id) ==
  CASE item.type = "message" -> MessageOutput(item)
    [] item.type = "function_call" -> FunctionCall(item, id)
    [] item.type \in DOMAIN AdvancedName ->
         FunctionCall([item EXCEPT !.name = AdvancedName[item.type]], id)
    [] item.type = "reasoning" -> Reasoning(item)
    [] item.type = "image_generation" -> ImageOutput(item)
    [] item.type \in {"document_analysis", "file_output"} -> DocumentOutput(item)
    [] item.type \in {"web_search", "search_result"} -> SearchOutput(item)
    [] item.type = "error" -> ErrorOutput(item)
    [] OTHER -> UnknownOutput(item)

\* The status hides the reason of an answer that is not complete.
FinishReason(raw) == IF raw.status # None THEN raw.status ELSE raw.reason

StopOfReason(reason) ==
  CASE reason \in {"max_output_tokens", "length", "max_tokens", "token_limit"} -> "max_tokens"
    [] reason \in {"tool_calls", "function_call", "tool_use", "function_calls"} -> "tool_use"
    [] OTHER -> "end_turn"

\* _responses_api_to_ant_response
ResponsesResponse(raw) ==
  Response(FlattenSeq([j \in DOMAIN raw.items |-> OutputItem(raw.items[j], IdAt(j))]),
           StopOfReason(FinishReason(raw)))

\* part_to_ant_content: a call without an id is named by its tool.
GeminiOutput(part, id) ==
  CASE part.text # None /\ part.thought -> <<Part("thinking", None, None, <<part.text>>)>>
    [] part.text # None /\ ~part.thought -> <<Text(<<part.text>>)>>
    [] part.text = None /\ part.name # None ->
         <<ToolUse(IF part.given THEN id ELSE part.name, part.name, "object")>>
    [] OTHER -> <<>>

StopOfGemini ==
  [STOP |-> "end_turn", MAX_TOKENS |-> "max_tokens", SAFETY |-> "invalid"]

GeminiResponse(raw) ==
  Response(FlattenSeq([j \in DOMAIN raw.parts |-> GeminiOutput(raw.parts[j], IdAt(j))]),
           IF raw.finish = None THEN None ELSE StopOfGemini[raw.finish])

\* append_stop_sequence: to the last text.
WithStopSequence(content, raw) ==
  LET texts == {j \in DOMAIN content : content[j].kind = "text"}
      last  == CHOOSE j \in texts : \A k \in texts : k <= j
  IN  IF raw.stop # "stop_sequence" \/ texts = {} THEN content
      ELSE [content EXCEPT ![last].body = Append(@, "[Stop]")]

\* An answer that ends the turn and says nothing is an exception.
ClaudeResponse(raw) ==
  LET content == [j \in DOMAIN raw.content |->
                    IF raw.content[j].kind = "tool_use"
                    THEN [raw.content[j] EXCEPT !.id = IdAt(j)] ELSE raw.content[j]]
  IN  IF raw.stop = "end_turn" /\ content = <<>> THEN Response(<<>>, "invalid")
      ELSE Response(WithStopSequence(content, raw), raw.stop)

ResponseOf(raw) ==
  CASE adapter = "chat" -> ChatResponse(raw)
    [] adapter = "responses" -> ResponsesResponse(raw)
    [] adapter = "gemini" -> GeminiResponse(raw)
    [] adapter = "claude" -> ClaudeResponse(raw)

\* What the services answer, as far as it is read.
Name == {None} \cup STRING

IsItem(item) ==
  CASE item.type = "message" ->
         item.texts \in Seq([refusal: BOOLEAN, words: Seq(STRING), cited: Nat])
    [] item.type = "reasoning" ->
         item.encrypted \in Name /\ {item.content, item.summary} \subseteq Seq(STRING)
    [] item.type \in {"function_call", "image_generation"} \cup DOMAIN AdvancedName -> TRUE
    [] OTHER -> \A field \in DOMAIN item.fields : item.fields[field] \in Seq(STRING)

IsAnswer(service, raw) ==
  CASE service = "chat" ->
         /\ raw.text \in Seq([name: Name, args: Name, word: STRING])
         /\ raw.calls \in Seq([name: STRING, args: STRING])
    [] service = "responses" ->
         raw.items \in Seq(Range(raw.items)) /\ \A item \in Range(raw.items) : IsItem(item)
    [] service = "gemini" ->
         raw.parts \in Seq([text: Name, thought: BOOLEAN, name: Name, given: BOOLEAN])
    [] service = "claude" ->
         raw.content \in Seq([kind: {"text", "thinking", "redacted", "tool_use"},
                               id: {None}, name: Name, body: Seq(STRING)])

ASSUME AnswersAssumption ==
  /\ Adapters \subseteq {"chat", "responses", "gemini", "claude"}
  /\ \A service \in Adapters : \A raw \in Answers[service] : IsAnswer(service, raw)

-----------------------------------------------------------------------------
\* Errors and attempts.

Retried ==
  [chat      |-> {"ConnectionError", "RateLimitError"},
   responses |-> {"ConnectionError", "RateLimitError"},
   gemini    |-> {"ConnectionError", "ServerError", "UnexpectedEmptyResponseException"},
   claude    |-> {"ConnectionError", "BedrockServiceUnavailableException",
                  "BedrockThrottlingException", "BedrockModelErrorException"}]

\* BEDROCK_EXCEPTION_MAPPING, of those that are retried
BedrockName ==
  [ServiceUnavailableException |-> "BedrockServiceUnavailableException",
   ThrottlingException |-> "BedrockThrottlingException",
   ModelErrorException |-> "BedrockModelErrorException"]

\* Of the exceptions of botocore that are not mapped
BotocoreErrors == {"ClientError", "EndpointConnectionError", "ReadTimeoutError"}

Raised(error) ==
  CASE adapter = "claude" /\ error \in DOMAIN BedrockName -> BedrockName[error]
    [] adapter = "claude" /\ error \in BotocoreErrors -> "BedrockBaseException"
    [] OTHER -> error

\* The request and its attempts are forgotten with the call that made them.
Leave(next) == phase' = next /\ request' = None /\ tries' = 0

\* retryable: the first attempt and Retries more.
AttemptFails(error) ==
  /\ IF Raised(error) \in Retried[adapter] /\ tries <= Retries
     THEN tries' = tries + 1 /\ UNCHANGED <<phase, request>>
     ELSE Leave("idle")
  /\ UNCHANGED <<history, stop, queue, handedOut>>

-----------------------------------------------------------------------------
\* The conversation.

Prompt == Message("system", <<Text(<<"prompt">>)>>)
Continue == Message("system", <<Text(<<"continue">>)>>)
PlanMessage == Message("user", <<Text(<<"plan">>)>>)

\* What is not OMITTED of the messages: the prompt, the opening, and the recent ones.
NotOmitted(messages) ==
  SubSeq(messages, 1, 1 + opening) \o SubSeq(messages, 2 + opening + omitted, Len(messages))

Remembered == NotOmitted(history)

\* The solo mode puts its message into the memory.
Reminded == IF reminder THEN Append(history, Continue) ELSE history

ConversationInit ==
  /\ adapter \in Adapters /\ settings \in Settings
  /\ history = <<Prompt>> /\ opening = 0 /\ omitted = 0 /\ request = None
  /\ phase = "idle" /\ tries = 0 /\ stop = None
  /\ queue = <<>> /\ reminder = FALSE
  /\ handedOut = 0 /\ turns = 0

\* A message of the user, with a message for each attachment.
UserSays(parts) ==
  /\ phase = "idle" /\ turns < MaxTurns
  /\ history' = history \o [i \in DOMAIN parts |-> Message("user", <<parts[i]>>)]
  /\ opening' = IF history = <<Prompt>> THEN Len(parts) ELSE opening
  /\ phase' = "invoke"
  /\ turns' = turns + 1
  /\ UNCHANGED <<adapter, settings, omitted, request, tries, stop, queue, reminder,
                 handedOut>>

\* Mutant: on_memory marks up to any message.
Cuts_Anywhere == omitted + 1 .. Len(history) - 1 - opening

\* How many messages behind the opening on_memory of the planner may mark, when the memory
\* has become too long: it goes on to a message of the assistant, or to the end.
Cuts ==
  {n \in omitted + 1 .. Len(history) - 1 - opening :
     2 + opening + n \in DOMAIN history => history[2 + opening + n].role = "assistant"}

PlannerActs == phase = "invoke" /\ settings.planner /\ Len(Remembered) >= PlanFrom

\* on_memory of the planner and of the solo mode, then _on_invoke_llm: the plan is added,
\* and the messages that are marked become OMITTED.
Plan ==
  /\ PlannerActs
  /\ omitted' \in Cuts
  /\ history' = Append(Reminded, PlanMessage)
  /\ reminder' = FALSE
  /\ phase' = "planned"
  /\ UNCHANGED <<adapter, settings, opening, request, tries, stop, queue, handedOut, turns>>

\* The planner raises, or the request is cancelled while its model works: nothing is left out.
PlanFails ==
  /\ PlannerActs /\ Cuts # {}
  /\ history' = Reminded
  /\ reminder' = FALSE
  /\ phase' = "idle"
  /\ UNCHANGED <<adapter, settings, opening, omitted, request, tries, stop, queue, handedOut,
                 turns>>

\* The adapter makes the request of what is remembered.
Invoke ==
  /\ phase \in {"invoke", "planned"}
  /\ history' = Reminded
  /\ LET r == FullRequest(NotOmitted(Reminded))
     IN  IF Converts(r)
         THEN request' = r /\ phase' = "sent" /\ tries' = 1
         ELSE Leave("idle")
  /\ reminder' = FALSE /\ stop' = None
  /\ UNCHANGED <<adapter, settings, opening, omitted, queue, handedOut, turns>>

ServiceFails ==
  /\ phase = "sent"
  /\ \E error \in ServiceErrors[adapter] : AttemptFails(error)
  /\ UNCHANGED <<adapter, settings, opening, omitted, reminder, turns>>

\* _process_response: thoughts, then the text, then the calls wait for their turn.  The
\* text is one message, for the routes set no parser of tags (raw_output_parser is None).
TakeResponse(r) ==
  LET thoughts == OfKinds(r.content, {"thinking", "redacted"})
      words    == WordsOf(OfKinds(r.content, {"text"}))
      calls    == OfKinds(r.content, {"tool_use"})
  IN  /\ history' = history
            \o [i \in DOMAIN thoughts |-> Message("assistant", <<thoughts[i]>>)]
            \o [i \in DOMAIN TextOf(words) |-> Message("assistant", <<Text(words)>>)]
      /\ stop' = r.stop
      /\ queue' = calls
      /\ Leave(IF calls = <<>> THEN "idle" ELSE "tools")

\* Parts of an answer that may be given an id; an old call counts as one of them.
Pieces(raw) ==
  CASE adapter = "chat" ->
         Len(raw.calls) + Len(raw.text) + IF raw.legacy = None THEN 0 ELSE 1
    [] adapter = "responses" -> Len(raw.items)
    [] adapter = "gemini" -> Len(raw.parts)
    [] adapter = "claude" -> Len(raw.content)

NoCandidates(raw) == adapter = "gemini" /\ raw.parts = <<>> /\ ~raw.candidates

\* An exception while the answer is read is not retried.
ServiceAnswers(raw) ==
  /\ phase = "sent"
  /\ handedOut + Pieces(raw) <= Len(CallIds)
  /\ LET r == ResponseOf(raw)
     IN  CASE NoCandidates(raw) -> AttemptFails("UnexpectedEmptyResponseException")
           [] ~NoCandidates(raw) /\ (r.stop = "invalid" \/ Invalid \in Range(r.content)) ->
                Leave("idle") /\ UNCHANGED <<history, stop, queue, handedOut>>
           [] OTHER -> TakeResponse(r) /\ handedOut' = handedOut + Pieces(raw)
  /\ UNCHANGED <<adapter, settings, opening, omitted, reminder, turns>>

\* The request is cancelled while the service works on it.
Cancelled ==
  /\ phase = "sent"
  /\ Leave("idle")
  /\ UNCHANGED <<adapter, settings, history, opening, omitted, stop, queue, reminder,
                 handedOut, turns>>

\* A call and its result go to the memory together.
Exchange(call, words) ==
  <<Message("assistant", <<call>>), Message("user", <<ToolResult(call.id, words)>>)>>

ResultsOf(call) == IF call.name \in settings.tools THEN ToolOutcomes ELSE {<<"unsupported">>}

\* _process_tool_use, for the next call of the queue.  What runs between the call and its
\* result goes to the memory (on_before_tool_use) neither raises nor waits in an extension
\* that the routes install, and no two of these have a tool of one name.
RunTool ==
  /\ phase = "tools"
  /\ \E words \in ResultsOf(Head(queue)) :
        history' = history \o Exchange(Head(queue), words)
  /\ queue' = Tail(queue)
  /\ phase' = IF queue' = <<>> THEN "invoke" ELSE "tools"
  /\ \/ reminder' = reminder
     \/ /\ Head(queue).name = ProgressTool /\ ProgressTool \in settings.tools
        /\ reminder' = TRUE
  /\ UNCHANGED <<adapter, settings, opening, omitted, request, tries, stop, handedOut, turns>>

\* Mutant: the call of the tool that failed is left without a result.
ToolFails_Silent ==
  /\ phase = "tools" /\ Head(queue).name \in settings.tools
  /\ history' = Append(history, Message("assistant", <<Head(queue)>>))
  /\ queue' = <<>>
  /\ phase' = "idle"
  /\ UNCHANGED <<adapter, settings, opening, omitted, request, tries, stop, reminder,
                 handedOut, turns>>

\* A tool raises, or is cancelled while it runs: the turn ends, and the calls behind it
\* are forgotten.  Its own call gets a result that says so.
ToolFails ==
  /\ phase = "tools" /\ Head(queue).name \in settings.tools
  /\ history' = history \o Exchange(Head(queue), <<"failed">>)
  /\ queue' = <<>>
  /\ phase' = "idle"
  /\ UNCHANGED <<adapter, settings, opening, omitted, request, tries, stop, reminder,
                 handedOut, turns>>

ConversationNext ==
  \/ \E parts \in Inputs : UserSays(parts)
  \/ Plan
  \/ PlanFails
  \/ Invoke
  \/ ServiceFails
  \/ \E raw \in Answers[adapter] : ServiceAnswers(raw)
  \/ Cancelled
  \/ RunTool
  \/ ToolFails

ConversationSpec == ConversationInit /\ [][ConversationNext]_conversationVars

-----------------------------------------------------------------------------
\* What the services are sent.

Speaker(role) == IF role \in {"assistant", "model", "call"} THEN "assistant" ELSE "user"

\* The parts of a conversation, each with its speaker.
SaidIn(m) == [j \in DOMAIN m.parts |-> [by |-> Speaker(m.role), part |-> m.parts[j]]]
Said(messages) == FlattenSeq([i \in DOMAIN messages |-> SaidIn(messages[i])])

\* Its texts, calls and results.  A text of the adapter's own is none of them.
IsNote(p) ==
  p.kind = "text" /\ p.body # <<>> /\ Head(p.body) \in {"[Thinking]", "[Unsupported]"}

Utterance(said) ==
  Kept(<<said.by, said.part.kind, said.part.id, WithoutImages(said.part.body)>>,
       said.part.kind \in {"text", "tool_use", "tool_result"} /\ ~IsNote(said.part))

Conversation(messages) ==
  FlattenSeq([i \in DOMAIN Said(messages) |-> Utterance(Said(messages)[i])])

Instructions(messages) == Range(Items(SystemMessages(messages)))

\* Every service is sent all that is remembered: what was said, called and answered, by
\* whom, and in the order in which it happened, however the adapter cuts the messages up
\* or joins them.  The adapters of the OpenAI services also send every instruction, of
\* the prompt and of the memory; the other two send one of them, the first or the last.
\* Only the planner leaves something out: never the opening, and never without a plan
\* behind what it has left out, which may be all that followed the opening.
ConversationKept ==
  phase = "sent" =>
    /\ Conversation(Spoken(request.messages)) = Conversation(Spoken(Remembered))
    /\ adapter \in {"chat", "responses"} =>
         Instructions(Remembered)
           \subseteq Range(request.system) \cup Instructions(request.messages)
    /\ omitted > 0 =>
         settings.planner
           /\ \E i \in 2 + opening + omitted .. Len(history) : history[i] = PlanMessage

\* Every call of the parts that are said is followed by its result, and every result
\* follows its call.
Paired(said) ==
  LET Of(i, kind) == i \in DOMAIN said /\ said[i].part.kind = kind
      Same(i, j)  == said[i].part.id = said[j].part.id
  IN  \A i \in DOMAIN said :
        /\ Of(i, "tool_use") => Of(i + 1, "tool_result") /\ Same(i + 1, i)
        /\ Of(i, "tool_result") => Of(i - 1, "tool_use") /\ Same(i - 1, i)

\* A service refuses a call without its result, and a result without its call.  There are
\* none, whether tools failed, were cancelled half way through their batch, attempts were
\* repeated, or the planner left the messages before them out.
CallsAnswered ==
  phase = "sent" =>
    Paired(Said(Spoken(request.messages)))
=============================================================================
