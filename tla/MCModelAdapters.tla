--------------------------- MODULE MCModelAdapters ---------------------------
(* The adapters with small conversations: every kind of part, answer and error. *)
EXTENDS ModelAdapters

Node(ref, below) == [ref |-> ref, below |-> below]
Entry(key, schema) == [key |-> key, schema |-> schema]
Leaf == Node(None, <<>>)

Ref(name) == Node(name, <<>>)
Object(entries) == Node(None, entries)
Defs(entries) == Entry("$defs", Object(entries))

\* Two definitions, one of which uses the other: met in this order and in the other,
\* before and after the $defs, with entries beside references, one of them a reference.
\* A name without a definition.  A tree refers to itself, a table only where its
\* additional properties do.
Outer == Object(<<Entry("x", Ref("Inner")), Entry("y", Leaf)>>)
Inner == Object(<<Entry("z", Leaf)>>)
MCSchemaOf ==
  [bash |-> Object(<<Defs(<<Entry("Outer", Outer), Entry("Inner", Inner)>>),
                     Entry("a", Node("Outer", <<Entry("note", Leaf), Entry("y", Ref("Inner"))>>)),
                     Entry("b", Ref("Inner"))>>),
   progress |-> Object(<<Entry("a", Ref("Inner")), Entry("b", Ref("Gone")),
                         Entry("c", Node("Outer", <<Entry("d", Ref("Inner"))>>)),
                         Entry("e", Ref("Outer")),
                         Defs(<<Entry("Inner", Inner), Entry("Outer", Outer)>>)>>),
   tree |-> Object(<<Defs(<<Entry("Tree", Object(<<Entry("left", Ref("Tree"))>>))>>),
                     Entry("a", Leaf)>>),
   table |-> Node("Table", <<Defs(<<Entry("Table",
               Object(<<Entry("additionalProperties", Ref("Table")), Entry("b", Leaf)>>))>>)>>)]
MCGoogleSchemas == [tool \in DOMAIN SchemaOf |-> GoogleSchema(SchemaOf[tool])]
MCSettings ==
  {[tools |-> {"bash", "progress"}, choice |-> "any", chosen |-> None, budget |-> None, thinker |-> FALSE, planner |-> FALSE],
   [tools |-> {}, choice |-> "tool", chosen |-> "bash", budget |-> 2049, thinker |-> TRUE, planner |-> TRUE],
   [tools |-> {"bash", "table"}, choice |-> "tool", chosen |-> None, budget |-> 2048, thinker |-> TRUE, planner |-> FALSE],
   [tools |-> {"tree"}, choice |-> None, chosen |-> None, budget |-> None, thinker |-> FALSE, planner |-> FALSE]}

Attachment(mime) == Part("attachment", None, mime, <<"data">>)
MCInputs ==
  {<<Text(<<"u1">>)>>, <<Text(<<"u2">>), Attachment("image/png"), Attachment("text/plain")>>,
   <<Attachment("application/zip")>>}

Call(name, args) == [name |-> name, args |-> args]
Piece(name, args, word) == [name |-> name, args |-> args, word |-> word]
Word(w) == Piece(None, None, w)

Chat(calls, legacy, text, finish) ==
  [choices |-> TRUE, calls |-> calls, legacy |-> legacy, text |-> text, finish |-> finish]
ChatAnswers ==
  {Chat(<<Call("bash", "object"), Call("progress", "object")>>, None, <<Word("a1")>>, "tool_calls"),
   Chat(<<Call("bash", "bad")>>, None, <<>>, "tool_calls"),
   Chat(<<>>, Call("gone", "object"), <<>>, "function_call"),
   Chat(<<>>, None, <<Word("a2"), Piece("bash", "object", "<tool_call>"),
                      Piece("bash", "bad", "<tool_call>")>>, "stop"),
   Chat(<<>>, None, <<Word("a3")>>, "length"),
   Chat(<<>>, None, <<>>, "stop"),
   [Chat(<<>>, None, <<>>, "stop") EXCEPT !.choices = FALSE]}

Content(refusal, words, cited) == [refusal |-> refusal, words |-> words, cited |-> cited]
Output(texts) == [type |-> "message", texts |-> texts]
FunctionItem(name, args) == [type |-> "function_call", name |-> name, args |-> args]
Thought(encrypted, content, summary) ==
  [type |-> "reasoning", encrypted |-> encrypted, content |-> content, summary |-> summary]
Loose(type, fields) == [type |-> type, fields |-> fields]
Raw(items, status, reason) == [items |-> items, status |-> status, reason |-> reason]
ResponseAnswers ==
  {Raw(<<Thought(None, <<>>, <<"t1">>), Output(<<Content(FALSE, <<"a1">>, 1), Content(FALSE, <<"a2">>, 1)>>),
         FunctionItem("bash", "object"), FunctionItem("bash", "bad")>>, "completed", None),
   Raw(<<FunctionItem("bash", "list")>>, "completed", None),
   Raw(<<Thought("secret", <<>>, <<>>), FunctionItem(None, "object"), FunctionItem("progress", "object")>>,
       "completed", None),
   Raw(<<Thought(None, <<>>, <<>>), Output(<<Content(TRUE, <<"no">>, 1)>>), Output(<<>>)>>,
       "incomplete", "max_output_tokens"),
   Raw(<<Output(<<Content(FALSE, <<"a3">>, 0)>>)>>, None, "max_output_tokens"),
   Raw(<<Loose("error", [message |-> <<"e">>]), Loose("document_analysis", [content |-> <<>>]),
         Loose("web_search", [text |-> <<"s">>]), Loose("mcp_call", [id |-> <<"m">>]),
         [type |-> "file_search_call", name |-> None, args |-> "object"]>>, "completed", None),
   Raw(<<[type |-> "image_generation", data |-> FALSE, call |-> TRUE, url |-> FALSE]>>, "completed", None),
   Raw(<<[type |-> "image_generation", data |-> TRUE, call |-> TRUE, url |-> FALSE]>>, "completed", None)}

GeminiPartOf(text, thought, name, given) ==
  [text |-> text, thought |-> thought, name |-> name, given |-> given]
Gemini(parts, finish) == [candidates |-> finish # None, parts |-> parts, finish |-> finish]
GeminiAnswers ==
  {Gemini(<<GeminiPartOf("t1", TRUE, None, FALSE), GeminiPartOf("a1", FALSE, None, FALSE),
            GeminiPartOf(None, FALSE, "bash", TRUE), GeminiPartOf(None, FALSE, "bash", FALSE),
            GeminiPartOf(None, FALSE, "progress", TRUE)>>, "STOP"),
   Gemini(<<GeminiPartOf(None, FALSE, None, FALSE), GeminiPartOf("a2", FALSE, None, FALSE)>>, "MAX_TOKENS"),
   Gemini(<<GeminiPartOf("a3", FALSE, None, FALSE)>>, "SAFETY"),
   Gemini(<<>>, None)}

Claude(content, reason) == [content |-> content, stop |-> reason]
Thinking(word) == Part("thinking", None, None, <<word>>)
ClaudeAnswers ==
  {Claude(<<Thinking("t1"), Text(<<"a1">>), ToolUse(None, "bash", "object"),
            ToolUse(None, "progress", "object")>>, "tool_use"),
   Claude(<<Part("redacted", None, None, <<"secret">>), Text(<<"a2">>), Text(<<"a3">>)>>, "stop_sequence"),
   Claude(<<>>, "end_turn")}

MCAnswers ==
  [chat |-> ChatAnswers, responses |-> ResponseAnswers, gemini |-> GeminiAnswers, claude |-> ClaudeAnswers]
MCServiceErrors ==
  [chat |-> {"RateLimitError", "APIConnectionError"}, responses |-> {"RateLimitError", "BadRequestError"},
   gemini |-> {"ServerError", "ClientError"},
   claude |-> {"ThrottlingException", "ValidationException", "ClientError", "ConnectionError"}]
MCToolOutcomes == {<<"r">>, <<"r", "IMAGE">>}
MCCallIds == <<"c1", "c2", "c3", "c4", "c5", "c6", "c7">>
=============================================================================
