---------------------------- MODULE MCForwarding ----------------------------
\* Small instance of Forwarding: bodies of up to three blocks in each API.
EXTENDS ForwardedBodies

\* The blocks of each API: texts, files in every form, and what is neither.
Text(text) == Obj("type" :> Str("text") @@ "text" :> Str(text))
Source(type, data) == Obj("source" :> Obj("type" :> Str(type) @@ "data" :> Str(data)))
ToolResult(content) == Obj("type" :> Str("tool_result") @@ "content" :> content)
ToolUse == Obj("type" :> Str("tool_use") @@ "input" :> Obj("query" :> Str("number")))
Inline(key, data) == Obj(key :> Obj("data" :> Str(data)))

Blocks ==
    [anthropic |-> {Text("number"), Text("name"), Source("base64", "data:number"), Source("base64", "junk"),
                    Source("text", "number"), ToolResult(Arr(<<Text("number"), Source("base64", "data:number")>>))},
     openai |-> {Text("number"), Text("name"), Obj("file" :> Obj("file_data" :> Str("data:number"))),
                 Obj("file" :> Obj("file_id" :> Str("id")) @@ "image_url" :> Obj("url" :> Str("data:number"))),
                 Obj("image_url" :> Obj("url" :> Str("https:")))},
     google |-> {Text("number"), Obj("text" :> Other), Inline("inline_data", "data:number"),
                 Inline("inlineData", "data:number"), Inline("inlineData", "junk")}]
\* What else each API has in the place of a block.
MoreBlocks ==
    [anthropic |-> {ToolResult(Str("number")), ToolUse},
     openai |-> {Other},
     google |-> {Obj("functionResponse" :> Obj("response" :> Obj("result" :> Str("number"))))}]

Lists(name) ==
    UNION {[1 .. n -> Blocks[name]] : n \in 0 .. 3} \cup (MoreBlocks[name] \X Blocks[name])
Message(content) == Obj("role" :> Str("user") @@ "content" :> content)
Parts(parts) == Obj("parts" :> Arr(parts))
ToolCall == Obj("function" :> Obj("arguments" :> Str("number")))

Messages(name) ==
    {<<Message(Arr(l))>> : l \in Lists(name)}
        \cup {<<Message(Str("number")), Message(Arr(<<b>>))>> : b \in Blocks[name]}
        \cup {<<Obj("role" :> Str("user")), Message(Str("number"))>>,
              <<Obj("tool_calls" :> Arr(<<ToolCall>>)), Message(Str("number"))>>}

Model == "model" :> Str("m")
Bodies(name) ==
    CASE name = "google" ->
            {Obj("contents" :> Arr(<<Parts(l)>>)) : l \in Lists(name)}
                \cup {Obj("systemInstruction" :> Parts(<<Obj("text" :> Other), Text("number")>>)
                            @@ "contents" :> Arr(<<Other, Parts(<<b>>)>>)) : b \in Blocks[name]}
                \cup {Obj("system_instruction" :> Parts(<<Text("number")>>)
                            @@ "contents" :> Arr(<<Parts(<<Text("number")>>)>>))}
      [] name = "anthropic" ->
            {Obj(Model @@ "messages" :> Arr(m)) : m \in Messages(name)}
                \cup {Obj("system" :> s @@ "metadata" :> Str("number") @@ "messages" :> Arr(<<Message(Arr(<<b>>))>>)) :
                         s \in {Str("number"), Arr(<<Source("text", "number"), Text("number")>>)}, b \in Blocks[name]}
      [] OTHER -> {Obj(Model @@ "messages" :> Arr(m)) : m \in Messages(name)}

-----------------------------------------------------------------------------
Anthropic1 == [name |-> "anthropic", prefix |-> <<"/", "anthropic">>, upstream |-> <<"https", "://", "api", "/">>]
OpenAi1 == [name |-> "openai", prefix |-> <<"/", "openai">>, upstream |-> <<"http", "://", "router", ":", "4000", "/", "base">>]
Google1 == [name |-> "google", prefix |-> <<"/", "google">>, upstream |-> <<"https", "://", "language">>]
Local == [name |-> "local", prefix |-> <<"/", "openai", "/", "local">>, upstream |-> <<"http", "://", "local">>]

MCTables == {<<Anthropic1, Google1, OpenAi1, Local>>, <<Local, OpenAi1, Google1, Anthropic1>>}
MCPolicies ==
    [request : {TRUE}, attachments : {TRUE}, mode : {Advised, Masked, Blocked}]
        \cup [request : {TRUE}, attachments : {FALSE}, mode : {Masked}]
        \cup [request : {FALSE}, attachments : {TRUE}, mode : {Blocked}]

Headers == << <<"host", "gateway">>, <<"cookie", "a">>, <<"te", "x">>, <<"cookie", "b">>, <<"authorization", "key">> >>
Rest(name) ==
    IF name = "google" THEN <<"/", "v1", "/models/", "gemini", ":", "generate">> ELSE <<"/", "v1">>
Request(path, query, content, body) ==
    [path |-> path, query |-> query, content |-> content, body |-> body, headers |-> Headers]

MCRequests ==
    {Request(<<"/", r[1]>> \o Rest(r[1]), <<"key">>, "json", r[2]) :
        r \in UNION {{n} \X Bodies(n) : n \in {"anthropic", "openai", "google"}}}
    \cup {Request(path, query, content, Obj("messages" :> Arr(<<Message(Str("number"))>>))) :
        path \in {<<"/", "other">>, <<"/", "openai">>, <<"/", "openai", "-eu", "/", "v1">>,
                  <<"/", "openai", "/", "local", "/", "v1">>, <<"/", "anthropic", "/">>},
        query \in {<<>>, <<"key">>}, content \in {"json", "other", "empty"}}

MCAnswers == {<<>>, << <<"connection", "close">>, <<"set-cookie", "a">>, <<"set-cookie", "b">> >>}
MCPayloads == {"junk"}
MCDataUris == {"data:number"}
MCUndecodable == {"junk"}
=============================================================================
