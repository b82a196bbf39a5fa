--------------------------- MODULE ForwardedBodies ---------------------------
(***************************************************************************)
(* What of a body Forwarding reads and rewrites, against where the three   *)
(* APIs keep a user's texts and files: those that Provider says it reads,  *)
(* and those that the APIs have besides.                                   *)
(***************************************************************************)
EXTENDS Forwarding

\* The pointers to the strings of a body.
RECURSIVE Leaves(_)
Leaves(value) ==
    LET Under(segment, child) == {<<segment>> \o p : p \in Leaves(child)} IN
    CASE value.t = "str" -> {<<>>}
      [] value.t = "arr" -> UNION {Under(Segment(i), value.items[i]) : i \in DOMAIN value.items}
      [] value.t = "obj" -> UNION {Under(k, value.fields[k]) : k \in DOMAIN value.fields}
      [] OTHER -> {}

\* A pointer with its indexes blotted out.
Shape(pointer) ==
    [i \in DOMAIN pointer |-> IF pointer[i] \in {ToString(n) : n \in 0 .. 9} THEN "#" ELSE pointer[i]]

LeavesOf(shapes) == {p \in Leaves(request.body) : Shape(p) \in shapes}

\* What the documentation of Provider and of its three adapters names: the
\* system prompt, and the messages as strings or as blocks of text.
PromptShapes ==
    [anthropic |-> {<<"system">>, <<"system", "#", "text">>,
                    <<"messages", "#", "content">>, <<"messages", "#", "content", "#", "text">>},
     openai |-> {<<"messages", "#", "content">>, <<"messages", "#", "content", "#", "text">>},
     google |-> {<<"systemInstruction", "parts", "#", "text">>, <<"contents", "#", "parts", "#", "text">>}]

\* The other places where an API has a text somebody wrote: the results and the
\* arguments of tools, documents given as text, another spelling of the prompt.
OtherShapes ==
    [anthropic |-> {<<"messages", "#", "content", "#", "content">>,
                    <<"messages", "#", "content", "#", "content", "#", "text">>,
                    <<"messages", "#", "content", "#", "input", "query">>},
     openai |-> {<<"messages", "#", "tool_calls", "#", "function", "arguments">>},
     google |-> {<<"system_instruction", "parts", "#", "text">>,
                 <<"contents", "#", "parts", "#", "functionResponse", "response", "result">>}]
SourceShapes == {<<"messages", "#", "content", "#", "source", "data">>}
IsText(p) == At(request.body, Append(Front(p), "type")) = Str("text")

PromptTexts(name) == LeavesOf(PromptShapes[name])
OtherTexts(name) == LeavesOf(OtherShapes[name]) \cup {p \in LeavesOf(SourceShapes) : IsText(p)}

\* A file is a block of a message; Anthropic's may also be in a tool's result.
FileShapes ==
    [anthropic |-> {<<"messages", "#", "content", "#", "source", "data">>},
     openai |-> {<<"messages", "#", "content", "#", "file", "file_data">>,
                 <<"messages", "#", "content", "#", "image_url", "url">>},
     google |-> {<<"contents", "#", "parts", "#", "inline_data", "data">>,
                 <<"contents", "#", "parts", "#", "inlineData", "data">>}]
NestedFileShapes == {<<"messages", "#", "content", "#", "content", "#", "source", "data">>}

(* "The body is forwarded as the caller wrote it, with only those          *)
(* locations rewritten when masking" (adapters.rs:10): under mask every    *)
(* text of the prompt that holds a number leaves as its placeholder,       *)
(* and every string that is no text of the caller leaves unchanged at the  *)
(* same place, whatever lies between.  Of the texts in tool results, tool  *)
(* arguments and the like nothing is demanded but that they leave as they  *)
(* were or masked: the code does not look at them.                         *)
OnlyTextsAreRewritten ==
    \A i \in DOMAIN sent :
        LET forwarded == sent[i].body
            Numbers(texts) == IF Inspectable /\ policy.mode = Masked
                              THEN {p \in texts : At(request.body, p).text = "number"} ELSE {}
            mustBe == Numbers(PromptTexts(Provider.name))
            mayBe == Numbers(OtherTexts(Provider.name))
        IN  /\ Leaves(forwarded) = Leaves(request.body)
            /\ \A p \in Leaves(forwarded) :
                  \/ p \in mustBe \cup mayBe /\ At(forwarded, p) = Str(Placeholder)
                  \/ p \notin mustBe /\ At(forwarded, p) = At(request.body, p)

(* A file that is a block of a message is read, or reported as unread,     *)
(* exactly once, whichever of its API's forms it comes in and whatever     *)
(* surrounds it, and nothing else is taken for a file                      *)
(* (Provider::attachments): "a gateway that understands one of them        *)
(* protects one client".  Nothing is demanded of a file inside a tool's    *)
(* result, which the code does not look into.                              *)
EveryFileIsRead ==
    context # <<>> /\ policy.attachments =>
        LET seen == verdict.read \o verdict.unread
            In(shapes) == {p \in LeavesOf(shapes) : At(request.body, p).text \in Payloads \cup DataUris}
            files == In(FileShapes[Provider.name])
        IN  /\ IsInjective(seen)
            /\ files \subseteq ToSet(seen)
            /\ ToSet(seen) \subseteq files \cup In(NestedFileShapes)
=============================================================================
