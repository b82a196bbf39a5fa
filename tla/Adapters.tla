------------------------------ MODULE Adapters ------------------------------
(***************************************************************************)
(* adapters.rs: where each provider's request keeps the text and the files *)
(* a user sent, as JSON pointers into the body the caller wrote.           *)
(***************************************************************************)
EXTENDS Naturals, Sequences, SequencesExt, TLC

CONSTANT DataUris    \* the strings that are a file in a data: URI

\* serde_json::Value.  Every value has the same fields, so that any two of
\* them can be compared; scalars other than strings are t = "other".
Json(t, text, items, fields) == [t |-> t, text |-> text, items |-> items, fields |-> fields]
None == Json("none", "", <<>>, <<>>)
Other == Json("other", "", <<>>, <<>>)
Str(text) == Json("str", text, <<>>, <<>>)
Arr(items) == Json("arr", "", items, <<>>)
Obj(fields) == Json("obj", "", <<>>, fields)

IsStr(value) == value.t = "str"
Get(value, key) ==
    IF value.t = "obj" /\ key \in DOMAIN value.fields THEN value.fields[key] ELSE None
Items(value) == IF value.t = "arr" THEN value.items ELSE <<>>

\* A pointer is the sequence of its segments; an index is written in decimal.
Segment(i) == ToString(i - 1)
Child(value, segment) ==
    LET at == {i \in DOMAIN Items(value) : Segment(i) = segment} IN
    IF at = {} THEN Get(value, segment) ELSE Items(value)[CHOOSE i \in at : TRUE]
At(body, pointer) == FoldLeft(Child, body, pointer)

\* The items of an array, each with its place; and those of the arrays that
\* the values at some places have under a key.
Places(base, value) ==
    [i \in DOMAIN Items(value) |-> [at |-> base \o <<Segment(i)>>, value |-> Items(value)[i]]]
Beneath(places, key) ==
    FlattenSeq([n \in DOMAIN places |->
                   Places(Append(places[n].at, key), Get(places[n].value, key))])

-----------------------------------------------------------------------------
\* Skips what is not text, and numbers only what it keeps.
CollectBlocksCountingTexts(value, base) ==
    LET texts == SelectSeq(Items(value), LAMBDA block : IsStr(Get(block, "text"))) IN
    [i \in DOMAIN texts |-> base \o <<Segment(i), "text">>]
CollectBlocks(value, base) ==
    LET texts == SelectSeq(Places(base, value), LAMBDA p : IsStr(Get(p.value, "text"))) IN
    [n \in DOMAIN texts |-> Append(texts[n].at, "text")]

\* messages[].content, a string or an array of blocks.
MessageTexts(body) ==
    LET messages == Places(<<"messages">>, Get(body, "messages"))
        Texts(message) ==
            LET base == Append(message.at, "content")
                content == Get(message.value, "content")
            IN  IF IsStr(content) THEN <<base>> ELSE CollectBlocks(content, base)
    IN  FlattenSeq([n \in DOMAIN messages |-> Texts(messages[n])])

Anthropic(body) ==
    LET system == Get(body, "system") IN
    (IF IsStr(system) THEN << <<"system">> >> ELSE CollectBlocks(system, <<"system">>))
        \o MessageTexts(body)

Google(body) ==
    LET contents == Places(<<"contents">>, Get(body, "contents"))
        Texts(at, value) == CollectBlocks(Get(value, "parts"), Append(at, "parts"))
    IN  Texts(<<"systemInstruction">>, Get(body, "systemInstruction"))
            \o FlattenSeq([n \in DOMAIN contents |-> Texts(contents[n].at, contents[n].value)])

TextPointers(schema, body) ==
    CASE schema = "anthropic" -> Anthropic(body)
      [] schema = "openai" -> MessageTexts(body)
      [] schema = "google" -> Google(body)

-----------------------------------------------------------------------------
WalkMessageBlocks(body) == Beneath(Places(<<"messages">>, Get(body, "messages")), "content")

Base64Source(base, block) ==
    LET source == Get(block, "source") IN
    IF Get(source, "type") = Str("base64") /\ IsStr(Get(source, "data"))
    THEN << base \o <<"source", "data">> >>
    ELSE <<>>

\* A URL that starts with data: holds the file.
IsDataUri(text) == text \in DataUris
FileOrDataUri(base, block) ==
    LET url == Get(Get(block, "image_url"), "url") IN
    IF IsStr(Get(Get(block, "file"), "file_data"))
    THEN << base \o <<"file", "file_data">> >>
    ELSE IF IsStr(url) /\ IsDataUri(url.text)
         THEN << base \o <<"image_url", "url">> >>
         ELSE <<>>

\* Both spellings of the key; the first one present is the one that is read.
InlineDataSnakeCaseOnly(base, part) ==
    IF IsStr(Get(Get(part, "inline_data"), "data"))
    THEN << base \o <<"inline_data", "data">> >>
    ELSE <<>>
InlineData(base, part) ==
    LET key == IF Get(part, "inline_data") # None THEN "inline_data" ELSE "inlineData" IN
    IF IsStr(Get(Get(part, key), "data")) THEN << base \o <<key, "data">> >> ELSE <<>>

Attachments(schema, body) ==
    LET blocks == WalkMessageBlocks(body)
        parts == Beneath(Places(<<"contents">>, Get(body, "contents")), "parts")
    IN  FlattenSeq(
            CASE schema = "anthropic" ->
                    [n \in DOMAIN blocks |-> Base64Source(blocks[n].at, blocks[n].value)]
              [] schema = "openai" ->
                    [n \in DOMAIN blocks |-> FileOrDataUri(blocks[n].at, blocks[n].value)]
              [] schema = "google" ->
                    [n \in DOMAIN parts |-> InlineData(parts[n].at, parts[n].value)])

-----------------------------------------------------------------------------
\* A value with another child at a segment it has.
Replaced(value, segment, child) ==
    IF value.t = "arr"
    THEN [value EXCEPT !.items = [i \in DOMAIN value.items |->
             IF Segment(i) = segment THEN child ELSE value.items[i]]]
    ELSE [value EXCEPT !.fields[segment] = child]
\* The body with the string at pointer replaced, unless there is no string:
\* from there up, each value on the way takes its new child.
WriteText(body, pointer, text) ==
    LET Around(i, child) == Replaced(At(body, SubSeq(pointer, 1, i - 1)), pointer[i], child) IN
    IF IsStr(At(body, pointer))
    THEN FoldRight(Around, [i \in DOMAIN pointer |-> i], Str(text))
    ELSE body
=============================================================================
