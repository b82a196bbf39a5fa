----------------------------- MODULE Forwarding -----------------------------
(***************************************************************************)
(* proxy and relay in lib.rs, seen from outside: which provider a request  *)
(* goes to, what of its body, headers and path leaves the machine, what    *)
(* the audit trail says of it and what the caller gets back.  Gateway has  *)
(* the same handler with its concurrency and layer 2; here layer 2 is off  *)
(* and the bodies, paths and headers are there.                            *)
(***************************************************************************)
EXTENDS Adapters, FiniteSets

CONSTANTS
    Tables,      \* orders of config.providers, each a sequence of
                 \* [name, prefix, upstream]; a HashMap has no order of its own
    Policies,    \* [request, attachments : BOOLEAN, mode : Decisions]
    Requests,    \* [path, query, content, body, headers]
    Answers,     \* the header lines of an upstream's answer
    Payloads,    \* the strings that are a file, in base64
    Undecodable  \* the files that do not decode

\* Paths, URLs and queries are sequences of pieces, cut where the code may
\* cut or compare them.
ASSUME RequestsAssumption ==
    \A r \in Requests : r.path \in Seq(STRING) /\ r.query \in Seq(STRING)
\* An upstream is a base URL: a scheme, a host, perhaps a path, no query.
IsBaseUrl(upstream) ==
    upstream \in Seq(STRING) /\ "://" \in ToSet(upstream) /\ "?" \notin ToSet(upstream)
ASSUME TablesAssumption ==
    \A order \in Tables :
        /\ order \in Seq(ToSet(order))
        /\ \A provider \in ToSet(order) :
              provider.prefix \in Seq(STRING) /\ IsBaseUrl(provider.upstream)

Decisions == 0 .. 3
Observed == 0
Advised == 1
Masked == 2
Blocked == 3

Placeholder == "[PESEL]"

VARIABLES
    table,      \* the order this process iterates its providers in
    policy,     \* its configuration
    request,    \* the request in hand
    phase,      \* arrived, inspected, sent or done
    verdict,    \* what inspect_request concluded
    context,    \* the RequestContexts given to record_request, none or one
    sent,       \* what was sent upstream, nothing or one message
    answer      \* what the caller got

exchange == <<table, policy, request, phase, verdict, context, sent, answer>>

-----------------------------------------------------------------------------
Matching == {i \in DOMAIN table : IsPrefix(table[i].prefix, request.path)}
\* Config::provider_for: the first one met.
Provider == table[Min(Matching)]

Schemas == {"anthropic", "openai", "google"}

\* What detect finds in a text, at most one finding: a number with a
\* checksum, which the policy decides on, or a name, which is advised.
DecisionOn(text) ==
    CASE text \in {"number", "data:number"} -> policy.mode
      [] text = "name" -> Advised
      [] OTHER -> Observed

Highest(S) == CHOOSE d \in S : \A e \in S : e <= d

Clean == [decision |-> Observed, findings |-> {}, rewrites |-> {}, read |-> <<>>, unread |-> <<>>]

Inspected(schema, body) ==
    LET texts == TextPointers(schema, body)
        files == IF policy.attachments THEN Attachments(schema, body) ELSE <<>>
        Decoded(pointer) == At(body, pointer).text \notin Undecodable
        OnText == {DecisionOn(At(body, p).text) : p \in ToSet(texts)}
        read == SelectSeq(files, Decoded)
        OnFile == {IF DecisionOn(At(body, p).text) = Masked THEN Advised
                   ELSE DecisionOn(At(body, p).text) : p \in ToSet(read)}
    IN  [decision |-> Highest(OnText \cup OnFile \cup {Observed}),
         findings |-> (OnText \cup OnFile) \ {Observed},
         rewrites |-> {p \in ToSet(texts) : DecisionOn(At(body, p).text) >= Masked},
         read |-> read,
         unread |-> SelectSeq(files, LAMBDA p : ~Decoded(p))]

MaskedBody ==
    IF verdict.decision = Masked
    THEN FoldSet(LAMBDA p, body : WriteText(body, p, Placeholder), request.body, verdict.rewrites)
    ELSE request.body

-----------------------------------------------------------------------------
\* The pieces before the first one of these, all of them if there is none.
Until(pieces, stops) ==
    SubSeq(pieces, 1,
        Min({Len(pieces) + 1} \cup {i \in DOMAIN pieces : pieces[i] \in stops}) - 1)
\* The pieces after the first one of these, none if there is none.
AfterFirst(pieces, stop) ==
    SubSeq(pieces, Len(Until(pieces, {stop})) + 2, Len(pieces))

TrimEnd(pieces) ==
    SubSeq(pieces, 1, Max({0} \cup {i \in DOMAIN pieces : pieces[i] # "/"}))

UpstreamHostWithScheme(upstream) == Until(upstream, {"/"})
UpstreamHost(upstream) ==
    Until(IF "://" \in ToSet(upstream) THEN AfterFirst(upstream, "://") ELSE upstream, {"/"})

\* From the body, or else from the path; <<>> is an absent field.
UpstreamModel(body, path) ==
    LET model == Get(body, "model") IN
    IF IsStr(model) /\ model.text # "" THEN <<model.text>>
    ELSE Reverse(TrimEnd(Reverse(TrimEnd(
             Until(Until(AfterFirst(path, "/models/"), {"/models/"}), {":"})))))

Url ==
    TrimEnd(Provider.upstream)
        \o SubSeq(request.path, Len(Provider.prefix) + 1, Len(request.path))
        \o (IF request.query = <<>> THEN <<>> ELSE <<"?">> \o request.query)

-----------------------------------------------------------------------------
HopByHop == {"connection", "keep-alive", "proxy-authenticate", "proxy-authorization",
             "te", "trailers", "transfer-encoding", "upgrade"}

\* HeaderMap::insert: the value takes the place of all the name had.
Insert(out, line) == Append(SelectSeq(out, LAMBDA other : other[1] # line[1]), line)
ForwardableHeaders(lines) ==
    FoldLeft(Insert, <<>>,
        SelectSeq(lines, LAMBDA line : line[1] \notin HopByHop \cup {"host", "content-length"}))

\* Builder::header appends: a repeated name keeps every value.
RelayedHeaders(lines) ==
    SelectSeq(lines, LAMBDA line : line[1] \notin HopByHop \cup {"content-length"})
        \o (IF verdict.decision = Advised THEN << <<"x-sentin-advisory", "detected">> >> ELSE <<>>)

Error(status) == [status |-> status, headers |-> <<>>, detected |-> {}]
NoAnswer == Error("none")

-----------------------------------------------------------------------------
ForwardingInit ==
    /\ table \in Tables
    /\ policy \in Policies
    /\ request \in Requests
    /\ phase = "arrived"
    /\ verdict = Clean
    /\ context = <<>>
    /\ sent = <<>>
    /\ answer = NoAnswer

Finish(status) ==
    /\ phase' = "done"
    /\ answer' = Error(status)

NotFound ==
    /\ phase = "arrived"
    /\ Matching = {}
    /\ Finish("404")
    /\ UNCHANGED <<table, policy, request, verdict, context, sent>>

\* The caller's connection fails before its body is here.
BodyUnread ==
    /\ phase = "arrived"
    /\ Matching # {}
    /\ Finish("400")
    /\ UNCHANGED <<table, policy, request, verdict, context, sent>>

Inspectable ==
    policy.request /\ request.content = "json" /\ Provider.name \in Schemas

PassUninspected ==
    /\ phase = "arrived"
    /\ Matching # {}
    /\ ~Inspectable
    /\ phase' = "inspected"
    /\ UNCHANGED <<table, policy, request, verdict, context, sent, answer>>

\* inspect_request, record_request, and the refusal of what is blocked.
Inspect ==
    /\ phase = "arrived"
    /\ Matching # {}
    /\ Inspectable
    /\ verdict' = Inspected(Provider.name, request.body)
    /\ context' = <<[provider |-> Provider.name,
                     target_host |-> UpstreamHost(Provider.upstream),
                     upstream_model |-> UpstreamModel(request.body, request.path)]>>
    /\ IF verdict'.decision = Blocked
       THEN /\ phase' = "done"
            /\ answer' = [Error("403") EXCEPT !.detected = {Blocked} \cap verdict'.findings]
       ELSE /\ phase' = "inspected"
            /\ UNCHANGED answer
    /\ UNCHANGED <<table, policy, request, sent>>

Send ==
    /\ phase = "inspected"
    /\ phase' = "sent"
    /\ sent' = <<[url |-> Url, headers |-> ForwardableHeaders(request.headers), body |-> MaskedBody]>>
    /\ UNCHANGED <<table, policy, request, verdict, context, answer>>

Unreachable ==
    /\ phase = "sent"
    /\ Finish("502")
    /\ UNCHANGED <<table, policy, request, verdict, context, sent>>

Relay(lines) ==
    /\ phase = "sent"
    /\ phase' = "done"
    /\ answer' = [Error("upstream") EXCEPT !.headers = RelayedHeaders(lines)]
    /\ UNCHANGED <<table, policy, request, verdict, context, sent>>

ForwardingNext ==
    \/ NotFound \/ BodyUnread \/ PassUninspected \/ Inspect \/ Send \/ Unreachable
    \/ \E lines \in Answers : Relay(lines)

ForwardingSpec == ForwardingInit /\ [][ForwardingNext]_exchange

-----------------------------------------------------------------------------
(* The host the trail names is the one the request is sent to, for every   *)
(* order of the providers, upstreams with a port, a path or a trailing     *)
(* slash, paths and queries: provided the path goes on after the prefix    *)
(* with a slash or not at all (proxy, upstream_host).  Where an answer     *)
(* redirects the client to is not modelled.                                *)
TheTrailNamesTheDestination ==
    \A i \in DOMAIN sent : context # <<>> =>
        LET rest == SubSeq(request.path, Len(Provider.prefix) + 1, Len(request.path)) IN
        rest = <<>> \/ Head(rest) = "/" =>
            context[1].target_host = Until(AfterFirst(sent[i].url, "://"), {"/", "?"})
=============================================================================
