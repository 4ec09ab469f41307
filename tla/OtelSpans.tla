----------------------------- MODULE OtelSpans -----------------------------
(***************************************************************************)
(* pkg/otel: an OTLP/JSON trace export is decoded into spans grouped by    *)
(* trace (otlp_json.go), and every span is translated into one event with  *)
(* its source identity and digest (translator.go, receiver.go).  A value   *)
(* is its type and its text; a digest is the value it is computed from.    *)
(***************************************************************************)
EXTENDS Integers, Sequences, FiniteSets, SequencesExt

CONSTANT Payloads   \* the exports that are received

VARIABLES payload,  \* the export
          decoded,  \* what DecodeTraceJSON returned: an error, or spans
          received  \* what ReceiveJSON returned: an error, or events

otelVars == <<payload, decoded, received>>

Val(t, v) == [t |-> t, v |-> v]
Result(err, list) == [err |-> err, list |-> list]
Pending == Result("pending", <<>>)

-----------------------------------------------------------------------------
(* otlp_json.go.                                                           *)

(* toAny: bytes, and an int that does not parse, become strings.           *)
toAny(x) ==
    CASE x.t = "bytes" -> Val("string", x.v)
      [] x.t = "int" /\ x.v = "junk" -> Val("string", x.v)
      [] OTHER -> x

(* keyValuesToMap: the last of equal keys counts, and a key must not be "".*)
keyValuesToMap(kvs) ==
    [k \in {kvs[i].k : i \in DOMAIN kvs} \ {""} |->
       toAny(kvs[CHOOSE i \in DOMAIN kvs :
                   kvs[i].k = k /\ \A j \in DOMAIN kvs : kvs[j].k = k => j <= i].x)]

(* A map under another: g's keys win.                                      *)
Over(g, f) == [k \in DOMAIN f \cup DOMAIN g |-> IF k \in DOMAIN g THEN g[k] ELSE f[k]]

scopeAttributes(scope) ==
    [k \in (IF scope.name = "" THEN {} ELSE {"otel.scope.name", "otel.library.name"})
             \cup (IF scope.version = "" THEN {} ELSE {"otel.scope.version", "otel.library.version"})
       |-> Val("string", IF k \in {"otel.scope.name", "otel.library.name"}
                         THEN scope.name ELSE scope.version)]

spanKindToString(raw) ==
    CASE raw \in {"1", "SPAN_KIND_INTERNAL"} -> "internal"
      [] raw \in {"2", "SPAN_KIND_SERVER"} -> "server"
      [] raw \in {"3", "SPAN_KIND_CLIENT"} -> "client"
      [] raw \in {"4", "SPAN_KIND_PRODUCER"} -> "producer"
      [] raw \in {"5", "SPAN_KIND_CONSUMER"} -> "consumer"
      [] raw \in {"0", "SPAN_KIND_UNSPECIFIED"} -> "unspecified"
      [] OTHER -> raw

statusCodeToString(raw) ==
    CASE raw \in {"1", "STATUS_CODE_OK"} -> "ok"
      [] raw \in {"2", "STATUS_CODE_ERROR"} -> "error"
      [] OTHER -> "unset"

(* unixNanoToTime: 0 stands for an absent time, -1 for one that is not a   *)
(* number.                                                                 *)
BadTime(s) == -1 \in {s.start, s.end} \cup {s.events[i].at : i \in DOMAIN s.events}

toOTelSpan(s, resource, scope) ==
    [tid |-> s.tid, sid |-> s.sid, parent |-> s.parent, name |-> s.name,
     kind |-> spanKindToString(s.kind), start |-> s.start, end |-> s.end,
     code |-> statusCodeToString(s.code), message |-> s.message,
     attrs |-> Over(keyValuesToMap(s.attrs), Over(scopeAttributes(scope), resource)),
     events |-> s.events]

(* The scopes of one resource, by their old name when there is no other.   *)
scopesOf(rs) == IF rs.scopeSpans = <<>> THEN rs.librarySpans ELSE rs.scopeSpans
scopeOf(ss) == IF ss.scope.name = "" /\ ss.scope.version = "" THEN ss.library ELSE ss.scope

RawSpans(p) ==
    FlattenSeq([r \in DOMAIN p |->
      FlattenSeq([s \in DOMAIN scopesOf(p[r]) |-> scopesOf(p[r])[s].spans])])

SpansOf(p) ==
    FlattenSeq([r \in DOMAIN p |->
      FlattenSeq([s \in DOMAIN scopesOf(p[r]) |->
        LET ss == scopesOf(p[r])[s] IN
        [n \in DOMAIN ss.spans |->
           toOTelSpan(ss.spans[n], keyValuesToMap(p[r].resource), scopeOf(ss))]])])

(* Traces in the order of their first spans, each one's spans in order.    *)
GroupedByTrace(spans) ==
    LET firsts == SelectSeq([i \in DOMAIN spans |-> i],
                    LAMBDA i : \A j \in 1 .. i - 1 : spans[j].tid # spans[i].tid)
    IN  FlattenSeq([n \in DOMAIN firsts |->
          SelectSeq(spans, LAMBDA s : s.tid = spans[firsts[n]].tid)])

DecodeTraceJSON(p) ==
    IF \E i \in DOMAIN RawSpans(p) : BadTime(RawSpans(p)[i]) THEN Result("decode", <<>>)
    ELSE Result("", GroupedByTrace(SpansOf(p)))

-----------------------------------------------------------------------------
(* translator.go: the first of some attributes.                            *)

Given(a, keys) == SelectSeq(keys, LAMBDA k : k \in DOMAIN a /\ a[k].t # "nil")

(* firstString: the first key that has a value, in any type, even "".      *)
firstString(a, keys) ==
    LET given == Given(a, keys) IN IF given = <<>> THEN "" ELSE a[given[1]].v
firstStringDefault(d, a, keys) ==
    LET s == firstString(a, keys) IN IF s = "" THEN d ELSE s

(* The first key whose value has one of these types, or is a string that   *)
(* parses as one of these texts.                                           *)
firstTyped(a, keys, types, texts) ==
    LET fit == SelectSeq(Given(a, keys),
                 LAMBDA k : a[k].t \in types \/ (a[k].t = "string" /\ a[k].v \in texts))
    IN  IF fit = <<>> THEN "" ELSE a[fit[1]].v

Numbers == {"0", "1", "7"}
firstBool(a, keys) == firstTyped(a, keys, {"bool"}, {"true", "false"})
firstInt(a, keys) == firstTyped(a, keys, {"int", "float"}, Numbers)
firstFloat(a, keys) == firstTyped(a, keys, {"float"}, Numbers)    \* not an int64
firstStringSlice(a, keys) ==
    LET fit == SelectSeq(Given(a, keys), LAMBDA k : a[k].t \in {"list", "string"})
    IN  IF fit = <<>> THEN "" ELSE a[fit[1]].v

-----------------------------------------------------------------------------
(* translator.go: what becomes of the attributes.                          *)

(* normalizeAttribute: JSON has one type of number.                        *)
normalizeAttribute(x) == IF x.t = "int" THEN Val("float", x.v) ELSE x

(* sensitiveAttribute: keys that always hold payload, and those that name  *)
(* a credential, a prompt, an argument, a result or a body.                *)
PayloadKeys == {"gen_ai.retrieval.query.text", "gen_ai.retrieval.documents",
                "gen_ai.input.messages", "gen_ai.output.messages"}
MarkedKeys == {"gen_ai.prompt", "prompt.text", "gen_ai.prompt.sha256", "prompt.sha256",
               "gen_ai.completion", "completion.text", "gen_ai.completion.sha256",
               "completion.sha256", "gen_ai.tool.call.arguments", "gen_ai.tool.call.result",
               "tool.input", "tool.output", "tool.input.sha256", "tool.output.sha256",
               "llm.usage.prompt_tokens", "prompt_tokens", "llm.usage.completion_tokens",
               "completion_tokens", "http.request_body", "input", "output", "body"}
sensitiveAttribute(k, x) ==
    k \in PayloadKeys \/ (k \in MarkedKeys /\ x.t \in {"string", "list", "map"})

Digest(x) == [sha256 |-> x]
preservedAttributes(a) ==
    [k \in DOMAIN a |->
       LET x == normalizeAttribute(a[k]) IN
       IF sensitiveAttribute(k, x) THEN Digest(x) ELSE [raw |-> x]]

ApplicationTypes ==
    {"ai.request.received", "ai.response.sent", "ai.llm.call", "ai.tool.exec",
     "ai.chain.run", "ai.policy.decision", "ai.retrieval.executed", "ai.model.invoked",
     "ai.model.output", "ai.action.precommit", "ai.action.executed",
     "ai.action.committed", "ai.action.error", "ai.human.approval"}
allowedEventType(t) == t \in ApplicationTypes

(* eventType: the attribute, else the operation, else the span's name,     *)
(* here the first of the words llm, tool and chain it contains.            *)
eventType(s) ==
    LET named == firstString(s.attrs, <<"atb.event_type", "atb.event.type",
                                        "ai.event_type", "ai.event.type">>)
        operation == firstString(s.attrs, <<"gen_ai.operation.name">>)
    IN  CASE allowedEventType(named) -> named
          [] operation = "retrieval" -> "ai.retrieval.executed"
          [] operation = "execute_tool" -> "ai.tool.exec"
          [] operation \in {"chat", "generate_content", "text_completion", "embeddings"} -> "ai.llm.call"
          [] operation \in {"create_agent", "invoke_agent", "invoke_workflow"} -> "ai.chain.run"
          [] s.name \in {"llm", "chat", "completion"} -> "ai.llm.call"
          [] s.name = "tool" -> "ai.tool.exec"
          [] s.name \in {"chain", "step"} -> "ai.chain.run"
          [] OTHER -> ""

-----------------------------------------------------------------------------
(* translator.go: the context of each type.                                *)

(* addTextDigest and addValueDigest.                                       *)
textDigest(a, texts, digests) ==
    [text |-> firstString(a, texts), sha256 |-> firstString(a, digests)]
valueDigest(a, k) ==
    Digest(IF Given(a, <<k>>) = <<>> THEN Val("nil", "") ELSE normalizeAttribute(a[k]))

tokenUsage(a) ==
    [prompt     |-> firstInt(a, <<"gen_ai.usage.input_tokens", "llm.usage.prompt_tokens", "prompt_tokens">>),
     completion |-> firstInt(a, <<"gen_ai.usage.output_tokens", "llm.usage.completion_tokens", "completion_tokens">>),
     total      |-> firstInt(a, <<"gen_ai.usage.total_tokens", "llm.usage.total_tokens", "total_tokens">>)]

llmContext(a) ==
    [provider   |-> firstString(a, <<"gen_ai.provider.name", "gen_ai.system", "llm.provider", "ai.provider">>),
     model      |-> firstString(a, <<"gen_ai.request.model", "gen_ai.response.model", "llm.model", "ai.model">>),
     prompt     |-> textDigest(a, <<"gen_ai.prompt", "prompt.text">>, <<"gen_ai.prompt.sha256", "prompt.sha256">>),
     completion |-> textDigest(a, <<"gen_ai.completion", "completion.text">>,
                                  <<"gen_ai.completion.sha256", "completion.sha256">>),
     messages   |-> <<valueDigest(a, "gen_ai.input.messages"), valueDigest(a, "gen_ai.output.messages")>>,
     usage      |-> tokenUsage(a),
     temperature |-> firstFloat(a, <<"gen_ai.request.temperature", "temperature">>),
     maxTokens  |-> firstInt(a, <<"gen_ai.request.max_tokens", "max_tokens">>),
     finish     |-> firstString(a, <<"gen_ai.response.finish_reason", "finish_reason">>)]

toolContext(a) ==
    [name      |-> firstString(a, <<"gen_ai.tool.name", "tool.name", "ai.tool.name", "tool_name">>),
     version   |-> firstString(a, <<"tool.version", "tool_version">>),
     input     |-> textDigest(a, <<"tool.input", "input.text">>, <<"tool.input.sha256", "input.sha256">>),
     output    |-> textDigest(a, <<"tool.output", "output.text">>, <<"tool.output.sha256", "output.sha256">>),
     arguments |-> valueDigest(a, "gen_ai.tool.call.arguments"),
     result    |-> valueDigest(a, "gen_ai.tool.call.result"),
     call      |-> firstString(a, <<"gen_ai.tool.call.id">>)]

retrievalContext(a) ==
    [query     |-> valueDigest(a, "gen_ai.retrieval.query.text"),
     documents |-> valueDigest(a, "gen_ai.retrieval.documents"),
     source    |-> firstString(a, <<"gen_ai.data_source.id">>)]

chainContext(a) ==
    [name    |-> firstString(a, <<"chain.name", "ai.chain.name", "chain_name">>),
     inputs  |-> firstStringSlice(a, <<"chain.input_keys", "input_keys">>),
     outputs |-> firstStringSlice(a, <<"chain.output_keys", "output_keys">>),
     steps   |-> firstInt(a, <<"chain.step_count", "step_count">>)]

contextForEvent(type, s) ==
    CASE type = "ai.llm.call" -> llmContext(s.attrs)
      [] type = "ai.tool.exec" -> toolContext(s.attrs)
      [] type = "ai.chain.run" -> chainContext(s.attrs)
      [] type = "ai.retrieval.executed" -> retrievalContext(s.attrs)
      [] OTHER -> [name |-> s.name, kind |-> s.kind]

privacyForSpan(s) ==
    LET mode == firstStringDefault("off", s.attrs, <<"privacy.mode", "atb.privacy.mode">>)
        told == firstBool(s.attrs, <<"privacy.redaction_enabled", "atb.privacy.redaction_enabled">>)
    IN  [mode |-> mode,
         redaction |-> IF told = "" THEN mode # "off" ELSE told = "true",
         ruleset |-> firstStringDefault("phase4-gdpr-v1", s.attrs,
                       <<"privacy.pii_ruleset", "atb.privacy.pii_ruleset">>)]

timingForSpan(s) ==
    [started |-> s.start, ended |-> s.end, latency |-> IF s.end = 0 THEN <<>> ELSE <<s.end - s.start>>]

statusForSpan(s) ==
    LET attr == firstString(s.attrs, <<"error", "exception.message">>)
        failed == s.code = "error" \/ attr # ""
    IN  [ok |-> ~failed, error |-> IF ~failed THEN "" ELSE IF attr # "" THEN attr ELSE s.message]

inferPhase(s) == IF s.code = "error" THEN "error" ELSE IF s.end # 0 THEN "end" ELSE "start"

(* Of an ai.action.error: the action and the class of its error.           *)
actionError(s) ==
    LET class == firstString(s.attrs, <<"error_class", "atb.error_class">>) IN
    [action |-> firstStringDefault(s.sid, s.attrs, <<"action_id", "atb.action_id", "gen_ai.tool.call.id">>),
     class |-> IF class \in {"failed", "blocked", "timeout", "exception", "denied_at_sink"}
               THEN class ELSE "failed"]

-----------------------------------------------------------------------------
(* computeSourceDigest: the whole span, its attributes in JSON.            *)
computeSourceDigestNoMessage(s) ==
    [s EXCEPT !.attrs = [k \in DOMAIN s.attrs |-> normalizeAttribute(s.attrs[k])],
              !.message = ""]
computeSourceDigest(s) ==
    [s EXCEPT !.attrs = [k \in DOMAIN s.attrs |-> normalizeAttribute(s.attrs[k])]]

(* The field whose absence makes a span unmappable, or "".                 *)
MappingError(s) ==
    CASE s.tid = "" -> "trace_id"
      [] s.sid = "" -> "span_id"
      [] s.start = 0 -> "start_time"
      [] eventType(s) = "" -> "event_type"
      [] OTHER -> ""

Translate(s) ==
    LET type == eventType(s) IN
    [type    |-> type,
     tid     |-> s.tid, sid |-> s.sid, parent |-> s.parent,
     framework |-> <<firstStringDefault("otel", s.attrs, <<"atb.framework", "framework">>),
                     firstString(s.attrs, <<"atb.framework_version", "framework_version", "otel.library.version">>)>>,
     run     |-> firstString(s.attrs, <<"atb.run_id", "run_id">>),
     phase   |-> firstStringDefault(inferPhase(s), s.attrs, <<"atb.phase", "ai.phase", "phase">>),
     context |-> contextForEvent(type, s),
     privacy |-> privacyForSpan(s),
     timing  |-> timingForSpan(s),
     status  |-> statusForSpan(s),
     attrs   |-> preservedAttributes(s.attrs),
     failure |-> IF type = "ai.action.error" THEN actionError(s) ELSE [action |-> "", class |-> ""]]

(* buildAcquisitionInfo: the identity is the span's id.                    *)
Acquired(s) == [id |-> <<"otel", s.sid>>, digest |-> computeSourceDigest(s), ev |-> Translate(s)]

(* Receive and ReceiveJSON: one span that cannot be mapped ends the whole  *)
(* import; DefaultTranslator skips none.                                   *)
ReceiveJSON(d) ==
    IF d.err # "" THEN d
    ELSE IF \E i \in DOMAIN d.list : MappingError(d.list[i]) # "" THEN Result("unmappable", <<>>)
    ELSE Result("", [i \in DOMAIN d.list |-> Acquired(d.list[i])])

-----------------------------------------------------------------------------
OtelInit == payload \in Payloads /\ decoded = Pending /\ received = Pending

Decode ==
    /\ decoded = Pending
    /\ decoded' = DecodeTraceJSON(payload)
    /\ UNCHANGED <<payload, received>>

Receive ==
    /\ decoded # Pending /\ received = Pending
    /\ received' = ReceiveJSON(decoded)
    /\ UNCHANGED <<payload, decoded>>

OtelNext == Decode \/ Receive
OtelSpec == OtelInit /\ [][OtelNext]_otelVars

-----------------------------------------------------------------------------
Events == received.list

\* An unchanged digest means unchanged evidence: two representations of a span
\* that reconciliation takes for the same are translated to the same event, as
\* long as their numbers have the same types (computeSourceDigest, Translate).
SameTypes(s, r) == \A k \in DOMAIN s.attrs \cap DOMAIN r.attrs : s.attrs[k].t = r.attrs[k].t
DigestCoversEvidence ==
    \A i, j \in DOMAIN Events :
      Events[i].digest = Events[j].digest /\ SameTypes(decoded.list[i], decoded.list[j])
        => Events[i].ev = Events[j].ev

\* Every span becomes one event, in the order of the export within its trace,
\* and the spans of a trace stay together (DecodeTraceJSON, Receive).
SpansKeepOrder ==
    received.err = "" =>
      /\ Len(Events) = Len(RawSpans(payload))
      /\ \A t \in {Events[i].ev.tid : i \in DOMAIN Events} :
           [i \in 1 .. Len(SelectSeq(Events, LAMBDA e : e.ev.tid = t)) |->
              SelectSeq(Events, LAMBDA e : e.ev.tid = t)[i].ev.sid]
           = [i \in 1 .. Len(SelectSeq(RawSpans(payload), LAMBDA s : s.tid = t)) |->
              SelectSeq(RawSpans(payload), LAMBDA s : s.tid = t)[i].sid]
      /\ \A i, j, k \in DOMAIN Events :
           i < j /\ j < k /\ Events[i].ev.tid = Events[k].ev.tid => Events[j].ev.tid = Events[i].ev.tid

\* A span cannot make a record that only the bundle's own operations make, and
\* a span that failed is never recorded as a success (eventType, statusForSpan).
NoControlRecords ==
    \A i \in DOMAIN Events :
      /\ Events[i].ev.type \in ApplicationTypes
      /\ decoded.list[i].code = "error" => ~Events[i].ev.status.ok

\* The text of a prompt, an argument, a result or a credential that the
\* resource, the scope or the span carries under any key of the kind is kept
\* as a digest, whichever of the three said it last (preservedAttributes).
PayloadsAreDigests ==
    \A i \in DOMAIN Events : \A k \in DOMAIN Events[i].ev.attrs :
      k \in PayloadKeys \cup MarkedKeys /\ decoded.list[i].attrs[k].t \in {"string", "list", "map"} =>
        DOMAIN Events[i].ev.attrs[k] = {"sha256"}

\* A trace export becomes evidence: whole, in order, of application types
\* only, with payloads as digests, and never taken for unchanged when it changed.
SpansBecomeEvidence ==
    DigestCoversEvidence /\ SpansKeepOrder /\ NoControlRecords /\ PayloadsAreDigests
=============================================================================
