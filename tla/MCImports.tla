----------------------------- MODULE MCImports -----------------------------
(* Imports of one chat log and one trace export, and translations of       *)
(* exports of three spans.                                                 *)
EXTENDS Imports

KV(k, t, v) == [k |-> k, x |-> Val(t, v)]
Scope(n, v) == [name |-> n, version |-> v]
Group(resource, scope, spans) ==
    [resource |-> resource, librarySpans |-> <<>>,
     scopeSpans |-> <<[scope |-> scope, library |-> Scope("", ""), spans |-> spans]>>]
OldGroup(resource, scope, spans) ==
    [resource |-> resource, scopeSpans |-> <<>>,
     librarySpans |-> <<[scope |-> Scope("", ""), library |-> scope, spans |-> spans]>>]

\* The attributes a span, or its resource, may carry.
SpanAttrs ==
    {<<>>,
     <<KV("gen_ai.operation.name", "string", "chat"), KV("gen_ai.prompt", "string", "hello")>>,
     <<KV("gen_ai.operation.name", "string", "chat"), KV("prompt_tokens", "int", "7"),
       KV("temperature", "float", "1")>>,
     <<KV("atb.event_type", "string", "atb.snapshot"), KV("gen_ai.prompt", "bytes", "hello")>>,
     <<KV("atb.event_type", "string", "ai.action.error"), KV("error", "string", "boom"),
       KV("gen_ai.tool.call.id", "string", "c1")>>,
     <<KV("gen_ai.operation.name", "string", "execute_tool"), KV("tool.input", "list", "args"),
       KV("gen_ai.tool.call.arguments", "map", "args")>>,
     <<KV("atb.event_type", "string", ""), KV("ai.event_type", "string", "ai.llm.call"),
       KV("error", "nil", "")>>}
ResourceAttrs ==
    {<<>>, <<KV("gen_ai.system", "string", "x"), KV("gen_ai.prompt", "int", "7")>>,
     <<KV("gen_ai.input.messages", "list", "hello"), KV("privacy.mode", "string", "strict")>>}

Span(sid, tid, name, code, message, end, attrs) ==
    [tid |-> tid, sid |-> sid, parent |-> "", name |-> name, kind |-> "3", start |-> 1, end |-> end,
     code |-> code, message |-> message, attrs |-> attrs, events |-> <<>>]

First ==
    {Span("s1", "t1", name, code, "late", 3, a) :
       name \in {"llm", "other"}, code \in {"1", "2"}, a \in SpanAttrs}
Second ==
    {Span(sid, tid, "tool", "STATUS_CODE_ERROR", "late", 0, a) :
       sid \in {"s1", "s2"}, tid \in {"t1", "t2"}, a \in SpanAttrs}
Third ==
    {Span("s1", "t1", "llm", "2", message, end, <<>>) : message \in {"late", "refused"}, end \in {3, -1}}

SmallPayloads ==
    {<<Group(r, Scope("lib", "1"), <<a, b>>), OldGroup(<<>>, Scope("lib", "1"), <<c>>)>> :
       r \in ResourceAttrs, a \in First, b \in Second, c \in Third}
      \cup {<<>>}

-----------------------------------------------------------------------------
Message(role, rid, conv, model, text) ==
    [role |-> role, rid |-> rid, conv |-> conv, model |-> model, text |-> text]
Asked     == Message("user", "r1", "", FALSE, "asked")
Unnamed   == Message("user", "", "c1", FALSE, "more")
Answer(t) == Message("assistant", "", "", TRUE, t)
Done      == Message("assistant", "", "", FALSE, "done")

Chats ==
    [first    |-> <<Asked, Answer("yes")>>,
     \* The answer changed, and an exchange without a request id was added.
     changed  |-> <<Message("system", "", "", FALSE, "brief"), Asked, Message("tool", "", "", FALSE, "found"),
                    Message("other", "", "", FALSE, "aside"), Answer("no"), Unnamed, Done>>,
     \* A request id comes twice.
     repeated |-> <<Unnamed, Done, Asked, Answer("yes"), Asked, Answer("yes")>>,
     \* Neither of these can be imported.
     orphan   |-> <<Answer("yes"), Asked>>,
     broken   |-> <<Asked, Message("bad", "", "", FALSE, "")>>]

Traced(sid, tid, code) == Span(sid, tid, "llm", code, "", 2, <<>>)
Export(spans) == <<Group(<<>>, Scope("", ""), spans)>>
Exports ==
    [first    |-> Export(<<Traced("s1", "t1", "1")>>),
     changed  |-> Export(<<Traced("s1", "t1", "2"), Traced("s2", "t1", "1")>>),
     \* A span id comes twice.
     repeated |-> Export(<<Traced("s1", "t1", "1"), Traced("s1", "t2", "1")>>),
     none     |-> Export(<<>>)]

ChatAndSpans == [chat |-> Chats, spans |-> Exports]

FirstImport == ImportInit /\ source = [s \in Source |-> "first"]

ImportSpec ==
    /\ payload = <<>> /\ OtelInit /\ FirstImport
    /\ [][ImportNext /\ UNCHANGED otelVars]_<<importVars, otelVars>>
=============================================================================
