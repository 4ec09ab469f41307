------------------------------ MODULE MCPServer ------------------------------
(***************************************************************************)
(* `atb mcp serve`: a reader goroutine takes lines from standard input and *)
(* hands them through a channel of length one to the loop of Serve, which  *)
(* answers them one after the other, until the input ends or a signal      *)
(* cancels the loop.  Two of the tools append an event to the bundle.      *)
(***************************************************************************)
EXTENDS Naturals, Sequences, FiniteSets

CONSTANTS MaxMessages,     \* bound: lines of the input
          MaxMcpFailures   \* bound: appends that fail

VARIABLES input,      \* the lines that come
          bare,       \* the last line has no end
          read,       \* lines the reader has taken
          held,       \* the result the reader is sending
          channel,    \* results in the channel
          loop,       \* "serving", "ended" or "cancelled"
          cancelled,  \* the context is done
          handled,    \* lines the loop has handled
          replies,    \* responses written
          events,     \* events in the bundle
          failed      \* appends that failed

mcpVars == <<input, bare, read, held, channel, loop, cancelled, handled, replies, events, failed>>

NoLine == 0
Digest(q) == <<"sha256", q>>

\* The arguments of rag_retrieval_record that its checks tell apart.
NoArgs == [index |-> "", query |-> "", digest |-> "", bad |-> FALSE, include |-> FALSE]
Sample == {[NoArgs EXCEPT !.index = "i1", !.query = "q"],
           [NoArgs EXCEPT !.index = "i1", !.query = "q", !.digest = "r"],
           [NoArgs EXCEPT !.index = "i1", !.query = "q", !.digest = "q", !.include = TRUE],
           [NoArgs EXCEPT !.index = "i1", !.digest = "q", !.include = TRUE],
           [NoArgs EXCEPT !.index = "i1", !.digest = "r", !.bad = TRUE],
           [NoArgs EXCEPT !.index = "i1", !.digest = "r"]}

\* The kinds of lines: not JSON, not version 2.0, requests, a notification, and
\* calls of tools.
Kinds == {"garbage", "version", "list", "unknown", "note", "index", "badindex"}
Message == [kind : Kinds, args : {NoArgs}] \cup [kind : {"retrieval"}, args : Sample]

McpInit ==
    /\ input \in UNION {[1 .. n -> Message] : n \in 0 .. MaxMessages}
    /\ bare \in IF input = <<>> THEN {FALSE} ELSE BOOLEAN
    /\ read = 0 /\ held = NoLine /\ channel = <<>> /\ loop = "serving" /\ cancelled = FALSE
    /\ handled = 0 /\ replies = <<>> /\ events = <<>> /\ failed = 0

-----------------------------------------------------------------------------
\* ReadBytes: a line, or the last one without its end together with the error.
EndOfInput == IF bare THEN Len(input) ELSE Len(input) + 1
ReadLine == /\ held = NoLine /\ read < EndOfInput
        /\ read' = read + 1
        /\ held' = read + 1
        /\ UNCHANGED <<input, bare, channel, loop, cancelled, handled, replies, events, failed>>

\* The channel holds one result; the reader stops after sending an error.
SendLine == /\ held # NoLine /\ channel = <<>>
        /\ channel' = <<held>> /\ held' = NoLine
        /\ UNCHANGED <<input, bare, read, loop, cancelled, handled, replies, events, failed>>

Interrupt == /\ ~cancelled /\ cancelled' = TRUE
             /\ UNCHANGED <<input, bare, read, held, channel, loop, handled, replies, events, failed>>

\* When both are ready, select takes either.
LoopCancel == /\ loop = "serving" /\ cancelled /\ loop' = "cancelled"
              /\ UNCHANGED <<input, bare, read, held, channel, cancelled, handled, replies, events, failed>>

-----------------------------------------------------------------------------
\* toolRAGRetrievalRecord: a digest or a query, the query if it is to be stored,
\* and a digest that is the query's.
RetrievalRefused(a) ==
    \/ a.bad \/ a.index = ""
    \/ a.query = "" /\ a.digest = ""
    \/ a.include /\ a.query = ""
    \/ a.query # "" /\ a.digest # "" /\ Digest(a.query) # Digest(a.digest)

RetrievalEvent(a) ==
    [type |-> "retrieval", index |-> a.index, query |-> a.query,
     plain |-> IF a.include THEN a.query ELSE "",
     digest |-> Digest(IF a.digest # "" THEN a.digest ELSE a.query), include |-> a.include]

IndexEvent == [type |-> "index", index |-> "i1", query |-> "", plain |-> "",
               digest |-> <<>>, include |-> FALSE]

IsRecord(m) == \/ m.kind = "index"
               \/ m.kind = "retrieval" /\ ~RetrievalRefused(m.args)
EventOf(m) == IF m.kind = "index" THEN IndexEvent ELSE RetrievalEvent(m.args)

\* The answer to a message that records nothing.  A notification has none; the
\* id of what is not JSON is not known.
PlainReply(n) ==
    LET m == input[n] IN
    CASE m.kind = "note"    -> <<>>
      [] m.kind = "garbage" -> <<[id |-> NoLine, result |-> "error", seq |-> 0]>>
      [] m.kind \in {"version", "unknown"} -> <<[id |-> n, result |-> "error", seq |-> 0]>>
      [] m.kind = "list"    -> <<[id |-> n, result |-> "ok", seq |-> 0]>>
      [] OTHER              -> <<[id |-> n, result |-> "refused", seq |-> 0]>>

\* handleMessage: the answer is written before the next line is taken.
HandleMessage(n) ==
    LET m == input[n] IN
    IF ~IsRecord(m)
    THEN replies' = replies \o PlainReply(n) /\ UNCHANGED <<events, failed>>
    ELSE \/ /\ events' = Append(events, EventOf(m))
            /\ replies' = Append(replies, [id |-> n, result |-> "ok", seq |-> Len(events) + 1])
            /\ UNCHANGED failed
         \/ /\ failed < MaxMcpFailures /\ failed' = failed + 1
            /\ replies' = Append(replies, [id |-> n, result |-> "refused", seq |-> 0])
            /\ UNCHANGED events

\* A plausible bug: the error of the reader is looked at before the line.
TakeLineErrorFirst ==
    /\ loop = "serving" /\ channel # <<>>
    /\ LET n == channel[1] IN
       IF n = EndOfInput
       THEN UNCHANGED <<replies, events, failed, handled>>
       ELSE HandleMessage(n) /\ handled' = n
    /\ loop' = IF channel[1] = EndOfInput THEN "ended" ELSE loop
    /\ channel' = <<>>
    /\ UNCHANGED <<input, bare, read, held, cancelled>>

\* A plausible bug: the end of the input does not end the loop.
TakeLineGoesOn ==
    /\ loop = "serving" /\ channel # <<>>
    /\ LET n == channel[1] IN
       IF n > Len(input)
       THEN UNCHANGED <<replies, events, failed, handled>>
       ELSE HandleMessage(n) /\ handled' = n
    /\ channel' = <<>>
    /\ UNCHANGED <<input, bare, read, held, cancelled, loop>>

\* Serve takes a result: its line is handled first, then its error.
TakeLine ==
    /\ loop = "serving" /\ channel # <<>>
    /\ LET n == channel[1] IN
       IF n > Len(input)
       THEN UNCHANGED <<replies, events, failed, handled>>
       ELSE HandleMessage(n) /\ handled' = n
    /\ loop' = IF channel[1] = EndOfInput THEN "ended" ELSE loop
    /\ channel' = <<>>
    /\ UNCHANGED <<input, bare, read, held, cancelled>>

McpNext == ReadLine \/ SendLine \/ Interrupt \/ LoopCancel \/ TakeLine

McpFairness == WF_mcpVars(ReadLine) /\ WF_mcpVars(SendLine) /\ WF_mcpVars(TakeLine \/ LoopCancel)

McpSpec == McpInit /\ [][McpNext]_mcpVars /\ McpFairness

-----------------------------------------------------------------------------
Answered == {n \in 1 .. Len(input) : input[n].kind # "note"}
Ids(S) == {replies[i].id : i \in S}

\* Every request the loop has taken has one answer, in the order of the requests;
\* when the input has ended, every request has, also one on a last line without
\* an end.
EveryRequestIsAnswered ==
    /\ Len(replies) = Cardinality({n \in Answered : n <= handled})
    /\ \A i, j \in DOMAIN replies :
          i < j /\ replies[i].id # NoLine /\ replies[j].id # NoLine => replies[i].id < replies[j].id
    /\ loop = "ended" => handled = Len(input)

\* An append that was answered with success is in the bundle, under the number in
\* the answer, and nothing that was refused is.
AnswerNamesItsEvent ==
    /\ \A i \in DOMAIN replies : LET r == replies[i] IN
         r.seq # 0 => r.seq <= Len(events) /\ events[r.seq] = EventOf(input[r.id])
    /\ Cardinality({i \in DOMAIN replies : replies[i].seq # 0}) = Len(events)

\* The text of a query is stored only on request, and what stands for it always is
\* its digest.
QueryStaysPrivate ==
    \A i \in DOMAIN events : LET e == events[i] IN
        /\ e.plain # "" => e.include
        /\ e.query # "" => e.digest = Digest(e.query)

\* The loop ends: the input is read to its end, or the signal is seen.
LoopEnds == <>(loop # "serving")

\* A retrieval names an index that was recorded before it.
RetrievalNamesIndex ==
    \A i \in DOMAIN events : events[i].type = "retrieval" =>
        \E j \in 1 .. i - 1 : events[j].type = "index" /\ events[j].index = events[i].index

\* The conversation is sound: one answer per request, in order and true of the
\* bundle, and no query's text kept without consent.
ConversationIsSound == EveryRequestIsAnswered /\ AnswerNamesItsEvent /\ QueryStaysPrivate
=============================================================================
