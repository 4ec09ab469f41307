--------------------------- MODULE ProxySessions ---------------------------
(***************************************************************************)
(* The capture proxy's exchanges and sessions: forwarder (forward.go),     *)
(* SessionManager (session.go), the recorder's lock (recorder.go) and the  *)
(* proxy's Stop (proxy.go).                                                *)
(*                                                                         *)
(* A connection is a goroutine; every region the code runs under one mutex *)
(* is one step.  A session's idle timer is a goroutine of its own, and one *)
(* that has fired can no longer be stopped.  log[s] is the sequence of the *)
(* records the recorder committed for session s, the bundle's records in   *)
(* the order of the bundle; how one commit works is Capture.               *)
(***************************************************************************)
EXTENDS Naturals, FiniteSets, Sequences, FiniteSetsExt

CONSTANTS Conn,          \* connections
          Tunnel,        \* the CONNECT tunnels among them
          Thread,        \* conversation keys a header or a body may carry
          KeyKinds,      \* where requests carry their key: "header", "body", "conn"
          ToolUse,       \* connections whose bodies carry tool calls and failed results
          MaxExchange,   \* bound: requests per connection
          MaxSession,    \* bound: sessions created
          MaxFailures,   \* bound: appends the recorder fails
          Budget         \* reservations of 2 * MaxBodyBytes that fit the budget

ASSUME ProxyConstants ==
    /\ Tunnel \cup ToolUse \subseteq Conn
    /\ Conn \cap Thread = {}
    /\ KeyKinds \subseteq {"header", "body", "conn"}
    /\ {MaxExchange, MaxSession, MaxFailures, Budget} \subseteq Nat

VARIABLES conn,      \* [Conn -> the state of its goroutine]
          table,     \* SessionManager.sessions: the session of a key, 0 for none
          sess,      \* the sessions created so far, in order
          closers,   \* goroutines closing a session: <<session, step, by>>
          free,      \* the reservations left in bodyBudget
          log,       \* the records of each session, in the order of the bundle
          phase,     \* the proxy's Stop
          rest,      \* the sessions CloseAll has still to close
          failures   \* appends that have failed

proxyVars == <<conn, table, sess, closers, free, log, phase, rest, failures>>

Session == 1 .. MaxSession
Key == Thread \cup Conn

Steps == {"new", "idle", "lookup", "touch", "request", "results",
          "upstream", "relookup", "retouch", "note", "response",
          "complete", "calls", "release", "closed",
          "rej lookup", "rej touch", "rej append"}

NoRequest == <<>>

\* The keys ExtractThreadKey gives a request with its body and without it: a
\* header decides both, thread_id only the first, else it is the connection.
KeysOf(c) == UNION {CASE kind = "header" -> {<<t, t>> : t \in Thread}
                      [] kind = "body"   -> {<<t, c>> : t \in Thread}
                      [] kind = "conn"   -> {<<c, c>>} : kind \in KeyKinds}

\* A connection between exchanges, n of which it has begun.
Between(c, pc, n) == [pc |-> pc, key |-> c, bare |-> c, s |-> 0, corr |-> 0,
                      ref |-> NoRequest, n |-> n, held |-> FALSE, err |-> FALSE]

ProxyInit ==
    /\ conn = [c \in Conn |-> Between(c, IF c \in Tunnel THEN "new" ELSE "idle", 0)]
    /\ table = [k \in Key |-> 0]
    /\ sess = <<>>
    /\ closers = {}
    /\ free = Budget
    /\ log = [s \in Session |-> <<>>]
    /\ phase = "up"
    /\ rest = {}
    /\ failures = 0

-----------------------------------------------------------------------------
(* SessionManager.                                                         *)

\* Resolve up to its unlock: the session of the key, created when there is none.
Resolve(k) ==
    IF table[k] # 0
    THEN UNCHANGED <<table, sess>>
    ELSE /\ Len(sess) < MaxSession
         /\ table' = [table EXCEPT ![k] = Len(sess) + 1]
         /\ sess' = Append(sess, [key |-> k, closed |-> FALSE, timer |-> FALSE, counter |-> 0])

\* A plausible bug: touchLocked stops the old timer and forgets to arm the new one.
TouchedOnce(x) == IF x.closed THEN x ELSE [x EXCEPT !.timer = ~@]

\* touchLocked: a closed session is not revived; otherwise the idle timer is
\* replaced.  A timer that has fired is a closer already and stays one.
Touched(x) == IF x.closed THEN x ELSE [x EXCEPT !.timer = TRUE]

\* The idle timer fires.
Fire(s) ==
    /\ sess[s].timer
    /\ sess' = [sess EXCEPT ![s].timer = FALSE]
    /\ closers' = closers \cup {<<s, "fired", "timer">>}
    /\ UNCHANGED <<conn, table, free, log, phase, rest, failures>>

\* markClosed: only the first caller goes on.
MayClose(s) == ~sess[s].closed

Closed(x) == [x EXCEPT !.closed = TRUE, !.timer = FALSE]

\* A plausible bug: closeSession asks whether the session is open and marks nothing.
CloseUnmarked(s) ==
    /\ <<s, "fired", "timer">> \in closers
    /\ MayClose(s)
    /\ closers' = (closers \ {<<s, "fired", "timer">>}) \cup {<<s, "marked", "timer">>}
    /\ UNCHANGED <<conn, table, sess, free, log, phase, rest, failures>>

\* closeSession: mark, delete by thread key, then the close callback.
CloseMark(s) ==
    /\ <<s, "fired", "timer">> \in closers
    /\ IF MayClose(s)
       THEN /\ sess' = [sess EXCEPT ![s] = Closed(sess[s])]
            /\ closers' = (closers \ {<<s, "fired", "timer">>}) \cup {<<s, "marked", "timer">>}
       ELSE /\ closers' = closers \ {<<s, "fired", "timer">>}
            /\ UNCHANGED sess
    /\ UNCHANGED <<conn, table, free, log, phase, rest, failures>>

CloseDelete(s) ==
    /\ <<s, "marked", "timer">> \in closers
    /\ table' = [table EXCEPT ![sess[s].key] = 0]
    /\ closers' = (closers \ {<<s, "marked", "timer">>}) \cup {<<s, "summary", "timer">>}
    /\ UNCHANGED <<conn, sess, free, log, phase, rest, failures>>

-----------------------------------------------------------------------------
(* The recorder: AppendEventHash under its lock.                           *)

\* One append: refused once capture is stopped; otherwise it commits the
\* record or fails.  ok is what the caller learns.
Record(s, r, ok) ==
    \/ /\ ok
       /\ phase # "stopped"
       /\ log' = [log EXCEPT ![s] = Append(@, r)]
       /\ UNCHANGED failures
    \/ /\ ~ok
       /\ UNCHANGED log
       /\ \/ phase = "stopped" /\ UNCHANGED failures
          \/ phase # "stopped" /\ failures < MaxFailures /\ failures' = failures + 1

Records(s, type) == {i \in 1 .. Len(log[s]) : log[s][i].type = type}

Rec(type, x) == [type |-> type, x |-> x, ref |-> NoRequest, id |-> 0]

\* What identifies an exchange: its connection and its number there.
Own(c) == <<c, conn[c].n>>

\* appendSessionCloseAndSnapshot; an error of the callback is ignored.
CloseRecord(s, by) ==
    /\ <<s, "summary", by>> \in closers
    /\ \E ok \in BOOLEAN : Record(s, Rec("close", NoRequest), ok)
    /\ closers' = closers \ {<<s, "summary", by>>}
    /\ UNCHANGED <<conn, table, sess, free, phase, rest>>

-----------------------------------------------------------------------------
(* One exchange of a connection: handleConnect's loop, handleHTTP.         *)

Goto(c, pc) == conn' = [conn EXCEPT ![c].pc = pc]

\* Where a rejected or failed exchange goes: a tunnel's loop is left.
AfterBreak(c) == IF c \in Tunnel THEN "closed" ELSE "idle"

\* ListenAndServe: once its context is cancelled the server accepts no connection
\* and no request, while the loop of a hijacked tunnel still reads requests.
Accepts == phase = "up"
Serves(c) == c \in Tunnel \/ Accepts

\* handleConnect dials the upstream before it reads a request.
Dial(c) ==
    /\ conn[c].pc = "new"
    /\ Accepts
    /\ \/ Goto(c, "idle")
       \/ Goto(c, "rej lookup")
    /\ UNCHANGED <<table, sess, closers, free, log, phase, rest, failures>>

\* acquireBodyBudget: the request is admitted with a reservation, or rejected.
\* ReadRequestBodyLimited then has the body, or finds it too large or unreadable.
Admit(c) ==
    /\ conn[c].pc = "idle"
    /\ conn[c].n < MaxExchange
    /\ Serves(c)
    /\ \E k \in KeysOf(c) :
         LET req == [conn[c] EXCEPT !.key = k[1], !.bare = k[2], !.n = @ + 1]
         IN IF free > 0
            THEN /\ free' = free - 1
                 /\ \E to \in {"lookup", "rej lookup"} :
                      conn' = [conn EXCEPT ![c] = [req EXCEPT !.pc = to, !.held = TRUE]]
            ELSE /\ conn' = [conn EXCEPT ![c] = [req EXCEPT !.pc = "rej lookup"]]
                 /\ UNCHANGED free
    /\ UNCHANGED <<table, sess, closers, log, phase, rest, failures>>

\* captureRequest resolves by the body's key, a rejection and a late
\* captureResponse by the key without a body.
Lookup(c, from, to, k) ==
    /\ conn[c].pc = from
    /\ Resolve(k)
    /\ conn' = [conn EXCEPT ![c].s = table'[k], ![c].pc = to, ![c].key = conn[c].bare]
    /\ UNCHANGED <<closers, free, log, phase, rest, failures>>

Touch(c, from, to) ==
    /\ conn[c].pc = from
    /\ sess' = [sess EXCEPT ![conn[c].s] = Touched(@)]
    /\ Goto(c, to)
    /\ UNCHANGED <<table, closers, free, log, phase, rest, failures>>

\* The request record; its hash, here the exchange it stands for, goes with
\* the session into the exchange's correlation.
RequestRef(c) == Own(c)

CaptureRequest(c) ==
    /\ conn[c].pc = "request"
    /\ \E ok \in BOOLEAN :
         /\ Record(conn[c].s, Rec("request", Own(c)), ok)
         /\ conn' = [conn EXCEPT ![c].pc = IF c \in ToolUse THEN "results" ELSE "upstream",
                                 ![c].corr = conn[c].s,
                                 ![c].ref = IF ok THEN RequestRef(c) ELSE NoRequest]
    /\ UNCHANGED <<table, sess, closers, free, phase, rest>>

\* recordToolResultErrors and recordToolCalls: at most one record each here;
\* their errors are logged and dropped.
Derived(c, from, to, type) ==
    /\ conn[c].pc = from
    /\ \E ok \in BOOLEAN : Record(conn[c].s, Rec(type, Own(c)), ok)
    /\ Goto(c, to)
    /\ UNCHANGED <<table, sess, closers, free, phase, rest>>

\* A plausible bug: captureResponse resolves anew in every case.
KeepsNoSession(c) == FALSE

\* The upstream round trip and the read of the response body.  captureResponse
\* keeps the request's session unless that has closed since.
KeepsSession(c) == ~sess[conn[c].corr].closed

Upstream(c) ==
    /\ conn[c].pc = "upstream"
    /\ \/ Goto(c, "rej lookup")
       \/ Goto(c, IF KeepsSession(c) THEN "note" ELSE "relookup")
    /\ UNCHANGED <<table, sess, closers, free, log, phase, rest, failures>>

\* NoteExchange touches the session again; the response record follows.
CaptureResponse(c) ==
    /\ conn[c].pc = "response"
    /\ \E ok \in BOOLEAN :
         /\ Record(conn[c].s, Rec("response", Own(c)), ok)
         /\ conn' = [conn EXCEPT ![c].pc = "complete", ![c].err = ~ok]
    /\ UNCHANGED <<table, sess, closers, free, phase, rest>>

\* NextExchangeID, and the completion record that carries the number.
ExchangeID(s) == sess[s].counter + 1

CompleteExchange(c) ==
    /\ conn[c].pc = "complete"
    /\ sess' = [sess EXCEPT ![conn[c].s].counter = @ + 1]
    /\ \E ok \in BOOLEAN :
         /\ Record(conn[c].s, [Rec("complete", Own(c)) EXCEPT
                                  !.ref = conn[c].ref, !.id = ExchangeID(conn[c].s)], ok)
         /\ conn' = [conn EXCEPT ![c].pc = IF c \in ToolUse THEN "calls" ELSE "release",
                                 ![c].err = @ \/ ~ok]
    /\ UNCHANGED <<table, closers, free, phase, rest>>

\* releaseBudget at the end of an exchange.  A capture error of a response is
\* only logged by the tunnel; the reverse proxy's ErrorHandler records it.
Release(c) ==
    /\ conn[c].pc = "release"
    /\ IF conn[c].err /\ c \notin Tunnel
       THEN Goto(c, "rej lookup") /\ UNCHANGED free
       ELSE /\ free' = free + 1
            /\ \/ conn' = [conn EXCEPT ![c] = Between(c, "idle", @.n)]
               \/ /\ c \in Tunnel          \* the answer could not be written
                  /\ conn' = [conn EXCEPT ![c] = Between(c, "closed", @.n)]
    /\ UNCHANGED <<table, sess, closers, log, phase, rest, failures>>

\* recordCaptureRejection's append, after which the exchange gives up.
Reject(c) ==
    /\ conn[c].pc = "rej append"
    /\ \E ok \in BOOLEAN : Record(conn[c].s, Rec("rejected", Own(c)), ok)
    /\ free' = IF conn[c].held THEN free + 1 ELSE free
    /\ conn' = [conn EXCEPT ![c] = Between(c, AfterBreak(c), @.n)]
    /\ UNCHANGED <<table, sess, closers, phase, rest>>

Exchange(c) ==
    \/ Lookup(c, "lookup", "touch", conn[c].key)
    \/ Touch(c, "touch", "request")
    \/ CaptureRequest(c)
    \/ Derived(c, "results", "upstream", "result error")
    \/ Upstream(c)
    \/ Lookup(c, "relookup", "retouch", conn[c].bare)
    \/ Touch(c, "retouch", "note")
    \/ Touch(c, "note", "response")
    \/ CaptureResponse(c)
    \/ CompleteExchange(c)
    \/ Derived(c, "calls", "release", "tool call")
    \/ Release(c)
    \/ Lookup(c, "rej lookup", "rej touch", conn[c].bare)
    \/ Touch(c, "rej touch", "rej append")
    \/ Reject(c)

-----------------------------------------------------------------------------
(* Proxy.Stop: cancel, CloseAll, closeCapture.  The wait for the listener   *)
(* is bounded and does not cover hijacked connections, so exchanges go on.  *)

Cancel ==
    /\ phase = "up"
    /\ phase' = "draining"
    /\ UNCHANGED <<conn, table, sess, closers, free, log, rest, failures>>

CloseAll ==
    /\ phase = "draining"
    /\ phase' = "closing"
    /\ rest' = {table[k] : k \in Key} \ {0}
    /\ table' = [k \in Key |-> 0]
    /\ UNCHANGED <<conn, sess, closers, free, log, failures>>

CloseNext(s) ==
    /\ phase = "closing"
    /\ s \in rest
    /\ \A x \in closers : x[3] # "stop"
    /\ rest' = rest \ {s}
    /\ IF MayClose(s)
       THEN /\ sess' = [sess EXCEPT ![s] = Closed(sess[s])]
            /\ closers' = closers \cup {<<s, "summary", "stop">>}
       ELSE UNCHANGED <<sess, closers>>
    /\ UNCHANGED <<conn, table, free, log, phase, failures>>

CloseCapture ==
    /\ phase = "closing"
    /\ rest = {}
    /\ \A x \in closers : x[3] # "stop"
    /\ phase' = "stopped"
    /\ UNCHANGED <<conn, table, sess, closers, free, log, rest, failures>>

CloseSteps(s) ==
    \/ Fire(s)
    \/ CloseMark(s)
    \/ CloseDelete(s)
    \/ \E by \in {"timer", "stop"} : CloseRecord(s, by)

StopSteps == CloseAll \/ (\E s \in rest : CloseNext(s)) \/ CloseCapture

ProxyNext ==
    \/ \E c \in Conn : Dial(c) \/ Admit(c) \/ Exchange(c)
    \/ \E s \in 1 .. Len(sess) : CloseSteps(s)
    \/ Cancel
    \/ StopSteps

ProxySpec == ProxyInit /\ [][ProxyNext]_proxyVars

-----------------------------------------------------------------------------

\* A session has at most one close record, whichever of its timers and Stop
\* come to close it (session.go:148 "only one close callback per session").
OneCloseRecord == \A s \in Session : Cardinality(Records(s, "close")) <= 1

\* An exchange's completion names the request record of that very exchange,
\* or none when the request was not committed (forward.go:337).
ExchangeNamesItsRequest ==
    \A s \in Session : \A i \in Records(s, "complete") :
        LET r == log[s][i]
        IN /\ r.ref \in {NoRequest, r.x}
           /\ r.ref = NoRequest \/ \E q \in Session : \E j \in Records(q, "request") : log[q][j].x = r.x

\* Exchange ids are unique within a session, also for exchanges that overlap
\* or finish after the session has closed (session.go:56).
ExchangeIdsDiffer ==
    \A s \in Session : \A i, j \in Records(s, "complete") :
        log[s][i].id = log[s][j].id => i = j

\* Until Stop takes the table, an open session is the one its key resolves to:
\* no key has two open sessions, and CloseAll finds every one of them.
OpenSessionsAreInTheTable ==
    phase \in {"up", "draining"} =>
        \A s \in 1 .. Len(sess) : ~sess[s].closed => table[sess[s].key] = s

\* A response is recorded in the session of its request unless that session
\* has closed (forward.go:355).
ResponseJoinsItsRequest ==
    \A s, q \in Session :
        s # q => \A i \in Records(s, "response"), j \in Records(q, "request") :
                    log[s][i].x = log[q][j].x => sess[q].closed

\* A reservation of the body budget is held by exactly one exchange in flight
\* and comes back when it ends, on every path.
BudgetIsConserved ==
    /\ free + Cardinality({c \in Conn : conn[c].held}) = Budget
    /\ \A c \in Conn : conn[c].pc \in {"new", "idle", "closed"} => ~conn[c].held

\* An open session is never forgotten: its timer is armed or has fired, or a
\* connection that just resolved it is about to arm it, or CloseAll holds it.
OpenSessionsWillClose ==
    \A s \in 1 .. Len(sess) :
        ~sess[s].closed => \/ sess[s].timer
                           \/ <<s, "fired", "timer">> \in closers
                           \/ s \in rest
                           \/ \E c \in Conn : /\ conn[c].s = s
                                             /\ conn[c].pc \in {"touch", "retouch", "rej touch"}

\* No record of an exchange follows the close record of its session, which
\* forward.go:359 re-resolves the session to avoid.
NoExchangeAfterClose ==
    \A s \in Session : \A i \in Records(s, "close"), j \in Records(s, "complete") : j < i

\* A session is closed once, and stays the one its key resolves to until then.
SessionsCloseOnce == OneCloseRecord /\ OpenSessionsAreInTheTable

\* An exchange is recorded as one: its records join up across overlapping
\* exchanges and closing sessions, and it gives back what it reserved.
ExchangeIsWhole ==
    ExchangeNamesItsRequest /\ ExchangeIdsDiffer /\ ResponseJoinsItsRequest /\ BudgetIsConserved
=============================================================================
