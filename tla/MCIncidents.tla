---------------------------- MODULE MCIncidents ----------------------------
(***************************************************************************)
(* Incidents in three stories: tool calls and approvals, decisions and     *)
(* actions (some with padded fields), and who closed or took part in a     *)
(* session.  The session "s" is named; events without a session share the  *)
(* one named after the file.                                               *)
(***************************************************************************)
EXTENDS Incidents

Plain(type, session) ==
    [type |-> type, session |-> session, id |-> "", word |-> "", actor |-> "", timed |-> TRUE, count |-> NoCount]

Decision(session, id, word) == [Plain("decision", session) EXCEPT !.id = id, !.word = word]

MCStories ==
    [approval |-> {Plain(t, s) : t \in {"approval", "tool"}, s \in {"s", ""}}
                  \cup {Plain("error", "s"), Plain("signature", ""), Plain("scope", "")},
     policy |-> {Decision("s", "x", "deny"), Decision("s", " x ", "deny"), Decision("s", "x", " deny "),
                 Decision("s", "x", "allow"), Decision("s", "", "deny"), Decision("", "x", "deny")}
                \cup {[Plain("executed", s) EXCEPT !.id = "x"] : s \in {"s", ""}}
                \cup {Plain("executed", "s"), [Plain("committed", "s") EXCEPT !.id = "x"]},
     people |-> {[Plain("close", "s") EXCEPT !.timed = t, !.count = c] : t \in BOOLEAN, c \in {NoCount, 1}}
                \cup {[Plain("exchange", s) EXCEPT !.actor = a] : s \in {"s", ""}, a \in {"", "api-key", "alice"}}
                \cup {Plain(t, "s") : t \in {"export", "override", "retrieval", "job"}}]

MCMaxLog == [approval |-> 3, policy |-> 3, people |-> 2]
=============================================================================
