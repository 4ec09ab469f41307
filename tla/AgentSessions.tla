--------------------------- MODULE AgentSessions ---------------------------
(***************************************************************************)
(* The local agent: sessions opened, fed with events and closed over HTTP, *)
(* each with a bundle under the agent's data directory.                    *)
(*                                                                         *)
(* BundleFileManager holds one mutex through every request, so requests do *)
(* not overlap; but a session keeps its own copy of its bundle and every   *)
(* save replaces the file with that copy.  The file changes under the      *)
(* agent when two sessions were opened on one path, or when atb append is  *)
(* run on it; and the agent may be stopped or killed and started again.    *)
(* A bundle is the sequence of its records, beginning with the manifest.   *)
(***************************************************************************)
EXTENDS Naturals, Sequences, FiniteSets

CONSTANTS Ses,          \* session identifiers
          Path,         \* bundle paths in the data directory
          MaxEvents,    \* bound: events sent
          MaxTrouble    \* bound: writes that fail, kills and foreign appends

VARIABLES disk,      \* [Path -> the bundle file, or Missing]
          ses,       \* [Ses -> the handle in memory]
          metas,     \* [Ses -> meta.json, or NoMeta]
          closing,   \* the step of a CloseSession in progress
          up,        \* the agent runs
          degraded,  \* lastErr # nil
          sent,      \* events sent so far; the last is event number sent
          accepted,  \* <<path, event>> answered with 202
          shared,    \* paths that two open sessions have had at once
          foreign,   \* paths another process has appended to
          trouble

agentVars == <<disk, ses, metas, closing, up, degraded, sent, accepted, shared,
               foreign, trouble>>

Missing == <<>>
NoMeta == [head |-> Missing, count |-> 0]
Manifest == 0
Foreign == MaxEvents + 1      \* a record of another process; 1 .. MaxEvents are events

\* fileSessionRecord; st is "none" before the session is opened and after the
\* handle is gone.
NoHandle == [st |-> "none", path |-> "none", copy |-> <<>>, count |-> 0]
NotClosing == [s |-> "none", at |-> "none", read |-> Missing]

AgentInit ==
    /\ disk = [p \in Path |-> Missing]
    /\ ses = [s \in Ses |-> NoHandle]
    /\ metas = [s \in Ses |-> NoMeta]
    /\ closing = NotClosing
    /\ up = FALSE /\ degraded = FALSE /\ sent = 0 /\ accepted = {}
    /\ shared = {} /\ foreign = {} /\ trouble = 0

Ready == up /\ closing.at = "none"
Trouble == trouble < MaxTrouble /\ trouble' = trouble + 1

\* A failed SaveRooted may have replaced the file before it failed.
SaveFails(p, b) ==
    /\ Trouble
    /\ degraded' = TRUE
    /\ disk' \in {disk, [disk EXCEPT ![p] = b]}

\* Opening p while another session has it open.
Sharing(s, p) == IF \E t \in Ses \ {s} : ses[t].st = "open" /\ ses[t].path = p
                 THEN {p} ELSE {}

\* nonManifestRecordCount.
CountEvents(b) == Cardinality({i \in DOMAIN b : b[i] # Manifest})

Handle(p, b) == [st |-> "open", path |-> p, copy |-> b, count |-> CountEvents(b)]

\* OpenSession: an existing bundle is resumed, a missing one is created.
OpenSession(s, p) ==
    /\ Ready /\ ses[s].st = "none" /\ metas[s] = NoMeta
    /\ \/ /\ disk[p] # Missing
          /\ ses' = [ses EXCEPT ![s] = Handle(p, disk[p])]
          /\ shared' = shared \cup Sharing(s, p)
          /\ degraded' = FALSE
          /\ UNCHANGED <<disk, trouble>>
       \/ /\ disk[p] = Missing
          /\ disk' = [disk EXCEPT ![p] = <<Manifest>>]
          /\ ses' = [ses EXCEPT ![s] = Handle(p, <<Manifest>>)]
          /\ shared' = shared \cup Sharing(s, p)
          /\ degraded' = FALSE
          /\ UNCHANGED trouble
       \/ /\ disk[p] = Missing
          /\ SaveFails(p, <<Manifest>>)
          /\ UNCHANGED <<ses, shared>>
    /\ UNCHANGED <<metas, closing, up, sent, accepted, foreign>>

\* A plausible bug: the event is appended to the session's own bundle and is
\* kept there when the save fails.
AppendEventKeeps(s) ==
    /\ Ready /\ ses[s].st = "open" /\ sent < MaxEvents
    /\ sent' = sent + 1
    /\ LET next == Append(ses[s].copy, sent') IN
       /\ ses' = [ses EXCEPT ![s].copy = next]
       /\ \/ /\ disk' = [disk EXCEPT ![ses[s].path] = next]
             /\ accepted' = accepted \cup {<<ses[s].path, sent'>>}
             /\ degraded' = FALSE /\ UNCHANGED trouble
          \/ SaveFails(ses[s].path, next) /\ UNCHANGED accepted
    /\ UNCHANGED <<metas, closing, up, shared, foreign>>

\* A plausible bug: the answer does not wait for the save.
AppendEventQueued(s) ==
    /\ Ready /\ ses[s].st = "open" /\ sent < MaxEvents
    /\ sent' = sent + 1
    /\ accepted' = accepted \cup {<<ses[s].path, sent'>>}
    /\ ses' = [ses EXCEPT ![s].copy = Append(@, sent'), ![s].count = @ + 1]
    /\ UNCHANGED <<disk, degraded, metas, closing, up, shared, foreign, trouble>>

\* AppendEvent on an open session; any other is answered 404 or 409 and changes
\* nothing, the health state included.
AppendEvent(s) ==
    /\ Ready /\ ses[s].st = "open" /\ sent < MaxEvents
    /\ sent' = sent + 1
    /\ LET next == Append(ses[s].copy, sent') IN
       \/ /\ disk' = [disk EXCEPT ![ses[s].path] = next]
          /\ ses' = [ses EXCEPT ![s].copy = next, ![s].count = @ + 1]
          /\ accepted' = accepted \cup {<<ses[s].path, sent'>>}
          /\ degraded' = FALSE /\ UNCHANGED trouble
       \/ SaveFails(ses[s].path, next) /\ UNCHANGED <<ses, accepted>>
    /\ UNCHANGED <<metas, closing, up, shared, foreign>>

\* CloseSession saves the copy, ...
CloseSave(s) ==
    /\ Ready /\ ses[s].st = "open"
    /\ \/ /\ disk' = [disk EXCEPT ![ses[s].path] = ses[s].copy]
          /\ closing' = [s |-> s, at |-> "saved", read |-> Missing]
          /\ UNCHANGED <<degraded, trouble>>
       \/ SaveFails(ses[s].path, ses[s].copy) /\ UNCHANGED closing
    /\ UNCHANGED <<ses, metas, up, sent, accepted, shared, foreign>>

\* ... loads the file again and marks the session closed, ...
CloseLoad ==
    /\ closing.at = "saved"
    /\ LET s == closing.s IN
       /\ closing' = [closing EXCEPT !.at = "loaded", !.read = disk[ses[s].path]]
       /\ ses' = [ses EXCEPT ![s].st = "closed", ![s].copy = disk[ses[s].path]]
    /\ UNCHANGED <<disk, metas, up, degraded, sent, accepted, shared, foreign, trouble>>

\* ... and writes meta.json; when that fails the session stays closed.
CloseMeta ==
    /\ closing.at = "loaded"
    /\ closing' = NotClosing
    /\ \/ /\ metas' = [metas EXCEPT ![closing.s] =
                         [head |-> closing.read, count |-> ses[closing.s].count]]
          /\ degraded' = FALSE /\ UNCHANGED trouble
       \/ /\ Trouble /\ degraded' = TRUE
          /\ metas' \in {metas, [metas EXCEPT ![closing.s] =
                                  [head |-> closing.read, count |-> ses[closing.s].count]]}
    /\ UNCHANGED <<disk, ses, up, sent, accepted, shared, foreign>>

\* Run: the workspace is prepared and requests are served; nothing is resumed.
StartAgent ==
    /\ ~up /\ up' = TRUE /\ degraded' = FALSE
    /\ UNCHANGED <<disk, ses, metas, closing, sent, accepted, shared, foreign, trouble>>

\* Shutdown waits for the requests and discards the handles.
StopAgent ==
    /\ Ready /\ up' = FALSE
    /\ ses' = [s \in Ses |-> NoHandle]
    /\ UNCHANGED <<disk, metas, closing, degraded, sent, accepted, shared, foreign, trouble>>

KillAgent ==
    /\ up /\ Trouble /\ up' = FALSE
    /\ ses' = [s \in Ses |-> NoHandle] /\ closing' = NotClosing
    /\ UNCHANGED <<disk, metas, degraded, sent, accepted, shared, foreign>>

\* atb append on an agent's bundle.
ForeignAppend(p) ==
    /\ disk[p] # Missing /\ Trouble
    /\ disk' = [disk EXCEPT ![p] = Append(@, Foreign)]
    /\ foreign' = foreign \cup {p}
    /\ UNCHANGED <<ses, metas, closing, up, degraded, sent, accepted, shared>>

AgentNext ==
    \/ \E s \in Ses : (\E p \in Path : OpenSession(s, p)) \/ AppendEvent(s) \/ CloseSave(s)
    \/ CloseLoad \/ CloseMeta
    \/ StartAgent \/ StopAgent \/ KillAgent
    \/ \E p \in Path : ForeignAppend(p)

AgentSpec == AgentInit /\ [][AgentNext]_agentVars

-----------------------------------------------------------------------------
Undisturbed(p) == p \notin shared \cup foreign
EventsOf(b) == {b[i] : i \in DOMAIN b}

\* An accepted event stays: an event answered with 202 is in its bundle ever
\* after, through failed writes, kills, restarts and sessions that resume the
\* bundle, unless two open sessions shared the path.
AcceptedEventStays ==
    \A a \in accepted : Undisturbed(a[1]) => a[2] \in EventsOf(disk[a[1]])

\* The handle an open session writes back holds every accepted event of its path.
HandleHoldsAccepted ==
    \A s \in Ses : ses[s].st = "open" /\ Undisturbed(ses[s].path)
        => {a[2] : a \in {b \in accepted : b[1] = ses[s].path}} \subseteq EventsOf(ses[s].copy)

\* What the workspace lists is true: the count of a closed session is that of
\* the bundle with the head it names, and no event of the bundle was lost since,
\* unless the path was shared or another process appended.
MetaMatchesBundle ==
    \A s \in Ses : metas[s] # NoMeta =>
        \/ \E p \in Path : ~Undisturbed(p)
        \/ /\ metas[s].count = CountEvents(metas[s].head)
           /\ \E p \in Path : /\ Len(disk[p]) >= Len(metas[s].head)
                              /\ SubSeq(disk[p], 1, Len(metas[s].head)) = metas[s].head
=============================================================================
