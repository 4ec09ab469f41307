------------------------------ MODULE Incidents ------------------------------
(***************************************************************************)
(* The session index and what is told from it: `atb incident list`,        *)
(* `report` and `export`, and the findings of `atb view`                   *)
(* (internal/sessionindex, internal/incident, cmd/atb/incident.go,         *)
(* pkg/api/v1/investigation.go).                                           *)
(*                                                                         *)
(* A command reads the bundle several times, and sessions go on recording  *)
(* meanwhile.  Writers only append, so that a reader's copy is the length  *)
(* of the log it read and whether its hash chain verified.                 *)
(*                                                                         *)
(* An event is [type, session, id, word, actor, timed, count]: "" stands   *)
(* for a missing field; word is a decision; timed says that a timestamp    *)
(* parses; count is a close event's exchange_count, or NoCount.            *)
(***************************************************************************)
EXTENDS Integers, Sequences, FiniteSets, SequencesExt

CONSTANTS
    Stories,    \* per story: the events its sessions may record
    MaxLog,     \* per story: bound on the events
    MaxRaces    \* bound: events recorded, and damage, while a command runs

VARIABLES
    story,      \* what is recorded in this behaviour
    recorded,   \* the events in the bundle, after its manifest
    good,       \* the hash chain on disk verifies
    races,
    incident,   \* the command: its step and what it has read and made
    view        \* the viewer: its snapshot, its index and its last answer

incidentVars == <<story, recorded, good, races, incident, view>>

NoCount == -1
PathSession == "from-path"

-----------------------------------------------------------------------------
(* The session index.                                                      *)

\* stringField trims what it returns.
Trim(v) == CASE v = " x " -> "x" [] v = " deny " -> "deny" [] OTHER -> v

IsBundleLevelEvent(type) == type \in {"signature", "scope"}

\* SessionIDForEvent: events without a session share one named after the file.
SessionIDForEvent(e) == IF e.session = "" THEN PathSession ELSE e.session

NoSession == [closed |-> FALSE, actor |-> "", exchanges |-> 0, approval |-> FALSE, tool |-> FALSE,
              denied |-> {}, ran |-> FALSE, failed |-> FALSE]

\* A plausible bug: an allowing decision lifts an earlier denial.
applyEventLifting(acc, e) ==
    [acc EXCEPT !.closed = @ \/ (e.type = "close" /\ e.timed),
                !.actor = IF @ = "" THEN e.actor ELSE @,
                !.exchanges = CASE e.type = "exchange" -> @ + 1
                                [] e.type = "close" /\ e.count # NoCount -> e.count [] OTHER -> @,
                !.approval = @ \/ e.type = "approval",
                !.tool = @ \/ (e.type = "tool" /\ ~acc.approval),
                !.denied = IF e.type # "decision" THEN @
                           ELSE IF Trim(e.word) = "deny" THEN @ \cup ({Trim(e.id)} \ {""}) ELSE @ \ {Trim(e.id)},
                !.ran = @ \/ (e.type \in {"executed", "committed"} /\ Trim(e.id) \in acc.denied),
                !.failed = @ \/ e.type = "error"]

\* applyEvent: one event of a session, in bundle order.
applyEvent(acc, e) ==
    [acc EXCEPT !.closed = @ \/ (e.type = "close" /\ e.timed),
                !.actor = IF @ = "" THEN e.actor ELSE @,
                !.exchanges = CASE e.type = "exchange" -> @ + 1
                                [] e.type = "close" /\ e.count # NoCount -> e.count [] OTHER -> @,
                !.approval = @ \/ e.type = "approval",
                !.tool = @ \/ (e.type = "tool" /\ ~acc.approval),
                !.denied = IF e.type = "decision" /\ Trim(e.word) = "deny" THEN @ \cup ({Trim(e.id)} \ {""}) ELSE @,
                !.ran = @ \/ (e.type \in {"executed", "committed"} /\ Trim(e.id) \in acc.denied),
                !.failed = @ \/ e.type = "error"]

anomalyFlags(acc) ==
    (IF acc.tool THEN {"tool_without_approval"} ELSE {})
    \cup (IF acc.ran THEN {"policy_denied_executed"} ELSE {})
    \cup (IF acc.failed THEN {"action_failed"} ELSE {})
    \cup (IF acc.actor = "api-key" THEN {"unresolved_identity"} ELSE {})
    \cup (IF ~acc.closed THEN {"session_not_closed"} ELSE {})

\* inferProfile: the first of these types that the session has decides.
inferProfile(types) ==
    CASE "tool" \in types -> "privileged"
      [] "export" \in types -> "data_export"
      [] "decision" \in types -> "policy_decision"
      [] "override" \in types -> "human_override"
      [] "retrieval" \in types -> "rag"
      [] "job" \in types -> "background"
      [] OTHER -> ""

\* The events of one session, by position.
Of(recs, s) == {i \in DOMAIN recs : ~IsBundleLevelEvent(recs[i].type) /\ SessionIDForEvent(recs[i]) = s}

Entry(acc, types) ==
    [flags |-> anomalyFlags(acc), profile |-> inferProfile(types), exchanges |-> acc.exchanges, actor |-> acc.actor]

entriesForBundle(recs) ==
    [s \in {SessionIDForEvent(e) : e \in {e \in Range(recs) : ~IsBundleLevelEvent(e.type)}} |->
       LET Mine(e) == ~IsBundleLevelEvent(e.type) /\ SessionIDForEvent(e) = s
       IN  Entry(FoldLeft(applyEvent, NoSession, SelectSeq(recs, Mine)), {recs[i].type : i \in Of(recs, s)})]

\* BuildIndex over one bundle; a bundle that does not verify gives one entry,
\* named after the file, and an error.
BuildIndex(recs, valid) ==
    IF valid THEN [err |-> FALSE, n |-> Len(recs), entries |-> entriesForBundle(recs)]
    ELSE [err |-> TRUE, n |-> Len(recs),
          entries |-> [s \in {PathSession} |-> [flags |-> {"load_error"}, profile |-> "", exchanges |-> 0, actor |-> ""]]]

-----------------------------------------------------------------------------
(* Findings.                                                               *)

\* A plausible bug: every event of an offending kind is named.
locateTriggersByType(recs, is) ==
    [tool_without_approval |-> {i \in is : recs[i].type = "tool"},
     policy_denied_executed |-> {i \in is : recs[i].type \in {"executed", "committed"}},
     action_failed |-> {i \in is : recs[i].type = "error"}]

\* locateTriggers over the events at the positions is: the fields are compared
\* as they are recorded, not trimmed.
locateTriggers(recs, is) ==
    [tool_without_approval |->
       {i \in is : recs[i].type = "tool" /\ ~\E j \in is : j < i /\ recs[j].type = "approval"},
     policy_denied_executed |->
       {i \in is : /\ recs[i].type \in {"executed", "committed"} /\ recs[i].id # ""
                   /\ \E j \in is : /\ j < i /\ recs[j].type = "decision" /\ recs[j].word = "deny"
                                    /\ recs[j].id = recs[i].id},
     action_failed |-> {i \in is : recs[i].type = "error"}]

\* buildFindings: one finding for every flag, with the events that raised it.
buildFindings(flags, triggers) ==
    [f \in flags |-> IF f \in DOMAIN triggers THEN triggers[f] ELSE {}]

\* BuildBundleFindings: for every session of the index.
BuildBundleFindings(recs, entries) ==
    [s \in DOMAIN entries |-> buildFindings(entries[s].flags, locateTriggers(recs, Of(recs, s)))]

-----------------------------------------------------------------------------
(* What goes on while commands run.                                        *)

NoCommand == [pc |-> "idle"]
Running == incident.pc \notin {"idle", "done"} \/ view.pc # "off"

Race == IF Running THEN races < MaxRaces /\ races' = races + 1 ELSE UNCHANGED races

RecordEvent ==
    /\ Len(recorded) < MaxLog[story] /\ Race /\ incident.pc # "done"
    /\ \E e \in Stories[story] : recorded' = Append(recorded, e)
    /\ UNCHANGED <<story, good, incident, view>>

\* The stored chain no longer verifies.
Corrupt ==
    /\ good /\ recorded # <<>> /\ Race /\ incident.pc # "done"
    /\ good' = FALSE
    /\ UNCHANGED <<story, recorded, incident, view>>

Quiet == UNCHANGED <<story, recorded, good, races, view>>

-----------------------------------------------------------------------------
(* `atb incident`.                                                         *)

ExitWith(code) == [incident EXCEPT !.pc = "done", !.exit = code]

\* runIncidentList and ListSessions.
List ==
    /\ incident = NoCommand /\ view.pc = "off" /\ recorded # <<>>
    /\ \E index \in {BuildIndex(recorded, good)} :
         incident' = [pc |-> "done", kind |-> "list", index |-> index, exit |-> IF index.err THEN 3 ELSE 0]
    /\ Quiet

\* The head of Build: the bundle is loaded, and its chain and signatures are judged.
BuildLoad(kind, session) ==
    /\ incident = NoCommand /\ view.pc = "off" /\ recorded # <<>>
    /\ incident' = [pc |-> "loaded", kind |-> kind, session |-> session, exit |-> 0,
                    n |-> Len(recorded), integrity |-> good, signed |-> \E i \in DOMAIN recorded : recorded[i].type = "signature"]
    /\ Quiet

\* Build's own eventSessionID does not fall back to the file's name.
Scoped(recs, n, session) == {i \in 1..n : recs[i].session = session}

\* The rest of Build: the index loads the bundle again.
Built(index, events) ==
    LET known == ~index.err /\ incident.session \in DOMAIN index.entries
        flags == IF known THEN index.entries[incident.session].flags ELSE {}
    IN  [index |-> index, known |-> known, events |-> events, found |-> events # {},
         findings |-> buildFindings(flags, locateTriggers(recorded, events))]

\* runIncidentReport prints it; the exports refuse a session without events.
BuildFinish ==
    /\ incident.pc = "loaded"
    /\ \E r \in {Built(BuildIndex(recorded, good), Scoped(recorded, incident.n, incident.session))} :
         incident' = [pc |-> IF incident.kind = "report" \/ ~r.found THEN "done" ELSE "built",
                      exit |-> IF r.found THEN 0 ELSE IF incident.kind = "report" THEN 1 ELSE 3] @@ r @@ incident
    /\ Quiet

\* runIncidentExport and BuildPack read the bytes of the bundle.
ReadBundle ==
    /\ incident.pc = "built"
    /\ incident' = [incident EXCEPT !.pc = "read"] @@ [bundle |-> Len(recorded), sound |-> good]
    /\ Quiet

\* BuildPack evaluates the bundle as it is then for verify-report.json.
PackVerify ==
    /\ incident.pc = "read" /\ incident.kind = "pack"
    /\ incident' = [incident EXCEPT !.pc = "verified"] @@ [verified |-> Len(recorded)]
    /\ Quiet

\* writeIncidentPack: it creates the archive in place, and leaves what it has
\* written when it fails.
WritePack ==
    /\ incident.pc = "verified"
    /\ \/ incident' = ExitWith(0) @@ [archive |-> "whole"]
       \/ incident' = ExitWith(3) @@ [archive |-> "partial"]
    /\ Quiet

\* SendBundle: Mortise verifies the bundle before it answers with a receipt; an
\* answer may be lost.
Lodge ==
    /\ incident.pc = "read" /\ incident.kind = "lodge"
    /\ \/ incident.sound /\ incident' = ExitWith(0) @@ [lodged |-> incident.bundle]
       \/ incident.sound /\ incident' = ExitWith(3) @@ [lodged |-> incident.bundle]
       \/ incident' = ExitWith(3) @@ [lodged |-> 0]
    /\ Quiet

-----------------------------------------------------------------------------
(* The findings of `atb view`.                                             *)

\* buildViewServer loads and verifies the bundle.
ViewLoad ==
    /\ view.pc = "off" /\ incident = NoCommand /\ recorded # <<>>
    /\ \E indexed \in BOOLEAN :
         view' = [pc |-> IF indexed THEN "indexing" ELSE "serving", n |-> Len(recorded), integrity |-> good]
    /\ UNCHANGED <<story, recorded, good, races, incident>>

\* With --sessions it indexes the bundle once, from the file.
ViewIndex ==
    /\ view.pc = "indexing"
    /\ view' = [view EXCEPT !.pc = "serving"] @@ [index |-> BuildIndex(recorded, good)]
    /\ UNCHANGED <<story, recorded, good, races, incident>>

\* handleInvestigationFindings and handleInvestigationOverview: the sessions
\* come from sessionsForRequest, the events from the viewer's copy.
InvestigationFindings(index, recs) ==
    IF index.err THEN [code |-> 403]
    ELSE [code |-> 200, index |-> index, findings |-> BuildBundleFindings(recs, index.entries)]

Investigate(overview) ==
    /\ view.pc = "serving"
    /\ \E answer \in {IF view.integrity
                      THEN InvestigationFindings(IF "index" \in DOMAIN view THEN view.index ELSE BuildIndex(recorded, good),
                                                 SubSeq(recorded, 1, view.n))
                      ELSE [code |-> IF overview THEN 200 ELSE 403, findings |-> <<>>]} :
         view' = [view EXCEPT !.pc = "answered"] @@ [overview |-> overview, answer |-> answer,
                   status |-> IF view.integrity THEN "VERIFIED" ELSE "FAILED"]
    /\ UNCHANGED <<story, recorded, good, races, incident>>

-----------------------------------------------------------------------------
IncidentInit ==
    /\ story \in DOMAIN Stories
    /\ recorded = <<>> /\ good = TRUE /\ races = 0
    /\ incident = NoCommand /\ view = [pc |-> "off"]

IncidentNext ==
    \/ RecordEvent \/ Corrupt \/ List
    \/ \E kind \in {"report", "pack", "lodge"}, session \in {"s", PathSession} : BuildLoad(kind, session)
    \/ BuildFinish \/ ReadBundle \/ PackVerify \/ WritePack \/ Lodge
    \/ ViewLoad \/ ViewIndex \/ \E overview \in BOOLEAN : Investigate(overview)

-----------------------------------------------------------------------------
\* The events that a flag of session s is about, among the first n.
Offending(flag, s, n) ==
    LET is == {i \in Of(recorded, s) : i <= n}
    IN  CASE flag = "tool_without_approval" ->
               {i \in is : recorded[i].type = "tool" /\ \A j \in is : recorded[j].type = "approval" => j > i}
          [] flag = "policy_denied_executed" ->
               {i \in is : recorded[i].type \in {"executed", "committed"} /\ \E j \in is :
                  j < i /\ recorded[j].type = "decision" /\ Trim(recorded[j].word) = "deny"
                  /\ Trim(recorded[j].id) = Trim(recorded[i].id) /\ Trim(recorded[i].id) # ""}
          [] flag = "action_failed" -> {i \in is : recorded[i].type = "error"}

Located == {"tool_without_approval", "policy_denied_executed", "action_failed"}

\* Nothing in the log is padded with spaces.
Tidy == \A i \in DOMAIN recorded : Trim(recorded[i].id) = recorded[i].id /\ Trim(recorded[i].word) = recorded[i].word

\* A verified index raises a flag for a session exactly when an event of the
\* session offends, and calls it open exactly when no close event of it has a
\* time that parses (applyEvent folds over the events and forgets them).
IndexIsRight(index) ==
    ~index.err =>
      \A s \in DOMAIN index.entries :
        /\ \A f \in Located : f \in index.entries[s].flags <=> Offending(f, s, index.n) # {}
        /\ "session_not_closed" \in index.entries[s].flags <=>
             ~\E i \in Of(recorded, s) : i <= index.n /\ recorded[i].type = "close" /\ recorded[i].timed

\* The findings of a session, made from the first n events, name only offending
\* events, and, where no field is padded, every one of them: the index may be
\* of a longer log, and no flag is withdrawn as a log grows.
FindingsAreExact(findings, s, n) ==
    /\ \A f \in Located \cap DOMAIN findings : findings[f] \subseteq Offending(f, s, n)
    /\ Tidy => \A f \in Located : Offending(f, s, n) # {} =>
                 f \in DOMAIN findings /\ findings[f] = Offending(f, s, n)

\* What an incident report says of a session is exact: Build reads the bundle
\* twice, and the flags come from the second time (Build, BuildIndex).
ReportIsExact ==
    /\ "index" \in DOMAIN incident => IndexIsRight(incident.index)
    /\ ("known" \in DOMAIN incident /\ incident.known /\ incident.session # PathSession) =>
         FindingsAreExact(incident.findings, incident.session, incident.n)

\* An exported package or a lodged bundle holds every event of the report and
\* the head and the signature the manifest names, although the bundle was read
\* again (BuildPack, runIncidentExport).
ExportHoldsReport ==
    (incident.pc = "done" /\ incident.kind \in {"pack", "lodge"} /\ incident.exit = 0) =>
      /\ incident.found /\ \A i \in incident.events : i <= incident.bundle
      /\ incident.n <= incident.bundle
      /\ incident.signed => \E i \in 1..incident.bundle : recorded[i].type = "signature"
      /\ incident.kind = "pack" => incident.archive = "whole" /\ incident.verified >= incident.bundle
      /\ incident.kind = "lodge" => incident.lodged = incident.bundle /\ incident.sound

\* A viewer never shows findings over a bundle that failed, and what it shows is
\* exact for the copy it holds, whenever the index was made
\* (handleInvestigationFindings, sessionsForRequest).
ViewerFindingsAreExact ==
    view.pc = "answered" =>
      /\ ~view.integrity => view.status = "FAILED" /\ (~view.overview => view.answer.code = 403)
      /\ (view.integrity /\ view.answer.code = 200) =>
           \A s \in DOMAIN view.answer.findings : FindingsAreExact(view.answer.findings[s], s, view.n)

\* What ATB tells of a session, in a list, a report, a package or a viewer, is
\* what the session's events say.
IncidentIsSound == ReportIsExact /\ ExportHoldsReport /\ ViewerFindingsAreExact

\* cmd/atb/incident.go: "run `atb incident list --bundle <path>` to discover
\* session IDs".  Events without a session id are listed under a name made from
\* the file's, and a report on that name finds nothing (Build).
ListedIsReportable ==
    (incident.pc = "done" /\ incident.kind = "report" /\ incident.known) => incident.found
=============================================================================
