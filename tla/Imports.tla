------------------------------ MODULE Imports ------------------------------
(***************************************************************************)
(* `atb import chatlog` and `atb import otel` (cmd/atb/import.go,          *)
(* import_otel.go; internal/acquisition; internal/capture/chatlog.go): one *)
(* import at a time into a bundle that other commands append to.  A source *)
(* record (an exchange of a chat log, a span) has an identity and a digest,*)
(* here the very lines or span it is computed from.  The bundle and the    *)
(* checkpoint are saved one after the other, and a process may end at any  *)
(* point between.                                                          *)
(***************************************************************************)
EXTENDS OtelSpans

CONSTANTS ChatSource,     \* the chat logs
          SpanSource,     \* the trace exports
          Contents,       \* [source -> [version -> what the source holds]]
          MaxPasses,      \* bound: imports begun
          MaxEdits,       \* bound: edits of a source between imports
          MaxMishaps      \* bound: kills, failures, and changes by others

Source == ChatSource \cup SpanSource
Shared == "shared"        \* a path named by --checkpoint
NoBundle == [id |-> -1, version |-> 0, sound |-> TRUE, recs |-> <<>>]

VARIABLES source,    \* [Source -> its present version]
          bundle,    \* the bundle, or NoBundle
          points,    \* [paths with a checkpoint -> the source and the bundle it is bound to]
          job,       \* the import that is running
          passes,    \* imports begun
          edited,    \* edits of the sources
          mishaps,   \* kills, failures, and changes by others
          finished   \* history: [path -> the bundle its last import to end well left]

importVars == <<source, bundle, points, job, passes, edited, mishaps, finished>>

NoJob == [pc |-> "idle"]

-----------------------------------------------------------------------------
(* internal/capture/chatlog.go.  A message has a role ("bad" for a line    *)
(* that does not parse or lacks a field its role needs), a request id, a   *)
(* conversation id, a model or none, and its text.                         *)

Known == {"system", "user", "tool", "assistant"}
Parses(log) == \A i \in DOMAIN log : log[i].role # "bad"

FilterKnownTurns(ms) == SelectSeq(ms, LAMBDA m : m.role \in Known)

chatNamespace(ms) ==
    LET named == SelectSeq(ms, LAMBDA m : m.conv # "")
    IN  IF named = <<>> THEN "chatlog" ELSE named[1].conv

(* exchangeIdentities: an exchange is opened by a user turn and named by   *)
(* its request id, or by the count of the user turns so far; its digest    *)
(* covers the lines of every exchange of that name.                        *)
NoExchange == <<>>
UserTurns(ms, i) == {j \in 1 .. i : ms[j].role = "user"}
ExchangeId(ms, i) ==
    LET turns == UserTurns(ms, i)
        opened == ms[Max(turns)]
    IN  CASE ms[i].role \notin {"user", "tool", "assistant"} \/ turns = {} -> NoExchange
          [] OTHER -> IF opened.rid # "" THEN <<"chatlog", opened.rid>>
                      ELSE <<"chatlog", chatNamespace(ms), Cardinality(turns)>>
exchangeIdentities(ms) == [i \in DOMAIN ms |-> ExchangeId(ms, i)]
exchangeDigests(ms, ids) ==
    [id \in {ids[i] : i \in DOMAIN ids} |->
       FlattenSeq([i \in DOMAIN ms |-> IF ids[i] = id THEN <<ms[i]>> ELSE <<>>])]

(* mapMessagesToEventsInner: the types of the events a turn becomes.       *)
TurnEvents(m) ==
    CASE m.role = "user" -> <<"ai.request.received">>
      [] m.role = "tool" -> <<"ai.tool.exec">>
      [] m.role = "assistant" /\ m.model -> <<"ai.model.invoked", "ai.model.output", "ai.response.sent">>
      [] m.role = "assistant" /\ ~m.model -> <<"ai.response.sent">>
      [] OTHER -> <<>>

(* A tool or assistant turn before any user turn ends the import.          *)
Orphan(ms) ==
    \E i \in DOMAIN ms : ms[i].role \in {"tool", "assistant"} /\ UserTurns(ms, i) = {}

MapMessagesToEvents(ms) ==
    LET ids == exchangeIdentities(ms)
        digests == exchangeDigests(ms, ids)
    IN  FlattenSeq([i \in DOMAIN ms |->
          [n \in DOMAIN TurnEvents(ms[i]) |->
             [type |-> TurnEvents(ms[i])[n], id |-> ids[i], digest |-> digests[ids[i]]]]])

ReadChatlog(log) ==
    LET ms == FilterKnownTurns(log) IN
    IF ~Parses(log) \/ Orphan(ms) THEN Result("malformed", <<>>)
    ELSE Result("", MapMessagesToEvents(ms))

(* ImportOTel: an export without spans is an error.                        *)
ReadSpans(p) ==
    LET r == ReceiveJSON(DecodeTraceJSON(p)) IN
    IF r.err = "" /\ r.list = <<>> THEN Result("no spans", <<>>)
    ELSE Result(r.err, [i \in DOMAIN r.list |->
           [type |-> r.list[i].ev.type, id |-> r.list[i].id, digest |-> r.list[i].digest]])

Readings ==
    [s \in Source |-> [v \in DOMAIN Contents[s] |->
       IF s \in ChatSource THEN ReadChatlog(Contents[s][v]) ELSE ReadSpans(Contents[s][v])]]
Read(s) == Readings[s][source[s]]

-----------------------------------------------------------------------------
(* internal/acquisition: checkpoint.go, reconcile.go, import_integration.go *)

Record(kind, id, prev, digest, again) ==
    [kind |-> kind, id |-> id, prev |-> prev, digest |-> digest, pass |-> passes, again |-> again]
Other(kind) == Record(kind, <<>>, <<>>, <<>>, FALSE)

EventsOf(recs, id) == {i \in DOMAIN recs : recs[i].kind = "event" /\ recs[i].id = id}

(* LoadFromBundle: of each identity the digest of its last record.  A      *)
(* reader that kept the first instead: a plausible bug.                    *)
LoadFirstFromBundle(recs) ==
    [id \in {recs[i].id : i \in {j \in DOMAIN recs : recs[j].kind = "event"}} |->
       recs[Min(EventsOf(recs, id))].digest]
LoadFromBundle(recs) ==
    [id \in {recs[i].id : i \in {j \in DOMAIN recs : recs[j].kind = "event"}} |->
       recs[Max(EventsOf(recs, id))].digest]

(* Reconcile.  Both importers give every record an identity, so that it is *)
(* never UNKNOWN.                                                          *)
Reconcile(known, id, digest) ==
    CASE id \notin DOMAIN known -> "new"
      [] id \in DOMAIN known /\ known[id] = digest -> "unchanged"
      [] OTHER -> "changed"

(* planReconciliation: the first event of an identity decides for them all.*)
FirstOf(events, id) == Min({i \in DOMAIN events : events[i].id = id})
planReconciliation(events, known, again) ==
    FlattenSeq([i \in DOMAIN events |->
      LET id == events[i].id
          first == FirstOf(events, id)
          result == IF again THEN Reconcile(known, id, events[first].digest) ELSE "new"
      IN  IF result = "unchanged" THEN <<>>
          ELSE (IF result = "changed" /\ i = first
                THEN <<Record("finding", id, known[id], events[i].digest, again)>> ELSE <<>>)
               \o <<Record("event", id, <<>>, events[i].digest, again)>>])

(* LoadOrCreate keeps the source that an existing checkpoint names.        *)
LoadOrCreate(path, s) ==
    IF path \in DOMAIN points THEN points[path] ELSE [source |-> s, head |-> NoBundle]

BindBundle(point, b) == [point EXCEPT !.head = b]

(* ValidateBundle: a bound checkpoint goes on only from the very head and  *)
(* count it names.  One that trusts a bundle just created: a plausible bug.*)
Evidence(b) == [id |-> b.id, recs |-> b.recs]
ValidateOldBundle(point, b) ==
    \/ point.head = NoBundle
    \/ bundle = NoBundle
    \/ Evidence(point.head) = Evidence(b)
ValidateBundle(point, b) ==
    \/ point.head = NoBundle
    \/ Evidence(point.head) = Evidence(b)

loadSnapshotBundle ==
    IF bundle = NoBundle THEN [id |-> passes + 1, version |-> 3, sound |-> TRUE, recs |-> <<>>] ELSE bundle

(* requireAcquisitionProfile, asked only of a plan that writes events.     *)
requireAcquisitionProfile(b, plan) == b.version = 3 \/ plan = <<>>

-----------------------------------------------------------------------------
(* An import.                                                              *)

InitialBundles == {NoBundle} \cup
    {[id |-> 0, version |-> v, sound |-> TRUE, recs |-> <<>>] : v \in {1, 3}}

ImportInit ==
    /\ source \in [Source -> UNION {DOMAIN Contents[s] : s \in Source}]
    /\ \A s \in Source : source[s] \in DOMAIN Contents[s]
    /\ bundle \in InitialBundles
    /\ points = <<>> /\ finished = <<>>
    /\ job = NoJob
    /\ passes = 0 /\ edited = 0 /\ mishaps = 0

(* ImportChatlog and ImportOTel up to the save; again stands for either of *)
(* --continue and --reconcile.  Every refusal leaves the files alone.      *)
BeginImport(s, path, again, snapshot) ==
    LET point == LoadOrCreate(path, s)
        read  == Read(s)
        b     == loadSnapshotBundle
        known == IF again THEN LoadFromBundle(b.recs) ELSE <<>>
        plan  == planReconciliation(read.list, known, again)
        accepted == /\ again => point.source = s
                    /\ read.err = ""
                    /\ again => b.sound /\ ValidateBundle(point, b)
                    /\ requireAcquisitionProfile(b, plan)
    IN  /\ job.pc = "idle" /\ passes < MaxPasses
        /\ job' = IF accepted
                  THEN [pc |-> "save", source |-> s, path |-> path, again |-> again, snapshot |-> snapshot,
                        saved |-> [b EXCEPT !.recs = @ \o plan], point |-> point]
                  ELSE NoJob
        /\ passes' = passes + 1
        /\ UNCHANGED <<source, bundle, points, edited, mishaps, finished>>

(* The bundle is saved whole, over whatever was appended since the load.   *)
SaveImported ==
    /\ job.pc = "save"
    /\ bundle' = job.saved
    /\ job' = [job EXCEPT !.pc = "bind"]
    /\ UNCHANGED <<source, points, passes, edited, mishaps, finished>>

Finish == /\ job' = NoJob
          /\ finished' = (job.path :> job.saved) @@ finished

BindCheckpoint ==
    /\ job.pc = "bind"
    /\ points' = (job.path :> BindBundle(job.point, job.saved)) @@ points
    /\ \/ ~job.snapshot /\ Finish
       \/ job.snapshot /\ job' = [job EXCEPT !.pc = "load"] /\ UNCHANGED finished
    /\ UNCHANGED <<source, bundle, passes, edited, mishaps>>

(* --snapshot (runImportChatlogWithContext, runImportOTel): the bundle is  *)
(* loaded anew, and saved again.                                           *)
LoadForSnapshot ==
    /\ job.pc = "load"
    /\ job' = IF bundle = NoBundle THEN NoJob
              ELSE [job EXCEPT !.pc = "snapshot", !.saved = [bundle EXCEPT !.recs = Append(@, Other("snapshot"))]]
    /\ UNCHANGED <<source, bundle, points, passes, edited, mishaps, finished>>

SaveSnapshot ==
    /\ job.pc = "snapshot"
    /\ bundle' = job.saved
    /\ job' = [job EXCEPT !.pc = "rebind"]
    /\ UNCHANGED <<source, points, passes, edited, mishaps, finished>>

(* rebindCheckpointAfterSnapshot.  Without it, as the comment on it says,  *)
(* the next --continue would be refused: a plausible bug.                  *)
NoRebind ==
    /\ job.pc = "rebind"
    /\ Finish
    /\ UNCHANGED <<source, bundle, points, passes, edited, mishaps>>
RebindBundleCheckpoint ==
    /\ job.pc = "rebind"
    /\ points' = IF job.path \in DOMAIN points
                 THEN [points EXCEPT ![job.path] = BindBundle(@, job.saved)] ELSE points
    /\ Finish
    /\ UNCHANGED <<source, bundle, passes, edited, mishaps>>

(* The process is killed, or the step it was about to take fails.          *)
EndEarly ==
    /\ job.pc # "idle" /\ mishaps < MaxMishaps
    /\ job' = NoJob
    /\ mishaps' = mishaps + 1
    /\ UNCHANGED <<source, bundle, points, passes, edited, finished>>

(* Another command appends to the bundle, or someone damages or deletes it *)
(* or a checkpoint.                                                        *)
ChangeFiles ==
    /\ mishaps < MaxMishaps
    /\ mishaps' = mishaps + 1
    /\ \/ /\ bundle # NoBundle
          /\ bundle' \in {[bundle EXCEPT !.recs = Append(@, Other("other"))], [bundle EXCEPT !.sound = FALSE], NoBundle}
          /\ UNCHANGED points
       \/ /\ \E p \in DOMAIN points : points' = Restrict(points, DOMAIN points \ {p})
          /\ UNCHANGED bundle
    /\ UNCHANGED <<source, job, passes, edited, finished>>

(* The application goes on writing the source.                             *)
EditSource(s) ==
    /\ job.pc = "idle" /\ edited < MaxEdits
    /\ \E v \in DOMAIN Contents[s] \ {source[s]} : source' = [source EXCEPT ![s] = v]
    /\ edited' = edited + 1
    /\ UNCHANGED <<bundle, points, job, passes, mishaps, finished>>

ImportNext ==
    \/ \E s \in Source : \E path \in {s, Shared}, again, snapshot \in BOOLEAN :
          BeginImport(s, path, again, snapshot)
    \/ SaveImported
    \/ BindCheckpoint
    \/ LoadForSnapshot
    \/ SaveSnapshot
    \/ RebindBundleCheckpoint
    \/ EndEarly
    \/ ChangeFiles
    \/ \E s \in Source : EditSource(s)

-----------------------------------------------------------------------------
(* Properties.                                                             *)

(* Identities that one pass gave one representation only.                  *)
SaidOnce(events) == {id \in {events[i].id : i \in DOMAIN events} :
                       \A i, j \in DOMAIN events :
                         events[i].id = id /\ events[j].id = id => events[i].digest = events[j].digest}
Pass(recs, n) == SelectSeq(recs, LAMBDA r : r.kind = "event" /\ r.pass = n)

(* A reconciling import never repeats evidence, and says what it changes:  *)
(* between the last record of an identity and the records a later such     *)
(* import adds stands exactly one finding, naming both digests, and these  *)
(* differ (planReconciliation, appendAcquisitionFinding).                  *)
ChangesAreTold ==
    \A i \in DOMAIN bundle.recs : LET r == bundle.recs[i] IN
      r.kind = "event" /\ r.again /\ r.id \in SaidOnce(Pass(bundle.recs, r.pass)) =>
        LET earlier == {j \in EventsOf(bundle.recs, r.id) : bundle.recs[j].pass < r.pass}
            told == {j \in DOMAIN bundle.recs :
                       bundle.recs[j].kind = "finding" /\ bundle.recs[j].id = r.id /\ bundle.recs[j].pass = r.pass}
        IN  IF earlier = {} THEN told = {}
            ELSE /\ bundle.recs[Max(earlier)].digest # r.digest
                 /\ \E j \in told :
                      /\ told = {j} /\ Max(earlier) < j /\ j < i
                      /\ bundle.recs[j].prev = bundle.recs[Max(earlier)].digest
                      /\ bundle.recs[j].digest = r.digest

(* Once a reconciling import has saved, the bundle holds the present       *)
(* representation of every record of its source, and importing the same    *)
(* source again would add nothing (the comment on planReconciliation:      *)
(* "re-import idempotent for unchanged sources").                          *)
Again(events) == planReconciliation(events, LoadFromBundle(bundle.recs), TRUE)
JustReconciled == job.pc = "bind" /\ job.again /\ bundle = job.saved
ReimportIsIdempotent ==
    JustReconciled => Again(Read(job.source).list) = <<>>

(* It does so of the records that the source holds in one representation.  *)
OnceSaidIsSettled ==
    JustReconciled =>
      LET events == Read(job.source).list
          again == Again(events)
          once == SaidOnce(events)
      IN  \A i \in DOMAIN again : again[i].id \notin once

(* A reconciling import keeps the evidence true to its source.             *)
ReconcilingIsExact == ChangesAreTold /\ OnceSaidIsSettled

(* A checkpoint names a head that was committed: the bundle it was bound   *)
(* to is a prefix of the present one ("a checkpoint can never name a head  *)
(* that is not yet committed").                                            *)
NamesCommittedHead ==
    \A p \in DOMAIN points :
      points[p].head.id = bundle.id
        => IsPrefix(points[p].head.recs, bundle.recs)

(* After an import that ended well, and as long as the bundle is the one   *)
(* it left, the checkpoint lets the next --continue go on                  *)
(* (rebindCheckpointAfterSnapshot).                                        *)
CanContinue ==
    \A p \in DOMAIN points \cap DOMAIN finished :
      bundle = finished[p] => ValidateBundle(points[p], bundle)

(* An import that goes on from a checkpoint extends the evidence which the *)
(* checkpoint is bound to, and never a bundle that took its place.         *)
ContinuesSameEvidence ==
    job.pc \in {"save", "bind"} /\ job.again /\ job.point.head # NoBundle
      => job.point.head.id = job.saved.id /\ IsPrefix(job.point.head.recs, job.saved.recs)

CheckpointIsSound == NamesCommittedHead /\ CanContinue /\ ContinuesSameEvidence

=============================================================================
