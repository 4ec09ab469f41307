------------------------------ MODULE ViewerAPI ------------------------------
(***************************************************************************)
(* The HTTP server of `atb view`: the handlers that change its state, and  *)
(* the ones that read it in several steps.                                 *)
(*                                                                         *)
(* A viewer loads and verifies the bundle once, when it starts, and serves *)
(* that snapshot; some handlers read the file again.  Requests run each in *)
(* a goroutine of its own.  mu protects the two stored reports and the     *)
(* sidecar, rateMu the counters of reveals; a few handlers read the        *)
(* reports without it.  Several viewers may serve the same bundle: they    *)
(* share its file and its sidecar of reveals.                              *)
(***************************************************************************)
EXTENDS Naturals, Sequences, FiniteSets

CONSTANTS Viewer, Call,
          RateLimit, Window,   \* reveals allowed in a window, and its length
          MaxTime,             \* bound: ticks of the clock
          MaxMishaps           \* bound: failed saves, kills, changes of files

VARIABLES call,       \* each request: its step, and what it has read
          memory,     \* each viewer: its snapshot, reports and counters
          sidecar,    \* the reveals recorded on disk
          onDisk,     \* the bundle on disk: does it verify?
          profileFile,\* version of the profile on disk
          now, mishaps

viewerVars == <<call, memory, sidecar, onDisk, profileFile, now, mishaps>>

NoReport == 0
Nobody == "nobody"
Keys == {"owner", "anonymous"}
Roles == <<"viewer", "auditor", "operator", "admin">>

Idle == [pc |-> "idle", at |-> "none", kind |-> "none", code |-> 0, good |-> TRUE,
         first |-> NoReport, second |-> NoReport, copy |-> <<>>]

\* buildViewServer: what a viewer holds when it has started, with or without
\* --profile.
Started(good, report) ==
    [snap |-> good, profile |-> report, verifier |-> report, mu |-> Nobody,
     rate |-> [k \in Keys |-> [start |-> 0, count |-> 0]], allowed |-> [k \in Keys |-> <<>>]]

ViewerInit ==
    /\ call = [c \in Call |-> Idle]
    /\ onDisk \in BOOLEAN
    /\ memory \in [Viewer -> {Started(onDisk, r) : r \in IF onDisk THEN {NoReport, 1} ELSE {NoReport}}]
    /\ sidecar = <<>> /\ profileFile = 1 /\ now = 1 /\ mishaps = 0

-----------------------------------------------------------------------------
\* HasPermission: the roles are ordered.
HasPermission(role, required) ==
    \E i, j \in DOMAIN Roles : Roles[i] = role /\ Roles[j] = required /\ i >= j

\* The role a handler requires, and whether it serves a bundle that failed.
Required(kind) == IF kind \in {"verify", "reveal"} THEN "operator" ELSE "viewer"
ServesFailed(kind) == kind \in {"trust", "overview", "verification"}

\* authMiddleware has found the role; requireRole and requireVerified.
Gate(v, kind, role) ==
    IF ~HasPermission(role, Required(kind)) THEN 403
    ELSE IF ~ServesFailed(kind) /\ ~memory[v].snap THEN 403
    ELSE 200

Answer(c, code, good) == [call EXCEPT ![c].pc = "done", ![c].code = code, ![c].good = good]

\* A handler that only reads the snapshot.
ReadSnapshot(c, v, kind, role) ==
    /\ call[c].pc = "idle" /\ kind \in {"events", "verification"}
    /\ call' = [Answer(c, Gate(v, kind, role), memory[v].snap) EXCEPT ![c].kind = kind]
    /\ UNCHANGED <<memory, sidecar, onDisk, profileFile, now, mishaps>>

\* handleInvestigationReport and the session index read the file again, and
\* verify what they read.
ReadFile(c, v, role) ==
    /\ call[c].pc = "idle"
    /\ LET gate == Gate(v, "report", role) IN
       call' = [Answer(c, IF gate = 200 /\ ~onDisk THEN 403 ELSE gate, onDisk)
                  EXCEPT ![c].kind = "report"]
    /\ UNCHANGED <<memory, sidecar, onDisk, profileFile, now, mishaps>>

-----------------------------------------------------------------------------
(* Evaluating the bundle, and reading the reports.                         *)

\* handleBundleVerify up to the evaluation: the profile is read from its file.
VerifyBegin(c, v, role) ==
    /\ call[c].pc = "idle"
    /\ IF Gate(v, "verify", role) = 200
       THEN call' = [call EXCEPT ![c].pc = "evaluated", ![c].at = v, ![c].kind = "verify",
                                 ![c].first = profileFile]
       ELSE call' = [Answer(c, 403, FALSE) EXCEPT ![c].kind = "verify"]
    /\ UNCHANGED <<memory, sidecar, onDisk, profileFile, now, mishaps>>

\* ResolveProfile or EvaluateBundle fails.
VerifyFails(c) ==
    /\ call[c].pc = "evaluated" /\ mishaps < MaxMishaps
    /\ mishaps' = mishaps + 1
    /\ call' = Answer(c, 422, FALSE)
    /\ UNCHANGED <<memory, sidecar, onDisk, profileFile, now>>

\* A plausible bug: only the summary is stored.
VerifyStoreSummary(c) ==
    /\ call[c].pc = "evaluated" /\ memory[call[c].at].mu = Nobody
    /\ memory' = [memory EXCEPT ![call[c].at].profile = call[c].first]
    /\ call' = Answer(c, 200, TRUE)
    /\ UNCHANGED <<sidecar, onDisk, profileFile, now, mishaps>>

\* The two reports are stored under mu.
VerifyStore(c) ==
    /\ call[c].pc = "evaluated" /\ memory[call[c].at].mu = Nobody
    /\ memory' = [memory EXCEPT ![call[c].at].profile = call[c].first,
                                ![call[c].at].verifier = call[c].first]
    /\ call' = Answer(c, 200, TRUE)
    /\ UNCHANGED <<sidecar, onDisk, profileFile, now, mishaps>>

\* handleInvestigationTrust: anchorSummary and signatureStatus read one report
\* each, and the summary is read again at the end, all without mu.
TrustBegin(c, v, role) ==
    /\ call[c].pc = "idle"
    /\ IF Gate(v, "trust", role) = 200
       THEN call' = [call EXCEPT ![c].pc = "anchor", ![c].at = v, ![c].kind = "trust",
                                 ![c].first = memory[v].profile]
       ELSE call' = [Answer(c, 403, FALSE) EXCEPT ![c].kind = "trust"]
    /\ UNCHANGED <<memory, sidecar, onDisk, profileFile, now, mishaps>>

TrustSignature(c) ==
    /\ call[c].pc = "anchor"
    /\ call' = [call EXCEPT ![c].pc = "signature", ![c].second = memory[call[c].at].verifier]
    /\ UNCHANGED <<memory, sidecar, onDisk, profileFile, now, mishaps>>

TrustProfile(c) ==
    /\ call[c].pc = "signature"
    /\ call' = [Answer(c, 200, memory[call[c].at].snap)
                  EXCEPT ![c].first = IF @ = NoReport THEN @ ELSE memory[call[c].at].profile]
    /\ UNCHANGED <<memory, sidecar, onDisk, profileFile, now, mishaps>>

-----------------------------------------------------------------------------
(* Revealing a field.                                                      *)

\* allowPrivacyReveal: a window starts with the first reveal after the last one.
Allowed(r) == IF r.count = 0 \/ now - r.start >= Window THEN TRUE
              ELSE r.count < RateLimit
Counted(r) == IF r.count = 0 \/ now - r.start >= Window THEN [start |-> now, count |-> 1]
              ELSE [r EXCEPT !.count = @ + 1]

\* handlePrivacyReveal up to the audit record: the counter counts requests that
\* are refused later, and the token is looked at after it.
RevealBegin(c, v, role, key) ==
    LET r == memory[v].rate[key]
        refused == CASE ~HasPermission(role, "operator") -> 403
                     [] ~Allowed(r)                      -> 429
                     [] key = "anonymous"                -> 401
                     [] OTHER                            -> Gate(v, "reveal", role)
    IN  /\ call[c].pc = "idle"
        /\ call' = IF refused = 200
                   THEN [call EXCEPT ![c].pc = "resolved", ![c].at = v, ![c].kind = "reveal"]
                   ELSE [Answer(c, refused, FALSE) EXCEPT ![c].kind = "reveal"]
        /\ memory' = IF HasPermission(role, "operator") /\ Allowed(r)
                     THEN [memory EXCEPT ![v].rate[key] = Counted(r),
                                         ![v].allowed[key] = Append(@, now)]
                     ELSE memory
        /\ UNCHANGED <<sidecar, onDisk, profileFile, now, mishaps>>

\* appendRevealAuditEvent takes mu; the sidecar is loaded and verified, or new.
RevealLoad(c) ==
    /\ call[c].pc = "resolved" /\ memory[call[c].at].mu = Nobody
    /\ memory' = [memory EXCEPT ![call[c].at].mu = c]
    /\ call' = [call EXCEPT ![c].pc = "loaded", ![c].copy = sidecar]
    /\ UNCHANGED <<sidecar, onDisk, profileFile, now, mishaps>>

Unlocked(c) == [memory EXCEPT ![call[c].at].mu = Nobody]

\* A plausible bug: the value is returned also when the record was not saved.
RevealFailsOpen(c) ==
    /\ call[c].pc \in {"resolved", "loaded"} /\ mishaps < MaxMishaps
    /\ mishaps' = mishaps + 1
    /\ memory' = IF call[c].pc = "loaded" THEN Unlocked(c) ELSE memory
    /\ call' = Answer(c, 200, TRUE)
    /\ UNCHANGED <<sidecar, onDisk, profileFile, now>>

\* The sidecar does not load, or is not saved.
RevealFails(c) ==
    /\ call[c].pc \in {"resolved", "loaded"} /\ mishaps < MaxMishaps
    /\ mishaps' = mishaps + 1
    /\ memory' = IF call[c].pc = "loaded" THEN Unlocked(c) ELSE memory
    /\ call' = Answer(c, 500, FALSE)
    /\ UNCHANGED <<sidecar, onDisk, profileFile, now>>

\* The sidecar is saved, whole; the value is returned after that.
RevealSave(c) ==
    /\ call[c].pc = "loaded"
    /\ sidecar' = Append(call[c].copy, c)
    /\ memory' = Unlocked(c)
    /\ call' = Answer(c, 200, TRUE)
    /\ UNCHANGED <<onDisk, profileFile, now, mishaps>>

-----------------------------------------------------------------------------
\* A viewer is stopped and started again: its requests are lost.
Restart(v) ==
    /\ mishaps < MaxMishaps /\ mishaps' = mishaps + 1
    /\ \E r \in IF onDisk THEN {NoReport, profileFile} ELSE {NoReport} :
         memory' = [memory EXCEPT ![v] = Started(onDisk, r)]
    /\ call' = [c \in Call |-> IF call[c].at = v /\ call[c].pc # "done"
                               THEN [Idle EXCEPT !.pc = "lost"] ELSE call[c]]
    /\ UNCHANGED <<sidecar, onDisk, profileFile, now>>

\* The files of the viewer are changed by others.
ChangeFile ==
    /\ mishaps < MaxMishaps /\ mishaps' = mishaps + 1
    /\ \/ onDisk' = ~onDisk /\ UNCHANGED profileFile
       \/ profileFile' = profileFile + 1 /\ UNCHANGED onDisk
    /\ UNCHANGED <<call, memory, sidecar, now>>

Tick == /\ now < MaxTime /\ now' = now + 1
        /\ UNCHANGED <<call, memory, sidecar, onDisk, profileFile, mishaps>>

ViewerNext ==
    \/ \E c \in Call, v \in Viewer, role \in {Roles[1], Roles[3]} :
         \/ \E kind \in {"events", "verification"} : ReadSnapshot(c, v, kind, role)
         \/ ReadFile(c, v, role)
         \/ VerifyBegin(c, v, role) \/ TrustBegin(c, v, role)
         \/ \E key \in Keys : RevealBegin(c, v, role, key)
    \/ \E c \in Call : \/ VerifyFails(c) \/ VerifyStore(c)
                       \/ TrustSignature(c) \/ TrustProfile(c)
                       \/ RevealLoad(c) \/ RevealFails(c) \/ RevealSave(c)
    \/ \E v \in Viewer : Restart(v)
    \/ ChangeFile \/ Tick

ViewerSpec == ViewerInit /\ [][ViewerNext]_viewerVars

-----------------------------------------------------------------------------
InSidecar(c) == \E i \in DOMAIN sidecar : sidecar[i] = c

\* A value that was revealed is in the audit log, whatever failed, and however
\* requests ran at the same time: the answer comes after the record is on disk.
RevealIsAudited ==
    \A c \in Call : call[c].kind = "reveal" /\ call[c].code = 200 => InSidecar(c)

\* The two reports a viewer holds are of one evaluation, also when evaluations
\* of different versions of the profile finish in another order.
ReportsAreOneEvaluation ==
    \A v \in Viewer : memory[v].profile = memory[v].verifier

\* Event data is served only from contents that verified when they were read:
\* the snapshot for the handlers that serve it, the file for the others.
NothingServedUnverified ==
    \A c \in Call : call[c].kind \in {"events", "report", "reveal", "verify"} /\ call[c].code = 200
                        => call[c].good

\* A window starts with its first reveal: an interval of its length holds fewer
\* than twice the limit, also when a burst at the end of one window is followed
\* by a burst at the start of the next.
BurstIsBounded ==
    \A v \in Viewer, k \in Keys : LET a == memory[v].allowed[k] IN
        \A i \in DOMAIN a :
            Cardinality({j \in DOMAIN a : a[i] <= a[j] /\ a[j] < a[i] + Window}) < 2 * RateLimit

\* A report, once there, is there for as long as the viewer runs: a handler that
\* found one without holding mu finds one again when it reads its fields.
TrustFindsItsReport ==
    \A c \in Call : call[c].pc = "signature" /\ call[c].first # NoReport =>
                       memory[call[c].at].profile # NoReport

\* What the viewer shows was verified and belongs together, and reveals are
\* audited and come no faster than the limit, for requests and restarts in any
\* order.
ViewsAreSound ==
    /\ RevealIsAudited /\ ReportsAreOneEvaluation /\ NothingServedUnverified
    /\ BurstIsBounded /\ TrustFindsItsReport
=============================================================================
