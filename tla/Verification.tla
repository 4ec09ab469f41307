---------------------------- MODULE Verification ----------------------------
(***************************************************************************)
(* `atb verify`: which profile judges a bundle, the completeness score, the*)
(* gate, the residual risk, the gaps, the obligations a report lists, the  *)
(* text it prints and the exit code (internal/verify, cmd/atb/verify.go,   *)
(* cmd/atb/verify_output.go).                                              *)
(*                                                                         *)
(* A workflow records its planned events one by one; each may be skipped,  *)
(* repeated or recorded with a lapse.  Verify then evaluates the bundle    *)
(* under some set of flags and the behaviour ends.                         *)
(***************************************************************************)
EXTENDS ProfileRules, FiniteSetsExt, TLC

CONSTANTS
    Targets,        \* the profiles whose workflows are recorded
    MaxDeviations   \* per profile: lapses, extra records and flags in one behaviour

VARIABLES
    target,     \* the profile whose workflow is recorded
    records,    \* the bundle's records
    plan,       \* the event types the workflow has still to record
    intact,     \* the hash chain verifies
    deviations, \* how many departures from the plan there were
    report      \* what Verify said, or NoReport

verifyVars == <<target, records, plan, intact, deviations, report>>

NoReport == [done |-> FALSE]

-----------------------------------------------------------------------------
(* Scores are exact integers: Unit is 1.0, weights are in hundredths.      *)

Unit == 25200
Score(b) == IF b THEN Unit ELSE 0
Average(s) == SumFunction(s) \div Len(s)

First(recs, type) == indexRecordsByType(recs, type)[1]
All(recs, type) == Range(indexRecordsByType(recs, type))

\* allRecordsBound, with the presence tests its callers make.
allRecordsBound(recs, from, to) ==
    /\ Present(recs, from)
    /\ \A r \in All(recs, from) : r.id # "" /\ \E t \in All(recs, to) : t.id = r.id

\* allExecutedAuthorised: every executed action has a decision that allows it.
allExecutedAuthorised(recs, executed) ==
    /\ Present(recs, executed)
    /\ \A r \in All(recs, executed) :
         r.id # "" /\ \E p \in All(recs, "policy") : p.id = r.id /\ p.word = "allow"

\* allExecutedApproved holds when nothing was executed.
allExecutedApproved(recs) ==
    \A r \in All(recs, "executed") :
      r.id # "" /\ \E p \in All(recs, "approval") : p.id = r.id /\ p.word = "approved"

\* boundedExecutionWindowWarnings: the first execution of an action ran more
\* than ten minutes after its first precommit, or a timestamp does not parse.
windowExceeded(recs, precommit, executed) ==
    \E id \in {r.id : r \in All(recs, executed)} \ {""} :
      LET OfId(r) == r.id = id
          p == SelectSeq(indexRecordsByType(recs, precommit), OfId)
          x == SelectSeq(indexRecordsByType(recs, executed), OfId)
      IN  /\ p # <<>> /\ p[1].time # NoTime /\ x[1].time # NoTime
          /\ p[1].time = BadTime \/ x[1].time = BadTime \/ x[1].time - p[1].time > 10

WindowScore(recs, precommit, executed) ==
    IF windowExceeded(recs, precommit, executed) THEN (7 * Unit) \div 10 ELSE Unit

\* temporalBeforeScore.
temporalBeforeScore(recs, before, model) ==
    IF /\ Present(recs, before) /\ Present(recs, model)
       /\ First(recs, before).time # NoTime /\ First(recs, model).time # NoTime
       /\ \/ First(recs, before).time = BadTime \/ First(recs, model).time = BadTime
          \/ First(recs, before).time > First(recs, model).time
    THEN (7 * Unit) \div 10 ELSE Unit

\* eventCoverage and fieldCompleteness, over the required rules.
eventCoverage(schema, recs) ==
    (Unit * Cardinality({i \in DOMAIN schema.required : Present(recs, schema.required[i].type)}))
      \div Len(schema.required)

fieldCompleteness(schema, recs) ==
    LET RuleOf(r) == {rule \in Range(schema.required) : rule.type = r.type}
        Counted(r) == RuleOf(r) # {}
        Complete(r) == LET rule == CHOOSE x \in RuleOf(r) : TRUE
                       IN  IF rule.n = 0 THEN Unit ELSE (Unit * (rule.n - missingFields(r, rule))) \div rule.n
        counted == SelectSeq(recs, Counted)
    IN  IF counted = <<>> THEN 0 ELSE Average([i \in DOMAIN counted |-> Complete(counted[i])])

\* computeSC: anchor 0.40, manifest 0.25, request 0.20, signature 0.10 and the
\* mode's event 0.15, at most 1.
computeSC(mode, recs) ==
    LET Worth(b, n) == IF b THEN n ELSE 0
        total == Worth(Present(recs, "anchor"), 40)
                 + Worth(recs # <<>> /\ recs[1].type = "manifest", 25)
                 + Worth(Present(recs, "request"), 20) + Worth(Present(recs, "signature"), 10)
                 + Worth(\/ mode = "policy" /\ Present(recs, "policy")
                         \/ mode = "retrieval" /\ Present(recs, "retrieval"), 15)
    IN  (Unit * Min({total, 100})) \div 100

\* inspectAnchor classifies the latest anchor record.
ClassifyAnchor(recs) ==
    LET anchors == indexRecordsByType(recs, "anchor")
    IN  IF anchors = <<>> THEN "absent" ELSE anchors[Len(anchors)].proof

TSAVerified(recs) == ClassifyAnchor(recs) = "verified"

\* xcScoreWithCorroboration and acScore.
xcScore(recs) ==
    IF \E r \in All(recs, "corroboration") : r.proof = "valid" THEN Unit
    ELSE [absent |-> 0, bad |-> Unit \div 10, partial |-> Unit \div 2, verified |-> Unit][ClassifyAnchor(recs)]

acScore(recs) == Score(TSAVerified(recs))

\* inspectBundleSignature: the latest signature verifies.
SignatureVerified(recs) ==
    LET signatures == indexRecordsByType(recs, "signature")
    IN  signatures # <<>> /\ signatures[Len(signatures)].proof = "valid"

\* VerifySnapshotHashes finds nothing.
SnapshotsVerify(recs) == \A r \in All(recs, "snapshot") : r.proof = "valid"

\* The relational, temporal and gating dimensions of each built-in profile.
Dimensions(rc, tc, gc) == [RC |-> rc, TC |-> tc, GC |-> gc]

privilegedToolActionSubScores(recs) ==
    Dimensions(Average(<<Score(allRecordsBound(recs, "committed", "precommit")),
                         Score(allRecordsBound(recs, "policy", "precommit")),
                         Score(allExecutedAuthorised(recs, "executed"))>>),
               WindowScore(recs, "precommit", "executed"),
               Score(/\ allRecordsBound(recs, "executed", "precommit") /\ allRecordsBound(recs, "committed", "precommit")
                     /\ allRecordsBound(recs, "committed", "executed") /\ allRecordsBound(recs, "executed", "committed")))

dataExportSubScores(recs) ==
    Dimensions(Average(<<Score(allRecordsBound(recs, "policy", "export_precommit")),
                         Score(allExecutedAuthorised(recs, "export_executed"))>>),
               WindowScore(recs, "export_precommit", "export_executed"),
               Score(/\ allRecordsBound(recs, "export_executed", "export_precommit")
                     /\ allExecutedAuthorised(recs, "export_executed")))

\* The policy index of the code adds nothing to GC: a bound decision has an id.
policyDecisionSubScores(recs) ==
    LET bound == Score(allRecordsBound(recs, "policy", "precommit"))
    IN  Dimensions(bound, temporalBeforeScore(recs, "policy", "executed"), bound)

humanOverrideSubScores(recs) ==
    Dimensions(Average(<<Score(allRecordsBound(recs, "approval", "precommit")), Score(allExecutedApproved(recs))>>),
               WindowScore(recs, "precommit", "executed"),
               Score(allRecordsBound(recs, "approval", "precommit") /\ allRecordsBound(recs, "executed", "precommit")))

backgroundAutomationSubScores(recs) ==
    LET consistent == Score(/\ allRecordsBound(recs, "started", "scheduled")
                            /\ allRecordsBound(recs, "completed", "started")
                            /\ allRecordsBound(recs, "started", "completed"))
    IN  Dimensions(consistent, Unit, consistent)

ragAnswerSubScores(recs) ==
    Dimensions(Score(/\ Present(recs, "request") /\ Present(recs, "response")
                     /\ First(recs, "request").id # "" /\ First(recs, "request").id = First(recs, "response").id),
               Average(<<temporalBeforeScore(recs, "policy", "invoked"),
                         temporalBeforeScore(recs, "retrieval", "invoked")>>),
               (3 * Unit) \div 10)

\* genericSchemaSubScores.
OwnDimensions(p, recs) ==
    CASE p = "privileged" -> privilegedToolActionSubScores(recs)
      [] p = "data_export" -> dataExportSubScores(recs)
      [] p = "policy_decision" -> policyDecisionSubScores(recs)
      [] p = "human_override" -> humanOverrideSubScores(recs)
      [] p = "background" -> backgroundAutomationSubScores(recs)
      [] p = "rag" -> ragAnswerSubScores(recs)
      [] OTHER -> Dimensions(0, 0, 0)

\* subScoresForProfile.
subScores(p, recs) ==
    OwnDimensions(p, recs) @@
    [EC |-> eventCoverage(Schemas[p], recs), FC |-> fieldCompleteness(Schemas[p], recs),
     SC |-> IF p = "custom" THEN 0 ELSE computeSC(Schemas[p].mode, recs),
     XC |-> xcScore(recs), AC |-> acScore(recs)]

-----------------------------------------------------------------------------
(* One evaluation: EvaluateBundle with the flags of the command.           *)

\* profileFromPurposeTag: the first request whose tag names a workflow class;
\* background automation is not among the candidates.
profileFromPurposeTag(recs) ==
    LET Tagged(r) == r.type = "request" /\ r.word \in {"privileged", "data_export", "policy_decision", "human_override", "rag"}
        tagged == SelectSeq(recs, Tagged)
    IN  IF tagged = <<>> THEN "none" ELSE tagged[1].word

\* matchingProfiles without an explicit profile.
matchingProfiles(recs) ==
    LET Some(types) == \E t \in types : Present(recs, t)
    IN  CASE profileFromPurposeTag(recs) # "none" -> profileFromPurposeTag(recs)
          [] Some({"scheduled", "started"}) -> "background"
          [] Some({"export_precommit", "export_executed"}) -> "data_export"
          [] Some({"precommit"}) -> "privileged"
          [] Some({"invoked"}) -> "rag"
          [] OTHER -> "none"

\* inspectPolicyDecisionSignatures: what the proofs of the decisions say.
SignatureFindings(recs) ==
    LET proofs == {r.proof : r \in All(recs, "policy")}
        When(proof, kind) == IF proof \in proofs THEN {Finding(kind, <<>>, {"policy"})} ELSE {}
    IN  [failures |-> When("bad", "signature_verification")
                      \cup When("doc_bad", "policy_doc_signature_verification"),
         warnings |-> When("absent", "policy_signature_absent")
                      \cup When("doc_absent", "policy_doc_signature_absent")]

\* profile.Evaluate and applyPolicyDecisionSignatureChecks: strict mode turns
\* an absent signature into a failure.
ProfileResult(p, recs, strict) ==
    LET base == IF p = "legacy" THEN LegacyEvaluate(recs) ELSE Evaluate(Schemas[p], recs)
        signed == SignatureFindings(recs)
        promoted == IF strict /\ signed.warnings # {}
                    THEN {Finding("signature_verification", <<>>, {"policy"})} ELSE {}
    IN  [failures |-> base.failures \cup signed.failures \cup promoted,
         warnings |-> base.warnings \cup (IF strict THEN {} ELSE signed.warnings)]

\* gradeFromScore, over hundredths of a Unit.
Percent(n) == n * Unit
Grade(total) ==
    CASE total >= Percent(85) -> "High"
      [] total >= Percent(60) -> "Medium"
      [] total >= Percent(30) -> "Low"
      [] OTHER -> "Insufficient"

\* casApplicability: the dimensions that cannot be assessed.
Unassessable(p) ==
    CASE p = "rag" -> {"GC"} [] p = "custom" -> {"RC", "TC", "SC", "GC"} [] OTHER -> {}

\* computeCASWithApplicability: the weighted total, and the coverage over the
\* dimensions that can be assessed; nothing is scored over a broken chain.
Weigh(w, sub, ds) == SumFunctionOnSet([d \in DOMAIN w |-> w[d] * sub[d]], ds)

computeCASWithApplicability(w, sub, assessable, valid) ==
    IF valid THEN [sub |-> sub, overall |-> Weigh(w, sub, DOMAIN w),
                   coverage |-> Weigh(w, sub, assessable) \div SumFunctionOnSet(w, assessable)]
    ELSE [sub |-> sub, overall |-> 0, coverage |-> 0]

computeCAS(p, recs, valid) ==
    computeCASWithApplicability(Schemas[p].weights, subScores(p, recs), Range(Dimension) \ Unassessable(p), valid)

\* computeCorroborationBonus under the default policy.
Bonus(recs) ==
    LET Worth(b, n) == IF b THEN Percent(n) ELSE 0
    IN  Min({Worth(TSAVerified(recs), 5) + Worth(SignatureVerified(recs), 3)
               + Worth(Present(recs, "snapshot") /\ SnapshotsVerify(recs), 2), Percent(10)})

\* The score of a bundle without a profile.
fallbackCAS(sc, valid) ==
    [sub |-> [SC |-> sc], overall |-> IF valid THEN 100 * sc ELSE 0, coverage |-> 0]

\* EvaluateBundle adds the bonus after the risk and the gaps are derived, and
\* grades the effective score.
Graded(cas, bonus, graded) ==
    [on |-> TRUE, sub |-> cas.sub, overall |-> cas.overall, coverage |-> cas.coverage,
     effective |-> Min({Percent(100), cas.overall + bonus}),
     grade |-> IF cas.overall = 0 /\ ~graded THEN "" ELSE Grade(Min({Percent(100), cas.overall + bonus}))]

\* The score part of a report.
CAS(p, recs, valid, flags) ==
    IF p = "legacy" THEN [on |-> FALSE]
    ELSE Graded(IF p = "none" THEN fallbackCAS(computeSC("policy", recs), valid) ELSE computeCAS(p, recs, valid),
                IF "anchor" \in flags THEN Bonus(recs) ELSE 0,
                p # "none" \/ "anchor" \in flags)

\* gateResultFromVerify.
gateResult(p, result, recs, valid, flags) ==
    /\ valid /\ p # "none" /\ result.failures = {}
    /\ "required" \in flags => TSAVerified(recs)

\* AssuranceValid, as evaluateLoadedBundle and applyRequiredAnchorRisk set it.
AssuranceValid(p, result, recs, valid, flags) ==
    /\ p \notin {"none", "legacy"}
    /\ valid /\ result.failures = {}
    /\ ~("required" \in flags /\ ~TSAVerified(recs))

\* deriveResidualRisk, deriveResidualRiskWithoutCAS, the risks without a
\* profile or over a broken chain, and applyRequiredAnchorRisk.
RiskLevel(p, result, cas, recs, valid, flags) ==
    CASE ~valid -> "Critical"
      [] "required" \in flags /\ ~TSAVerified(recs) -> "High"
      [] p = "none" -> "High"
      [] result.failures # {} \/ (cas.on /\ cas.overall < Percent(60)) -> "High"
      [] result.warnings # {} \/ (cas.on /\ cas.overall < Percent(85)) -> "Medium"
      [] OTHER -> "Low"

Weak(cas) == IF cas.on THEN {d \in DOMAIN cas.sub : 10 * cas.sub[d] < 7 * Unit} ELSE {}

\* The drivers the risk names.
Drivers(p, cas, recs, valid, flags) ==
    IF ~valid THEN {"integrity"}
    ELSE (IF p = "none" THEN {"no_profile"} ELSE Weak(cas))
         \cup (IF "required" \in flags /\ ~TSAVerified(recs) THEN {"required_anchor_unverified"} ELSE {})

\* A plausible bug: a required anchor is left to the AC score.
ProvabilityGapsScored(p, result, cas, recs, valid, flags) ==
    IF ~valid THEN {"integrity"} ELSE Weak(cas)

\* DeriveProvabilityGaps: the weak dimensions, the required anchor, absent
\* policy signatures and a retrospective import.
ProvabilityGaps(p, result, cas, recs, valid, flags) ==
    IF ~valid THEN {"integrity"}
    ELSE Weak(cas)
         \cup (IF "required" \in flags /\ ~TSAVerified(recs) THEN {"AC"} ELSE {})
         \cup (IF \E w \in result.warnings : w.kind = "policy_signature_absent" THEN {"SC"} ELSE {})
         \cup (IF p # "none" /\ recs[1].type = "manifest" /\ recs[1].word = "retrospective"
               THEN {"retrospective_capture"} ELSE {})

\* A failure without an id is listed under its position.
failureObligationID(f) == IF f.id = <<>> THEN <<"failure", f.kind, f.names>> ELSE f.id

\* schemaObligations, and reportObligations upserting every failure into it.
Obligations(p, result) ==
    LET Matching(id) == {f \in result.failures : f.id = id \/ (Len(f.id) = 3 /\ SubSeq(f.id, 1, 2) = id)}
        Listed(id) == IF Matching(id) = {} THEN [id |-> id, status |-> "pass"]
                      ELSE [id |-> (CHOOSE f \in Matching(id) : TRUE).id, status |-> "fail"]
        ids == IF p = "legacy" THEN {}
               ELSE {<<"required", r.type>> : r \in Range(Schemas[p].required)}
                    \cup {<<"relation", r.name>> : r \in Range(Schemas[p].relations)}
    IN  {Listed(id) : id \in ids} \cup {[id |-> failureObligationID(f), status |-> "fail"] : f \in result.failures}

\* A plausible bug: a warning is looked for only where a failure was found.
obligationLinesFailuresOnly(p, result) ==
    LET Rule(acc, rule) ==
            LET named == {f \in acc.failures : rule.type \in f.names}
            IN  IF named # {}
                THEN [acc EXCEPT !.failures = @ \ {CHOOSE f \in named : TRUE}]
                ELSE [acc EXCEPT !.pass = @ \cup {rule.type}]
        shown == {f \in result.failures : f.kind # "relation_violation"}
    IN  IF p \in {"legacy", "custom"} THEN {}
        ELSE FoldLeft(Rule, [failures |-> shown, pass |-> {}], Schemas[p].required \o Schemas[p].optional).pass

\* obligationLines: rule by rule, the first unused failure and then the first
\* unused warning whose text contains the rule's event type is printed for it;
\* a rule with neither is printed as recorded.  The result is the set of types
\* printed as recorded; profiles from a file have no such lines.
obligationLines(p, result) ==
    LET Rule(acc, rule) ==
            LET Named(fs) == {f \in fs : rule.type \in f.names}
            IN  CASE Named(acc.failures) # {} ->
                       [acc EXCEPT !.failures = @ \ {CHOOSE f \in Named(@) : TRUE}]
                  [] Named(acc.failures) = {} /\ Named(acc.warnings) # {} ->
                       [acc EXCEPT !.warnings = @ \ {CHOOSE w \in Named(@) : TRUE}]
                  [] OTHER -> [acc EXCEPT !.pass = @ \cup {rule.type}]
        shown == {f \in result.failures : f.kind # "relation_violation"}
    IN  IF p \in {"legacy", "custom"} THEN {}
        ELSE FoldLeft(Rule, [failures |-> shown, warnings |-> result.warnings, pass |-> {}],
                      Schemas[p].required \o Schemas[p].optional).pass

Unsigned(recs) == Present(recs, "signature") /\ ~SignatureVerified(recs)

\* renderVerificationStatus.
verificationStatus(p, result, recs, valid) ==
    CASE ~valid \/ Unsigned(recs) -> "FAIL"
      [] p = "none" -> "NOT EVALUATED"
      [] result.failures = {} -> "PASS"
      [] OTHER -> "FAIL"

\* verificationExitCode.
verificationExitCode(p, result, recs, valid) ==
    CASE ~valid \/ Unsigned(recs) -> 2
      [] p # "none" /\ result.failures # {} -> 3
      [] OTHER -> 0

\* runVerifyRemote: strict, the snapshot check and the token file are not passed
\* on; the key of the object names a head hash, which is compared.
runVerifyRemote(flags) ==
    IF "remote" \in flags THEN flags \ {"strict", "snapshot", "token"} ELSE flags \ {"wrong_key"}

\* What a verification prints, from the profile's result and the score.
Report(p, result, cas, recs, valid, flags, snapshotFails, wrongKey) ==
    [done |-> TRUE, printed |-> TRUE, flags |-> flags, profile |-> p,
     failures |-> result.failures, warnings |-> result.warnings, cas |-> cas,
     pass |-> gateResult(p, result, recs, valid, flags),
     assurance |-> AssuranceValid(p, result, recs, valid, flags),
     risk |-> IF snapshotFails THEN "Critical" ELSE RiskLevel(p, result, cas, recs, valid, flags),
     drivers |-> Drivers(p, cas, recs, valid, flags),
     gaps |-> ProvabilityGaps(p, result, cas, recs, valid, flags),
     obligations |-> IF p = "none" THEN {} ELSE Obligations(p, result),
     recorded |-> IF p = "none" THEN {} ELSE obligationLines(p, result),
     status |-> verificationStatus(p, result, recs, valid),
     exit |-> IF snapshotFails \/ wrongKey THEN 2 ELSE verificationExitCode(p, result, recs, valid)]

Evaluated(p, recs, valid, flags, effective) ==
    Report(p,
           IF p = "none" THEN [failures |-> {}, warnings |-> {}] ELSE ProfileResult(p, recs, "strict" \in effective),
           CAS(p, recs, valid, flags), recs, valid, flags,
           "snapshot" \in effective /\ ~SnapshotsVerify(recs), "wrong_key" \in effective)

\* What `atb verify` reports; "remote" reads the bundle from S3, and token is
\* what verifyBundleAnchor finds in the .tsr file.  Without a manifest, or with a
\* token that fails, nothing is printed but an error.
Answer(recs, valid, flags, effective, token) ==
    LET tokenFails == "token" \in effective /\ valid /\ Present(recs, "anchor") /\ token = "bad"
        Silent(code) == [done |-> TRUE, printed |-> FALSE, exit |-> code, flags |-> flags]
    IN  CASE recs = <<>> \/ recs[1].type # "manifest" -> Silent(1)
          [] recs # <<>> /\ recs[1].type = "manifest" /\ tokenFails -> Silent(2)
          [] OTHER -> Evaluated(IF "explicit" \in flags THEN target ELSE matchingProfiles(recs),
                                recs, valid, flags, effective)

Outcome(recs, valid, flags, token) ==
    Answer(recs, valid, flags, runVerifyRemote(flags \cup (IF "anchor" \in flags THEN {"token"} ELSE {})), token)

-----------------------------------------------------------------------------
(* The workflows.                                                          *)

Workflow ==
    [privileged |-> <<"manifest", "request", "precommit", "policy", "approval", "executed", "committed">>,
     data_export |-> <<"manifest", "request", "export_precommit", "policy", "approval", "export_executed">>,
     policy_decision |-> <<"manifest", "request", "precommit", "policy", "executed">>,
     human_override |-> <<"manifest", "request", "precommit", "approval", "executed", "committed">>,
     background |-> <<"manifest", "scheduled", "started", "step", "completed">>,
     rag |-> <<"manifest", "request", "policy", "retrieval", "invoked", "output", "response">>,
     custom |-> <<"manifest", "request", "precommit", "executed", "committed">>,
     legacy |-> <<"manifest", "precommit", "executed", "committed">>]

\* The record of an event as the workflow should make it.
Planned(type) ==
    [type |-> type, id |-> "a", time |-> 5, lacks |-> 0, proof |-> "valid",
     word |-> CASE type = "request" -> target
                [] type = "policy" -> "allow" [] type = "approval" -> "approved" [] OTHER -> "ok"]

\* The same event recorded with one lapse.
Lapsed(type) ==
    LET r == Planned(type)
        words == CASE type = "policy" -> {"", "deny"} [] type = "approval" -> {"", "rejected"}
                   [] type = "request" -> {"", "rag", "privileged"}
                   [] type = "manifest" -> {"retrospective"} [] OTHER -> {""}
        proofs == IF type = "policy" THEN {"absent", "bad", "doc_absent", "doc_bad"} ELSE {}
    IN  IF type = "manifest" THEN {[r EXCEPT !.word = "retrospective"]}
        ELSE {[r EXCEPT !.id = i] : i \in {"", "b"}} \cup {[r EXCEPT !.word = w] : w \in words}
             \cup {[r EXCEPT !.time = t] : t \in {NoTime, BadTime, 1, 20}}
             \cup {[r EXCEPT !.lacks = 1]} \cup {[r EXCEPT !.proof = x] : x \in proofs}

\* A second record of the event: the same, or about another action.
Repeated(type) == {Planned(type), [Planned(type) EXCEPT !.id = "b"],
                   [Planned(type) EXCEPT !.id = "b", !.word = IF type = "policy" THEN "deny" ELSE @]}

\* The records other commands append.
Appended ==
    {[Planned(t) EXCEPT !.proof = x] : t \in {"signature", "snapshot", "corroboration"}, x \in {"valid", "bad"}}
    \cup {[Planned("anchor") EXCEPT !.proof = x] : x \in {"verified", "partial", "bad"}}

Flags == {"explicit", "strict", "anchor", "snapshot", "required", "remote", "wrong_key"}

\* The flags that go together: "required" is the library's option, and only a
\* remote object has a key.  A profile from a file is always named.
FlagSets ==
    {f \in SUBSET Flags :
       /\ "required" \in f => f \subseteq {"explicit", "strict", "required"}
       /\ "wrong_key" \in f => "remote" \in f
       /\ target \in {"custom", "legacy"} => "explicit" \in f}

-----------------------------------------------------------------------------
VerifyInit ==
    /\ target \in Targets
    /\ records = <<>> /\ plan = Workflow[target]
    /\ intact = TRUE /\ deviations = 0 /\ report = NoReport

Deviate == deviations < MaxDeviations[target] /\ deviations' = deviations + 1

Emit ==
    /\ ~report.done /\ plan # <<>>
    /\ records' = Append(records, Planned(Head(plan))) /\ plan' = Tail(plan)
    /\ UNCHANGED <<target, intact, deviations, report>>

EmitLapsed ==
    /\ ~report.done /\ plan # <<>> /\ Deviate
    /\ \E r \in Lapsed(Head(plan)) : records' = Append(records, r)
    /\ plan' = Tail(plan)
    /\ UNCHANGED <<target, intact, report>>

Skip ==
    /\ ~report.done /\ plan # <<>> /\ Deviate
    /\ plan' = Tail(plan)
    /\ UNCHANGED <<target, records, intact, report>>

Repeat ==
    /\ ~report.done /\ plan # <<>> /\ Head(plan) # "manifest" /\ Deviate
    /\ \E r \in Repeated(Head(plan)) : records' = Append(records, r)
    /\ UNCHANGED <<target, plan, intact, report>>

AppendOther ==
    /\ ~report.done /\ plan = <<>> /\ Deviate
    /\ \E r \in Appended : records' = Append(records, r)
    /\ UNCHANGED <<target, plan, intact, report>>

\* The stored chain no longer verifies.
Damage ==
    /\ ~report.done /\ plan = <<>> /\ intact /\ Deviate
    /\ intact' = FALSE
    /\ UNCHANGED <<target, records, plan, report>>

\* Naming the profile is free; every other flag is a deviation.
Verify ==
    /\ ~report.done /\ plan = <<>>
    /\ \E flags \in FlagSets, token \in {"absent", "bad"} :
         /\ "anchor" \notin flags => token = "absent"
         /\ deviations + Cardinality(flags \ {"explicit"}) <= MaxDeviations[target]
         /\ report' = Outcome(records, intact, flags, token)
    /\ UNCHANGED <<target, records, plan, intact, deviations>>

VerifyNext == Emit \/ EmitLapsed \/ Skip \/ Repeat \/ AppendOther \/ Damage \/ Verify

VerifySpec == VerifyInit /\ [][VerifyNext]_verifyVars

-----------------------------------------------------------------------------
Printed == report.done /\ report.printed

\* A bundle that passes the privileged or the export profile shows, for every
\* action it says was executed, a decision allowing that action and a precommit
\* of it; the rules check this pairwise and skip a relation while one of its
\* types is absent (evaluateRelationRule).
PassMeansAuthorised ==
    (Printed /\ report.pass /\ report.profile \in {"privileged", "data_export"}) =>
      LET x == IF report.profile = "privileged" THEN "executed" ELSE "export_executed"
          c == IF report.profile = "privileged" THEN "precommit" ELSE "export_precommit"
      IN  \A r \in All(records, x) :
            /\ \E d \in All(records, "policy") : d.id = r.id /\ d.word = "allow"
            /\ \E d \in All(records, c) : d.id = r.id

\* The two verdicts a report carries agree: a scored report is assurance_valid
\* exactly when its gate passes (evaluateLoadedBundle, gateResultFromVerify).
AssuranceMeansGate ==
    (Printed /\ report.cas.on) => (report.assurance <=> report.pass)

\* A Low residual risk is only given to a passing bundle without a warning,
\* scored 0.85 or more where it is scored, and anchored where that is required.
LowRiskIsSound ==
    (Printed /\ report.risk = "Low") =>
      /\ report.pass /\ report.warnings = {}
      /\ report.cas.on => report.cas.overall >= Percent(85)
      /\ "required" \in report.flags => TSAVerified(records)

\* Every driver of the residual risk has a gap with its mitigation
\* (DeriveProvabilityGaps runs again after the required-anchor policy).
GapsCoverDrivers ==
    Printed =>
      /\ (report.drivers \cap (Range(Dimension) \cup {"integrity"})) \subseteq report.gaps
      /\ "required_anchor_unverified" \in report.drivers => "AC" \in report.gaps

\* Scores stay between 0 and 1, and the bonus never lowers one.
ScoresInRange ==
    (Printed /\ report.cas.on) =>
      /\ 0 <= report.cas.overall /\ report.cas.overall <= report.cas.effective
      /\ report.cas.effective <= Percent(100)
      /\ report.cas.coverage \in 0..Unit

\* Every critical failure is in the report's obligations as failed, also one no
\* rule or relation claims (reportObligations).
EveryFailureIsListed ==
    Printed => \A f \in report.failures : [id |-> failureObligationID(f), status |-> "fail"] \in report.obligations

\* An event type the text shows as recorded is in the bundle, and its first
\* record has the rule's fields, although findings are matched to rules by the
\* event types their wording happens to contain (obligationLines).
RecordedLinesAreTrue ==
    Printed => \A rule \in (IF report.profile \in DOMAIN Schemas
                            THEN Range(Schemas[report.profile].required) \cup Range(Schemas[report.profile].optional)
                            ELSE {}) :
      rule.type \in report.recorded =>
        Present(records, rule.type) /\ missingFields(First(records, rule.type), rule) = 0

\* Exit code 0 of a local verification: the chain and the latest signature
\* verify, no checked snapshot or token failed, no obligation of the profile
\* failed, and strict mode left no decision of it unsigned.
ExitZeroIsSound ==
    (report.done /\ report.exit = 0) =>
      /\ intact /\ ~Unsigned(records) /\ report.failures = {}
      /\ report.status \in {"PASS", "NOT EVALUATED"}
      /\ ("snapshot" \in report.flags /\ "remote" \notin report.flags) => SnapshotsVerify(records)
      /\ ("strict" \in report.flags /\ "remote" \notin report.flags /\ report.profile # "none") =>
           \A r \in All(records, "policy") : r.proof = "valid"

\* docs/maintainers/automation-contract.md: "the command exits `0` when `pass`
\* is `true`".  It does not when the latest bundle signature fails, or a
\* checked snapshot does: neither is part of the gate.
PassMeansExitZero ==
    (Printed /\ report.pass) => report.exit = 0

\* docs/evidence/key-management.md: in strict mode absent signatures "are
\* promoted from warnings to critical failures".  A remote verification
\* accepts the flag and does not pass it on (runVerifyRemote).
StrictRefusesUnsigned ==
    (Printed /\ "strict" \in report.flags /\ report.profile # "none" /\ report.exit = 0) =>
      \A r \in All(records, "policy") : r.proof # "absent"

\* A pass and an exit code of 0 mean what a caller takes them to mean.
VerdictIsSound == PassMeansAuthorised /\ ExitZeroIsSound

\* The parts of a report that are derived separately agree: gate, assurance,
\* scores, risk, its drivers and the gaps (evaluateLoadedBundle and what it calls).
ReportIsConsistent == AssuranceMeansGate /\ LowRiskIsSound /\ GapsCoverDrivers /\ ScoresInRange

\* A report tells every failure and shows nothing as recorded that is not.
FindingsAreTold == EveryFailureIsListed /\ RecordedLinesAreTrue
=============================================================================
