---------------------------- MODULE TrustReports ----------------------------
(***************************************************************************)
(* `atb trust-report`: what it says about a bundle that `atb verify` has   *)
(* judged (cmd/atb/trust_report.go, internal/trust,                        *)
(* internal/verify/trust_report.go).  The JSON form is derived from the    *)
(* report of the verifier; the text and markdown forms are built from      *)
(* checks of their own, so that the two can disagree with `atb verify` and *)
(* with one another.                                                       *)
(***************************************************************************)
EXTENDS Verification

CONSTANT MaxReported    \* bound: deviations of a bundle that a trust report is made of

VARIABLE trust      \* the trust report printed after the verification

trustVars == <<verifyVars, trust>>

NoTrust == [format |-> "none"]

-----------------------------------------------------------------------------
(* --format json: TrustReportFromVerify.                                   *)

\* firstEventField finds every field a section shows: those of the first record
\* of the type.  A field the record lacks may be one that is not shown.
Shows(recs, rule, lacksOther) ==
    /\ Present(recs, rule.type)
    /\ missingFields([First(recs, rule.type) EXCEPT !.lacks = IF lacksOther THEN 0 ELSE @], rule) = 0

FirstId(recs, type) == IF Present(recs, type) THEN First(recs, type).id ELSE ""

\* The first records of these types have one id.
SameFirst(recs, types) ==
    \E id \in {FirstId(recs, t) : t \in types} \ {""} : \A t \in types : FirstId(recs, t) = id

\* The rule of the required event type, as the profile states it.
RuleFor(p, type) == CHOOSE rule \in Range(Schemas[p].required) : rule.type = type

buildRequestTrustSection(p, recs) == Shows(recs, RuleFor(p, "request"), FALSE)
buildPolicyDecisionTrustSection(p, recs, lacksOther) == Shows(recs, RuleFor(p, "policy"), lacksOther)
buildActionGateTrustSection(recs) == SameFirst(recs, {"precommit", "executed", "committed"})

\* buildTrustSections: which sections pass.
buildTrustSections(p, recs, lacksOther) ==
    CASE p = "none" -> <<>>
      [] p = "rag" ->
           [request |-> buildRequestTrustSection(p, recs), invoked |-> Shows(recs, RuleFor(p, "invoked"), FALSE),
            retrieval |-> TRUE, response |-> TRUE]
      [] p \in {"privileged", "data_export"} ->
           [request |-> buildRequestTrustSection(p, recs),
            policy |-> buildPolicyDecisionTrustSection(p, recs, lacksOther),
            gate |-> buildActionGateTrustSection(recs)]
      [] p = "background" ->
           [scheduled |-> Shows(recs, RuleFor(p, "scheduled"), FALSE),
            job |-> SameFirst(recs, {"scheduled", "started", "completed"})]
      [] p = "policy_decision" ->
           [request |-> buildRequestTrustSection(p, recs),
            policy |-> buildPolicyDecisionTrustSection(p, recs, lacksOther)]
      [] p = "human_override" ->
           [request |-> buildRequestTrustSection(p, recs), approval |-> Shows(recs, RuleFor(p, "approval"), lacksOther),
            gate |-> buildActionGateTrustSection(recs)]
      [] OTHER -> [summary |-> TRUE]

\* computePolicyDocSignatureValid over the decisions that name a document.
computePolicyDocSignatureValid(recs) ==
    LET named == {r \in All(recs, "policy") : r.proof \in {"doc_bad", "doc_absent"}}
    IN  named = {}

\* A plausible bug: the profile alone decides.
TrustReportFromVerifyProfileOnly(r, recs, valid, lacksOther) ==
    [format |-> "json", pass |-> r.profile # "none" /\ r.failures = {},
     scored |-> r.cas.on /\ valid, overall |-> IF r.cas.on THEN r.cas.overall ELSE 0,
     risk |-> r.risk, gaps |-> r.gaps, warnings |-> r.warnings,
     docs |-> computePolicyDocSignatureValid(recs),
     sections |-> buildTrustSections(r.profile, recs, lacksOther)]

\* TrustReportFromVerify, of the verifier's report r.
TrustReportFromVerify(r, recs, valid, lacksOther) ==
    [format |-> "json", pass |-> r.profile # "none" /\ valid /\ r.failures = {},
     scored |-> r.cas.on /\ valid, overall |-> IF r.cas.on THEN r.cas.overall ELSE 0,
     risk |-> r.risk, gaps |-> r.gaps, warnings |-> r.warnings,
     docs |-> computePolicyDocSignatureValid(recs),
     sections |-> buildTrustSections(r.profile, recs, lacksOther)]

\* runTrustReportJSON: without --profile the verifier infers one, and the exit
\* code tells whether the report passes.
RunTrustReportJSON ==
    /\ report.done /\ report.flags \subseteq {"explicit"} /\ trust = NoTrust /\ deviations <= MaxReported
    /\ \E lacksOther \in {FALSE, \E i \in DOMAIN records : records[i].lacks > 0} :
         \E r \in {TrustReportFromVerify(
                    Evaluated(IF "explicit" \in report.flags THEN target ELSE matchingProfiles(records),
                              records, intact, {}, {}),
                    records, intact, lacksOther)} :
           trust' = r @@ [exit |-> IF r.pass THEN 0 ELSE 1]
    /\ UNCHANGED verifyVars

-----------------------------------------------------------------------------
(* --format markdown and text: BuildReport.                                *)

Check(category, id, status, blocking) ==
    [category |-> category, id |-> <<id>>, status |-> status, blocking |-> blocking]

\* The check of one finding of a profile.
FindingCheck(f, status, blocking) ==
    [category |-> "obligation_profile", id |-> <<f.kind, f.id, f.names>>, status |-> status, blocking |-> blocking]

\* cryptoCategory: the chain check.
cryptoCategory(recs, valid) ==
    {Check("cryptographic_integrity", "canonicalization_profile", "pass", FALSE),
     Check("cryptographic_integrity", "hash_chain", IF recs # <<>> /\ valid THEN "pass" ELSE "fail", TRUE)}

\* The documents the checks look for are part of the binary, so that
\* findEvidencePath always finds them.
EvidenceChecks ==
    {Check("operational_safety", i, "pass", FALSE) : i \in {"security_policy", "incident_response", "security_docs"}}
    \cup {Check("test_coverage", i, "pass", FALSE) :
            i \in {"go_tests", "cross_language_oracle", "python_property_tests"}}
    \cup {Check("documentation", i, "pass", FALSE) : i \in {"quickstart", "ai_integration", "event_schema"}}

\* A plausible bug: a failure is only a warning.
profileVerificationCategoryAdvisory(result) ==
    {Check("obligation_profile", "profile_verification", "pass", TRUE)}
    \cup {FindingCheck(f, "warn", FALSE) : f \in result.failures \cup result.warnings}

\* profileVerificationCategory of a registered profile's result.
profileVerificationCategory(result) ==
    {Check("obligation_profile", "profile_verification", "pass", TRUE)}
    \cup {FindingCheck(f, "fail", TRUE) : f \in result.failures}
    \cup {FindingCheck(w, "warn", FALSE) : w \in result.warnings}

\* casProfileWarningCategory.
casProfileWarningCategory == {Check("completeness_assurance", "cas_profile", "warn", FALSE)}

\* anchorQualityLabel; "digest-only" wants a score of 0.4 that acScore never gives.
anchorQualityLabel(xc, ac) ==
    CASE xc = Unit /\ ac = Unit -> "verified"
      [] 10 * xc = Unit /\ ac = 0 -> "present-degraded"
      [] xc = 0 /\ ac = 0 -> "absent"
      [] OTHER -> "partial"

\* buildCASSection.
buildCASSection(p, recs, valid) ==
    [overall |-> computeCAS(p, recs, valid).overall, anchor |-> anchorQualityLabel(xcScore(recs), acScore(recs))]

NoSection == [overall |-> 0, anchor |-> "none"]

\* aggregateChecksStatus and aggregateStatus.
aggregateStatus(checks) ==
    LET statuses == {c.status : c \in checks}
    IN  IF "fail" \in statuses THEN "fail" ELSE IF "warn" \in statuses THEN "warn" ELSE "pass"

\* evaluateGate: the blocking checks that do not pass.
evaluateGate(checks) == {c \in checks : c.blocking /\ c.status # "pass"}

\* summarizeChecks.
summarizeChecks(checks) ==
    [s \in {"pass", "warn", "fail"} |-> Cardinality({c \in checks : c.status = s})]

\* loadRAGAnswerReportDetails: every response with an id has one of a request.
loadRAGAnswerReportDetails(recs) ==
    LET requests == {r.id : r \in All(recs, "request")} \ {""}
        responses == {r.id : r \in All(recs, "response")} \ {""}
    IN  [responsePresent |-> Present(recs, "response"), bound |-> responses # {} /\ responses \subseteq requests]

\* BuildReport for a profile id: "" for none, "file" for one that no registered
\* profile has.
BuildReport(p, checks, section) ==
    [format |-> "text", profile |-> p, status |-> aggregateStatus(checks),
     failed |-> evaluateGate(checks), summary |-> summarizeChecks(checks), cas |-> section, exit |-> 0]

Categories(p, recs, valid) ==
    cryptoCategory(recs, valid) \cup EvidenceChecks
    \cup (IF p \in {"", "file"} THEN {} ELSE profileVerificationCategory(ProfileResult(p, recs, FALSE)))
    \cup (IF p = "file" THEN casProfileWarningCategory ELSE {})

\* runTrustReport: a profile that is inferred is used only if it is the RAG one.
buildProfileID(named, recs) ==
    CASE named /\ target \in {"custom", "legacy"} -> "file"
      [] named /\ target \notin {"custom", "legacy"} -> target
      [] ~named /\ matchingProfiles(recs) = "rag" -> "rag"
      [] OTHER -> ""

RunTrustReport ==
    /\ report.done /\ report.flags \subseteq {"explicit"} /\ trust = NoTrust /\ deviations <= MaxReported
    /\ \E p \in {buildProfileID("explicit" \in report.flags, records)} :
         \E checks \in {Categories(p, records, intact)} :
           trust' = BuildReport(p, checks, IF p \in {"", "file"} THEN NoSection ELSE buildCASSection(p, records, intact))
                    @@ (IF p = "rag" THEN [rag |-> loadRAGAnswerReportDetails(records)] ELSE <<>>)
    /\ UNCHANGED verifyVars

TrustInit == VerifyInit /\ trust = NoTrust

TrustNext == (VerifyNext /\ UNCHANGED trust) \/ RunTrustReportJSON \/ RunTrustReport

-----------------------------------------------------------------------------
\* The JSON report passes, exits with 0, and has the risk, the gaps and the
\* score of `atb verify` for the same profile (TrustReportFromVerify against
\* evaluateLoadedBundle).
JSONAgreesWithVerify ==
    (trust.format = "json" /\ report.printed) =>
      /\ trust.pass <=> report.pass
      /\ trust.exit = 0 <=> report.pass
      /\ trust.risk = report.risk /\ trust.gaps = report.gaps
      /\ trust.scored => trust.overall = report.cas.overall

\* The sections come from the first record of a type, the verdict from rules
\* and relations: a passing report shows every section passed that the rules
\* of its profile stand behind, and a section never passes over a type the
\* bundle does not have (buildTrustSections).
SectionsFollowVerdict ==
    trust.format = "json" =>
      \A s \in DOMAIN trust.sections \cap {"request", "policy", "approval", "invoked", "scheduled"} :
        /\ trust.pass => trust.sections[s]
        /\ trust.sections[s] => Present(records, s)

\* A document signature that does not verify is reported as invalid exactly when
\* a failure or a warning says so (computePolicyDocSignatureValid and
\* inspectPolicyDecisionSignatures read the decisions separately).
DocSignaturesAgree ==
    (trust.format = "json" /\ report.printed /\ report.profile # "none") =>
      (trust.docs <=> ~\E f \in report.failures \cup report.warnings :
                         f.kind \in {"policy_doc_signature_verification", "policy_doc_signature_absent"})

\* The gate of the text report for a registered profile is the verifier's, a
\* failed gate is a failed status and the reverse, and every failure is counted
\* (evaluateGate, aggregateStatus and summarizeChecks go over the same checks).
TextAgreesWithVerify ==
    trust.format = "text" =>
      /\ (report.printed /\ trust.profile \notin {"", "file"}) => (trust.failed = {} <=> report.pass)
      /\ trust.failed = {} => intact
      /\ trust.failed # {} <=> trust.status = "fail"
      /\ trust.summary["fail"] = Cardinality(trust.failed)

\* "verified" is printed only for an anchor a timestamp authority stands behind,
\* although a corroboration raises the same score (anchorQualityLabel), and
\* "absent" only if there is no anchor record.
AnchorLabelIsTrue ==
    trust.format = "text" =>
      /\ trust.cas.anchor = "verified" => TSAVerified(records)
      /\ trust.cas.anchor = "absent" => ~Present(records, "anchor")

\* A RAG report confirms the binding of its responses exactly when the relation
\* of the profile holds for those that have an id (loadRAGAnswerReportDetails).
BindingAgrees ==
    ("rag" \in DOMAIN trust /\ report.printed /\ Present(records, "request")) =>
      /\ (report.pass /\ trust.rag.responsePresent) => trust.rag.bound
      /\ trust.rag.bound =>
           \/ ~\E f \in report.failures : f.kind = "relation_violation"
           \/ \E r \in All(records, "response") : r.id = ""

\* What a trust report says agrees with the verifier's report and with itself.
TrustReportAgrees ==
    /\ JSONAgreesWithVerify /\ SectionsFollowVerdict /\ DocSignaturesAgree
    /\ TextAgreesWithVerify /\ AnchorLabelIsTrue /\ BindingAgrees
=============================================================================
