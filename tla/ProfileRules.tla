---------------------------- MODULE ProfileRules ----------------------------
(***************************************************************************)
(* Obligation profiles: the built-in schemas (internal/profiles/templates),*)
(* the custom profile the documentation gives as an example of the DSL, a  *)
(* legacy file profile, and how a bundle's records are judged against them *)
(* (internal/profiles/evaluate.go, internal/verify/profile_loader.go).  The  *)
(* custom profile is the example of docs/evidence/profiles.md.             *)
(*                                                                         *)
(* A record is                                                             *)
(*   [type, id, word, time, lacks, proof]                                  *)
(* id    the request, action or job id, "" when the field is missing;      *)
(* word  the decision, outcome or purpose tag, "" when it is missing;      *)
(* time  minutes, NoTime without a timestamp, BadTime if it does not parse;*)
(* lacks how many of the other required fields are missing;                *)
(* proof what checking the record's signature, token or hash would find.   *)
(***************************************************************************)
EXTENDS Integers, Sequences, FiniteSets, SequencesExt

NoTime == -1
BadTime == -2

\* Every record of one type, in bundle order.
indexRecordsByType(recs, type) ==
    LET OfType(r) == r.type = type IN SelectSeq(recs, OfType)

Present(recs, type) == \E i \in DOMAIN recs : recs[i].type = type

\* A rule: the event type, how many fields it requires (key and word say that
\* the id and the word are among them), its severity, and the required_when
\* conditions [type, after, names].
Critical(type, n, key, word) ==
    [type |-> type, n |-> n, key |-> key, word |-> word, severity |-> "critical", when |-> {}]

Warning(type, n, key, word, when) ==
    [type |-> type, n |-> n, key |-> key, word |-> word, severity |-> "warning", when |-> when]

\* A relation; names are the event types its own message contains.
Relation(name, from, to, predicates, names) ==
    [name |-> name, from |-> from, to |-> to, predicates |-> predicates, names |-> names]

ManifestRule == Critical("manifest", 0, FALSE, FALSE)
RequestRule == Critical("request", 3, TRUE, TRUE)
PrecommitRule(type) == Critical(type, 5, TRUE, FALSE)
PolicyRule == Critical("policy", 6, TRUE, TRUE)
ExecutedRule(type) == Critical(type, 3, TRUE, FALSE)
Allowing == {[side |-> "to", equals |-> "allow"]}

\* Weights in hundredths, in the order EC FC RC TC SC XC AC GC.
Dimension == <<"EC", "FC", "RC", "TC", "SC", "XC", "AC", "GC">>
Weights(w) == [d \in Range(Dimension) |-> w[CHOOSE i \in DOMAIN w : Dimension[i] = d]]

PrivilegedToolAction ==
    [weights |-> Weights(<<20, 15, 20, 5, 10, 10, 10, 10>>), cas |-> TRUE, mode |-> "policy",
     required |-> <<ManifestRule, RequestRule, PrecommitRule("precommit"), PolicyRule,
                    ExecutedRule("executed"), ExecutedRule("committed")>>,
     optional |-> <<Warning("approval", 5, TRUE, TRUE,
                      {[type |-> "executed", after |-> TRUE, names |-> {"approval"}]})>>,
     relations |-> <<Relation("commit_requires_precommit", "committed", "precommit", {}, {"committed", "precommit"}),
                     Relation("policy_binds_action", "policy", "precommit", {}, {"policy", "precommit"}),
                     Relation("execution_after_authorization", "executed", "policy", Allowing, {"policy"})>>]

DataExport ==
    [weights |-> Weights(<<15, 10, 15, 10, 10, 20, 10, 10>>), cas |-> TRUE, mode |-> "policy",
     required |-> <<ManifestRule, RequestRule, PolicyRule, PrecommitRule("export_precommit"),
                    ExecutedRule("export_executed")>>,
     optional |-> <<Warning("approval", 5, TRUE, TRUE,
                      {[type |-> "export_executed", after |-> TRUE, names |-> {"approval"}]})>>,
     relations |-> <<Relation("policy_binds_action", "policy", "export_precommit", {}, {"policy", "export_precommit"}),
                     Relation("execution_after_authorization", "export_executed", "policy", Allowing, {"policy"})>>]

PolicyDecision ==
    [weights |-> Weights(<<15, 10, 15, 10, 25, 10, 10, 5>>), cas |-> TRUE, mode |-> "policy",
     required |-> <<ManifestRule, RequestRule, PolicyRule>>,
     optional |-> <<Warning("precommit", 3, TRUE, FALSE,
                      {[type |-> "request", after |-> TRUE, names |-> {"precommit", "request"}]})>>,
     relations |-> <<Relation("policy_binds_action", "policy", "precommit", {}, {"policy", "precommit"})>>]

HumanOverride ==
    [weights |-> Weights(<<15, 10, 20, 20, 10, 10, 5, 10>>), cas |-> TRUE, mode |-> "",
     required |-> <<ManifestRule, RequestRule, Critical("approval", 5, TRUE, TRUE),
                    PrecommitRule("precommit"), ExecutedRule("executed")>>,
     optional |-> <<Warning("committed", 3, TRUE, FALSE, {})>>,
     relations |-> <<Relation("approval_binds_action", "approval", "precommit", {}, {"approval", "precommit"}),
                     Relation("execution_after_approval", "executed", "approval", {}, {"approval"})>>]

BackgroundAutomation ==
    [weights |-> Weights(<<15, 10, 15, 10, 5, 20, 5, 20>>), cas |-> TRUE, mode |-> "",
     required |-> <<ManifestRule, Critical("scheduled", 4, TRUE, FALSE),
                    Critical("started", 3, TRUE, FALSE), Critical("completed", 3, TRUE, TRUE)>>,
     optional |-> <<Warning("step", 4, TRUE, FALSE, {})>>,
     relations |-> <<Relation("job_started_requires_scheduled", "started", "scheduled", {}, {"started", "scheduled"}),
                     Relation("job_completed_requires_started", "completed", "started", {}, {"completed", "started"})>>]

RAGAnswer ==
    [weights |-> Weights(<<25, 15, 15, 10, 15, 5, 5, 10>>), cas |-> TRUE, mode |-> "retrieval",
     required |-> <<ManifestRule, RequestRule, Critical("invoked", 4, FALSE, FALSE),
                    Critical("output", 2, FALSE, FALSE)>>,
     optional |-> <<Warning("policy", 4, FALSE, TRUE, {}), Warning("retrieval", 5, FALSE, FALSE, {}),
                    Warning("response", 2, TRUE, FALSE,
                      {[type |-> "invoked", after |-> TRUE, names |-> {"response", "invoked"}]})>>,
     relations |-> <<Relation("request_to_response", "response", "request", {}, {"response", "request"})>>]

\* The compiled form of the DSL example: no fields, no relations.
CustomSupport ==
    [weights |-> Weights(<<50, 25, 0, 0, 0, 15, 10, 0>>), cas |-> TRUE, mode |-> "",
     required |-> <<Critical("request", 0, FALSE, FALSE), Critical("precommit", 0, FALSE, FALSE),
                    Critical("executed", 0, FALSE, FALSE)>>,
     optional |-> <<Warning("committed", 0, FALSE, FALSE, {})>>,
     relations |-> <<>>]

Schemas ==
    [privileged |-> PrivilegedToolAction,
     data_export |-> DataExport,
     policy_decision |-> PolicyDecision,
     human_override |-> HumanOverride,
     background |-> BackgroundAutomation,
     rag |-> RAGAnswer,
     custom |-> CustomSupport]

\* How many of a rule's fields the record does not have.
missingFields(r, rule) ==
    IF rule.n = 0 THEN 0
    ELSE r.lacks + (IF rule.key /\ r.id = "" THEN 1 ELSE 0)
                 + (IF rule.word /\ r.word = "" THEN 1 ELSE 0)

\* A finding; names are the event types its message contains.
Finding(kind, id, names) == [kind |-> kind, id |-> id, names |-> names]

\* evaluateRequiredRule and evaluateOptionalRule: the type must occur, and the
\* first record of the type must have the rule's fields.
RuleFindings(rule, section, recs) ==
    LET rs == indexRecordsByType(recs, rule.type)
    IN  IF rs = <<>> THEN {Finding("missing_event", <<section, rule.type>>, {rule.type})}
        ELSE IF missingFields(rs[1], rule) > 0
        THEN {Finding("missing_field", <<"required", rule.type, "field">>, {rule.type})} ELSE {}

Satisfied(predicate, from, to) ==
    predicate.equals = (IF predicate.side = "from" THEN from ELSE to).word

\* A plausible bug: the decision of any action authorises every action.
evaluateRelationRuleAny(rel, recs) ==
    LET from == Range(indexRecordsByType(recs, rel.from))
        to == Range(indexRecordsByType(recs, rel.to))
    IN  IF from = {} \/ to = {} \/ \E f \in from, t \in to : \A p \in rel.predicates : Satisfied(p, f, t)
        THEN {} ELSE {Finding("relation_violation", <<"relation", rel.name>>, rel.names)}

\* evaluateRelationRule: every `from` record names an id that a `to` record
\* has; with predicates, one such record satisfies them all.  Nothing is
\* checked while either type is absent.  The message of a failed predicate
\* names the relation and no event type.
evaluateRelationRule(rel, recs) ==
    LET from == Range(indexRecordsByType(recs, rel.from))
        to == Range(indexRecordsByType(recs, rel.to))
        Linked(f) == {t \in to : f.id # "" /\ t.id = f.id}
        Holds(f) == \E t \in Linked(f) : \A p \in rel.predicates : Satisfied(p, f, t)
    IN  IF from = {} \/ to = {} THEN {}
        ELSE {Finding("relation_violation", <<"relation", rel.name>>, rel.names) :
                f \in {f \in from : Linked(f) = {}}}
             \cup {Finding("relation_violation", <<"relation", rel.name, "predicate">>, {}) :
                f \in {f \in from : Linked(f) # {} /\ ~Holds(f)}}

Timed(r) == r.time \notin {NoTime, BadTime}

\* evaluateRequiredWhenRules for one condition: a failure when the target is
\* absent or is only recorded before the condition's first record; a warning
\* when the timestamps do not tell.
RequiredWhen(rule, cond, recs) ==
    LET target == indexRecordsByType(recs, rule.type)
        when == indexRecordsByType(recs, cond.type)
        timed == {r \in Range(target) : Timed(r)}
        id == <<"required_when", rule.type, cond.type>>
        both == {rule.type, cond.type}
        None == [failures |-> {}, warnings |-> {}]
    IN  CASE when = <<>> -> None
          [] target = <<>> -> [None EXCEPT !.failures = {Finding("missing_event", id, cond.names)}]
          [] ~cond.after -> None
          [] ~Timed(when[1]) \/ timed = {} -> [None EXCEPT !.warnings = {Finding("timestamp", id, both)}]
          [] \A r \in timed : r.time < when[1].time ->
               [None EXCEPT !.failures = {Finding("temporal_violation", id, both)}]
          [] OTHER -> None

\* Evaluate: the rules, the relations and the conditional rules of a schema.
Evaluate(schema, recs) ==
    LET rules == Range(schema.required) \cup Range(schema.optional)
        Section(rule) == IF rule \in Range(schema.required) THEN "required" ELSE "optional"
        Of(severity) == UNION {RuleFindings(rule, Section(rule), recs) : rule \in {x \in rules : x.severity = severity}}
        when == {RequiredWhen(rule, cond, recs) :
                   <<rule, cond>> \in {<<x, c>> \in rules \X UNION {x.when : x \in rules} : c \in x.when}}
        failures == Of("critical")
                    \cup UNION {evaluateRelationRule(rel, recs) : rel \in Range(schema.relations)}
                    \cup UNION {w.failures : w \in when}
    IN  [failures |-> failures, warnings |-> Of("warning") \cup UNION {w.warnings : w \in when}]

\* The legacy file profile of the model: an executed action is critical, a
\* committed one is wanted, and a precommit precedes every execution.
Legacy == [critical |-> {"executed"}, required |-> {"committed"},
           relations |-> {[from |-> "precommit", to |-> "executed"]}]

\* relationSatisfied: some `from` record has a smaller sequence number than
\* each `to` record.
relationSatisfied(rel, recs) ==
    \A j \in DOMAIN recs : recs[j].type = rel.to => \E i \in 1..(j - 1) : recs[i].type = rel.from

\* externalProfile.Evaluate.
LegacyEvaluate(recs) ==
    [failures |-> {Finding("missing_event", <<"critical", t>>, {t}) :
                     t \in {t \in Legacy.critical : ~Present(recs, t)}}
                  \cup {Finding("relation_violation", <<"relation", r.from>>, {r.from, r.to}) :
                     r \in {r \in Legacy.relations : ~relationSatisfied(r, recs)}},
     warnings |-> {Finding("missing_event", <<"required", t>>, {t}) :
                     t \in {t \in Legacy.required : ~Present(recs, t)}}]
=============================================================================
