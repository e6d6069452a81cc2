----------------------------- MODULE Reporting -----------------------------
(***************************************************************************)
(* The deterministic services of app/reporting: what the first draft of a  *)
(* report holds, what the policy finds wrong with a report, and how one is *)
(* narrowed or degraded.                                                   *)
(*                                                                         *)
(* A context is what one run has to report on: its hypotheses, the         *)
(* observations and other references it may cite, the graph paths, the     *)
(* solutions and the confirmed cases that were retrieved.  Texts are left  *)
(* out but for that of a root cause, by which the policy finds the         *)
(* hypothesis; uncertainties are counted.                                  *)
(***************************************************************************)
EXTENDS Integers, HypothesisUpdates, Selections

\* _CLAIM_REMOVING_CODES
ClaimRemovingCodes == {"unsupported_claim", "evidence_conflict", "unconfirmed_case",
                       "missing_risk_control"}
IssueCodes == ClaimRemovingCodes
                \cup {"invalid_evidence_ref", "report_incomplete", "auditor_unavailable"}

\* A claim path: a field and the items of it, none for the field as a whole.
\* "unknown" stands for every path the reviser cannot parse.
DerivedFields == {"summary", "risks", "evidence_refs"}
ListFields == {"root_causes", "fault_chain", "remediation_steps", "similar_cases",
               "uncertainties"}
Fields == DerivedFields \cup ListFields \cup {"unknown"}

Issue(code, field, items) == [code |-> code, field |-> field, items |-> items]

RefsOf(list) == UNION {list[i].refs : i \in DOMAIN list}

\* The references of every list of a report.
ClaimedRefs(r) ==
    RefsOf(r.causes) \cup RefsOf(r.chain) \cup RefsOf(r.steps) \cup RefsOf(r.similar)

\* _aggregate_refs: a report lists what its parts cite.
Report(lists, notes) ==
    [causes |-> lists.causes, chain |-> lists.chain, steps |-> lists.steps,
     similar |-> lists.similar, refs |-> ClaimedRefs(lists), notes |-> notes]

ReadOnlyStep == [risk |-> "low", refs |-> {}]

-----------------------------------------------------------------------------
(* The draft.                                                              *)

\* collect_valid_reference_ids
ValidRefs(ctx) ==
    ctx.evidence \cup ctx.nodes \cup ToSet(ctx.paths) \cup RefsOf(ctx.solutions)
      \cup ToSet(ctx.cases)

\* explain_case_matches, of a case this run recalled.
Expected(ctx, c) == [case |-> c, refs |-> {c} \cup ctx.evidence]

Supported(ctx) ==
    Selected(ctx.hypotheses,
             {i \in DOMAIN ctx.hypotheses : ctx.hypotheses[i].status = "supported"})

Reportable(ctx, h) ==
    /\ h.contradicting \cap ValidRefs(ctx) = {}
    /\ h.supporting \cap ValidRefs(ctx) # {}

Reported(ctx) ==
    Selected(Supported(ctx), {i \in DOMAIN Supported(ctx) : Reportable(ctx, Supported(ctx)[i])})

\* The solutions and the document sections the bundle kept, or a read-only check.
RemediationSteps(ctx) ==
    IF ctx.solutions = <<>> THEN <<ReadOnlyStep>> ELSE ctx.solutions

Build(ctx) ==
    LET reported == Reported(ctx)
        lists == [causes  |-> [i \in DOMAIN reported |->
                                 [cause |-> reported[i].cause,
                                  refs |-> reported[i].supporting \cap ValidRefs(ctx)]],
                  chain   |-> [i \in DOMAIN ctx.paths |-> [refs |-> {ctx.paths[i]}]],
                  steps   |-> RemediationSteps(ctx),
                  similar |-> [i \in DOMAIN ctx.cases |-> Expected(ctx, ctx.cases[i])]]
    IN  Report(lists, Len(Supported(ctx)) - Len(reported)
                        + (IF reported = <<>> THEN 1 ELSE 0)
                        + (IF ctx.truncated THEN 1 ELSE 0)
                        + (IF ctx.cases # <<>> THEN 1 ELSE 0))

-----------------------------------------------------------------------------
(* The policy.                                                             *)

InvalidReferences(ctx, r) ==
    LET Dangling(list, field) ==
            {Issue("invalid_evidence_ref", field, {i}) :
                i \in {j \in DOMAIN list : ~(list[j].refs \subseteq ValidRefs(ctx))}}
    IN  Dangling(r.causes, "root_causes") \cup Dangling(r.chain, "fault_chain")
          \cup Dangling(r.steps, "remediation_steps")
          \cup Dangling(r.similar, "similar_cases")
          \cup {Issue("invalid_evidence_ref", "evidence_refs", {}) :
                  ref \in r.refs \ ValidRefs(ctx)}
          \cup {Issue("report_incomplete", "evidence_refs", {}) :
                  ref \in ClaimedRefs(r) \ r.refs}

\* The dictionary of hypotheses by their root cause keeps the last of each.
HypothesisFor(ctx, cause) ==
    LET same == {i \in DOMAIN Supported(ctx) : Supported(ctx)[i].cause = cause}
    IN  IF same = {} THEN None
        ELSE Supported(ctx)[CHOOSE i \in same : \A j \in same : j <= i]

RootCauseIssues(ctx, r) ==
    LET owner(i) == HypothesisFor(ctx, r.causes[i].cause)
        Unsupported(i) ==
            \/ owner(i) = None
            \/ owner(i).supporting \cap ValidRefs(ctx) \cap r.causes[i].refs = {}
        Contradicted(i) ==
            owner(i) # None /\ owner(i).contradicting \cap ValidRefs(ctx) # {}
    IN  {Issue("unsupported_claim", "root_causes", {i}) :
            i \in {j \in DOMAIN r.causes : Unsupported(j)}}
          \cup {Issue("evidence_conflict", "root_causes", {i}) :
                  i \in {j \in DOMAIN r.causes : Contradicted(j)}}

\* Every step is built with its preconditions.
RiskControlIssues(r) ==
    {Issue("missing_risk_control", "remediation_steps", {i}) :
        i \in {j \in DOMAIN r.steps : r.steps[j].risk = "high" /\ r.steps[j].refs = {}}}

CaseIssues(ctx, r) ==
    LET Known(i) == r.similar[i].case \in ToSet(ctx.cases)
    IN  {Issue("unconfirmed_case", "similar_cases", {i}) :
            i \in {j \in DOMAIN r.similar : ~Known(j)}}
          \cup {Issue("evidence_conflict", "similar_cases", {i}) :
                  i \in {j \in DOMAIN r.similar :
                            Known(j) /\ r.similar[j] # Expected(ctx, r.similar[j].case)}}

CompletenessIssues(r) ==
    LET Unexplained(list, field) ==
            IF list = <<>> /\ r.notes = 0 THEN {Issue("report_incomplete", field, {})}
            ELSE {}
    IN  Unexplained(r.causes, "uncertainties") \cup Unexplained(r.steps, "remediation_steps")

Validate(ctx, r) ==
    InvalidReferences(ctx, r) \cup RootCauseIssues(ctx, r) \cup RiskControlIssues(r)
      \cup CaseIssues(ctx, r) \cup CompletenessIssues(r)

-----------------------------------------------------------------------------
(* Revision and degradation.                                               *)

Removing(issues) == {issue \in issues : issue.code \in ClaimRemovingCodes}

\* An issue with a path nobody can follow: which claim is wrong is not known.
WholesaleDerived(issues) ==
    \E issue \in Removing(issues) : issue.field \notin ListFields
Wholesale(issues) ==
    \E issue \in Removing(issues) : issue.field \notin DerivedFields \cup ListFields

\* _removal_targets: the items 1..n of a field to be removed.
TargetsShifted(issues, field, n) ==
    LET named == {issue \in Removing(issues) : issue.field = field}
        whole == \/ \E issue \in named : issue.items = {}
                 \/ Wholesale(issues) /\ field \in {"root_causes", "fault_chain"}
                 \/ Wholesale(issues) /\ field = "similar_cases" /\ named = {}
    IN  IF whole THEN 1..n
        ELSE {i \in 1..n : \E issue \in named : i - 1 \in issue.items}
Targets(issues, field, n) ==
    LET named == {issue \in Removing(issues) : issue.field = field}
        whole == \/ \E issue \in named : issue.items = {}
                 \/ Wholesale(issues) /\ field \in {"root_causes", "fault_chain"}
                 \/ Wholesale(issues) /\ field = "similar_cases" /\ named = {}
    IN  IF whole THEN 1..n
        ELSE {i \in 1..n : \E issue \in named : i \in issue.items}

\* _survivors, with their references trimmed to the valid ones.
Survivors(ctx, issues, list, field) ==
    Selected([i \in DOMAIN list |-> [list[i] EXCEPT !.refs = @ \cap ValidRefs(ctx)]],
             DOMAIN list \ Targets(issues, field, Len(list)))

\* The claims that still cite something.
Grounded(list) == Selected(list, {i \in DOMAIN list : list[i].refs # {}})

\* The steps that are still allowed; one is left in any case.
Allowable(list) ==
    LET steps == Selected(list, {i \in DOMAIN list : list[i].risk # "high" \/ list[i].refs # {}})
    IN  IF steps = <<>> THEN <<ReadOnlyStep>> ELSE steps

Revise(ctx, r, issues) ==
    LET causes == Grounded(Survivors(ctx, issues, r.causes, "root_causes"))
        chain == Grounded(Survivors(ctx, issues, r.chain, "fault_chain"))
        lists == [causes  |-> causes,
                  chain   |-> chain,
                  steps   |-> Allowable(Survivors(ctx, issues, r.steps, "remediation_steps")),
                  similar |-> Survivors(ctx, issues, r.similar, "similar_cases")]
        left == r.notes - Cardinality(Targets(issues, "uncertainties", r.notes))
        narrowed == \/ causes = <<>> /\ chain = <<>>
                    \/ Len(causes) < Len(r.causes) \/ Len(chain) < Len(r.chain)
    IN  Report(lists, IF narrowed \/ left = 0 THEN left + 1 ELSE left)

DegradeKeepsCases(ctx, r, issues) ==
    [causes |-> <<>>, chain |-> <<>>, steps |-> <<ReadOnlyStep>>, similar |-> r.similar,
     refs |-> r.refs \cap ValidRefs(ctx),
     notes |-> 1 + Cardinality({issue.code : issue \in issues})]
DegradeCitesAll(ctx, r, issues) ==
    [causes |-> <<>>, chain |-> <<>>, steps |-> <<ReadOnlyStep>>, similar |-> <<>>,
     refs |-> ValidRefs(ctx),
     notes |-> 1 + Cardinality({issue.code : issue \in issues})]
Degrade(ctx, r, issues) ==
    [causes |-> <<>>, chain |-> <<>>, steps |-> <<ReadOnlyStep>>, similar |-> <<>>,
     refs |-> r.refs \cap ValidRefs(ctx),
     notes |-> 1 + Cardinality({issue.code : issue \in issues})]
=============================================================================
