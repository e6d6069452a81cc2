--------------------------- MODULE ReportWorkflow ---------------------------
(***************************************************************************)
(* The audited report of one run, app/orchestration/report_workflow.py: a  *)
(* draft, its audit by an independent model, at most one revision that is  *)
(* audited again, and the safe degradation when no audit lets the report   *)
(* pass.  The model may answer anything, or fail.                          *)
(***************************************************************************)
EXTENDS Reporting

CONSTANTS Texts,         \* texts of root causes
          References,    \* whatever can be cited
          Contexts,      \* what a run may have to report on
          MaxRevisions,  \* ReportWorkflowConfig
          Objections,    \* issues the model may raise
          MaxIssues      \* bound of the issues of one answer

ASSUME WorkflowAssumption ==
    /\ MaxRevisions \in 0..1 /\ MaxIssues \in Nat \ {0}
    /\ \A issue \in Objections : issue.code \in IssueCodes /\ issue.field \in Fields

\* FaultHypothesis, RemediationStep and the context of a report, as far as it is read.
Hypothesis == [cause : Texts, status : {"candidate", "supported", "rejected"},
               supporting : SUBSET References, contradicting : SUBSET References]
Step == [risk : {"low", "medium", "high"}, refs : SUBSET References]
Context == [hypotheses : Seq(Hypothesis), evidence : SUBSET References,
            nodes : SUBSET References, paths : Seq(References), solutions : Seq(Step),
            cases : Seq(References), truncated : BOOLEAN]
ASSUME ContextsAssumption == Contexts \subseteq Context

VARIABLES context,   \* what the run has to report on
          draft,     \* draft_report
          audit,     \* audit_result: the issues it requires to be mended
          retry,     \* retry_count
          node,      \* the node that runs next, or how the graph ended
          outcome,   \* outcome
          endorsed   \* history: drafts the auditor has accepted

vars == <<context, draft, audit, retry, node, outcome, endorsed>>

-----------------------------------------------------------------------------
Nodes == {"draft_report", "audit_report", "revise_report", "degrade_report",
          "completed", "raised"}
NoReport == [causes |-> <<>>, chain |-> <<>>, steps |-> <<>>, similar |-> <<>>,
             refs |-> {}, notes |-> 0]

\* An answer of the model that requires a revision names issues, some perhaps twice.
Demands == [1..MaxIssues -> Objections]

Init ==
    /\ context \in Contexts
    /\ draft = NoReport
    /\ audit = {}
    /\ retry = 0
    /\ node = "draft_report"
    /\ outcome = "none"
    /\ endorsed = {}

DraftReport ==
    /\ node = "draft_report"
    /\ draft' = Build(context)
    /\ audit' = {}
    /\ node' = "audit_report"
    /\ UNCHANGED <<context, retry, outcome, endorsed>>

\* _merge_audit_result: what the policy finds is added to what the model says.
MergedTrusting(said, found) == said
Merged(said, found) == found \cup said

\* _route_after_audit, of an audit that requires a revision.
Route == IF retry < MaxRevisions THEN "revise_report" ELSE "degrade_report"

\* The model has answered, {} if it accepts; the policy found what it found.
AuditorAnswers(said, found) ==
    LET issues == Merged(said, found)
    IN  /\ node = "audit_report"
        /\ audit' = issues
        /\ node' = IF issues = {} THEN "completed" ELSE Route
        /\ outcome' = IF issues = {} THEN "accepted" ELSE outcome
        /\ endorsed' = IF said = {} THEN endorsed \cup {draft} ELSE endorsed
        /\ UNCHANGED <<context, draft, retry>>

\* AuditorAgentError: the report is degraded at once.
AuditorFails ==
    LET issues == {Issue("auditor_unavailable", "unknown", {})}
    IN  /\ node = "audit_report"
        /\ audit' = issues
        /\ draft' = Degrade(context, draft, issues)
        /\ node' = "completed"
        /\ outcome' = "degraded"
        /\ UNCHANGED <<context, retry, endorsed>>

\* An exception the node does not expect ends the run without a report.
AuditRaises ==
    /\ node = "audit_report"
    /\ node' = "raised"
    /\ UNCHANGED <<context, draft, audit, retry, outcome, endorsed>>

ReviseReport ==
    /\ node = "revise_report"
    /\ draft' = Revise(context, draft, audit)
    /\ audit' = {}
    /\ retry' = retry + 1
    /\ node' = "audit_report"
    /\ UNCHANGED <<context, outcome, endorsed>>

DegradeReport ==
    /\ node = "degrade_report"
    /\ draft' = Degrade(context, draft, audit)
    /\ node' = "completed"
    /\ outcome' = "degraded"
    /\ UNCHANGED <<context, audit, retry, endorsed>>

Next ==
    \/ DraftReport
    \/ LET found == Validate(context, draft)
       IN  \/ AuditorAnswers({}, found)
           \/ \E said \in Demands : AuditorAnswers(ToSet(said), found)
    \/ AuditorFails
    \/ AuditRaises
    \/ ReviseReport
    \/ DegradeReport

\* Every node but the audit is computed at once, and the client of the auditor
\* bounds its call: each node returns or raises.
Spec == Init /\ [][Next]_vars /\ WF_vars(Next)

-----------------------------------------------------------------------------
(* Properties.                                                             *)

\* The fields of a report, of its audit and of the state keep their types, and
\* there is never a second revision.
TypeOK ==
    /\ context \in Contexts
    /\ draft \in [causes : Seq([cause : Texts, refs : SUBSET References]),
                  chain : Seq([refs : SUBSET References]), steps : Seq(Step),
                  similar : Seq([case : References, refs : SUBSET References]),
                  refs : SUBSET References, notes : Nat]
    /\ \A issue \in audit : issue.code \in IssueCodes /\ issue.field \in Fields
    /\ retry \in 0..MaxRevisions
    /\ node \in Nodes
    /\ outcome \in {"none", "accepted", "degraded"}

\* A report leaves as accepted only if the auditor accepted this very report,
\* not the draft it was revised from, and the policy finds nothing in it.
AcceptedIsEndorsed ==
    outcome = "accepted" => draft \in endorsed /\ Validate(context, draft) = {}

\* A report that leaves otherwise claims nothing: no cause, no chain, no case,
\* no step but the read-only one, and it cites only what can be looked up.
DegradedClaimsNothing ==
    outcome = "degraded" =>
        /\ draft.causes = <<>> /\ draft.chain = <<>> /\ draft.similar = <<>>
        /\ draft.steps = <<ReadOnlyStep>>
        /\ draft.refs \subseteq ValidRefs(context)
        /\ draft.notes > 0

\* One revision mends all the policy objects to: whatever the model demanded
\* besides, only the model can refuse a revised report.
RevisedIsClean ==
    node = "audit_report" /\ retry > 0 => Validate(context, draft) = {}

\* After the first draft a report only shrinks: each cause keeps its text and
\* cites a part of what it cited, and nothing is cited that was not before.
OnlyNarrows ==
    [][node # "draft_report" =>
        /\ draft'.refs \subseteq draft.refs
        /\ \A i \in DOMAIN draft'.causes : \E j \in DOMAIN draft.causes :
              /\ draft'.causes[i].cause = draft.causes[j].cause
              /\ draft'.causes[i].refs \subseteq draft.causes[j].refs
        /\ ToSet(draft'.similar) \subseteq ToSet(draft.similar)
        /\ ToSet(draft'.steps) \subseteq ToSet(draft.steps) \cup {ReadOnlyStep}]_vars

\* A revision removes what an issue names and no more: of the causes of the
\* draft, in their order, those stay that no issue blames, which is an issue that
\* removes claims and points at this cause, at all causes, or at nothing the
\* reviser can find.  An objection to the summary, which is derived, is none; and
\* of two causes that are alike only the one that is blamed goes.
RemovalIsPrecise ==
    [][node = "revise_report" =>
        LET Blamed(i) == \E issue \in audit :
                /\ issue.code \in ClaimRemovingCodes
                /\ \/ issue.field = "unknown"
                   \/ issue.field = "root_causes" /\ issue.items = {}
                   \/ issue.field = "root_causes" /\ i \in issue.items
        IN  draft'.causes =
                Selected(draft.causes, {i \in DOMAIN draft.causes : ~Blamed(i)})]_vars

\* Every report is decided, or its graph raised.
Decides == <>(node \in {"completed", "raised"})
=============================================================================
