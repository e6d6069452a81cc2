-------------------------- MODULE MCReportWorkflow --------------------------
(* A small instance of ReportWorkflow for TLC: what runs may report on.    *)
EXTENDS ReportWorkflow

CONSTANTS e1, e2, gone, kn, path, sop, old, c1, c2

\* The loop supports a hypothesis by what it observed; e1 and e2 are observed,
\* gone was, by a run whose observations are no longer held, kn is a document.
Hyp(c, for, against) == [cause |-> c, status |-> "supported",
                         supporting |-> for, contradicting |-> against]
Rejected == [cause |-> c1, status |-> "rejected",
             supporting |-> {e1}, contradicting |-> {e2}]

HypothesesSeen ==
    { <<>>, <<Rejected>>,
      <<Hyp(c1, {gone}, {})>>,
      <<Hyp(c1, {e1}, {gone}), Hyp(c2, {e2, kn}, {})>>,
      <<Hyp(c1, {e1}, {e2}), Hyp(c2, {e2, gone}, {})>>,
      \* two hypotheses of one text
      <<Hyp(c1, {e1}, {}), Rejected, Hyp(c1, {e2}, {})>>,
      <<Hyp(c1, {e1}, {}), Hyp(c1, {e1}, {e2})>>,
      <<Hyp(c1, {e1}, {}), Hyp(c1, {gone}, {}), Hyp(c2, {kn}, {})>>,
      \* the same cause twice, for the same reason
      <<Hyp(c1, {e1}, {}), Hyp(c1, {e1}, {}), Hyp(c2, {e2}, {})>> }

Sources == { [paths |-> <<>>, solutions |-> <<>>, cases |-> <<>>, truncated |-> FALSE],
             [paths |-> <<path>>, solutions |-> <<[risk |-> "high", refs |-> {sop}]>>,
              cases |-> <<old>>, truncated |-> TRUE] }

MCReferences == {e1, e2, gone, kn, path, sop, old}

MCContexts ==
    {[hypotheses |-> h, evidence |-> {e1, e2}, nodes |-> {kn},
      paths |-> s.paths, solutions |-> s.solutions, cases |-> s.cases,
      truncated |-> s.truncated] : h \in HypothesesSeen, s \in Sources}

\* One code of those that remove claims and one of the others; a path that is
\* derived from the rest, one that cannot be parsed, and items of each list.
MCObjections ==
    {Issue("unsupported_claim", f, {}) : f \in {"summary", "unknown"}}
      \cup {Issue("unsupported_claim", f, items) :
              f \in ListFields, items \in {{}, {1}, {2, 3}}}
      \cup {Issue("report_incomplete", "root_causes", {})}
=============================================================================
