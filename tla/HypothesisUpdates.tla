-------------------------- MODULE HypothesisUpdates --------------------------
(***************************************************************************)
(* How the updates of a planner decision are merged into the hypotheses of *)
(* a run, _project_hypothesis_updates of app/orchestration/react_loop.py.  *)
(***************************************************************************)
EXTENDS SequencesExt

CONSTANT None   \* an absent field

\* _projected_hypothesis_status
ProjectedStatusTrusting(status, supporting, observed) ==
    CASE status = "rejected" -> "rejected"
      [] status = "weakened" -> "candidate"
      [] OTHER -> IF supporting # {} THEN "supported" ELSE "candidate"
ProjectedStatus(status, supporting, observed) ==
    CASE status = "rejected" -> "rejected"
      [] status = "weakened" -> "candidate"
      [] OTHER -> IF supporting \cap observed # {} THEN "supported" ELSE "candidate"

Opened(hyps, u) ==
    IF u.status = "new" /\ \A i \in DOMAIN hyps : hyps[i].id # u.id
    THEN Append(hyps, [id |-> u.id, cause |-> u.cause, status |-> "candidate",
                       supporting |-> {}, contradicting |-> {}])
    ELSE hyps

Updated(h, u, observed) ==
    LET against == u.status \in {"weakened", "rejected"}
        supporting == h.supporting \cup (IF against THEN {} ELSE u.refs)
    IN  [h EXCEPT !.cause = IF u.cause = None THEN @ ELSE u.cause,
                  !.supporting = supporting,
                  !.contradicting = @ \cup (IF against THEN u.refs ELSE {}),
                  !.status = ProjectedStatus(u.status, supporting, observed)]

\* One round of _project_hypothesis_updates; an update of an unknown hypothesis
\* that is not new changes nothing.
Projected(hyps, u, observed) ==
    [i \in DOMAIN Opened(hyps, u) |->
        LET h == Opened(hyps, u)[i]
        IN  IF h.id = u.id THEN Updated(h, u, observed) ELSE h]

ProjectUpdates(hyps, us, observed) ==
    LET after[n \in 0..Len(us)] ==
            IF n = 0 THEN hyps ELSE Projected(after[n - 1], us[n], observed)
    IN  after[Len(us)]
=============================================================================
