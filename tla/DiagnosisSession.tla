-------------------------- MODULE DiagnosisSession --------------------------
(***************************************************************************)
(* The turns of one diagnosis session: a run restores the checkpoint of    *)
(* the last completed one, recalls confirmed cases if the user asked for   *)
(* history, investigates, compares the cases with what it found, reports,  *)
(* stages a case memory and saves the next checkpoint                      *)
(* (app/orchestration/diagnosis_workflow.py, app/memory/checkpoint.py,     *)
(* app/memory/matcher.py, app/capabilities).                               *)
(*                                                                         *)
(* The planner loop and the audit are those of ReactLoop and               *)
(* ReportWorkflow, reduced to what they hand on; that the runs of a        *)
(* session do not overlap is RunQueue's.  Other requests decide and delete *)
(* cases at any time, and a run may fail at any stage.                     *)
(***************************************************************************)
EXTENDS Reporting

CONSTANTS Queries,        \* a tool and its arguments but for the trace_id
          Components, ComponentOf,   \* the component the tool belongs to
          Hypotheses,     \* hypothesis identities
          Causes,         \* root causes; a case is named by its own (memory_signature)
          Requests,       \* the capability requests that come
          Bundles,        \* what retrieval may find, as sets of references
          Objections,     \* what the auditor may demand
          Verdicts,       \* the update statuses a planner may use
          WindowEvidence, WindowEvents, WindowHypotheses,   \* CHECKPOINT_MAX_...
          CitedObservations,   \* realtime_refs[:7]
          RecallLimit,    \* memory_search_limit
          Turns, MaxCalls, MaxItems, MaxAttempts, MaxRefs   \* bounds of the instance

ASSUME SessionAssumption ==
    /\ ComponentOf \in [Queries -> Components]
    /\ {WindowEvidence, WindowEvents, WindowHypotheses} \subseteq Nat \ {0}
    /\ RecallLimit \in Nat \ {0} /\ CitedObservations \in Nat
    /\ {Turns, MaxItems, MaxAttempts} \subseteq Nat

VARIABLES cases,       \* case memories, changed by every session and request
          checkpoint,  \* session_checkpoints, None before the first completed run
          turn,        \* number of the run
          stage,       \* where the run is, "idle" between runs
          request,     \* capability_request
          bundle,      \* evidence_bundle
          state,       \* AgentState: hypotheses, evidence and tool events
          recalled,    \* recalled_memories
          matches,     \* history_case_matches
          report,      \* draft_report and its outcome
          memory,      \* memory_stage
          log          \* history: what the completed runs observed, in order

run == <<request, bundle, state, recalled, matches, report, memory>>
vars == <<cases, checkpoint, turn, stage, run, log>>

-----------------------------------------------------------------------------
(* The parts of a run.                                                     *)

\* "open" stands for pending and rejected: stored, and not to be recalled.
Statuses == {"absent", "open", "confirmed"}
Confirmed == {c \in Causes : cases[c] = "confirmed"}
Observation == (1..Turns) \X Queries \X (1..MaxItems)
Event == (1..Turns) \X Queries \X (1..MaxAttempts)

\* A case and an observation never have the same identity.
ASSUME IdentityAssumption == Causes \cap Observation = {}

Request == [components : SUBSET Components \ {{}}, history : BOOLEAN]
ASSUME RequestAssumption == Requests \subseteq Request

\* What a run may cite: observations, retrieved evidence and past cases.
References == Observation \cup (UNION Bundles) \cup Causes

Hypothesis == [id : Hypotheses, cause : Causes,
               status : {"candidate", "supported", "rejected"},
               supporting : SUBSET References, contradicting : SUBSET References]
AgentState == [hypotheses : Seq(Hypothesis), evidence : Seq(Observation), events : Seq(Event)]
RootCause == [cause : Causes, refs : SUBSET References]
CaseMatch == [case : Causes, conflict : BOOLEAN, refs : SUBSET References]
Outcome == [outcome : {"none", "accepted", "degraded"}, causes : Seq(RootCause),
            similar : Seq(CaseMatch), refs : SUBSET References]
SessionCheckpoint == [version : Nat, hypotheses : Seq(Hypothesis), evidence : Seq(Observation),
                      events : Seq(Event), report : Outcome]
ASSUME NoneAssumption == None \notin SessionCheckpoint

\* CapabilityRegistry.select: the tools are cut to the requested components.
Allowed(req) == {q \in Queries : ComponentOf[q] \in req.components}

Fingerprints(events) == {events[i][2] : i \in DOMAIN events}

\* collect_valid_reference_ids, by way of the context of the report.
Context(st, nodes, list) ==
    [hypotheses |-> st.hypotheses, evidence |-> ToSet(st.evidence), nodes |-> nodes,
     paths |-> <<>>, solutions |-> <<>>, cases |-> list, truncated |-> FALSE]

\* _bounded_tail
HeadOf(seq, limit) == SubSeq(seq, 1, IF Len(seq) < limit THEN Len(seq) ELSE limit)
TailOf(seq, limit) == IF Len(seq) <= limit THEN seq
                      ELSE SubSeq(seq, Len(seq) - limit + 1, Len(seq))

NoState == [hypotheses |-> <<>>, evidence |-> <<>>, events |-> <<>>]
NoRequest == [components |-> {}, history |-> FALSE]
NoOutcome == [outcome |-> "none", causes |-> <<>>, similar |-> <<>>, refs |-> {}]

\* restore_agent_state: what the planner is given of the former turns; budgets,
\* decisions and the report start anew.
RestoreFactsOnly(cp) ==
    IF cp = None THEN NoState
    ELSE [hypotheses |-> cp.hypotheses, evidence |-> cp.evidence, events |-> <<>>]
Restore(cp) ==
    IF cp = None THEN NoState
    ELSE [hypotheses |-> cp.hypotheses, evidence |-> cp.evidence, events |-> cp.events]

\* build_session_checkpoint
Checkpoint(version, st, r) ==
    [version    |-> version,
     hypotheses |-> TailOf(st.hypotheses, WindowHypotheses),
     evidence   |-> TailOf(st.evidence, WindowEvidence),
     events     |-> TailOf(st.events, WindowEvents),
     report     |-> r]

\* explain_case_matches: a recalled case against what a state holds.
Live(hyps) == {hyps[i].cause : i \in {j \in DOMAIN hyps : hyps[j].status # "rejected"}}
Conflicts(c, hyps) == Live(hyps) # {} /\ c \notin Live(hyps)
Explain(list, st) ==
    [i \in DOMAIN list |->
        [case     |-> list[i],
         conflict |-> Conflicts(list[i], st.hypotheses),
         refs     |-> {list[i]} \cup ToSet(HeadOf(st.evidence, CitedObservations))]]

-----------------------------------------------------------------------------
Init ==
    /\ cases \in [Causes -> {"absent", "confirmed"}]
    /\ checkpoint = None
    /\ turn = 0
    /\ stage = "idle"
    /\ request = NoRequest
    /\ bundle = {}
    /\ state = NoState
    /\ recalled = <<>>
    /\ matches = <<>>
    /\ report = NoOutcome
    /\ memory = None
    /\ log = [evidence |-> <<>>, events |-> <<>>]

\* The run is over, and what it held is dropped.
Clear ==
    /\ stage' = "idle"
    /\ request' = NoRequest
    /\ bundle' = {}
    /\ state' = NoState
    /\ recalled' = <<>>
    /\ matches' = <<>>
    /\ report' = NoOutcome
    /\ memory' = None

\* The checkpoint is read, evidence retrieved, and the state restored.
Begin ==
    /\ stage = "idle"
    /\ turn < Turns
    /\ turn' = turn + 1
    /\ stage' = "recall"
    /\ request' \in Requests
    /\ bundle' \in Bundles
    /\ state' = Restore(checkpoint)
    /\ UNCHANGED <<cases, checkpoint, recalled, matches, report, memory, log>>

\* What search may answer: the confirmed cases nearest to the query.
Answers == {list \in BoundedSeq(Confirmed, RecallLimit) : IsInjective(list)}

RecallAlways ==
    /\ stage = "recall"
    /\ recalled' \in Answers
    /\ matches' = Explain(recalled', state)
    /\ stage' = "react"
    /\ UNCHANGED <<cases, checkpoint, turn, request, bundle, state, report, memory, log>>

\* _recall_case_memories, and the comparison _run_react makes for the planner.
Recall ==
    /\ stage = "recall"
    /\ IF request.history THEN recalled' \in Answers ELSE recalled' = <<>>
    /\ matches' = Explain(recalled', state)
    /\ stage' = "react"
    /\ UNCHANGED <<cases, checkpoint, turn, request, bundle, state, report, memory, log>>

\* An update of the hypotheses cites valid references only.
Update ==
    [id : Hypotheses, status : Verdicts, cause : Causes,
     refs : {R \in SUBSET ValidRefs(Context(state, bundle, recalled)) :
                Cardinality(R) <= MaxRefs}]

\* The state with the hypotheses the decisions of the run leave.
Decided ==
    {state} \cup {[state EXCEPT !.hypotheses =
                     ProjectUpdates(@, <<u>>, ToSet(state.evidence))] : u \in Update}

CallsMade == Cardinality({q \in Queries : \E i \in DOMAIN state.events :
                            state.events[i][1] = turn /\ state.events[i][2] = q})

\* A call the gates let pass, made once or again after a failure, with what
\* its answer holds: every attempt is an event.
Call(q, attempts, items) ==
    /\ stage = "react"
    /\ CallsMade < MaxCalls
    /\ q \in Allowed(request)
    /\ q \notin Fingerprints(state.events)
    /\ state' = [state EXCEPT !.evidence = @ \o [i \in 1..items |-> <<turn, q, i>>],
                              !.events = @ \o [i \in 1..attempts |-> <<turn, q, i>>]]
    /\ UNCHANGED <<cases, checkpoint, turn, stage, request, bundle, recalled, matches, report,
                   memory, log>>

KeepComparison(final) == matches' = matches
\* _explain_case_matches: the comparison is made again, with the final state.
Compare(final) == matches' = Explain(recalled, final)

\* The loop stops, perhaps with a last update of the hypotheses.
Stop(final) ==
    /\ stage = "react"
    /\ state' = final
    /\ Compare(final)
    /\ stage' = "report"
    /\ UNCHANGED <<cases, checkpoint, turn, request, bundle, recalled, report, memory, log>>

\* A report as the run keeps it: what it says of a case is its comparison.
Kept(outcome, r) ==
    LET similar == Selected(matches, {k \in DOMAIN matches :
                       \E i \in DOMAIN r.similar : r.similar[i].case = matches[k].case})
    IN  [outcome |-> outcome, causes |-> r.causes, similar |-> similar,
         refs |-> RefsOf(r.causes) \cup RefsOf(similar)]

\* _run_report: the draft or its revision is accepted, which the policy allows
\* only without an issue, or the report is degraded.
WriteReport ==
    LET ctx == Context(state, bundle, recalled)
        draft == Build(ctx)
    IN  /\ stage = "report"
        /\ \/ \E r \in {draft} \cup {Revise(ctx, draft, {issue}) : issue \in Objections} :
                /\ Validate(ctx, r) = {}
                /\ report' = Kept("accepted", r)
           \/ report' = Kept("degraded", Degrade(ctx, draft, Objections))
        /\ stage' = "stage"
        /\ UNCHANGED <<cases, checkpoint, turn, request, bundle, state, recalled, matches,
                       memory, log>>

\* stage_from_report: an accepted report with a root cause becomes a case that
\* waits for the user, or is merged into the one that is known.
StageMemory ==
    /\ stage = "stage"
    /\ stage' = "save"
    /\ IF report.outcome # "accepted" THEN memory' = "not_accepted" /\ UNCHANGED cases
       ELSE IF report.causes = <<>> THEN memory' = "no_root_cause" /\ UNCHANGED cases
       ELSE \E i \in DOMAIN report.causes :
                LET c == report.causes[i].cause
                IN  \/ /\ cases[c] # "absent"
                       /\ memory' = "merged"
                       /\ UNCHANGED cases
                    \/ /\ cases[c] = "absent"
                       /\ \E k \in Causes : k # c /\ cases[k] # "absent"
                       /\ memory' = "merged"
                       /\ UNCHANGED cases
                    \/ /\ cases[c] = "absent"
                       /\ memory' = "staged"
                       /\ cases' = [cases EXCEPT ![c] = "open"]
    /\ UNCHANGED <<checkpoint, turn, request, bundle, state, recalled, matches, report, log>>

\* validate_cross_stage_consistency, and the order the planner and the auditor
\* require of the comparisons.
StagesAgree ==
    /\ ~request.history => recalled = <<>> /\ matches = <<>>
    /\ [i \in DOMAIN matches |-> matches[i].case] = recalled
    /\ (report.outcome = "degraded") = (memory = "not_accepted")

\* For the history: what this run added to what it restored.
OfThisTurn(entries) ==
    Selected(entries, {i \in DOMAIN entries : entries[i][1] = turn})

\* complete_run; a result whose stages do not agree is refused.
Save ==
    /\ stage = "save"
    /\ IF StagesAgree
       THEN /\ checkpoint' = Checkpoint(IF checkpoint = None THEN 1 ELSE checkpoint.version + 1,
                                        state, report)
            /\ log' = [evidence |-> log.evidence \o OfThisTurn(state.evidence),
                       events   |-> log.events \o OfThisTurn(state.events)]
            /\ Clear
       ELSE /\ stage' = "refused"
            /\ UNCHANGED <<checkpoint, log, run>>
    /\ UNCHANGED <<cases, turn>>

SavingWhatThereIs ==
    /\ stage \notin {"idle", "refused"}
    /\ Clear
    /\ checkpoint' = IF state = NoState THEN checkpoint
                     ELSE Checkpoint(IF checkpoint = None THEN 1 ELSE checkpoint.version + 1,
                                     state, report)
    /\ UNCHANGED <<cases, turn, log>>

\* The run fails or is cancelled: the checkpoint stays as it was.
Fail ==
    /\ stage \notin {"idle", "refused"}
    /\ Clear
    /\ UNCHANGED <<cases, checkpoint, turn, log>>

\* Requests of the users, about cases of any session.
Decide(c, status) ==
    /\ cases[c] # "absent"
    /\ cases[c] # status
    /\ cases' = [cases EXCEPT ![c] = status]
    /\ UNCHANGED <<checkpoint, turn, stage, run, log>>

DecideSome ==
    \E c \in Causes, status \in Statuses : Decide(c, status)

Next ==
    \/ Begin \/ Recall
    \/ \E q \in Queries, attempts \in 1..MaxAttempts, items \in 0..MaxItems :
            Call(q, attempts, items)
    \/ \E decided \in Decided : Stop(decided)
    \/ WriteReport \/ StageMemory \/ Save \/ Fail \/ DecideSome

Spec == Init /\ [][Next]_vars

-----------------------------------------------------------------------------
(* Properties.                                                             *)

\* What the fields of a run, its checkpoint and the history may hold.
TypeOK ==
    /\ cases \in [Causes -> Statuses]
    /\ checkpoint \in SessionCheckpoint \cup {None}
    /\ turn \in 0..Turns
    /\ stage \in {"idle", "recall", "react", "report", "stage", "save", "refused"}
    /\ request \in Request \cup {NoRequest}
    /\ bundle \in Bundles \cup {{}}
    /\ state \in AgentState
    /\ recalled \in Seq(Causes)
    /\ matches \in Seq(CaseMatch)
    /\ report \in Outcome
    /\ memory \in {None, "not_accepted", "no_root_cause", "merged", "staged"}
    /\ log \in [evidence : Seq(Observation), events : Seq(Event)]

\* A checkpoint holds the end of what the completed runs of the session did,
\* however many there were and whatever the failed ones in between did: the
\* windows are cut again and again, but nothing recent is lost and nothing of
\* a failed run is kept.
WindowIsRecent ==
    checkpoint # None =>
        /\ checkpoint.evidence = TailOf(log.evidence, WindowEvidence)
        /\ checkpoint.events = TailOf(log.events, WindowEvents)

\* A follow-up does not ask a tool what the session has already asked it,
\* unless the former call has left the window or its run did not complete.
RepeatedOnlyWhenForgotten ==
    [][stage = "react" =>
         Fingerprints(SubSeq(state'.events, Len(state.events) + 1, Len(state'.events)))
           \cap Fingerprints(TailOf(log.events, WindowEvents)) = {}]_vars

\* What a report says of a past case fits what the run found in the end, not
\* what it assumed when it recalled the case: the case is marked as
\* conflicting if and only if no hypothesis left standing has its cause, so
\* never when the report names that cause, and the comparison cites only
\* observations of the final state.
ComparisonsFitReport ==
    stage \in {"stage", "save"} =>
        \A i \in DOMAIN report.similar :
            LET m == report.similar[i]
            IN  /\ m.conflict = Conflicts(m.case, state.hypotheses)
                /\ m.conflict => \A j \in DOMAIN report.causes : report.causes[j].cause # m.case
                /\ m.refs \ {m.case} = ToSet(HeadOf(state.evidence, CitedObservations))

\* The checks that compare the stages of a run with each other never refuse a
\* run that has got through them.
NoStageRefusesAnother == stage # "refused"

\* What the docstring of _projected_hypothesis_status says: a cause cannot be
\* had from a hit in the knowledge base or a past case alone.
CausesRestOnObservations ==
    \A i \in DOMAIN report.causes : report.causes[i].refs \cap Observation # {}
=============================================================================
