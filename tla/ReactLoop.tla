----------------------------- MODULE ReactLoop -----------------------------
(***************************************************************************)
(* One diagnosis run of the bounded Planner loop of                        *)
(* app/orchestration/react_loop.py: a LangGraph of three nodes that asks   *)
(* the planner model for a decision, checks it, and executes the batch of  *)
(* read-only tool calls it asks for.                                       *)
(*                                                                         *)
(* The variables are the last state the graph streamed.  A node works on   *)
(* a copy and its result replaces that state when it returns; a timeout    *)
(* cancels the node and drops the copy, so what a node decides before its  *)
(* await is kept apart (closing, batch) until it has returned.             *)
(***************************************************************************)
EXTENDS Integers, SequencesExt, HypothesisUpdates, Selections

CONSTANTS Runs,          \* run identities; trace_id of every call of the run
          Queries,       \* a tool and its arguments but for the trace_id
          Allowed,       \* queries whose tool the chosen capabilities admit
          Known,         \* graph nodes, paths, documents and cases one may cite
          Hypotheses,    \* hypothesis identities
          Causes,        \* texts of root causes
          Priors,        \* what a checkpoint restores: [hypotheses, evidence, tools]
          MaxSteps, MaxParallel,  \* ReactLoopConfig
          Retries,       \* retry_count of the tool executor
          MaxUpdates, MaxRefs     \* bounds of one decision

ASSUME LoopAssumption ==
    /\ MaxSteps \in Nat \ {0} /\ MaxParallel \in Nat \ {0} /\ Retries \in 0..1
    /\ MaxUpdates \in Nat
    /\ Allowed \subseteq Queries

VARIABLES run,           \* identity of the run
          hypotheses,    \* FaultHypothesis, in order of creation
          evidence,      \* observations: the run and the query that made them
          tools,         \* tool events, those of one call as one entry
          executed,      \* executed_action_fingerprints
          step,          \* react_step
          closingUsed,   \* closing_turn_used
          reason,        \* stop_reason
          node,          \* the node that runs next, or where it waits
          closing,       \* the turn that waits for the planner is the closing one
          batch,         \* queries of the decision to execute
          calls,         \* history: queries this execution has sent to a tool
          supersteps     \* history: nodes LangGraph has started

facts == <<hypotheses, evidence, tools, executed, step>>
vars == <<run, facts, closingUsed, reason, node, closing, batch, calls, supersteps>>

-----------------------------------------------------------------------------
(* Types.                                                                  *)

Evidence == Runs \X Queries
Refs == Evidence \cup Known
Hypothesis == [id : Hypotheses, cause : Causes,
               status : {"candidate", "supported", "rejected"},
               supporting : SUBSET Refs, contradicting : SUBSET Refs]
ToolCall == [run : Runs, query : Queries, attempts : 1..(Retries + 1)]
ASSUME PriorAssumption ==
    Priors \subseteq [hypotheses : Seq(Hypothesis), evidence : Seq(Evidence),
                     tools : Seq(ToolCall)]
Action == [query : Queries, trace : Runs]
Observation == [attempts : 1..(Retries + 1), found : BOOLEAN]
BlockReasons == {"invalid_evidence_reference", "parallel_limit_exceeded",
                 "parallel_budget_exceeded", "tool_not_allowed_by_capability",
                 "trace_id_mismatch", "duplicate_action_blocked"}
Reasons == BlockReasons \cup {"react_budget_exhausted", "total_timeout",
                              "planner", "planner_error"}
ASSUME NoneAssumption == None \notin Causes \cup Reasons
Nodes == {"select_capabilities", "planner_react", "deciding", "execute_tools",
          "gathering", "stopped", "raised"}

\* recursion_limit of astream.
RecursionLimit == 2 * MaxSteps + 6

ObservedIds == ToSet(evidence)
ValidRefs == ObservedIds \cup Known
Fingerprints(log) == {log[i].query : i \in DOMAIN log}

-----------------------------------------------------------------------------
(* Hypothesis updates.                                                     *)

Update == {u \in [id : Hypotheses, status : {"new", "strengthened", "weakened", "rejected"},
                  cause : Causes \cup {None},
                  refs : {R \in SUBSET ValidRefs : Cardinality(R) <= MaxRefs}] :
              u.status = "new" => u.cause # None}
Updates == BoundedSeq(Update, MaxUpdates)

-----------------------------------------------------------------------------
(* The run.                                                                *)

Restore(r, prior) ==
    /\ run = r
    /\ hypotheses = prior.hypotheses
    /\ evidence = prior.evidence
    /\ tools = prior.tools
    /\ executed = Fingerprints(prior.tools)
    /\ step = 0
    /\ closingUsed = FALSE
    /\ reason = None
    /\ node = "select_capabilities"
    /\ closing = FALSE
    /\ batch = <<>>
    /\ calls = <<>>
    /\ supersteps = 0

\* A run has a fresh identity: nothing a checkpoint holds was seen under it.
Init == \E r \in Runs, prior \in Priors :
            /\ \A i \in DOMAIN prior.tools : prior.tools[i].run # r
            /\ \A i \in DOMAIN prior.evidence : prior.evidence[i][1] # r
            /\ Restore(r, prior)

\* The counter stops one past the limit.
Superstep == supersteps' = IF supersteps > RecursionLimit THEN supersteps
                           ELSE supersteps + 1

\* _stop_graph_state
Stop(why) ==
    /\ reason' = why
    /\ node' = "stopped"
    /\ closing' = FALSE
    /\ batch' = <<>>

SelectCapabilities ==
    /\ node = "select_capabilities"
    /\ node' = "planner_react"
    /\ reason' = None
    /\ Superstep
    /\ UNCHANGED <<run, facts, closingUsed, closing, batch, calls>>

-----------------------------------------------------------------------------
(* planner_react, up to the call of the model.                             *)

BudgetExhausted == step >= MaxSteps

\* The node would also stop before a turn once the closing turn is used; it
\* never does, for no path leads back here after that turn.
OutOfTime ==
    /\ node = "planner_react"
    /\ ~(BudgetExhausted /\ closingUsed)
    /\ closingUsed' = (closingUsed \/ BudgetExhausted)
    /\ Stop("total_timeout")
    /\ Superstep
    /\ UNCHANGED <<run, facts, calls>>

AskPlanner ==
    /\ node = "planner_react"
    /\ ~(BudgetExhausted /\ closingUsed)
    /\ node' = "deciding"
    /\ closing' = BudgetExhausted
    /\ Superstep
    /\ UNCHANGED <<run, facts, closingUsed, reason, batch, calls>>

-----------------------------------------------------------------------------
(* planner_react, once the model has answered.                             *)

TurnTaken ==
    /\ closingUsed' = (closingUsed \/ closing)
    /\ UNCHANGED <<run, evidence, tools, executed, step, calls, supersteps>>

\* PlannerAgentError: no answer, a refusal or one outside the schema.
PlannerFails ==
    /\ TurnTaken
    /\ Stop("planner_error")
    /\ UNCHANGED hypotheses

\* The decision, or an update of it, cites what the state does not hold.
CitesUnknown ==
    /\ TurnTaken
    /\ Refs \ ValidRefs # {}
    /\ Stop("invalid_evidence_reference")
    /\ UNCHANGED hypotheses

TakesUpdates(us) ==
    hypotheses' = ProjectUpdates(hypotheses, us, ObservedIds)

\* finish or need_user_input
Concludes(us) ==
    /\ TurnTaken
    /\ TakesUpdates(us)
    /\ Stop("planner")

CallsInClosingTurnAgain(us) ==
    /\ closing
    /\ TakesUpdates(us)
    /\ node' = "planner_react"
    /\ closing' = FALSE
    /\ UNCHANGED <<run, evidence, tools, executed, step, closingUsed, reason, batch,
                   calls, supersteps>>
CallsInClosingTurn(us) ==
    /\ TurnTaken
    /\ closing
    /\ TakesUpdates(us)
    /\ Stop("react_budget_exhausted")

Repeats(actions, i) ==
    \/ actions[i].query \in executed
    \/ \E j \in 1..(i - 1) : actions[j].query = actions[i].query

\* Why the action at i blocks its batch.
FaultIgnoringBatch(actions, i) ==
    CASE actions[i].query \notin Allowed -> "tool_not_allowed_by_capability"
      [] actions[i].trace # run -> "trace_id_mismatch"
      [] actions[i].query \in executed -> "duplicate_action_blocked"
      [] OTHER -> None
Fault(actions, i) ==
    CASE actions[i].query \notin Allowed -> "tool_not_allowed_by_capability"
      [] actions[i].trace # run -> "trace_id_mismatch"
      [] Repeats(actions, i) -> "duplicate_action_blocked"
      [] OTHER -> None

Fits(actions) == Len(actions) <= MaxParallel /\ Len(actions) <= MaxSteps - step

\* PlannerDecision admits one action more than the controller may.
Batches == BoundedSeq(Action, MaxParallel + 1) \ {<<>>}
Approvable == {actions \in Batches :
                  Fits(actions) /\ \A i \in DOMAIN actions : Fault(actions, i) = None}

\* Why a batch that is not approvable is blocked: the first fault found.
Refusal(actions) ==
    CASE Len(actions) > MaxParallel -> "parallel_limit_exceeded"
      [] ~Fits(actions) /\ Len(actions) <= MaxParallel -> "parallel_budget_exceeded"
      [] Fits(actions) ->
            LET faulty == {i \in DOMAIN actions : Fault(actions, i) # None}
            IN  Fault(actions, CHOOSE i \in faulty : \A j \in faulty : i <= j)
Refusals == {Refusal(actions) : actions \in Batches \ Approvable}

\* The batch is dropped whole, the updates of the same decision are kept.
IsRefused(us, why) ==
    /\ TurnTaken
    /\ ~closing
    /\ TakesUpdates(us)
    /\ Stop(why)

IsApproved(us, actions) ==
    /\ TurnTaken
    /\ ~closing
    /\ TakesUpdates(us)
    /\ node' = "execute_tools"
    /\ batch' = [i \in DOMAIN actions |-> actions[i].query]
    /\ closing' = FALSE
    /\ UNCHANGED reason

-----------------------------------------------------------------------------
(* execute_tools: the calls go out together, and what they return is       *)
(* written back in one step, in the order of the batch.                    *)

StartBatch ==
    /\ node = "execute_tools"
    /\ node' = "gathering"
    /\ calls' = calls \o batch
    /\ Superstep
    /\ UNCHANGED <<run, facts, closingUsed, reason, closing, batch>>

Logged(results) ==
    [i \in DOMAIN batch |-> [run |-> run, query |-> batch[i],
                             attempts |-> results[i].attempts]]
Found(results) ==
    Selected([i \in DOMAIN batch |-> <<run, batch[i]>>],
             {i \in DOMAIN batch : results[i].found})

BatchReturnsOnce(results) ==
    /\ node = "gathering"
    /\ evidence' = evidence \o Found(results)
    /\ tools' = tools \o Logged(results)
    /\ executed' = executed \cup {batch[i] : i \in DOMAIN batch}
    /\ step' = step + 1
    /\ node' = "planner_react"
    /\ batch' = <<>>
    /\ UNCHANGED <<run, hypotheses, closingUsed, reason, closing, calls, supersteps>>
BatchReturns(results) ==
    /\ node = "gathering"
    /\ evidence' = evidence \o Found(results)
    /\ tools' = tools \o Logged(results)
    /\ executed' = executed \cup {batch[i] : i \in DOMAIN batch}
    /\ step' = step + Len(batch)
    /\ node' = "planner_react"
    /\ batch' = <<>>
    /\ UNCHANGED <<run, hypotheses, closingUsed, reason, closing, calls, supersteps>>

\* An exception no node expects ends the run without a result.
NodeRaises ==
    /\ node \in {"deciding", "gathering"}
    /\ node' = "raised"
    /\ UNCHANGED <<run, facts, closingUsed, reason, closing, batch, calls, supersteps>>

-----------------------------------------------------------------------------
(* The wall-clock budget of the run, at any await.                         *)

TimeoutBeforeSelection ==
    /\ node = "select_capabilities"
    /\ node' = "raised"
    /\ UNCHANGED <<run, facts, closingUsed, reason, closing, batch, calls, supersteps>>

Timeout ==
    /\ node \in {"planner_react", "deciding", "execute_tools", "gathering"}
    /\ Stop("total_timeout")
    /\ UNCHANGED <<run, facts, closingUsed, calls, supersteps>>

PlannerReturns ==
    /\ node = "deciding"
    /\ \/ PlannerFails
       \/ CitesUnknown
       \/ \E us \in Updates : Concludes(us) \/ CallsInClosingTurn(us)
       \/ \E why \in Refusals, us \in Updates : IsRefused(us, why)
       \/ \E actions \in Approvable, us \in Updates : IsApproved(us, actions)

NodeStep ==
    \/ SelectCapabilities
    \/ OutOfTime \/ AskPlanner
    \/ PlannerReturns
    \/ StartBatch
    \/ \E results \in [DOMAIN batch -> Observation] : BatchReturns(results)
    \/ NodeRaises

Next == NodeStep \/ Timeout \/ TimeoutBeforeSelection

\* The provider and every tool client bound their own calls, so a node that
\* waits gets an answer or an error: the loop is not assumed to be cut short.
Fairness == WF_vars(NodeStep)

Spec == Init /\ [][Next]_vars /\ Fairness

-----------------------------------------------------------------------------
(* Properties.                                                             *)

TypeOK ==
    /\ run \in Runs
    /\ hypotheses \in Seq(Hypothesis)
    /\ evidence \in Seq(Evidence)
    /\ tools \in Seq(ToolCall)
    /\ executed \in SUBSET Queries
    /\ step \in 0..MaxSteps
    /\ closingUsed \in BOOLEAN /\ closing \in BOOLEAN
    /\ reason \in Reasons \cup {None}
    /\ node \in Nodes
    /\ batch \in Seq(Allowed)
    /\ calls \in Seq(Queries)
    /\ supersteps \in 0..(RecursionLimit + 1)

\* A run never sends more calls than its step budget, however its batches are
\* cut and whether or not what they return was ever written back.
CallsWithinBudget == Len(calls) <= MaxSteps

\* No query goes out twice, within a batch or across turns, and none that an
\* event restored from an earlier run of the session already answers.
NoCallRepeated ==
    /\ IsInjective(calls)
    /\ \A i \in DOMAIN tools :
          tools[i].run # run => \A k \in DOMAIN calls : tools[i].query # calls[k]

\* The set a run deduplicates by is the one its tool events rebuild, calls that
\* found nothing included: a restored run blocks what this one would.
RebuildAgrees == executed = Fingerprints(tools)

\* Whatever the planner does, LangGraph's recursion limit is never what ends
\* the run: a node is only started with a step left for it.
WithinRecursionLimit ==
    node \in {"planner_react", "execute_tools"} => supersteps < RecursionLimit

\* A run only supports a hypothesis that an observation backs; graph nodes,
\* documents and past cases may be cited but do not count.  What the checkpoint
\* restored as supported stays so while no update touches it, even if the
\* observation has left the window: a later update has to find another.
SupportedIsObserved ==
    [][\A i \in DOMAIN hypotheses' :
          hypotheses'[i].status = "supported" =>
              \/ hypotheses'[i].supporting \cap ObservedIds' # {}
              \/ i \in DOMAIN hypotheses /\ hypotheses'[i] = hypotheses[i]]_vars

\* What the docstring of _projected_hypothesis_status says: rejecting a
\* hypothesis ends it.
RejectedIsFinal ==
    [][\A i \in DOMAIN hypotheses :
          hypotheses[i].status = "rejected" => hypotheses'[i].status = "rejected"]_vars

\* The loop ends: every turn either stops it or spends budget, and the closing
\* turn is the last.
Ends == <>(node \in {"stopped", "raised"})
=============================================================================
