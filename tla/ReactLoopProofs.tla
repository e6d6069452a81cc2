-------------------------- MODULE ReactLoopProofs --------------------------
(***************************************************************************)
(* What holds of one run of the Planner loop for every budget, every       *)
(* restored state and every decision the planner may take; and of the      *)
(* trace its calls leave, whatever the tools and models answer.            *)
(***************************************************************************)
EXTENDS ReactLoop, TracedCalls, SelectionProofs

\* The queries a batch about to go out adds to those already sent.
Pending == {batch[i] : i \in DOMAIN batch}
Sent == {calls[i] : i \in DOMAIN calls}

LoopTypeOK ==
    /\ run \in Runs
    /\ tools \in Seq(ToolCall)
    /\ executed \in SUBSET Queries
    /\ step \in 0..MaxSteps
    /\ node \in Nodes
    /\ batch \in Seq(Queries)
    /\ calls \in Seq(Queries)
    /\ supersteps \in Nat

\* What was sent is what was charged, but for the batch that is out.
Charged ==
    /\ node \in {"select_capabilities", "planner_react", "deciding", "execute_tools"}
          => Len(calls) = step /\ Sent \subseteq executed
    /\ node = "gathering"
          => Len(calls) = step + Len(batch) /\ Sent \subseteq executed \cup Pending
    /\ Len(calls) <= MaxSteps

\* The batch that was approved: it fits the budget and repeats nothing.
BatchOK ==
    node \in {"execute_tools", "gathering"} =>
        /\ Len(batch) \in 1..(MaxSteps - step)
        /\ \A i, j \in DOMAIN batch : batch[i] = batch[j] => i = j
        /\ Pending \cap executed = {}

Distinct == \A i, j \in DOMAIN calls : calls[i] = calls[j] => i = j
NotAnswered ==
    \A i \in DOMAIN tools :
        tools[i].run # run => \A k \in DOMAIN calls : tools[i].query # calls[k]

\* Nodes are paid for by steps: two for each step and two for the closing turn.
Paid ==
    /\ node = "select_capabilities" => supersteps = 0
    /\ node = "planner_react" => supersteps <= 2 * step + 1
    /\ node \in {"deciding", "execute_tools"} => supersteps <= 2 * step + 2
    /\ node = "gathering" => supersteps <= 2 * step + 3

LoopInv == LoopTypeOK /\ Charged /\ BatchOK /\ Distinct /\ NotAnswered
           /\ RebuildAgrees /\ Paid

-----------------------------------------------------------------------------
\* An approved batch is a sequence of distinct queries none of which was
\* executed, and it fits what is left of the budget.
LEMMA Approved ==
    ASSUME LoopTypeOK, NEW actions \in Approvable
    PROVE  LET sent == [i \in DOMAIN actions |-> actions[i].query]
           IN  /\ sent \in Seq(Queries)
               /\ Len(sent) \in 1..(MaxSteps - step)
               /\ \A i, j \in DOMAIN sent : sent[i] = sent[j] => i = j
               /\ {sent[i] : i \in DOMAIN sent} \cap executed = {}
<1> DEFINE sent == [i \in DOMAIN actions |-> actions[i].query]
<1>1. PICK m \in 0..(MaxParallel + 1) : actions \in [1..m -> Action]
  BY DEF Approvable, Batches, BoundedSeq, SeqOf
<1>2. m \in Nat /\ DOMAIN actions = 1..m /\ Len(actions) = m /\ m # 0
  BY <1>1, LoopAssumption DEF Approvable, Batches
<1>3. m <= MaxSteps - step
  BY <1>2 DEF Approvable, Fits
<1>4. \A i \in 1..m : actions[i].query \in Queries /\ Fault(actions, i) = None
  BY <1>1, <1>2 DEF Approvable, Action
<1>5. sent \in [1..m -> Queries] /\ sent \in Seq(Queries) /\ Len(sent) = m
  BY <1>2, <1>4
<1>6. \A i \in 1..m : ~Repeats(actions, i)
  BY <1>4, NoneAssumption DEF Fault, Reasons, BlockReasons
<1>7. \A i, j \in 1..m : sent[i] = sent[j] => i = j
  BY <1>2, <1>6 DEF Repeats
<1>8. \A i \in 1..m : sent[i] \notin executed
  BY <1>2, <1>6 DEF Repeats
<1> QED BY <1>2, <1>3, <1>5, <1>7, <1>8 DEF LoopTypeOK

\* Where the elements of a concatenation come from.
LEMMA Joined ==
    ASSUME NEW S, NEW s \in Seq(S), NEW t \in Seq(S)
    PROVE  /\ s \o t \in Seq(S) /\ Len(s \o t) = Len(s) + Len(t)
           /\ DOMAIN s = 1..Len(s) /\ DOMAIN t = 1..Len(t)
           /\ DOMAIN (s \o t) = 1..(Len(s) + Len(t))
           /\ Len(s) \in Nat /\ Len(t) \in Nat
           /\ \A i \in 1..Len(s) : (s \o t)[i] = s[i]
           /\ \A i \in 1..Len(t) : (s \o t)[Len(s) + i] = t[i]
           /\ \A i \in DOMAIN (s \o t) :
                 i \in DOMAIN s \/ (i - Len(s) \in DOMAIN t /\ (s \o t)[i] = t[i - Len(s)])
OBVIOUS

LEMMA LoopInit == Init => LoopInv
<1> SUFFICES ASSUME Init PROVE LoopInv
  OBVIOUS
<1>1. PICK r \in Runs, prior \in Priors :
          /\ \A i \in DOMAIN prior.tools : prior.tools[i].run # r
          /\ Restore(r, prior)
  BY DEF Init
<1>2. prior.tools \in Seq(ToolCall)
  BY PriorAssumption
<1>3. \A i \in DOMAIN tools : tools[i].query \in Queries
  <2>1. tools \in Seq(ToolCall) /\ DOMAIN tools = 1..Len(tools)
    BY <1>1, <1>2 DEF Restore
  <2>2. \A i \in 1..Len(tools) : tools[i] \in ToolCall
    BY <2>1
  <2> QED BY <2>1, <2>2 DEF ToolCall
<1>4. LoopTypeOK
  BY <1>1, <1>2, <1>3, LoopAssumption DEF Restore, LoopTypeOK, Nodes, Fingerprints
<1>5. Charged /\ BatchOK /\ Distinct /\ NotAnswered /\ RebuildAgrees /\ Paid
  BY <1>1, LoopAssumption DEF Restore, Charged, BatchOK, Distinct, NotAnswered,
     RebuildAgrees, Paid, Sent
<1> QED BY <1>4, <1>5 DEF LoopInv

\* A step that neither sends nor writes back a call, and starts at most one
\* node, keeps every part that speaks of calls.
LEMMA Quiet ==
    ASSUME LoopInv, node' \in {"stopped", "raised"},
           UNCHANGED <<run, tools, executed, step, calls>>,
           supersteps' \in Nat, batch' \in Seq(Queries)
    PROVE  LoopInv'
<1>1. LoopTypeOK'
  BY DEF LoopInv, LoopTypeOK, Nodes
<1>2. Charged' /\ BatchOK' /\ Distinct' /\ NotAnswered' /\ RebuildAgrees' /\ Paid'
  BY DEF LoopInv, Charged, BatchOK, Distinct, NotAnswered, RebuildAgrees, Paid, Sent
<1> QED BY <1>1, <1>2 DEF LoopInv

LEMMA Counted == ASSUME LoopTypeOK, Superstep
                 PROVE  supersteps' \in Nat /\ supersteps' <= supersteps + 1
BY LoopAssumption DEF LoopTypeOK, Superstep, RecursionLimit

\* Every action but the wall clock's preserves the invariant.
LEMMA PlannerStep == ASSUME LoopInv, node = "deciding", PlannerReturns
                     PROVE  LoopInv'
<1>0. ASSUME NEW why, TurnTaken, Stop(why) PROVE LoopInv'
  <2>1. node' \in {"stopped", "raised"} /\ batch' \in Seq(Queries)
    BY <1>0 DEF Stop
  <2>2. UNCHANGED <<run, tools, executed, step, calls>> /\ supersteps' \in Nat
    BY <1>0 DEF TurnTaken, LoopInv, LoopTypeOK
  <2> QED BY <2>1, <2>2, Quiet
<1>1. CASE PlannerFails \/ CitesUnknown
  BY <1>0, <1>1 DEF PlannerFails, CitesUnknown
<1>2. ASSUME NEW us \in Updates, Concludes(us) \/ CallsInClosingTurn(us) PROVE LoopInv'
  BY <1>0, <1>2 DEF Concludes, CallsInClosingTurn
<1>3. ASSUME NEW why \in Refusals, NEW us \in Updates, IsRefused(us, why) PROVE LoopInv'
  BY <1>0, <1>3 DEF IsRefused
<1>4. ASSUME NEW actions \in Approvable, NEW us \in Updates, IsApproved(us, actions)
      PROVE  LoopInv'
  <2>1. /\ batch' \in Seq(Queries) /\ Len(batch') \in 1..(MaxSteps - step)
        /\ \A i, j \in DOMAIN batch' : batch'[i] = batch'[j] => i = j
        /\ Pending' \cap executed = {}
    BY <1>4, Approved DEF IsApproved, LoopInv, Pending
  <2>2. /\ node' = "execute_tools"
        /\ UNCHANGED <<run, tools, executed, step, calls, supersteps>>
    BY <1>4 DEF IsApproved, TurnTaken
  <2>3. LoopTypeOK'
    BY <2>1, <2>2 DEF LoopInv, LoopTypeOK, Nodes
  <2>4. Charged' /\ BatchOK' /\ Paid'
    BY <2>1, <2>2 DEF LoopInv, Charged, BatchOK, Paid, Sent
  <2>5. Distinct' /\ NotAnswered' /\ RebuildAgrees'
    BY <2>2 DEF LoopInv, Distinct, NotAnswered, RebuildAgrees
  <2> QED BY <2>3, <2>4, <2>5 DEF LoopInv
<1> QED BY <1>1, <1>2, <1>3, <1>4 DEF PlannerReturns

LEMMA SendStep == ASSUME LoopInv, StartBatch PROVE LoopInv'
<1>1. /\ node = "execute_tools" /\ node' = "gathering" /\ calls' = calls \o batch
      /\ UNCHANGED <<run, tools, executed, step, batch>>
      /\ supersteps' \in Nat /\ supersteps' <= supersteps + 1
  BY Counted DEF StartBatch, facts, LoopInv
<1>2. /\ calls' \in Seq(Queries) /\ Len(calls') = Len(calls) + Len(batch)
      /\ DOMAIN calls = 1..Len(calls) /\ DOMAIN batch = 1..Len(batch)
      /\ DOMAIN calls' = 1..(Len(calls) + Len(batch))
      /\ Len(calls) \in Nat /\ Len(batch) \in Nat
      /\ \A i \in 1..Len(calls) : calls'[i] = calls[i]
      /\ \A i \in DOMAIN calls' :
            i \in DOMAIN calls \/ (i - Len(calls) \in DOMAIN batch
                                    /\ calls'[i] = batch[i - Len(calls)])
  BY <1>1, Joined DEF LoopInv, LoopTypeOK
<1>3. LoopTypeOK'
  BY <1>1, <1>2 DEF LoopInv, LoopTypeOK, Nodes
<1>4. Pending \cap executed = {} /\ Sent \subseteq executed
  BY <1>1 DEF LoopInv, BatchOK, Charged
<1>5. Sent' \subseteq executed \cup Pending
  BY <1>1, <1>2, <1>4 DEF Sent, Pending
<1>6. Charged' /\ BatchOK' /\ Paid'
  <2>1. Pending' = Pending
    BY <1>1 DEF Pending
  <2>2. Len(calls) = step /\ Len(batch) \in 1..(MaxSteps - step) /\ step \in 0..MaxSteps
    BY <1>1 DEF LoopInv, LoopTypeOK, Charged, BatchOK
  <2>3. Charged'
    BY <1>1, <1>2, <1>5, <2>1, <2>2, LoopAssumption DEF Charged
  <2>4. BatchOK'
    BY <1>1, <1>4, <2>1, <2>2 DEF LoopInv, BatchOK
  <2>5. Paid'
    BY <1>1, <2>2 DEF LoopInv, LoopTypeOK, Paid
  <2> QED BY <2>3, <2>4, <2>5
<1>7. \A i \in DOMAIN calls, j \in DOMAIN batch : calls[i] # batch[j]
  BY <1>2, <1>4 DEF Sent, Pending
<1>8. Distinct'
  BY <1>1, <1>2, <1>7 DEF LoopInv, Distinct, BatchOK
<1>9. \A i \in DOMAIN tools, j \in DOMAIN batch : tools[i].query # batch[j]
  <2>1. executed = {tools[i].query : i \in DOMAIN tools}
    BY DEF LoopInv, RebuildAgrees, Fingerprints
  <2> QED BY <1>4, <2>1 DEF Pending
<1>10. NotAnswered' /\ RebuildAgrees'
  BY <1>1, <1>2, <1>9 DEF LoopInv, NotAnswered, RebuildAgrees
<1> QED BY <1>3, <1>6, <1>8, <1>10 DEF LoopInv

LEMMA WriteStep == ASSUME LoopInv, NEW results \in [DOMAIN batch -> Observation],
                          BatchReturns(results)
                   PROVE  LoopInv'
<1>1. /\ node = "gathering" /\ node' = "planner_react"
      /\ tools' = tools \o Logged(results)
      /\ executed' = executed \cup Pending
      /\ step' = step + Len(batch) /\ batch' = <<>>
      /\ UNCHANGED <<run, calls, supersteps>>
  BY DEF BatchReturns, Pending
<1>2. /\ Logged(results) \in Seq(ToolCall)
      /\ DOMAIN Logged(results) = DOMAIN batch /\ Len(Logged(results)) = Len(batch)
      /\ \A i \in DOMAIN batch : Logged(results)[i].query = batch[i]
                                /\ Logged(results)[i].run = run
  <2>1. run \in Runs /\ batch \in Seq(Queries)
    BY DEF LoopInv, LoopTypeOK
  <2>2. Len(batch) \in Nat /\ DOMAIN batch = 1..Len(batch)
        /\ \A i \in 1..Len(batch) : batch[i] \in Queries
    BY <2>1
  <2>3. \A i \in 1..Len(batch) :
            [run |-> run, query |-> batch[i], attempts |-> results[i].attempts] \in ToolCall
    BY <2>1, <2>2 DEF ToolCall, Observation
  <2> QED BY <2>2, <2>3 DEF Logged
<1>3. /\ tools' \in Seq(ToolCall)
      /\ DOMAIN tools = 1..Len(tools) /\ DOMAIN batch = 1..Len(batch)
      /\ DOMAIN tools' = 1..(Len(tools) + Len(batch))
      /\ Len(tools) \in Nat /\ Len(batch) \in Nat
      /\ \A i \in 1..Len(tools) : tools'[i] = tools[i]
      /\ \A i \in 1..Len(batch) : tools'[Len(tools) + i] = Logged(results)[i]
      /\ \A i \in DOMAIN tools' :
            i \in DOMAIN tools \/ (i - Len(tools) \in DOMAIN batch
                                    /\ tools'[i] = Logged(results)[i - Len(tools)])
  <2> DEFINE log == Logged(results)
  <2>1. tools \in Seq(ToolCall) /\ log \in Seq(ToolCall) /\ tools' = tools \o log
        /\ DOMAIN log = DOMAIN batch /\ Len(log) = Len(batch)
    BY <1>1, <1>2 DEF LoopInv, LoopTypeOK
  <2> HIDE DEF log
  <2>2. \A i \in 1..Len(log) : (tools \o log)[Len(tools) + i] = log[i]
    BY <2>1, Joined
  <2>3. \A i \in DOMAIN (tools \o log) :
            i \in DOMAIN tools \/ (i - Len(tools) \in DOMAIN log
                                    /\ (tools \o log)[i] = log[i - Len(tools)])
    BY <2>1, Joined
  <2>4. /\ tools \o log \in Seq(ToolCall) /\ DOMAIN tools = 1..Len(tools)
        /\ DOMAIN log = 1..Len(log) /\ DOMAIN (tools \o log) = 1..(Len(tools) + Len(log))
        /\ Len(tools) \in Nat /\ Len(log) \in Nat
        /\ \A i \in 1..Len(tools) : (tools \o log)[i] = tools[i]
    BY <2>1, Joined
  <2> QED BY <2>1, <2>2, <2>3, <2>4 DEF log
<1>4. Pending \subseteq Queries /\ Len(batch) \in 1..(MaxSteps - step) /\ step \in 0..MaxSteps
  BY <1>1 DEF LoopInv, LoopTypeOK, BatchOK, Pending
<1>5. LoopTypeOK'
  BY <1>1, <1>3, <1>4, LoopAssumption DEF LoopInv, LoopTypeOK, Nodes
<1>6. Charged' /\ BatchOK' /\ Paid' /\ Distinct'
  BY <1>1, <1>4 DEF LoopInv, LoopTypeOK, Charged, BatchOK, Paid, Distinct, Sent
<1>7. NotAnswered'
  BY <1>1, <1>2, <1>3 DEF LoopInv, NotAnswered
<1>8. {tools'[i].query : i \in DOMAIN tools'} = {tools[i].query : i \in DOMAIN tools} \cup Pending
  <2>1. ASSUME NEW i \in DOMAIN tools'
        PROVE  tools'[i].query \in {tools[k].query : k \in DOMAIN tools} \cup Pending
    BY <1>2, <1>3 DEF Pending
  <2>2. ASSUME NEW i \in DOMAIN tools
        PROVE  tools[i].query \in {tools'[k].query : k \in DOMAIN tools'}
    BY <1>3
  <2>3. ASSUME NEW i \in DOMAIN batch
        PROVE  batch[i] \in {tools'[k].query : k \in DOMAIN tools'}
    <3>1. i \in 1..Len(batch) /\ Len(tools) + i \in DOMAIN tools'
      BY <1>3
    <3> QED BY <3>1, <1>2, <1>3
  <2> QED BY <2>1, <2>2, <2>3 DEF Pending
<1>9. RebuildAgrees'
  BY <1>1, <1>8 DEF LoopInv, RebuildAgrees, Fingerprints
<1> QED BY <1>5, <1>6, <1>7, <1>9 DEF LoopInv

LEMMA LoopStep == LoopInv /\ [Next]_vars => LoopInv'
<1> SUFFICES ASSUME LoopInv, [Next]_vars PROVE LoopInv'
  OBVIOUS
<1>1. CASE SelectCapabilities
  <2>1. supersteps' \in Nat /\ supersteps' <= supersteps + 1
    BY <1>1, Counted DEF SelectCapabilities, LoopInv
  <2> QED BY <1>1, <2>1 DEF SelectCapabilities, facts, LoopInv, LoopTypeOK, Nodes,
             Charged, BatchOK, Distinct, NotAnswered, RebuildAgrees, Paid, Sent
<1>2. CASE OutOfTime
  <2>1. supersteps' \in Nat
    BY <1>2, Counted DEF OutOfTime, LoopInv
  <2>2. node' = "stopped" /\ batch' = <<>>
    BY <1>2 DEF OutOfTime, Stop
  <2>3. UNCHANGED <<run, tools, executed, step, calls>>
    BY <1>2 DEF OutOfTime, facts
  <2> QED BY <2>1, <2>2, <2>3, Quiet
<1>3. CASE AskPlanner
  <2>1. supersteps' \in Nat /\ supersteps' <= supersteps + 1
    BY <1>3, Counted DEF AskPlanner, LoopInv
  <2> QED BY <1>3, <2>1 DEF AskPlanner, facts, LoopInv, LoopTypeOK, Nodes,
             Charged, BatchOK, Distinct, NotAnswered, RebuildAgrees, Paid, Sent
<1>4. CASE PlannerReturns
  BY <1>4, PlannerStep DEF PlannerReturns
<1>5. CASE StartBatch
  BY <1>5, SendStep
<1>6. CASE \E results \in [DOMAIN batch -> Observation] : BatchReturns(results)
  BY <1>6, WriteStep
<1>7. CASE NodeRaises \/ TimeoutBeforeSelection
  BY <1>7, Quiet DEF NodeRaises, TimeoutBeforeSelection, facts, LoopInv, LoopTypeOK
<1>8. CASE Timeout
  BY <1>8, Quiet DEF Timeout, Stop, facts, LoopInv, LoopTypeOK
<1>9. CASE UNCHANGED vars
  <2>1. UNCHANGED <<run, tools, executed, step, node, batch, calls, supersteps>>
    BY <1>9 DEF vars, facts
  <2>2. Sent' = Sent /\ Pending' = Pending /\ Fingerprints(tools)' = Fingerprints(tools)
    BY <2>1 DEF Sent, Pending, Fingerprints
  <2>3. LoopTypeOK' /\ Charged' /\ BatchOK' /\ Paid'
    BY <2>1, <2>2 DEF LoopInv, LoopTypeOK, Charged, BatchOK, Paid
  <2>4. Distinct' /\ NotAnswered' /\ RebuildAgrees'
    BY <2>1, <2>2 DEF LoopInv, Distinct, NotAnswered, RebuildAgrees
  <2> QED BY <2>3, <2>4 DEF LoopInv
<1> QED BY <1>1, <1>2, <1>3, <1>4, <1>5, <1>6, <1>7, <1>8, <1>9 DEF Next, NodeStep

\* The invariant holds in every reachable state.
THEOREM LoopSound == Spec => []LoopInv
<1> QED BY LoopInit, LoopStep, PTL DEF Spec

\* A run never sends more tool calls than max_steps.
THEOREM BudgetHolds == Spec => []CallsWithinBudget
<1>1. LoopInv => CallsWithinBudget
  BY DEF LoopInv, Charged, CallsWithinBudget
<1> QED BY <1>1, LoopSound, PTL

\* A run never sends a query twice, nor one its session already has events of.
THEOREM NoRepeats == Spec => []NoCallRepeated
<1>1. LoopInv => NoCallRepeated
  BY DEF LoopInv, Distinct, NotAnswered, NoCallRepeated, IsInjective
<1> QED BY <1>1, LoopSound, PTL

\* The fingerprints a run holds are those its tool events rebuild.
THEOREM RebuildSound == Spec => []RebuildAgrees
<1>1. LoopInv => RebuildAgrees
  BY DEF LoopInv
<1> QED BY <1>1, LoopSound, PTL

\* LangGraph's recursion limit is out of reach for every step budget.
THEOREM LimitNeverHit == Spec => []WithinRecursionLimit
<1>1. LoopInv => WithinRecursionLimit
  BY LoopAssumption DEF LoopInv, LoopTypeOK, Paid, BatchOK, WithinRecursionLimit,
     RecursionLimit
<1> QED BY <1>1, LoopSound, PTL

-----------------------------------------------------------------------------
(* Hypotheses: what the updates of a decision make of them.               *)

\* An update of the hypotheses, as the schema of a decision admits it.
AnyUpdate == {u \in [id : Hypotheses, status : {"new", "strengthened", "weakened", "rejected"},
                     cause : Causes \cup {None}, refs : SUBSET Refs] :
                 u.status = "new" => u.cause # None}

\* hs are the hypotheses old, updated: what is supported in hs an observation
\* backs, or it is as it was.
Grown(old, hs, observed) ==
    /\ hs \in Seq(Hypothesis) /\ Len(old) <= Len(hs)
    /\ \A i \in 1..Len(hs) :
          hs[i].status = "supported" =>
              \/ hs[i].supporting \cap observed # {}
              \/ i \in 1..Len(old) /\ hs[i] = old[i]

\* One hypothesis, updated.
LEMMA UpdatedGrows ==
    ASSUME NEW h \in Hypothesis, NEW u \in AnyUpdate, NEW observed
    PROVE  /\ Updated(h, u, observed) \in Hypothesis
           /\ Updated(h, u, observed).status = "supported"
                => Updated(h, u, observed).supporting \cap observed # {}
<1> DEFINE against == u.status \in {"weakened", "rejected"}
           supporting == h.supporting \cup (IF against THEN {} ELSE u.refs)
           contradicting == h.contradicting \cup (IF against THEN u.refs ELSE {})
           blamed == IF u.cause = None THEN h.cause ELSE u.cause
           status == ProjectedStatus(u.status, supporting, observed)
<1>1. /\ h.id \in Hypotheses /\ h.cause \in Causes /\ h.supporting \subseteq Refs
      /\ h.contradicting \subseteq Refs
      /\ u.cause \in Causes \cup {None} /\ u.refs \subseteq Refs
      /\ u.status \in {"new", "strengthened", "weakened", "rejected"}
  BY DEF Hypothesis, AnyUpdate
<1>2. supporting \subseteq Refs /\ contradicting \subseteq Refs /\ blamed \in Causes
  BY <1>1
<1>3. /\ status \in {"candidate", "supported", "rejected"}
      /\ status = "supported" => supporting \cap observed # {}
  <2> HIDE DEF supporting
  <2> QED BY <1>1 DEF ProjectedStatus
<1>4. Updated(h, u, observed) = [h EXCEPT !.cause = blamed, !.supporting = supporting,
                                          !.contradicting = contradicting, !.status = status]
  BY DEF Updated
<1> HIDE DEF against, supporting, contradicting, blamed, status
<1> DEFINE updated == [h EXCEPT !.cause = blamed, !.supporting = supporting,
                                !.contradicting = contradicting, !.status = status]
<1>5. updated \in Hypothesis /\ updated.status = status /\ updated.supporting = supporting
  BY <1>2, <1>3 DEF Hypothesis
<1> HIDE DEF updated
<1>6. Updated(h, u, observed) = updated
  BY <1>4 DEF updated
<1> QED BY <1>3, <1>5, <1>6

\* A new hypothesis is a candidate at the end.
LEMMA OpenedGrows ==
    ASSUME NEW hs \in Seq(Hypothesis), NEW u \in AnyUpdate, NEW observed
    PROVE  Grown(hs, Opened(hs, u), observed)
<1> DEFINE opened == [id |-> u.id, cause |-> u.cause, status |-> "candidate",
                      supporting |-> {}, contradicting |-> {}]
<1>1. CASE u.status = "new" /\ \A i \in DOMAIN hs : hs[i].id # u.id
  <2>1. Opened(hs, u) = Append(hs, opened)
    BY <1>1 DEF Opened
  <2>2. opened \in Hypothesis /\ opened.status # "supported"
    BY <1>1 DEF Hypothesis, AnyUpdate
  <2> HIDE DEF opened
  <2>3. /\ Append(hs, opened) \in Seq(Hypothesis)
        /\ Len(Append(hs, opened)) = Len(hs) + 1 /\ Len(hs) \in Nat
        /\ \A i \in 1..Len(hs) : Append(hs, opened)[i] = hs[i]
        /\ Append(hs, opened)[Len(hs) + 1] = opened
    BY <2>2, AppendProperties, LenProperties
  <2>4. \A i \in 1..(Len(hs) + 1) : i \in 1..Len(hs) \/ i = Len(hs) + 1
    BY <2>3
  <2> QED BY <2>1, <2>2, <2>3, <2>4 DEF Grown
<1>2. CASE ~(u.status = "new" /\ \A i \in DOMAIN hs : hs[i].id # u.id)
  <2>1. Opened(hs, u) = hs
    BY <1>2 DEF Opened
  <2>2. Len(hs) \in Nat
    BY LenProperties
  <2> QED BY <2>1, <2>2 DEF Grown
<1> QED BY <1>1, <1>2

\* One update leaves hypotheses that have grown from the ones before.
LEMMA ProjectedGrows ==
    ASSUME NEW hs \in Seq(Hypothesis), NEW u \in AnyUpdate, NEW observed
    PROVE  Grown(hs, Projected(hs, u, observed), observed)
<1> DEFINE o == Opened(hs, u)
           p == Projected(hs, u, observed)
<1>1. o \in Seq(Hypothesis) /\ Len(hs) <= Len(o)
  BY OpenedGrows DEF Grown
<1>2. p = [i \in DOMAIN o |-> IF o[i].id = u.id THEN Updated(o[i], u, observed) ELSE o[i]]
  BY DEF Projected
<1>3. Grown(hs, o, observed)
  BY OpenedGrows
<1> HIDE DEF o, p
<1>4. DOMAIN o = 1..Len(o) /\ Len(o) \in Nat /\ \A i \in 1..Len(o) : o[i] \in Hypothesis
  BY <1>1, LenProperties, ElementOfSeq
<1>5. \A i \in 1..Len(o) : /\ p[i] \in Hypothesis
                           /\ p[i] # o[i] /\ p[i].status = "supported"
                                => p[i].supporting \cap observed # {}
  BY <1>2, <1>4, UpdatedGrows
<1>6. p \in Seq(Hypothesis) /\ Len(p) = Len(o)
  BY <1>2, <1>4, <1>5
<1> QED BY <1>1, <1>3, <1>5, <1>6 DEF Grown, p

\* What has grown from what has grown has grown from the first.
LEMMA GrownTwice ==
    ASSUME NEW old \in Seq(Hypothesis), NEW now, NEW next, NEW observed,
           Grown(old, now, observed), Grown(now, next, observed)
    PROVE  Grown(old, next, observed)
<1>1. /\ now \in Seq(Hypothesis) /\ next \in Seq(Hypothesis)
      /\ Len(old) <= Len(now) /\ Len(now) <= Len(next)
  BY DEF Grown
<1>2. Len(old) \in Nat /\ Len(now) \in Nat /\ Len(next) \in Nat
  BY <1>1, LenProperties
<1>3. ASSUME NEW i \in 1..Len(next), next[i].status = "supported",
             next[i].supporting \cap observed = {}
      PROVE  i \in 1..Len(old) /\ next[i] = old[i]
  <2>1. i \in 1..Len(now) /\ next[i] = now[i]
    BY <1>3 DEF Grown
  <2> QED BY <1>3, <2>1 DEF Grown
<1> QED BY <1>1, <1>2, <1>3 DEF Grown

\* f[k] are the hypotheses after the first k of the updates.
Projects(f, hs, us, observed, n) ==
    f = [k \in 0..n |-> IF k = 0 THEN hs ELSE Projected(f[k - 1], us[k], observed)]

\* The hypotheses can be computed update by update.
LEMMA ProjectionExists ==
    ASSUME NEW hs, NEW us, NEW observed, NEW n \in Nat
    PROVE  \E f : Projects(f, hs, us, observed, n)
<1> DEFINE S == {k \in 0..n : \E f : Projects(f, hs, us, observed, k)}
<1>1. 0 \in S
  <2>1. Projects([k \in 0..0 |-> hs], hs, us, observed, 0)
    BY DEF Projects
  <2> QED BY <2>1
<1>2. ASSUME NEW k \in 0..(n - 1), k \in S PROVE k + 1 \in S
  <2>1. PICK f : Projects(f, hs, us, observed, k)
    BY <1>2
  <2> DEFINE g == [i \in 0..(k + 1) |->
                     IF i = k + 1 THEN Projected(f[k], us[k + 1], observed) ELSE f[i]]
  <2>2. \A i \in 0..(k + 1) :
          g[i] = IF i = 0 THEN hs ELSE Projected(g[i - 1], us[i], observed)
    <3> TAKE i \in 0..(k + 1)
    <3>1. CASE i = k + 1
      <4>1. g[i - 1] = f[k] /\ i - 1 = k
        BY <3>1
      <4> QED BY <3>1, <4>1
    <3>2. CASE i # k + 1
      <4>1. i \in 0..k
        BY <3>2
      <4>2. f[i] = IF i = 0 THEN hs ELSE Projected(f[i - 1], us[i], observed)
        BY <2>1, <4>1 DEF Projects
      <4>3. g[i] = f[i] /\ (i # 0 => g[i - 1] = f[i - 1])
        BY <3>2, <4>1
      <4> QED BY <4>2, <4>3
    <3> QED BY <3>1, <3>2
  <2>3. Projects(g, hs, us, observed, k + 1)
    BY <2>2 DEF Projects
  <2> QED BY <2>3
<1> HIDE DEF S
<1>3. n \in S
  BY <1>1, <1>2, InductionUpTo
<1> QED BY <1>3 DEF S

\* So do all updates of a decision, one after the other.
LEMMA ProjectionGrows ==
    ASSUME NEW hs \in Seq(Hypothesis), NEW us \in Seq(AnyUpdate), NEW observed
    PROVE  Grown(hs, ProjectUpdates(hs, us, observed), observed)
<1> DEFINE f == CHOOSE f : Projects(f, hs, us, observed, Len(us))
<1>1. PICK n \in Nat : n = Len(us) /\ \A k \in 1..n : us[k] \in AnyUpdate
  BY LenProperties, ElementOfSeq
<1>2. Projects(f, hs, us, observed, n)
  BY <1>1, ProjectionExists
<1>3. ProjectUpdates(hs, us, observed) = f[n]
  BY <1>1 DEF ProjectUpdates, Projects
<1> HIDE DEF f
<1> DEFINE S == {k \in 0..n : Grown(hs, f[k], observed)}
<1>4. 0 \in S
  <2>1. f[0] = hs
    BY <1>2 DEF Projects
  <2>2. Len(hs) \in Nat
    BY LenProperties
  <2> QED BY <2>1, <2>2 DEF Grown
<1>5. ASSUME NEW k \in 0..(n - 1), k \in S PROVE k + 1 \in S
  <2>1. f[k + 1] = Projected(f[k], us[k + 1], observed)
    BY <1>2 DEF Projects
  <2>2. f[k] \in Seq(Hypothesis) /\ Grown(hs, f[k], observed) /\ us[k + 1] \in AnyUpdate
    BY <1>1, <1>5 DEF Grown
  <2>3. Grown(f[k], f[k + 1], observed)
    BY <2>1, <2>2, ProjectedGrows
  <2>4. Grown(hs, f[k + 1], observed)
    BY <2>2, <2>3, GrownTwice
  <2>5. k + 1 \in 0..n
    BY <1>1
  <2> QED BY <2>4, <2>5
<1>6. \A k \in 0..n : k \in S
  <2> HIDE DEF S
  <2>1. n \in Nat
    BY <1>1
  <2> QED BY <1>4, <1>5, <2>1, InductionUpTo
<1> QED BY <1>1, <1>3, <1>6

-----------------------------------------------------------------------------
(* Types, and the grounds of a hypothesis.                                 *)

\* Every refusal of a batch names its reason.
LEMMA RefusalsHaveReasons == Refusals \subseteq BlockReasons
<1> SUFFICES ASSUME NEW actions \in Batches, actions \notin Approvable
             PROVE  Refusal(actions) \in BlockReasons
  BY DEF Refusals
<1>1. PICK m \in 0..(MaxParallel + 1) : actions \in [1..m -> Action]
  BY DEF Batches, BoundedSeq, SeqOf
<1>2. DOMAIN actions = 1..m /\ Len(actions) = m /\ m \in Nat /\ MaxParallel \in Nat
  BY <1>1, LoopAssumption
<1>3. \A i \in DOMAIN actions : Fault(actions, i) # None => Fault(actions, i) \in BlockReasons
  BY DEF Fault, BlockReasons
<1>4. CASE Fits(actions)
  <2> DEFINE faulty == {i \in DOMAIN actions : Fault(actions, i) # None}
             first == CHOOSE i \in faulty : \A j \in faulty : i <= j
  <2>1. faulty # {} /\ faulty \subseteq Nat
    BY <1>2, <1>4 DEF Approvable
  <2>2. \E i \in faulty : \A j \in faulty : i <= j
    <3> HIDE DEF faulty
    <3> QED BY <2>1, LeastNumber
  <2>3. first \in faulty
    <3> HIDE DEF faulty
    <3> QED BY <2>2
  <2>4. Len(actions) <= MaxParallel
    BY <1>4 DEF Fits
  <2>5. Refusal(actions) = Fault(actions, first)
    BY <1>2, <1>4, <2>4 DEF Refusal
  <2> QED BY <1>3, <2>3, <2>5
<1>5. CASE ~Fits(actions)
  <2>1. Len(actions) > MaxParallel \/ Len(actions) <= MaxParallel
    BY <1>2
  <2> QED BY <1>2, <1>5, <2>1 DEF Refusal, BlockReasons
<1> QED BY <1>4, <1>5

\* What the planner's updates make of the hypotheses.
LEMMA TakenUpdates ==
    ASSUME hypotheses \in Seq(Hypothesis), evidence \in Seq(Evidence),
           NEW us \in Updates, TakesUpdates(us)
    PROVE  Grown(hypotheses, hypotheses', ObservedIds)
<1>1. PICK m \in 0..MaxUpdates : us \in [1..m -> Update]
  BY DEF Updates, BoundedSeq, SeqOf
<1>2. m \in Nat
  BY LoopAssumption
<1>3. ValidRefs \subseteq Refs
  <2>1. \A i \in DOMAIN evidence : evidence[i] \in Evidence
    BY LenProperties, ElementOfSeq
  <2> QED BY <2>1 DEF ValidRefs, ObservedIds, ToSet, Refs
<1>4. Update \subseteq AnyUpdate
  BY <1>3 DEF Update, AnyUpdate
<1>5. us \in Seq(AnyUpdate)
  BY <1>1, <1>2, <1>4
<1> QED BY <1>5, ProjectionGrows DEF TakesUpdates

\* The types LoopTypeOK leaves out, or states loosely.
Shape ==
    /\ hypotheses \in Seq(Hypothesis)
    /\ evidence \in Seq(Evidence)
    /\ closingUsed \in BOOLEAN /\ closing \in BOOLEAN
    /\ reason \in Reasons \cup {None}
    /\ batch \in Seq(Allowed)
    /\ supersteps \in 0..(RecursionLimit + 1)

\* A restored run has these types.
LEMMA ShapeInit == Init => Shape
<1> SUFFICES ASSUME Init PROVE Shape
  OBVIOUS
<1>1. PICK r \in Runs, prior \in Priors : Restore(r, prior)
  BY DEF Init
<1>2. prior.hypotheses \in Seq(Hypothesis) /\ prior.evidence \in Seq(Evidence)
  BY PriorAssumption
<1>3. RecursionLimit \in Nat
  BY LoopAssumption DEF RecursionLimit
<1>4. supersteps \in 0..(RecursionLimit + 1)
  BY <1>1, <1>3 DEF Restore
<1>5. batch \in Seq(Allowed)
  BY <1>1 DEF Restore
<1> QED BY <1>1, <1>2, <1>4, <1>5 DEF Restore, Shape

\* The counter of nodes stops one past the limit.
LEMMA SuperstepShape ==
    ASSUME Shape, Superstep PROVE supersteps' \in 0..(RecursionLimit + 1)
<1>1. RecursionLimit \in Nat
  BY LoopAssumption DEF RecursionLimit
<1> QED BY <1>1 DEF Shape, Superstep

\* The answer of the planner.
LEMMA AnswerShape ==
    ASSUME Shape, PlannerReturns
    PROVE  Shape' /\ (UNCHANGED hypotheses \/ Grown(hypotheses, hypotheses', ObservedIds))
                  /\ UNCHANGED evidence
<1>0. /\ UNCHANGED evidence /\ UNCHANGED supersteps /\ closingUsed' \in BOOLEAN
  <2>1. TurnTaken
    BY DEF PlannerReturns, PlannerFails, CitesUnknown, Concludes, CallsInClosingTurn,
           IsRefused, IsApproved
  <2>2. closingUsed' = (closingUsed \/ closing)
    BY <2>1 DEF TurnTaken
  <2>3. closingUsed' \in BOOLEAN
    BY <2>2, Zenon
  <2> QED BY <2>1, <2>3 DEF TurnTaken
<1>1. ASSUME NEW us \in Updates, TakesUpdates(us)
      PROVE  hypotheses' \in Seq(Hypothesis) /\ Grown(hypotheses, hypotheses', ObservedIds)
  BY <1>1, TakenUpdates DEF Shape, Grown
<1>2. ASSUME NEW why \in Reasons, Stop(why), hypotheses' \in Seq(Hypothesis) PROVE Shape'
  <2>1. batch' \in Seq(Allowed)
    BY <1>2 DEF Stop
  <2>2. closing' \in BOOLEAN /\ reason' \in Reasons
    BY <1>2 DEF Stop
  <2>3. evidence' \in Seq(Evidence) /\ supersteps' \in 0..(RecursionLimit + 1)
    BY <1>0 DEF Shape
  <2> QED BY <1>0, <1>2, <2>1, <2>2, <2>3 DEF Shape
<1>3. CASE PlannerFails
  BY <1>0, <1>2, <1>3 DEF PlannerFails, Shape, Reasons
<1>4. CASE CitesUnknown
  BY <1>0, <1>2, <1>4 DEF CitesUnknown, Shape, Reasons, BlockReasons
<1>5. ASSUME NEW us \in Updates, Concludes(us) \/ CallsInClosingTurn(us)
      PROVE  Shape' /\ Grown(hypotheses, hypotheses', ObservedIds)
  BY <1>1, <1>2, <1>5 DEF Concludes, CallsInClosingTurn, Reasons
<1>6. ASSUME NEW why \in Refusals, NEW us \in Updates, IsRefused(us, why)
      PROVE  Shape' /\ Grown(hypotheses, hypotheses', ObservedIds)
  BY <1>1, <1>2, <1>6, RefusalsHaveReasons DEF IsRefused, Reasons
<1>7. ASSUME NEW actions \in Approvable, NEW us \in Updates, IsApproved(us, actions)
      PROVE  Shape' /\ Grown(hypotheses, hypotheses', ObservedIds)
  <2>1. hypotheses' \in Seq(Hypothesis) /\ Grown(hypotheses, hypotheses', ObservedIds)
    BY <1>1, <1>7 DEF IsApproved
  <2>2. batch' \in Seq(Allowed)
    <3>1. PICK m \in 0..(MaxParallel + 1) : actions \in [1..m -> Action]
      BY DEF Approvable, Batches, BoundedSeq, SeqOf
    <3>2. m \in Nat /\ DOMAIN actions = 1..m
      BY <3>1, LoopAssumption
    <3>3. \A i \in 1..m : actions[i].query \in Allowed
      BY <3>2, NoneAssumption DEF Approvable, Fault, Reasons, BlockReasons
    <3>4. batch' = [i \in 1..m |-> actions[i].query]
      BY <1>7, <3>2 DEF IsApproved
    <3> QED BY <3>2, <3>3, <3>4
  <2>3. closing' = FALSE /\ reason' = reason
    BY <1>7 DEF IsApproved
  <2> QED BY <1>0, <2>1, <2>2, <2>3 DEF Shape
<1>8. CASE \E us \in Updates : Concludes(us) \/ CallsInClosingTurn(us)
  BY <1>0, <1>5, <1>8
<1>9. CASE \E why \in Refusals, us \in Updates : IsRefused(us, why)
  BY <1>0, <1>6, <1>9
<1>10. CASE \E actions \in Approvable, us \in Updates : IsApproved(us, actions)
  BY <1>0, <1>7, <1>10
<1> QED BY <1>0, <1>3, <1>4, <1>8, <1>9, <1>10 DEF PlannerReturns, PlannerFails, CitesUnknown

\* What a batch found are observations of this run.
LEMMA FoundShape ==
    ASSUME run \in Runs, batch \in Seq(Allowed), NEW results
    PROVE  Found(results) \in Seq(Evidence)
<1> DEFINE asked == [i \in DOMAIN batch |-> <<run, batch[i]>>]
           found == {i \in DOMAIN batch : results[i].found}
<1>1. DOMAIN batch = 1..Len(batch) /\ Len(batch) \in Nat
      /\ \A i \in 1..Len(batch) : batch[i] \in Queries
  BY LenProperties, ElementOfSeq, LoopAssumption
<1>2. asked \in Seq(Evidence)
  BY <1>1 DEF Evidence
<1>3. Found(results) = Selected(asked, found)
  BY DEF Found
<1> HIDE DEF asked, found
<1> QED BY <1>2, <1>3, SelectedItems

\* A step keeps the types, and either keeps the hypotheses or updates them
\* against the observations there are.
LEMMA ShapeStep ==
    ASSUME LoopInv, Shape, [Next]_vars
    PROVE  Shape' /\ \/ UNCHANGED hypotheses
                     \/ Grown(hypotheses, hypotheses', ObservedIds) /\ UNCHANGED evidence
<1>1. CASE PlannerReturns
  BY <1>1, AnswerShape
<1>2. CASE \E results \in [DOMAIN batch -> Observation] : BatchReturns(results)
  <2>1. PICK results : BatchReturns(results)
    BY <1>2
  <2>2. Found(results) \in Seq(Evidence)
    BY FoundShape DEF LoopInv, LoopTypeOK, Shape
  <2>3. evidence' \in Seq(Evidence)
    BY <2>1, <2>2, ConcatProperties DEF BatchReturns, Shape
  <2> QED BY <2>1, <2>3 DEF BatchReturns, Shape
<1>3. CASE SelectCapabilities
  <2>1. supersteps' \in 0..(RecursionLimit + 1)
    BY <1>3, SuperstepShape DEF SelectCapabilities
  <2>2. reason' = None /\ UNCHANGED <<hypotheses, evidence, closingUsed, closing, batch>>
    BY <1>3 DEF SelectCapabilities, facts
  <2> QED BY <2>1, <2>2 DEF Shape
<1>4. CASE OutOfTime
  <2>1. closingUsed' = (closingUsed \/ BudgetExhausted)
    BY <1>4 DEF OutOfTime
  <2>2. closingUsed' \in BOOLEAN
    BY <2>1, Zenon
  <2>3. supersteps' \in 0..(RecursionLimit + 1)
    BY <1>4, SuperstepShape DEF OutOfTime
  <2>4. /\ reason' = "total_timeout" /\ closing' = FALSE
        /\ UNCHANGED <<hypotheses, evidence>>
    BY <1>4 DEF OutOfTime, Stop, facts
  <2>5. batch' \in Seq(Allowed)
    BY <1>4 DEF OutOfTime, Stop
  <2>6. Shape'
    BY <2>2, <2>3, <2>4, <2>5 DEF Shape, Reasons
  <2> QED BY <2>4, <2>6
<1>5. CASE AskPlanner
  <2>1. closing' = BudgetExhausted /\ BudgetExhausted \in BOOLEAN
    <3>1. closing' = BudgetExhausted
      BY <1>5 DEF AskPlanner
    <3> QED BY <3>1 DEF BudgetExhausted
  <2>2. supersteps' \in 0..(RecursionLimit + 1)
    BY <1>5, SuperstepShape DEF AskPlanner
  <2>3. UNCHANGED <<hypotheses, evidence, closingUsed, reason, batch>>
    BY <1>5 DEF AskPlanner, facts
  <2> QED BY <2>1, <2>2, <2>3 DEF Shape
<1>6. CASE StartBatch
  BY <1>6, SuperstepShape DEF StartBatch, facts, Shape
<1>7. CASE NodeRaises \/ TimeoutBeforeSelection
  BY <1>7 DEF NodeRaises, TimeoutBeforeSelection, facts, Shape
<1>8. CASE Timeout
  <2>1. /\ reason' = "total_timeout" /\ closing' = FALSE
        /\ UNCHANGED <<hypotheses, evidence, closingUsed, supersteps>>
    BY <1>8 DEF Timeout, Stop, facts
  <2>2. batch' \in Seq(Allowed)
    BY <1>8 DEF Timeout, Stop
  <2>3. Shape'
    BY <2>1, <2>2 DEF Shape, Reasons
  <2> QED BY <2>1, <2>3
<1>9. CASE UNCHANGED vars
  BY <1>9 DEF vars, facts, Shape
<1> QED BY <1>1, <1>2, <1>3, <1>4, <1>5, <1>6, <1>7, <1>8, <1>9 DEF Next, NodeStep

\* Every variable keeps its type.
THEOREM LoopTyped == Spec => []TypeOK
<1>1. LoopInv /\ Shape => TypeOK
  BY DEF LoopInv, LoopTypeOK, Shape, TypeOK
<1>2. LoopInv /\ Shape /\ [Next]_vars => Shape'
  BY ShapeStep
<1> QED BY <1>1, <1>2, ShapeInit, LoopSound, PTL DEF Spec

\* A run only supports a hypothesis that an observation backs, however many
\* updates its decisions hold and whatever was restored.
THEOREM SupportObserved == Spec => SupportedIsObserved
<1>1. LoopInv /\ Shape /\ [Next]_vars =>
        [\A i \in DOMAIN hypotheses' :
            hypotheses'[i].status = "supported" =>
                \/ hypotheses'[i].supporting \cap ObservedIds' # {}
                \/ i \in DOMAIN hypotheses /\ hypotheses'[i] = hypotheses[i]]_vars
  <2> SUFFICES ASSUME LoopInv, Shape, [Next]_vars, NEW i \in DOMAIN hypotheses',
                      hypotheses'[i].status = "supported"
               PROVE  \/ hypotheses'[i].supporting \cap ObservedIds' # {}
                      \/ i \in DOMAIN hypotheses /\ hypotheses'[i] = hypotheses[i]
    OBVIOUS
  <2>1. CASE UNCHANGED hypotheses
    BY <2>1
  <2>2. CASE Grown(hypotheses, hypotheses', ObservedIds) /\ UNCHANGED evidence
    <3>1. ObservedIds' = ObservedIds
      BY <2>2 DEF ObservedIds
    <3>2. DOMAIN hypotheses = 1..Len(hypotheses) /\ DOMAIN hypotheses' = 1..Len(hypotheses')
      BY <2>2, LenProperties DEF Grown, Shape
    <3> QED BY <2>2, <3>1, <3>2 DEF Grown
  <2> QED BY <2>1, <2>2, ShapeStep
<1>2. LoopInv /\ Shape /\ [Next]_vars => Shape'
  BY ShapeStep
<1> QED BY <1>1, <1>2, ShapeInit, LoopSound, PTL DEF Spec, SupportedIsObserved

-----------------------------------------------------------------------------
(* The calls of an execution of a run, and the trace it leaves: the batches *)
(* of the loop and its model calls as TracedCalls.tla details them.         *)

(* The collector, and what its operations make of it.                      *)

\* A span recorded has a parent that started before it, unless it is the first.
SpanOK(span, n) ==
    /\ span.parent \in 0..(n - 1) /\ (n # 1 => span.parent # 0)
    /\ span = [parent |-> span.parent, status |-> span.status, label |-> span.label]
    /\ span.status \in SpanStatuses /\ span.label \in Labels

CollectorOK(c) ==
    /\ c = [next |-> c.next, completed |-> c.completed, dropped |-> c.dropped, limit |-> c.limit]
    /\ c.limit \in Limits /\ c.dropped \in Nat
    /\ c.next \in 1..(c.limit + 1)
    /\ DOMAIN c.completed \subseteq 1..(c.next - 1)
    /\ \A n \in DOMAIN c.completed : SpanOK(c.completed[n], n)

\* A number and a parent that a span of this collector may have.
Given(c, number, parent) ==
    /\ number \in 0..(c.next - 1) /\ parent \in 0..c.limit
    /\ number # 0 => parent < number

LEMMA LimitTyped ==
    ASSUME CallsAssumption, NEW c, CollectorOK(c)
    PROVE  c.limit \in Nat \ {0} /\ c.next \in Nat \ {0} /\ c.next - 1 \in Nat
BY DEF CallsAssumption, CollectorOK

LEMMA ReservedIs ==
    ASSUME CallsAssumption, NEW c, CollectorOK(c)
    PROVE  /\ CollectorOK(Reserved(c))
           /\ Reserved(c).limit = c.limit
           /\ Reserved(c).completed = c.completed
           /\ Reserved(c).next >= c.next
           /\ \/ Number(c) = 0 /\ Reserved(c).next = c.next /\ c.next > 1
              \/ Number(c) = c.next /\ Reserved(c).next = c.next + 1
<1>1. c.limit \in Nat \ {0} /\ c.next \in Nat \ {0} /\ c.dropped \in Nat
    BY LimitTyped DEF CollectorOK
<1>2. CASE c.next > c.limit
    <2>1. Reserved(c) = [next |-> c.next, completed |-> c.completed,
                         dropped |-> c.dropped + 1, limit |-> c.limit]
        BY <1>2 DEF Reserved, CollectorOK
    <2>2. Number(c) = 0 /\ c.next > 1
        BY <1>1, <1>2 DEF Number, Inert
    <2> QED BY <1>1, <2>1, <2>2 DEF CollectorOK
<1>3. CASE ~(c.next > c.limit)
    <2>1. Reserved(c) = [next |-> c.next + 1, completed |-> c.completed,
                         dropped |-> c.dropped, limit |-> c.limit]
        BY <1>3 DEF Reserved, CollectorOK
    <2>2. Number(c) = c.next
        BY <1>3 DEF Number
    <2>3. DOMAIN c.completed \subseteq 1..((c.next + 1) - 1) /\ c.next + 1 \in 1..(c.limit + 1)
        BY <1>1, <1>3 DEF CollectorOK
    <2> QED BY <1>1, <2>1, <2>2, <2>3 DEF CollectorOK
<1> QED BY <1>2, <1>3

LEMMA FinishedIs ==
    ASSUME CallsAssumption, NEW c, CollectorOK(c), NEW number, NEW parent,
           Given(c, number, parent), NEW status \in SpanStatuses, NEW label \in Labels
    PROVE  /\ CollectorOK(Finished(c, number, parent, status, label))
           /\ Finished(c, number, parent, status, label).next = c.next
           /\ Finished(c, number, parent, status, label).limit = c.limit
           /\ DOMAIN Finished(c, number, parent, status, label).completed
                 = DOMAIN c.completed \cup ({number} \ {0})
           /\ number # 0 =>
                 /\ Finished(c, number, parent, status, label).completed[number].status = status
                 /\ Finished(c, number, parent, status, label).completed[number].label = label
<1> DEFINE span == [parent |-> EffectiveParent(number, parent), status |-> status, label |-> label]
           f == [n \in DOMAIN c.completed \cup {number} |->
                    IF n = number THEN span ELSE c.completed[n]]
           r == Finished(c, number, parent, status, label)
<1>1. c.limit \in Nat \ {0} /\ c.next \in Nat \ {0} /\ c.dropped \in Nat
    BY LimitTyped DEF CollectorOK
<1>2. CASE number = 0
    BY <1>1, <1>2 DEF Finished, Inert
<1>3. CASE number # 0
    <2>1. number \in 1..(c.next - 1) /\ parent \in 0..(number - 1)
        BY <1>1, <1>3 DEF Given
    <2>2. SpanOK(span, number)
        BY <2>1 DEF SpanOK, EffectiveParent
    <2> HIDE DEF span
    <2>3. DOMAIN f = {number} \cup DOMAIN c.completed
        OBVIOUS
    <2>4. f[number] = span
        OBVIOUS
    <2>5. \A n \in DOMAIN c.completed : n # number => f[n] = c.completed[n]
        OBVIOUS
    <2>6. r = [next |-> c.next, completed |-> f, dropped |-> c.dropped, limit |-> c.limit]
        BY <1>3 DEF Finished, Inert, CollectorOK, span
    <2> HIDE DEF f, r
    <2>7. r.completed = f /\ r.next = c.next /\ r.limit = c.limit /\ r.dropped = c.dropped
        BY <2>6
    <2>8. \A n \in DOMAIN f : SpanOK(f[n], n)
        BY <2>2, <2>3, <2>4, <2>5 DEF CollectorOK
    <2>9. CollectorOK(r)
        BY <1>1, <2>1, <2>3, <2>6, <2>7, <2>8 DEF CollectorOK
    <2>10. f[number].status = status /\ f[number].label = label
        BY <2>4 DEF span
    <2> QED BY <1>3, <2>3, <2>7, <2>9, <2>10 DEF r
<1> QED BY <1>2, <1>3

\* A snapshot is one tree, whatever was dropped or is still open.
LEMMA SnapshotIsATree ==
    ASSUME CallsAssumption, NEW c, CollectorOK(c)
    PROVE  IsRunTrace(Snapshot(c))
<1> DEFINE all == [n \in 1..(c.next - 1) |-> n]
           ordered == Selected(all, DOMAIN c.completed)
           spans == [i \in DOMAIN ordered |-> c.completed[ordered[i]]]
           earlier(i) == {j \in 1..(i - 1) : ordered[j] = spans[i].parent}
           tree == [i \in DOMAIN spans |->
                      [spans[i] EXCEPT !.parent = RemappedParent(i, @, earlier(i))]]
<1>1. Snapshot(c) = tree
    BY DEF Snapshot
<1>2. /\ all \in Seq(Nat) /\ Len(all) = c.next - 1 /\ DOMAIN all = 1..(c.next - 1)
      /\ \A n \in 1..(c.next - 1) : all[n] = n
    BY LimitTyped
<1> HIDE DEF all
<1>3. /\ Len(ordered) \in Nat /\ DOMAIN ordered = 1..Len(ordered)
      /\ \A k \in DOMAIN ordered :
           \E i \in DOMAIN c.completed \cap DOMAIN all : ordered[k] = all[i]
    <2>0. PICK places : places = DOMAIN c.completed
        OBVIOUS
    <2>1. PICK seq \in Seq(Nat) : seq = all
        BY <1>2
    <2>2. /\ Len(Selected(seq, places)) \in Nat
          /\ DOMAIN Selected(seq, places) = 1..Len(Selected(seq, places))
          /\ \A k \in DOMAIN Selected(seq, places) :
                \E i \in places \cap DOMAIN seq : Selected(seq, places)[k] = seq[i]
        BY SelectedItems
    <2> QED BY <2>0, <2>1, <2>2 DEF ordered
<1> HIDE DEF ordered
<1>4. \A k \in DOMAIN ordered : ordered[k] \in DOMAIN c.completed
    BY <1>2, <1>3
<1>6. ASSUME NEW i \in DOMAIN ordered, i # 1
      PROVE  ordered[i] # 1
    <2>1. PICK p : Places(p, ordered, all, DOMAIN c.completed, Len(all))
        <3>1. Len(all) \in Nat
            BY <1>2, LimitTyped
        <3>2. Keeps(ordered, all, DOMAIN c.completed, Len(all))
            BY <3>1, SelectedKeeps DEF ordered
        <3> QED BY <3>2 DEF Keeps
    <2>2. i \in Nat /\ i > 1 /\ 1 \in 1..Len(ordered) /\ i \in 1..Len(ordered)
        BY <1>3, <1>6
    <2>3. p[1] \in 1..(c.next - 1) /\ p[i] \in 1..(c.next - 1) /\ p[1] < p[i]
        BY <1>2, <2>1, <2>2 DEF Places
    <2>4. ordered[i] = p[i]
        BY <1>2, <2>1, <2>2, <2>3 DEF Places
    <2> QED BY <2>3, <2>4, LimitTyped
<1>7. ASSUME NEW i \in DOMAIN ordered
      PROVE  IF i = 1 THEN tree[i].parent = 0 ELSE tree[i].parent \in 1..(i - 1)
    <2>1. spans[i] = c.completed[ordered[i]] /\ SpanOK(spans[i], ordered[i])
        BY <1>4 DEF CollectorOK
    <2>2. i \in Nat /\ i >= 1
        BY <1>3
    <2>3. tree[i].parent = RemappedParent(i, spans[i].parent, earlier(i))
        BY <2>1 DEF SpanOK
    <2>4. CASE i = 1
        BY <2>3, <2>4 DEF RemappedParent
    <2>5. CASE i # 1 /\ earlier(i) # {}
        <3>1. spans[i].parent # 0 /\ i > 1
            BY <1>6, <2>1, <2>2, <2>5 DEF SpanOK
        <3>2. tree[i].parent = CHOOSE j \in earlier(i) : TRUE
            BY <2>3, <2>5, <3>1 DEF RemappedParent
        <3>3. tree[i].parent \in earlier(i)
            BY <2>5, <3>2
        <3> QED BY <2>5, <3>3
    <2>6. CASE i # 1 /\ earlier(i) = {}
        <3>1. spans[i].parent # 0 /\ i > 1
            BY <1>6, <2>1, <2>2, <2>6 DEF SpanOK
        <3>2. tree[i].parent = 1
            BY <2>3, <2>6, <3>1 DEF RemappedParent
        <3> QED BY <2>2, <2>6, <3>1, <3>2
    <2> QED BY <2>4, <2>5, <2>6
<1>8. DOMAIN tree = 1..Len(ordered)
    BY <1>3
<1> HIDE DEF tree
<1>9. \A i \in DOMAIN tree : tree[i].parent \in 0..(i - 1)
    BY <1>3, <1>7, <1>8
<1>10. ASSUME tree # <<>>
       PROVE  \E root \in DOMAIN tree : {i \in DOMAIN tree : tree[i].parent = 0} = {root}
    <2>1. 1 \in DOMAIN tree
        <3>1. CASE Len(ordered) = 0
            <4>1. DOMAIN tree = {}
                BY <1>8, <3>1
            <4>2. tree = [i \in {} |-> 0]
                BY <4>1 DEF tree
            <4> QED BY <1>10, <4>2
        <3> QED BY <1>3, <1>8, <3>1
    <2>2. {i \in DOMAIN tree : tree[i].parent = 0} = {1}
        BY <1>3, <1>7, <1>8, <2>1
    <2> QED BY <2>1, <2>2
<1> QED BY <1>1, <1>9, <1>10 DEF IsRunTrace

\* A snapshot of a collector that knows how every number it gave ended is just that.
LEMMA SnapshotOfAll ==
    ASSUME CallsAssumption, NEW c, CollectorOK(c), 1..(c.next - 1) \subseteq DOMAIN c.completed
    PROVE  Snapshot(c) = [n \in 1..(c.next - 1) |-> c.completed[n]]
<1> DEFINE all == [n \in 1..(c.next - 1) |-> n]
           ordered == Selected(all, DOMAIN c.completed)
           spans == [i \in DOMAIN ordered |-> c.completed[ordered[i]]]
           earlier(i) == {j \in 1..(i - 1) : ordered[j] = spans[i].parent}
           tree == [i \in DOMAIN spans |->
                      [spans[i] EXCEPT !.parent = RemappedParent(i, @, earlier(i))]]
<1>1. Snapshot(c) = tree
    BY DEF Snapshot
<1>2. ordered = all
    <2>1. all \in Seq(Nat) /\ Len(all) = c.next - 1
        BY LimitTyped
    <2>0. PICK places : places = DOMAIN c.completed
        OBVIOUS
    <2>2. PICK seq \in Seq(Nat) : seq = all
        BY <2>1
    <2>3. 1..Len(seq) \subseteq places
        BY <2>0, <2>1, <2>2
    <2>4. Selected(seq, places) = seq
        BY <2>3, SelectedAll
    <2> QED BY <2>0, <2>2, <2>4
<1> HIDE DEF ordered
<1>3. ASSUME NEW i \in 1..(c.next - 1)
      PROVE  tree[i] = c.completed[i]
    <2>1. /\ i \in DOMAIN ordered /\ ordered[i] = i /\ i \in Nat /\ i >= 1
          /\ \A j \in 1..(i - 1) : ordered[j] = j
        BY <1>2, LimitTyped
    <2>2. spans[i] = c.completed[i] /\ SpanOK(c.completed[i], i)
        BY <2>1 DEF CollectorOK
    <2>3. tree[i] = [c.completed[i] EXCEPT !.parent =
                        RemappedParent(i, c.completed[i].parent, earlier(i))]
        BY <2>1, <2>2
    <2>4. RemappedParent(i, c.completed[i].parent, earlier(i)) = c.completed[i].parent
        <3>1. CASE i = 1
            BY <2>2, <3>1 DEF SpanOK, RemappedParent
        <3>2. CASE i # 1
            <4>1. c.completed[i].parent \in 1..(i - 1)
                BY <2>1, <2>2, <3>2 DEF SpanOK
            <4>2. earlier(i) = {c.completed[i].parent}
                BY <2>1, <2>2, <4>1
            <4>3. (CHOOSE j \in {c.completed[i].parent} : TRUE) = c.completed[i].parent
                OBVIOUS
            <4> QED BY <2>1, <3>2, <4>1, <4>2, <4>3 DEF RemappedParent
        <3> QED BY <3>1, <3>2
    <2> QED BY <2>2, <2>3, <2>4 DEF SpanOK
<1>4. DOMAIN tree = 1..(c.next - 1)
    BY <1>2
<1> QED BY <1>1, <1>3, <1>4

-----------------------------------------------------------------------------
(* What a step of a task does to the spans of its task.                    *)

\* The spans a task may have entered.
Frames(c) ==
    {f \in [number : 0..(c.next - 1), parent : 0..c.limit, label : Labels] :
        f.number # 0 => f.parent < f.number}

ViewOK(v) ==
    /\ v = [collector |-> v.collector, stack |-> v.stack, task |-> v.task, outer |-> v.outer]
    /\ CollectorOK(v.collector) /\ v.task \in Tasks
    /\ v.stack \in Seq(Frames(v.collector)) /\ v.outer \in Seq(Frames(v.collector))

\* Numbers given that are neither completed nor held by the task.
Missing(v) == (1..(v.collector.next - 1)) \ (DOMAIN v.collector.completed \cup Numbers(v.stack))

\* w is v after spans were entered and left: none was forgotten.
Follows(v, w) ==
    /\ ViewOK(w) /\ w.task = v.task /\ w.outer = v.outer
    /\ w.collector.limit = v.collector.limit /\ w.collector.next >= v.collector.next
    /\ DOMAIN v.collector.completed \subseteq DOMAIN w.collector.completed
    /\ Missing(w) \subseteq Missing(v)

\* The span f was left with this status.
EndedAs(c, f, status) ==
    f.number # 0 => /\ c.completed[f.number].status = status
                    /\ c.completed[f.number].label.kind = f.label.kind

LEMMA FollowsIsTransitive ==
    ASSUME CallsAssumption, NEW u, NEW v, NEW w, ViewOK(u), Follows(u, v), Follows(v, w)
    PROVE  Follows(u, w)
<1>1. u.collector.next \in Nat /\ v.collector.next \in Nat /\ w.collector.next \in Nat
    BY LimitTyped DEF Follows, ViewOK
<1> QED BY <1>1 DEF Follows

\* Time passes for a stack: it remains one of the collector.
LEMMA FramesGrow ==
    ASSUME CallsAssumption, NEW c, NEW d, CollectorOK(c), CollectorOK(d),
           d.limit = c.limit, d.next >= c.next, NEW s \in Seq(Frames(c))
    PROVE  s \in Seq(Frames(d))
<1>1. c.next \in Nat /\ d.next \in Nat
    BY LimitTyped
<1>2. Frames(c) \subseteq Frames(d)
    BY <1>1 DEF Frames
<1>3. \A i \in 1..Len(s) : s[i] \in Frames(d)
    BY <1>2, LenProperties
<1> QED BY <1>3, LenProperties

\* A number set has a greatest member.
LEMMA MaxIsMember ==
    ASSUME NEW n \in Nat, NEW N, N \subseteq 0..n, N # {}
    PROVE  Max(N) \in N /\ \A k \in N : k <= Max(N)
<1> DEFINE U == {u \in Nat : \A k \in N : k <= u}
<1>1. n \in U
    OBVIOUS
<1>2. PICK m \in U : \A u \in U : m <= u
    BY <1>1, LeastNumber
<1>3. m \in N
    <2>1. CASE m = 0
        <3>1. PICK k \in N : TRUE
            OBVIOUS
        <3> QED BY <2>1, <3>1
    <2>2. CASE m # 0 /\ m \notin N
        <3>1. m - 1 \in Nat /\ \A k \in N : k <= m - 1
            BY <2>2
        <3>2. m - 1 \in U
            BY <3>1
        <3> QED BY <1>2, <3>1, <3>2
    <2> QED BY <2>1, <2>2
<1>4. \E x \in N : \A y \in N : x >= y
    BY <1>2, <1>3
<1>5. Max(N) \in N /\ \A y \in N : Max(N) >= y
    BY <1>4 DEF Max
<1> QED BY <1>5

\* The parent of the next span started before it.
LEMMA ParentIsEarlier ==
    ASSUME CallsAssumption, NEW v, ViewOK(v)
    PROVE  Parent(v) \in 0..(v.collector.next - 1)
<1> DEFINE N == {0} \cup Numbers(v.outer) \cup Numbers(v.stack)
<1>1. v.collector.next - 1 \in Nat
    BY LimitTyped DEF ViewOK
<1>2. \A s \in Seq(Frames(v.collector)) : Numbers(s) \subseteq 0..(v.collector.next - 1)
    BY LenProperties DEF Numbers, Frames
<1>3. N \subseteq 0..(v.collector.next - 1) /\ N # {}
    BY <1>1, <1>2 DEF ViewOK
<1>4. Parent(v) = Max(N)
    BY DEF Parent
<1> HIDE DEF N
<1>5. Max(N) \in N
    BY <1>1, <1>3, MaxIsMember
<1> QED BY <1>3, <1>4, <1>5

\* The items of the stack a task has entered a span more.
LEMMA NumbersAppended ==
    ASSUME NEW S, NEW s \in Seq(S), NEW f \in S
    PROVE  Numbers(Append(s, f)) = Numbers(s) \cup {f.number}
<1>1. /\ Len(s) \in Nat /\ DOMAIN s = 1..Len(s)
      /\ DOMAIN Append(s, f) = 1..(Len(s) + 1)
      /\ \A i \in 1..Len(s) : Append(s, f)[i] = s[i]
      /\ Append(s, f)[Len(s) + 1] = f
    BY AppendProperties, LenProperties
<1> HIDE DEF Numbers
<1>2. Numbers(Append(s, f)) \subseteq Numbers(s) \cup {f.number}
    BY <1>1 DEF Numbers
<1>3. Numbers(s) \subseteq Numbers(Append(s, f))
    BY <1>1 DEF Numbers
<1>4. f.number \in Numbers(Append(s, f))
    <2>1. Len(s) + 1 \in DOMAIN Append(s, f)
        BY <1>1
    <2> QED BY <1>1, <2>1 DEF Numbers
<1> QED BY <1>2, <1>3, <1>4

\* A task that enters or leaves a span changes its collector and its stack.
LEMMA ChangedView ==
    ASSUME NEW v,
           v = [collector |-> v.collector, stack |-> v.stack, task |-> v.task, outer |-> v.outer],
           NEW d, NEW s, NEW w, w = [v EXCEPT !.collector = d, !.stack = s]
    PROVE  w = [collector |-> d, stack |-> s, task |-> v.task, outer |-> v.outer]
<1>1. PICK a, b, t, o : v = [collector |-> a, stack |-> b, task |-> t, outer |-> o]
    OBVIOUS
<1>2. /\ w.collector = d /\ w.stack = s /\ w.task = t /\ w.outer = o
      /\ w = [collector |-> w.collector, stack |-> w.stack, task |-> w.task, outer |-> w.outer]
    BY <1>1
<1>3. v.task = t /\ v.outer = o
    BY <1>1
<1> QED BY <1>2, <1>3

\* A span entered is the inmost of its task.
LEMMA EnterIs ==
    ASSUME CallsAssumption, NEW v, ViewOK(v), NEW kind \in Kinds
    PROVE  /\ Follows(v, Enter(v, kind))
           /\ Len(Enter(v, kind).stack) = Len(v.stack) + 1
           /\ \A i \in 1..Len(v.stack) : Enter(v, kind).stack[i] = v.stack[i]
           /\ Enter(v, kind).stack[Len(v.stack) + 1].number = Number(v.collector)
           /\ Enter(v, kind).stack[Len(v.stack) + 1].label.kind = kind
<1> DEFINE c == v.collector
           d == Reserved(c)
           f == [number |-> Number(c), parent |-> Parent(v), label |-> Label(kind, v.task)]
           w == Enter(v, kind)
<1>1. w = [collector |-> d, stack |-> Append(v.stack, f), task |-> v.task, outer |-> v.outer]
    <2>1. w = [v EXCEPT !.collector = d, !.stack = Append(v.stack, f)]
        BY DEF Enter
    <2> HIDE DEF d, f, w
    <2> QED BY <2>1, ChangedView DEF ViewOK
<1>2. CollectorOK(c) /\ c.limit \in Nat \ {0} /\ c.next \in Nat \ {0} /\ c.next <= c.limit + 1
    <2>1. CollectorOK(c)
        BY DEF ViewOK
    <2>2. c.limit \in Nat \ {0} /\ c.next \in Nat \ {0}
        BY <2>1, LimitTyped
    <2> QED BY <2>1, <2>2 DEF CollectorOK
<1>3. /\ CollectorOK(d) /\ d.limit = c.limit /\ d.completed = c.completed /\ d.next >= c.next
      /\ \/ Number(c) = 0 /\ d.next = c.next /\ c.next > 1
         \/ Number(c) = c.next /\ d.next = c.next + 1
    BY <1>2, ReservedIs
<1> HIDE DEF d
<1>4. f \in Frames(d)
    <2>1. Parent(v) \in 0..(c.next - 1)
        BY ParentIsEarlier
    <2>2. Label(kind, v.task) \in Labels
        BY DEF Label, Labels, ViewOK, Codes
    <2>3. Number(c) \in 0..(d.next - 1) /\ Parent(v) \in 0..d.limit
        BY <1>2, <1>3, <2>1
    <2>4. Number(c) # 0 => Parent(v) < Number(c)
        BY <1>2, <1>3, <2>1
    <2> QED BY <2>2, <2>3, <2>4 DEF Frames
<1>5. v.stack \in Seq(Frames(d)) /\ v.outer \in Seq(Frames(d))
    BY <1>2, <1>3, FramesGrow DEF ViewOK
<1>6. /\ Append(v.stack, f) \in Seq(Frames(d))
      /\ Len(Append(v.stack, f)) = Len(v.stack) + 1
      /\ \A i \in 1..Len(v.stack) : Append(v.stack, f)[i] = v.stack[i]
      /\ Append(v.stack, f)[Len(v.stack) + 1] = f
    <2> HIDE DEF f
    <2> QED BY <1>4, <1>5, AppendProperties
<1>7. Numbers(Append(v.stack, f)) = Numbers(v.stack) \cup {Number(c)}
    <2>1. Numbers(Append(v.stack, f)) = Numbers(v.stack) \cup {f.number}
        <3> HIDE DEF f
        <3> QED BY <1>4, <1>5, NumbersAppended
    <2> QED BY <2>1
<1>8. f.number = Number(c) /\ f.label.kind = kind
    BY DEF Label
<1> HIDE DEF f, w
<1>9. w.collector = d /\ w.stack = Append(v.stack, f) /\ w.task = v.task /\ w.outer = v.outer
    BY <1>1
<1>10. ViewOK(w)
    BY <1>1, <1>3, <1>5, <1>6, <1>9 DEF ViewOK
<1>11. Missing(w) \subseteq Missing(v)
    <2>1. ASSUME NEW n \in Missing(w) PROVE n \in Missing(v)
        <3>1. /\ n \in 1..(d.next - 1) /\ n \notin DOMAIN c.completed
              /\ n \notin Numbers(v.stack) /\ n # Number(c)
            BY <1>3, <1>7, <1>9, <2>1 DEF Missing
        <3>2. n \in 1..(c.next - 1)
            BY <1>2, <1>3, <3>1
        <3> QED BY <3>1, <3>2 DEF Missing
    <2> QED BY <2>1
<1>12. Follows(v, w)
    BY <1>3, <1>9, <1>10, <1>11 DEF Follows
<1> QED BY <1>6, <1>8, <1>9, <1>12 DEF w

\* What is left is the last span entered; the ones around it stay open.
LEMMA LeaveIs ==
    ASSUME CallsAssumption, NEW v, ViewOK(v), v.stack # <<>>,
           NEW status \in SpanStatuses, NEW note \in Codes \cup CallStatuses
    PROVE  /\ Follows(v, LeaveNoted(v, status, note))
           /\ LeaveNoted(v, status, note).collector.next = v.collector.next
           /\ Len(LeaveNoted(v, status, note).stack) = Len(v.stack) - 1
           /\ \A i \in 1..(Len(v.stack) - 1) :
                 LeaveNoted(v, status, note).stack[i] = v.stack[i]
           /\ EndedAs(LeaveNoted(v, status, note).collector, v.stack[Len(v.stack)], status)
<1> DEFINE c == v.collector
           f == v.stack[Len(v.stack)]
           label == [f.label EXCEPT !.note = note]
           d == Finished(c, f.number, f.parent, status, label)
           w == LeaveNoted(v, status, note)
           rest == SubSeq(v.stack, 1, Len(v.stack) - 1)
<1>1. w = [collector |-> d, stack |-> rest, task |-> v.task, outer |-> v.outer]
    <2>1. w = [v EXCEPT !.collector = d, !.stack = rest]
        BY DEF LeaveNoted, Last, Front
    <2> HIDE DEF d, rest, w
    <2> QED BY <2>1, ChangedView DEF ViewOK
<1>2. /\ CollectorOK(c) /\ v.stack \in Seq(Frames(c)) /\ Len(v.stack) \in Nat \ {0}
      /\ v.outer \in Seq(Frames(c)) /\ v.task \in Tasks
    BY LenProperties, EmptySeq DEF ViewOK
<1>3. c.limit \in Nat \ {0} /\ c.next \in Nat \ {0}
    BY <1>2, LimitTyped
<1>4. f \in Frames(c)
    BY <1>2, LenProperties
<1>5. Given(c, f.number, f.parent) /\ f.label \in Labels
    BY <1>4 DEF Frames, Given
<1>6. label \in Labels /\ label.kind = f.label.kind
    BY <1>5 DEF Labels
<1> HIDE DEF f, label
<1>7. /\ CollectorOK(d) /\ d.next = c.next /\ d.limit = c.limit
      /\ DOMAIN d.completed = DOMAIN c.completed \cup ({f.number} \ {0})
      /\ f.number # 0 => d.completed[f.number].status = status
                         /\ d.completed[f.number].label = label
    BY <1>2, <1>5, <1>6, FinishedIs
<1>8. /\ rest \in Seq(Frames(c)) /\ Len(rest) = Len(v.stack) - 1
      /\ \A i \in 1..(Len(v.stack) - 1) : rest[i] = v.stack[i]
    <2>1. \A i \in 1..(Len(v.stack) - 1) : v.stack[i] \in Frames(c)
        BY <1>2, LenProperties
    <2> QED BY <1>2, <2>1, SubSeqProperties
<1> HIDE DEF d, rest, w
<1>9. Frames(d) = Frames(c)
    BY <1>7 DEF Frames
<1>10. w.collector = d /\ w.stack = rest /\ w.task = v.task /\ w.outer = v.outer
    BY <1>1
<1>11. ViewOK(w)
    BY <1>1, <1>2, <1>7, <1>8, <1>9, <1>10 DEF ViewOK
<1>12. Numbers(v.stack) \subseteq Numbers(rest) \cup {f.number}
    <2>1. ASSUME NEW i \in DOMAIN v.stack
          PROVE  v.stack[i].number \in Numbers(rest) \cup {f.number}
        <3>1. CASE i = Len(v.stack)
            BY <3>1 DEF f
        <3>2. CASE i # Len(v.stack)
            <4>1. i \in 1..(Len(v.stack) - 1)
                BY <1>2, <3>2, LenProperties
            <4>2. i \in DOMAIN rest
                BY <1>8, <4>1, LenProperties
            <4> QED BY <1>8, <4>1, <4>2 DEF Numbers
        <3> QED BY <3>1, <3>2
    <2> QED BY <2>1 DEF Numbers
<1>13. Missing(w) \subseteq Missing(v)
    <2>1. ASSUME NEW n \in Missing(w) PROVE n \in Missing(v)
        <3>1. /\ n \in 1..(c.next - 1) /\ n \notin DOMAIN d.completed /\ n \notin Numbers(rest)
            BY <1>7, <1>10, <2>1 DEF Missing
        <3>2. n # 0 /\ n # f.number /\ n \notin DOMAIN c.completed
            BY <1>3, <1>7, <3>1
        <3> QED BY <1>12, <3>1, <3>2 DEF Missing
    <2> QED BY <2>1
<1>14. Follows(v, w)
    BY <1>3, <1>7, <1>10, <1>11, <1>13 DEF Follows
<1>15. EndedAs(d, f, status)
    BY <1>6, <1>7 DEF EndedAs
<1> QED BY <1>7, <1>8, <1>10, <1>14, <1>15 DEF w, f

\* The measurement of a request leaves the spans of its task open.
LEMMA MeasuredIs ==
    ASSUME CallsAssumption, NEW v, ViewOK(v), NEW status \in CallStatuses
    PROVE  Follows(v, Measured(v, status)) /\ Measured(v, status).stack = v.stack
<1> DEFINE c == v.collector
           r == Reserved(c)
           span == IF status = "succeeded" THEN "ok" ELSE "error"
           label == [Label("model", Main) EXCEPT !.note = status]
           d == Finished(r, Number(c), Parent(v), span, label)
           w == Measured(v, status)
<1>1. w = [collector |-> d, stack |-> v.stack, task |-> v.task, outer |-> v.outer]
    BY DEF Measured, SpanRecorded, ViewOK
<1>2. CollectorOK(c) /\ c.limit \in Nat \ {0} /\ c.next \in Nat \ {0} /\ c.next <= c.limit + 1
    <2>1. CollectorOK(c)
        BY DEF ViewOK
    <2>2. c.limit \in Nat \ {0} /\ c.next \in Nat \ {0}
        BY <2>1, LimitTyped
    <2> QED BY <2>1, <2>2 DEF CollectorOK
<1>3. /\ CollectorOK(r) /\ r.limit = c.limit /\ r.completed = c.completed /\ r.next >= c.next
      /\ \/ Number(c) = 0 /\ r.next = c.next /\ c.next > 1
         \/ Number(c) = c.next /\ r.next = c.next + 1
    BY <1>2, ReservedIs
<1>4. span \in SpanStatuses /\ label \in Labels
    BY DEF SpanStatuses, Label, Labels, Kinds, Tasks
<1>5. Given(r, Number(c), Parent(v))
    <2>1. Parent(v) \in 0..(c.next - 1)
        BY ParentIsEarlier
    <2> QED BY <1>2, <1>3, <2>1 DEF Given
<1> HIDE DEF r, span, label
<1>6. /\ CollectorOK(d) /\ d.next = r.next /\ d.limit = r.limit
      /\ DOMAIN d.completed = DOMAIN r.completed \cup ({Number(c)} \ {0})
    BY <1>3, <1>4, <1>5, FinishedIs
<1> HIDE DEF d, w
<1>7. w.collector = d /\ w.stack = v.stack /\ w.task = v.task /\ w.outer = v.outer
    BY <1>1
<1>8. v.stack \in Seq(Frames(d)) /\ v.outer \in Seq(Frames(d))
    BY <1>2, <1>3, <1>6, FramesGrow DEF ViewOK
<1>9. ViewOK(w)
    BY <1>1, <1>6, <1>7, <1>8 DEF ViewOK
<1>10. Missing(w) \subseteq Missing(v)
    <2>1. ASSUME NEW n \in Missing(w) PROVE n \in Missing(v)
        <3>1. /\ n \in 1..(r.next - 1) /\ n \notin DOMAIN d.completed /\ n \notin Numbers(v.stack)
            BY <1>6, <1>7, <2>1 DEF Missing
        <3>2. n \in Nat /\ n # 0 /\ n # Number(c) /\ n \notin DOMAIN c.completed
            BY <1>2, <1>3, <1>6, <3>1
        <3>3. n \in 1..(c.next - 1)
            BY <1>2, <1>3, <3>1, <3>2
        <3> QED BY <3>1, <3>2, <3>3 DEF Missing
    <2> QED BY <2>1
<1>11. Follows(v, w)
    BY <1>3, <1>6, <1>7, <1>9, <1>10 DEF Follows
<1> QED BY <1>7, <1>11 DEF w

LEMMA FollowsItself ==
    ASSUME CallsAssumption, NEW v, ViewOK(v)
    PROVE  Follows(v, v)
BY LimitTyped DEF ViewOK, Follows

\* left[n] is v after n of its spans were left.
Unwinds(left, v, status, k) ==
    left = [n \in 0..k |-> IF n = 0 THEN v ELSE Leave(left[n - 1], status)]

LEMMA UnwindingExists ==
    ASSUME NEW v, NEW status, NEW k \in Nat
    PROVE  \E left : Unwinds(left, v, status, k)
<1> DEFINE S == {n \in 0..k : \E left : Unwinds(left, v, status, n)}
<1>1. 0 \in S
    <2>1. Unwinds([n \in 0..0 |-> v], v, status, 0)
        BY DEF Unwinds
    <2> QED BY <2>1
<1>2. ASSUME NEW n \in 0..(k - 1), n \in S PROVE n + 1 \in S
    <2>1. PICK f : Unwinds(f, v, status, n)
        BY <1>2
    <2> DEFINE g == [i \in 0..(n + 1) |-> IF i = n + 1 THEN Leave(f[n], status) ELSE f[i]]
    <2>2. \A i \in 0..(n + 1) : g[i] = IF i = 0 THEN v ELSE Leave(g[i - 1], status)
        <3> TAKE i \in 0..(n + 1)
        <3>1. CASE i = n + 1
            <4>1. g[i - 1] = f[n] /\ i - 1 = n
                BY <3>1
            <4> QED BY <3>1, <4>1
        <3>2. CASE i # n + 1
            <4>1. i \in 0..n
                BY <3>2
            <4>2. f[i] = IF i = 0 THEN v ELSE Leave(f[i - 1], status)
                BY <2>1, <4>1 DEF Unwinds
            <4>3. g[i] = f[i] /\ (i # 0 => g[i - 1] = f[i - 1])
                BY <3>2, <4>1
            <4> QED BY <4>2, <4>3
        <3> QED BY <3>1, <3>2
    <2>3. Unwinds(g, v, status, n + 1)
        BY <2>2 DEF Unwinds
    <2> QED BY <2>3
<1> HIDE DEF S
<1>3. k \in S
    BY <1>1, <1>2, InductionUpTo
<1> QED BY <1>3 DEF S

\* A task unwound has left every span above the depth, and forgotten none; what
\* becomes of the first span is known when all are left.
LEMMA UnwoundIs ==
    ASSUME CallsAssumption, NEW v, ViewOK(v), NEW depth \in 0..Len(v.stack),
           NEW status \in SpanStatuses
    PROVE  /\ Follows(v, Unwound(v, depth, status))
           /\ Unwound(v, depth, status).collector.next = v.collector.next
           /\ Len(Unwound(v, depth, status).stack) = depth
           /\ \A i \in 1..depth : Unwound(v, depth, status).stack[i] = v.stack[i]
           /\ (depth = 0 /\ v.stack # <<>>) =>
                 EndedAs(Unwound(v, depth, status).collector, v.stack[1], status)
<1>1. PICK k \in Nat, m \in Nat : m = Len(v.stack) /\ k = m - depth /\ k <= m
    <2>1. Len(v.stack) \in Nat
        BY LenProperties DEF ViewOK
    <2>2. Len(v.stack) - depth \in Nat /\ Len(v.stack) - depth <= Len(v.stack)
        BY <2>1
    <2> QED BY <2>1, <2>2
<1>0. "none" \in Codes \cup CallStatuses
    BY DEF Codes
<1>2. PICK left : Unwinds(left, v, status, k) /\ Unwound(v, depth, status) = left[k]
    <2> DEFINE left == CHOOSE left : Unwinds(left, v, status, k)
    <2>1. Unwinds(left, v, status, k)
        BY UnwindingExists
    <2>2. Unwound(v, depth, status) = left[k]
        BY <1>1 DEF Unwound, Unwinds
    <2> QED BY <2>1, <2>2
<1>3. /\ left[0] = v
      /\ \A n \in 0..(k - 1) : left[n + 1] = LeaveNoted(left[n], status, "none")
    BY <1>2 DEF Unwinds, Leave
<1> DEFINE P(n) == /\ Follows(v, left[n])
                   /\ left[n].collector.next = v.collector.next
                   /\ Len(left[n].stack) = m - n
                   /\ \A i \in 1..(m - n) : left[n].stack[i] = v.stack[i]
           S == {n \in 0..k : P(n)}
<1>4. 0 \in S
    BY <1>1, <1>3, FollowsItself
<1>5. ASSUME NEW n \in 0..(k - 1), n \in S
      PROVE  n + 1 \in S
    <2>1. PICK u : u = left[n]
        OBVIOUS
    <2>2. /\ ViewOK(u) /\ Follows(v, u) /\ u.collector.next = v.collector.next
          /\ Len(u.stack) = m - n /\ \A i \in 1..(m - n) : u.stack[i] = v.stack[i]
        BY <1>5, <2>1 DEF Follows
    <2>3. u.stack # <<>>
        BY <1>1, <2>2
    <2>4. PICK w : w = LeaveNoted(u, status, "none") /\ w = left[n + 1]
        BY <1>3, <2>1
    <2>5. /\ Follows(u, w) /\ w.collector.next = u.collector.next
          /\ Len(w.stack) = Len(u.stack) - 1
          /\ \A i \in 1..(Len(u.stack) - 1) : w.stack[i] = u.stack[i]
        <3>1. /\ Follows(u, LeaveNoted(u, status, "none"))
              /\ LeaveNoted(u, status, "none").collector.next = u.collector.next
              /\ Len(LeaveNoted(u, status, "none").stack) = Len(u.stack) - 1
              /\ \A i \in 1..(Len(u.stack) - 1) :
                    LeaveNoted(u, status, "none").stack[i] = u.stack[i]
            <4> HIDE DEF P, S
            <4> QED BY <1>0, <2>2, <2>3, LeaveIs
        <3> QED BY <2>4, <3>1
    <2>6. Follows(v, w)
        BY <2>2, <2>5, FollowsIsTransitive
    <2>7. Len(w.stack) = m - (n + 1) /\ \A i \in 1..(m - (n + 1)) : w.stack[i] = v.stack[i]
        <3>1. (m - n) - 1 = m - (n + 1)
            BY <1>1
        <3>2. Len(w.stack) = m - (n + 1)
            BY <2>2, <2>5, <3>1
        <3>3. ASSUME NEW i \in 1..(m - (n + 1)) PROVE w.stack[i] = v.stack[i]
            <4>1. i \in 1..(m - n) /\ i \in 1..(Len(u.stack) - 1)
                BY <1>1, <2>2, <3>1
            <4>2. u.stack[i] = v.stack[i]
                BY <2>2, <4>1
            <4> QED BY <2>5, <4>1, <4>2
        <3> HIDE DEF P, S
        <3> QED BY <3>2, <3>3
    <2>8. w.collector.next = v.collector.next
        BY <2>2, <2>5
    <2>9. P(n + 1)
        BY <2>4, <2>6, <2>7, <2>8
    <2>10. n + 1 \in 0..k
        BY <1>1
    <2> HIDE DEF P
    <2> QED BY <2>9, <2>10
<1> HIDE DEF S
<1>6. k \in S /\ \A n \in 0..k : n \in S
    <2>1. \A n \in 0..(k - 1) : n \in S => n + 1 \in S
        BY <1>5
    <2>2. \A n \in 0..k : n \in S
        BY <1>1, <1>4, <2>1, InductionUpTo
    <2> QED BY <1>1, <2>2
<1>7. P(k)
    BY <1>6 DEF S
<1>8. ASSUME depth = 0, v.stack # <<>>
      PROVE  EndedAs(left[k].collector, v.stack[1], status)
    <2>1. m # 0 /\ k = m
        BY <1>1, <1>8, EmptySeq DEF ViewOK
    <2>2. PICK u : u = left[k - 1]
        OBVIOUS
    <2>3. k - 1 \in S
        BY <1>6, <2>1
    <2>4. ViewOK(u) /\ Len(u.stack) = 1 /\ u.stack[1] = v.stack[1]
        <3>1. P(k - 1)
            BY <2>3 DEF S
        <3>2. /\ ViewOK(u) /\ Len(u.stack) = m - (k - 1)
              /\ \A i \in 1..(m - (k - 1)) : u.stack[i] = v.stack[i]
            BY <2>2, <3>1 DEF Follows
        <3> HIDE DEF P, S
        <3>3. m - (k - 1) = 1 /\ 1 \in 1..1
            BY <1>1, <2>1
        <3>4. Len(u.stack) = 1
            BY <3>2, <3>3
        <3>5. u.stack[1] = v.stack[1]
            BY <3>2, <3>3
        <3> QED BY <3>2, <3>4, <3>5
    <2>5. u.stack # <<>>
        BY <2>4
    <2>6. PICK w : w = LeaveNoted(u, status, "none") /\ w = left[k]
        <3>1. k - 1 \in 0..(k - 1) /\ (k - 1) + 1 = k
            BY <2>1
        <3> QED BY <1>3, <2>2, <3>1
    <2>7. EndedAs(LeaveNoted(u, status, "none").collector, u.stack[Len(u.stack)], status)
        <3> HIDE DEF P, S
        <3> QED BY <1>0, <2>4, <2>5, LeaveIs
    <2> QED BY <1>8, <2>4, <2>6, <2>7
<1> HIDE DEF P
<1>9. /\ Follows(v, left[k])
      /\ left[k].collector.next = v.collector.next
      /\ Len(left[k].stack) = depth
      /\ \A i \in 1..depth : left[k].stack[i] = v.stack[i]
    BY <1>1, <1>7 DEF P
<1> QED BY <1>2, <1>8, <1>9
-----------------------------------------------------------------------------
(* The inductive invariant.                                                *)

SpansOK == CollectorOK(collector) /\ open \in [Tasks -> Seq(Frames(collector))]

\* Every number given belongs to a span that is completed or still open.
NothingForgotten ==
    \A n \in 1..(collector.next - 1) :
        n \in DOMAIN collector.completed \/ \E t \in Tasks : n \in Numbers(open[t])

\* The spans around what the execution waits for: the run and the retrieval; the run,
\* the workflow and the turn; the call and its attempt.
Depth(p) ==
    CASE p = "retrieving" -> 2 [] p \in {"planning", "acting", "auditing"} -> 3 [] OTHER -> 0
StacksFit ==
    /\ Len(open[Main]) = Depth(phase)
    /\ \A s \in Slots : Len(open[s]) = IF slots[s].state = "calling" THEN 2 ELSE 0

\* The first span of a stack is that of the run.
UnderRun(s) == s # <<>> => s[1].number = 1 /\ s[1].label.kind = "run"
FirstIsRun == UnderRun(open[Main])

PhasesFit ==
    /\ phase = "claimed" => collector.next = 1
    /\ phase \in {"claimed", "retrieving"} => turn = 0
    /\ phase # "acting" => \A s \in Slots : slots[s].state # "calling"
    /\ phase = "acting" => turn < MaxTurns

SlotStates == {"unused", "created", "calling", "ok", "error", "raised"}
ControlTyped ==
    /\ phase \in {"claimed", "retrieving", "planning", "acting", "auditing"} \cup Ended
    /\ turn \in 0..MaxTurns
    /\ slots \in [Slots -> [state : SlotStates, attempt : 0..(ToolRetries + 1)]]
    /\ chat \in [attempt : 0..MaxAttempts, repaired : BOOLEAN]
    /\ cause \in {"none", "retrieval", "usage", "tool"}

TraceInv ==
    /\ SpansOK /\ NothingForgotten /\ StacksFit /\ FirstIsRun /\ PhasesFit /\ ControlTyped
    /\ SavedIsWhole

LEMMA ViewTyped ==
    ASSUME CallsAssumption, SpansOK, NEW t \in Tasks
    PROVE  /\ ViewOK(View(t))
           /\ View(t) = [collector |-> collector, stack |-> open[t], task |-> t,
                         outer |-> IF t = Main THEN <<>> ELSE open[Main]]
<1>1. View(t) = [collector |-> collector, stack |-> open[t], task |-> t,
                 outer |-> IF t = Main THEN <<>> ELSE open[Main]]
    BY DEF View
<1>2. open[t] \in Seq(Frames(collector)) /\ CollectorOK(collector)
    BY DEF SpansOK
<1>3. (IF t = Main THEN <<>> ELSE open[Main]) \in Seq(Frames(collector))
    <2>1. <<>> \in Seq(Frames(collector))
        BY EmptySeq
    <2>2. open[Main] \in Seq(Frames(collector))
        BY DEF SpansOK, Tasks
    <2> QED BY <2>1, <2>2
<1> QED BY <1>1, <1>2, <1>3 DEF ViewOK

\* A step of a task leaves the spans of the other tasks open.
LEMMA TaskStep ==
    ASSUME CallsAssumption, SpansOK, NothingForgotten, NEW t \in Tasks, NEW w,
           Follows(View(t), w), Becomes(w)
    PROVE  /\ SpansOK' /\ NothingForgotten'
           /\ collector' = w.collector /\ open'[t] = w.stack
           /\ \A u \in Tasks \ {t} : open'[u] = open[u]
<1>1. /\ ViewOK(View(t)) /\ View(t).collector = collector /\ View(t).stack = open[t]
      /\ View(t).task = t
    BY ViewTyped
<1>2. /\ ViewOK(w) /\ w.task = t
      /\ w.collector.limit = collector.limit /\ w.collector.next >= collector.next
      /\ DOMAIN collector.completed \subseteq DOMAIN w.collector.completed
      /\ Missing(w) \subseteq Missing(View(t))
    BY <1>1 DEF Follows
<1>3. /\ CollectorOK(w.collector) /\ w.stack \in Seq(Frames(w.collector))
      /\ CollectorOK(collector)
    BY <1>2 DEF ViewOK, SpansOK
<1>4. /\ collector' = w.collector /\ open' = [open EXCEPT ![t] = w.stack]
      /\ open \in [Tasks -> Seq(Frames(collector))]
    BY <1>2 DEF Becomes, SpansOK
<1>5. open'[t] = w.stack /\ \A u \in Tasks \ {t} : open'[u] = open[u]
    BY <1>4
<1>6. \A u \in Tasks : open'[u] \in Seq(Frames(w.collector))
    <2>1. ASSUME NEW u \in Tasks PROVE open[u] \in Seq(Frames(w.collector))
        <3>1. open[u] \in Seq(Frames(collector))
            BY <1>4
        <3> QED BY <1>2, <1>3, <3>1, FramesGrow
    <2> QED BY <1>3, <1>5, <2>1
<1>7. SpansOK'
    BY <1>3, <1>4, <1>6 DEF SpansOK
<1>8. NothingForgotten'
    <2> SUFFICES ASSUME NEW n \in 1..(w.collector.next - 1),
                        n \notin DOMAIN w.collector.completed
                 PROVE  \E u \in Tasks : n \in Numbers(open'[u])
        BY <1>4 DEF NothingForgotten
    <2>1. CASE n \in Numbers(w.stack)
        BY <1>5, <2>1
    <2>2. CASE n \notin Numbers(w.stack)
        <3>1. n \in Missing(View(t))
            BY <1>2, <2>2 DEF Missing
        <3>2. /\ n \in 1..(collector.next - 1) /\ n \notin DOMAIN collector.completed
              /\ n \notin Numbers(open[t])
            BY <1>1, <3>1 DEF Missing
        <3>3. PICK u \in Tasks : n \in Numbers(open[u])
            BY <3>2 DEF NothingForgotten
        <3> QED BY <1>5, <3>2, <3>3
    <2> QED BY <2>1, <2>2
<1> QED BY <1>4, <1>5, <1>7, <1>8

\* What a step of the task that executes the run may make of its view.
Above(w, depth) ==
    Follows(View(Main), w) /\ Len(w.stack) = depth /\ UnderRun(w.stack)

LEMMA MainStep ==
    ASSUME CallsAssumption, SpansOK, NothingForgotten, NEW depth, NEW w, Above(w, depth),
           Becomes(w)
    PROVE  /\ SpansOK' /\ NothingForgotten' /\ FirstIsRun'
           /\ collector' = w.collector /\ open'[Main] = w.stack
           /\ Len(open'[Main]) = depth
           /\ \A s \in Slots : open'[s] = open[s]
<1>1. Main \in Tasks /\ \A s \in Slots : s \in Tasks \ {Main}
    BY DEF Main, Tasks, Slots, CallsAssumption
<1>2. /\ SpansOK' /\ NothingForgotten'
      /\ collector' = w.collector /\ open'[Main] = w.stack
      /\ \A u \in Tasks \ {Main} : open'[u] = open[u]
    BY <1>1, TaskStep DEF Above
<1> QED BY <1>1, <1>2 DEF Above, UnderRun, FirstIsRun

LEMMA SlotStep ==
    ASSUME CallsAssumption, SpansOK, NothingForgotten, FirstIsRun, NEW s \in Slots, NEW w,
           Follows(View(s), w), Becomes(w)
    PROVE  /\ SpansOK' /\ NothingForgotten' /\ FirstIsRun'
           /\ open'[s] = w.stack /\ open'[Main] = open[Main]
           /\ \A u \in Slots \ {s} : open'[u] = open[u]
<1>1. s \in Tasks /\ Main \in Tasks \ {s} /\ \A u \in Slots \ {s} : u \in Tasks \ {s}
    BY DEF Main, Tasks, Slots, CallsAssumption
<1>2. /\ SpansOK' /\ NothingForgotten' /\ open'[s] = w.stack
      /\ \A u \in Tasks \ {s} : open'[u] = open[u]
    BY <1>1, TaskStep
<1> QED BY <1>1, <1>2 DEF FirstIsRun

LEMMA MainAbove ==
    ASSUME CallsAssumption, SpansOK, FirstIsRun
    PROVE  Above(View(Main), Len(open[Main]))
<1>1. ViewOK(View(Main)) /\ View(Main).stack = open[Main]
    BY ViewTyped DEF Tasks
<1> QED BY <1>1, FollowsItself DEF Above, UnderRun, FirstIsRun

LEMMA EnteredAbove ==
    ASSUME CallsAssumption, SpansOK, NEW depth \in Nat \ {0}, NEW v, Above(v, depth),
           NEW kind \in Kinds
    PROVE  Above(Enter(v, kind), depth + 1)
<1>1. ViewOK(View(Main)) /\ ViewOK(v) /\ Len(v.stack) = depth
    BY ViewTyped DEF Tasks, Above, Follows
<1>2. PICK w : w = Enter(v, kind)
    OBVIOUS
<1>3. /\ Follows(v, w) /\ Len(w.stack) = depth + 1
      /\ \A i \in 1..depth : w.stack[i] = v.stack[i]
    BY <1>1, <1>2, EnterIs
<1>4. Follows(View(Main), w)
    BY <1>1, <1>3, FollowsIsTransitive DEF Above
<1>5. UnderRun(w.stack)
    <2>1. 1 \in 1..depth /\ v.stack # <<>>
        BY <1>1
    <2> QED BY <1>3, <2>1 DEF Above, UnderRun
<1> QED BY <1>2, <1>3, <1>4, <1>5 DEF Above

LEMMA LeftAbove ==
    ASSUME CallsAssumption, SpansOK, NEW depth \in Nat \ {0}, NEW v, Above(v, depth + 1),
           NEW status \in SpanStatuses
    PROVE  Above(Leave(v, status), depth)
<1>1. ViewOK(View(Main)) /\ ViewOK(v) /\ Len(v.stack) = depth + 1
    BY ViewTyped DEF Tasks, Above, Follows
<1>2. PICK w : w = LeaveNoted(v, status, "none")
    OBVIOUS
<1>3. v.stack # <<>> /\ "none" \in Codes \cup CallStatuses
    BY <1>1 DEF Codes
<1>4. /\ Follows(v, w) /\ Len(w.stack) = depth
      /\ \A i \in 1..depth : w.stack[i] = v.stack[i]
    <2>1. /\ Follows(v, LeaveNoted(v, status, "none"))
          /\ Len(LeaveNoted(v, status, "none").stack) = Len(v.stack) - 1
          /\ \A i \in 1..(Len(v.stack) - 1) :
                LeaveNoted(v, status, "none").stack[i] = v.stack[i]
        BY <1>1, <1>3, LeaveIs
    <2> QED BY <1>1, <1>2, <2>1
<1>5. Follows(View(Main), w)
    BY <1>1, <1>4, FollowsIsTransitive DEF Above
<1>6. UnderRun(w.stack)
    <2>1. 1 \in 1..depth
        OBVIOUS
    <2> QED BY <1>3, <1>4, <2>1 DEF Above, UnderRun
<1> QED BY <1>2, <1>4, <1>5, <1>6 DEF Above, Leave

LEMMA MeasuredAbove ==
    ASSUME CallsAssumption, SpansOK, NEW depth, NEW v, Above(v, depth),
           NEW status \in CallStatuses
    PROVE  Above(Measured(v, status), depth)
<1>1. ViewOK(View(Main)) /\ ViewOK(v)
    BY ViewTyped DEF Tasks, Above, Follows
<1>2. Follows(v, Measured(v, status)) /\ Measured(v, status).stack = v.stack
    BY <1>1, MeasuredIs
<1>3. Follows(View(Main), Measured(v, status))
    BY <1>1, <1>2, FollowsIsTransitive DEF Above
<1> QED BY <1>2, <1>3 DEF Above

-----------------------------------------------------------------------------
(* Cancellation.                                                           *)

\* after[s] is the collector once the first s calls of the batch are cancelled.
CancelsUpTo(after, k) ==
    after = [s \in 0..k |->
                IF s = 0 THEN collector
                ELSE Unwound([View(s) EXCEPT !.collector = after[s - 1]], 0, "cancelled").collector]

LEMMA CancellingExists ==
    ASSUME NEW k \in Nat
    PROVE  \E after : CancelsUpTo(after, k)
<1> DEFINE S == {n \in 0..k : \E after : CancelsUpTo(after, n)}
           Next1(c, s) == Unwound([View(s) EXCEPT !.collector = c], 0, "cancelled").collector
<1>1. 0 \in S
    <2>1. CancelsUpTo([s \in 0..0 |-> collector], 0)
        BY DEF CancelsUpTo
    <2> QED BY <2>1
<1>2. ASSUME NEW n \in 0..(k - 1), n \in S PROVE n + 1 \in S
    <2>1. PICK f : CancelsUpTo(f, n)
        BY <1>2
    <2>0. f = [s \in 0..n |-> IF s = 0 THEN collector ELSE Next1(f[s - 1], s)]
        BY <2>1 DEF CancelsUpTo
    <2> HIDE DEF Next1
    <2> DEFINE g == [i \in 0..(n + 1) |-> IF i = n + 1 THEN Next1(f[n], n + 1) ELSE f[i]]
    <2>2. \A i \in 0..(n + 1) : g[i] = IF i = 0 THEN collector ELSE Next1(g[i - 1], i)
        <3> TAKE i \in 0..(n + 1)
        <3>1. CASE i = n + 1
            <4>1. g[i - 1] = f[n] /\ i - 1 = n
                BY <3>1
            <4> QED BY <3>1, <4>1
        <3>2. CASE i # n + 1
            <4>1. i \in 0..n
                BY <3>2
            <4>2. f[i] = IF i = 0 THEN collector ELSE Next1(f[i - 1], i)
                BY <2>0, <4>1
            <4>3. g[i] = f[i] /\ (i # 0 => g[i - 1] = f[i - 1])
                BY <3>2, <4>1
            <4> QED BY <4>2, <4>3
        <3> QED BY <3>1, <3>2
    <2>3. g = [i \in 0..(n + 1) |-> IF i = 0 THEN collector ELSE Next1(g[i - 1], i)]
        <3>1. g = [i \in 0..(n + 1) |-> g[i]]
            OBVIOUS
        <3> HIDE DEF g
        <3> QED BY <2>2, <3>1
    <2>4. CancelsUpTo(g, n + 1)
        <3> HIDE DEF g
        <3> QED BY <2>3 DEF CancelsUpTo, Next1
    <2> QED BY <2>4
<1> HIDE DEF S
<1>3. k \in S
    BY <1>1, <1>2, InductionUpTo
<1> QED BY <1>3 DEF S

\* The collector d is that of now after spans were left, and knows how the spans of
\* the calls ended.
CallsEnded(d) ==
    /\ CollectorOK(d) /\ d.limit = collector.limit /\ d.next = collector.next
    /\ DOMAIN collector.completed \subseteq DOMAIN d.completed
    /\ \A s \in Slots : Numbers(open[s]) \ {0} \subseteq DOMAIN d.completed

LEMMA CallsCancelledIs ==
    ASSUME CallsAssumption, SpansOK
    PROVE  CallsEnded(CallsCancelled)
<1>1. BatchLimit \in Nat
    BY DEF CallsAssumption
<1>2. PICK after : CancelsUpTo(after, BatchLimit) /\ CallsCancelled = after[BatchLimit]
    <2> DEFINE after == CHOOSE after : CancelsUpTo(after, BatchLimit)
    <2>1. CancelsUpTo(after, BatchLimit)
        BY <1>1, CancellingExists
    <2>2. CallsCancelled = after[BatchLimit]
        BY DEF CallsCancelled, CancelsUpTo
    <2> QED BY <2>1, <2>2
<1> DEFINE P(n) ==
        /\ CollectorOK(after[n]) /\ after[n].limit = collector.limit
        /\ after[n].next = collector.next
        /\ DOMAIN collector.completed \subseteq DOMAIN after[n].completed
        /\ \A s \in 1..n : Numbers(open[s]) \ {0} \subseteq DOMAIN after[n].completed
    S == {n \in 0..BatchLimit : P(n)}
<1>3. 0 \in S
    <2>1. after[0] = collector
        BY <1>1, <1>2 DEF CancelsUpTo
    <2> QED BY <1>1, <2>1 DEF SpansOK
<1>4. ASSUME NEW n \in 0..(BatchLimit - 1), n \in S
      PROVE  n + 1 \in S
    <2>1. PICK s, c : s = n + 1 /\ c = after[n]
        OBVIOUS
    <2>2. s \in Slots /\ s \in Tasks /\ s # Main /\ s \in Nat /\ s - 1 = n
        BY <1>1, <2>1 DEF Slots, Tasks, Main
    <2>3. /\ CollectorOK(c) /\ c.limit = collector.limit /\ c.next = collector.next
          /\ DOMAIN collector.completed \subseteq DOMAIN c.completed
          /\ \A i \in 1..n : Numbers(open[i]) \ {0} \subseteq DOMAIN c.completed
        BY <1>4, <2>1
    <2>4. PICK v : v = [View(s) EXCEPT !.collector = c]
        OBVIOUS
    <2>5. v = [collector |-> c, stack |-> open[s], task |-> s, outer |-> open[Main]]
        BY <2>2, <2>4 DEF View
    <2>6. /\ v.collector = c /\ v.stack = open[s] /\ v.task = s /\ v.outer = open[Main]
        BY <2>5
    <2>7. ViewOK(v)
        <3>1. Frames(c) = Frames(collector)
            BY <2>3 DEF Frames
        <3>2. open[s] \in Seq(Frames(c)) /\ open[Main] \in Seq(Frames(c))
            BY <2>2, <3>1 DEF SpansOK, Tasks
        <3> QED BY <2>2, <2>3, <2>5, <2>6, <3>2 DEF ViewOK
    <2>8. PICK w : w = Unwound(v, 0, "cancelled")
        OBVIOUS
    <2>9. Follows(v, w) /\ w.collector.next = c.next /\ Len(w.stack) = 0
        <3>1. 0 \in 0..Len(v.stack) /\ "cancelled" \in SpanStatuses
            BY <2>7, LenProperties DEF ViewOK, SpanStatuses
        <3> HIDE DEF P, S
        <3> QED BY <2>6, <2>7, <2>8, <3>1, UnwoundIs
    <2>10. after[s] = w.collector
        BY <1>2, <2>1, <2>2, <2>4, <2>8 DEF CancelsUpTo, Slots
    <2>11. /\ CollectorOK(w.collector) /\ w.collector.limit = c.limit
           /\ DOMAIN c.completed \subseteq DOMAIN w.collector.completed
           /\ w.stack \in Seq(Frames(w.collector)) /\ Missing(w) \subseteq Missing(v)
        BY <2>6, <2>9 DEF Follows, ViewOK
    <2>12. Numbers(w.stack) = {}
        BY <2>9, <2>11, EmptySeq DEF Numbers
    <2>13. Numbers(open[s]) \ {0} \subseteq DOMAIN w.collector.completed
        <3>1. ASSUME NEW k \in Numbers(open[s]), k # 0, k \notin DOMAIN w.collector.completed
              PROVE  FALSE
            <4>1. k \in 1..(c.next - 1)
                <5>1. PICK i \in DOMAIN v.stack : k = v.stack[i].number
                    BY <2>6, <3>1 DEF Numbers
                <5>2. v.stack[i] \in Frames(c)
                    BY <2>6, <2>7, LenProperties DEF ViewOK
                <5>3. c.next \in Nat \ {0}
                    BY <2>3, LimitTyped
                <5> QED BY <3>1, <5>1, <5>2, <5>3 DEF Frames
            <4>2. k \in Missing(w)
                BY <2>9, <2>12, <3>1, <4>1 DEF Missing
            <4> QED BY <2>6, <2>11, <3>1, <4>2 DEF Missing
        <3> QED BY <3>1
    <2>14. P(s)
        <3>1. \A i \in 1..s : i \in 1..n \/ i = s
            BY <2>1, <2>2
        <3> QED BY <2>3, <2>9, <2>10, <2>11, <2>13, <3>1
    <2> HIDE DEF P
    <2> QED BY <2>1, <2>2, <2>14 DEF Slots
<1> HIDE DEF S, P
<1>5. BatchLimit \in S
    BY <1>1, <1>3, <1>4, InductionUpTo
<1>6. P(BatchLimit)
    BY <1>5 DEF S
<1> QED BY <1>2, <1>6 DEF P, Slots, CallsEnded

\* Once the calls are cancelled, what the task of the run leaves forgets nothing.
CancelledView == [View(Main) EXCEPT !.collector = CallsCancelled]

LEMMA CancelledViewTyped ==
    ASSUME CallsAssumption, SpansOK
    PROVE  /\ ViewOK(CancelledView) /\ CancelledView.stack = open[Main]
           /\ CancelledView.collector = CallsCancelled
<1>1. PICK d : d = CallsCancelled /\ CallsEnded(d)
    BY CallsCancelledIs
<1>2. CancelledView = [collector |-> d, stack |-> open[Main], task |-> Main, outer |-> <<>>]
    BY <1>1 DEF CancelledView, View
<1>3. Frames(d) = Frames(collector)
    BY <1>1 DEF Frames, CallsEnded
<1>4. open[Main] \in Seq(Frames(d)) /\ <<>> \in Seq(Frames(d)) /\ Main \in Tasks
    BY <1>3, EmptySeq DEF SpansOK, Tasks
<1> QED BY <1>1, <1>2, <1>4 DEF ViewOK, CallsEnded

LEMMA CancellationStep ==
    ASSUME CallsAssumption, SpansOK, NothingForgotten, NEW w, Follows(CancelledView, w),
           UnderRun(w.stack), collector' = w.collector,
           open' = [t \in Tasks |-> IF t = Main THEN w.stack ELSE <<>>]
    PROVE  SpansOK' /\ NothingForgotten' /\ FirstIsRun'
<1>1. PICK d : d = CallsCancelled /\ CallsEnded(d)
    BY CallsCancelledIs
<1>2. ViewOK(CancelledView) /\ CancelledView.stack = open[Main] /\ CancelledView.collector = d
    BY <1>1, CancelledViewTyped
<1>3. /\ ViewOK(w) /\ DOMAIN d.completed \subseteq DOMAIN w.collector.completed
      /\ Missing(w) \subseteq Missing(CancelledView)
    BY <1>2 DEF Follows
<1>4. Main \in Tasks /\ \A s \in Slots : s \in Tasks /\ s # Main
    BY DEF Main, Tasks, Slots, CallsAssumption
<1>5. SpansOK'
    <2>1. w.stack \in Seq(Frames(w.collector)) /\ <<>> \in Seq(Frames(w.collector))
          /\ CollectorOK(w.collector)
        BY <1>3, EmptySeq DEF ViewOK
    <2> QED BY <2>1 DEF SpansOK
<1>6. NothingForgotten'
    <2> SUFFICES ASSUME NEW n \in 1..(w.collector.next - 1),
                        n \notin DOMAIN w.collector.completed, n \notin Numbers(w.stack)
                 PROVE  FALSE
        BY <1>4 DEF NothingForgotten
    <2>1. /\ n \in 1..(d.next - 1) /\ n \notin DOMAIN d.completed /\ n \notin Numbers(open[Main])
        BY <1>2, <1>3 DEF Missing
    <2>2. n \in 1..(collector.next - 1) /\ n \notin DOMAIN collector.completed /\ n # 0
        BY <1>1, <2>1 DEF CallsEnded
    <2>3. PICK t \in Tasks : n \in Numbers(open[t])
        BY <2>2 DEF NothingForgotten
    <2>4. t \in Slots
        BY <2>1, <2>3 DEF Tasks
    <2> QED BY <1>1, <2>1, <2>2, <2>3, <2>4 DEF CallsEnded
<1>7. FirstIsRun'
    BY <1>4 DEF FirstIsRun
<1> QED BY <1>5, <1>6, <1>7

-----------------------------------------------------------------------------
(* Every step keeps the invariant.                                         *)

\* No call of the batch is under way.
NoneCalling == \A s \in Slots : slots[s].state # "calling"

LEMMA BatchIsIdle ==
    ASSUME TraceInv, NoneCalling
    PROVE  \A s \in Slots : Len(open[s]) = 0
BY DEF TraceInv, StacksFit, NoneCalling

\* The next turn of the planner.
LEMMA PlanningStep ==
    ASSUME CallsAssumption, TraceInv, NoneCalling, turn < MaxTurns, NEW v, Above(v, 2), Planning(v)
    PROVE  TraceInv'
<1>1. SpansOK /\ NothingForgotten /\ ControlTyped
    BY DEF TraceInv
<1>2. PICK w : w = Enter(v, "decision")
    OBVIOUS
<1>3. Above(w, 3) /\ Becomes(w)
    BY <1>1, <1>2, EnteredAbove DEF Kinds, Planning
<1>4. /\ SpansOK' /\ NothingForgotten' /\ FirstIsRun' /\ Len(open'[Main]) = 3
      /\ \A s \in Slots : open'[s] = open[s]
    BY <1>1, <1>3, MainStep
<1>5. /\ phase' = "planning" /\ turn' = turn + 1 /\ chat' = FirstRequest
      /\ slots' = [s \in Slots |-> NoSlot] /\ cause' = cause
    BY DEF Planning
<1>6. StacksFit' /\ PhasesFit'
    BY <1>4, <1>5, BatchIsIdle DEF StacksFit, Depth, PhasesFit, NoSlot
<1>7. ControlTyped'
    BY <1>1, <1>5 DEF ControlTyped, FirstRequest, NoSlot, CallsAssumption, SlotStates
<1> QED BY <1>4, <1>5, <1>6, <1>7 DEF TraceInv, SavedIsWhole

\* The draft is sent to the auditor.
LEMMA AuditingStep ==
    ASSUME CallsAssumption, TraceInv, NoneCalling, NEW v, Above(v, 2), Auditing(v)
    PROVE  TraceInv'
<1>1. SpansOK /\ NothingForgotten /\ ControlTyped
    BY DEF TraceInv
<1>2. PICK w : w = Enter(v, "review")
    OBVIOUS
<1>3. Above(w, 3) /\ Becomes(w)
    BY <1>1, <1>2, EnteredAbove DEF Kinds, Auditing
<1>4. /\ SpansOK' /\ NothingForgotten' /\ FirstIsRun' /\ Len(open'[Main]) = 3
      /\ \A s \in Slots : open'[s] = open[s]
    BY <1>1, <1>3, MainStep
<1>5. /\ phase' = "auditing" /\ turn' = turn /\ chat' = FirstRequest
      /\ slots' = [s \in Slots |-> NoSlot] /\ cause' = cause
    BY DEF Auditing
<1>6. StacksFit' /\ PhasesFit'
    BY <1>4, <1>5, BatchIsIdle DEF StacksFit, Depth, PhasesFit, NoSlot
<1>7. ControlTyped'
    BY <1>1, <1>5 DEF ControlTyped, FirstRequest, NoSlot, CallsAssumption, SlotStates
<1> QED BY <1>4, <1>5, <1>6, <1>7 DEF TraceInv, SavedIsWhole

\* With every span left, the trace saved has them all, and the first tells how the run
\* ended.
LEMMA SavedOnceUnwound ==
    ASSUME CallsAssumption, TraceInv, NoneCalling, NEW v, Above(v, Len(v.stack)), v.stack # <<>>,
           NEW status \in {"ok", "error"},
           Becomes(Unwound(v, 0, status)), saved' = Snapshot(Unwound(v, 0, status).collector)
    PROVE  /\ SpansOK' /\ NothingForgotten' /\ FirstIsRun' /\ Len(open'[Main]) = 0
           /\ \A s \in Slots : open'[s] = open[s]
           /\ Len(saved') = collector'.next - 1
           /\ saved'[1].label.kind = "run" /\ saved'[1].status = status
<1>1. SpansOK /\ NothingForgotten
    BY DEF TraceInv
<1>2. ViewOK(View(Main)) /\ ViewOK(v) /\ UnderRun(v.stack)
    BY <1>1, ViewTyped DEF Tasks, Above, Follows
<1>3. PICK w : w = Unwound(v, 0, status)
    OBVIOUS
<1>4. /\ Follows(v, w) /\ w.collector.next = v.collector.next /\ Len(w.stack) = 0
      /\ EndedAs(w.collector, v.stack[1], status)
    <2>1. 0 \in 0..Len(v.stack) /\ status \in SpanStatuses
        BY <1>2, LenProperties DEF ViewOK, SpanStatuses
    <2> QED BY <1>2, <1>3, <2>1, UnwoundIs
<1>5. w.stack = <<>>
    BY <1>4, EmptySeq DEF Follows, ViewOK
<1>6. Above(w, 0)
    <2>1. Follows(View(Main), w)
        BY <1>2, <1>4, FollowsIsTransitive DEF Above
    <2> QED BY <1>4, <1>5, <2>1 DEF Above, UnderRun
<1>7. /\ SpansOK' /\ NothingForgotten' /\ FirstIsRun' /\ Len(open'[Main]) = 0
      /\ collector' = w.collector /\ open'[Main] = w.stack
      /\ \A s \in Slots : open'[s] = open[s]
    BY <1>1, <1>3, <1>6, MainStep
<1>8. PICK c : c = collector' /\ CollectorOK(c)
    BY <1>7 DEF SpansOK
<1>9. 1..(c.next - 1) \subseteq DOMAIN c.completed
    <2>1. \A t \in Tasks : Numbers(open'[t]) = {}
        <3>1. ASSUME NEW t \in Tasks PROVE Numbers(open'[t]) = {}
            <4>1. Len(open'[t]) = 0
                BY <1>7, BatchIsIdle DEF Tasks
            <4>2. open'[t] = <<>>
                BY <1>7, <4>1, EmptySeq DEF SpansOK
            <4> QED BY <4>2 DEF Numbers
        <3> QED BY <3>1
    <2> QED BY <1>7, <1>8, <2>1 DEF NothingForgotten
<1>10. saved' = [n \in 1..(c.next - 1) |-> c.completed[n]]
    <2>1. Snapshot(c) = [n \in 1..(c.next - 1) |-> c.completed[n]]
        BY <1>8, <1>9, SnapshotOfAll
    <2>2. w.collector = c
        BY <1>7, <1>8
    <2>3. saved' = Snapshot(w.collector)
        BY <1>3
    <2> QED BY <2>1, <2>2, <2>3
<1>11. 1 \in 1..(c.next - 1)
    <2>1. v.stack[1].number = 1 /\ v.stack[1] \in Frames(v.collector)
        BY <1>2, LenProperties, EmptySeq DEF UnderRun, ViewOK
    <2>2. v.collector.next \in Nat
        BY <1>2, LimitTyped DEF ViewOK
    <2> QED BY <1>4, <1>7, <1>8, <2>1, <2>2 DEF Frames
<1>12. c.completed[1].status = status /\ c.completed[1].label.kind = "run"
    BY <1>2, <1>4, <1>7, <1>8 DEF EndedAs, UnderRun
<1>13. c.next - 1 \in Nat
    BY <1>8, LimitTyped
<1> QED BY <1>7, <1>8, <1>10, <1>11, <1>12, <1>13

LEMMA FailsStep ==
    ASSUME CallsAssumption, TraceInv, NoneCalling, open[Main] # <<>>,
           NEW why \in {"retrieval", "usage", "tool"}, Fails(View(Main), why)
    PROVE  TraceInv'
<1>1. SpansOK /\ FirstIsRun /\ ControlTyped /\ View(Main).stack = open[Main]
    BY ViewTyped DEF TraceInv, Tasks
<1>2. /\ Becomes(Unwound(View(Main), 0, "error"))
      /\ saved' = Snapshot(Unwound(View(Main), 0, "error").collector)
      /\ phase' = "failed" /\ cause' = why /\ chat' = NoChat
      /\ slots' = [s \in Slots |-> NoSlot] /\ turn' = turn
    BY DEF Fails
<1>3. Above(View(Main), Len(View(Main).stack))
    BY <1>1, MainAbove
<1>4. /\ SpansOK' /\ NothingForgotten' /\ FirstIsRun' /\ Len(open'[Main]) = 0
      /\ \A s \in Slots : open'[s] = open[s]
      /\ Len(saved') = collector'.next - 1
      /\ saved'[1].label.kind = "run" /\ saved'[1].status = "error"
    BY <1>1, <1>2, <1>3, SavedOnceUnwound
<1>5. StacksFit' /\ PhasesFit'
    BY <1>2, <1>4, BatchIsIdle DEF StacksFit, Depth, PhasesFit, NoSlot
<1>6. ControlTyped'
    BY <1>1, <1>2 DEF ControlTyped, NoChat, NoSlot, CallsAssumption, SlotStates, Ended
<1>7. SavedIsWhole'
    BY <1>2, <1>4 DEF SavedIsWhole
<1> QED BY <1>4, <1>5, <1>6, <1>7 DEF TraceInv

LEMMA CompletesStep ==
    ASSUME CallsAssumption, TraceInv, NoneCalling, NEW v, Above(v, 2), Completes(v)
    PROVE  TraceInv'
<1>1. SpansOK /\ ControlTyped
    BY DEF TraceInv
<1>2. /\ Becomes(Unwound(v, 0, "ok"))
      /\ saved' = Snapshot(Unwound(v, 0, "ok").collector)
      /\ phase' = "completed" /\ cause' = cause /\ chat' = NoChat
      /\ slots' = slots /\ turn' = turn
    BY DEF Completes
<1>3. Above(v, Len(v.stack)) /\ v.stack # <<>>
    BY DEF Above
<1>4. /\ SpansOK' /\ NothingForgotten' /\ FirstIsRun' /\ Len(open'[Main]) = 0
      /\ \A s \in Slots : open'[s] = open[s]
      /\ Len(saved') = collector'.next - 1
      /\ saved'[1].label.kind = "run" /\ saved'[1].status = "ok"
    BY <1>2, <1>3, SavedOnceUnwound
<1>5. StacksFit' /\ PhasesFit'
    BY <1>2, <1>4, BatchIsIdle DEF StacksFit, Depth, PhasesFit, NoneCalling
<1>6. ControlTyped'
    BY <1>1, <1>2 DEF ControlTyped, NoChat, CallsAssumption, Ended
<1>7. SavedIsWhole'
    BY <1>2, <1>4 DEF SavedIsWhole
<1> QED BY <1>4, <1>5, <1>6, <1>7 DEF TraceInv

\* What PhasesFit and StacksFit say of a phase in which the run waits by itself.
LEMMA Waiting ==
    ASSUME CallsAssumption, TraceInv, phase \in {"retrieving", "planning", "auditing"}
    PROVE  /\ NoneCalling /\ open[Main] # <<>>
           /\ Above(View(Main), IF phase = "retrieving" THEN 2 ELSE 3)
<1>1. SpansOK /\ FirstIsRun
    BY DEF TraceInv
<1>2. Above(View(Main), Len(open[Main]))
    BY <1>1, MainAbove
<1>3. Len(open[Main]) = IF phase = "retrieving" THEN 2 ELSE 3
    BY DEF TraceInv, StacksFit, Depth
<1>4. open[Main] # <<>>
    BY <1>3
<1> QED BY <1>2, <1>3, <1>4 DEF TraceInv, PhasesFit, NoneCalling

LEMMA StartStep ==
    ASSUME CallsAssumption, TraceInv, Start
    PROVE  TraceInv'
<1>1. /\ SpansOK /\ NothingForgotten /\ ControlTyped /\ NoneCalling
      /\ collector.next = 1 /\ Len(open[Main]) = 0
    BY DEF TraceInv, PhasesFit, NoneCalling, StacksFit, Depth, Start
<1>2. PICK v, w : v = Enter(View(Main), "run") /\ w = Enter(v, "retrieval")
    OBVIOUS
<1>3. ViewOK(View(Main)) /\ View(Main).collector = collector /\ Len(View(Main).stack) = 0
    BY <1>1, ViewTyped DEF Tasks
<1>4. /\ Follows(View(Main), v) /\ Len(v.stack) = 1
      /\ v.stack[1].number = Number(collector) /\ v.stack[1].label.kind = "run"
    <2>1. "run" \in Kinds
        BY DEF Kinds
    <2>2. /\ Follows(View(Main), Enter(View(Main), "run"))
          /\ Len(Enter(View(Main), "run").stack) = Len(View(Main).stack) + 1
          /\ Enter(View(Main), "run").stack[Len(View(Main).stack) + 1].number
                = Number(View(Main).collector)
          /\ Enter(View(Main), "run").stack[Len(View(Main).stack) + 1].label.kind = "run"
        BY <1>3, <2>1, EnterIs
    <2> QED BY <1>2, <1>3, <2>2
<1>5. Number(collector) = 1
    <2>1. CollectorOK(collector)
        BY <1>1 DEF SpansOK
    <2>2. collector.limit \in Nat \ {0}
        BY <2>1, LimitTyped
    <2> QED BY <1>1, <2>2 DEF Number
<1>6. Above(v, 1)
    BY <1>4, <1>5 DEF Above, UnderRun
<1>7. Above(w, 2)
    <2>1. Above(Enter(v, "retrieval"), 1 + 1)
        BY <1>1, <1>6, EnteredAbove DEF Kinds
    <2> QED BY <1>2, <2>1
<1>8. Becomes(w)
    BY <1>2 DEF Start
<1>9. /\ SpansOK' /\ NothingForgotten' /\ FirstIsRun' /\ Len(open'[Main]) = 2
      /\ \A s \in Slots : open'[s] = open[s]
    BY <1>1, <1>7, <1>8, MainStep
<1>10. /\ phase = "claimed" /\ phase' = "retrieving" /\ turn' = turn /\ chat' = chat
       /\ slots' = slots /\ cause' = cause
    BY DEF Start
<1>11. StacksFit' /\ PhasesFit'
    BY <1>1, <1>9, <1>10, BatchIsIdle
       DEF StacksFit, Depth, PhasesFit, NoneCalling, TraceInv
<1>12. ControlTyped'
    BY <1>1, <1>10 DEF ControlTyped
<1> QED BY <1>9, <1>10, <1>11, <1>12 DEF TraceInv, SavedIsWhole

LEMMA RetrievedStep ==
    ASSUME CallsAssumption, TraceInv, Retrieved
    PROVE  TraceInv'
<1>1. SpansOK /\ phase = "retrieving"
    BY DEF TraceInv, Retrieved
<1>2. NoneCalling /\ open[Main] # <<>> /\ Above(View(Main), 2)
    BY <1>1, Waiting
<1>3. CASE Planning(Enter(Leave(View(Main), "ok"), "workflow"))
    <2>1. Above(View(Main), 1 + 1) /\ "ok" \in SpanStatuses /\ "workflow" \in Kinds
        BY <1>2 DEF SpanStatuses, Kinds
    <2>2. PICK v : v = Leave(View(Main), "ok") /\ Above(v, 1)
        BY <1>1, <2>1, LeftAbove
    <2>3. Above(Enter(v, "workflow"), 1 + 1)
        BY <1>1, <2>1, <2>2, EnteredAbove
    <2>4. turn < MaxTurns
        BY <1>1 DEF TraceInv, PhasesFit, CallsAssumption
    <2> QED BY <1>2, <1>3, <2>2, <2>3, <2>4, PlanningStep
<1>4. CASE Fails(View(Main), "retrieval")
    BY <1>2, <1>4, FailsStep
<1> QED BY <1>3, <1>4 DEF Retrieved

\* Another request follows in the same exchange.
LEMMA AgainStep ==
    ASSUME CallsAssumption, TraceInv, phase \in {"planning", "auditing"},
           NEW status \in CallStatuses, AnswersAgain(status)
    PROVE  TraceInv'
<1>1. SpansOK /\ NothingForgotten /\ ControlTyped
    BY DEF TraceInv
<1>2. NoneCalling /\ Above(View(Main), 3)
    BY Waiting
<1>3. PICK w : w = Measured(View(Main), status) /\ Above(w, 3)
    BY <1>1, <1>2, MeasuredAbove
<1>4. Becomes(w)
    BY <1>3 DEF AnswersAgain
<1>5. /\ SpansOK' /\ NothingForgotten' /\ FirstIsRun' /\ Len(open'[Main]) = 3
      /\ \A s \in Slots : open'[s] = open[s]
    BY <1>1, <1>3, <1>4, MainStep
<1>6. /\ phase' = phase /\ turn' = turn /\ slots' = slots /\ cause' = cause
    BY DEF AnswersAgain
<1>7. StacksFit' /\ PhasesFit'
    BY <1>2, <1>5, <1>6, BatchIsIdle
       DEF StacksFit, Depth, PhasesFit, NoneCalling, TraceInv
<1>8. chat' \in [attempt : 0..MaxAttempts, repaired : BOOLEAN]
    <2>1. chat \in [attempt : 0..MaxAttempts, repaired : BOOLEAN]
        BY <1>1 DEF ControlTyped
    <2>2. CASE MayRetry(status)
        BY <2>1, <2>2 DEF AnswersAgain, MayRetry, CallsAssumption
    <2>3. CASE ~MayRetry(status)
        BY <2>1, <2>3 DEF AnswersAgain, CallsAssumption
    <2> QED BY <2>2, <2>3
<1>9. ControlTyped'
    BY <1>1, <1>6, <1>8 DEF ControlTyped
<1> QED BY <1>5, <1>6, <1>7, <1>9 DEF TraceInv, SavedIsWhole

\* The exchange is over, and its span is left.
LEMMA AnsweredAbove ==
    ASSUME CallsAssumption, TraceInv, phase \in {"planning", "auditing"},
           NEW status \in CallStatuses
    PROVE  Above(Answered(status), 2)
<1>1. SpansOK
    BY DEF TraceInv
<1>2. Above(View(Main), 3)
    BY Waiting
<1>3. PICK v : v = Measured(View(Main), status) /\ Above(v, 2 + 1)
    BY <1>1, <1>2, MeasuredAbove
<1>4. (IF status = "succeeded" THEN "ok" ELSE "error") \in SpanStatuses
    BY DEF SpanStatuses
<1>5. Above(Leave(v, IF status = "succeeded" THEN "ok" ELSE "error"), 2)
    BY <1>1, <1>3, <1>4, LeftAbove
<1> QED BY <1>3, <1>5 DEF Answered

LEMMA DecidesStep ==
    ASSUME CallsAssumption, TraceInv, NoneCalling, NEW v, Above(v, 2), Decides(v)
    PROVE  TraceInv'
<1>1. CASE Auditing(v)
    BY <1>1, AuditingStep
<1>2. ASSUME NEW n \in Slots, turn < MaxTurns,
             slots' = [s \in Slots |-> IF s <= n THEN [NoSlot EXCEPT !.state = "created"]
                                                 ELSE NoSlot],
             Becomes(Enter(v, "batch")), phase' = "acting", chat' = NoChat,
             UNCHANGED <<turn, saved, cause>>
      PROVE  TraceInv'
    <2>1. SpansOK /\ NothingForgotten /\ ControlTyped
        BY DEF TraceInv
    <2>2. PICK w : w = Enter(v, "batch")
        OBVIOUS
    <2>3. Above(w, 3) /\ Becomes(w)
        BY <1>2, <2>1, <2>2, EnteredAbove DEF Kinds
    <2>4. /\ SpansOK' /\ NothingForgotten' /\ FirstIsRun' /\ Len(open'[Main]) = 3
          /\ \A s \in Slots : open'[s] = open[s]
        BY <2>1, <2>3, MainStep
    <2>5. \A s \in Slots : /\ slots'[s].state # "calling"
                           /\ slots'[s] \in [state : SlotStates, attempt : 0..(ToolRetries + 1)]
        BY <1>2 DEF NoSlot, SlotStates, CallsAssumption
    <2>6. StacksFit' /\ PhasesFit'
        BY <1>2, <2>4, <2>5, BatchIsIdle DEF StacksFit, Depth, PhasesFit
    <2>7. ControlTyped'
        BY <1>2, <2>1, <2>5 DEF ControlTyped, NoChat, CallsAssumption
    <2> QED BY <1>2, <2>4, <2>6, <2>7 DEF TraceInv, SavedIsWhole
<1> QED BY <1>1, <1>2 DEF Decides

LEMMA PlannerRepliesStep ==
    ASSUME CallsAssumption, TraceInv, NEW answer, PlannerReplies(answer)
    PROVE  TraceInv'
<1>1. phase = "planning"
    BY DEF PlannerReplies
<1>2. NoneCalling /\ open[Main] # <<>>
    BY <1>1, Waiting
<1>3. CASE answer = "odd" /\ Fails(View(Main), "usage")
    BY <1>2, <1>3, FailsStep
<1>4. CASE answer \in CallStatuses /\ AnswersAgain(answer)
    BY <1>1, <1>4, AgainStep
<1>5. CASE answer = "succeeded" /\ Decides(Answered(answer))
    <2>1. Above(Answered(answer), 2)
        BY <1>1, <1>5, AnsweredAbove DEF CallStatuses
    <2> QED BY <1>2, <1>5, <2>1, DecidesStep
<1>6. CASE answer \in AgentErrors /\ Auditing(Answered(answer))
    <2>1. Above(Answered(answer), 2)
        BY <1>1, <1>6, AnsweredAbove DEF CallStatuses
    <2> QED BY <1>2, <1>6, <2>1, AuditingStep
<1> QED BY <1>3, <1>4, <1>5, <1>6 DEF PlannerReplies

LEMMA AuditorStep ==
    ASSUME CallsAssumption, TraceInv, NEW answer, AuditorReplies(answer)
    PROVE  TraceInv'
<1>1. phase = "auditing"
    BY DEF AuditorReplies
<1>2. NoneCalling /\ open[Main] # <<>>
    BY <1>1, Waiting
<1>3. CASE answer = "odd" /\ Fails(View(Main), "usage")
    BY <1>2, <1>3, FailsStep
<1>4. CASE answer \in CallStatuses /\ AnswersAgain(answer)
    BY <1>1, <1>4, AgainStep
<1>5. CASE answer \in CallStatuses /\ Completes(Answered(answer))
    <2>1. Above(Answered(answer), 2)
        BY <1>1, <1>5, AnsweredAbove
    <2> QED BY <1>2, <1>5, <2>1, CompletesStep
<1> QED BY <1>3, <1>4, <1>5 DEF AuditorReplies

\* What a call makes of the spans of its task, while the batch is under way.
LEMMA CallStep ==
    ASSUME CallsAssumption, TraceInv, phase = "acting", NEW s \in Slots, NEW w,
           Follows(View(s), w), Becomes(w),
           NEW to, to \in [state : SlotStates, attempt : 0..(ToolRetries + 1)],
           Len(w.stack) = IF to.state = "calling" THEN 2 ELSE 0,
           slots' = [slots EXCEPT ![s] = to], UNCHANGED <<phase, turn, chat, saved, cause>>
    PROVE  TraceInv'
<1>1. SpansOK /\ NothingForgotten /\ FirstIsRun /\ ControlTyped
    BY DEF TraceInv
<1>2. /\ SpansOK' /\ NothingForgotten' /\ FirstIsRun'
      /\ open'[s] = w.stack /\ open'[Main] = open[Main]
      /\ \A u \in Slots \ {s} : open'[u] = open[u]
    BY <1>1, SlotStep
<1>3. slots \in [Slots -> [state : SlotStates, attempt : 0..(ToolRetries + 1)]]
    BY <1>1 DEF ControlTyped
<1>4. slots'[s] = to /\ \A u \in Slots \ {s} : slots'[u] = slots[u]
    BY <1>3
<1>5. StacksFit'
    BY <1>2, <1>4 DEF TraceInv, StacksFit
<1>6. PhasesFit'
    BY DEF TraceInv, PhasesFit
<1>7. ControlTyped'
    BY <1>1, <1>3 DEF ControlTyped
<1> QED BY <1>2, <1>5, <1>6, <1>7 DEF TraceInv, SavedIsWhole

\* The view of a call under way, or of one that starts.
LEMMA CallView ==
    ASSUME CallsAssumption, TraceInv, NEW s \in Slots
    PROVE  /\ ViewOK(View(s)) /\ Len(View(s).stack) = IF slots[s].state = "calling" THEN 2 ELSE 0
           /\ slots[s].state \in SlotStates /\ slots[s].attempt \in 0..(ToolRetries + 1)
           /\ slots[s] = [state |-> slots[s].state, attempt |-> slots[s].attempt]
<1>1. SpansOK /\ StacksFit /\ ControlTyped /\ s \in Tasks
    BY DEF TraceInv, Tasks
<1>2. ViewOK(View(s)) /\ View(s).stack = open[s]
    BY <1>1, ViewTyped
<1>3. slots[s] \in [state : SlotStates, attempt : 0..(ToolRetries + 1)]
    BY <1>1 DEF ControlTyped
<1> QED BY <1>1, <1>2, <1>3 DEF StacksFit

LEMMA CallStartsStep ==
    ASSUME CallsAssumption, TraceInv, NEW s \in Slots, CallStarts(s)
    PROVE  TraceInv'
<1>1. ViewOK(View(s)) /\ Len(View(s).stack) = 0
    BY CallView DEF CallStarts
<1>2. PICK v, w : v = Enter(View(s), "call") /\ w = Enter(v, "attempt")
    OBVIOUS
<1>3. "call" \in Kinds /\ "attempt" \in Kinds
    BY DEF Kinds
<1>4. Follows(View(s), v) /\ Len(v.stack) = 1
    <2>1. /\ Follows(View(s), Enter(View(s), "call"))
          /\ Len(Enter(View(s), "call").stack) = Len(View(s).stack) + 1
        BY <1>1, <1>3, EnterIs
    <2> QED BY <1>1, <1>2, <2>1
<1>5. Follows(v, w) /\ Len(w.stack) = 2
    <2>1. ViewOK(v)
        BY <1>4 DEF Follows
    <2>2. Follows(v, w) /\ Len(w.stack) = Len(v.stack) + 1
        BY <1>2, <1>3, <2>1, EnterIs
    <2> QED BY <1>4, <2>2
<1>6. Follows(View(s), w)
    BY <1>1, <1>4, <1>5, FollowsIsTransitive
<1>7. PICK to : /\ to = [state |-> "calling", attempt |-> 1]
                /\ to \in [state : SlotStates, attempt : 0..(ToolRetries + 1)]
    <2>1. [state |-> "calling", attempt |-> 1]
             \in [state : SlotStates, attempt : 0..(ToolRetries + 1)]
        BY DEF SlotStates, CallsAssumption
    <2> QED BY <2>1
<1>8. /\ phase = "acting" /\ Becomes(w) /\ slots' = [slots EXCEPT ![s] = to]
      /\ UNCHANGED <<phase, turn, chat, saved, cause>>
    BY <1>2, <1>7 DEF CallStarts
<1>9. Len(w.stack) = IF to.state = "calling" THEN 2 ELSE 0
    BY <1>5, <1>7
<1> QED BY <1>6, <1>7, <1>8, <1>9, CallStep

LEMMA ToolRepliesStep ==
    ASSUME CallsAssumption, TraceInv, NEW s \in Slots, NEW answer, ToolReplies(s, answer)
    PROVE  TraceInv'
<1>1. ViewOK(View(s)) /\ Len(View(s).stack) = 2 /\ View(s).stack # <<>>
    <2>1. ViewOK(View(s)) /\ Len(View(s).stack) = 2
        BY CallView DEF ToolReplies
    <2> QED BY <2>1, EmptySeq
<1>2. PICK code : code = ToolCode(answer) /\ code \in Codes \cup CallStatuses
    BY DEF ToolCode, TransportCode, PayloadCode, Codes, Retryable
<1>3. PICK status \in {"ok", "error"} : status = IF code = "none" THEN "ok" ELSE "error"
    OBVIOUS
<1>4. PICK v : v = LeaveNoted(View(s), status, code)
    OBVIOUS
<1>5. Follows(View(s), v) /\ Len(v.stack) = 1
    <2>1. status \in SpanStatuses
        BY DEF SpanStatuses
    <2>2. /\ Follows(View(s), LeaveNoted(View(s), status, code))
          /\ Len(LeaveNoted(View(s), status, code).stack) = Len(View(s).stack) - 1
        BY <1>1, <1>2, <2>1, LeaveIs
    <2> QED BY <1>1, <1>4, <2>2
<1>6. ViewOK(v) /\ v.stack # <<>>
    <2>1. ViewOK(v)
        BY <1>5 DEF Follows
    <2>2. v.stack # <<>>
        BY <1>5, EmptySeq
    <2> QED BY <2>1, <2>2
<1>7. /\ phase = "acting" /\ slots[s].state = "calling"
      /\ UNCHANGED <<phase, turn, chat, saved, cause>>
      /\ IF MayTryAgain(s, code)
         THEN /\ Becomes(Enter(v, "attempt"))
              /\ slots' = [slots EXCEPT ![s].attempt = @ + 1]
         ELSE /\ Becomes(Leave(v, status))
              /\ slots' = [slots EXCEPT ![s].state = status]
    BY <1>2, <1>3, <1>4 DEF ToolReplies
<1>8. /\ slots[s] = [state |-> "calling", attempt |-> slots[s].attempt]
      /\ slots[s].attempt \in 0..(ToolRetries + 1)
      /\ slots \in [Slots -> [state : SlotStates, attempt : 0..(ToolRetries + 1)]]
    BY <1>7, CallView DEF TraceInv, ControlTyped
<1>9. CASE MayTryAgain(s, code)
    <2>1. PICK to : /\ to = [state |-> "calling", attempt |-> slots[s].attempt + 1]
                    /\ to \in [state : SlotStates, attempt : 0..(ToolRetries + 1)]
        <3>1. slots[s].attempt + 1 \in 0..(ToolRetries + 1) /\ "calling" \in SlotStates
            BY <1>8, <1>9 DEF MayTryAgain, SlotStates, CallsAssumption
        <3>2. [state |-> "calling", attempt |-> slots[s].attempt + 1]
                 \in [state : SlotStates, attempt : 0..(ToolRetries + 1)]
            BY <3>1
        <3> QED BY <3>2
    <2>2. slots' = [slots EXCEPT ![s] = to]
        BY <1>7, <1>8, <1>9, <2>1
    <2>3. PICK w : w = Enter(v, "attempt")
        OBVIOUS
    <2>4. Follows(v, w) /\ Len(w.stack) = 2
        <3>1. "attempt" \in Kinds
            BY DEF Kinds
        <3>2. Follows(v, Enter(v, "attempt")) /\ Len(Enter(v, "attempt").stack) = Len(v.stack) + 1
            BY <1>6, <3>1, EnterIs
        <3> QED BY <1>5, <2>3, <3>2
    <2>5. Follows(View(s), w)
        BY <1>1, <1>5, <2>4, FollowsIsTransitive
    <2>6. Becomes(w) /\ Len(w.stack) = IF to.state = "calling" THEN 2 ELSE 0
        BY <1>7, <1>9, <2>1, <2>3, <2>4
    <2> QED BY <1>7, <2>1, <2>2, <2>5, <2>6, CallStep
<1>10. CASE ~MayTryAgain(s, code)
    <2>1. PICK to : /\ to = [state |-> status, attempt |-> slots[s].attempt]
                    /\ to \in [state : SlotStates, attempt : 0..(ToolRetries + 1)]
        <3>1. [state |-> status, attempt |-> slots[s].attempt]
                 \in [state : SlotStates, attempt : 0..(ToolRetries + 1)]
            BY <1>8 DEF SlotStates
        <3> QED BY <3>1
    <2>2. slots' = [slots EXCEPT ![s] = to]
        BY <1>7, <1>8, <1>10, <2>1
    <2>3. PICK w : w = LeaveNoted(v, status, "none") /\ w = Leave(v, status)
        BY DEF Leave
    <2>4. Follows(v, w) /\ Len(w.stack) = 0
        <3>1. status \in SpanStatuses /\ "none" \in Codes \cup CallStatuses
            BY DEF SpanStatuses, Codes
        <3>2. /\ Follows(v, LeaveNoted(v, status, "none"))
              /\ Len(LeaveNoted(v, status, "none").stack) = Len(v.stack) - 1
            BY <1>6, <3>1, LeaveIs
        <3> QED BY <1>5, <2>3, <3>2
    <2>5. Follows(View(s), w)
        BY <1>1, <1>5, <2>4, FollowsIsTransitive
    <2>6. Becomes(w) /\ Len(w.stack) = IF to.state = "calling" THEN 2 ELSE 0
        BY <1>7, <1>10, <2>1, <2>3, <2>4
    <2> QED BY <1>7, <2>1, <2>2, <2>5, <2>6, CallStep
<1> QED BY <1>9, <1>10

LEMMA ToolRaisesStep ==
    ASSUME CallsAssumption, TraceInv, NEW s \in Slots, NEW answer, ToolRaises(s, answer)
    PROVE  TraceInv'
<1>1. ViewOK(View(s)) /\ Len(View(s).stack) = 2
    BY CallView DEF ToolRaises
<1>2. PICK w : w = Unwound(View(s), 0, "error")
    OBVIOUS
<1>3. Follows(View(s), w) /\ Len(w.stack) = 0
    <2>1. 0 \in 0..Len(View(s).stack) /\ "error" \in SpanStatuses
        BY <1>1 DEF SpanStatuses
    <2> QED BY <1>1, <1>2, <2>1, UnwoundIs
<1>4. /\ phase = "acting" /\ slots[s].state = "calling" /\ Becomes(w)
      /\ slots' = [slots EXCEPT ![s].state = "raised"]
      /\ UNCHANGED <<phase, turn, chat, saved, cause>>
    BY <1>2 DEF ToolRaises
<1>5. /\ slots[s] = [state |-> "calling", attempt |-> slots[s].attempt]
      /\ slots[s].attempt \in 0..(ToolRetries + 1)
      /\ slots \in [Slots -> [state : SlotStates, attempt : 0..(ToolRetries + 1)]]
    BY <1>4, CallView DEF TraceInv, ControlTyped
<1>6. PICK to : /\ to = [state |-> "raised", attempt |-> slots[s].attempt]
                /\ to \in [state : SlotStates, attempt : 0..(ToolRetries + 1)]
    <2>1. [state |-> "raised", attempt |-> slots[s].attempt]
             \in [state : SlotStates, attempt : 0..(ToolRetries + 1)]
        BY <1>5 DEF SlotStates
    <2> QED BY <2>1
<1>7. slots' = [slots EXCEPT ![s] = to]
    <2>1. [slots[s] EXCEPT !.state = "raised"] = to
        BY <1>5, <1>6
    <2> QED BY <1>4, <2>1
<1>8. Len(w.stack) = IF to.state = "calling" THEN 2 ELSE 0
    BY <1>3, <1>6
<1> QED BY <1>3, <1>4, <1>6, <1>7, <1>8, CallStep

LEMMA BatchEndsStep ==
    ASSUME CallsAssumption, TraceInv, BatchEnds
    PROVE  TraceInv'
<1>1. /\ SpansOK /\ FirstIsRun /\ phase = "acting" /\ NoneCalling /\ turn < MaxTurns
      /\ Len(open[Main]) = 3
    BY DEF TraceInv, BatchEnds, NoneCalling, PhasesFit, StacksFit, Depth
<1>2. Above(View(Main), 2 + 1) /\ open[Main] # <<>>
    BY <1>1, MainAbove
<1>3. CASE Fails(View(Main), "tool")
    BY <1>1, <1>2, <1>3, FailsStep
<1>4. ASSUME NEW status \in {"ok", "error"}, Planning(Leave(View(Main), status))
      PROVE  TraceInv'
    <2>1. Above(Leave(View(Main), status), 2)
        BY <1>1, <1>2, <1>4, LeftAbove DEF SpanStatuses
    <2> QED BY <1>1, <1>4, <2>1, PlanningStep
<1>5. (IF \E s \in Slots : slots[s].state = "error" THEN "error" ELSE "ok") \in {"ok", "error"}
    OBVIOUS
<1> QED BY <1>3, <1>4, <1>5 DEF BatchEnds

\* What is left of the spans of the run when its calls, then the run, are cancelled.
LEMMA CancelledToIs ==
    ASSUME CallsAssumption, TraceInv, NEW depth \in 0..Len(open[Main])
    PROVE  /\ ViewOK(CancelledView) /\ Follows(CancelledView, CancelledTo(depth))
           /\ Len(CancelledTo(depth).stack) = depth /\ UnderRun(CancelledTo(depth).stack)
<1>1. SpansOK /\ FirstIsRun
    BY DEF TraceInv
<1>2. ViewOK(CancelledView) /\ CancelledView.stack = open[Main]
    BY <1>1, CancelledViewTyped
<1>3. PICK w : w = Unwound(CancelledView, depth, "cancelled") /\ w = CancelledTo(depth)
    BY DEF CancelledTo, CancelledView
<1>4. /\ Follows(CancelledView, w) /\ Len(w.stack) = depth
      /\ \A i \in 1..depth : w.stack[i] = open[Main][i]
    <2>1. depth \in 0..Len(CancelledView.stack) /\ "cancelled" \in SpanStatuses
        BY <1>2 DEF SpanStatuses
    <2>2. /\ Follows(CancelledView, Unwound(CancelledView, depth, "cancelled"))
          /\ Len(Unwound(CancelledView, depth, "cancelled").stack) = depth
          /\ \A i \in 1..depth :
                Unwound(CancelledView, depth, "cancelled").stack[i] = CancelledView.stack[i]
        BY <1>2, <2>1, UnwoundIs
    <2> QED BY <1>2, <1>3, <2>2
<1>5. UnderRun(w.stack)
    <2>1. CASE depth = 0
        <3>1. w.stack = <<>>
            BY <1>4, <2>1, EmptySeq DEF Follows, ViewOK
        <3> QED BY <3>1 DEF UnderRun
    <2>2. CASE depth # 0
        <3>1. 1 \in 1..depth /\ open[Main] # <<>>
            BY <2>2, EmptySeq
        <3> QED BY <1>1, <1>4, <3>1 DEF FirstIsRun, UnderRun
    <2> QED BY <2>1, <2>2
<1> QED BY <1>2, <1>3, <1>4, <1>5

LEMMA LoopTimesOutStep ==
    ASSUME CallsAssumption, TraceInv, LoopTimesOut
    PROVE  TraceInv'
<1>1. /\ SpansOK /\ NothingForgotten /\ ControlTyped /\ Len(open[Main]) = 3
    BY DEF TraceInv, LoopTimesOut, StacksFit, Depth
<1>2. PICK u, w : u = CancelledTo(2) /\ w = Enter(u, "review")
    OBVIOUS
<1>3. ViewOK(CancelledView) /\ Follows(CancelledView, u) /\ Len(u.stack) = 2 /\ UnderRun(u.stack)
    <2>1. 2 \in 0..Len(open[Main])
        BY <1>1
    <2> QED BY <1>2, <2>1, CancelledToIs
<1>4. /\ Follows(u, w) /\ Len(w.stack) = 3 /\ \A i \in 1..2 : w.stack[i] = u.stack[i]
    <2>1. ViewOK(u) /\ "review" \in Kinds
        BY <1>3 DEF Follows, Kinds
    <2>2. /\ Follows(u, w) /\ Len(w.stack) = Len(u.stack) + 1
          /\ \A i \in 1..Len(u.stack) : w.stack[i] = u.stack[i]
        BY <1>2, <2>1, EnterIs
    <2> QED BY <1>3, <2>2
<1>5. Follows(CancelledView, w)
    BY <1>3, <1>4, FollowsIsTransitive
<1>6. UnderRun(w.stack)
    <2>1. u.stack # <<>> /\ 1 \in 1..2
        BY <1>3
    <2> QED BY <1>3, <1>4, <2>1 DEF UnderRun
<1>7. /\ collector' = w.collector /\ phase' = "auditing" /\ chat' = FirstRequest
      /\ open' = [t \in Tasks |-> IF t = Main THEN w.stack ELSE <<>>]
      /\ slots' = [s \in Slots |-> NoSlot] /\ UNCHANGED <<turn, saved, cause>>
    BY <1>2 DEF LoopTimesOut
<1>8. SpansOK' /\ NothingForgotten' /\ FirstIsRun'
    BY <1>1, <1>5, <1>6, <1>7, CancellationStep
<1>9. Len(open'[Main]) = 3 /\ \A s \in Slots : Len(open'[s]) = 0
    BY <1>4, <1>7 DEF Tasks, Main, Slots, CallsAssumption
<1>10. StacksFit' /\ PhasesFit'
    BY <1>7, <1>9 DEF StacksFit, Depth, PhasesFit, NoSlot
<1>11. ControlTyped'
    BY <1>1, <1>7 DEF ControlTyped, FirstRequest, NoSlot, CallsAssumption, SlotStates
<1> QED BY <1>7, <1>8, <1>10, <1>11 DEF TraceInv, SavedIsWhole

LEMMA CancelledStep ==
    ASSUME CallsAssumption, TraceInv, Cancelled
    PROVE  TraceInv'
<1>1. SpansOK /\ NothingForgotten /\ ControlTyped
    BY DEF TraceInv
<1>2. PICK w : w = CancelledTo(0)
    OBVIOUS
<1>3. Follows(CancelledView, w) /\ Len(w.stack) = 0 /\ UnderRun(w.stack)
    <2>1. 0 \in 0..Len(open[Main])
        BY <1>1, LenProperties DEF SpansOK, Tasks
    <2> QED BY <1>2, <2>1, CancelledToIs
<1>4. w.stack = <<>>
    BY <1>3, EmptySeq DEF Follows, ViewOK
<1>5. /\ collector' = w.collector /\ phase' = "cancelled" /\ chat' = NoChat
      /\ open' = [t \in Tasks |-> IF t = Main THEN w.stack ELSE <<>>]
      /\ slots' = [s \in Slots |-> NoSlot] /\ UNCHANGED <<turn, saved, cause>>
    BY <1>2, <1>4 DEF Cancelled
<1>6. SpansOK' /\ NothingForgotten' /\ FirstIsRun'
    BY <1>1, <1>3, <1>5, CancellationStep
<1>7. \A t \in Tasks : Len(open'[t]) = 0
    BY <1>4, <1>5
<1>8. StacksFit' /\ PhasesFit'
    BY <1>5, <1>7 DEF StacksFit, Depth, PhasesFit, NoSlot, Tasks
<1>9. ControlTyped'
    BY <1>1, <1>5 DEF ControlTyped, NoChat, NoSlot, CallsAssumption, SlotStates, Ended
<1> QED BY <1>5, <1>6, <1>8, <1>9 DEF TraceInv, SavedIsWhole

-----------------------------------------------------------------------------
(* The trace of every execution.                                           *)

LEMMA TraceInitially ==
    ASSUME CallsAssumption, CallsInit
    PROVE  TraceInv
<1>1. PICK limit \in Limits : collector = NewCollector(limit)
    BY DEF CallsInit
<1>2. limit \in Nat \ {0}
    BY DEF CallsAssumption
<1>3. CollectorOK(collector)
    BY <1>1, <1>2 DEF CollectorOK, NewCollector
<1>4. open = [t \in Tasks |-> <<>>] /\ collector.next = 1 /\ <<>> \in Seq(Frames(collector))
    BY <1>1, EmptySeq DEF CallsInit, NewCollector
<1>5. SpansOK /\ NothingForgotten
    BY <1>3, <1>4 DEF SpansOK, NothingForgotten
<1>6. StacksFit /\ FirstIsRun /\ PhasesFit
    BY <1>4 DEF CallsInit, StacksFit, Depth, FirstIsRun, UnderRun, PhasesFit, NoSlot, Tasks
<1>7. ControlTyped
    BY DEF CallsInit, ControlTyped, NoSlot, NoChat, CallsAssumption, SlotStates
<1> QED BY <1>5, <1>6, <1>7 DEF TraceInv, SavedIsWhole, CallsInit

LEMMA TraceStep ==
    ASSUME CallsAssumption, TraceInv, [CallsNext]_callVars
    PROVE  TraceInv'
<1>1. CASE Start
    BY <1>1, StartStep
<1>2. CASE Retrieved
    BY <1>2, RetrievedStep
<1>3. CASE \E answer \in ModelAnswers : PlannerReplies(answer)
    BY <1>3, PlannerRepliesStep
<1>4. CASE \E answer \in ModelAnswers : AuditorReplies(answer)
    BY <1>4, AuditorStep
<1>5. CASE \E s \in Slots : CallStarts(s)
    BY <1>5, CallStartsStep
<1>6. CASE \E s \in Slots, answer \in ToolAnswers : ToolReplies(s, answer)
    BY <1>6, ToolRepliesStep
<1>7. CASE \E s \in Slots, answer \in ToolAnswers : ToolRaises(s, answer)
    BY <1>7, ToolRaisesStep
<1>8. CASE BatchEnds
    BY <1>8, BatchEndsStep
<1>9. CASE LoopTimesOut
    BY <1>9, LoopTimesOutStep
<1>10. CASE Cancelled
    BY <1>10, CancelledStep
<1>11. CASE UNCHANGED callVars
    BY <1>11 DEF callVars, TraceInv, SpansOK, NothingForgotten, StacksFit, FirstIsRun, PhasesFit,
                 ControlTyped, SavedIsWhole
<1> QED BY <1>1, <1>2, <1>3, <1>4, <1>5, <1>6, <1>7, <1>8, <1>9, <1>10, <1>11 DEF CallsNext

\* Spans are recorded with parents that started before them, none is forgotten, and a
\* task that waits holds exactly the spans around what it waits for.
THEOREM TraceSound == CallsSpec => []TraceInv
<1>1. CallsInit => TraceInv
    BY TraceInitially, CallsAssumption
<1>2. TraceInv /\ [CallsNext]_callVars => TraceInv'
    BY TraceStep, CallsAssumption
<1> QED BY <1>1, <1>2, PTL DEF CallsSpec

\* Whenever the trace is exported, with whatever spans still open and whatever was
\* dropped, it is one tree whose parents come first.
THEOREM ExportsATree == CallsSpec => []AlwaysATree
<1>1. TraceInv => AlwaysATree
    BY SnapshotIsATree, CallsAssumption DEF TraceInv, SpansOK, AlwaysATree
<1> QED BY <1>1, TraceSound, PTL

\* The trace stored with an outcome has a span for each number given, and the first is
\* the run and tells how it ended.
THEOREM SavesTheWhole == CallsSpec => []SavedIsWhole
<1>1. TraceInv => SavedIsWhole
    BY DEF TraceInv
<1> QED BY <1>1, TraceSound, PTL

\* The collector, the stacks and the bookkeeping of calls hold what the code's objects can.
THEOREM TraceTyped == CallsSpec => []CallsTyped
<1>1. ASSUME TraceInv PROVE CallsTyped
    <2>1. CollectorOK(collector) /\ open \in [Tasks -> Seq(Frames(collector))] /\ ControlTyped
        BY <1>1 DEF TraceInv, SpansOK
    <2>2. collector.limit \in Nat \ {0} /\ collector.next \in 1..(collector.limit + 1)
        BY <2>1, LimitTyped, CallsAssumption DEF CollectorOK
    <2>3. \A n \in DOMAIN collector.completed :
             collector.completed[n] \in
                 [parent : 0..(n - 1), status : SpanStatuses, label : Labels]
        BY <2>1 DEF CollectorOK, SpanOK
    <2>4. \A t \in Tasks : \A i \in DOMAIN open[t] :
             open[t][i] \in [number : 0..collector.limit, parent : 0..collector.limit,
                             label : Labels]
        <3>1. ASSUME NEW t \in Tasks, NEW i \in DOMAIN open[t]
              PROVE  open[t][i] \in Frames(collector)
            <4>1. open[t] \in Seq(Frames(collector))
                BY <2>1
            <4> QED BY <4>1, LenProperties
        <3>2. 0..(collector.next - 1) \subseteq 0..collector.limit
            BY <2>2
        <3> QED BY <3>1, <3>2 DEF Frames
    <2>5. collector.limit \in Limits /\ collector.dropped \in Nat
          /\ DOMAIN collector.completed \subseteq 1..(collector.next - 1)
        BY <2>1 DEF CollectorOK
    <2> QED BY <2>1, <2>2, <2>3, <2>4, <2>5 DEF CallsTyped, ControlTyped, SlotStates
<1> QED BY <1>1, TraceSound, PTL

-----------------------------------------------------------------------------
(* Which spans belong together.  A span keeps its parent, its kind and its  *)
(* task from when it starts; so the invariant is about the tree of all the  *)
(* spans that started, of which the open ones have no status yet.           *)

Opening(f) ==
    [parent |-> EffectiveParent(f.number, f.parent), status |-> "open", label |-> f.label]

\* tree has a span for every number the collector gave.
TreeOf(tree, c) ==
    /\ DOMAIN tree = 1..(c.next - 1)
    /\ \A n \in DOMAIN tree :
          /\ tree[n].parent \in 0..(n - 1) /\ tree[n].label \in Labels
          /\ IF n \in DOMAIN c.completed
             THEN tree[n] = c.completed[n] /\ tree[n].status \in SpanStatuses
             ELSE tree[n].status = "open" /\ tree[n].label.note = "none"

\* A task has entered f: a span of the tree, or one beyond the limit.
OpenIn(tree, c, f) ==
    IF f.number = 0 THEN c.next > c.limit /\ c.dropped > 0
    ELSE /\ f.number \in DOMAIN tree /\ f.number \notin DOMAIN c.completed
         /\ tree[f.number] = Opening(f)
AllOpen(tree) == \A t \in Tasks : \A i \in DOMAIN open[t] : OpenIn(tree, collector, open[t][i])

Of(tree, kind) == {n \in DOMAIN tree : tree[n].label.kind = kind}
Below(tree, p, kind) == {n \in DOMAIN tree : tree[n].parent = p /\ tree[n].label.kind = kind}
Invalid(tree, p) == {n \in Below(tree, p, "model") : tree[n].label.note = "output_invalid"}
Is(tree, n, kind) == n \in DOMAIN tree /\ tree[n].label.kind = kind
AsksAgain == Transient \cup {"output_invalid"}

\* What every tree of spans has.
Nested(tree) ==
    /\ \A n \in Of(tree, "attempt") :
          /\ Is(tree, tree[n].parent, "call")
          /\ tree[tree[n].parent].label.task = tree[n].label.task
    /\ \A n \in Of(tree, "call") :
          Is(tree, tree[n].parent, "batch") /\ tree[n].label.task \in Slots
    /\ \A n \in Of(tree, "model") :
          Is(tree, tree[n].parent, "decision") \/ Is(tree, tree[n].parent, "review")
OneCallEach(tree) ==
    \A m, n \in Of(tree, "call") :
        tree[m].parent = tree[n].parent /\ tree[m].label.task = tree[n].label.task => m = n
Caused(tree) ==
    /\ \A m, n \in Of(tree, "attempt") :
          tree[m].parent = tree[n].parent /\ m < n => tree[m].label.note \in Retryable
    /\ \A m, n \in Of(tree, "model") :
          tree[m].parent = tree[n].parent /\ m < n => tree[m].label.note \in AsksAgain
Bounded(tree) ==
    \A n \in DOMAIN tree :
        /\ Cardinality(Below(tree, n, "attempt")) <= ToolRetries + 1
        /\ Cardinality(Below(tree, n, "model")) <= (Repairs + 1) * MaxAttempts
        /\ Cardinality(Invalid(tree, n)) <= Repairs + 1

\* A call ends as its last attempt does, both being open until then; a batch that went
\* well has calls that did.
EndsWithLast(tree, n) ==
    \E last \in Below(tree, n, "attempt") :
        /\ tree[last].status = tree[n].status
        /\ \A m \in Below(tree, n, "attempt") : m <= last
CallsEndWithLast(tree, dropped) == dropped = 0 => \A n \in Of(tree, "call") : EndsWithLast(tree, n)
BatchesGoWell(tree) ==
    \A n \in Of(tree, "batch") : tree[n].status = "ok" =>
        \A m \in Below(tree, n, "call") : tree[m].status = "ok"

Lasting(tree) == Nested(tree) /\ OneCallEach(tree) /\ Caused(tree) /\ Bounded(tree)
Family(tree, dropped) ==
    Lasting(tree) /\ CallsEndWithLast(tree, dropped) /\ BatchesGoWell(tree)

\* What is known of the spans of the exchange, of the batch and of the calls under way.
Inmost == open[Main][3].number
Exchange(tree) ==
    phase \in {"planning", "auditing"} =>
        /\ chat.repaired => Repairs = 1
        /\ Inmost # 0 =>
              /\ \A m \in Below(tree, Inmost, "model") : tree[m].label.note \in AsksAgain
              /\ Cardinality(Below(tree, Inmost, "model"))
                    <= (chat.attempt - 1) + IF chat.repaired THEN MaxAttempts ELSE 0
              /\ Cardinality(Invalid(tree, Inmost)) <= IF chat.repaired THEN 1 ELSE 0
BatchSoFar(tree) ==
    phase = "acting" /\ Inmost # 0 =>
        \A n \in Below(tree, Inmost, "call") :
            LET s == tree[n].label.task
            IN  /\ slots[s].state \in {"calling", "ok", "error", "raised"}
                /\ slots[s].state = "ok" => tree[n].status = "ok"
                /\ slots[s].state = "calling" => n = open[s][1].number
CallSoFar(tree) ==
    \A s \in Slots : slots[s].state = "calling" /\ open[s][1].number # 0 =>
        /\ \A m \in Below(tree, open[s][1].number, "attempt") :
              m = open[s][2].number \/ tree[m].label.note \in Retryable
        /\ Cardinality(Below(tree, open[s][1].number, "attempt")) <= slots[s].attempt
UnderWay(tree) == Exchange(tree) /\ BatchSoFar(tree) /\ CallSoFar(tree)

\* The spans around what the execution waits for, by name; inner ones start later.
Around(p) ==
    CASE p = "retrieving" -> <<"run", "retrieval">>
      [] p = "planning" -> <<"run", "workflow", "decision">>
      [] p = "acting" -> <<"run", "workflow", "batch">>
      [] p = "auditing" -> <<"run", "workflow", "review">>
      [] OTHER -> <<>>
Named ==
    /\ \A i \in DOMAIN open[Main] : open[Main][i].label = Label(Around(phase)[i], Main)
    /\ \A s \in Slots : \A i \in DOMAIN open[s] :
          open[s][i].label = Label(<<"call", "attempt">>[i], s)

Ascends(q) ==
    \A i, j \in DOMAIN q : i < j /\ q[j].number # 0 => q[i].number < q[j].number
Within(q, p) ==
    \A i \in DOMAIN q, j \in DOMAIN p : q[i].number # 0 => p[j].number < q[i].number
Orderly == Ascends(open[Main]) /\ \A s \in Slots : Ascends(open[s]) /\ Within(open[s], open[Main])

\* What is saved is the tree.
SavedFits ==
    IF phase \in {"completed", "failed"}
    THEN /\ DOMAIN collector.completed = 1..(collector.next - 1)
         /\ DOMAIN saved = DOMAIN collector.completed
         /\ \A n \in DOMAIN saved : saved[n] = collector.completed[n]
    ELSE saved = <<>>

FamilyInv ==
    /\ Named /\ Orderly /\ SavedFits
    /\ \E tree : /\ TreeOf(tree, collector) /\ AllOpen(tree)
                 /\ Family(tree, collector.dropped) /\ UnderWay(tree)

-----------------------------------------------------------------------------
(* What a step of a task makes of the tree.                                *)

\* What a task sees is in the tree: the spans it has entered, the ones around them.
Sound(tree, v) ==
    /\ ViewOK(v) /\ TreeOf(tree, v.collector)
    /\ Ascends(v.stack) /\ Ascends(v.outer) /\ Within(v.stack, v.outer)
    /\ \A i \in DOMAIN v.stack :
          OpenIn(tree, v.collector, v.stack[i]) /\ v.stack[i].label.task = v.task
    /\ \A i \in DOMAIN v.outer :
          OpenIn(tree, v.collector, v.outer[i]) /\ v.outer[i].label.task # v.task

\* w is what became of v, later is what became of its tree; other tasks see the same.
LeadsOn(tree, v, later, w) ==
    /\ Sound(later, w) /\ w.task = v.task /\ w.outer = v.outer
    /\ \A g : g.label.task # v.task /\ OpenIn(tree, v.collector, g)
                 => OpenIn(later, w.collector, g)

\* A span more, with the number n; spans closed, with their parents and labels kept.
Adds(tree, later, n, span) ==
    /\ n \in Nat \ DOMAIN tree /\ DOMAIN later = DOMAIN tree \cup {n} /\ later[n] = span
    /\ \A m \in DOMAIN tree : later[m] = tree[m] /\ m < n
SameSpan(a, b) ==
    a.parent = b.parent /\ a.label.kind = b.label.kind /\ a.label.task = b.label.task
Closes(tree, later, N, status) ==
    /\ DOMAIN later = DOMAIN tree /\ N \subseteq DOMAIN tree
    /\ \A n \in DOMAIN tree \ N : later[n] = tree[n]
    /\ \A n \in N : /\ tree[n].status = "open" /\ tree[n].label.note = "none"
                    /\ later[n].status = status /\ later[n].label.note \in Codes
                    /\ SameSpan(later[n], tree[n])

LEMMA FramesOf ==
    ASSUME CallsAssumption, NEW c, CollectorOK(c), NEW s \in Seq(Frames(c))
    PROVE  /\ Len(s) \in Nat /\ DOMAIN s = 1..Len(s)
           /\ \A i \in DOMAIN s : s[i] \in Frames(c) /\ s[i].number \in 0..(c.next - 1)
                                  /\ s[i].label \in Labels
BY LenProperties DEF Frames

\* A span is entered or recorded under the inmost span around it.
Top(v) ==
    IF v.stack # <<>> THEN v.stack[Len(v.stack)].number
    ELSE IF v.outer # <<>> THEN v.outer[Len(v.outer)].number ELSE 0

LEMMA ParentIsInmost ==
    ASSUME CallsAssumption, NEW tree, NEW v, Sound(tree, v), v.collector.next <= v.collector.limit
    PROVE  Parent(v) = Top(v)
<1> DEFINE N == {0} \cup Numbers(v.outer) \cup Numbers(v.stack)
           c == v.collector
<1>1. /\ CollectorOK(c) /\ v.stack \in Seq(Frames(c)) /\ v.outer \in Seq(Frames(c))
      /\ c.limit \in Nat /\ c.next \in Nat \ {0} /\ c.next - 1 \in Nat
    BY LimitTyped DEF Sound, ViewOK
<1>2. /\ Len(v.stack) \in Nat /\ DOMAIN v.stack = 1..Len(v.stack)
      /\ \A i \in DOMAIN v.stack : v.stack[i].number \in 1..(c.next - 1)
    <2>1. \A i \in DOMAIN v.stack : v.stack[i].number # 0
        BY <1>1 DEF Sound, OpenIn
    <2> QED BY <1>1, <2>1, FramesOf
<1>3. /\ Len(v.outer) \in Nat /\ DOMAIN v.outer = 1..Len(v.outer)
      /\ \A i \in DOMAIN v.outer : v.outer[i].number \in 1..(c.next - 1)
    <2>1. \A i \in DOMAIN v.outer : v.outer[i].number # 0
        BY <1>1 DEF Sound, OpenIn
    <2> QED BY <1>1, <2>1, FramesOf
<1>4. N \subseteq 0..(c.next - 1) /\ 0 \in N
    BY <1>1, <1>2, <1>3 DEF Numbers
<1>5. PICK m : m = Max(N) /\ m \in N /\ \A k \in N : k <= m
    BY <1>1, <1>4, MaxIsMember
<1>6. Top(v) \in N /\ \A k \in N : k <= Top(v)
    <2>1. CASE v.stack # <<>>
        <3>1. Len(v.stack) \in DOMAIN v.stack
            BY <1>1, <1>2, <2>1, EmptySeq
        <3>2. \A i \in DOMAIN v.stack : v.stack[i].number <= v.stack[Len(v.stack)].number
            BY <1>2, <3>1 DEF Sound, Ascends
        <3>3. \A i \in DOMAIN v.outer : v.outer[i].number <= v.stack[Len(v.stack)].number
            BY <1>2, <1>3, <3>1 DEF Sound, Within
        <3>4. v.stack[Len(v.stack)].number \in N /\ 0 <= v.stack[Len(v.stack)].number
            BY <1>2, <3>1 DEF Numbers
        <3>5. Top(v) = v.stack[Len(v.stack)].number
            BY <2>1 DEF Top
        <3> QED BY <3>2, <3>3, <3>4, <3>5 DEF Numbers
    <2>2. CASE v.stack = <<>> /\ v.outer # <<>>
        <3>1. Len(v.outer) \in DOMAIN v.outer
            BY <1>1, <1>3, <2>2, EmptySeq
        <3>2. \A i \in DOMAIN v.outer : v.outer[i].number <= v.outer[Len(v.outer)].number
            BY <1>3, <3>1 DEF Sound, Ascends
        <3>3. v.outer[Len(v.outer)].number \in N /\ 0 <= v.outer[Len(v.outer)].number
            BY <1>3, <3>1 DEF Numbers
        <3>4. Top(v) = v.outer[Len(v.outer)].number /\ Numbers(v.stack) = {}
            BY <2>2 DEF Top, Numbers
        <3> QED BY <3>2, <3>3, <3>4 DEF Numbers
    <2>3. CASE v.stack = <<>> /\ v.outer = <<>>
        BY <2>3 DEF Top, Numbers
    <2> QED BY <2>1, <2>2, <2>3
<1>7. Top(v) = m
    <2> HIDE DEF N, c
    <2>1. PICK k : k = Top(v) /\ k \in N /\ \A i \in N : i <= k
        BY <1>6
    <2>2. k \in Int /\ m \in Int
        BY <1>4, <1>5, <2>1
    <2>3. m <= k /\ k <= m
        BY <1>5, <2>1
    <2> QED BY <2>1, <2>2, <2>3
<1>8. Parent(v) = Max(N)
    BY DEF Parent
<1> HIDE DEF N
<1> QED BY <1>5, <1>7, <1>8

LEMMA ReservedDrops ==
    ASSUME CallsAssumption, NEW c, CollectorOK(c)
    PROVE  IF c.next > c.limit
           THEN Reserved(c).next = c.next /\ Reserved(c).dropped > 0 /\ Number(c) = 0
           ELSE Reserved(c).next = c.next + 1 /\ Reserved(c).dropped = c.dropped /\ Number(c) = c.next
<1>1. c.limit \in Nat \ {0} /\ c.next \in Nat \ {0} /\ c.dropped \in Nat
    BY LimitTyped DEF CollectorOK
<1>2. CASE c.next > c.limit
    <2>1. Reserved(c) = [next |-> c.next, completed |-> c.completed,
                         dropped |-> c.dropped + 1, limit |-> c.limit]
        BY <1>2 DEF Reserved, CollectorOK
    <2> QED BY <1>1, <1>2, <2>1 DEF Number, Inert
<1>3. CASE ~(c.next > c.limit)
    <2>1. Reserved(c) = [next |-> c.next + 1, completed |-> c.completed,
                         dropped |-> c.dropped, limit |-> c.limit]
        BY <1>3 DEF Reserved, CollectorOK
    <2> QED BY <1>3, <2>1 DEF Number
<1> QED BY <1>2, <1>3
\* What a span that ends adds to the collector.
LEMMA FinishedSpan ==
    ASSUME NEW c, NEW number, NEW parent, NEW status, NEW label,
           c = [next |-> c.next, completed |-> c.completed, dropped |-> c.dropped, limit |-> c.limit]
    PROVE  LET d == Finished(c, number, parent, status, label)
           IN  /\ number = 0 => d = c
               /\ number # 0 =>
                     /\ DOMAIN d.completed = DOMAIN c.completed \cup {number}
                     /\ d.completed[number] = [parent |-> EffectiveParent(number, parent),
                                               status |-> status, label |-> label]
                     /\ \A n \in DOMAIN c.completed \ {number} : d.completed[n] = c.completed[n]
                     /\ d.next = c.next /\ d.dropped = c.dropped /\ d.limit = c.limit
<1> DEFINE span == [parent |-> EffectiveParent(number, parent), status |-> status, label |-> label]
           f == [n \in DOMAIN c.completed \cup {number} |->
                    IF n = number THEN span ELSE c.completed[n]]
           d == Finished(c, number, parent, status, label)
<1>1. CASE number = 0
    BY <1>1 DEF Finished, Inert
<1>2. CASE number # 0
    <2>1. d = [next |-> c.next, completed |-> f, dropped |-> c.dropped, limit |-> c.limit]
        BY <1>2 DEF Finished, Inert
    <2>2. /\ DOMAIN f = DOMAIN c.completed \cup {number} /\ f[number] = span
          /\ \A n \in DOMAIN c.completed \ {number} : f[n] = c.completed[n]
        BY DEF span
    <2> HIDE DEF f, span, d
    <2>3. /\ d.completed = f /\ d.next = c.next /\ d.dropped = c.dropped /\ d.limit = c.limit
        BY <2>1
    <2> QED BY <1>2, <2>2, <2>3 DEF span, d
<1> QED BY <1>1, <1>2

\* The collector d is c with the number c.next given to a span, which may be over.
Gives(c, d, span) ==
    /\ d.limit = c.limit /\ d.next = c.next + 1
    /\ \A n \in DOMAIN c.completed : n \in DOMAIN d.completed /\ d.completed[n] = c.completed[n]
    /\ \A n \in DOMAIN d.completed : n \in DOMAIN c.completed \/ n = c.next
    /\ span.parent \in 0..(c.next - 1) /\ span.label \in Labels
    /\ IF c.next \in DOMAIN d.completed
       THEN d.completed[c.next] = span /\ span.status \in SpanStatuses
       ELSE span.status = "open" /\ span.label.note = "none"

LEMMA SpanNumbered ==
    ASSUME CallsAssumption, NEW tree, NEW c, CollectorOK(c), TreeOf(tree, c),
           c.next <= c.limit, NEW d, NEW span, Gives(c, d, span)
    PROVE  \E later : /\ Adds(tree, later, c.next, span) /\ TreeOf(later, d)
                      /\ \A g : OpenIn(tree, c, g) => OpenIn(later, d, g)
<1>1. c.limit \in Nat /\ c.next \in Nat \ {0} /\ DOMAIN c.completed \subseteq 1..(c.next - 1)
    BY LimitTyped DEF CollectorOK
<1>2. DOMAIN tree = 1..(c.next - 1) /\ c.next \notin DOMAIN c.completed
    BY <1>1 DEF TreeOf
<1> DEFINE later == [n \in 1..c.next |-> IF n = c.next THEN span ELSE tree[n]]
<1>3. /\ DOMAIN later = 1..c.next /\ later[c.next] = span
      /\ \A n \in 1..(c.next - 1) : later[n] = tree[n]
    BY <1>1
<1> HIDE DEF later
<1>4. Adds(tree, later, c.next, span)
    BY <1>1, <1>2, <1>3 DEF Adds
<1>5. TreeOf(later, d)
    <2>1. DOMAIN later = 1..(d.next - 1)
        BY <1>1, <1>3 DEF Gives
    <2>2. ASSUME NEW n \in DOMAIN later
          PROVE  /\ later[n].parent \in 0..(n - 1) /\ later[n].label \in Labels
                 /\ IF n \in DOMAIN d.completed
                    THEN later[n] = d.completed[n] /\ later[n].status \in SpanStatuses
                    ELSE later[n].status = "open" /\ later[n].label.note = "none"
        <3>1. CASE n = c.next
            BY <1>3, <3>1 DEF Gives
        <3>2. CASE n # c.next
            <4>1. n \in DOMAIN tree /\ later[n] = tree[n]
                BY <1>1, <1>2, <1>3, <3>2
            <4>2. n \in DOMAIN d.completed <=> n \in DOMAIN c.completed
                BY <3>2 DEF Gives
            <4>3. n \in DOMAIN c.completed => d.completed[n] = c.completed[n]
                BY DEF Gives
            <4> QED BY <4>1, <4>2, <4>3 DEF TreeOf
        <3> QED BY <3>1, <3>2
    <2> QED BY <2>1, <2>2 DEF TreeOf
<1>6. ASSUME NEW g, OpenIn(tree, c, g) PROVE OpenIn(later, d, g)
    <2>1. g.number # 0 /\ g.number \in DOMAIN tree /\ g.number \notin DOMAIN c.completed
          /\ tree[g.number] = Opening(g)
        BY <1>1, <1>6 DEF OpenIn
    <2>2. g.number \notin DOMAIN d.completed
        BY <1>1, <1>2, <2>1 DEF Gives
    <2> QED BY <1>1, <1>2, <1>3, <2>1, <2>2 DEF OpenIn
<1> QED BY <1>4, <1>5, <1>6

\* n is the number of the span that is entered, or 0.
Entered(tree, v, later, w, n, kind) ==
    /\ LeadsOn(tree, v, later, w)
    /\ Len(w.stack) = Len(v.stack) + 1 /\ \A i \in 1..Len(v.stack) : w.stack[i] = v.stack[i]
    /\ w.stack[Len(v.stack) + 1].number = n
    /\ w.stack[Len(v.stack) + 1].label = Label(kind, v.task)
    /\ IF n = 0
       THEN later = tree /\ w.collector.dropped > 0
       ELSE /\ v.collector.next <= v.collector.limit /\ w.collector.dropped = v.collector.dropped
            /\ n = v.collector.next
            /\ Adds(tree, later, n, [parent |-> EffectiveParent(n, Top(v)), status |-> "open",
                                     label |-> Label(kind, v.task)])

LEMMA OrderlyEntered ==
    ASSUME CallsAssumption, NEW c, CollectorOK(c), NEW s \in Seq(Frames(c)),
           NEW p \in Seq(Frames(c)), Ascends(s), Within(s, p), NEW f, NEW q,
           f.number \in {0, c.next}, DOMAIN q = 1..(Len(s) + 1), q[Len(s) + 1] = f,
           \A i \in 1..Len(s) : q[i] = s[i]
    PROVE  Ascends(q) /\ Within(q, p)
<1>1. /\ Len(s) \in Nat /\ DOMAIN s = 1..Len(s) /\ c.next \in Nat \ {0}
      /\ \A i \in 1..Len(s) : s[i].number \in 0..(c.next - 1)
    BY FramesOf, LimitTyped
<1>2. \A i \in DOMAIN p : p[i].number \in 0..(c.next - 1)
    BY FramesOf
<1>3. \A i \in DOMAIN q : i \in 1..Len(s) \/ i = Len(s) + 1
    BY <1>1
<1>4. ASSUME NEW i \in DOMAIN q, NEW j \in DOMAIN q, i < j, q[j].number # 0
      PROVE  q[i].number < q[j].number
    <2>1. i \in 1..Len(s)
        BY <1>1, <1>3, <1>4
    <2>2. CASE j = Len(s) + 1
        BY <1>1, <1>4, <2>1, <2>2
    <2>3. CASE j \in 1..Len(s)
        BY <1>1, <1>4, <2>1, <2>3 DEF Ascends
    <2> QED BY <1>3, <2>2, <2>3
<1>5. ASSUME NEW i \in DOMAIN q, NEW j \in DOMAIN p, q[i].number # 0
      PROVE  p[j].number < q[i].number
    <2>1. CASE i = Len(s) + 1
        BY <1>1, <1>2, <1>5, <2>1
    <2>2. CASE i \in 1..Len(s)
        BY <1>1, <1>5, <2>2 DEF Within
    <2> QED BY <1>3, <2>1, <2>2
<1> QED BY <1>4, <1>5 DEF Ascends, Within

LEMMA EnterTree ==
    ASSUME CallsAssumption, NEW tree, NEW v, Sound(tree, v), NEW kind \in Kinds
    PROVE  \E later, n : Entered(tree, v, later, Enter(v, kind), n, kind)
<1> DEFINE c == v.collector
           d == Reserved(c)
           n == Number(c)
           f == [number |-> n, parent |-> Parent(v), label |-> Label(kind, v.task)]
           span == [parent |-> EffectiveParent(n, Top(v)), status |-> "open",
                    label |-> Label(kind, v.task)]
<1>1. ViewOK(v) /\ TreeOf(tree, c) /\ CollectorOK(c)
    BY DEF Sound, ViewOK
<1>2. c.limit \in Nat \ {0} /\ c.next \in Nat \ {0}
    BY <1>1, LimitTyped
<1>3. PICK w : w = Enter(v, kind) /\ w.collector = d /\ w.stack = Append(v.stack, f)
    <2>1. Enter(v, kind) = [v EXCEPT !.collector = d, !.stack = Append(v.stack, f)]
        BY DEF Enter
    <2> HIDE DEF d, f
    <2> QED BY <1>1, <2>1, ChangedView DEF ViewOK
<1>4. /\ Follows(v, w) /\ Len(w.stack) = Len(v.stack) + 1
      /\ \A i \in 1..Len(v.stack) : w.stack[i] = v.stack[i]
    BY <1>1, <1>3, EnterIs
<1>5. /\ ViewOK(w) /\ w.task = v.task /\ w.outer = v.outer
      /\ v.stack \in Seq(Frames(c)) /\ v.outer \in Seq(Frames(c)) /\ Len(v.stack) \in Nat
      /\ DOMAIN v.stack = 1..Len(v.stack)
      /\ DOMAIN w.stack = 1..(Len(v.stack) + 1)
    BY <1>1, <1>4, LenProperties DEF Follows, ViewOK
<1>6. w.stack[Len(v.stack) + 1] = f
    <2> HIDE DEF f
    <2> QED BY <1>3, <1>5, AppendProperties
<1>7. IF c.next > c.limit THEN d.next = c.next /\ d.dropped > 0 /\ n = 0
                          ELSE d.next = c.next + 1 /\ d.dropped = c.dropped /\ n = c.next
    BY <1>1, ReservedDrops
<1>8. d.completed = c.completed /\ d.limit = c.limit
    BY <1>1, ReservedIs
<1> HIDE DEF d, n
<1>9. f.number = n /\ f.parent = Parent(v) /\ f.label = Label(kind, v.task)
      /\ f.label.task = v.task
    BY DEF Label
<1>10. Ascends(w.stack) /\ Within(w.stack, w.outer) /\ Ascends(w.outer)
    <2>1. f.number \in {0, c.next}
        BY <1>7, <1>9
    <2> HIDE DEF f, c
    <2> QED BY <1>1, <1>4, <1>5, <1>6, <2>1, OrderlyEntered DEF Sound
<1>11. PICK later : /\ TreeOf(later, d)
                    /\ \A g : OpenIn(tree, c, g) => OpenIn(later, d, g)
                    /\ OpenIn(later, d, f)
                    /\ IF n = 0 THEN later = tree /\ d.dropped > 0
                       ELSE /\ c.next <= c.limit /\ d.dropped = c.dropped /\ n = c.next
                            /\ Adds(tree, later, n, span)
    <2>1. CASE c.next > c.limit
        <3>1. TreeOf(tree, d)
            BY <1>1, <1>7, <1>8, <2>1 DEF TreeOf
        <3>2. \A g : OpenIn(tree, c, g) => OpenIn(tree, d, g)
            BY <1>7, <1>8, <2>1 DEF OpenIn
        <3>3. OpenIn(tree, d, f)
            BY <1>7, <1>8, <1>9, <2>1 DEF OpenIn
        <3> QED BY <1>7, <2>1, <3>1, <3>2, <3>3
    <2>2. CASE ~(c.next > c.limit)
        <3>1. c.next <= c.limit /\ n = c.next /\ n # 0
            BY <1>2, <1>7, <2>2
        <3>2. Parent(v) = Top(v) /\ Parent(v) \in 0..(c.next - 1)
            BY <1>1, <3>1, ParentIsInmost, ParentIsEarlier
        <3>3. span = Opening(f)
            BY <1>9, <3>2 DEF Opening
        <3>4. span.parent \in 0..(c.next - 1)
            BY <1>2, <3>1, <3>2 DEF EffectiveParent
        <3>5. Label(kind, v.task) \in Labels /\ Label(kind, v.task).note = "none"
            BY <1>1 DEF Label, Labels, ViewOK, Codes
        <3>6. c.next \notin DOMAIN d.completed
            BY <1>1, <1>2, <1>8 DEF CollectorOK
        <3>7. Gives(c, d, span)
            BY <1>7, <1>8, <2>2, <3>4, <3>5, <3>6 DEF Gives
        <3>8. PICK later : /\ Adds(tree, later, c.next, span) /\ TreeOf(later, d)
                           /\ \A g : OpenIn(tree, c, g) => OpenIn(later, d, g)
            <4> HIDE DEF span
            <4> QED BY <1>1, <3>1, <3>7, SpanNumbered
        <3>9. OpenIn(later, d, f)
            BY <1>9, <3>1, <3>3, <3>6, <3>8 DEF Adds, OpenIn
        <3> QED BY <1>7, <3>1, <3>8, <3>9
    <2> QED BY <2>1, <2>2
<1> HIDE DEF f, span
<1>12. Sound(later, w)
    <2>1. ASSUME NEW i \in DOMAIN w.stack
          PROVE  OpenIn(later, w.collector, w.stack[i]) /\ w.stack[i].label.task = w.task
        <3>1. CASE i = Len(v.stack) + 1
            BY <1>3, <1>5, <1>6, <1>9, <1>11, <3>1
        <3>2. CASE i # Len(v.stack) + 1
            <4>1. i \in DOMAIN v.stack /\ w.stack[i] = v.stack[i]
                BY <1>4, <1>5, <3>2
            <4> QED BY <1>3, <1>5, <1>11, <4>1 DEF Sound
        <3> QED BY <3>1, <3>2
    <2>2. \A i \in DOMAIN w.outer :
             OpenIn(later, w.collector, w.outer[i]) /\ w.outer[i].label.task # w.task
        BY <1>3, <1>5, <1>11 DEF Sound
    <2> QED BY <1>3, <1>5, <1>10, <1>11, <2>1, <2>2 DEF Sound
<1>13. LeadsOn(tree, v, later, w)
    BY <1>3, <1>5, <1>11, <1>12 DEF LeadsOn
<1>14. Entered(tree, v, later, w, n, kind)
    <2>1. IF n = 0
          THEN later = tree /\ w.collector.dropped > 0
          ELSE /\ v.collector.next <= v.collector.limit
               /\ w.collector.dropped = v.collector.dropped /\ n = v.collector.next
               /\ Adds(tree, later, n, [parent |-> EffectiveParent(n, Top(v)), status |-> "open",
                                        label |-> Label(kind, v.task)])
        BY <1>3, <1>11 DEF span
    <2> QED BY <1>4, <1>6, <1>9, <1>13, <2>1 DEF Entered
<1> QED BY <1>3, <1>14

\* The spans above depth are left, with this status.
Inner(q, depth) == {q[i].number : i \in (depth + 1)..Len(q)} \ {0}
Left(tree, v, later, w, depth, status) ==
    /\ LeadsOn(tree, v, later, w) /\ Closes(tree, later, Inner(v.stack, depth), status)
    /\ w.collector.dropped = v.collector.dropped
    /\ Len(w.stack) = depth /\ \A i \in 1..depth : w.stack[i] = v.stack[i]

LEMMA OrderlyLeft ==
    ASSUME NEW q, NEW r, NEW p, DOMAIN r \subseteq DOMAIN q, \A i \in DOMAIN r : r[i] = q[i],
           Ascends(q), Within(q, p)
    PROVE  Ascends(r) /\ Within(r, p)
BY DEF Ascends, Within

LEMMA LeaveTree ==
    ASSUME CallsAssumption, NEW tree, NEW v, Sound(tree, v), v.stack # <<>>,
           NEW status \in SpanStatuses, NEW note \in Codes
    PROVE  \E later :
              /\ Left(tree, v, later, LeaveNoted(v, status, note), Len(v.stack) - 1, status)
              /\ v.stack[Len(v.stack)].number # 0 =>
                    later[v.stack[Len(v.stack)].number].label.note = note
<1> DEFINE c == v.collector
           f == v.stack[Len(v.stack)]
           label == [f.label EXCEPT !.note = note]
           d == Finished(c, f.number, f.parent, status, label)
<1>1. ViewOK(v) /\ TreeOf(tree, c) /\ CollectorOK(c) /\ v.stack \in Seq(Frames(c))
    BY DEF Sound, ViewOK
<1>2. /\ Len(v.stack) \in Nat \ {0} /\ DOMAIN v.stack = 1..Len(v.stack)
      /\ Len(v.stack) \in DOMAIN v.stack
    BY <1>1, LenProperties, EmptySeq
<1>3. PICK w : w = LeaveNoted(v, status, note) /\ w.collector = d
    <2> DEFINE rest == Front(v.stack)
    <2>1. LeaveNoted(v, status, note) = [v EXCEPT !.collector = d, !.stack = rest]
        BY DEF LeaveNoted, Last
    <2> HIDE DEF d, rest
    <2> QED BY <1>1, <2>1, ChangedView DEF ViewOK
<1>4. /\ Follows(v, w) /\ w.collector.next = c.next /\ Len(w.stack) = Len(v.stack) - 1
      /\ \A i \in 1..(Len(v.stack) - 1) : w.stack[i] = v.stack[i]
    <2>1. /\ Follows(v, LeaveNoted(v, status, note))
          /\ LeaveNoted(v, status, note).collector.next = v.collector.next
          /\ Len(LeaveNoted(v, status, note).stack) = Len(v.stack) - 1
          /\ \A i \in 1..(Len(v.stack) - 1) :
                LeaveNoted(v, status, note).stack[i] = v.stack[i]
        <3> HIDE DEF c, d, f, label
        <3> QED BY <1>1, LeaveIs
    <2> QED BY <1>3, <2>1
<1>5. /\ ViewOK(w) /\ w.task = v.task /\ w.outer = v.outer /\ w.collector.limit = c.limit
      /\ DOMAIN w.stack = 1..(Len(v.stack) - 1)
    BY <1>4, LenProperties DEF Follows, ViewOK
<1>6. /\ f \in Frames(c) /\ f.label \in Labels /\ f.number \in 0..(c.next - 1)
      /\ OpenIn(tree, c, f) /\ f.label.task = v.task
    BY <1>1, <1>2, FramesOf DEF Sound
<1>7. label \in Labels /\ label.kind = f.label.kind /\ label.task = f.label.task /\ label.note = note
    BY <1>6 DEF Labels
<1>8. Inner(v.stack, Len(v.stack) - 1) = {f.number} \ {0}
    <2>1. ((Len(v.stack) - 1) + 1)..Len(v.stack) = {Len(v.stack)}
        BY <1>2
    <2> QED BY <2>1 DEF Inner
<1>9. Ascends(w.stack) /\ Within(w.stack, w.outer) /\ Ascends(w.outer)
    <2>1. DOMAIN w.stack \subseteq DOMAIN v.stack /\ \A i \in DOMAIN w.stack : w.stack[i] = v.stack[i]
        BY <1>2, <1>4, <1>5
    <2> QED BY <1>5, <2>1, OrderlyLeft DEF Sound
<1> HIDE DEF label
<1>10. PICK later : /\ TreeOf(later, d) /\ Closes(tree, later, {f.number} \ {0}, status)
                    /\ d.dropped = c.dropped
                    /\ \A g : OpenIn(tree, c, g) /\ (g.number # f.number \/ g.number = 0)
                                 => OpenIn(later, d, g)
                    /\ f.number # 0 => later[f.number].label.note = note
    <2>1. CASE f.number = 0
        <3>1. d = c
            BY <2>1 DEF Finished, Inert
        <3>2. Closes(tree, tree, {f.number} \ {0}, status)
            BY <2>1 DEF Closes
        <3> QED BY <1>1, <2>1, <3>1, <3>2
    <2>2. CASE f.number # 0
        <3>1. PICK n, span : n = f.number /\ span = [parent |-> EffectiveParent(n, f.parent),
                                                     status |-> status, label |-> label]
            OBVIOUS
        <3>2. /\ DOMAIN d.completed = DOMAIN c.completed \cup {n}
              /\ d.completed[n] = span
              /\ \A m \in DOMAIN c.completed \ {n} : d.completed[m] = c.completed[m]
              /\ d.next = c.next /\ d.dropped = c.dropped /\ d.limit = c.limit
            BY <1>1, <2>2, <3>1, FinishedSpan DEF CollectorOK
        <3>3. /\ n \in DOMAIN tree /\ n \notin DOMAIN c.completed
              /\ tree[n].parent = EffectiveParent(n, f.parent) /\ tree[n].label = f.label
              /\ tree[n].status = "open"
            BY <1>6, <2>2, <3>1 DEF OpenIn, Opening
        <3>4. span.parent = tree[n].parent /\ span.label = label /\ span.status = status
            BY <3>1, <3>3
        <3>5. PICK later : later = [tree EXCEPT ![n] = span]
            OBVIOUS
        <3>6. /\ DOMAIN later = DOMAIN tree
              /\ \A m \in DOMAIN tree : later[m] = IF m = n THEN span ELSE tree[m]
            BY <3>5
        <3>7. TreeOf(later, d)
            <4>1. ASSUME NEW m \in DOMAIN later
                  PROVE  /\ later[m].parent \in 0..(m - 1) /\ later[m].label \in Labels
                         /\ IF m \in DOMAIN d.completed
                            THEN later[m] = d.completed[m] /\ later[m].status \in SpanStatuses
                            ELSE later[m].status = "open" /\ later[m].label.note = "none"
                <5>1. CASE m = n
                    BY <1>1, <1>7, <3>2, <3>3, <3>4, <3>6, <5>1 DEF TreeOf
                <5>2. CASE m # n
                    BY <1>1, <3>2, <3>6, <5>2 DEF TreeOf
                <5> QED BY <5>1, <5>2
            <4> QED BY <1>1, <3>2, <3>6, <4>1 DEF TreeOf
        <3>8. Closes(tree, later, {f.number} \ {0}, status)
            <4>1. /\ tree[n].label.note = "none" /\ later[n].status = status
                  /\ later[n].label.note \in Codes /\ SameSpan(later[n], tree[n])
                BY <1>1, <1>7, <3>3, <3>4, <3>6 DEF TreeOf, SameSpan
            <4> QED BY <2>2, <3>1, <3>3, <3>6, <4>1 DEF Closes
        <3>9. ASSUME NEW g, OpenIn(tree, c, g), g.number # f.number \/ g.number = 0
              PROVE  OpenIn(later, d, g)
            BY <2>2, <3>1, <3>2, <3>6, <3>9 DEF OpenIn
        <3>10. later[n].label.note = note
            BY <1>7, <3>3, <3>4, <3>6
        <3> QED BY <2>2, <3>1, <3>2, <3>7, <3>8, <3>9, <3>10
    <2> QED BY <2>1, <2>2
<1> HIDE DEF d
<1>11. Sound(later, w)
    <2>1. ASSUME NEW i \in DOMAIN w.stack
          PROVE  OpenIn(later, w.collector, w.stack[i]) /\ w.stack[i].label.task = w.task
        <3>1. i \in DOMAIN v.stack /\ i < Len(v.stack) /\ w.stack[i] = v.stack[i]
            BY <1>2, <1>4, <1>5
        <3>2. OpenIn(tree, c, v.stack[i]) /\ v.stack[i].label.task = v.task
            BY <3>1 DEF Sound
        <3>3. v.stack[i].number # f.number \/ v.stack[i].number = 0
            <4>1. f.number # 0 => v.stack[i].number < f.number
                BY <1>2, <3>1 DEF Sound, Ascends
            <4>2. v.stack[i].number \in Int /\ f.number \in Int
                BY <1>1, <1>2, <1>6, <3>1, FramesOf
            <4> HIDE DEF f
            <4> QED BY <4>1, <4>2
        <3> QED BY <1>3, <1>5, <1>10, <3>1, <3>2, <3>3
    <2>2. ASSUME NEW i \in DOMAIN w.outer
          PROVE  OpenIn(later, w.collector, w.outer[i]) /\ w.outer[i].label.task # w.task
        <3>1. OpenIn(tree, c, v.outer[i]) /\ v.outer[i].label.task # v.task
            BY <1>5 DEF Sound
        <3>2. v.outer[i].number # f.number \/ v.outer[i].number = 0
            BY <1>6, <3>1 DEF OpenIn, Opening
        <3> QED BY <1>3, <1>5, <1>10, <3>1, <3>2
    <2> QED BY <1>3, <1>5, <1>9, <1>10, <2>1, <2>2 DEF Sound
<1>12. LeadsOn(tree, v, later, w)
    <2>1. ASSUME NEW g, g.label.task # v.task, OpenIn(tree, c, g)
          PROVE  OpenIn(later, w.collector, g)
        <3>1. g.number # f.number \/ g.number = 0
            BY <1>6, <2>1 DEF OpenIn, Opening
        <3> QED BY <1>3, <1>10, <2>1, <3>1
    <2> QED BY <1>5, <1>11, <2>1 DEF LeadsOn
<1>13. Left(tree, v, later, w, Len(v.stack) - 1, status)
    <2> HIDE DEF f
    <2>1. w.collector.dropped = v.collector.dropped
        BY <1>3, <1>10
    <2> QED BY <1>4, <1>8, <1>10, <1>12, <2>1 DEF Left
<1> QED BY <1>3, <1>10, <1>13

\* The measurement of a request, with the number n or none.
Records(tree, v, later, w, n, status) ==
    /\ LeadsOn(tree, v, later, w) /\ w.stack = v.stack
    /\ IF n = 0
       THEN later = tree /\ w.collector.dropped > 0
       ELSE /\ v.collector.next <= v.collector.limit /\ w.collector.dropped = v.collector.dropped
            /\ n = v.collector.next
            /\ Adds(tree, later, n, [parent |-> EffectiveParent(n, Top(v)),
                                     status |-> IF status = "succeeded" THEN "ok" ELSE "error",
                                     label |-> [Label("model", Main) EXCEPT !.note = status]])

LEMMA MeasureTree ==
    ASSUME CallsAssumption, NEW tree, NEW v, Sound(tree, v), NEW status \in CallStatuses
    PROVE  \E later, n : Records(tree, v, later, Measured(v, status), n, status)
<1> DEFINE c == v.collector
           r == Reserved(c)
           n == Number(c)
           ended == IF status = "succeeded" THEN "ok" ELSE "error"
           label == [Label("model", Main) EXCEPT !.note = status]
           d == Finished(r, n, Parent(v), ended, label)
           span == [parent |-> EffectiveParent(n, Top(v)), status |-> ended, label |-> label]
<1>1. ViewOK(v) /\ TreeOf(tree, c) /\ CollectorOK(c)
    BY DEF Sound, ViewOK
<1>2. c.limit \in Nat \ {0} /\ c.next \in Nat \ {0}
    BY <1>1, LimitTyped
<1>3. PICK w : w = Measured(v, status) /\ w.collector = d
    <2>1. Measured(v, status) = [v EXCEPT !.collector = d]
        BY DEF Measured, SpanRecorded
    <2>2. v = [collector |-> c, stack |-> v.stack, task |-> v.task, outer |-> v.outer]
        BY <1>1 DEF ViewOK
    <2> HIDE DEF d, c
    <2> QED BY <2>1, <2>2
<1>4. Follows(v, w) /\ w.stack = v.stack
    BY <1>1, <1>3, MeasuredIs
<1>5. ViewOK(w) /\ w.task = v.task /\ w.outer = v.outer
    BY <1>4 DEF Follows
<1>6. IF c.next > c.limit THEN r.next = c.next /\ r.dropped > 0 /\ n = 0
                          ELSE r.next = c.next + 1 /\ r.dropped = c.dropped /\ n = c.next
    BY <1>1, ReservedDrops
<1>7. r.completed = c.completed /\ r.limit = c.limit /\ CollectorOK(r)
    BY <1>1, ReservedIs
<1>8. ended \in SpanStatuses /\ label \in Labels
    BY DEF SpanStatuses, Label, Labels, Kinds, Tasks
<1> HIDE DEF r, n, label, ended
<1>9. PICK later : /\ TreeOf(later, d)
                   /\ \A g : OpenIn(tree, c, g) => OpenIn(later, d, g)
                   /\ IF n = 0 THEN later = tree /\ d.dropped > 0
                      ELSE /\ c.next <= c.limit /\ d.dropped = c.dropped /\ n = c.next
                           /\ Adds(tree, later, n, span)
    <2>1. CASE c.next > c.limit
        <3>1. d = r
            BY <1>6, <2>1 DEF Finished, Inert
        <3>2. TreeOf(tree, d)
            BY <1>1, <1>6, <1>7, <2>1, <3>1 DEF TreeOf
        <3>3. \A g : OpenIn(tree, c, g) => OpenIn(tree, d, g)
            BY <1>6, <1>7, <2>1, <3>1 DEF OpenIn
        <3> QED BY <1>6, <2>1, <3>1, <3>2, <3>3
    <2>2. CASE ~(c.next > c.limit)
        <3>1. c.next <= c.limit /\ n = c.next /\ n # 0
            BY <1>2, <1>6, <2>2
        <3>2. Parent(v) = Top(v) /\ Parent(v) \in 0..(c.next - 1)
            BY <1>1, <3>1, ParentIsInmost, ParentIsEarlier
        <3>3. /\ DOMAIN d.completed = DOMAIN r.completed \cup {n}
              /\ d.completed[n] = span
              /\ \A m \in DOMAIN r.completed \ {n} : d.completed[m] = r.completed[m]
              /\ d.next = r.next /\ d.dropped = r.dropped /\ d.limit = r.limit
            BY <1>7, <3>1, <3>2, FinishedSpan DEF CollectorOK
        <3>4. span.parent \in 0..(c.next - 1) /\ span.label \in Labels /\ span.status \in SpanStatuses
            BY <1>2, <1>8, <3>1, <3>2 DEF EffectiveParent
        <3> HIDE DEF span, d
        <3>5. c.next \notin DOMAIN c.completed
            BY <1>1, <1>2 DEF CollectorOK
        <3>6. Gives(c, d, span)
            BY <1>6, <1>7, <2>2, <3>1, <3>3, <3>4, <3>5 DEF Gives
        <3>7. PICK later : /\ Adds(tree, later, c.next, span) /\ TreeOf(later, d)
                           /\ \A g : OpenIn(tree, c, g) => OpenIn(later, d, g)
            BY <1>1, <3>1, <3>6, SpanNumbered
        <3> QED BY <1>6, <2>2, <3>1, <3>3, <3>7
    <2> QED BY <2>1, <2>2
<1> HIDE DEF span, d
<1>10. Sound(later, w)
    BY <1>3, <1>4, <1>5, <1>9 DEF Sound
<1>11. LeadsOn(tree, v, later, w)
    BY <1>3, <1>5, <1>9, <1>10 DEF LeadsOn
<1>12. Records(tree, v, later, w, n, status)
    <2>1. IF n = 0
          THEN later = tree /\ w.collector.dropped > 0
          ELSE /\ v.collector.next <= v.collector.limit
               /\ w.collector.dropped = v.collector.dropped /\ n = v.collector.next
               /\ Adds(tree, later, n, [parent |-> EffectiveParent(n, Top(v)),
                                        status |-> IF status = "succeeded" THEN "ok" ELSE "error",
                                        label |-> [Label("model", Main) EXCEPT !.note = status]])
        BY <1>3, <1>9 DEF span, ended, label
    <2> QED BY <1>4, <1>11, <2>1 DEF Records
<1> QED BY <1>3, <1>12

LEMMA LeadsOnTwice ==
    ASSUME NEW t0, NEW u, NEW t1, NEW v, NEW t2, NEW w,
           LeadsOn(t0, u, t1, v), LeadsOn(t1, v, t2, w)
    PROVE  LeadsOn(t0, u, t2, w)
BY DEF LeadsOn

LEMMA ClosesTwice ==
    ASSUME NEW t0, NEW t1, NEW t2, NEW M, NEW N, NEW status \in SpanStatuses,
           Closes(t0, t1, M, status), Closes(t1, t2, N, status)
    PROVE  Closes(t0, t2, M \cup N, status)
<1>1. "open" \notin SpanStatuses
    BY DEF SpanStatuses
<1>2. DOMAIN t2 = DOMAIN t0 /\ M \cup N \subseteq DOMAIN t0
    BY DEF Closes
<1>3. \A n \in DOMAIN t0 \ (M \cup N) : t2[n] = t0[n]
    BY DEF Closes
<1>4. ASSUME NEW n \in M \cup N
      PROVE  /\ t0[n].status = "open" /\ t0[n].label.note = "none"
             /\ t2[n].status = status /\ t2[n].label.note \in Codes
             /\ SameSpan(t2[n], t0[n])
    <2>1. CASE n \in N
        <3>1. t1[n].status = "open"
            BY <2>1 DEF Closes
        <3>2. n \notin M
            BY <1>1, <3>1 DEF Closes
        <3>3. t1[n] = t0[n]
            BY <1>2, <2>1, <3>2 DEF Closes
        <3> QED BY <2>1, <3>3 DEF Closes
    <2>2. CASE n \notin N
        <3>1. t2[n] = t1[n] /\ n \in M
            BY <1>2, <1>4, <2>2 DEF Closes
        <3> QED BY <3>1 DEF Closes
    <2> QED BY <2>1, <2>2
<1> QED BY <1>2, <1>3, <1>4 DEF Closes

LEMMA LeftTwice ==
    ASSUME NEW t0, NEW u, NEW t1, NEW v, NEW t2, NEW w, NEW d1, NEW d2,
           Len(u.stack) \in Nat, d1 \in 0..Len(u.stack), d2 \in 0..d1, NEW status \in SpanStatuses,
           Left(t0, u, t1, v, d1, status), Left(t1, v, t2, w, d2, status)
    PROVE  Left(t0, u, t2, w, d2, status)
<1>1. LeadsOn(t0, u, t2, w)
    BY LeadsOnTwice DEF Left
<1>2. Inner(u.stack, d2) = Inner(u.stack, d1) \cup Inner(v.stack, d2)
    <2>1. Len(v.stack) = d1 /\ \A i \in 1..d1 : v.stack[i] = u.stack[i]
        BY DEF Left
    <2>2. \A i \in (d2 + 1)..d1 : v.stack[i] = u.stack[i]
        BY <2>1
    <2>3. (d2 + 1)..Len(u.stack) = ((d1 + 1)..Len(u.stack)) \cup ((d2 + 1)..d1)
        OBVIOUS
    <2> QED BY <2>1, <2>2, <2>3 DEF Inner
<1>3. Closes(t0, t2, Inner(u.stack, d2), status)
    BY <1>2, ClosesTwice DEF Left
<1>4. Len(w.stack) = d2 /\ \A i \in 1..d2 : w.stack[i] = u.stack[i]
    <2>1. \A i \in 1..d2 : i \in 1..d1
        OBVIOUS
    <2> QED BY <2>1 DEF Left
<1>5. w.collector.dropped = u.collector.dropped
    BY DEF Left
<1> QED BY <1>1, <1>3, <1>4, <1>5 DEF Left

LEMMA LeftNothing ==
    ASSUME NEW tree, NEW v, Sound(tree, v), NEW status
    PROVE  Left(tree, v, tree, v, Len(v.stack), status)
<1>1. Len(v.stack) \in Nat
    BY LenProperties DEF Sound, ViewOK
<1>2. Inner(v.stack, Len(v.stack)) = {}
    <2>1. (Len(v.stack) + 1)..Len(v.stack) = {}
        BY <1>1
    <2> QED BY <2>1 DEF Inner
<1>3. Closes(tree, tree, Inner(v.stack, Len(v.stack)), status)
    BY <1>2 DEF Closes
<1>4. LeadsOn(tree, v, tree, v)
    BY DEF LeadsOn
<1> QED BY <1>3, <1>4 DEF Left

LEMMA UnwoundTree ==
    ASSUME CallsAssumption, NEW tree, NEW v, Sound(tree, v), NEW depth \in 0..Len(v.stack),
           NEW status \in SpanStatuses
    PROVE  \E later : Left(tree, v, later, Unwound(v, depth, status), depth, status)
<1>0. ViewOK(v) /\ "none" \in Codes
    BY DEF Sound, Codes
<1>1. PICK k \in Nat, m \in Nat : m = Len(v.stack) /\ k = m - depth /\ k <= m
    <2>1. Len(v.stack) \in Nat
        BY <1>0, LenProperties DEF ViewOK
    <2>2. Len(v.stack) - depth \in Nat /\ Len(v.stack) - depth <= Len(v.stack)
        BY <2>1
    <2> QED BY <2>1, <2>2
<1>2. PICK left : Unwinds(left, v, status, k) /\ Unwound(v, depth, status) = left[k]
    <2> DEFINE left == CHOOSE left : Unwinds(left, v, status, k)
    <2>1. Unwinds(left, v, status, k)
        BY UnwindingExists
    <2>2. Unwound(v, depth, status) = left[k]
        BY <1>1 DEF Unwound, Unwinds
    <2> QED BY <2>1, <2>2
<1>3. /\ left[0] = v
      /\ \A n \in 0..(k - 1) : left[n + 1] = LeaveNoted(left[n], status, "none")
    BY <1>2 DEF Unwinds, Leave
<1> DEFINE S == {n \in 0..k : \E later : Left(tree, v, later, left[n], m - n, status)}
<1>4. 0 \in S
    <2>1. Left(tree, v, tree, v, m, status)
        BY <1>1, LeftNothing
    <2>2. m - 0 = m
        BY <1>1
    <2> QED BY <1>1, <1>3, <2>1, <2>2
<1>5. ASSUME NEW n \in 0..(k - 1), n \in S
      PROVE  n + 1 \in S
    <2>1. PICK u, was : u = left[n] /\ Left(tree, v, was, u, m - n, status)
        BY <1>5
    <2>2. Sound(was, u) /\ Len(u.stack) = m - n
        BY <2>1 DEF Left, LeadsOn
    <2>3. u.stack # <<>>
        BY <1>1, <2>2
    <2>4. PICK w : w = LeaveNoted(u, status, "none") /\ w = left[n + 1]
        BY <1>3, <2>1
    <2>5. PICK later : Left(was, u, later, w, (m - n) - 1, status)
        <3> HIDE DEF S
        <3> QED BY <1>0, <2>2, <2>3, <2>4, LeaveTree
    <2>6. Left(tree, v, later, w, (m - n) - 1, status)
        <3>1. (m - n) \in 0..Len(v.stack) /\ (m - n) - 1 \in 0..(m - n) /\ Len(v.stack) \in Nat
            BY <1>1
        <3> HIDE DEF S
        <3> QED BY <2>1, <2>5, <3>1, LeftTwice
    <2>7. (m - n) - 1 = m - (n + 1) /\ n + 1 \in 0..k
        BY <1>1
    <2> QED BY <2>4, <2>6, <2>7
<1> HIDE DEF S
<1>6. k \in S
    <2>1. \A n \in 0..(k - 1) : n \in S => n + 1 \in S
        BY <1>5
    <2>2. \A n \in 0..k : n \in S
        BY <1>1, <1>4, <2>1, InductionUpTo
    <2> QED BY <1>1, <2>2
<1>7. PICK later : Left(tree, v, later, left[k], m - k, status)
    BY <1>6 DEF S
<1>8. m - k = depth
    BY <1>1
<1> QED BY <1>2, <1>7, <1>8

-----------------------------------------------------------------------------
(* What belongs together stays together.                                   *)

\* Closing spans moves none and changes no note of a span that was over.
LEMMA ClosesKeeps ==
    ASSUME NEW tree, NEW later, NEW N, NEW status, Closes(tree, later, N, status)
    PROVE  /\ DOMAIN later = DOMAIN tree
           /\ \A n \in DOMAIN tree : SameSpan(later[n], tree[n])
           /\ \A kind : Of(later, kind) = Of(tree, kind)
           /\ \A p, kind : Below(later, p, kind) = Below(tree, p, kind)
           /\ \A n, kind : Is(later, n, kind) <=> Is(tree, n, kind)
           /\ \A n \in DOMAIN tree :
                 tree[n].label.note # "none" => later[n] = tree[n]
           /\ \A n \in DOMAIN tree :
                 later[n].label.note \notin Codes => later[n] = tree[n]
<1>1. DOMAIN later = DOMAIN tree /\ \A n \in DOMAIN tree : SameSpan(later[n], tree[n])
    BY DEF Closes, SameSpan
<1>2. \A n \in DOMAIN tree : tree[n].label.note # "none" => later[n] = tree[n]
    BY DEF Closes
<1>3. \A n \in DOMAIN tree : later[n].label.note \notin Codes => later[n] = tree[n]
    BY DEF Closes
<1> QED BY <1>1, <1>2, <1>3 DEF SameSpan, Of, Below, Is

LEMMA NotesApart ==
    /\ "none" \notin Retryable /\ "none" \notin AsksAgain
    /\ "output_invalid" \notin Codes /\ AsksAgain \cap Codes = {}
BY DEF Retryable, AsksAgain, Transient, Codes

LEMMA LastingClosed ==
    ASSUME NEW tree, NEW later, NEW N, NEW status, Closes(tree, later, N, status), Lasting(tree)
    PROVE  Lasting(later)
<1> USE ClosesKeeps
<1>1. Nested(later)
    BY DEF Lasting, Nested, SameSpan, Of, Is
<1>2. OneCallEach(later)
    BY DEF Lasting, OneCallEach, SameSpan, Of
<1>3. Caused(later)
    <2>1. ASSUME NEW m \in Of(later, "attempt"), NEW n \in Of(later, "attempt"),
                 later[m].parent = later[n].parent, m < n
          PROVE  later[m].label.note \in Retryable
        <3>1. tree[m].label.note \in Retryable
            BY <2>1 DEF Lasting, Caused, SameSpan, Of
        <3> QED BY <3>1, <2>1, NotesApart DEF Of
    <2>2. ASSUME NEW m \in Of(later, "model"), NEW n \in Of(later, "model"),
                 later[m].parent = later[n].parent, m < n
          PROVE  later[m].label.note \in AsksAgain
        <3>1. tree[m].label.note \in AsksAgain
            BY <2>2 DEF Lasting, Caused, SameSpan, Of
        <3> QED BY <3>1, <2>2, NotesApart DEF Of
    <2> QED BY <2>1, <2>2 DEF Caused
<1>4. Bounded(later)
    <2>1. \A p : Invalid(later, p) = Invalid(tree, p)
        BY NotesApart DEF Invalid, Below
    <2> QED BY <2>1 DEF Lasting, Bounded
<1> QED BY <1>1, <1>2, <1>3, <1>4 DEF Lasting

\* An attempt and its call are left together, and end alike.
LEMMA CallsEndClosed ==
    ASSUME NEW tree, NEW later, NEW N, NEW status \in SpanStatuses,
           Closes(tree, later, N, status), NEW dropped, CallsEndWithLast(tree, dropped),
           dropped = 0 => \A a \in Of(tree, "attempt") :
                             tree[a].status = "open" => (a \in N <=> tree[a].parent \in N)
    PROVE  CallsEndWithLast(later, dropped)
<1> USE ClosesKeeps
<1> SUFFICES ASSUME dropped = 0, NEW n \in Of(later, "call") PROVE EndsWithLast(later, n)
    BY DEF CallsEndWithLast
<1>1. n \in Of(tree, "call") /\ n \in DOMAIN tree
    BY DEF Of
<1>2. PICK last \in Below(tree, n, "attempt") :
         /\ tree[last].status = tree[n].status
         /\ \A m \in Below(tree, n, "attempt") : m <= last
    BY <1>1 DEF CallsEndWithLast, EndsWithLast
<1>3. last \in Of(tree, "attempt") /\ last \in DOMAIN tree /\ tree[last].parent = n
    BY <1>2 DEF Below, Of
<1>4. later[last].status = later[n].status
    <2>1. CASE tree[n].status = "open"
        <3>1. last \in N <=> n \in N
            BY <1>2, <1>3, <2>1
        <3> QED BY <1>1, <1>2, <1>3, <3>1 DEF Closes
    <2>2. CASE tree[n].status # "open"
        <3>1. last \notin N /\ n \notin N
            BY <1>2, <2>2 DEF Closes
        <3> QED BY <1>1, <1>2, <1>3, <3>1 DEF Closes
    <2> QED BY <2>1, <2>2
<1> QED BY <1>2, <1>4 DEF EndsWithLast

LEMMA BatchesClosed ==
    ASSUME NEW tree, NEW later, NEW N, NEW status, Closes(tree, later, N, status),
           BatchesGoWell(tree),
           status = "ok" => \A n \in N : tree[n].label.kind = "batch" =>
                               \A m \in Below(tree, n, "call") : tree[m].status = "ok"
    PROVE  BatchesGoWell(later)
<1> USE ClosesKeeps
<1> SUFFICES ASSUME NEW n \in Of(later, "batch"), later[n].status = "ok",
                    NEW m \in Below(later, n, "call")
             PROVE  later[m].status = "ok"
    BY DEF BatchesGoWell
<1>1. n \in Of(tree, "batch") /\ m \in Below(tree, n, "call")
    OBVIOUS
<1>0. n \in DOMAIN tree /\ m \in DOMAIN tree
    BY <1>1 DEF Of, Below
<1>2. tree[m].status = "ok"
    <2>1. CASE n \in N
        BY <1>0, <1>1, <2>1 DEF Closes, Of
    <2>2. CASE n \notin N
        BY <1>0, <1>1, <2>2 DEF Closes, BatchesGoWell
    <2> QED BY <2>1, <2>2
<1>3. m \notin N
    BY <1>2 DEF Closes
<1> QED BY <1>0, <1>2, <1>3 DEF Closes

-----------------------------------------------------------------------------
\* A span that starts is the last of its kind under its parent, and has none under it.
LEMMA AddedBelow ==
    ASSUME CallsAssumption, NEW tree, NEW c, CollectorOK(c), TreeOf(tree, c),
           NEW later, NEW n, NEW span, Adds(tree, later, n, span)
    PROVE  /\ \A p, kind : Below(later, p, kind) =
                 Below(tree, p, kind) \cup (IF span.parent = p /\ span.label.kind = kind THEN {n} ELSE {})
           /\ \A kind : Below(tree, n, kind) = {}
           /\ \A p, kind : /\ n \notin Below(tree, p, kind) /\ IsFiniteSet(Below(tree, p, kind))
                           /\ Cardinality(Below(tree, p, kind)) \in Nat
           /\ \A kind : Of(later, kind) = Of(tree, kind) \cup (IF span.label.kind = kind THEN {n} ELSE {})
           /\ \A m, kind : Is(tree, m, kind) => Is(later, m, kind) /\ later[m] = tree[m]
           /\ \A m \in DOMAIN tree : later[m] = tree[m] /\ m < n /\ m # n /\ tree[m].parent # n
           /\ later[n] = span
<1>1. c.next \in Nat \ {0} /\ DOMAIN tree = 1..(c.next - 1)
    BY LimitTyped DEF TreeOf
<1>2. IsFiniteSet(DOMAIN tree)
    BY <1>1, FS_Interval
<1>3. \A p, kind : /\ IsFiniteSet(Below(tree, p, kind))
                   /\ Cardinality(Below(tree, p, kind)) \in Nat
    <2>1. ASSUME NEW p, NEW kind
          PROVE  IsFiniteSet(Below(tree, p, kind)) /\ Cardinality(Below(tree, p, kind)) \in Nat
        <3>1. Below(tree, p, kind) \in SUBSET (DOMAIN tree)
            BY DEF Below
        <3>2. IsFiniteSet(Below(tree, p, kind))
            BY <1>2, <3>1, FS_Subset
        <3> QED BY <3>2, FS_CardinalityType
    <2> QED BY <2>1
<1>4. \A m \in DOMAIN tree : later[m] = tree[m] /\ m < n /\ m # n
    BY DEF Adds
<1>5. \A m \in DOMAIN tree : tree[m].parent # n
    <2>1. ASSUME NEW m \in DOMAIN tree, tree[m].parent = n PROVE FALSE
        <3>1. m \in Nat /\ tree[m].parent \in 0..(m - 1)
            BY <1>1 DEF TreeOf
        <3>2. n \in Nat /\ n <= m - 1
            BY <2>1, <3>1
        <3> QED BY <1>4, <3>1, <3>2
    <2> QED BY <2>1
<1>6. DOMAIN later = DOMAIN tree \cup {n} /\ later[n] = span /\ n \notin DOMAIN tree
    BY DEF Adds
<1>7. \A p, kind : Below(later, p, kind) =
         Below(tree, p, kind) \cup (IF span.parent = p /\ span.label.kind = kind THEN {n} ELSE {})
    BY <1>4, <1>6 DEF Below
<1>8. \A kind : Of(later, kind) = Of(tree, kind) \cup (IF span.label.kind = kind THEN {n} ELSE {})
    BY <1>4, <1>6 DEF Of
<1>9. \A m, kind : Is(tree, m, kind) => Is(later, m, kind) /\ later[m] = tree[m]
    BY <1>4, <1>6 DEF Is
<1>10. \A p, kind : n \notin Below(tree, p, kind) /\ Below(tree, n, kind) = {}
    BY <1>5, <1>6 DEF Below
<1> QED BY <1>3, <1>4, <1>5, <1>6, <1>7, <1>8, <1>9, <1>10

\* Where a span may start: an attempt under its call, after failures known to pass; a
\* call under a batch without one of its slot; a request under its turn, after another
\* of the same exchange came to nothing.
Joins(tree, span) ==
    LET p == span.parent
    IN  /\ span.label.kind = "attempt" =>
              /\ Is(tree, p, "call") /\ tree[p].label.task = span.label.task
              /\ \A m \in Below(tree, p, "attempt") : tree[m].label.note \in Retryable
              /\ Cardinality(Below(tree, p, "attempt")) <= ToolRetries
        /\ span.label.kind = "call" =>
              /\ Is(tree, p, "batch") /\ span.label.task \in Slots
              /\ \A m \in Below(tree, p, "call") : tree[m].label.task # span.label.task
        /\ span.label.kind = "model" =>
              /\ Is(tree, p, "decision") \/ Is(tree, p, "review")
              /\ \A m \in Below(tree, p, "model") : tree[m].label.note \in AsksAgain
              /\ Cardinality(Below(tree, p, "model")) + 1 <= (Repairs + 1) * MaxAttempts
              /\ span.label.note = "output_invalid" => Cardinality(Invalid(tree, p)) <= Repairs

\* One more of a finite set of spans.
LEMMA OneMore ==
    ASSUME NEW S, IsFiniteSet(S), NEW n, n \notin S, NEW T, T = S \cup {n}
    PROVE  IsFiniteSet(T) /\ Cardinality(T) = Cardinality(S) + 1 /\ Cardinality(S) \in Nat
BY FS_AddElement, FS_CardinalityType

LEMMA LastingAdded ==
    ASSUME CallsAssumption, NEW tree, NEW c, CollectorOK(c), TreeOf(tree, c), Lasting(tree),
           NEW later, NEW n, NEW span, Adds(tree, later, n, span), Joins(tree, span)
    PROVE  Lasting(later)
<1>1. /\ \A p, kind : Below(later, p, kind) =
            Below(tree, p, kind) \cup (IF span.parent = p /\ span.label.kind = kind THEN {n} ELSE {})
      /\ \A kind : Below(tree, n, kind) = {}
      /\ \A p, kind : /\ n \notin Below(tree, p, kind) /\ IsFiniteSet(Below(tree, p, kind))
                      /\ Cardinality(Below(tree, p, kind)) \in Nat
      /\ \A kind : Of(later, kind) = Of(tree, kind) \cup (IF span.label.kind = kind THEN {n} ELSE {})
      /\ \A m, kind : Is(tree, m, kind) => Is(later, m, kind) /\ later[m] = tree[m]
      /\ \A m \in DOMAIN tree : later[m] = tree[m] /\ m < n /\ m # n /\ tree[m].parent # n
      /\ later[n] = span
    BY AddedBelow
<1>2. /\ \A m \in DOMAIN tree : m \in Int
      /\ DOMAIN later = DOMAIN tree \cup {n} /\ n \in Nat \ DOMAIN tree
    BY LimitTyped DEF TreeOf, Adds
<1>3. Nested(later)
    <2>1. ASSUME NEW m \in Of(later, "attempt")
          PROVE  /\ Is(later, later[m].parent, "call")
                 /\ later[later[m].parent].label.task = later[m].label.task
        <3>1. CASE m = n
            BY <1>1, <1>2, <2>1, <3>1 DEF Joins, Of
        <3>2. CASE m # n
            <4>1. m \in Of(tree, "attempt") /\ later[m] = tree[m]
                BY <1>1, <2>1, <3>2 DEF Of
            <4> QED BY <1>1, <4>1 DEF Lasting, Nested
        <3> QED BY <3>1, <3>2
    <2>2. ASSUME NEW m \in Of(later, "call")
          PROVE  Is(later, later[m].parent, "batch") /\ later[m].label.task \in Slots
        <3>1. CASE m = n
            BY <1>1, <1>2, <2>2, <3>1 DEF Joins, Of
        <3>2. CASE m # n
            <4>1. m \in Of(tree, "call") /\ later[m] = tree[m]
                BY <1>1, <2>2, <3>2 DEF Of
            <4> QED BY <1>1, <4>1 DEF Lasting, Nested
        <3> QED BY <3>1, <3>2
    <2>3. ASSUME NEW m \in Of(later, "model")
          PROVE  Is(later, later[m].parent, "decision") \/ Is(later, later[m].parent, "review")
        <3>1. CASE m = n
            BY <1>1, <1>2, <2>3, <3>1 DEF Joins, Of
        <3>2. CASE m # n
            <4>1. m \in Of(tree, "model") /\ later[m] = tree[m]
                BY <1>1, <2>3, <3>2 DEF Of
            <4> QED BY <1>1, <4>1 DEF Lasting, Nested
        <3> QED BY <3>1, <3>2
    <2> QED BY <2>1, <2>2, <2>3 DEF Nested
<1>4. OneCallEach(later)
    <2> SUFFICES ASSUME NEW l \in Of(later, "call"), NEW m \in Of(later, "call"),
                        later[l].parent = later[m].parent,
                        later[l].label.task = later[m].label.task, l # m
                 PROVE  FALSE
        BY DEF OneCallEach
    <2>1. ASSUME NEW k \in Of(tree, "call"), n \in Of(later, "call"),
                 tree[k].parent = span.parent, tree[k].label.task = span.label.task
          PROVE  FALSE
        <3>1. span.label.kind = "call" /\ k \in Below(tree, span.parent, "call")
            BY <1>1, <2>1 DEF Of, Below
        <3> QED BY <2>1, <3>1 DEF Joins
    <2>2. l \in Of(tree, "call") \/ l = n
        BY <1>1
    <2>3. m \in Of(tree, "call") \/ m = n
        BY <1>1
    <2>4. \A k \in Of(tree, "call") : later[k] = tree[k]
        BY <1>1 DEF Of
    <2>5. CASE l = n
        BY <1>1, <2>1, <2>3, <2>4, <2>5
    <2>6. CASE m = n
        BY <1>1, <2>1, <2>2, <2>4, <2>6
    <2>7. CASE l # n /\ m # n
        BY <2>2, <2>3, <2>4, <2>7 DEF Lasting, OneCallEach
    <2> QED BY <2>5, <2>6, <2>7
<1>5. Caused(later)
    <2>1. ASSUME NEW kind, NEW N, NEW l \in Of(later, kind), NEW m \in Of(later, kind),
                 later[l].parent = later[m].parent, l < m,
                 \A i, j \in Of(tree, kind) :
                    tree[i].parent = tree[j].parent /\ i < j => tree[i].label.note \in N,
                 span.label.kind = kind =>
                    \A i \in Below(tree, span.parent, kind) : tree[i].label.note \in N
          PROVE  later[l].label.note \in N
        <3>1. l \in DOMAIN tree /\ later[l] = tree[l] /\ l \in Of(tree, kind)
            <4>1. l # n
                <5>1. m = n \/ m \in DOMAIN tree
                    BY <1>2, <2>1 DEF Of
                <5> QED BY <1>1, <1>2, <2>1, <5>1
            <4> QED BY <1>1, <1>2, <2>1, <4>1 DEF Of
        <3>2. CASE m = n
            <4>1. l \in Below(tree, span.parent, kind) /\ span.label.kind = kind
                BY <1>1, <1>2, <2>1, <3>1, <3>2 DEF Below, Of
            <4> QED BY <2>1, <3>1, <4>1
        <3>3. CASE m # n
            BY <1>1, <1>2, <2>1, <3>1, <3>3 DEF Of
        <3> QED BY <3>2, <3>3
    <2>2. ASSUME NEW l \in Of(later, "attempt"), NEW m \in Of(later, "attempt"),
                 later[l].parent = later[m].parent, l < m
          PROVE  later[l].label.note \in Retryable
        <3>1. PICK N, kind : N = Retryable /\ kind = "attempt"
            OBVIOUS
        <3>2. \A i, j \in Of(tree, kind) :
                 tree[i].parent = tree[j].parent /\ i < j => tree[i].label.note \in N
            BY <3>1 DEF Lasting, Caused
        <3>3. span.label.kind = kind =>
                 \A i \in Below(tree, span.parent, kind) : tree[i].label.note \in N
            BY <3>1 DEF Joins
        <3> QED BY <2>1, <2>2, <3>1, <3>2, <3>3
    <2>3. ASSUME NEW l \in Of(later, "model"), NEW m \in Of(later, "model"),
                 later[l].parent = later[m].parent, l < m
          PROVE  later[l].label.note \in AsksAgain
        <3>1. PICK N, kind : N = AsksAgain /\ kind = "model"
            OBVIOUS
        <3>2. \A i, j \in Of(tree, kind) :
                 tree[i].parent = tree[j].parent /\ i < j => tree[i].label.note \in N
            BY <3>1 DEF Lasting, Caused
        <3>3. span.label.kind = kind =>
                 \A i \in Below(tree, span.parent, kind) : tree[i].label.note \in N
            BY <3>1 DEF Joins
        <3> QED BY <2>1, <2>3, <3>1, <3>2, <3>3
    <2> QED BY <2>2, <2>3 DEF Caused
<1>6. Bounded(later)
    <2> SUFFICES ASSUME NEW p \in DOMAIN later
                 PROVE  /\ Cardinality(Below(later, p, "attempt")) <= ToolRetries + 1
                        /\ Cardinality(Below(later, p, "model")) <= (Repairs + 1) * MaxAttempts
                        /\ Cardinality(Invalid(later, p)) <= Repairs + 1
        BY DEF Bounded
    <2>0. PICK K : K = (Repairs + 1) * MaxAttempts
        OBVIOUS
    <2>1. /\ Cardinality(Below(tree, p, "attempt")) <= ToolRetries + 1
          /\ Cardinality(Below(tree, p, "model")) <= K
          /\ Cardinality(Invalid(tree, p)) <= Repairs + 1
        <3>1. CASE p \in DOMAIN tree
            BY <2>0, <3>1 DEF Lasting, Bounded
        <3>2. CASE p = n
            <4>1. Below(tree, p, "attempt") = {} /\ Below(tree, p, "model") = {} /\ Invalid(tree, p) = {}
                BY <1>1, <3>2 DEF Invalid
            <4>2. 0 <= K
                <5>1. Repairs \in {0, 1} /\ MaxAttempts \in Nat
                    BY DEF CallsAssumption
                <5>2. CASE Repairs = 0
                    BY <2>0, <5>1, <5>2
                <5>3. CASE Repairs = 1
                    BY <2>0, <5>1, <5>3
                <5> QED BY <5>1, <5>2, <5>3
            <4>3. 0 <= ToolRetries + 1 /\ 0 <= Repairs + 1
                BY DEF CallsAssumption
            <4> QED BY <4>1, <4>2, <4>3, FS_EmptySet
        <3> QED BY <1>2, <3>1, <3>2
    <2>2. Cardinality(Below(later, p, "attempt")) <= ToolRetries + 1
        <3>1. CASE span.parent = p /\ span.label.kind = "attempt"
            <4>1. Cardinality(Below(later, p, "attempt")) = Cardinality(Below(tree, p, "attempt")) + 1
                BY <1>1, <3>1, OneMore
            <4>2. Cardinality(Below(tree, p, "attempt")) <= ToolRetries
                BY <3>1 DEF Joins
            <4>3. Cardinality(Below(tree, p, "attempt")) \in Nat /\ ToolRetries \in Nat
                BY <1>1 DEF CallsAssumption
            <4> QED BY <4>1, <4>2, <4>3
        <3>2. CASE ~(span.parent = p /\ span.label.kind = "attempt")
            <4>1. Below(later, p, "attempt") = Below(tree, p, "attempt")
                BY <1>1, <3>2
            <4> QED BY <2>1, <4>1
        <3> QED BY <3>1, <3>2
    <2>3. Cardinality(Below(later, p, "model")) <= K
        <3>1. CASE span.parent = p /\ span.label.kind = "model"
            <4>1. Cardinality(Below(later, p, "model")) = Cardinality(Below(tree, p, "model")) + 1
                BY <1>1, <3>1, OneMore
            <4>2. Cardinality(Below(tree, p, "model")) + 1 <= K
                BY <2>0, <3>1 DEF Joins
            <4> QED BY <4>1, <4>2
        <3>2. CASE ~(span.parent = p /\ span.label.kind = "model")
            <4>1. Below(later, p, "model") = Below(tree, p, "model")
                BY <1>1, <3>2
            <4> QED BY <2>1, <4>1
        <3> QED BY <3>1, <3>2
    <2>4. Cardinality(Invalid(later, p)) <= Repairs + 1
        <3>1. CASE span.parent = p /\ span.label.kind = "model" /\ span.label.note = "output_invalid"
            <4>1. Invalid(later, p) = Invalid(tree, p) \cup {n} /\ n \notin Invalid(tree, p)
                <5>1. \A m \in Below(tree, p, "model") : later[m] = tree[m]
                    BY <1>1 DEF Below
                <5> QED BY <1>1, <3>1, <5>1 DEF Invalid
            <4>2. IsFiniteSet(Invalid(tree, p))
                <5>1. Invalid(tree, p) \in SUBSET Below(tree, p, "model")
                    BY DEF Invalid
                <5> QED BY <1>1, <5>1, FS_Subset
            <4>3. Cardinality(Invalid(later, p)) = Cardinality(Invalid(tree, p)) + 1
                  /\ Cardinality(Invalid(tree, p)) \in Nat
                BY <4>1, <4>2, OneMore
            <4>4. Cardinality(Invalid(tree, p)) <= Repairs
                BY <3>1 DEF Joins
            <4> QED BY <4>3, <4>4 DEF CallsAssumption
        <3>2. CASE ~(span.parent = p /\ span.label.kind = "model" /\ span.label.note = "output_invalid")
            <4>1. Invalid(later, p) = Invalid(tree, p)
                <5>1. \A m \in Below(tree, p, "model") : later[m] = tree[m] /\ m # n
                    BY <1>1 DEF Below
                <5>2. \A m \in Below(later, p, "model") : m \in Below(tree, p, "model") \/ m = n
                    BY <1>1
                <5>3. n \notin Invalid(later, p)
                    BY <1>1, <3>2 DEF Invalid, Below
                <5>4. Below(tree, p, "model") \subseteq Below(later, p, "model")
                    BY <1>1
                <5> QED BY <5>1, <5>2, <5>3, <5>4 DEF Invalid
            <4> QED BY <2>1, <4>1
        <3> QED BY <3>1, <3>2
    <2> QED BY <2>0, <2>2, <2>3, <2>4
<1> QED BY <1>3, <1>4, <1>5, <1>6 DEF Lasting

LEMMA EndsAdded ==
    ASSUME CallsAssumption, NEW tree, NEW c, CollectorOK(c), TreeOf(tree, c),
           NEW later, NEW n, NEW span, Adds(tree, later, n, span), NEW m \in DOMAIN tree
    PROVE  /\ EndsWithLast(tree, m) /\ ~(span.label.kind = "attempt" /\ span.parent = m)
                 => EndsWithLast(later, m)
           /\ span.label.kind = "attempt" /\ span.parent = m /\ span.status = tree[m].status
                 => EndsWithLast(later, m)
<1>1. /\ Below(later, m, "attempt") = Below(tree, m, "attempt")
            \cup (IF span.parent = m /\ span.label.kind = "attempt" THEN {n} ELSE {})
      /\ \A k \in DOMAIN tree : later[k] = tree[k] /\ k < n
      /\ later[n] = span
    BY AddedBelow
<1>2. \A k \in DOMAIN tree : k \in Int
    BY LimitTyped DEF TreeOf
<1>3. ASSUME EndsWithLast(tree, m), ~(span.label.kind = "attempt" /\ span.parent = m)
      PROVE  EndsWithLast(later, m)
    <2>1. Below(later, m, "attempt") = Below(tree, m, "attempt")
        BY <1>1, <1>3
    <2>2. \A k \in Below(tree, m, "attempt") : later[k] = tree[k]
        BY <1>1 DEF Below
    <2> QED BY <1>1, <1>3, <2>1, <2>2 DEF EndsWithLast
<1>4. ASSUME span.label.kind = "attempt", span.parent = m, span.status = tree[m].status
      PROVE  EndsWithLast(later, m)
    <2>1. Below(later, m, "attempt") = Below(tree, m, "attempt") \cup {n}
        BY <1>1, <1>4
    <2>2. n \in Nat /\ n <= n
        BY DEF Adds
    <2>3. \A k \in Below(tree, m, "attempt") : k <= n
        BY <1>1, <1>2, <2>2 DEF Below
    <2>4. later[n].status = later[m].status
        BY <1>1, <1>4
    <2> QED BY <2>1, <2>2, <2>3, <2>4 DEF EndsWithLast
<1> QED BY <1>3, <1>4

LEMMA CallsEndAdded ==
    ASSUME CallsAssumption, NEW tree, NEW c, CollectorOK(c), TreeOf(tree, c),
           NEW later, NEW n, NEW span, Adds(tree, later, n, span),
           span.label.kind \notin {"call", "attempt"}, NEW dropped, CallsEndWithLast(tree, dropped)
    PROVE  CallsEndWithLast(later, dropped)
<1>0. \A kind : Of(later, kind) = Of(tree, kind) \cup (IF span.label.kind = kind THEN {n} ELSE {})
    BY AddedBelow
<1>1. Of(later, "call") = Of(tree, "call")
    BY <1>0
<1>2. \A m \in Of(tree, "call") : m \in DOMAIN tree
    BY DEF Of
<1>3. \A m \in DOMAIN tree : EndsWithLast(tree, m) => EndsWithLast(later, m)
    BY EndsAdded
<1> QED BY <1>1, <1>2, <1>3 DEF CallsEndWithLast

LEMMA BatchesAdded ==
    ASSUME CallsAssumption, NEW tree, NEW c, CollectorOK(c), TreeOf(tree, c),
           NEW later, NEW n, NEW span, Adds(tree, later, n, span), BatchesGoWell(tree),
           span.label.kind = "batch" => span.status # "ok",
           span.label.kind = "call" /\ span.parent \in DOMAIN tree => tree[span.parent].status # "ok"
    PROVE  BatchesGoWell(later)
<1> SUFFICES ASSUME NEW b \in Of(later, "batch"), later[b].status = "ok",
                    NEW m \in Below(later, b, "call")
             PROVE  later[m].status = "ok"
    BY DEF BatchesGoWell
<1>1. /\ \A p, kind : Below(later, p, kind) =
            Below(tree, p, kind) \cup (IF span.parent = p /\ span.label.kind = kind THEN {n} ELSE {})
      /\ \A kind : Of(later, kind) = Of(tree, kind) \cup (IF span.label.kind = kind THEN {n} ELSE {})
      /\ \A k \in DOMAIN tree : later[k] = tree[k]
      /\ later[n] = span
    BY AddedBelow
<1>2. b \in Of(tree, "batch") /\ b \in DOMAIN tree /\ later[b] = tree[b]
    <2>1. b # n
        BY <1>1 DEF Of
    <2> QED BY <1>1, <2>1 DEF Of
<1>3. m \in Below(tree, b, "call")
    BY <1>1, <1>2
<1>4. m \in DOMAIN tree
    BY <1>3 DEF Below
<1> QED BY <1>1, <1>2, <1>3, <1>4 DEF BatchesGoWell

-----------------------------------------------------------------------------
(* The task of the run: it enters and leaves spans that are no calls.      *)

LEMMA TreeTasks ==
    ASSUME NEW tree, Nested(tree)
    PROVE  /\ \A n \in Of(tree, "call") : tree[n].label.task \in Slots
           /\ \A n \in Of(tree, "attempt") :
                 /\ tree[n].label.task \in Slots /\ tree[n].parent \in Of(tree, "call")
                 /\ tree[tree[n].parent].label.task = tree[n].label.task
BY DEF Nested, Of, Is

LEMMA FamilyEntered ==
    ASSUME CallsAssumption, NEW tree, NEW v, Sound(tree, v), Family(tree, v.collector.dropped),
           NEW later, NEW w, NEW n, NEW kind, kind \notin {"call", "attempt", "model"},
           Entered(tree, v, later, w, n, kind)
    PROVE  Family(later, w.collector.dropped)
<1>1. CASE n = 0
    <2>1. later = tree /\ w.collector.dropped > 0
        BY <1>1 DEF Entered
    <2>2. w.collector.dropped # 0
        BY <2>1
    <2> QED BY <2>1, <2>2 DEF Family, CallsEndWithLast
<1>2. CASE n # 0
    <2>1. PICK span : /\ span.status = "open" /\ span.label.kind = kind
                      /\ Adds(tree, later, n, span) /\ w.collector.dropped = v.collector.dropped
        BY <1>2 DEF Entered, Label
    <2>2. CollectorOK(v.collector) /\ TreeOf(tree, v.collector)
        BY DEF Sound, ViewOK
    <2>3. Lasting(later)
        <3>1. Joins(tree, span)
            BY <2>1 DEF Joins
        <3> QED BY <2>1, <2>2, <3>1, LastingAdded DEF Family
    <2>4. CallsEndWithLast(later, w.collector.dropped)
        <3>1. CallsEndWithLast(tree, w.collector.dropped)
            BY <2>1 DEF Family
        <3>2. span.label.kind \notin {"call", "attempt"}
            BY <2>1
        <3> QED BY <2>1, <2>2, <3>1, <3>2, CallsEndAdded
    <2>5. BatchesGoWell(later)
        BY <2>1, <2>2, BatchesAdded DEF Family
    <2> QED BY <2>3, <2>4, <2>5 DEF Family
<1> QED BY <1>1, <1>2

LEMMA FamilyRecords ==
    ASSUME CallsAssumption, NEW tree, NEW v, Sound(tree, v), Family(tree, v.collector.dropped),
           NEW later, NEW w, NEW n, NEW status, Records(tree, v, later, w, n, status),
           n # 0 =>
              LET p == EffectiveParent(n, Top(v))
              IN  /\ Is(tree, p, "decision") \/ Is(tree, p, "review")
                  /\ \A m \in Below(tree, p, "model") : tree[m].label.note \in AsksAgain
                  /\ Cardinality(Below(tree, p, "model")) + 1 <= (Repairs + 1) * MaxAttempts
                  /\ status = "output_invalid" => Cardinality(Invalid(tree, p)) <= Repairs
    PROVE  Family(later, w.collector.dropped)
<1>1. CASE n = 0
    <2>1. later = tree /\ w.collector.dropped > 0
        BY <1>1 DEF Records
    <2>2. w.collector.dropped # 0
        BY <2>1
    <2> QED BY <2>1, <2>2 DEF Family, CallsEndWithLast
<1>2. CASE n # 0
    <2>1. PICK span : /\ span.label.kind = "model" /\ span.label.note = status
                      /\ span.parent = EffectiveParent(n, Top(v))
                      /\ Adds(tree, later, n, span) /\ w.collector.dropped = v.collector.dropped
        <3>1. [Label("model", Main) EXCEPT !.note = status].kind = "model"
              /\ [Label("model", Main) EXCEPT !.note = status].note = status
            BY DEF Label
        <3> QED BY <1>2, <3>1 DEF Records
    <2>2. CollectorOK(v.collector) /\ TreeOf(tree, v.collector)
        BY DEF Sound, ViewOK
    <2>3. Joins(tree, span)
        BY <1>2, <2>1 DEF Joins
    <2>4. Lasting(later)
        BY <2>1, <2>2, <2>3, LastingAdded DEF Family
    <2>5. CallsEndWithLast(later, w.collector.dropped)
        <3>1. CallsEndWithLast(tree, w.collector.dropped)
            BY <2>1 DEF Family
        <3>2. span.label.kind \notin {"call", "attempt"}
            BY <2>1
        <3> QED BY <2>1, <2>2, <3>1, <3>2, CallsEndAdded
    <2>6. BatchesGoWell(later)
        BY <2>1, <2>2, BatchesAdded DEF Family
    <2> QED BY <2>4, <2>5, <2>6 DEF Family
<1> QED BY <1>1, <1>2

LEMMA FamilyLeft ==
    ASSUME CallsAssumption, NEW tree, NEW v, Sound(tree, v), Family(tree, v.collector.dropped),
           v.task = Main, NEW later, NEW w, NEW depth \in 0..Len(v.stack),
           NEW status \in SpanStatuses, Left(tree, v, later, w, depth, status),
           status = "ok" => \A i \in (depth + 1)..Len(v.stack) :
              v.stack[i].label.kind = "batch" =>
                 \A m \in Below(tree, v.stack[i].number, "call") : tree[m].status = "ok"
    PROVE  Family(later, w.collector.dropped)
<1> DEFINE N == Inner(v.stack, depth)
<1>1. Closes(tree, later, N, status) /\ w.collector.dropped = v.collector.dropped
    BY DEF Left
<1>2. \A n \in N : \E i \in (depth + 1)..Len(v.stack) :
         n = v.stack[i].number /\ tree[n].label = v.stack[i].label /\ tree[n].label.task = Main
    <2>1. Len(v.stack) \in Nat /\ DOMAIN v.stack = 1..Len(v.stack)
        BY LenProperties DEF Sound, ViewOK
    <2>2. \A i \in (depth + 1)..Len(v.stack) : i \in DOMAIN v.stack
        BY <2>1
    <2>3. ASSUME NEW i \in DOMAIN v.stack, v.stack[i].number # 0
          PROVE  /\ tree[v.stack[i].number].label = v.stack[i].label
                 /\ v.stack[i].label.task = Main
        <3>1. OpenIn(tree, v.collector, v.stack[i]) /\ v.stack[i].label.task = v.task
            BY DEF Sound
        <3> QED BY <2>3, <3>1 DEF OpenIn, Opening
    <2> QED BY <2>2, <2>3 DEF Inner
<1> HIDE DEF N
<1>3. Main \notin Slots
    BY DEF Main, Slots
<1>4. Lasting(later)
    BY <1>1, LastingClosed DEF Family
<1>5. CallsEndWithLast(later, w.collector.dropped)
    <2>1. \A a \in Of(tree, "attempt") : a \notin N /\ tree[a].parent \notin N
        BY <1>2, <1>3, TreeTasks DEF Family, Lasting
    <2>2. CallsEndWithLast(tree, w.collector.dropped)
        BY <1>1 DEF Family
    <2> QED BY <1>1, <2>1, <2>2, CallsEndClosed
<1>6. BatchesGoWell(later)
    <2>1. status = "ok" => \A n \in N : tree[n].label.kind = "batch" =>
                               \A m \in Below(tree, n, "call") : tree[m].status = "ok"
        BY <1>2
    <2> QED BY <1>1, <2>1, BatchesClosed DEF Family
<1> QED BY <1>4, <1>5, <1>6 DEF Family

\* Every task sees its spans in the tree.
LEMMA ViewSound ==
    ASSUME CallsAssumption, SpansOK, Named, Orderly, NEW tree, TreeOf(tree, collector),
           AllOpen(tree), NEW t \in Tasks
    PROVE  Sound(tree, View(t))
<1>1. /\ ViewOK(View(t))
      /\ View(t) = [collector |-> collector, stack |-> open[t], task |-> t,
                    outer |-> IF t = Main THEN <<>> ELSE open[Main]]
    BY ViewTyped
<1>2. /\ View(t).collector = collector /\ View(t).stack = open[t] /\ View(t).task = t
      /\ View(t).outer = IF t = Main THEN <<>> ELSE open[Main]
    BY <1>1
<1>3. t = Main \/ (t \in Slots /\ t # Main)
    BY DEF Tasks, Main, Slots, CallsAssumption
<1>0. \A kind, u : Label(kind, u).task = u
    BY DEF Label
<1>4. \A u \in Tasks : \A i \in DOMAIN open[u] :
         OpenIn(tree, collector, open[u][i]) /\ open[u][i].label.task = u
    <2>1. \A u \in Tasks : u = Main \/ u \in Slots
        BY DEF Tasks
    <2>2. \A i \in DOMAIN open[Main] : open[Main][i].label.task = Main
        BY <1>0 DEF Named
    <2>3. \A u \in Slots : \A i \in DOMAIN open[u] : open[u][i].label.task = u
        BY <1>0 DEF Named
    <2> QED BY <2>1, <2>2, <2>3 DEF AllOpen
<1>5. \A i \in DOMAIN View(t).outer :
         OpenIn(tree, collector, View(t).outer[i]) /\ View(t).outer[i].label.task # t
    <2>1. CASE t = Main
        BY <1>2, <2>1
    <2>2. CASE t # Main
        <3>1. View(t).outer = open[Main] /\ Main \in Tasks
            BY <1>2, <2>2 DEF Tasks
        <3> QED BY <1>4, <2>2, <3>1
    <2> QED BY <2>1, <2>2
<1>6. Ascends(View(t).stack) /\ Ascends(View(t).outer) /\ Within(View(t).stack, View(t).outer)
    <2>1. CASE t = Main
        BY <1>2, <2>1 DEF Orderly, Ascends, Within
    <2>2. CASE t # Main
        BY <1>2, <1>3, <2>2 DEF Orderly
    <2> QED BY <2>1, <2>2
<1> QED BY <1>1, <1>2, <1>4, <1>5, <1>6 DEF Sound

Alone(w) ==
    collector' = w.collector /\ open'[Main] = w.stack /\ \A s \in Slots : open'[s] = <<>>

LEMMA AloneTree ==
    ASSUME NEW later, NEW w, Sound(later, w), Alone(w)
    PROVE  TreeOf(later, collector)' /\ AllOpen(later)' /\ Orderly'
<1>1. TreeOf(later, collector)'
    BY DEF Sound, Alone
<1>2. AllOpen(later)'
    <2>1. \A i \in DOMAIN open'[Main] : OpenIn(later, collector', open'[Main][i])
        BY DEF Sound, Alone
    <2>2. \A s \in Slots : DOMAIN open'[s] = {}
        BY DEF Alone
    <2>3. \A t \in Tasks : \A i \in DOMAIN open'[t] : OpenIn(later, collector', open'[t][i])
        BY <2>1, <2>2 DEF Tasks
    <2> QED BY <2>3 DEF AllOpen
<1>3. Orderly'
    <2>1. Ascends(open'[Main])
        BY DEF Sound, Alone
    <2>2. \A s \in Slots : DOMAIN open'[s] = {}
        BY DEF Alone
    <2>3. \A s \in Slots : Ascends(open'[s]) /\ Within(open'[s], open'[Main])
        BY <2>2 DEF Ascends, Within
    <2> QED BY <2>1, <2>3 DEF Orderly
<1> QED BY <1>1, <1>2, <1>3

LEMMA NoneBelow ==
    ASSUME CallsAssumption, NEW tree, NEW later, NEW n, NEW span, Adds(tree, later, n, span),
           NEW d, CollectorOK(d), TreeOf(later, d)
    PROVE  \A kind : Below(later, n, kind) = {} /\ Invalid(later, n) = {}
<1>1. \A m \in DOMAIN later : m \in Nat /\ later[m].parent \in 0..(m - 1)
    BY LimitTyped DEF TreeOf
<1>2. \A m \in DOMAIN later : m <= n
    BY <1>1 DEF Adds
<1>3. \A m \in DOMAIN later : later[m].parent # n
    <2>1. n \in Nat
        BY DEF Adds
    <2> QED BY <1>1, <1>2, <2>1
<1>4. \A kind : Below(later, n, kind) = {}
    BY <1>3 DEF Below
<1> QED BY <1>4 DEF Invalid

\* The spans of the run and of its workflow.
Working(q) ==
    Len(q) = 2 /\ q[1].label = Label("run", Main) /\ q[2].label = Label("workflow", Main)

\* A turn of the planner, a batch or a review begins.
LEMMA NextTurn ==
    ASSUME CallsAssumption, NEW mid, NEW v, Sound(mid, v), v.task = Main, Working(v.stack),
           Family(mid, v.collector.dropped),
           NEW kind \in {"decision", "review", "batch"}, Alone(Enter(v, kind)),
           phase' = IF kind = "decision" THEN "planning" ELSE IF kind = "review" THEN "auditing"
                                                         ELSE "acting",
           phase' # "acting" => chat' = FirstRequest,
           \A s \in Slots : slots'[s].state # "calling", saved' = <<>>
    PROVE  FamilyInv'
<1>1. PICK w : w = Enter(v, kind)
    OBVIOUS
<1>2. PICK later, n : Entered(mid, v, later, w, n, kind)
    <2>1. kind \in Kinds
        BY DEF Kinds
    <2> QED BY <1>1, <2>1, EnterTree
<1>3. Sound(later, w) /\ Alone(w)
    BY <1>1, <1>2 DEF Entered, LeadsOn
<1>4. Family(later, w.collector.dropped)
    BY <1>2, FamilyEntered
<1>5. TreeOf(later, collector)' /\ AllOpen(later)' /\ Orderly'
    BY <1>3, AloneTree
<1>6. /\ DOMAIN w.stack = 1..3 /\ w.stack[1].label = Label("run", Main)
      /\ w.stack[2].label = Label("workflow", Main)
      /\ w.stack[3].label = Label(kind, Main) /\ w.stack[3].number = n
    <2>1. /\ Len(w.stack) = 3 /\ w.stack[1] = v.stack[1] /\ w.stack[2] = v.stack[2]
          /\ w.stack[3].label = Label(kind, Main) /\ w.stack[3].number = n
        BY <1>2 DEF Entered, Working
    <2>2. w.stack \in Seq(Frames(w.collector))
        BY <1>3 DEF Sound, ViewOK
    <2>3. DOMAIN w.stack = 1..3
        BY <2>1, <2>2, LenProperties
    <2> QED BY <2>1, <2>3 DEF Working
<1>7. open'[Main] = w.stack /\ collector' = w.collector /\ \A s \in Slots : DOMAIN open'[s] = {}
    BY <1>3 DEF Alone
<1>8. Named'
    <2>1. Around(phase') = <<"run", "workflow", kind>>
        BY DEF Around
    <2>2. \A i \in DOMAIN w.stack : w.stack[i].label = Label(Around(phase')[i], Main)
        BY <1>6, <2>1
    <2> QED BY <1>7, <2>2 DEF Named
<1>9. SavedFits'
    BY DEF SavedFits
<1>10. n # 0 => \A k : Below(later, n, k) = {} /\ Invalid(later, n) = {}
    <2>1. CollectorOK(w.collector) /\ TreeOf(later, w.collector)
        BY <1>3 DEF Sound, ViewOK
    <2> QED BY <1>2, <2>1, NoneBelow DEF Entered
<1>11. Inmost' = n
    BY <1>6, <1>7 DEF Inmost
<1>12. Exchange(later)'
    <2> SUFFICES ASSUME phase' \in {"planning", "auditing"}
                 PROVE  /\ chat'.repaired => Repairs = 1
                        /\ n # 0 =>
                              /\ \A m \in Below(later, n, "model") : later[m].label.note \in AsksAgain
                              /\ Cardinality(Below(later, n, "model"))
                                    <= (chat'.attempt - 1) + IF chat'.repaired THEN MaxAttempts ELSE 0
                              /\ Cardinality(Invalid(later, n)) <= IF chat'.repaired THEN 1 ELSE 0
        BY <1>11 DEF Exchange
    <2>1. chat'.attempt = 1 /\ chat'.repaired = FALSE
        BY DEF FirstRequest
    <2>2. Cardinality({}) = 0
        BY FS_EmptySet
    <2>3. ASSUME n # 0
          PROVE  Below(later, n, "model") = {} /\ Invalid(later, n) = {}
        BY <1>10, <2>3
    <2>4. /\ chat'.attempt - 1 = 0 /\ (IF chat'.repaired THEN MaxAttempts ELSE 0) = 0
          /\ (IF chat'.repaired THEN 1 ELSE 0) = 0
        BY <2>1
    <2>5. ASSUME n # 0
          PROVE  /\ Cardinality(Below(later, n, "model"))
                       <= (chat'.attempt - 1) + IF chat'.repaired THEN MaxAttempts ELSE 0
                 /\ Cardinality(Invalid(later, n)) <= IF chat'.repaired THEN 1 ELSE 0
        <3>1. Cardinality(Below(later, n, "model")) = 0 /\ Cardinality(Invalid(later, n)) = 0
            BY <2>2, <2>3, <2>5
        <3> QED BY <2>1, <3>1
    <2>6. ASSUME n # 0
          PROVE  \A m \in Below(later, n, "model") : later[m].label.note \in AsksAgain
        BY <2>3, <2>6
    <2> QED BY <2>1, <2>5, <2>6
<1>13. BatchSoFar(later)'
    BY <1>10, <1>11 DEF BatchSoFar
<1>14. CallSoFar(later)'
    BY DEF CallSoFar
<1>15. Family(later, collector.dropped)'
    BY <1>4, <1>7
<1> QED BY <1>5, <1>8, <1>9, <1>12, <1>13, <1>14, <1>15 DEF FamilyInv, UnderWay

-----------------------------------------------------------------------------
(* The steps of the task of the run.                                       *)

\* What a step of it starts from.
LEMMA MainTree ==
    ASSUME CallsAssumption, TraceInv, FamilyInv
    PROVE  /\ View(Main).collector = collector /\ View(Main).stack = open[Main]
           /\ View(Main).task = Main /\ View(Main).outer = <<>>
           /\ Len(open[Main]) \in Nat /\ DOMAIN open[Main] = 1..Len(open[Main])
           /\ \E tree : /\ TreeOf(tree, collector) /\ AllOpen(tree) /\ Sound(tree, View(Main))
                        /\ Family(tree, collector.dropped) /\ UnderWay(tree)
<1>1. SpansOK /\ Main \in Tasks
    BY DEF TraceInv, Tasks
<1>2. View(Main) = [collector |-> collector, stack |-> open[Main], task |-> Main, outer |-> <<>>]
    BY <1>1, ViewTyped
<1>3. PICK tree : /\ TreeOf(tree, collector) /\ AllOpen(tree)
                  /\ Family(tree, collector.dropped) /\ UnderWay(tree)
    BY DEF FamilyInv
<1>4. Sound(tree, View(Main))
    BY <1>1, <1>3, ViewSound DEF FamilyInv
<1>5. Len(open[Main]) \in Nat /\ DOMAIN open[Main] = 1..Len(open[Main])
    BY <1>1, LenProperties DEF SpansOK
<1> QED BY <1>2, <1>3, <1>4, <1>5

\* No call is under way when it makes one.
LEMMA IdleAlone ==
    ASSUME CallsAssumption, TraceInv, NoneCalling, NEW w, w.task = Main, Becomes(w)
    PROVE  Alone(w)
<1>1. open \in [Tasks -> Seq(Frames(collector))] /\ \A s \in Slots : s \in Tasks /\ s # Main
    BY DEF TraceInv, SpansOK, Tasks, Slots, Main
<1>2. \A s \in Slots : open[s] = <<>>
    BY <1>1, BatchIsIdle, EmptySeq
<1>3. Main \in Tasks
    BY DEF Tasks
<1>4. collector' = w.collector /\ open' = [open EXCEPT ![Main] = w.stack]
    BY DEF Becomes
<1> QED BY <1>1, <1>2, <1>3, <1>4 DEF Alone

\* What holds once the task has made its step.
LEMMA Settles ==
    ASSUME NEW later, NEW w, Sound(later, w), Alone(w), Family(later, w.collector.dropped),
           \A i \in DOMAIN w.stack : w.stack[i].label = Label(Around(phase')[i], Main),
           SavedFits', UnderWay(later)'
    PROVE  FamilyInv'
<1>1. TreeOf(later, collector)' /\ AllOpen(later)' /\ Orderly'
    BY AloneTree
<1>2. Named'
    <2>1. \A s \in Slots : DOMAIN open'[s] = {}
        BY DEF Alone
    <2>2. open'[Main] = w.stack
        BY DEF Alone
    <2> QED BY <2>1, <2>2 DEF Named
<1>3. Family(later, collector.dropped)'
    BY DEF Alone
<1> QED BY <1>1, <1>2, <1>3 DEF FamilyInv

\* The run is over, well or not: what is saved is the tree.
LEMMA RunEnds ==
    ASSUME CallsAssumption, TraceInv', NEW mid, NEW v, Sound(mid, v), v.task = Main,
           Family(mid, v.collector.dropped), NEW status \in {"ok", "error"},
           Alone(Unwound(v, 0, status)),
           \A i \in DOMAIN v.stack : status = "ok" => v.stack[i].label.kind # "batch",
           phase' \in {"completed", "failed"},
           saved' = Snapshot(Unwound(v, 0, status).collector),
           \A s \in Slots : slots'[s].state # "calling"
    PROVE  FamilyInv'
<1>1. PICK w : w = Unwound(v, 0, status)
    OBVIOUS
<1>2. status \in SpanStatuses /\ 0 \in 0..Len(v.stack) /\ DOMAIN v.stack = 1..Len(v.stack)
      /\ Len(v.stack) \in Nat
    BY LenProperties DEF Sound, ViewOK, SpanStatuses
<1>3. PICK later : Left(mid, v, later, w, 0, status)
    BY <1>1, <1>2, UnwoundTree
<1>4. Family(later, w.collector.dropped)
    BY <1>2, <1>3, FamilyLeft
<1>5. Sound(later, w) /\ Len(w.stack) = 0 /\ Alone(w)
    BY <1>1, <1>3 DEF Left, LeadsOn
<1>6. w.stack = <<>>
    BY <1>5, EmptySeq DEF Sound, ViewOK
<1>7. \A t \in Tasks : Numbers(open'[t]) = {}
    <2>1. \A t \in Tasks : DOMAIN open'[t] = {}
        BY <1>5, <1>6 DEF Alone, Tasks
    <2> QED BY <2>1 DEF Numbers
<1>8. PICK c : c = collector' /\ c = w.collector /\ CollectorOK(c)
    BY <1>5 DEF Alone, TraceInv, SpansOK
<1>9. 1..(c.next - 1) \subseteq DOMAIN c.completed
    BY <1>7, <1>8 DEF TraceInv, NothingForgotten
<1>10. saved' = [n \in 1..(c.next - 1) |-> c.completed[n]]
    <2>1. Snapshot(c) = [n \in 1..(c.next - 1) |-> c.completed[n]]
        BY <1>8, <1>9, SnapshotOfAll
    <2> QED BY <1>1, <1>8, <2>1
<1>11. DOMAIN c.completed = 1..(c.next - 1)
    BY <1>8, <1>9 DEF CollectorOK
<1>12. SavedFits'
    BY <1>8, <1>10, <1>11 DEF SavedFits
<1>13. UnderWay(later)'
    BY DEF UnderWay, Exchange, BatchSoFar, CallSoFar
<1>14. \A i \in DOMAIN w.stack : w.stack[i].label = Label(Around(phase')[i], Main)
    BY <1>6
<1> QED BY <1>4, <1>5, <1>12, <1>13, <1>14, Settles

LEMMA FailsFamily ==
    ASSUME CallsAssumption, TraceInv, FamilyInv, TraceInv', NoneCalling, NEW why,
           Fails(View(Main), why)
    PROVE  FamilyInv'
<1>1. /\ View(Main).collector = collector /\ View(Main).task = Main
    BY MainTree
<1>2. PICK tree : Sound(tree, View(Main)) /\ Family(tree, collector.dropped)
    BY MainTree
<1>3. PICK w : w = Unwound(View(Main), 0, "error")
    OBVIOUS
<1>4. /\ Becomes(w) /\ phase' = "failed" /\ saved' = Snapshot(w.collector)
      /\ \A s \in Slots : slots'[s].state # "calling"
    BY <1>3 DEF Fails, NoSlot
<1>5. w.task = Main
    <2>1. 0 \in 0..Len(View(Main).stack) /\ "error" \in SpanStatuses
        BY <1>2, LenProperties DEF Sound, ViewOK, SpanStatuses
    <2> QED BY <1>1, <1>2, <1>3, <2>1, UnwoundTree DEF Left, LeadsOn
<1>6. Alone(w)
    BY <1>4, <1>5, IdleAlone
<1> QED BY <1>1, <1>2, <1>3, <1>4, <1>6, RunEnds

LEMMA StartFamily ==
    ASSUME CallsAssumption, TraceInv, FamilyInv, Start
    PROVE  FamilyInv'
<1>1. PICK u : u = View(Main) /\ u.collector = collector /\ u.task = Main /\ u.stack = open[Main]
    BY MainTree
<1>2. PICK tree : Sound(tree, u) /\ Family(tree, u.collector.dropped)
    BY <1>1, MainTree
<1>3. PICK v, w : v = Enter(u, "run") /\ w = Enter(v, "retrieval")
    OBVIOUS
<1>4. PICK mid, m : Entered(tree, u, mid, v, m, "run")
    BY <1>2, <1>3, EnterTree DEF Kinds
<1>5. Sound(mid, v) /\ v.task = Main /\ Family(mid, v.collector.dropped)
    <2>1. Family(mid, v.collector.dropped)
        BY <1>2, <1>4, FamilyEntered
    <2> QED BY <1>1, <1>4, <2>1 DEF Entered, LeadsOn
<1>6. PICK later, n : Entered(mid, v, later, w, n, "retrieval")
    BY <1>3, <1>5, EnterTree DEF Kinds
<1>7. Sound(later, w) /\ w.task = Main /\ Family(later, w.collector.dropped)
    <2>1. Family(later, w.collector.dropped)
        BY <1>5, <1>6, FamilyEntered
    <2> QED BY <1>5, <1>6, <2>1 DEF Entered, LeadsOn
<1>8. /\ Becomes(w) /\ phase' = "retrieving" /\ slots' = slots /\ saved' = saved
      /\ phase = "claimed"
    BY <1>1, <1>3 DEF Start
<1>9. NoneCalling /\ Len(u.stack) = 0
    BY <1>1, <1>8 DEF TraceInv, PhasesFit, StacksFit, Depth, NoneCalling
<1>10. Alone(w)
    BY <1>7, <1>8, <1>9, IdleAlone
<1>11. \A i \in DOMAIN w.stack : w.stack[i].label = Label(Around(phase')[i], Main)
    <2>1. Len(v.stack) = 1 /\ v.stack[1].label = Label("run", Main)
        BY <1>1, <1>4, <1>9 DEF Entered
    <2>2. /\ Len(w.stack) = 2 /\ w.stack[1] = v.stack[1]
          /\ w.stack[2].label = Label("retrieval", Main)
        BY <1>5, <1>6, <2>1 DEF Entered
    <2>3. DOMAIN w.stack = 1..2
        BY <1>7, <2>2, LenProperties DEF Sound, ViewOK
    <2>4. Around(phase') = <<"run", "retrieval">>
        BY <1>8 DEF Around
    <2> QED BY <2>1, <2>2, <2>3, <2>4
<1>12. SavedFits'
    BY <1>8 DEF FamilyInv, SavedFits
<1>13. UnderWay(later)'
    BY <1>8, <1>9 DEF UnderWay, Exchange, BatchSoFar, CallSoFar, NoneCalling
<1> QED BY <1>7, <1>10, <1>11, <1>12, <1>13, Settles

LEMMA RetrievedFamily ==
    ASSUME CallsAssumption, TraceInv, FamilyInv, TraceInv', Retrieved
    PROVE  FamilyInv'
<1>1. PICK u : u = View(Main) /\ u.collector = collector /\ u.task = Main /\ u.stack = open[Main]
    BY MainTree
<1>2. PICK tree : Sound(tree, u) /\ Family(tree, u.collector.dropped)
    BY <1>1, MainTree
<1>3. /\ phase = "retrieving" /\ NoneCalling /\ saved = <<>>
      /\ Len(u.stack) = 2 /\ u.stack # <<>> /\ DOMAIN u.stack = 1..2
      /\ u.stack[1].label = Label("run", Main) /\ u.stack[2].label = Label("retrieval", Main)
    <2>1. phase = "retrieving" /\ NoneCalling /\ Len(u.stack) = 2
        BY <1>1 DEF Retrieved, TraceInv, PhasesFit, NoneCalling, StacksFit, Depth
    <2>2. DOMAIN u.stack = 1..2 /\ u.stack # <<>>
        <3>1. u.stack \in Seq(Frames(u.collector))
            BY <1>2 DEF Sound, ViewOK
        <3>2. DOMAIN u.stack = 1..2
            BY <2>1, <3>1, LenProperties
        <3>3. Len(<<>>) = 0
            BY EmptySeq
        <3> QED BY <2>1, <3>2, <3>3
    <2>3. Around(phase) = <<"run", "retrieval">>
        BY <2>1 DEF Around
    <2>4. \A i \in DOMAIN u.stack : u.stack[i].label = Label(Around(phase)[i], Main)
        BY <1>1 DEF FamilyInv, Named
    <2>5. u.stack[1].label = Label("run", Main) /\ u.stack[2].label = Label("retrieval", Main)
        BY <2>2, <2>3, <2>4
    <2> QED BY <2>1, <2>2, <2>5 DEF FamilyInv, SavedFits
<1>4. CASE Fails(View(Main), "retrieval")
    BY <1>3, <1>4, FailsFamily
<1>5. CASE Planning(Enter(Leave(View(Main), "ok"), "workflow"))
    <2>1. PICK v, w : v = Leave(u, "ok") /\ w = Enter(v, "workflow")
        OBVIOUS
    <2>2. PICK mid : Left(tree, u, mid, v, 1, "ok")
        <3>1. "ok" \in SpanStatuses /\ "none" \in Codes
            BY DEF SpanStatuses, Codes
        <3> QED BY <1>2, <1>3, <2>1, <3>1, LeaveTree DEF Leave
    <2>3. Family(mid, v.collector.dropped)
        <3>1. \A i \in 2..Len(u.stack) : u.stack[i].label.kind # "batch"
            BY <1>3 DEF Label
        <3>2. 1 \in 0..Len(u.stack) /\ "ok" \in SpanStatuses
            BY <1>3 DEF SpanStatuses
        <3> QED BY <1>1, <1>2, <2>2, <3>1, <3>2, FamilyLeft
    <2>4. /\ Sound(mid, v) /\ v.task = Main /\ Len(v.stack) = 1
          /\ v.stack[1].label = Label("run", Main)
        BY <1>1, <1>3, <2>2 DEF Left, LeadsOn
    <2>5. PICK later, n : Entered(mid, v, later, w, n, "workflow")
        BY <2>1, <2>4, EnterTree DEF Kinds
    <2>6. Sound(later, w) /\ w.task = Main /\ Family(later, w.collector.dropped)
        <3>1. Family(later, w.collector.dropped)
            BY <2>3, <2>4, <2>5, FamilyEntered
        <3> QED BY <2>4, <2>5, <3>1 DEF Entered, LeadsOn
    <2>7. Working(w.stack)
        BY <2>4, <2>5 DEF Working, Entered
    <2>8. /\ Becomes(Enter(w, "decision")) /\ phase' = "planning" /\ chat' = FirstRequest
          /\ \A s \in Slots : slots'[s].state # "calling" /\ saved' = <<>>
        BY <1>1, <1>3, <1>5, <2>1 DEF Planning, NoSlot
    <2>9. Alone(Enter(w, "decision"))
        <3>1. Enter(w, "decision").task = Main
            BY <2>6, EnterTree DEF Kinds, Entered, LeadsOn
        <3> QED BY <1>3, <2>8, <3>1, IdleAlone
    <2>10. saved' = <<>>
        BY <1>3, <1>5 DEF Planning
    <2> QED BY <2>6, <2>7, <2>8, <2>9, <2>10, NextTurn
<1> QED BY <1>4, <1>5 DEF Retrieved

-----------------------------------------------------------------------------
(* The exchange with a model.                                              *)

\* There are finitely many spans.
LEMMA FewBelow ==
    ASSUME CallsAssumption, NEW c, CollectorOK(c), NEW tree, TreeOf(tree, c), NEW p
    PROVE  /\ \A kind : /\ IsFiniteSet(Below(tree, p, kind))
                        /\ Cardinality(Below(tree, p, kind)) \in Nat
           /\ IsFiniteSet(Invalid(tree, p)) /\ Cardinality(Invalid(tree, p)) \in Nat
<1>1. IsFiniteSet(1..(c.next - 1))
    BY LimitTyped, FS_Interval
<1>2. /\ \A kind : Below(tree, p, kind) \subseteq 1..(c.next - 1)
      /\ Invalid(tree, p) \subseteq 1..(c.next - 1)
    BY DEF TreeOf, Below, Invalid
<1> QED BY <1>1, <1>2, FS_Subset, FS_CardinalityType

\* The spans of the task of the run while it plans, acts or reviews.
LEMMA ThreeOpen ==
    ASSUME CallsAssumption, TraceInv, FamilyInv, phase \in {"planning", "acting", "auditing"},
           NEW tree, Sound(tree, View(Main))
    PROVE  /\ Len(open[Main]) = 3 /\ DOMAIN open[Main] = 1..3 /\ open[Main] # <<>>
           /\ open[Main][1].label = Label("run", Main)
           /\ open[Main][2].label = Label("workflow", Main)
           /\ open[Main][3].label =
                 Label(CASE phase = "planning" -> "decision" [] phase = "acting" -> "batch"
                         [] OTHER -> "review", Main)
           /\ Top(View(Main)) = Inmost /\ saved = <<>>
           /\ IF Inmost = 0 THEN collector.next > collector.limit
              ELSE Inmost \in DOMAIN tree /\ tree[Inmost].label = open[Main][3].label
<1>1. Len(open[Main]) = 3
    BY DEF TraceInv, StacksFit, Depth
<1>2. DOMAIN open[Main] = 1..3 /\ View(Main).stack = open[Main] /\ View(Main).collector = collector
    BY <1>1, MainTree
<1>3. open[Main] # <<>>
    <2>1. Len(<<>>) = 0
        BY EmptySeq
    <2> QED BY <1>1, <2>1
<1>4. \A i \in 1..3 : open[Main][i].label = Label(Around(phase)[i], Main)
    BY <1>2 DEF FamilyInv, Named
<1>5. Around(phase) = <<"run", "workflow",
                        CASE phase = "planning" -> "decision" [] phase = "acting" -> "batch"
                          [] OTHER -> "review">>
    BY DEF Around
<1>6. /\ open[Main][1].label = Label("run", Main) /\ open[Main][2].label = Label("workflow", Main)
      /\ open[Main][3].label =
            Label(CASE phase = "planning" -> "decision" [] phase = "acting" -> "batch"
                    [] OTHER -> "review", Main)
    BY <1>4, <1>5
<1>7. Top(View(Main)) = Inmost
    BY <1>1, <1>2, <1>3 DEF Top, Inmost
<1>8. OpenIn(tree, collector, open[Main][3])
    BY <1>2 DEF Sound
<1>9. IF Inmost = 0 THEN collector.next > collector.limit
      ELSE Inmost \in DOMAIN tree /\ tree[Inmost].label = open[Main][3].label
    BY <1>8 DEF OpenIn, Opening, Inmost
<1>10. saved = <<>>
    BY DEF FamilyInv, SavedFits
<1> QED BY <1>1, <1>2, <1>3, <1>6, <1>7, <1>9, <1>10

\* A model that has not answered yet may be asked once more.
LEMMA AnotherFits ==
    ASSUME CallsAssumption, TraceInv, FamilyInv, phase \in {"planning", "auditing"},
           NEW tree, Sound(tree, View(Main)), TreeOf(tree, collector), Exchange(tree),
           Inmost # 0
    PROVE  /\ Is(tree, Inmost, "decision") \/ Is(tree, Inmost, "review")
           /\ \A m \in Below(tree, Inmost, "model") : tree[m].label.note \in AsksAgain
           /\ Cardinality(Below(tree, Inmost, "model")) + 1 <= (Repairs + 1) * MaxAttempts
           /\ Cardinality(Invalid(tree, Inmost)) <= Repairs
<1>1. \/ phase = "planning" /\ Is(tree, Inmost, "decision")
      \/ phase = "auditing" /\ Is(tree, Inmost, "review")
    BY ThreeOpen DEF Is, Label
<1>2. /\ chat.repaired => Repairs = 1
      /\ \A m \in Below(tree, Inmost, "model") : tree[m].label.note \in AsksAgain
      /\ Cardinality(Below(tree, Inmost, "model"))
            <= (chat.attempt - 1) + IF chat.repaired THEN MaxAttempts ELSE 0
      /\ Cardinality(Invalid(tree, Inmost)) <= IF chat.repaired THEN 1 ELSE 0
    BY DEF Exchange
<1>3. /\ chat.attempt \in 0..MaxAttempts /\ chat.repaired \in BOOLEAN
      /\ MaxAttempts \in 1..3 /\ Repairs \in 0..1
    BY DEF TraceInv, ControlTyped, CallsAssumption
<1>4. PICK k, i : k = Cardinality(Below(tree, Inmost, "model")) /\ i = Cardinality(Invalid(tree, Inmost))
    OBVIOUS
<1>5. k \in Nat /\ i \in Nat
    <2>1. CollectorOK(collector)
        BY DEF TraceInv, SpansOK
    <2> QED BY <1>4, <2>1, FewBelow
<1>6. k + 1 <= (Repairs + 1) * MaxAttempts /\ i <= Repairs
    <2>1. CASE chat.repaired
        <3>1. Repairs = 1 /\ (Repairs + 1) * MaxAttempts = MaxAttempts + MaxAttempts
            BY <1>2, <1>3, <2>1
        <3>2. k <= (chat.attempt - 1) + MaxAttempts /\ i <= 1
            BY <1>2, <1>4, <2>1
        <3> QED BY <1>3, <1>5, <3>1, <3>2
    <2>2. CASE ~chat.repaired
        <3>1. k <= (chat.attempt - 1) + 0 /\ i <= 0
            BY <1>2, <1>4, <2>2
        <3>2. (Repairs + 1) * MaxAttempts >= MaxAttempts
            <4>1. Repairs = 0 \/ Repairs = 1
                BY <1>3
            <4> QED BY <1>3, <4>1
        <3> QED BY <1>3, <1>5, <3>1, <3>2
    <2> QED BY <2>1, <2>2
<1> QED BY <1>1, <1>2, <1>4, <1>6

\* So its measurement, whatever it says, fits the tree.
LEMMA AnswerFits ==
    ASSUME CallsAssumption, TraceInv, FamilyInv, phase \in {"planning", "auditing"},
           NEW tree, Sound(tree, View(Main)), TreeOf(tree, collector), Exchange(tree),
           Family(tree, collector.dropped), NEW status \in CallStatuses
    PROVE  \E later, n :
              /\ Records(tree, View(Main), later, Measured(View(Main), status), n, status)
              /\ Family(later, Measured(View(Main), status).collector.dropped)
              /\ n # 0 => Inmost # 0 /\ EffectiveParent(n, Inmost) = Inmost
<1>1. PICK later, n : Records(tree, View(Main), later, Measured(View(Main), status), n, status)
    BY MeasureTree
<1>2. View(Main).collector = collector /\ Top(View(Main)) = Inmost
    BY MainTree, ThreeOpen
<1>3. n # 0 => Inmost # 0 /\ EffectiveParent(n, Inmost) = Inmost
    <2>1. n # 0 => collector.next <= collector.limit
        BY <1>1, <1>2 DEF Records
    <2>2. CollectorOK(collector)
        BY DEF TraceInv, SpansOK
    <2>3. n # 0 => Inmost # 0
        BY <2>1, <2>2, LimitTyped, ThreeOpen
    <2> QED BY <2>3 DEF EffectiveParent
<1>4. Family(later, Measured(View(Main), status).collector.dropped)
    <2>1. ASSUME n # 0
          PROVE  LET p == EffectiveParent(n, Top(View(Main)))
                 IN  /\ Is(tree, p, "decision") \/ Is(tree, p, "review")
                     /\ \A m \in Below(tree, p, "model") : tree[m].label.note \in AsksAgain
                     /\ Cardinality(Below(tree, p, "model")) + 1 <= (Repairs + 1) * MaxAttempts
                     /\ status = "output_invalid" => Cardinality(Invalid(tree, p)) <= Repairs
        BY <1>2, <1>3, <2>1, AnotherFits
    <2> QED BY <1>1, <1>2, <2>1, FamilyRecords
<1> QED BY <1>1, <1>3, <1>4

LEMMA AgainFamily ==
    ASSUME CallsAssumption, TraceInv, FamilyInv, phase \in {"planning", "auditing"},
           NEW status \in CallStatuses, AnswersAgain(status)
    PROVE  FamilyInv'
<1>1. PICK u : u = View(Main) /\ u.collector = collector /\ u.task = Main /\ u.stack = open[Main]
    BY MainTree
<1>2. PICK tree : /\ Sound(tree, u) /\ Family(tree, u.collector.dropped) /\ TreeOf(tree, collector)
                  /\ Exchange(tree)
    BY <1>1, MainTree DEF UnderWay
<1>3. PICK w : w = Measured(u, status)
    OBVIOUS
<1>4. PICK later, n : /\ Records(tree, u, later, w, n, status) /\ Family(later, w.collector.dropped)
                      /\ n # 0 => Inmost # 0 /\ EffectiveParent(n, Inmost) = Inmost
    BY <1>1, <1>2, <1>3, AnswerFits
<1>5. Sound(later, w) /\ w.task = Main /\ w.stack = open[Main]
    BY <1>1, <1>4 DEF Records, LeadsOn
<1>6. NoneCalling
    BY DEF TraceInv, PhasesFit, NoneCalling
<1>7. /\ Becomes(w) /\ UNCHANGED <<phase, turn, slots, saved, cause>>
      /\ MayRetry(status) \/ MayRepair(status)
      /\ chat' = IF MayRetry(status) THEN [chat EXCEPT !.attempt = @ + 1]
                                     ELSE [attempt |-> 1, repaired |-> TRUE]
    BY <1>1, <1>3 DEF AnswersAgain
<1>8. Alone(w)
    BY <1>5, <1>6, <1>7, IdleAlone
<1>9. \A i \in DOMAIN w.stack : w.stack[i].label = Label(Around(phase')[i], Main)
    BY <1>5, <1>7 DEF FamilyInv, Named
<1>10. SavedFits'
    BY <1>7 DEF FamilyInv, SavedFits
<1>11. Inmost' = Inmost
    BY <1>5, <1>8 DEF Alone, Inmost
<1>12. Exchange(later)'
    <2>1. CollectorOK(collector)
        BY DEF TraceInv, SpansOK
    <2> DEFINE B == Below(tree, Inmost, "model")
               I == Invalid(tree, Inmost)
    <2>2. ASSUME Inmost # 0
          PROVE  /\ \A m \in Below(later, Inmost, "model") : later[m].label.note \in AsksAgain
                 /\ Cardinality(B) \in Nat /\ Cardinality(I) \in Nat
                 /\ Cardinality(Below(later, Inmost, "model")) <= Cardinality(B) + 1
                 /\ Cardinality(Invalid(later, Inmost))
                       <= Cardinality(I) + IF status = "output_invalid" THEN 1 ELSE 0
        <3>1. \A m \in B : tree[m].label.note \in AsksAgain
            BY <1>2, <2>2 DEF Exchange
        <3>2. status \in AsksAgain
            BY <1>7 DEF MayRetry, MayRepair, AsksAgain
        <3>3. /\ IsFiniteSet(B) /\ IsFiniteSet(I)
              /\ Cardinality(B) \in Nat /\ Cardinality(I) \in Nat
            BY <1>2, <2>1, FewBelow
        <3>4. CASE n = 0
            <4>1. later = tree
                BY <1>4, <3>4 DEF Records
            <4> QED BY <3>1, <3>3, <4>1
        <3>5. CASE n # 0
            <4>1. PICK span : /\ Adds(tree, later, n, span) /\ span.parent = Inmost
                              /\ span.label.kind = "model" /\ span.label.note = status
                <5>1. [Label("model", Main) EXCEPT !.note = status].kind = "model"
                      /\ [Label("model", Main) EXCEPT !.note = status].note = status
                    BY DEF Label
                <5>2. Top(u) = Inmost
                    BY <1>1, <1>2, ThreeOpen
                <5> DEFINE label == [Label("model", Main) EXCEPT !.note = status]
                           made == [parent |-> EffectiveParent(n, Top(u)),
                                    status |-> IF status = "succeeded" THEN "ok" ELSE "error",
                                    label |-> label]
                <5>3. Adds(tree, later, n, made)
                    BY <1>4, <3>5 DEF Records
                <5>4. EffectiveParent(n, Top(u)) = Inmost
                    BY <1>4, <3>5, <5>2
                <5>5. label.kind = "model" /\ label.note = status
                    BY <5>1
                <5> HIDE DEF label
                <5>6. made.parent = Inmost /\ made.label = label
                    BY <5>4
                <5> HIDE DEF made
                <5> QED BY <5>3, <5>5, <5>6
            <4>2. /\ \A p, kind : Below(later, p, kind) = Below(tree, p, kind) \cup
                        (IF span.parent = p /\ span.label.kind = kind THEN {n} ELSE {})
                  /\ \A m \in DOMAIN tree : later[m] = tree[m] /\ m # n
                  /\ later[n] = span /\ \A p, kind : n \notin Below(tree, p, kind)
                BY <1>2, <2>1, <4>1, AddedBelow
            <4>3. Below(later, Inmost, "model") = B \cup {n} /\ n \notin B
                <5>1. Below(later, Inmost, "model") = B \cup
                        (IF span.parent = Inmost /\ span.label.kind = "model" THEN {n} ELSE {})
                    BY <4>2
                <5> QED BY <4>1, <4>2, <5>1
            <4>4. \A m \in B : later[m] = tree[m]
                BY <4>2 DEF Below
            <4>5. \A m \in Below(later, Inmost, "model") : later[m].label.note \in AsksAgain
                BY <3>1, <3>2, <4>1, <4>2, <4>3, <4>4
            <4>6. Cardinality(Below(later, Inmost, "model")) = Cardinality(B) + 1
                BY <3>3, <4>3, OneMore
            <4>7. Invalid(later, Inmost) = I \cup IF status = "output_invalid" THEN {n} ELSE {}
                BY <4>1, <4>2, <4>3, <4>4 DEF Invalid
            <4>8. n \notin I
                BY <4>3 DEF Invalid
            <4>9. Cardinality(Invalid(later, Inmost))
                     <= Cardinality(I) + IF status = "output_invalid" THEN 1 ELSE 0
                <5>1. CASE status = "output_invalid"
                    BY <3>3, <4>7, <4>8, <5>1, OneMore
                <5>2. CASE status # "output_invalid"
                    <6>1. Invalid(later, Inmost) = I
                        BY <4>7, <5>2
                    <6> QED BY <3>3, <5>2, <6>1
                <5> QED BY <5>1, <5>2
            <4> QED BY <3>3, <4>5, <4>6, <4>9
        <3> QED BY <3>4, <3>5
    <2> HIDE DEF B, I
    <2>3. /\ chat.attempt \in 0..MaxAttempts /\ chat.repaired \in BOOLEAN
          /\ chat = [attempt |-> chat.attempt, repaired |-> chat.repaired]
          /\ MaxAttempts \in 1..3
        BY DEF TraceInv, ControlTyped, CallsAssumption
    <2>4. /\ chat.repaired => Repairs = 1
          /\ Inmost # 0 =>
                /\ Cardinality(B) <= (chat.attempt - 1) + IF chat.repaired THEN MaxAttempts ELSE 0
                /\ Cardinality(I) <= IF chat.repaired THEN 1 ELSE 0
        BY <1>2 DEF Exchange, B, I
    <2>5. CASE MayRetry(status)
        <3>1. chat'.attempt = chat.attempt + 1 /\ chat'.repaired = chat.repaired
            BY <1>7, <2>3, <2>5
        <3>2. status # "output_invalid"
            BY <2>5 DEF MayRetry, Transient
        <3>3. ASSUME Inmost # 0
              PROVE  /\ Cardinality(Below(later, Inmost, "model"))
                           <= (chat'.attempt - 1) + IF chat'.repaired THEN MaxAttempts ELSE 0
                     /\ Cardinality(Invalid(later, Inmost)) <= IF chat'.repaired THEN 1 ELSE 0
            <4>1. PICK b, i, x, y : /\ b = Cardinality(B) /\ i = Cardinality(I)
                                    /\ x = Cardinality(Below(later, Inmost, "model"))
                                    /\ y = Cardinality(Invalid(later, Inmost))
                OBVIOUS
            <4>2. x <= b + 1 /\ y <= i + 0 /\ b \in Nat /\ i \in Nat
                BY <2>2, <3>2, <3>3, <4>1
            <4>3. x \in Int /\ y \in Int
                <5>1. TreeOf(later, w.collector) /\ CollectorOK(w.collector)
                    BY <1>5 DEF Sound, ViewOK
                <5> QED BY <4>1, <5>1, FewBelow
            <4>4. /\ b <= (chat.attempt - 1) + IF chat.repaired THEN MaxAttempts ELSE 0
                  /\ i <= IF chat.repaired THEN 1 ELSE 0
                BY <2>4, <3>3, <4>1
            <4>5. /\ x <= ((chat.attempt + 1) - 1) + IF chat.repaired THEN MaxAttempts ELSE 0
                  /\ y <= IF chat.repaired THEN 1 ELSE 0
                BY <2>3, <4>2, <4>3, <4>4
            <4> QED BY <3>1, <4>1, <4>5
        <3> QED BY <1>11, <2>2, <2>4, <3>1, <3>3 DEF Exchange
    <2>6. CASE ~MayRetry(status)
        <3>1. chat'.attempt = 1 /\ chat'.repaired = TRUE /\ ~chat.repaired /\ Repairs = 1
              /\ status = "output_invalid"
            BY <1>7, <2>6 DEF MayRepair
        <3>2. ASSUME Inmost # 0
              PROVE  /\ Cardinality(Below(later, Inmost, "model")) <= (1 - 1) + MaxAttempts
                     /\ Cardinality(Invalid(later, Inmost)) <= 1
            <4>1. PICK b, i, x, y : /\ b = Cardinality(B) /\ i = Cardinality(I)
                                    /\ x = Cardinality(Below(later, Inmost, "model"))
                                    /\ y = Cardinality(Invalid(later, Inmost))
                OBVIOUS
            <4>2. x <= b + 1 /\ y <= i + 1 /\ b \in Nat /\ i \in Nat
                BY <2>2, <3>1, <3>2, <4>1
            <4>3. x \in Int /\ y \in Int
                <5>1. TreeOf(later, w.collector) /\ CollectorOK(w.collector)
                    BY <1>5 DEF Sound, ViewOK
                <5> QED BY <4>1, <5>1, FewBelow
            <4>4. b <= chat.attempt - 1 /\ i <= 0
                BY <2>3, <2>4, <3>1, <3>2, <4>1
            <4> QED BY <2>3, <4>1, <4>2, <4>3, <4>4
        <3> QED BY <1>11, <2>2, <3>1, <3>2 DEF Exchange
    <2> QED BY <2>5, <2>6
<1>13. UnderWay(later)'
    BY <1>6, <1>7, <1>12 DEF UnderWay, BatchSoFar, CallSoFar, NoneCalling
<1> QED BY <1>4, <1>5, <1>8, <1>9, <1>10, <1>13, Settles

\* The exchange is over: its turn is left.
LEMMA AnsweredTree ==
    ASSUME CallsAssumption, TraceInv, FamilyInv, phase \in {"planning", "auditing"},
           NEW status \in CallStatuses
    PROVE  \E later : /\ Sound(later, Answered(status))
                      /\ Family(later, Answered(status).collector.dropped)
                      /\ Answered(status).task = Main /\ Working(Answered(status).stack)
<1>1. PICK u : u = View(Main) /\ u.collector = collector /\ u.task = Main /\ u.stack = open[Main]
    BY MainTree
<1>2. PICK tree : /\ Sound(tree, u) /\ Family(tree, u.collector.dropped) /\ TreeOf(tree, collector)
                  /\ Exchange(tree)
    BY <1>1, MainTree DEF UnderWay
<1>3. PICK v, st, w : /\ v = Measured(u, status) /\ st \in {"ok", "error"}
                      /\ w = LeaveNoted(v, st, "none") /\ w = Answered(status)
    BY <1>1 DEF Answered, Leave
<1>4. PICK mid, n : Records(tree, u, mid, v, n, status) /\ Family(mid, v.collector.dropped)
    BY <1>1, <1>2, <1>3, AnswerFits
<1>5. Sound(mid, v) /\ v.task = Main /\ v.stack = open[Main]
    BY <1>1, <1>4 DEF Records, LeadsOn
<1>6. /\ Len(open[Main]) = 3 /\ DOMAIN open[Main] = 1..3 /\ open[Main] # <<>>
      /\ open[Main][1].label = Label("run", Main) /\ open[Main][2].label = Label("workflow", Main)
      /\ open[Main][3].label.kind # "batch"
    <2>1. Sound(tree, View(Main))
        BY <1>1, <1>2
    <2> QED BY <2>1, ThreeOpen DEF Label
<1>7. PICK later : Left(mid, v, later, w, 2, st)
    <2>1. st \in SpanStatuses /\ "none" \in Codes
        BY <1>3 DEF SpanStatuses, Codes
    <2>2. v.stack # <<>> /\ Len(v.stack) - 1 = 2
        BY <1>5, <1>6
    <2>3. \E later : Left(mid, v, later, LeaveNoted(v, st, "none"), Len(v.stack) - 1, st)
        BY <1>5, <2>1, <2>2, LeaveTree
    <2> QED BY <1>3, <2>2, <2>3
<1>8. Family(later, w.collector.dropped)
    <2>1. \A i \in 3..Len(v.stack) : v.stack[i].label.kind # "batch"
        BY <1>5, <1>6
    <2>2. 2 \in 0..Len(v.stack) /\ st \in SpanStatuses
        BY <1>3, <1>5, <1>6 DEF SpanStatuses
    <2> QED BY <1>4, <1>5, <1>7, <2>1, <2>2, FamilyLeft
<1>9. Sound(later, w) /\ w.task = Main /\ Working(w.stack)
    BY <1>5, <1>6, <1>7 DEF Left, LeadsOn, Working
<1> QED BY <1>3, <1>8, <1>9

\* What the task does next.
LEMMA TurnFamily ==
    ASSUME CallsAssumption, TraceInv, FamilyInv, NoneCalling,
           NEW mid, NEW v, Sound(mid, v), v.task = Main, Working(v.stack),
           Family(mid, v.collector.dropped), saved = <<>>,
           Planning(v) \/ Decides(v) \/ Auditing(v)
    PROVE  FamilyInv'
<1>1. \A kind \in Kinds : Enter(v, kind).task = Main
    BY EnterTree DEF Entered, LeadsOn
<1>2. CASE Planning(v)
    <2>1. /\ Becomes(Enter(v, "decision")) /\ phase' = "planning" /\ chat' = FirstRequest
          /\ saved' = <<>> /\ \A s \in Slots : slots'[s].state # "calling"
        BY <1>2 DEF Planning, NoSlot
    <2>2. Alone(Enter(v, "decision"))
        BY <1>1, <2>1, IdleAlone DEF Kinds
    <2> QED BY <2>1, <2>2, NextTurn
<1>3. CASE Auditing(v)
    <2>1. /\ Becomes(Enter(v, "review")) /\ phase' = "auditing" /\ chat' = FirstRequest
          /\ saved' = <<>> /\ \A s \in Slots : slots'[s].state # "calling"
        BY <1>3 DEF Auditing, NoSlot
    <2>2. Alone(Enter(v, "review"))
        BY <1>1, <2>1, IdleAlone DEF Kinds
    <2> QED BY <2>1, <2>2, NextTurn
<1>4. CASE Decides(v) /\ ~Auditing(v)
    <2>1. /\ Becomes(Enter(v, "batch")) /\ phase' = "acting" /\ saved' = <<>>
          /\ \A s \in Slots : slots'[s].state # "calling"
        BY <1>4 DEF Decides, NoSlot
    <2>2. Alone(Enter(v, "batch"))
        BY <1>1, <2>1, IdleAlone DEF Kinds
    <2> QED BY <2>1, <2>2, NextTurn
<1> QED BY <1>2, <1>3, <1>4

LEMMA CompletesFamily ==
    ASSUME CallsAssumption, TraceInv, FamilyInv, TraceInv', NoneCalling,
           NEW mid, NEW v, Sound(mid, v), v.task = Main, Working(v.stack),
           Family(mid, v.collector.dropped), Completes(v)
    PROVE  FamilyInv'
<1>1. PICK w : w = Unwound(v, 0, "ok")
    OBVIOUS
<1>2. /\ Becomes(w) /\ phase' = "completed" /\ saved' = Snapshot(w.collector)
      /\ \A s \in Slots : slots'[s].state # "calling"
    BY <1>1 DEF Completes, NoneCalling
<1>3. DOMAIN v.stack = 1..2
    BY LenProperties DEF Working, Sound, ViewOK
<1>4. Alone(w)
    <2>1. 0 \in 0..Len(v.stack) /\ "ok" \in SpanStatuses
        BY DEF Working, SpanStatuses
    <2>2. w.task = Main
        BY <1>1, <2>1, UnwoundTree DEF Left, LeadsOn
    <2> QED BY <1>2, <2>2, IdleAlone
<1>5. \A i \in DOMAIN v.stack : v.stack[i].label.kind # "batch"
    BY <1>3 DEF Working, Label
<1> QED BY <1>1, <1>2, <1>4, <1>5, RunEnds

LEMMA PlannerFamily ==
    ASSUME CallsAssumption, TraceInv, FamilyInv, TraceInv', NEW answer, PlannerReplies(answer)
    PROVE  FamilyInv'
<1>1. phase = "planning" /\ NoneCalling /\ saved = <<>>
    BY DEF PlannerReplies, TraceInv, PhasesFit, NoneCalling, FamilyInv, SavedFits
<1>2. CASE Fails(View(Main), "usage")
    BY <1>1, <1>2, FailsFamily
<1>3. CASE answer \in CallStatuses /\ AnswersAgain(answer)
    BY <1>1, <1>3, AgainFamily
<1>4. CASE answer \in CallStatuses /\ (Decides(Answered(answer)) \/ Auditing(Answered(answer)))
    BY <1>1, <1>4, AnsweredTree, TurnFamily
<1>5. AgentErrors \subseteq CallStatuses /\ "succeeded" \in CallStatuses
    BY DEF CallStatuses
<1> QED BY <1>2, <1>3, <1>4, <1>5 DEF PlannerReplies

LEMMA AuditorFamily ==
    ASSUME CallsAssumption, TraceInv, FamilyInv, TraceInv', NEW answer, AuditorReplies(answer)
    PROVE  FamilyInv'
<1>1. phase = "auditing" /\ NoneCalling
    BY DEF AuditorReplies, TraceInv, PhasesFit, NoneCalling
<1>2. CASE Fails(View(Main), "usage")
    BY <1>1, <1>2, FailsFamily
<1>3. CASE answer \in CallStatuses /\ AnswersAgain(answer)
    BY <1>1, <1>3, AgainFamily
<1>4. CASE answer \in CallStatuses /\ Completes(Answered(answer))
    BY <1>1, <1>4, AnsweredTree, CompletesFamily
<1> QED BY <1>2, <1>3, <1>4 DEF AuditorReplies

\* A batch that went well has calls that did.
LEMMA BatchEndsFamily ==
    ASSUME CallsAssumption, TraceInv, FamilyInv, TraceInv', BatchEnds
    PROVE  FamilyInv'
<1>1. phase = "acting" /\ \A s \in Slots : slots[s].state \notin {"created", "calling"}
    BY DEF BatchEnds
<1>2. NoneCalling
    BY <1>1 DEF NoneCalling
<1>3. CASE Fails(View(Main), "tool")
    BY <1>2, <1>3, FailsFamily
<1>4. ASSUME NEW status \in {"ok", "error"}, Planning(Leave(View(Main), status)),
             status = "ok" => \A s \in Slots : slots[s].state \notin {"error", "raised"}
      PROVE  FamilyInv'
    <2>1. PICK u : u = View(Main) /\ u.collector = collector /\ u.task = Main /\ u.stack = open[Main]
        BY MainTree
    <2>2. PICK tree : Sound(tree, u) /\ Family(tree, u.collector.dropped) /\ BatchSoFar(tree)
                      /\ TreeOf(tree, collector)
        BY <2>1, MainTree DEF UnderWay
    <2>3. PICK w : w = LeaveNoted(u, status, "none") /\ w = Leave(View(Main), status)
        BY <2>1 DEF Leave
    <2>4. /\ Len(open[Main]) = 3 /\ DOMAIN open[Main] = 1..3 /\ open[Main] # <<>>
          /\ open[Main][1].label = Label("run", Main)
          /\ open[Main][2].label = Label("workflow", Main) /\ saved = <<>>
        <3>1. Sound(tree, View(Main))
            BY <2>1, <2>2
        <3> QED BY <1>1, <3>1, ThreeOpen
    <2>5. PICK later : Left(tree, u, later, w, 2, status)
        <3>1. status \in SpanStatuses /\ "none" \in Codes
            BY DEF SpanStatuses, Codes
        <3>2. u.stack # <<>> /\ Len(u.stack) - 1 = 2
            BY <2>1, <2>4
        <3> QED BY <2>2, <2>3, <3>1, <3>2, LeaveTree
    <2>6. status = "ok" => \A m \in Below(tree, Inmost, "call") : tree[m].status = "ok"
        <3> SUFFICES ASSUME status = "ok", NEW m \in Below(tree, Inmost, "call")
                     PROVE  tree[m].status = "ok"
            OBVIOUS
        <3>1. m \in Of(tree, "call") /\ tree[m].parent = Inmost
            BY DEF Below, Of
        <3>2. Inmost # 0
            <4>1. Inmost \in DOMAIN tree
                BY <2>2, <3>1 DEF Family, Lasting, Nested, Is
            <4>2. CollectorOK(collector)
                BY DEF TraceInv, SpansOK
            <4> QED BY <2>2, <4>1, <4>2, LimitTyped DEF TreeOf
        <3>3. tree[m].label.task \in Slots
            BY <2>2, <3>1, TreeTasks DEF Family, Lasting
        <3>4. /\ slots[tree[m].label.task].state \in {"calling", "ok", "error", "raised"}
              /\ slots[tree[m].label.task].state = "ok" => tree[m].status = "ok"
            BY <1>1, <2>2, <3>2 DEF BatchSoFar
        <3> QED BY <1>1, <1>4, <3>3, <3>4
    <2>7. Family(later, w.collector.dropped)
        <3>1. status = "ok" => \A i \in 3..Len(u.stack) : u.stack[i].label.kind = "batch" =>
                                  \A m \in Below(tree, u.stack[i].number, "call") : tree[m].status = "ok"
            BY <2>1, <2>4, <2>6 DEF Inmost
        <3>2. 2 \in 0..Len(u.stack) /\ status \in SpanStatuses
            BY <2>1, <2>4 DEF SpanStatuses
        <3> QED BY <2>1, <2>2, <2>5, <3>1, <3>2, FamilyLeft
    <2>8. Sound(later, w) /\ w.task = Main /\ Working(w.stack)
        BY <2>1, <2>4, <2>5 DEF Left, LeadsOn, Working
    <2>9. Planning(w) /\ saved = <<>>
        BY <1>4, <2>3, <2>4
    <2> QED BY <1>2, <2>7, <2>8, <2>9, TurnFamily
<1>5. (IF \E s \in Slots : slots[s].state = "error" THEN "error" ELSE "ok") \in {"ok", "error"}
    OBVIOUS
<1> QED BY <1>3, <1>4, <1>5 DEF BatchEnds

-----------------------------------------------------------------------------
(* The calls of a batch, each a task of its own.                           *)

\* The spans a task leaves are its own.
LEMMA InnerLabels ==
    ASSUME CallsAssumption, NEW tree, NEW v, Sound(tree, v), NEW depth \in 0..Len(v.stack)
    PROVE  \A n \in Inner(v.stack, depth) :
              /\ n \in DOMAIN tree /\ tree[n].label.task = v.task
              /\ \E i \in (depth + 1)..Len(v.stack) :
                    n = v.stack[i].number /\ tree[n].label = v.stack[i].label
<1>1. Len(v.stack) \in Nat /\ DOMAIN v.stack = 1..Len(v.stack)
    BY LenProperties DEF Sound, ViewOK
<1>2. \A i \in (depth + 1)..Len(v.stack) : i \in DOMAIN v.stack
    BY <1>1
<1>3. ASSUME NEW i \in DOMAIN v.stack, v.stack[i].number # 0
      PROVE  /\ v.stack[i].number \in DOMAIN tree
             /\ tree[v.stack[i].number].label = v.stack[i].label
             /\ v.stack[i].label.task = v.task
    <2>1. OpenIn(tree, v.collector, v.stack[i]) /\ v.stack[i].label.task = v.task
        BY DEF Sound
    <2> QED BY <1>3, <2>1 DEF OpenIn, Opening
<1> QED BY <1>2, <1>3 DEF Inner

\* What one task does to the tree leaves the spans of the others as they were.
Beside(tree, later, task) ==
    /\ \A n \in DOMAIN tree : /\ n \in DOMAIN later /\ SameSpan(later[n], tree[n])
                              /\ tree[n].label.task # task => later[n] = tree[n]
    /\ \A n \in DOMAIN later : n \in DOMAIN tree \/ later[n].label.task = task

LEMMA BesideEntered ==
    ASSUME NEW tree, NEW v, NEW later, NEW w, NEW n, NEW kind, Entered(tree, v, later, w, n, kind)
    PROVE  Beside(tree, later, v.task)
<1>1. CASE n = 0
    BY <1>1 DEF Entered, Beside, SameSpan
<1>2. CASE n # 0
    <2>1. PICK span : Adds(tree, later, n, span) /\ span.label.task = v.task
        BY <1>2 DEF Entered, Label
    <2> QED BY <2>1 DEF Adds, Beside, SameSpan
<1> QED BY <1>1, <1>2

LEMMA BesideLeft ==
    ASSUME CallsAssumption, NEW tree, NEW v, Sound(tree, v), NEW depth \in 0..Len(v.stack),
           NEW later, NEW w, NEW status, Left(tree, v, later, w, depth, status)
    PROVE  Beside(tree, later, v.task)
<1>1. Closes(tree, later, Inner(v.stack, depth), status)
    BY DEF Left
<1>2. \A n \in Inner(v.stack, depth) : n \in DOMAIN tree /\ tree[n].label.task = v.task
    BY InnerLabels
<1> QED BY <1>1, <1>2 DEF Closes, Beside, SameSpan

LEMMA BesideTwice ==
    ASSUME NEW t0, NEW t1, NEW t2, NEW task, Beside(t0, t1, task), Beside(t1, t2, task)
    PROVE  Beside(t0, t2, task)
BY DEF Beside, SameSpan

\* The attempts of the other calls, and the calls of the other slots.
LEMMA OthersKept ==
    ASSUME NEW tree, Nested(tree), NEW later, Nested(later), NEW task, Beside(tree, later, task)
    PROVE  /\ \A p \in Of(tree, "call") : tree[p].label.task # task =>
                 /\ Below(later, p, "attempt") = Below(tree, p, "attempt")
                 /\ \A m \in Below(tree, p, "attempt") : later[m] = tree[m]
           /\ \A p : \A n \in Below(later, p, "call") : later[n].label.task # task =>
                 n \in Below(tree, p, "call") /\ later[n] = tree[n]
<1>1. ASSUME NEW p \in Of(tree, "call"), tree[p].label.task # task
      PROVE  /\ \A m \in Below(tree, p, "attempt") : later[m] = tree[m]
             /\ Below(later, p, "attempt") = Below(tree, p, "attempt")
    <2>1. later[p] = tree[p] /\ p \in DOMAIN tree
        BY <1>1 DEF Beside, Of
    <2>2. ASSUME NEW m \in Below(tree, p, "attempt")
          PROVE  later[m] = tree[m] /\ m \in Below(later, p, "attempt")
        <3>1. m \in Of(tree, "attempt") /\ tree[m].parent = p
            BY DEF Below, Of
        <3>2. tree[m].label.task = tree[p].label.task
            BY <3>1 DEF Nested
        <3>3. later[m] = tree[m] /\ m \in DOMAIN later
            BY <1>1, <3>1, <3>2 DEF Beside, Of
        <3> QED BY <3>1, <3>3 DEF Below, Of
    <2>3. ASSUME NEW m \in Below(later, p, "attempt")
          PROVE  m \in Below(tree, p, "attempt")
        <3>1. m \in Of(later, "attempt") /\ later[m].parent = p
            BY DEF Below, Of
        <3>2. later[m].label.task = tree[p].label.task
            BY <2>1, <3>1 DEF Nested
        <3>3. m \in DOMAIN tree
            BY <1>1, <3>1, <3>2 DEF Beside, Of
        <3> QED BY <3>1, <3>3 DEF Beside, SameSpan, Below, Of
    <2> QED BY <2>2, <2>3
<1>2. ASSUME NEW p, NEW n \in Below(later, p, "call"), later[n].label.task # task
      PROVE  n \in Below(tree, p, "call") /\ later[n] = tree[n]
    <2>1. n \in DOMAIN tree
        BY <1>2 DEF Beside, Below
    <2>2. tree[n].label.task # task
        BY <1>2, <2>1 DEF Beside, SameSpan
    <2> QED BY <2>1, <2>2 DEF Beside, Below
<1> QED BY <1>1, <1>2

\* What holds once a call has made its step.
LEMMA CallTree ==
    ASSUME CallsAssumption, TraceInv, FamilyInv, NEW tree, AllOpen(tree), NEW s \in Slots,
           NEW later, NEW w, LeadsOn(tree, View(s), later, w), Becomes(w)
    PROVE  /\ TreeOf(later, collector)' /\ AllOpen(later)' /\ Orderly'
           /\ collector' = w.collector /\ open'[s] = w.stack
           /\ open'[Main] = open[Main] /\ \A u \in Slots \ {s} : open'[u] = open[u]
<1>1. /\ open \in [Tasks -> Seq(Frames(collector))] /\ s \in Tasks /\ s # Main /\ Main \in Tasks
      /\ \A u \in Slots : u \in Tasks /\ u # Main
    BY DEF TraceInv, SpansOK, Tasks, Slots, Main
<1>2. View(s) = [collector |-> collector, stack |-> open[s], task |-> s, outer |-> open[Main]]
    <2>1. SpansOK
        BY DEF TraceInv
    <2> QED BY <1>1, <2>1, ViewTyped
<1>3. Sound(later, w) /\ w.task = s /\ w.outer = open[Main]
    BY <1>2 DEF LeadsOn
<1>4. collector' = w.collector /\ open' = [open EXCEPT ![s] = w.stack]
    BY <1>3 DEF Becomes
<1>5. open'[s] = w.stack /\ \A u \in Tasks \ {s} : open'[u] = open[u]
    BY <1>1, <1>4
<1>6. AllOpen(later)'
    <2>1. ASSUME NEW u \in Tasks, NEW i \in DOMAIN open'[u]
          PROVE  OpenIn(later, collector', open'[u][i])
        <3>1. CASE u = s
            BY <1>3, <1>4, <1>5, <3>1 DEF Sound
        <3>2. CASE u # s
            <4>1. open'[u] = open[u] /\ OpenIn(tree, collector, open[u][i])
                BY <1>5, <3>2 DEF AllOpen
            <4>2. open[u][i].label.task = u
                <5>1. \A kind, t : Label(kind, t).task = t
                    BY DEF Label
                <5>2. u = Main \/ u \in Slots
                    BY DEF Tasks
                <5> QED BY <4>1, <5>1, <5>2 DEF FamilyInv, Named
            <4>3. View(s).task = s /\ View(s).collector = collector
                BY <1>2
            <4>4. OpenIn(later, w.collector, open[u][i])
                BY <3>2, <4>1, <4>2, <4>3 DEF LeadsOn
            <4> QED BY <1>4, <4>1, <4>4
        <3> QED BY <3>1, <3>2
    <2> QED BY <2>1 DEF AllOpen
<1>7. Orderly'
    <2>1. Ascends(open'[Main])
        BY <1>1, <1>5 DEF FamilyInv, Orderly
    <2>2. ASSUME NEW u \in Slots
          PROVE  Ascends(open'[u]) /\ Within(open'[u], open'[Main])
        <3>1. CASE u = s
            BY <1>1, <1>3, <1>5, <3>1 DEF Sound
        <3>2. CASE u # s
            BY <1>1, <1>5, <3>2 DEF FamilyInv, Orderly
        <3> QED BY <3>1, <3>2
    <2> QED BY <2>1, <2>2 DEF Orderly
<1>8. TreeOf(later, collector)'
    BY <1>3, <1>4 DEF Sound
<1> QED BY <1>1, <1>4, <1>5, <1>6, <1>7, <1>8

\* The batch and the calls under way, once one of them has made its step.
LEMMA CallKeeps ==
    ASSUME CallsAssumption, TraceInv, FamilyInv, phase = "acting", phase' = "acting",
           NEW tree, AllOpen(tree), UnderWay(tree), Nested(tree), NEW s \in Slots,
           NEW later, Nested(later), Beside(tree, later, s), open'[Main] = open[Main],
           \A u \in Slots \ {s} : open'[u] = open[u] /\ slots'[u] = slots[u],
           Inmost # 0 => \A n \in Below(later, Inmost, "call") : later[n].label.task = s =>
              /\ slots'[s].state \in {"calling", "ok", "error", "raised"}
              /\ slots'[s].state = "ok" => later[n].status = "ok"
              /\ slots'[s].state = "calling" => n = open'[s][1].number,
           slots'[s].state = "calling" /\ open'[s][1].number # 0 =>
              /\ \A m \in Below(later, open'[s][1].number, "attempt") :
                    m = open'[s][2].number \/ later[m].label.note \in Retryable
              /\ Cardinality(Below(later, open'[s][1].number, "attempt")) <= slots'[s].attempt
    PROVE  UnderWay(later)'
<1>1. Inmost' = Inmost
    BY DEF Inmost
<1>2. BatchSoFar(later)'
    <2>1. ASSUME Inmost # 0, NEW n \in Below(later, Inmost, "call")
          PROVE  LET u == later[n].label.task
                 IN  /\ slots'[u].state \in {"calling", "ok", "error", "raised"}
                     /\ slots'[u].state = "ok" => later[n].status = "ok"
                     /\ slots'[u].state = "calling" => n = open'[u][1].number
        <3>1. CASE later[n].label.task = s
            BY <2>1, <3>1
        <3>2. CASE later[n].label.task # s
            <4>1. n \in Below(tree, Inmost, "call") /\ later[n] = tree[n]
                BY <2>1, <3>2, OthersKept
            <4>2. PICK u : u = tree[n].label.task /\ u \in Slots \ {s}
                BY <3>2, <4>1, TreeTasks DEF Below, Of
            <4>3. /\ slots[u].state \in {"calling", "ok", "error", "raised"}
                  /\ slots[u].state = "ok" => tree[n].status = "ok"
                  /\ slots[u].state = "calling" => n = open[u][1].number
                BY <2>1, <4>1, <4>2 DEF UnderWay, BatchSoFar
            <4> QED BY <4>1, <4>2, <4>3
        <3> QED BY <3>1, <3>2
    <2> QED BY <1>1, <2>1 DEF BatchSoFar
<1>3. CallSoFar(later)'
    <2>1. ASSUME NEW u \in Slots, slots'[u].state = "calling", open'[u][1].number # 0
          PROVE  /\ \A m \in Below(later, open'[u][1].number, "attempt") :
                       m = open'[u][2].number \/ later[m].label.note \in Retryable
                 /\ Cardinality(Below(later, open'[u][1].number, "attempt")) <= slots'[u].attempt
        <3>1. CASE u = s
            BY <2>1, <3>1
        <3>2. CASE u # s
            <4>1. open'[u] = open[u] /\ slots'[u] = slots[u]
                BY <3>2
            <4>2. PICK p : p = open[u][1].number /\ p # 0
                BY <2>1, <4>1
            <4>3. p \in Of(tree, "call") /\ tree[p].label.task = u
                <5>1. u \in Tasks /\ 1 \in DOMAIN open[u]
                    <6>1. Len(open[u]) = 2
                        BY <2>1, <4>1 DEF TraceInv, StacksFit
                    <6>2. u \in Tasks
                        BY DEF Tasks
                    <6> QED BY <6>1, <6>2, LenProperties DEF TraceInv, SpansOK
                <5>2. OpenIn(tree, collector, open[u][1])
                    BY <5>1 DEF AllOpen
                <5>3. open[u][1].label = Label("call", u)
                    BY <5>1 DEF FamilyInv, Named
                <5>4. p \in DOMAIN tree /\ tree[p].label = Label("call", u)
                    BY <4>2, <5>2, <5>3 DEF OpenIn, Opening
                <5> QED BY <5>4 DEF Of, Label
            <4>4. /\ Below(later, p, "attempt") = Below(tree, p, "attempt")
                  /\ \A m \in Below(tree, p, "attempt") : later[m] = tree[m]
                BY <3>2, <4>3, OthersKept
            <4>5. /\ \A m \in Below(tree, p, "attempt") :
                        m = open[u][2].number \/ tree[m].label.note \in Retryable
                  /\ Cardinality(Below(tree, p, "attempt")) <= slots[u].attempt
                BY <2>1, <4>1, <4>2 DEF UnderWay, CallSoFar
            <4> QED BY <4>1, <4>2, <4>4, <4>5
        <3> QED BY <3>1, <3>2
    <2> QED BY <2>1 DEF CallSoFar
<1>4. Exchange(later)'
    BY DEF Exchange
<1> QED BY <1>2, <1>3, <1>4 DEF UnderWay

LEMMA CallSettles ==
    ASSUME CallsAssumption, TraceInv, FamilyInv, phase = "acting", phase' = "acting",
           saved' = saved, NEW tree, AllOpen(tree), NEW s \in Slots,
           NEW later, NEW w, LeadsOn(tree, View(s), later, w), Becomes(w),
           Family(later, w.collector.dropped), UnderWay(later)',
           \A i \in DOMAIN w.stack : w.stack[i].label = Label(<<"call", "attempt">>[i], s)
    PROVE  FamilyInv'
<1>1. /\ TreeOf(later, collector)' /\ AllOpen(later)' /\ Orderly'
      /\ collector' = w.collector /\ open'[s] = w.stack
      /\ open'[Main] = open[Main] /\ \A u \in Slots \ {s} : open'[u] = open[u]
    BY CallTree
<1>2. Named'
    <2>1. \A i \in DOMAIN open'[Main] : open'[Main][i].label = Label(Around(phase')[i], Main)
        BY <1>1 DEF FamilyInv, Named
    <2>2. \A u \in Slots : \A i \in DOMAIN open'[u] :
             open'[u][i].label = Label(<<"call", "attempt">>[i], u)
        BY <1>1 DEF FamilyInv, Named
    <2> QED BY <2>1, <2>2 DEF Named
<1>3. SavedFits'
    BY DEF FamilyInv, SavedFits
<1>4. Family(later, collector.dropped)'
    BY <1>1
<1> QED BY <1>1, <1>2, <1>3, <1>4 DEF FamilyInv

\* The spans of a call under way.
LEMMA CallOpens ==
    ASSUME CallsAssumption, TraceInv, FamilyInv, NEW tree, TreeOf(tree, collector), AllOpen(tree),
           NEW s \in Slots
    PROVE  /\ View(s).collector = collector /\ View(s).stack = open[s] /\ View(s).task = s
           /\ View(s).outer = open[Main] /\ Sound(tree, View(s))
           /\ slots[s].state # "calling" => Len(open[s]) = 0 /\ open[s] = <<>>
           /\ slots[s].state = "calling" =>
                 /\ Len(open[s]) = 2 /\ DOMAIN open[s] = 1..2 /\ open[s] # <<>>
                 /\ open[s][1].label = Label("call", s) /\ open[s][2].label = Label("attempt", s)
                 /\ OpenIn(tree, collector, open[s][1]) /\ OpenIn(tree, collector, open[s][2])
<1>1. /\ SpansOK /\ s \in Tasks /\ s # Main
    BY DEF TraceInv, Tasks, Slots, Main
<1>2. View(s) = [collector |-> collector, stack |-> open[s], task |-> s, outer |-> open[Main]]
    BY <1>1, ViewTyped
<1>3. Sound(tree, View(s))
    BY <1>1, ViewSound DEF FamilyInv
<1>4. open[s] \in Seq(Frames(collector))
    BY <1>1 DEF SpansOK
<1>5. Len(open[s]) = IF slots[s].state = "calling" THEN 2 ELSE 0
    BY DEF TraceInv, StacksFit
<1>6. slots[s].state # "calling" => open[s] = <<>>
    BY <1>4, <1>5, EmptySeq
<1>7. ASSUME slots[s].state = "calling"
      PROVE  /\ DOMAIN open[s] = 1..2 /\ open[s] # <<>>
             /\ open[s][1].label = Label("call", s) /\ open[s][2].label = Label("attempt", s)
             /\ OpenIn(tree, collector, open[s][1]) /\ OpenIn(tree, collector, open[s][2])
    <2>1. DOMAIN open[s] = 1..2
        BY <1>4, <1>5, <1>7, LenProperties
    <2>2. open[s] # <<>>
        <3>1. Len(<<>>) = 0
            BY EmptySeq
        <3> QED BY <1>5, <1>7, <3>1
    <2>3. \A i \in 1..2 : open[s][i].label = Label(<<"call", "attempt">>[i], s)
        BY <2>1 DEF FamilyInv, Named
    <2>4. \A i \in 1..2 : OpenIn(tree, collector, open[s][i])
        BY <1>1, <2>1 DEF AllOpen
    <2> QED BY <2>1, <2>2, <2>3, <2>4
<1> QED BY <1>2, <1>3, <1>5, <1>6, <1>7

\* A span that is not over is held by its task.
LEMMA HeldByItsTask ==
    ASSUME CallsAssumption, TraceInv, FamilyInv, NEW tree, TreeOf(tree, collector), AllOpen(tree),
           NEW n \in DOMAIN tree, tree[n].status = "open"
    PROVE  \E t \in Tasks : /\ t = tree[n].label.task /\ n # 0
                            /\ \E i \in DOMAIN open[t] :
                                  n = open[t][i].number /\ tree[n].label = open[t][i].label
<1>1. n \notin DOMAIN collector.completed /\ n \in 1..(collector.next - 1)
    BY DEF TreeOf, SpanStatuses
<1>2. PICK t \in Tasks : n \in Numbers(open[t])
    BY <1>1 DEF TraceInv, NothingForgotten
<1>3. PICK i \in DOMAIN open[t] : n = open[t][i].number
    BY <1>2 DEF Numbers
<1>4. n # 0
    <2>1. CollectorOK(collector)
        BY DEF TraceInv, SpansOK
    <2> QED BY <1>1, <2>1, LimitTyped
<1>5. tree[n].label = open[t][i].label
    <2>1. OpenIn(tree, collector, open[t][i])
        BY DEF AllOpen
    <2> QED BY <1>3, <1>4, <2>1 DEF OpenIn, Opening
<1>6. open[t][i].label.task = t
    <2>1. \A kind, u : Label(kind, u).task = u
        BY DEF Label
    <2>2. t = Main \/ t \in Slots
        BY DEF Tasks
    <2> QED BY <2>1, <2>2 DEF FamilyInv, Named
<1> QED BY <1>3, <1>4, <1>5, <1>6

\* While nothing was dropped, an attempt that is not over is that of a call under way.
LEMMA OpenAttempts ==
    ASSUME CallsAssumption, TraceInv, FamilyInv, NEW tree, TreeOf(tree, collector), AllOpen(tree),
           Lasting(tree), CallsEndWithLast(tree, 0),
           NEW x \in Of(tree, "attempt"), tree[x].status = "open"
    PROVE  LET s == tree[x].label.task
           IN  /\ s \in Slots /\ slots[s].state = "calling"
               /\ x # 0 /\ x = open[s][2].number
               /\ tree[x].parent # 0 /\ tree[x].parent = open[s][1].number
<1>1. PICK s, k : s = tree[x].label.task /\ k = tree[x].parent
    OBVIOUS
<1>2. x \in DOMAIN tree /\ tree[x].label.kind = "attempt"
    BY DEF Of
<1>3. s \in Slots /\ k \in Of(tree, "call") /\ tree[k].label.task = s
    BY <1>1, TreeTasks DEF Lasting
<1>4. \E i \in DOMAIN open[s] : x = open[s][i].number /\ tree[x].label = open[s][i].label
    BY <1>1, <1>2, HeldByItsTask
<1>5. slots[s].state = "calling"
    <2>1. CASE slots[s].state # "calling"
        <3>1. open[s] = <<>>
            BY <1>3, <2>1, CallOpens
        <3> QED BY <1>4, <3>1
    <2> QED BY <2>1
<1>6. /\ DOMAIN open[s] = 1..2 /\ open[s][1].label.kind = "call"
      /\ open[s][2].label.kind = "attempt"
    <2>1. /\ DOMAIN open[s] = 1..2 /\ open[s][1].label = Label("call", s)
          /\ open[s][2].label = Label("attempt", s)
        BY <1>3, <1>5, CallOpens
    <2> QED BY <2>1 DEF Label
<1>7. x = open[s][2].number
    BY <1>2, <1>4, <1>6
<1>8. tree[k].status = "open"
    <2>1. EndsWithLast(tree, k) /\ x \in Below(tree, k, "attempt")
        BY <1>1, <1>2, <1>3 DEF CallsEndWithLast, Below
    <2>2. PICK last \in Below(tree, k, "attempt") :
             tree[last].status = tree[k].status /\ \A m \in Below(tree, k, "attempt") : m <= last
        BY <2>1 DEF EndsWithLast
    <2>3. CASE x = last
        BY <2>2, <2>3
    <2>4. CASE x # last
        <3>1. last \in Of(tree, "attempt") /\ tree[last].parent = k /\ x <= last
            BY <2>1, <2>2 DEF Below, Of
        <3>2. x \in Nat /\ last \in Nat
            <4>1. CollectorOK(collector)
                BY DEF TraceInv, SpansOK
            <4> QED BY <1>2, <3>1, <4>1, LimitTyped DEF TreeOf, Of
        <3>3. x < last
            BY <2>4, <3>1, <3>2
        <3>4. tree[x].label.note \in Retryable
            BY <1>1, <3>1, <3>3 DEF Lasting, Caused
        <3>5. tree[x].label.note = "none"
            BY <1>2 DEF TreeOf, SpanStatuses
        <3> QED BY <3>4, <3>5, NotesApart
    <2> QED BY <2>3, <2>4
<1>9. \E i \in DOMAIN open[s] : k = open[s][i].number /\ tree[k].label = open[s][i].label
    BY <1>3, <1>8, HeldByItsTask DEF Of
<1>10. k = open[s][1].number
    <2>1. tree[k].label.kind = "call"
        BY <1>3 DEF Of
    <2> QED BY <1>6, <1>9, <2>1
<1>11. x # 0 /\ k # 0
    BY <1>2, <1>3, <1>8, HeldByItsTask DEF Of
<1> QED BY <1>1, <1>3, <1>5, <1>7, <1>10, <1>11

\* A call starts, with its first attempt.
LEMMA CallStartsFamily ==
    ASSUME CallsAssumption, TraceInv, FamilyInv, NEW s \in Slots, CallStarts(s)
    PROVE  FamilyInv'
<1>1. PICK tree : /\ TreeOf(tree, collector) /\ AllOpen(tree) /\ Sound(tree, View(Main))
                  /\ Family(tree, collector.dropped) /\ UnderWay(tree)
    BY MainTree
<1>2. PICK u : /\ u = View(s) /\ u.collector = collector /\ u.stack = open[s] /\ u.task = s
               /\ u.outer = open[Main]
    BY <1>1, CallOpens
<1>3. /\ phase = "acting" /\ slots[s].state = "created" /\ phase' = "acting" /\ saved' = saved
      /\ slots' = [slots EXCEPT ![s] = [state |-> "calling", attempt |-> 1]]
    BY DEF CallStarts
<1>4. Sound(tree, u) /\ u.stack = <<>> /\ Len(u.stack) = 0
    BY <1>1, <1>2, <1>3, CallOpens
<1>5. PICK v, w : v = Enter(u, "call") /\ w = Enter(v, "attempt")
    OBVIOUS
<1>6. PICK mid, m : Entered(tree, u, mid, v, m, "call")
    <2>1. "call" \in Kinds
        BY DEF Kinds
    <2> QED BY <1>4, <1>5, <2>1, EnterTree
<1>7. /\ Sound(mid, v) /\ LeadsOn(tree, u, mid, v) /\ v.task = s /\ Len(v.stack) = 1
      /\ v.stack[1].number = m /\ v.stack[1].label = Label("call", s)
    BY <1>2, <1>4, <1>6 DEF Entered, LeadsOn
<1>8. PICK later, n : Entered(mid, v, later, w, n, "attempt")
    <2>1. "attempt" \in Kinds
        BY DEF Kinds
    <2> QED BY <1>5, <1>7, <2>1, EnterTree
<1>9. /\ Sound(later, w) /\ LeadsOn(mid, v, later, w) /\ Len(w.stack) = 2
      /\ w.stack[1] = v.stack[1] /\ w.stack[2].number = n
      /\ w.stack[2].label = Label("attempt", s)
    BY <1>7, <1>8 DEF Entered, LeadsOn
<1>10. LeadsOn(tree, u, later, w) /\ Becomes(w)
    <2>1. Becomes(w)
        BY <1>2, <1>5 DEF CallStarts
    <2> QED BY <1>7, <1>9, <2>1, LeadsOnTwice
<1>11. /\ open'[s] = w.stack /\ collector' = w.collector /\ open'[Main] = open[Main]
       /\ \A t \in Slots \ {s} : open'[t] = open[t]
    BY <1>1, <1>2, <1>10, CallTree
<1>12. CollectorOK(collector) /\ CollectorOK(v.collector) /\ CollectorOK(w.collector)
       /\ TreeOf(mid, v.collector) /\ TreeOf(later, w.collector)
    BY <1>2, <1>4, <1>7, <1>9 DEF Sound, ViewOK
<1>13. /\ Len(open[Main]) = 3 /\ open[Main] # <<>>
       /\ IF Inmost = 0 THEN collector.next > collector.limit
          ELSE Inmost \in DOMAIN tree /\ tree[Inmost].label = open[Main][3].label
       /\ open[Main][3].label = Label("batch", Main)
    BY <1>1, <1>3, ThreeOpen
<1>14. Top(u) = Inmost
    BY <1>2, <1>4, <1>13 DEF Top, Inmost
<1>15. ASSUME m # 0
       PROVE  /\ Inmost # 0 /\ Inmost \in DOMAIN tree
              /\ v.collector.dropped = collector.dropped
              /\ Adds(tree, mid, m, [parent |-> Inmost, status |-> "open", label |-> Label("call", s)])
    <2>1. /\ collector.next <= collector.limit /\ v.collector.dropped = collector.dropped
          /\ Adds(tree, mid, m, [parent |-> EffectiveParent(m, Inmost), status |-> "open",
                                 label |-> Label("call", s)])
        BY <1>2, <1>6, <1>14, <1>15 DEF Entered
    <2>2. Inmost # 0
        BY <1>12, <1>13, <2>1, LimitTyped
    <2>3. EffectiveParent(m, Inmost) = Inmost
        BY <2>2 DEF EffectiveParent
    <2> QED BY <1>13, <2>1, <2>2, <2>3
<1>16. ASSUME n # 0
       PROVE  /\ m # 0 /\ w.collector.dropped = v.collector.dropped
              /\ Adds(mid, later, n, [parent |-> m, status |-> "open", label |-> Label("attempt", s)])
    <2>1. Top(v) = m
        <3>1. v.stack # <<>>
            <4>1. Len(<<>>) = 0
                BY EmptySeq
            <4> QED BY <1>7, <4>1
        <3> QED BY <1>7, <3>1 DEF Top
    <2>2. /\ v.collector.next <= v.collector.limit /\ w.collector.dropped = v.collector.dropped
          /\ Adds(mid, later, n, [parent |-> EffectiveParent(n, m), status |-> "open",
                                  label |-> Label("attempt", s)])
        BY <1>7, <1>8, <1>16, <2>1 DEF Entered
    <2>3. m # 0
        <3>1. 1 \in DOMAIN v.stack
            BY <1>7, LenProperties DEF Sound, ViewOK
        <3>2. OpenIn(mid, v.collector, v.stack[1])
            BY <1>7, <3>1 DEF Sound
        <3>3. m = 0 => v.collector.next > v.collector.limit
            BY <1>7, <3>2 DEF OpenIn
        <3> QED BY <1>12, <2>2, <3>3, LimitTyped
    <2>4. EffectiveParent(n, m) = m
        BY <2>3 DEF EffectiveParent
    <2> QED BY <2>2, <2>3, <2>4
<1>17. m = 0 => mid = tree /\ v.collector.dropped > 0
    BY <1>6 DEF Entered
<1>18. n = 0 => later = mid /\ w.collector.dropped > 0
    BY <1>8 DEF Entered
<1>19. Lasting(tree) /\ CallsEndWithLast(tree, collector.dropped) /\ BatchesGoWell(tree)
    BY <1>1 DEF Family
<1>20. PICK call, attempt :
          /\ call = [parent |-> Inmost, status |-> "open", label |-> Label("call", s)]
          /\ attempt = [parent |-> m, status |-> "open", label |-> Label("attempt", s)]
          /\ call.parent = Inmost /\ call.status = "open" /\ call.label.kind = "call"
          /\ call.label.task = s /\ attempt.parent = m /\ attempt.status = "open"
          /\ attempt.label.kind = "attempt" /\ attempt.label.task = s
    <2> DEFINE under(p, kind) == [parent |-> p, status |-> "open", label |-> Label(kind, s)]
    <2>1. \A p, kind : /\ under(p, kind).parent = p /\ under(p, kind).status = "open"
                       /\ under(p, kind).label.kind = kind /\ under(p, kind).label.task = s
        BY DEF Label
    <2>2. PICK call, attempt : call = under(Inmost, "call") /\ attempt = under(m, "attempt")
        OBVIOUS
    <2>3. /\ call.parent = Inmost /\ call.status = "open" /\ call.label.kind = "call"
          /\ call.label.task = s
        BY <2>1, <2>2
    <2>4. /\ attempt.parent = m /\ attempt.status = "open" /\ attempt.label.kind = "attempt"
          /\ attempt.label.task = s
        BY <2>1, <2>2
    <2> QED BY <2>2, <2>3, <2>4
<1>21. Lasting(mid) /\ BatchesGoWell(mid)
    <2>1. CASE m = 0
        BY <1>17, <1>19, <2>1
    <2>2. CASE m # 0
        <3>1. Inmost # 0 /\ Inmost \in DOMAIN tree /\ Adds(tree, mid, m, call)
            BY <1>15, <1>20, <2>2
        <3>2. Is(tree, Inmost, "batch")
            BY <1>13, <3>1 DEF Is, Label
        <3>3. \A k \in Below(tree, Inmost, "call") : tree[k].label.task # s
            BY <1>1, <1>3, <3>1 DEF UnderWay, BatchSoFar
        <3>4. Joins(tree, call)
            BY <1>20, <3>2, <3>3 DEF Joins
        <3>5. Lasting(mid)
            BY <1>1, <1>12, <1>19, <3>1, <3>4, LastingAdded
        <3>6. tree[Inmost].status = "open"
            <4>1. 3 \in DOMAIN open[Main] /\ Main \in Tasks
                BY <1>1, <1>3, ThreeOpen DEF Tasks
            <4>2. OpenIn(tree, collector, open[Main][3])
                BY <1>1, <4>1 DEF AllOpen
            <4> QED BY <3>1, <4>2 DEF OpenIn, Opening, Inmost
        <3>7. BatchesGoWell(mid)
            BY <1>1, <1>12, <1>19, <1>20, <3>1, <3>6, BatchesAdded
        <3> QED BY <3>5, <3>7
    <2> QED BY <2>1, <2>2
<1>22. m # 0 => \A kind : Below(mid, m, kind) = {}
    BY <1>12, <1>15, NoneBelow
<1>23. Lasting(later) /\ BatchesGoWell(later)
    <2>1. CASE n = 0
        BY <1>18, <1>21, <2>1
    <2>2. CASE n # 0
        <3>1. m # 0 /\ Adds(mid, later, n, attempt)
            BY <1>16, <1>20, <2>2
        <3>2. Is(mid, m, "call") /\ mid[m].label.task = s
            BY <1>15, <1>20, <3>1 DEF Adds, Is
        <3>3. Joins(mid, attempt)
            <4>1. Below(mid, m, "attempt") = {}
                BY <1>22, <3>1
            <4>2. Cardinality({}) = 0 /\ 0 <= ToolRetries
                BY FS_EmptySet DEF CallsAssumption
            <4> QED BY <1>20, <3>2, <4>1, <4>2 DEF Joins
        <3>4. Lasting(later)
            BY <1>12, <1>21, <3>1, <3>3, LastingAdded
        <3>5. BatchesGoWell(later)
            BY <1>12, <1>20, <1>21, <3>1, BatchesAdded
        <3> QED BY <3>4, <3>5
    <2> QED BY <2>1, <2>2
<1>24. CallsEndWithLast(later, w.collector.dropped)
    <2> SUFFICES ASSUME w.collector.dropped = 0, NEW k \in Of(later, "call")
                 PROVE  EndsWithLast(later, k)
        BY DEF CallsEndWithLast
    <2>1. n # 0
        BY <1>18
    <2>2. m # 0
        BY <1>16, <2>1
    <2>3. collector.dropped = 0 /\ Adds(tree, mid, m, call) /\ Adds(mid, later, n, attempt)
        BY <1>15, <1>16, <1>20, <2>1, <2>2
    <2>4. m \in DOMAIN mid /\ mid[m] = call
        BY <2>3 DEF Adds
    <2>5. CASE k = m
        BY <1>12, <1>20, <2>3, <2>4, <2>5, EndsAdded
    <2>6. CASE k # m
        <3>1. k \in Of(tree, "call") /\ k \in DOMAIN tree
            <4>1. Of(later, "call") = Of(mid, "call") \cup
                     (IF attempt.label.kind = "call" THEN {n} ELSE {})
                BY <1>12, <2>3, AddedBelow
            <4>2. Of(mid, "call") = Of(tree, "call") \cup
                     (IF call.label.kind = "call" THEN {m} ELSE {})
                BY <1>1, <1>12, <2>3, AddedBelow
            <4> QED BY <1>20, <2>6, <4>1, <4>2 DEF Of
        <3>2. EndsWithLast(tree, k)
            BY <1>19, <2>3, <3>1 DEF CallsEndWithLast
        <3>3. EndsWithLast(mid, k) /\ k \in DOMAIN mid
            <4>1. k \in DOMAIN mid
                BY <2>3, <3>1 DEF Adds
            <4> QED BY <1>1, <1>12, <1>20, <2>3, <3>1, <3>2, <4>1, EndsAdded
        <3> QED BY <1>12, <1>20, <2>3, <2>6, <3>3, EndsAdded
    <2> QED BY <2>5, <2>6
<1>25. Family(later, w.collector.dropped)
    BY <1>23, <1>24 DEF Family
<1>26. Beside(tree, later, s)
    <2>1. Beside(tree, mid, s)
        BY <1>2, <1>6, BesideEntered
    <2>2. Beside(mid, later, s)
        BY <1>7, <1>8, BesideEntered
    <2> QED BY <2>1, <2>2, BesideTwice
<1>27. /\ slots'[s].state = "calling" /\ slots'[s].attempt = 1
       /\ \A t \in Slots \ {s} : slots'[t] = slots[t]
    BY <1>3 DEF TraceInv, ControlTyped
<1>28. UnderWay(later)'
    <2>1. Nested(tree) /\ Nested(later)
        BY <1>19, <1>23 DEF Lasting
    <2>2. ASSUME Inmost # 0, NEW k \in Below(later, Inmost, "call"), later[k].label.task = s
          PROVE  k = m
        <3>1. CASE k \in DOMAIN tree
            <4>1. k \in Below(tree, Inmost, "call") /\ tree[k].label.task = s
                BY <1>26, <2>2, <3>1 DEF Beside, SameSpan, Below
            <4> QED BY <1>1, <1>3, <2>2, <4>1 DEF UnderWay, BatchSoFar
        <3>2. CASE k \notin DOMAIN tree
            <4>1. k \in DOMAIN later /\ later[k].label.kind = "call"
                BY <2>2 DEF Below
            <4>2. CASE n = 0
                BY <1>15, <1>17, <1>18, <3>2, <4>1, <4>2 DEF Adds
            <4>3. CASE n # 0
                <5>1. Adds(mid, later, n, attempt)
                    BY <1>16, <1>20, <4>3
                <5>2. k \in DOMAIN mid
                    BY <1>20, <4>1, <5>1 DEF Adds
                <5> QED BY <1>15, <1>17, <3>2, <5>2 DEF Adds
            <4> QED BY <4>2, <4>3
        <3> QED BY <3>1, <3>2
    <2>3. ASSUME m # 0
          PROVE  /\ \A k \in Below(later, m, "attempt") : k = n
                 /\ Cardinality(Below(later, m, "attempt")) <= 1
        <3>1. CASE n = 0
            <4>1. Below(later, m, "attempt") = {}
                BY <1>18, <1>22, <2>3, <3>1
            <4>2. Cardinality({}) = 0
                BY FS_EmptySet
            <4> QED BY <4>1, <4>2
        <3>2. CASE n # 0
            <4>1. Adds(mid, later, n, attempt)
                BY <1>16, <1>20, <3>2
            <4>2. Below(later, m, "attempt") = Below(mid, m, "attempt") \cup
                     (IF attempt.parent = m /\ attempt.label.kind = "attempt" THEN {n} ELSE {})
                BY <1>12, <4>1, AddedBelow
            <4>3. Below(later, m, "attempt") = {n}
                BY <1>20, <1>22, <2>3, <4>2
            <4>4. Cardinality({n}) = 1
                BY FS_Singleton
            <4> QED BY <4>3, <4>4
        <3> QED BY <3>1, <3>2
    <2>4. open'[s][1].number = m /\ open'[s][2].number = n
        BY <1>7, <1>9, <1>11
    <2>5. Inmost # 0 => \A k \in Below(later, Inmost, "call") : later[k].label.task = s =>
             /\ slots'[s].state \in {"calling", "ok", "error", "raised"}
             /\ slots'[s].state = "ok" => later[k].status = "ok"
             /\ slots'[s].state = "calling" => k = open'[s][1].number
        BY <1>27, <2>2, <2>4
    <2>6. slots'[s].state = "calling" /\ open'[s][1].number # 0 =>
             /\ \A k \in Below(later, open'[s][1].number, "attempt") :
                   k = open'[s][2].number \/ later[k].label.note \in Retryable
             /\ Cardinality(Below(later, open'[s][1].number, "attempt")) <= slots'[s].attempt
        BY <1>27, <2>3, <2>4
    <2> QED BY <1>1, <1>3, <1>11, <1>26, <1>27, <2>1, <2>5, <2>6, CallKeeps
<1>29. \A i \in DOMAIN w.stack : w.stack[i].label = Label(<<"call", "attempt">>[i], s)
    <2>1. DOMAIN w.stack = 1..2
        BY <1>9, LenProperties DEF Sound, ViewOK
    <2> QED BY <1>7, <1>9, <2>1
<1> QED BY <1>1, <1>2, <1>3, <1>10, <1>25, <1>28, <1>29, CallSettles

\* A call is over: its spans, and they alone, are left.
LEMMA CallOver ==
    ASSUME CallsAssumption, TraceInv, FamilyInv, phase = "acting", phase' = "acting",
           saved' = saved, NEW tree, TreeOf(tree, collector), AllOpen(tree),
           Family(tree, collector.dropped), UnderWay(tree),
           NEW s \in Slots, slots[s].state = "calling", NEW status \in SpanStatuses,
           NEW later, NEW w, Left(tree, View(s), later, w, 0, status), Becomes(w),
           NEW state \in {"ok", "error", "raised"}, state = "ok" => status = "ok",
           slots' = [slots EXCEPT ![s].state = state]
    PROVE  FamilyInv'
<1>1. PICK u : /\ u = View(s) /\ u.collector = collector /\ u.stack = open[s] /\ u.task = s
               /\ Sound(tree, u) /\ Left(tree, u, later, w, 0, status)
    BY CallOpens
<1>2. /\ Len(open[s]) = 2 /\ DOMAIN open[s] = 1..2
      /\ open[s][1].label = Label("call", s) /\ open[s][2].label = Label("attempt", s)
      /\ OpenIn(tree, collector, open[s][1])
    BY CallOpens
<1>3. PICK N : N = Inner(u.stack, 0)
    OBVIOUS
<1>4. /\ Closes(tree, later, N, status) /\ w.collector.dropped = collector.dropped
      /\ LeadsOn(tree, View(s), later, w) /\ Len(w.stack) = 0
    BY <1>1, <1>3 DEF Left
<1>5. \A n \in N : /\ n \in DOMAIN tree /\ tree[n].label.task = s
                   /\ tree[n].label.kind \in {"call", "attempt"}
    <2>1. 0 \in 0..Len(u.stack)
        BY <1>1, <1>2
    <2>2. \A n \in N : /\ n \in DOMAIN tree /\ tree[n].label.task = s
                       /\ \E i \in 1..2 : tree[n].label = open[s][i].label
        <3>1. \A n \in Inner(u.stack, 0) :
                 /\ n \in DOMAIN tree /\ tree[n].label.task = u.task
                 /\ \E i \in (0 + 1)..Len(u.stack) :
                       n = u.stack[i].number /\ tree[n].label = u.stack[i].label
            BY <1>1, <2>1, InnerLabels
        <3>2. (0 + 1)..Len(u.stack) = 1..2
            BY <1>1, <1>2
        <3> QED BY <1>1, <1>3, <3>1, <3>2
    <2>3. \A i \in 1..2 : open[s][i].label.kind \in {"call", "attempt"}
        BY <1>2 DEF Label
    <2> QED BY <2>2, <2>3
<1>6. \A i \in 1..2 : open[s][i].number # 0 => open[s][i].number \in N
    BY <1>1, <1>2, <1>3 DEF Inner
<1>7. Lasting(tree) /\ CallsEndWithLast(tree, collector.dropped) /\ BatchesGoWell(tree)
    BY DEF Family
<1>8. Lasting(later)
    BY <1>4, <1>7, LastingClosed
<1>9. CallsEndWithLast(later, w.collector.dropped)
    <2>1. ASSUME collector.dropped = 0, NEW a \in Of(tree, "attempt"), tree[a].status = "open"
          PROVE  a \in N <=> tree[a].parent \in N
        <3>1. PICK t : t = tree[a].label.task
            OBVIOUS
        <3>2. /\ t \in Slots /\ a # 0 /\ a = open[t][2].number
              /\ tree[a].parent # 0 /\ tree[a].parent = open[t][1].number
            BY <1>7, <2>1, <3>1, OpenAttempts
        <3>3. CASE t = s
            BY <1>6, <3>2, <3>3
        <3>4. CASE t # s
            <4>1. tree[tree[a].parent].label.task = t
                BY <1>7, <3>1, TreeTasks DEF Lasting
            <4> QED BY <1>5, <3>1, <3>4, <4>1
        <3> QED BY <3>3, <3>4
    <2> QED BY <1>4, <1>7, <2>1, CallsEndClosed
<1>10. BatchesGoWell(later)
    <2>1. \A n \in N : tree[n].label.kind # "batch"
        BY <1>5
    <2> QED BY <1>4, <1>7, <2>1, BatchesClosed
<1>11. Family(later, w.collector.dropped)
    BY <1>8, <1>9, <1>10 DEF Family
<1>12. Beside(tree, later, s)
    <2>1. 0 \in 0..Len(u.stack)
        BY <1>1, <1>2
    <2> QED BY <1>1, <2>1, BesideLeft
<1>13. /\ open'[s] = w.stack /\ open'[Main] = open[Main]
       /\ \A t \in Slots \ {s} : open'[t] = open[t]
    BY <1>4, CallTree
<1>14. slots'[s].state = state /\ \A t \in Slots \ {s} : slots'[t] = slots[t]
    <2>1. slots \in [Slots -> [state : SlotStates, attempt : 0..(ToolRetries + 1)]]
        BY DEF TraceInv, ControlTyped
    <2> QED BY <2>1
<1>15. UnderWay(later)'
    <2>1. Nested(tree) /\ Nested(later)
        BY <1>7, <1>8 DEF Lasting
    <2>2. ASSUME Inmost # 0, NEW n \in Below(later, Inmost, "call"), later[n].label.task = s
          PROVE  later[n].status = status
        <3>1. n \in Below(tree, Inmost, "call") /\ n \in DOMAIN tree
            <4>1. Below(later, Inmost, "call") = Below(tree, Inmost, "call")
                BY <1>4, ClosesKeeps
            <4> QED BY <2>2, <4>1 DEF Below
        <3>2. tree[n].label.task = s
            BY <1>12, <2>2, <3>1 DEF Beside, SameSpan
        <3>3. n = open[s][1].number
            BY <2>2, <3>1, <3>2 DEF UnderWay, BatchSoFar
        <3>4. n # 0
            <4>1. CollectorOK(collector)
                BY DEF TraceInv, SpansOK
            <4> QED BY <3>1, <4>1, LimitTyped DEF TreeOf
        <3>5. n \in N
            BY <1>6, <3>3, <3>4
        <3> QED BY <1>4, <3>5 DEF Closes
    <2>3. Inmost # 0 => \A n \in Below(later, Inmost, "call") : later[n].label.task = s =>
             /\ slots'[s].state \in {"calling", "ok", "error", "raised"}
             /\ slots'[s].state = "ok" => later[n].status = "ok"
             /\ slots'[s].state = "calling" => n = open'[s][1].number
        BY <1>14, <2>2
    <2>4. slots'[s].state # "calling"
        BY <1>14
    <2> QED BY <1>12, <1>13, <1>14, <2>1, <2>3, <2>4, CallKeeps
<1>16. \A i \in DOMAIN w.stack : w.stack[i].label = Label(<<"call", "attempt">>[i], s)
    <2>1. DOMAIN w.stack = {}
        BY <1>4, LenProperties DEF LeadsOn, Sound, ViewOK
    <2> QED BY <2>1
<1> QED BY <1>4, <1>11, <1>15, <1>16, CallSettles

LEMMA ToolRaisesFamily ==
    ASSUME CallsAssumption, TraceInv, FamilyInv, NEW s \in Slots, NEW answer, ToolRaises(s, answer)
    PROVE  FamilyInv'
<1>1. PICK tree : /\ TreeOf(tree, collector) /\ AllOpen(tree)
                  /\ Family(tree, collector.dropped) /\ UnderWay(tree)
    BY DEF FamilyInv
<1>2. /\ phase = "acting" /\ phase' = "acting" /\ saved' = saved
      /\ slots[s].state = "calling" /\ Becomes(Unwound(View(s), 0, "error"))
      /\ slots' = [slots EXCEPT ![s].state = "raised"]
    BY DEF ToolRaises
<1>3. Sound(tree, View(s)) /\ 0 \in 0..Len(View(s).stack) /\ "error" \in SpanStatuses
    <2>1. Sound(tree, View(s)) /\ Len(View(s).stack) = 2
        BY <1>1, <1>2, CallOpens
    <2> QED BY <2>1 DEF SpanStatuses
<1>4. PICK later : Left(tree, View(s), later, Unwound(View(s), 0, "error"), 0, "error")
    BY <1>3, UnwoundTree
<1> QED BY <1>1, <1>2, <1>3, <1>4, CallOver

\* A call that ended no attempt of another keeps the calls of these as they were.
LEMMA EndsKept ==
    ASSUME NEW tree, NEW later, NEW N, NEW status, Closes(tree, later, N, status),
           NEW n \in DOMAIN tree, n \notin N, Below(tree, n, "attempt") \cap N = {},
           EndsWithLast(tree, n)
    PROVE  EndsWithLast(later, n)
<1>1. Below(later, n, "attempt") = Below(tree, n, "attempt")
    BY ClosesKeeps
<1>2. later[n] = tree[n] /\ \A m \in Below(tree, n, "attempt") : later[m] = tree[m]
    BY DEF Closes, Below
<1> QED BY <1>1, <1>2 DEF EndsWithLast

\* An attempt failed in a way known to pass: there is another.
LEMMA AttemptFamily ==
    ASSUME CallsAssumption, TraceInv, FamilyInv, phase = "acting", phase' = "acting",
           saved' = saved, NEW s \in Slots, slots[s].state = "calling",
           NEW code \in Retryable, slots[s].attempt <= ToolRetries,
           Becomes(Enter(LeaveNoted(View(s), "error", code), "attempt")),
           slots' = [slots EXCEPT ![s].attempt = @ + 1]
    PROVE  FamilyInv'
<1>1. PICK tree : /\ TreeOf(tree, collector) /\ AllOpen(tree)
                  /\ Family(tree, collector.dropped) /\ UnderWay(tree)
    BY DEF FamilyInv
<1>2. PICK u : /\ u = View(s) /\ u.collector = collector /\ u.stack = open[s] /\ u.task = s
               /\ Sound(tree, u)
    BY <1>1, CallOpens
<1>3. /\ Len(open[s]) = 2 /\ DOMAIN open[s] = 1..2 /\ open[s] # <<>>
      /\ open[s][1].label = Label("call", s) /\ open[s][2].label = Label("attempt", s)
      /\ OpenIn(tree, collector, open[s][1]) /\ OpenIn(tree, collector, open[s][2])
    BY <1>1, CallOpens
<1>4. PICK v, w : v = LeaveNoted(u, "error", code) /\ w = Enter(v, "attempt")
    OBVIOUS
<1>5. PICK c, a : c = open[s][1].number /\ a = open[s][2].number
    OBVIOUS
<1>6. PICK mid : /\ Left(tree, u, mid, v, 1, "error")
                 /\ a # 0 => mid[a].label.note = code
    <2>1. "error" \in SpanStatuses /\ code \in Codes
        BY DEF SpanStatuses, Codes
    <2>2. u.stack # <<>> /\ Len(u.stack) - 1 = 1 /\ u.stack[Len(u.stack)].number = a
        BY <1>2, <1>3, <1>5
    <2>3. \E mid : /\ Left(tree, u, mid, LeaveNoted(u, "error", code), Len(u.stack) - 1, "error")
                   /\ u.stack[Len(u.stack)].number # 0 =>
                         mid[u.stack[Len(u.stack)].number].label.note = code
        BY <1>2, <2>1, <2>2, LeaveTree
    <2> QED BY <1>4, <2>2, <2>3
<1>7. PICK N : N = Inner(u.stack, 1)
    OBVIOUS
<1>8. N = {a} \ {0}
    BY <1>2, <1>3, <1>5, <1>7 DEF Inner
<1>9. /\ Closes(tree, mid, N, "error") /\ v.collector.dropped = collector.dropped
      /\ LeadsOn(tree, u, mid, v) /\ Sound(mid, v) /\ v.task = s
      /\ Len(v.stack) = 1 /\ v.stack[1] = open[s][1]
    BY <1>2, <1>6, <1>7 DEF Left, LeadsOn
<1>10. PICK later, n : Entered(mid, v, later, w, n, "attempt")
    <2>1. "attempt" \in Kinds
        BY DEF Kinds
    <2> QED BY <1>4, <1>9, <2>1, EnterTree
<1>11. /\ Sound(later, w) /\ LeadsOn(mid, v, later, w) /\ Len(w.stack) = 2
       /\ w.stack[1] = open[s][1] /\ w.stack[2].number = n
       /\ w.stack[2].label = Label("attempt", s)
    BY <1>9, <1>10 DEF Entered, LeadsOn
<1>12. LeadsOn(tree, u, later, w) /\ Becomes(w)
    <2>1. Becomes(w)
        BY <1>2, <1>4
    <2> QED BY <1>9, <1>11, <2>1, LeadsOnTwice
<1>13. CollectorOK(collector) /\ CollectorOK(v.collector) /\ TreeOf(mid, v.collector)
    BY <1>2, <1>9 DEF Sound, ViewOK
<1>14. Lasting(tree) /\ CallsEndWithLast(tree, collector.dropped) /\ BatchesGoWell(tree)
    BY <1>1 DEF Family
<1>15. ASSUME a # 0
       PROVE  a \in Of(tree, "attempt") /\ tree[a].label.task = s
    <2>1. a \in DOMAIN tree /\ tree[a].label = Label("attempt", s)
        BY <1>3, <1>5, <1>15 DEF OpenIn, Opening
    <2> QED BY <2>1 DEF Of, Label
<1>16. ASSUME c # 0
       PROVE  c \in Of(tree, "call") /\ tree[c].label.task = s /\ tree[c].status = "open"
    <2>1. c \in DOMAIN tree /\ tree[c] = Opening(open[s][1])
        BY <1>3, <1>5, <1>16 DEF OpenIn
    <2>2. tree[c].label = Label("call", s) /\ tree[c].status = "open"
        BY <1>3, <2>1 DEF Opening
    <2> QED BY <2>1, <2>2 DEF Of, Label
<1>17. Lasting(mid) /\ BatchesGoWell(mid)
    <2>1. \A k \in N : tree[k].label.kind # "batch"
        BY <1>8, <1>15 DEF Of
    <2> QED BY <1>9, <1>14, <2>1, LastingClosed, BatchesClosed
<1>18. n = 0 => later = mid /\ w.collector.dropped > 0
    BY <1>10 DEF Entered
<1>19. PICK span : /\ span.parent = c /\ span.status = "open" /\ span.label.kind = "attempt"
                   /\ span.label.task = s
                   /\ n # 0 => /\ Adds(mid, later, n, span) /\ c # 0
                               /\ w.collector.dropped = v.collector.dropped
    <2> DEFINE made == [parent |-> c, status |-> "open", label |-> Label("attempt", s)]
    <2>1. ASSUME n # 0
          PROVE  Adds(mid, later, n, made) /\ c # 0 /\ w.collector.dropped = v.collector.dropped
        <3>1. Top(v) = c
            <4>1. v.stack # <<>>
                <5>1. Len(<<>>) = 0
                    BY EmptySeq
                <5> QED BY <1>9, <5>1
            <4> QED BY <1>5, <1>9, <4>1 DEF Top
        <3>2. /\ v.collector.next <= v.collector.limit /\ w.collector.dropped = v.collector.dropped
              /\ Adds(mid, later, n, [parent |-> EffectiveParent(n, c), status |-> "open",
                                      label |-> Label("attempt", s)])
            BY <1>9, <1>10, <2>1, <3>1 DEF Entered
        <3>3. c # 0
            <4>1. 1 \in DOMAIN v.stack
                BY <1>9, LenProperties DEF Sound, ViewOK
            <4>2. OpenIn(mid, v.collector, v.stack[1])
                BY <1>9, <4>1 DEF Sound
            <4>3. c = 0 => v.collector.next > v.collector.limit
                BY <1>5, <1>9, <4>2 DEF OpenIn
            <4> QED BY <1>13, <3>2, <4>3, LimitTyped
        <3>4. EffectiveParent(n, c) = c
            BY <3>3 DEF EffectiveParent
        <3> QED BY <3>2, <3>3, <3>4
    <2>2. /\ made.parent = c /\ made.status = "open" /\ made.label.kind = "attempt"
          /\ made.label.task = s
        BY DEF Label
    <2> HIDE DEF made
    <2> QED BY <2>1, <2>2
<1>20. ASSUME c # 0
       PROVE  /\ Below(mid, c, "attempt") = Below(tree, c, "attempt")
              /\ \A m \in Below(mid, c, "attempt") : mid[m].label.note \in Retryable
              /\ Cardinality(Below(mid, c, "attempt")) <= slots[s].attempt
              /\ Cardinality(Below(mid, c, "attempt")) \in Nat
              /\ c \in DOMAIN mid /\ mid[c] = tree[c]
    <2>1. Below(mid, c, "attempt") = Below(tree, c, "attempt") /\ DOMAIN mid = DOMAIN tree
        BY <1>9, ClosesKeeps
    <2>2. /\ \A m \in Below(tree, c, "attempt") : m = a \/ tree[m].label.note \in Retryable
          /\ Cardinality(Below(tree, c, "attempt")) <= slots[s].attempt
        BY <1>1, <1>5, <1>20 DEF UnderWay, CallSoFar
    <2>3. ASSUME NEW m \in Below(tree, c, "attempt")
          PROVE  mid[m].label.note \in Retryable
        <3>1. m # 0 /\ m \in DOMAIN tree
            BY <1>1, <1>13, LimitTyped DEF TreeOf, Below
        <3>2. CASE m = a
            BY <1>6, <3>1, <3>2
        <3>3. CASE m # a
            <4>1. mid[m] = tree[m]
                BY <1>8, <1>9, <3>1, <3>3 DEF Closes
            <4> QED BY <2>2, <3>3, <4>1
        <3> QED BY <3>2, <3>3
    <2>4. c \in DOMAIN tree /\ c \notin N
        BY <1>8, <1>15, <1>16, <1>20 DEF Of
    <2>5. mid[c] = tree[c]
        BY <1>9, <2>4 DEF Closes
    <2>6. Cardinality(Below(mid, c, "attempt")) \in Nat
        BY <1>13, FewBelow
    <2> QED BY <2>1, <2>2, <2>3, <2>4, <2>5, <2>6
<1>21. slots[s].attempt \in Nat /\ ToolRetries \in Nat
    BY DEF TraceInv, ControlTyped, CallsAssumption
<1>22. Lasting(later) /\ BatchesGoWell(later)
    <2>1. CASE n = 0
        BY <1>17, <1>18, <2>1
    <2>2. CASE n # 0
        <3>1. Is(mid, c, "call") /\ mid[c].label.task = s
            BY <1>16, <1>19, <1>20, <2>2 DEF Is, Of
        <3>2. Cardinality(Below(mid, c, "attempt")) <= ToolRetries
            BY <1>19, <1>20, <1>21, <2>2
        <3>3. Joins(mid, span)
            BY <1>19, <1>20, <2>2, <3>1, <3>2 DEF Joins
        <3>4. Lasting(later)
            BY <1>13, <1>17, <1>19, <2>2, <3>3, LastingAdded
        <3>5. BatchesGoWell(later)
            BY <1>13, <1>17, <1>19, <2>2, BatchesAdded
        <3> QED BY <3>4, <3>5
    <2> QED BY <2>1, <2>2
<1>23. CallsEndWithLast(later, w.collector.dropped)
    <2> SUFFICES ASSUME w.collector.dropped = 0, NEW k \in Of(later, "call")
                 PROVE  EndsWithLast(later, k)
        BY DEF CallsEndWithLast
    <2>1. n # 0
        BY <1>18
    <2>2. collector.dropped = 0 /\ Adds(mid, later, n, span) /\ c # 0
        BY <1>9, <1>19, <2>1
    <2>3. k \in Of(mid, "call") /\ k \in DOMAIN mid
        <3>1. Of(later, "call") = Of(mid, "call") \cup
                 (IF span.label.kind = "call" THEN {n} ELSE {})
            BY <1>13, <2>2, AddedBelow
        <3> QED BY <1>19, <3>1 DEF Of
    <2>4. CASE k = c
        BY <1>13, <1>16, <1>19, <1>20, <2>2, <2>3, <2>4, EndsAdded
    <2>5. CASE k # c
        <3>1. k \in Of(tree, "call") /\ k \in DOMAIN tree
            <4>1. Of(mid, "call") = Of(tree, "call")
                BY <1>9, ClosesKeeps
            <4> QED BY <2>3, <4>1 DEF Of
        <3>2. EndsWithLast(tree, k)
            BY <1>14, <2>2, <3>1 DEF CallsEndWithLast
        <3>3. k \notin N
            BY <1>8, <1>15, <3>1 DEF Of
        <3>4. Below(tree, k, "attempt") \cap N = {}
            <4>1. ASSUME a # 0
                  PROVE  tree[a].parent = c
                <5>1. a \in Of(tree, "attempt") /\ tree[a].label.task = s
                    BY <1>15, <4>1
                <5>2. tree[a].status = "open"
                    <6>1. tree[a] = Opening(open[s][2])
                        BY <1>3, <1>5, <4>1 DEF OpenIn
                    <6> QED BY <6>1 DEF Opening
                <5>3. Lasting(tree) /\ CallsEndWithLast(tree, 0)
                    BY <1>14, <2>2
                <5>4. tree[a].parent = open[s][1].number
                    BY <1>1, <5>1, <5>2, <5>3, OpenAttempts
                <5> QED BY <1>5, <5>4
            <4> QED BY <1>8, <2>5, <4>1 DEF Below
        <3>5. EndsWithLast(mid, k)
            BY <1>9, <3>1, <3>2, <3>3, <3>4, EndsKept
        <3> QED BY <1>13, <1>19, <2>2, <2>3, <2>5, <3>5, EndsAdded
    <2> QED BY <2>4, <2>5
<1>24. Family(later, w.collector.dropped)
    BY <1>22, <1>23 DEF Family
<1>25. Beside(tree, later, s)
    <2>1. Beside(tree, mid, s)
        <3>1. 1 \in 0..Len(u.stack)
            BY <1>2, <1>3
        <3> QED BY <1>2, <1>6, <3>1, BesideLeft
    <2>2. Beside(mid, later, s)
        BY <1>9, <1>10, BesideEntered
    <2> QED BY <2>1, <2>2, BesideTwice
<1>26. /\ open'[s] = w.stack /\ open'[Main] = open[Main]
       /\ \A t \in Slots \ {s} : open'[t] = open[t]
    BY <1>1, <1>2, <1>12, CallTree
<1>27. /\ slots'[s].state = "calling" /\ slots'[s].attempt = slots[s].attempt + 1
       /\ \A t \in Slots \ {s} : slots'[t] = slots[t]
    <2>1. slots \in [Slots -> [state : SlotStates, attempt : 0..(ToolRetries + 1)]]
        BY DEF TraceInv, ControlTyped
    <2> QED BY <2>1
<1>28. UnderWay(later)'
    <2>1. Nested(tree) /\ Nested(later)
        BY <1>14, <1>22 DEF Lasting
    <2>2. open'[s][1].number = c /\ open'[s][2].number = n
        BY <1>5, <1>11, <1>26
    <2>3. ASSUME Inmost # 0, NEW k \in Below(later, Inmost, "call"), later[k].label.task = s
          PROVE  k = c
        <3>1. k \in DOMAIN later /\ later[k].label.kind = "call" /\ later[k].parent = Inmost
            BY <2>3 DEF Below
        <3>2. k \in DOMAIN mid
            <4>1. CASE n = 0
                BY <1>18, <3>1, <4>1
            <4>2. CASE n # 0
                <5>1. Adds(mid, later, n, span)
                    BY <1>19, <4>2
                <5> QED BY <1>19, <3>1, <5>1 DEF Adds
            <4> QED BY <4>1, <4>2
        <3>3. k \in DOMAIN tree
            BY <1>9, <3>2 DEF Closes
        <3>4. k \in Below(tree, Inmost, "call") /\ tree[k].label.task = s
            BY <1>25, <2>3, <3>1, <3>3 DEF Beside, SameSpan, Below
        <3> QED BY <1>1, <1>5, <2>3, <3>4 DEF UnderWay, BatchSoFar
    <2>4. ASSUME c # 0
          PROVE  /\ \A m \in Below(later, c, "attempt") : m = n \/ later[m].label.note \in Retryable
                 /\ Cardinality(Below(later, c, "attempt")) <= slots[s].attempt + 1
        <3>1. CASE n = 0
            BY <1>18, <1>20, <1>21, <2>4, <3>1
        <3>2. CASE n # 0
            <4>1. Adds(mid, later, n, span)
                BY <1>19, <3>2
            <4>2. /\ Below(later, c, "attempt") = Below(mid, c, "attempt") \cup
                        (IF span.parent = c /\ span.label.kind = "attempt" THEN {n} ELSE {})
                  /\ n \notin Below(mid, c, "attempt") /\ IsFiniteSet(Below(mid, c, "attempt"))
                  /\ \A m \in DOMAIN mid : later[m] = mid[m]
                BY <1>13, <4>1, AddedBelow
            <4>3. Below(later, c, "attempt") = Below(mid, c, "attempt") \cup {n}
                BY <1>19, <4>2
            <4>4. Cardinality(Below(later, c, "attempt")) = Cardinality(Below(mid, c, "attempt")) + 1
                BY <4>2, <4>3, OneMore
            <4>5. \A m \in Below(mid, c, "attempt") : later[m].label.note \in Retryable
                BY <1>20, <2>4, <4>2 DEF Below
            <4> QED BY <1>20, <1>21, <2>4, <4>3, <4>4, <4>5
        <3> QED BY <3>1, <3>2
    <2>5. Inmost # 0 => \A k \in Below(later, Inmost, "call") : later[k].label.task = s =>
             /\ slots'[s].state \in {"calling", "ok", "error", "raised"}
             /\ slots'[s].state = "ok" => later[k].status = "ok"
             /\ slots'[s].state = "calling" => k = open'[s][1].number
        BY <1>27, <2>2, <2>3
    <2>6. slots'[s].state = "calling" /\ open'[s][1].number # 0 =>
             /\ \A k \in Below(later, open'[s][1].number, "attempt") :
                   k = open'[s][2].number \/ later[k].label.note \in Retryable
             /\ Cardinality(Below(later, open'[s][1].number, "attempt")) <= slots'[s].attempt
        BY <1>27, <2>2, <2>4
    <2> QED BY <1>1, <1>25, <1>26, <1>27, <2>1, <2>5, <2>6, CallKeeps
<1>29. \A i \in DOMAIN w.stack : w.stack[i].label = Label(<<"call", "attempt">>[i], s)
    <2>1. DOMAIN w.stack = 1..2
        BY <1>11, LenProperties DEF Sound, ViewOK
    <2> QED BY <1>3, <1>11, <2>1
<1> QED BY <1>1, <1>2, <1>12, <1>24, <1>28, <1>29, CallSettles

LEMMA ToolRepliesFamily ==
    ASSUME CallsAssumption, TraceInv, FamilyInv, NEW s \in Slots, NEW answer, ToolReplies(s, answer)
    PROVE  FamilyInv'
<1>1. PICK code, status : /\ code = ToolCode(answer)
                          /\ status = IF code = "none" THEN "ok" ELSE "error"
    OBVIOUS
<1>2. /\ phase = "acting" /\ phase' = "acting" /\ saved' = saved /\ slots[s].state = "calling"
      /\ IF MayTryAgain(s, code)
         THEN /\ Becomes(Enter(LeaveNoted(View(s), status, code), "attempt"))
              /\ slots' = [slots EXCEPT ![s].attempt = @ + 1]
         ELSE /\ Becomes(Leave(LeaveNoted(View(s), status, code), status))
              /\ slots' = [slots EXCEPT ![s].state = status]
    BY <1>1 DEF ToolReplies
<1>3. code \in Codes
    BY <1>1 DEF ToolCode, TransportCode, PayloadCode, Codes, Retryable
<1>4. CASE MayTryAgain(s, code)
    <2>1. code \in Retryable /\ slots[s].attempt <= ToolRetries /\ status = "error"
        BY <1>1, <1>4 DEF MayTryAgain, Retryable
    <2> QED BY <1>2, <1>4, <2>1, AttemptFamily
<1>5. CASE ~MayTryAgain(s, code)
    <2>1. PICK tree : /\ TreeOf(tree, collector) /\ AllOpen(tree)
                      /\ Family(tree, collector.dropped) /\ UnderWay(tree)
        BY DEF FamilyInv
    <2>2. PICK u : u = View(s) /\ Sound(tree, u) /\ u.stack = open[s]
        BY <2>1, CallOpens
    <2>3. Len(u.stack) = 2 /\ u.stack # <<>>
        BY <1>2, <2>1, <2>2, CallOpens
    <2>4. PICK v, w : v = LeaveNoted(u, status, code) /\ w = LeaveNoted(v, status, "none")
        OBVIOUS
    <2>5. status \in SpanStatuses /\ status \in {"ok", "error", "raised"} /\ "none" \in Codes
        BY <1>1 DEF SpanStatuses, Codes
    <2>6. PICK mid : Left(tree, u, mid, v, 1, status)
        <3>1. Len(u.stack) - 1 = 1
            BY <2>3
        <3> QED BY <1>3, <2>2, <2>3, <2>4, <2>5, <3>1, LeaveTree
    <2>7. Sound(mid, v) /\ Len(v.stack) = 1 /\ v.stack # <<>>
        <3>1. Len(<<>>) = 0
            BY EmptySeq
        <3> QED BY <2>6, <3>1 DEF Left, LeadsOn
    <2>8. PICK later : Left(mid, v, later, w, 0, status)
        <3>1. Len(v.stack) - 1 = 0
            BY <2>7
        <3> QED BY <2>4, <2>5, <2>7, <3>1, LeaveTree
    <2>9. Left(tree, u, later, w, 0, status)
        <3>1. Len(u.stack) \in Nat /\ 1 \in 0..Len(u.stack) /\ 0 \in 0..1
            BY <2>3
        <3> QED BY <2>5, <2>6, <2>8, <3>1, LeftTwice
    <2>10. Becomes(w) /\ slots' = [slots EXCEPT ![s].state = status]
        BY <1>2, <1>5, <2>2, <2>4 DEF Leave
    <2> QED BY <1>2, <2>1, <2>2, <2>5, <2>9, <2>10, CallOver
<1> QED BY <1>4, <1>5

-----------------------------------------------------------------------------
(* Cancellation: every call is left, then the spans of the run.            *)

\* A task sees its spans in the tree of a later collector that left them open.
LEMMA ViewLater ==
    ASSUME CallsAssumption, SpansOK, Named, Orderly, NEW c, CollectorOK(c),
           c.limit = collector.limit, c.next = collector.next, NEW mid, TreeOf(mid, c),
           NEW t \in Tasks,
           \A u \in {Main, t} : \A i \in DOMAIN open[u] : OpenIn(mid, c, open[u][i])
    PROVE  LET v == [View(t) EXCEPT !.collector = c]
           IN  v.collector = c /\ v.stack = open[t] /\ v.task = t /\ Sound(mid, v)
<1>1. PICK v : v = [View(t) EXCEPT !.collector = c]
    OBVIOUS
<1>2. v = [collector |-> c, stack |-> open[t], task |-> t,
           outer |-> IF t = Main THEN <<>> ELSE open[Main]]
    BY <1>1 DEF View
<1>3. /\ v.collector = c /\ v.stack = open[t] /\ v.task = t
      /\ v.outer = IF t = Main THEN <<>> ELSE open[Main]
    BY <1>2
<1>4. ViewOK(v)
    <2>1. Frames(c) = Frames(collector)
        BY DEF Frames
    <2>2. open[t] \in Seq(Frames(c)) /\ open[Main] \in Seq(Frames(c)) /\ <<>> \in Seq(Frames(c))
        BY <2>1, EmptySeq DEF SpansOK, Tasks
    <2> QED BY <1>2, <1>3, <2>2 DEF ViewOK
<1>5. t = Main \/ (t \in Slots /\ t # Main)
    BY DEF Tasks, Main, Slots, CallsAssumption
<1>6. \A u \in {Main, t} : \A i \in DOMAIN open[u] : open[u][i].label.task = u
    <2>1. \A kind, u : Label(kind, u).task = u
        BY DEF Label
    <2> QED BY <1>5, <2>1 DEF Named
<1>7. \A i \in DOMAIN v.outer : OpenIn(mid, c, v.outer[i]) /\ v.outer[i].label.task # t
    <2>1. CASE t = Main
        BY <1>3, <2>1
    <2>2. CASE t # Main
        BY <1>3, <1>6, <2>2
    <2> QED BY <2>1, <2>2
<1>8. Ascends(v.stack) /\ Ascends(v.outer) /\ Within(v.stack, v.outer)
    <2>1. CASE t = Main
        BY <1>3, <2>1 DEF Orderly, Ascends, Within
    <2>2. CASE t # Main
        BY <1>3, <1>5, <2>2 DEF Orderly
    <2> QED BY <2>1, <2>2
<1>9. Sound(mid, v)
    BY <1>3, <1>4, <1>6, <1>7, <1>8 DEF Sound
<1> QED BY <1>1, <1>3, <1>9

\* The spans held by the first calls.
HeldBy(k) == UNION {Inner(open[s], 0) : s \in 1..k}

LEMMA CallsCancelledTree ==
    ASSUME CallsAssumption, SpansOK, Named, Orderly, NEW tree, TreeOf(tree, collector), AllOpen(tree)
    PROVE  \E mid : /\ Closes(tree, mid, HeldBy(BatchLimit), "cancelled")
                    /\ TreeOf(mid, CallsCancelled) /\ CallsCancelled.dropped = collector.dropped
                    /\ \A i \in DOMAIN open[Main] : OpenIn(mid, CallsCancelled, open[Main][i])
<1>1. BatchLimit \in Nat /\ "cancelled" \in SpanStatuses /\ Main \in Tasks
    BY DEF CallsAssumption, SpanStatuses, Tasks
<1>2. PICK after : CancelsUpTo(after, BatchLimit) /\ CallsCancelled = after[BatchLimit]
    <2> DEFINE after == CHOOSE after : CancelsUpTo(after, BatchLimit)
    <2>1. CancelsUpTo(after, BatchLimit)
        BY <1>1, CancellingExists
    <2>2. CallsCancelled = after[BatchLimit]
        BY DEF CallsCancelled, CancelsUpTo
    <2> QED BY <2>1, <2>2
<1> DEFINE Holds(mid, n) ==
        /\ CollectorOK(after[n]) /\ after[n].limit = collector.limit
        /\ after[n].next = collector.next /\ after[n].dropped = collector.dropped
        /\ TreeOf(mid, after[n]) /\ Closes(tree, mid, HeldBy(n), "cancelled")
        /\ \A t \in Tasks : t \notin 1..n =>
              \A i \in DOMAIN open[t] : OpenIn(mid, after[n], open[t][i])
    S == {n \in 0..BatchLimit : \E mid : Holds(mid, n)}
<1>3. 0 \in S
    <2>1. after[0] = collector
        BY <1>1, <1>2 DEF CancelsUpTo
    <2>2. HeldBy(0) = {}
        BY DEF HeldBy
    <2>3. Closes(tree, tree, HeldBy(0), "cancelled")
        BY <2>2 DEF Closes
    <2>4. Holds(tree, 0)
        BY <2>1, <2>3 DEF SpansOK, AllOpen
    <2> QED BY <1>1, <2>4
<1>4. ASSUME NEW n \in 0..(BatchLimit - 1), n \in S
      PROVE  n + 1 \in S
    <2>1. PICK s, c, mid : s = n + 1 /\ c = after[n] /\ Holds(mid, n)
        BY <1>4
    <2>2. /\ s \in Slots /\ s \in Tasks /\ s # Main /\ s \in Nat /\ s - 1 = n /\ s # 0
          /\ s \in 0..BatchLimit /\ s \notin 1..n /\ Main \notin 1..n
        BY <1>1, <2>1 DEF Slots, Tasks, Main
    <2>3. /\ CollectorOK(c) /\ c.limit = collector.limit /\ c.next = collector.next
          /\ c.dropped = collector.dropped /\ TreeOf(mid, c)
          /\ Closes(tree, mid, HeldBy(n), "cancelled")
          /\ \A t \in Tasks : t \notin 1..n => \A i \in DOMAIN open[t] : OpenIn(mid, c, open[t][i])
        BY <2>1
    <2> HIDE DEF S, Holds
    <2>4. PICK v : v = [View(s) EXCEPT !.collector = c]
        OBVIOUS
    <2>5. v.collector = c /\ v.stack = open[s] /\ v.task = s /\ Sound(mid, v)
        <3>1. \A u \in {Main, s} : \A i \in DOMAIN open[u] : OpenIn(mid, c, open[u][i])
            BY <1>1, <2>2, <2>3
        <3> QED BY <2>2, <2>3, <2>4, <3>1, ViewLater
    <2>6. PICK w : w = Unwound(v, 0, "cancelled")
        OBVIOUS
    <2>7. ViewOK(v) /\ 0 \in 0..Len(v.stack)
        BY <2>5, LenProperties DEF Sound, ViewOK
    <2>8. PICK later : Left(mid, v, later, w, 0, "cancelled")
        BY <1>1, <2>5, <2>6, <2>7, UnwoundTree
    <2>9. w.collector.next = c.next /\ w.collector.limit = c.limit
        BY <1>1, <2>5, <2>6, <2>7, UnwoundIs DEF Follows
    <2>10. after[s] = w.collector
        BY <1>2, <2>1, <2>2, <2>4, <2>6 DEF CancelsUpTo
    <2>11. /\ CollectorOK(w.collector) /\ TreeOf(later, w.collector)
           /\ w.collector.dropped = c.dropped
           /\ Closes(mid, later, Inner(open[s], 0), "cancelled")
           /\ \A g : g.label.task # s /\ OpenIn(mid, c, g) => OpenIn(later, w.collector, g)
        BY <2>5, <2>8 DEF Left, LeadsOn, Sound, ViewOK
    <2>12. Closes(tree, later, HeldBy(s), "cancelled")
        <3>1. HeldBy(s) = HeldBy(n) \cup Inner(open[s], 0)
            <4>1. 1..s = 1..n \cup {s}
                BY <2>1, <2>2
            <4> QED BY <4>1 DEF HeldBy
        <3> QED BY <1>1, <2>3, <2>11, <3>1, ClosesTwice
    <2>13. ASSUME NEW t \in Tasks, t \notin 1..s, NEW i \in DOMAIN open[t]
           PROVE  OpenIn(later, w.collector, open[t][i])
        <3>1. t \notin 1..n /\ t # s
            BY <2>1, <2>2, <2>13
        <3>2. OpenIn(mid, c, open[t][i])
            BY <2>3, <3>1
        <3>3. open[t][i].label.task = t
            <4>1. \A kind, u : Label(kind, u).task = u
                BY DEF Label
            <4>2. t = Main \/ t \in Slots
                BY DEF Tasks
            <4> QED BY <4>1, <4>2 DEF Named
        <3> QED BY <2>11, <3>1, <3>2, <3>3
    <2>14. Holds(later, s)
        BY <2>3, <2>9, <2>10, <2>11, <2>12, <2>13 DEF Holds
    <2> QED BY <2>1, <2>2, <2>14 DEF S
<1> HIDE DEF S, Holds
<1>5. BatchLimit \in S
    <2>1. \A n \in 0..BatchLimit : n \in S
        <3>1. \A n \in 0..(BatchLimit - 1) : n \in S => n + 1 \in S
            BY <1>4
        <3> QED BY <1>1, <1>3, <3>1, InductionUpTo
    <2> QED BY <1>1, <2>1
<1>6. PICK mid : Holds(mid, BatchLimit)
    BY <1>5 DEF S
<1>7. Main \notin 1..BatchLimit
    BY <1>1 DEF Main
<1> QED BY <1>1, <1>2, <1>6, <1>7 DEF Holds

\* What is left of the run when it is cancelled.
LEMMA CancelledTree ==
    ASSUME CallsAssumption, TraceInv, FamilyInv, NEW depth \in 0..Len(open[Main])
    PROVE  /\ \E later : /\ Sound(later, CancelledTo(depth))
                         /\ Family(later, CancelledTo(depth).collector.dropped)
           /\ CancelledTo(depth).task = Main /\ Len(CancelledTo(depth).stack) = depth
           /\ \A i \in 1..depth : CancelledTo(depth).stack[i] = open[Main][i]
<1>1. PICK tree : TreeOf(tree, collector) /\ AllOpen(tree) /\ Family(tree, collector.dropped)
    BY DEF FamilyInv
<1>2. SpansOK /\ Named /\ Orderly /\ Main \in Tasks
    BY DEF TraceInv, FamilyInv, Tasks
<1>3. PICK c, N : c = CallsCancelled /\ N = HeldBy(BatchLimit)
    OBVIOUS
<1>4. PICK mid : /\ Closes(tree, mid, N, "cancelled") /\ TreeOf(mid, c)
                 /\ c.dropped = collector.dropped
                 /\ \A i \in DOMAIN open[Main] : OpenIn(mid, c, open[Main][i])
    BY <1>1, <1>2, <1>3, CallsCancelledTree
<1>5. CollectorOK(c) /\ c.limit = collector.limit /\ c.next = collector.next
    BY <1>2, <1>3, CallsCancelledIs DEF CallsEnded
<1>6. PICK v : v = CancelledView
    OBVIOUS
<1>7. v.collector = c /\ v.stack = open[Main] /\ v.task = Main /\ Sound(mid, v)
    <2>1. v = [View(Main) EXCEPT !.collector = c]
        BY <1>3, <1>6 DEF CancelledView
    <2>2. \A u \in {Main} : \A i \in DOMAIN open[u] : OpenIn(mid, c, open[u][i])
        BY <1>4
    <2> QED BY <1>2, <1>4, <1>5, <2>1, <2>2, ViewLater
<1>8. Lasting(tree) /\ CallsEndWithLast(tree, collector.dropped) /\ BatchesGoWell(tree)
    BY <1>1 DEF Family
<1>9. "cancelled" \in SpanStatuses
    BY DEF SpanStatuses
<1>10. Family(mid, c.dropped)
    <2>1. Lasting(mid)
        BY <1>4, <1>8, LastingClosed
    <2>2. BatchesGoWell(mid)
        BY <1>4, <1>8, BatchesClosed
    <2>3. ASSUME collector.dropped = 0, NEW a \in Of(tree, "attempt"), tree[a].status = "open"
          PROVE  a \in N /\ tree[a].parent \in N
        <3>1. PICK s : s = tree[a].label.task
            OBVIOUS
        <3>2. /\ s \in Slots /\ slots[s].state = "calling" /\ a # 0 /\ a = open[s][2].number
              /\ tree[a].parent # 0 /\ tree[a].parent = open[s][1].number
            BY <1>1, <1>8, <2>3, <3>1, OpenAttempts
        <3>3. Len(open[s]) = 2
            BY <3>2 DEF TraceInv, StacksFit
        <3>4. a \in Inner(open[s], 0) /\ tree[a].parent \in Inner(open[s], 0)
            BY <3>2, <3>3 DEF Inner
        <3> QED BY <1>3, <3>2, <3>4 DEF HeldBy, Slots
    <2>4. CallsEndWithLast(mid, c.dropped)
        BY <1>4, <1>8, <1>9, <2>3, CallsEndClosed
    <2> QED BY <2>1, <2>2, <2>4 DEF Family
<1>11. PICK w : w = CancelledTo(depth) /\ w = Unwound(v, depth, "cancelled")
    BY <1>6 DEF CancelledTo, CancelledView
<1>12. PICK later : Left(mid, v, later, w, depth, "cancelled")
    BY <1>7, <1>9, <1>11, UnwoundTree
<1>13. Family(later, w.collector.dropped)
    BY <1>7, <1>9, <1>10, <1>12, FamilyLeft
<1>14. /\ Sound(later, w) /\ w.task = Main /\ Len(w.stack) = depth
       /\ \A i \in 1..depth : w.stack[i] = open[Main][i]
    BY <1>7, <1>12 DEF Left, LeadsOn
<1> QED BY <1>11, <1>13, <1>14

LEMMA LoopTimesOutFamily ==
    ASSUME CallsAssumption, TraceInv, FamilyInv, LoopTimesOut
    PROVE  FamilyInv'
<1>1. phase \in {"planning", "acting"}
    BY DEF LoopTimesOut
<1>2. PICK tree : Sound(tree, View(Main))
    BY MainTree
<1>3. /\ Len(open[Main]) = 3 /\ saved = <<>> /\ open[Main][1].label = Label("run", Main)
      /\ open[Main][2].label = Label("workflow", Main)
    BY <1>1, <1>2, ThreeOpen
<1>4. PICK v, w : v = CancelledTo(2) /\ w = Enter(v, "review")
    OBVIOUS
<1>5. /\ v.task = Main /\ Working(v.stack)
      /\ \E mid : Sound(mid, v) /\ Family(mid, v.collector.dropped)
    <2>1. 2 \in 0..Len(open[Main])
        BY <1>3
    <2>2. /\ v.task = Main /\ Len(v.stack) = 2 /\ \A i \in 1..2 : v.stack[i] = open[Main][i]
          /\ \E mid : Sound(mid, v) /\ Family(mid, v.collector.dropped)
        BY <1>4, <2>1, CancelledTree
    <2> QED BY <1>3, <2>2 DEF Working
<1>6. /\ collector' = w.collector /\ phase' = "auditing" /\ chat' = FirstRequest
      /\ open' = [t \in Tasks |-> IF t = Main THEN w.stack ELSE <<>>]
      /\ \A s \in Slots : slots'[s].state # "calling" /\ saved' = <<>>
    BY <1>3, <1>4 DEF LoopTimesOut, NoSlot
<1>7. Alone(w) /\ saved' = <<>>
    <2>1. Main \in Tasks /\ \A s \in Slots : s \in Tasks /\ s # Main
        BY DEF Tasks, Main, Slots
    <2>2. saved' = <<>>
        BY <1>3 DEF LoopTimesOut
    <2> QED BY <1>6, <2>1, <2>2 DEF Alone
<1> QED BY <1>4, <1>5, <1>6, <1>7, NextTurn

LEMMA CancelledFamily ==
    ASSUME CallsAssumption, TraceInv, FamilyInv, Cancelled
    PROVE  FamilyInv'
<1>1. PICK w : w = CancelledTo(0)
    OBVIOUS
<1>2. PICK later : /\ Sound(later, w) /\ Family(later, w.collector.dropped) /\ Len(w.stack) = 0
    <2>1. 0 \in 0..Len(open[Main])
        BY MainTree
    <2> QED BY <1>1, <2>1, CancelledTree
<1>3. w.stack = <<>>
    BY <1>2, EmptySeq DEF Sound, ViewOK
<1>4. /\ collector' = w.collector /\ open' = [t \in Tasks |-> <<>>] /\ phase' = "cancelled"
      /\ slots' = [s \in Slots |-> NoSlot] /\ saved' = saved
      /\ phase \notin {"completed", "failed"}
    BY <1>1 DEF Cancelled, Ended
<1>5. Alone(w)
    <2>1. Main \in Tasks /\ \A s \in Slots : s \in Tasks
        BY DEF Tasks
    <2> QED BY <1>3, <1>4, <2>1 DEF Alone
<1>6. SavedFits'
    BY <1>4 DEF FamilyInv, SavedFits
<1>7. UnderWay(later)'
    BY <1>4 DEF UnderWay, Exchange, BatchSoFar, CallSoFar, NoSlot
<1>8. \A i \in DOMAIN w.stack : w.stack[i].label = Label(Around(phase')[i], Main)
    BY <1>3
<1> QED BY <1>2, <1>5, <1>6, <1>7, <1>8, Settles

-----------------------------------------------------------------------------
(* The family of every trace.                                              *)

LEMMA FamilyInitially ==
    ASSUME CallsAssumption, CallsInit
    PROVE  FamilyInv
<1>1. PICK limit \in Limits : collector = NewCollector(limit)
    BY DEF CallsInit
<1>2. /\ phase = "claimed" /\ open = [t \in Tasks |-> <<>>] /\ saved = <<>>
      /\ slots = [s \in Slots |-> NoSlot] /\ collector.next = 1 /\ DOMAIN collector.completed = {}
    BY <1>1 DEF CallsInit, NewCollector
<1>3. \A t \in Tasks : DOMAIN open[t] = {}
    BY <1>2
<1>4. Main \in Tasks /\ \A s \in Slots : s \in Tasks
    BY DEF Tasks
<1>5. Named /\ Orderly /\ SavedFits
    BY <1>2, <1>3, <1>4 DEF Named, Orderly, Ascends, Within, SavedFits
<1>6. PICK tree : DOMAIN tree = {}
    <2>1. DOMAIN [n \in {} |-> 0] = {}
        OBVIOUS
    <2> QED BY <2>1
<1>7. TreeOf(tree, collector) /\ AllOpen(tree)
    BY <1>2, <1>3, <1>6 DEF TreeOf, AllOpen
<1>8. Family(tree, collector.dropped)
    BY <1>6 DEF Family, Lasting, Nested, OneCallEach, Caused, Bounded, CallsEndWithLast,
                BatchesGoWell, Of
<1>9. UnderWay(tree)
    BY <1>2 DEF UnderWay, Exchange, BatchSoFar, CallSoFar, NoSlot
<1> QED BY <1>5, <1>7, <1>8, <1>9 DEF FamilyInv

LEMMA FamilyStep ==
    ASSUME CallsAssumption, TraceInv, FamilyInv, [CallsNext]_callVars
    PROVE  FamilyInv'
<1>0. TraceInv'
    BY TraceStep
<1>1. CASE Start
    BY <1>1, StartFamily
<1>2. CASE Retrieved
    BY <1>0, <1>2, RetrievedFamily
<1>3. CASE \E answer \in ModelAnswers : PlannerReplies(answer)
    BY <1>0, <1>3, PlannerFamily
<1>4. CASE \E answer \in ModelAnswers : AuditorReplies(answer)
    BY <1>0, <1>4, AuditorFamily
<1>5. CASE \E s \in Slots : CallStarts(s)
    BY <1>5, CallStartsFamily
<1>6. CASE \E s \in Slots, answer \in ToolAnswers : ToolReplies(s, answer)
    BY <1>6, ToolRepliesFamily
<1>7. CASE \E s \in Slots, answer \in ToolAnswers : ToolRaises(s, answer)
    BY <1>7, ToolRaisesFamily
<1>8. CASE BatchEnds
    BY <1>0, <1>8, BatchEndsFamily
<1>9. CASE LoopTimesOut
    BY <1>9, LoopTimesOutFamily
<1>10. CASE Cancelled
    BY <1>10, CancelledFamily
<1>11. CASE UNCHANGED callVars
    <2>1. Named' /\ Orderly' /\ SavedFits'
        BY <1>11 DEF callVars, FamilyInv, Named, Orderly, SavedFits
    <2>2. PICK tree : /\ TreeOf(tree, collector) /\ AllOpen(tree)
                      /\ Family(tree, collector.dropped) /\ UnderWay(tree)
        BY DEF FamilyInv
    <2>3. TreeOf(tree, collector)' /\ AllOpen(tree)' /\ Family(tree, collector.dropped)'
        BY <1>11, <2>2 DEF callVars, AllOpen
    <2>4. UnderWay(tree)'
        BY <1>11, <2>2 DEF callVars, UnderWay, Exchange, BatchSoFar, CallSoFar, Inmost
    <2> QED BY <2>1, <2>2, <2>3, <2>4 DEF FamilyInv
<1> QED BY <1>1, <1>2, <1>3, <1>4, <1>5, <1>6, <1>7, <1>8, <1>9, <1>10, <1>11 DEF CallsNext

\* The spans of an execution, over or not, are in one tree in which every call, attempt
\* and request is where it was made and has the cause it needs.
THEOREM CallsAreAFamily == CallsSpec => []FamilyInv
<1>1. CallsInit => TraceInv /\ FamilyInv
    BY TraceInitially, FamilyInitially, CallsAssumption
<1>2. (TraceInv /\ FamilyInv) /\ [CallsNext]_callVars => (TraceInv /\ FamilyInv)'
    BY TraceStep, FamilyStep, CallsAssumption
<1> QED BY <1>1, <1>2, PTL DEF CallsSpec

\* The trace saved is the tree, with every span over.
LEMMA SavedIsTheTree ==
    ASSUME CallsAssumption, TraceInv, FamilyInv, NEW n \in DOMAIN saved
    PROVE  \E tree : /\ Family(tree, collector.dropped)
                     /\ DOMAIN tree = DOMAIN saved /\ \A m \in DOMAIN saved : saved[m] = tree[m]
                     /\ \A p, kind : /\ Children(p, kind) = Below(tree, p, kind)
                                     /\ Children(p, kind) # {} =>
                                           /\ Max(Children(p, kind)) \in Children(p, kind)
                                           /\ \A m \in Children(p, kind) :
                                                 m \in Nat /\ m <= Max(Children(p, kind))
<1>1. CollectorOK(collector)
    BY DEF TraceInv, SpansOK
<1>2. PICK tree : TreeOf(tree, collector) /\ Family(tree, collector.dropped)
    BY DEF FamilyInv
<1>3. /\ DOMAIN saved = 1..(collector.next - 1) /\ DOMAIN collector.completed = DOMAIN saved
      /\ \A m \in DOMAIN saved : saved[m] = collector.completed[m]
    <2>1. saved # <<>>
        OBVIOUS
    <2> QED BY <2>1 DEF FamilyInv, SavedFits
<1>4. DOMAIN tree = DOMAIN saved /\ \A m \in DOMAIN saved : saved[m] = tree[m]
    BY <1>2, <1>3 DEF TreeOf
<1>5. \A p, kind : Children(p, kind) = Below(tree, p, kind)
    BY <1>4 DEF Children, Below
<1>6. ASSUME NEW p, NEW kind, Children(p, kind) # {}
      PROVE  /\ Max(Children(p, kind)) \in Children(p, kind)
             /\ \A m \in Children(p, kind) : m \in Nat /\ m <= Max(Children(p, kind))
    <2>1. PICK k \in Nat : k = collector.next - 1
        BY <1>1, LimitTyped
    <2>2. Children(p, kind) \subseteq 0..k
        BY <1>3, <2>1 DEF Children
    <2>3. PICK N : N = Children(p, kind)
        OBVIOUS
    <2>4. Max(N) \in N /\ \A m \in N : m <= Max(N)
        BY <1>6, <2>2, <2>3, MaxIsMember
    <2> QED BY <2>2, <2>3, <2>4
<1> QED BY <1>2, <1>4, <1>5, <1>6

\* Calls run side by side, and yet the stored trace keeps them apart: an attempt is under
\* the call it belongs to, a call under a batch without another of its slot, a request
\* under the turn that made it; a call ends as its last attempt, a batch well when its
\* calls do.
THEOREM TraceKeepsCallsApart == CallsSpec => []CallsKeptApart
<1>1. ASSUME TraceInv, FamilyInv
      PROVE  CallsKeptApart
    <2> SUFFICES ASSUME NEW n \in DOMAIN saved
                 PROVE  LET span == saved[n]
                            above == saved[span.parent]
                            attempts == Children(n, "attempt")
                        IN  /\ span.label.kind = "attempt" =>
                                   above.label.kind = "call" /\ above.label.task = span.label.task
                            /\ span.label.kind = "call" =>
                                   /\ above.label.kind = "batch"
                                   /\ \A m \in Children(span.parent, "call") :
                                          saved[m].label.task = span.label.task => m = n
                                   /\ ~Truncated => attempts # {} /\ saved[Max(attempts)].status = span.status
                            /\ span.label.kind = "batch" /\ span.status = "ok" =>
                                   \A m \in Children(n, "call") : saved[m].status = "ok"
                            /\ span.label.kind = "model" => above.label.kind \in {"decision", "review"}
        BY DEF CallsKeptApart
    <2>1. PICK tree : /\ Family(tree, collector.dropped)
                      /\ DOMAIN tree = DOMAIN saved /\ \A m \in DOMAIN saved : saved[m] = tree[m]
                      /\ \A p, kind : /\ Children(p, kind) = Below(tree, p, kind)
                                      /\ Children(p, kind) # {} =>
                                            /\ Max(Children(p, kind)) \in Children(p, kind)
                                            /\ \A m \in Children(p, kind) :
                                                  m \in Nat /\ m <= Max(Children(p, kind))
        BY <1>1, SavedIsTheTree, CallsAssumption
    <2>2. Nested(tree) /\ OneCallEach(tree) /\ CallsEndWithLast(tree, collector.dropped)
          /\ BatchesGoWell(tree)
        BY <2>1 DEF Family, Lasting
    <2>3. n \in DOMAIN tree /\ saved[n] = tree[n]
        BY <2>1
    <2>4. ASSUME saved[n].label.kind = "attempt"
          PROVE  /\ saved[saved[n].parent].label.kind = "call"
                 /\ saved[saved[n].parent].label.task = saved[n].label.task
        BY <2>1, <2>2, <2>3, <2>4 DEF Nested, Of, Is
    <2>5. ASSUME saved[n].label.kind = "model"
          PROVE  saved[saved[n].parent].label.kind \in {"decision", "review"}
        BY <2>1, <2>2, <2>3, <2>5 DEF Nested, Of, Is
    <2>6. ASSUME saved[n].label.kind = "batch", saved[n].status = "ok"
          PROVE  \A m \in Children(n, "call") : saved[m].status = "ok"
        <3>1. \A m \in Below(tree, n, "call") : tree[m].status = "ok"
            BY <2>2, <2>3, <2>6 DEF BatchesGoWell, Of
        <3>2. Children(n, "call") = Below(tree, n, "call") /\ Children(n, "call") \subseteq DOMAIN saved
            BY <2>1 DEF Children
        <3> QED BY <2>1, <3>1, <3>2
    <2>7. ASSUME saved[n].label.kind = "call"
          PROVE  /\ saved[saved[n].parent].label.kind = "batch"
                 /\ \A m \in Children(saved[n].parent, "call") :
                        saved[m].label.task = saved[n].label.task => m = n
                 /\ ~Truncated => /\ Children(n, "attempt") # {}
                                  /\ saved[Max(Children(n, "attempt"))].status = saved[n].status
        <3>1. n \in Of(tree, "call")
            BY <2>3, <2>7 DEF Of
        <3>2. saved[saved[n].parent].label.kind = "batch"
            BY <2>1, <2>2, <2>3, <3>1 DEF Nested, Is
        <3>3. ASSUME NEW m \in Children(saved[n].parent, "call"),
                     saved[m].label.task = saved[n].label.task
              PROVE  m = n
            <4>1. m \in Of(tree, "call") /\ tree[m].parent = tree[n].parent /\ saved[m] = tree[m]
                BY <2>1, <2>3 DEF Children, Of
            <4> QED BY <2>2, <2>3, <3>1, <3>3, <4>1 DEF OneCallEach
        <3>4. ASSUME ~Truncated
              PROVE  /\ Children(n, "attempt") # {}
                     /\ saved[Max(Children(n, "attempt"))].status = saved[n].status
            <4>1. collector.dropped = 0
                <5>1. collector.dropped \in Nat
                    BY <1>1 DEF TraceInv, SpansOK, CollectorOK
                <5> QED BY <3>4, <5>1 DEF Truncated
            <4>2. PICK A : A = Children(n, "attempt") /\ A = Below(tree, n, "attempt")
                BY <2>1
            <4>3. PICK last \in A : tree[last].status = tree[n].status /\ \A m \in A : m <= last
                BY <2>2, <3>1, <4>1, <4>2 DEF CallsEndWithLast, EndsWithLast
            <4>4. Max(A) \in A /\ \A m \in A : m \in Nat /\ m <= Max(A)
                BY <2>1, <4>2, <4>3
            <4>5. Max(A) = last
                BY <4>3, <4>4
            <4>6. saved[last] = tree[last]
                BY <2>1, <4>2, <4>3 DEF Children
            <4> QED BY <2>3, <4>2, <4>3, <4>5, <4>6
        <3> QED BY <3>2, <3>3, <3>4
    <2> QED BY <2>4, <2>5, <2>6, <2>7
<1> QED BY <1>1, TraceSound, CallsAreAFamily, PTL

\* A call is repeated only because of what came of it before: a tool call after a failure
\* known to pass, a request after one or once after an output that did not parse, and
\* never more often than configured.
THEOREM TraceRepeatsWithCause == CallsSpec => []RepetitionsHaveCause
<1>1. ASSUME TraceInv, FamilyInv
      PROVE  RepetitionsHaveCause
    <2> SUFFICES ASSUME NEW n \in DOMAIN saved
                 PROVE  LET attempts == Children(n, "attempt")
                            requests == Children(n, "model")
                            invalid == {m \in requests : saved[m].label.note = "output_invalid"}
                        IN  /\ Cardinality(attempts) <= ToolRetries + 1
                            /\ \A m \in attempts : m # Max(attempts) => saved[m].label.note \in Retryable
                            /\ \A m \in requests : m # Max(requests) =>
                                   saved[m].label.note \in Transient \cup {"output_invalid"}
                            /\ Cardinality(invalid) <= Repairs + 1
                            /\ Cardinality(requests) <= (Repairs + 1) * MaxAttempts
        BY DEF RepetitionsHaveCause
    <2>1. PICK tree : /\ Family(tree, collector.dropped)
                      /\ DOMAIN tree = DOMAIN saved /\ \A m \in DOMAIN saved : saved[m] = tree[m]
                      /\ \A p, kind : /\ Children(p, kind) = Below(tree, p, kind)
                                      /\ Children(p, kind) # {} =>
                                            /\ Max(Children(p, kind)) \in Children(p, kind)
                                            /\ \A m \in Children(p, kind) :
                                                  m \in Nat /\ m <= Max(Children(p, kind))
        BY <1>1, SavedIsTheTree, CallsAssumption
    <2>2. Caused(tree) /\ Bounded(tree)
        BY <2>1 DEF Family, Lasting
    <2>3. PICK A, R : /\ A = Children(n, "attempt") /\ A = Below(tree, n, "attempt")
                      /\ R = Children(n, "model") /\ R = Below(tree, n, "model")
        BY <2>1
    <2>4. A \subseteq DOMAIN saved /\ R \subseteq DOMAIN saved
        BY <2>3 DEF Children
    <2>5. {m \in R : saved[m].label.note = "output_invalid"} = Invalid(tree, n)
        BY <2>1, <2>3, <2>4 DEF Invalid
    <2>6. /\ Cardinality(A) <= ToolRetries + 1 /\ Cardinality(R) <= (Repairs + 1) * MaxAttempts
          /\ Cardinality(Invalid(tree, n)) <= Repairs + 1
        BY <2>1, <2>2, <2>3 DEF Bounded
    <2>7. ASSUME NEW m \in A, m # Max(A)
          PROVE  saved[m].label.note \in Retryable
        <3>1. Max(A) \in A /\ Max(A) \in Nat /\ m \in Nat /\ m <= Max(A)
            BY <2>1, <2>3
        <3>2. m < Max(A)
            BY <2>7, <3>1
        <3>3. /\ m \in Of(tree, "attempt") /\ Max(A) \in Of(tree, "attempt")
              /\ tree[m].parent = tree[Max(A)].parent
            BY <2>3, <3>1 DEF Below, Of
        <3>4. tree[m].label.note \in Retryable
            BY <2>2, <3>2, <3>3 DEF Caused
        <3> QED BY <2>1, <2>4, <3>4
    <2>8. ASSUME NEW m \in R, m # Max(R)
          PROVE  saved[m].label.note \in Transient \cup {"output_invalid"}
        <3>1. Max(R) \in R /\ Max(R) \in Nat /\ m \in Nat /\ m <= Max(R)
            BY <2>1, <2>3
        <3>2. m < Max(R)
            BY <2>8, <3>1
        <3>3. /\ m \in Of(tree, "model") /\ Max(R) \in Of(tree, "model")
              /\ tree[m].parent = tree[Max(R)].parent
            BY <2>3, <3>1 DEF Below, Of
        <3>4. tree[m].label.note \in AsksAgain
            BY <2>2, <3>2, <3>3 DEF Caused
        <3> QED BY <2>1, <2>4, <3>4 DEF AsksAgain
    <2> QED BY <2>3, <2>5, <2>6, <2>7, <2>8
<1> QED BY <1>1, TraceSound, CallsAreAFamily, PTL
=============================================================================
