---------------------------- MODULE TracedCalls ----------------------------
(***************************************************************************)
(* The calls one execution of a run makes, and the trace it leaves: tool   *)
(* calls run side by side with retries (mcp/executor.py, client.py,        *)
(* streamable_http.py, the batch of react_loop.py), model calls with       *)
(* transient retries and one schema repair (agents/chat.py, retrying.py,   *)
(* the adapters), under the time budget of the loop, inside the spans of   *)
(* diagnosis_runtime.py.  A step runs from one await to the next.          *)
(*                                                                         *)
(* Left out: spans around a single await that neither call a tool nor a    *)
(* chat model (workflow nodes, the channels of the retrieval), the waits   *)
(* between attempts, and the second review after a revision.               *)
(***************************************************************************)
EXTENDS TraceCollector

CONSTANTS BatchLimit,    \* calls of one batch: MaxParallel of the loop
          ToolRetries,   \* retry_count of the executor
          MaxAttempts,   \* of the transient retry policy
          Repairs,       \* repair_count of the adapters
          MaxTurns,      \* turns of the planner
          Limits,        \* limits of spans to consider
          ToolAnswers,   \* what may come of a call of a tool
          ModelAnswers   \* what may come of a request to a model

ASSUME CallsAssumption ==
    /\ BatchLimit \in Nat \ {0} /\ ToolRetries \in 0..1 /\ MaxAttempts \in 1..3
    /\ Repairs \in 0..1 /\ MaxTurns \in Nat \ {0} /\ Limits \subseteq Nat \ {0}

VARIABLES phase,      \* what the execution waits for, or how it ended
          turn,       \* turns of the planner so far
          collector,  \* RunTraceCollector
          open,       \* spans entered and not left, per asyncio task, inmost last
          slots,      \* calls of the batch
          chat,       \* the exchange with a model in progress
          saved,      \* the trace stored with the outcome of the run
          cause       \* history: the exception that failed the run

callVars == <<phase, turn, collector, open, slots, chat, saved, cause>>

Main == 0
Slots == 1..BatchLimit
Tasks == {Main} \cup Slots

-----------------------------------------------------------------------------
(* Answers.                                                                *)

\* extract_payload: a tool that reports an error, or text that is no JSON object.
PayloadCode(answer) == IF answer \in {"tool_error", "no_payload"} THEN "INTERNAL_ERROR" ELSE "none"

\* _classify_transport_failure; stdio knows no denial.
TransportCode(answer) ==
    CASE answer = "denied" -> "PERMISSION_DENIED"
      [] answer = "timeout" -> "TIMEOUT"
      [] answer = "unreachable" -> "SERVICE_UNAVAILABLE"
      [] OTHER -> "none"

\* What the executor records of a call: the code of the McpClientError, or of the
\* response, which may report the same failures by itself.
ToolCode(answer) ==
    IF TransportCode(answer) # "none" THEN TransportCode(answer) ELSE PayloadCode(answer)
\* A payload that is no McpToolResponse raises an error the executor does not expect.
Raises(answer) == answer = "malformed"
Retryable == {"TIMEOUT", "SERVICE_UNAVAILABLE"}

\* How a request to a chat model ends, as recorded; "odd" is a decision whose
\* token counts do not add up, which the measurement refuses by raising.
Transient == {"timeout", "connection_error", "throttled"}
AgentErrors == Transient \cup {"output_invalid", "refused", "http_error"}
CallStatuses == {"succeeded"} \cup AgentErrors

-----------------------------------------------------------------------------
(* Spans of a task: trace_span over the ContextVar of its parent.          *)

Label(kind, task) == [kind |-> kind, task |-> task, note |-> "none"]

\* What a step of task t works on.
View(t) == [collector |-> collector, stack |-> open[t], task |-> t,
            outer |-> IF t = Main THEN <<>> ELSE open[Main]]

Numbers(frames) == {frames[i].number : i \in DOMAIN frames}
ParentShared(v) == IF v.collector.next > v.collector.limit THEN v.collector.limit
                                                         ELSE v.collector.next - 1
\* The context of a tool call is a copy of the context of the batch; a span
\* that is not recorded leaves the outer parent in place.
Parent(v) == Max({0} \cup Numbers(v.outer) \cup Numbers(v.stack))

Enter(v, kind) ==
    [v EXCEPT !.collector = Reserved(v.collector),
              !.stack = Append(@, [number |-> Number(v.collector), parent |-> Parent(v),
                                   label |-> Label(kind, v.task)])]

LeaveNoted(v, status, note) ==
    LET frame == Last(v.stack)
    IN  [v EXCEPT !.collector = Finished(@, frame.number, frame.parent, status,
                                         [frame.label EXCEPT !.note = note]),
                  !.stack = Front(@)]
Leave(v, status) == LeaveNoted(v, status, "none")

\* Leaving every span above depth, as an exception or a cancellation does.
UnwoundSilently(v, depth, status) ==
    LET left[n \in 0..(Len(v.stack) - depth)] ==
            IF n = 0 THEN v
            ELSE IF status = "cancelled" THEN [left[n - 1] EXCEPT !.stack = Front(@)]
            ELSE Leave(left[n - 1], status)
    IN  left[Len(v.stack) - depth]
Unwound(v, depth, status) ==
    LET left[n \in 0..(Len(v.stack) - depth)] ==
            IF n = 0 THEN v ELSE Leave(left[n - 1], status)
    IN  left[Len(v.stack) - depth]

Becomes(v) == /\ collector' = v.collector
              /\ open' = [open EXCEPT ![v.task] = v.stack]

-----------------------------------------------------------------------------
NoSlot == [state |-> "unused", attempt |-> 0]
NoChat == [attempt |-> 0, repaired |-> FALSE]
FirstRequest == [attempt |-> 1, repaired |-> FALSE]
Ended == {"completed", "failed", "cancelled"}

CallsInit ==
    /\ phase = "claimed" /\ turn = 0
    /\ \E limit \in Limits : collector = NewCollector(limit)
    /\ open = [t \in Tasks |-> <<>>]
    /\ slots = [s \in Slots |-> NoSlot]
    /\ chat = NoChat
    /\ saved = <<>> /\ cause = "none"

\* _execute_traced_run up to the retrieval of the evidence.
Start ==
    /\ phase = "claimed"
    /\ Becomes(Enter(Enter(View(Main), "run"), "retrieval"))
    /\ phase' = "retrieving"
    /\ UNCHANGED <<turn, slots, chat, saved, cause>>

Planning(v) ==
    /\ Becomes(Enter(v, "decision"))
    /\ phase' = "planning" /\ turn' = turn + 1 /\ chat' = FirstRequest
    /\ slots' = [s \in Slots |-> NoSlot]
    /\ UNCHANGED <<saved, cause>>

\* The loop is over, by a decision, by a failure of the planner or by the time
\* budget; the report is drafted and sent to the auditor.
Auditing(v) ==
    /\ Becomes(Enter(v, "review"))
    /\ phase' = "auditing" /\ chat' = FirstRequest
    /\ slots' = [s \in Slots |-> NoSlot]
    /\ UNCHANGED <<turn, saved, cause>>

\* An exception nobody expects passes through every span to fail_run.
Fails(v, why) ==
    LET after == Unwound(v, 0, "error")
    IN  /\ Becomes(after)
        /\ phase' = "failed" /\ cause' = why
        /\ saved' = Snapshot(after.collector)
        /\ chat' = NoChat /\ slots' = [s \in Slots |-> NoSlot]
        /\ UNCHANGED turn

Retrieved ==
    /\ phase = "retrieving"
    /\ \/ Planning(Enter(Leave(View(Main), "ok"), "workflow"))
       \/ Fails(View(Main), "retrieval")

-----------------------------------------------------------------------------
(* Model calls.                                                            *)

\* record_completed_span of the measurement, under the decision or the review.
Measured(v, status) ==
    [v EXCEPT !.collector =
        SpanRecorded(@, Parent(v), IF status = "succeeded" THEN "ok" ELSE "error",
                     [Label("model", Main) EXCEPT !.note = status])]

\* The next request: another attempt, or the repair, which has attempts of its own.
MayRetry(status) == status \in Transient /\ chat.attempt < MaxAttempts
MayRepair(status) == status = "output_invalid" /\ ~chat.repaired /\ Repairs = 1

AnswersAgain(status) ==
    /\ MayRetry(status) \/ MayRepair(status)
    /\ Becomes(Measured(View(Main), status))
    /\ chat' = IF MayRetry(status) THEN [chat EXCEPT !.attempt = @ + 1]
                                   ELSE [attempt |-> 1, repaired |-> TRUE]
    /\ UNCHANGED <<phase, turn, slots, saved, cause>>

\* The decision of the planner: more calls, or the end of the loop.
Decides(v) ==
    \/ /\ turn < MaxTurns
       /\ \E n \in Slots :
              slots' = [s \in Slots |-> IF s <= n THEN [NoSlot EXCEPT !.state = "created"]
                                                  ELSE NoSlot]
       /\ Becomes(Enter(v, "batch"))
       /\ phase' = "acting" /\ chat' = NoChat
       /\ UNCHANGED <<turn, saved, cause>>
    \/ Auditing(v)

\* The report has its outcome, audited or degraded; the run is completed.
Completes(v) ==
    LET after == Unwound(v, 0, "ok")
    IN  /\ Becomes(after)
        /\ phase' = "completed" /\ saved' = Snapshot(after.collector)
        /\ chat' = NoChat
        /\ UNCHANGED <<turn, slots, cause>>

\* The exchange is over: decide or review returns, or raises an error of the agent.
Answered(status) ==
    Leave(Measured(View(Main), status), IF status = "succeeded" THEN "ok" ELSE "error")
IsLast(status) == ~MayRetry(status) /\ ~MayRepair(status)

PlannerReplies(answer) ==
    /\ phase = "planning"
    /\ \/ answer = "odd" /\ Fails(View(Main), "usage")
       \/ answer \in CallStatuses /\ AnswersAgain(answer)
       \/ answer = "succeeded" /\ Decides(Answered(answer))
       \/ answer \in AgentErrors /\ IsLast(answer) /\ Auditing(Answered(answer))

AuditorReplies(answer) ==
    /\ phase = "auditing"
    /\ \/ answer = "odd" /\ Fails(View(Main), "usage")
       \/ answer \in CallStatuses /\ AnswersAgain(answer)
       \/ answer \in CallStatuses /\ IsLast(answer) /\ Completes(Answered(answer))

-----------------------------------------------------------------------------
(* Tool calls.                                                             *)

\* gather starts its tasks in their order; each runs to its first await.
CallStarts(s) ==
    /\ phase = "acting" /\ slots[s].state = "created"
    /\ \A earlier \in 1..(s - 1) : slots[earlier].state # "created"
    /\ Becomes(Enter(Enter(View(s), "call"), "attempt"))
    /\ slots' = [slots EXCEPT ![s] = [state |-> "calling", attempt |-> 1]]
    /\ UNCHANGED <<phase, turn, chat, saved, cause>>

\* execute: one attempt is over; another, or the observation.
MayTryAgainAlways(s, code) == code # "none" /\ slots[s].attempt <= ToolRetries
MayTryAgain(s, code) == code \in Retryable /\ slots[s].attempt <= ToolRetries

ToolReplies(s, answer) ==
    LET code == ToolCode(answer)
        status == IF code = "none" THEN "ok" ELSE "error"
        v == LeaveNoted(View(s), status, code)
    IN  /\ phase = "acting" /\ slots[s].state = "calling" /\ ~Raises(answer)
        /\ IF MayTryAgain(s, code)
           THEN /\ Becomes(Enter(v, "attempt"))
                /\ slots' = [slots EXCEPT ![s].attempt = @ + 1]
           ELSE /\ Becomes(Leave(v, status))
                /\ slots' = [slots EXCEPT ![s].state = status]
        /\ UNCHANGED <<phase, turn, chat, saved, cause>>

ToolRaises(s, answer) ==
    /\ phase = "acting" /\ slots[s].state = "calling" /\ Raises(answer)
    /\ Becomes(Unwound(View(s), 0, "error"))
    /\ slots' = [slots EXCEPT ![s].state = "raised"]
    /\ UNCHANGED <<phase, turn, chat, saved, cause>>

\* The batch is over when every call is; the first that raised raises again.
BatchEnds ==
    /\ phase = "acting"
    /\ \A s \in Slots : slots[s].state \notin {"created", "calling"}
    /\ IF \E s \in Slots : slots[s].state = "raised"
       THEN Fails(View(Main), "tool")
       ELSE Planning(Leave(View(Main), IF \E s \in Slots : slots[s].state = "error"
                                       THEN "error" ELSE "ok"))

-----------------------------------------------------------------------------
(* Cancellation: the calls of the batch first, then the task that waits    *)
(* for them.  A call that has not started never runs.                      *)

CallsCancelled ==
    LET after[s \in 0..BatchLimit] ==
            IF s = 0 THEN collector
            ELSE Unwound([View(s) EXCEPT !.collector = after[s - 1]], 0, "cancelled").collector
    IN  after[BatchLimit]
CancelledTo(depth) ==
    Unwound([View(Main) EXCEPT !.collector = CallsCancelled], depth, "cancelled")

\* The time budget of the loop: its spans are left, down to the workflow.
LoopTimesOut ==
    LET after == Enter(CancelledTo(2), "review")
    IN  /\ phase \in {"planning", "acting"}
        /\ collector' = after.collector
        /\ open' = [t \in Tasks |-> IF t = Main THEN after.stack ELSE <<>>]
        /\ phase' = "auditing" /\ chat' = FirstRequest
        /\ slots' = [s \in Slots |-> NoSlot]
        /\ UNCHANGED <<turn, saved, cause>>

\* The worker cancels the execution; nothing is stored.
Cancelled ==
    /\ phase \notin Ended \cup {"claimed"}
    /\ collector' = CancelledTo(0).collector
    /\ open' = [t \in Tasks |-> <<>>]
    /\ phase' = "cancelled" /\ chat' = NoChat
    /\ slots' = [s \in Slots |-> NoSlot]
    /\ UNCHANGED <<turn, saved, cause>>

-----------------------------------------------------------------------------
CallsNext ==
    \/ Start
    \/ Retrieved
    \/ \E answer \in ModelAnswers : PlannerReplies(answer)
    \/ \E answer \in ModelAnswers : AuditorReplies(answer)
    \/ \E s \in Slots : CallStarts(s)
    \/ \E s \in Slots, answer \in ToolAnswers : ToolReplies(s, answer)
    \/ \E s \in Slots, answer \in ToolAnswers : ToolRaises(s, answer)
    \/ BatchEnds
    \/ LoopTimesOut
    \/ Cancelled

CallsSpec == CallsInit /\ [][CallsNext]_callVars

-----------------------------------------------------------------------------
(* Properties.                                                             *)

Kinds == {"run", "retrieval", "workflow", "decision", "review", "batch", "call",
          "attempt", "model"}
Codes == {"none", "PERMISSION_DENIED", "INTERNAL_ERROR"} \cup Retryable
Labels == [kind : Kinds, task : Tasks, note : Codes \cup CallStatuses]

\* The variables hold what the code's objects can hold.
CallsTyped ==
    /\ phase \in {"claimed", "retrieving", "planning", "acting", "auditing"} \cup Ended
    /\ turn \in 0..MaxTurns
    /\ collector.limit \in Limits /\ collector.dropped \in Nat
    /\ collector.next \in 1..(collector.limit + 1)
    /\ DOMAIN collector.completed \subseteq 1..(collector.next - 1)
    /\ \A n \in DOMAIN collector.completed :
           collector.completed[n] \in
               [parent : 0..(n - 1), status : SpanStatuses, label : Labels]
    /\ \A t \in Tasks : \A i \in DOMAIN open[t] :
           open[t][i] \in [number : 0..collector.limit, parent : 0..collector.limit,
                           label : Labels]
    /\ slots \in [Slots -> [state : {"unused", "created", "calling", "ok", "error", "raised"},
                            attempt : 0..(ToolRetries + 1)]]
    /\ chat \in [attempt : 0..MaxAttempts, repaired : BOOLEAN]
    /\ cause \in {"none", "retrieval", "usage", "tool"}

\* Whenever the trace is exported, with whatever spans still open and whatever
\* was dropped, it is one tree whose parents come first: the contract RunTrace
\* enforces, on export and each time the trace is read back.
AlwaysATree == IsRunTrace(Snapshot(collector))

\* The trace stored with an outcome has no gap, although tasks ended in any order,
\* were cancelled or raised: each number given has its span, the first is the
\* whole run and tells how it ended.
SavedIsWhole ==
    phase \in {"completed", "failed"} =>
        /\ Len(saved) = collector.next - 1
        /\ saved[1].label.kind = "run"
        /\ saved[1].status = IF phase = "completed" THEN "ok" ELSE "error"

Children(n, kind) == {m \in DOMAIN saved : saved[m].parent = n /\ saved[m].label.kind = kind}
Truncated == collector.dropped > 0

\* Calls run side by side, and yet the stored trace keeps them apart: an attempt
\* is under the call it belongs to, a call under a batch that has no other call
\* of that slot, a request under the decision or the review that made it; and a
\* call went well exactly when its last attempt did, a batch when every call did.
CallsKeptApart ==
    \A n \in DOMAIN saved :
        LET span == saved[n]
            above == saved[span.parent]
            calls == Children(n, "call")
            attempts == Children(n, "attempt")
        IN  /\ span.label.kind = "attempt" =>
                   above.label.kind = "call" /\ above.label.task = span.label.task
            /\ span.label.kind = "call" =>
                   /\ above.label.kind = "batch"
                   /\ \A m \in Children(span.parent, "call") :
                          saved[m].label.task = span.label.task => m = n
                   /\ ~Truncated => attempts # {} /\ saved[Max(attempts)].status = span.status
            /\ span.label.kind = "batch" /\ span.status = "ok" =>
                   \A m \in calls : saved[m].status = "ok"
            /\ span.label.kind = "model" => above.label.kind \in {"decision", "review"}

\* A call is repeated only because of what came of it before: a tool call after a
\* failure known to pass, a request to a model after one, or once after an output
\* that did not parse; an answer is never asked for again.
RepetitionsHaveCause ==
    \A n \in DOMAIN saved :
        LET attempts == Children(n, "attempt")
            requests == Children(n, "model")
            invalid == {m \in requests : saved[m].label.note = "output_invalid"}
        IN  /\ Cardinality(attempts) <= ToolRetries + 1
            /\ \A m \in attempts : m # Max(attempts) => saved[m].label.note \in Retryable
            /\ \A m \in requests : m # Max(requests) =>
                   saved[m].label.note \in Transient \cup {"output_invalid"}
            /\ Cardinality(invalid) <= Repairs + 1
            /\ Cardinality(requests) <= (Repairs + 1) * MaxAttempts

\* What a comment of diagnosis_runtime.py asks for: telemetry never changes how a
\* run ends.
TelemetryIsNeutral == cause # "usage"

\* What McpToolClient.call_tool promises: a call that comes to no valid response
\* raises McpClientError, which the executor records, and so fails no run.
ToolFailuresAreObserved == cause # "tool"
=============================================================================
