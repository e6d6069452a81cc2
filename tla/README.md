# DataOps-Troubleshooter in TLA+

DataOps-Troubleshooter answers questions about broken data pipelines. A client
opens a session and submits messages; every message becomes a *run* in a
PostgreSQL queue; worker processes claim runs, let a planner model collect
evidence through MCP tools (the ReAct loop), have the report audited by a second
model, and record the outcome, a public timeline and the next checkpoint of the
session. Accepted reports are staged into a long-term case memory, which users
confirm, reject or delete, and whose confirmed cases are mirrored in a knowledge
graph.

This directory holds the formal model of that system: specifications, TLC
configurations, and proofs for TLAPS. `PROJECT.json` relates every definition to the
lines of the source it stands for, every property to a fault in the code that
would break it, and every hazard of the code to the properties that watch it.

## 1. Inventory

State, operations, interactions, hard behaviour and correctness, per component.
The last line names the modules.

### Run queue and worker: `app/persistence/run_repository.py`, `app/orchestration/diagnosis_worker.py`

* State: rows of `diagnosis_sessions`, `agent_runs` (status, attempt_count,
  lease_owner, lease_expires_at), `run_events`, `session_checkpoints`; in a worker
  process, the loop task, the claim it watches and the asyncio task executing it.
* Operations: create_session, create_run, claim_next_run, fail_exhausted_runs,
  renew_lease, complete_run, fail_run, cancel_run; run_once, the heartbeat loop,
  start and stop.
* Interactions: the API creates and cancels rows; any number of worker processes
  share the queue through row locks (`FOR UPDATE SKIP LOCKED`) and leases; the
  execution calls back into the repository with the id of its worker as a fence.
* Hard: take-over of a run whose worker is slow, not dead; executions nobody
  watches any more; cancellation against completion; commits whose acknowledgement
  is lost; clock readings older than the transaction that uses them; attempts at
  their limit.
* Correct when: one run in flight per session; a run ends once, with exactly the
  timeline of its outcome; the outcome is by the worker that claimed the run last;
  checkpoints count completed runs and never regress; every run ends.
* Modelled: `RunQueue`, abstractly `RunLifecycle`.

### Diagnosis runtime: `app/orchestration/diagnosis_runtime.py`

* State: none of its own between calls; one execution holds the restored checkpoint.
* Operations: submit_message, resume_run, cancel_run, get_*, execute_claimed_run.
* Hard: the order restore - retrieve - workflow (which commits the case memory) -
  build checkpoint - complete, with an except branch that reads the row again and
  fails the run; each is a transaction of its own.
* Modelled in `RunQueue`, as the steps of an execution.

### Case memory and case graph: `app/memory/service.py`, `repository.py`, `runtime.py`, `graph_registration.py`

* State: `case_memories`, `memory_evidence`, and the case nodes and `SIMILAR_TO`
  edges in `knowledge_nodes` and `knowledge_edges`.
* Operations: stage (merge or insert), decide, delete, search, counts.
* Interactions: workers stage at the end of a workflow, API requests decide and
  delete, GraphRAG reads the graph.
* Hard: look-up and insert under an advisory lock; merges against decisions;
  registration that reads neighbours it has not locked and writes them later.
* Correct when: a case counts distinct runs; a verdict changes only by a user; an
  insert never collides; confirmed cases, and only they, are in the graph.
* Modelled: `CaseMemory`, abstractly `CaseLedger`.

### Session checkpoint: `app/memory/checkpoint.py`

* State: one row per session: version, source run, and bounded windows of plan,
  evidence, tool events, hypotheses and paths, with the last report.
* Operations: build from the final state of a run, restore into the next one.
* Hard: the windows are cut one by one, so that what refers to each other ages apart;
  the former calls a run must not repeat are rebuilt from a window.
* Correct when: it is the end of what completed runs did, and of nothing else; a run
  does not ask again what the window holds.
* Modelled: version and source in `RunQueue`, the windows in `DiagnosisSession`.

### ReAct loop: `app/orchestration/react_loop.py`

* State: agent state (step counter, evidence, tool events, hypotheses, closing turn),
  pending batch, action fingerprints, public events.
* Operations: capability selection, planner turn, execution of a batch, routing.
* Hard: the order of the planner's gates, the closing turn, duplicates inside and
  across batches, failures inside a parallel batch, the total time-out.
* Correct when: no more than max_steps calls, no call twice in a run or again in a
  run that restores its events, a hypothesis counts as supported only while an
  observation backs it, the graph's recursion limit never decides, the loop ends.
* Modelled: `ReactLoop`, with `HypothesisUpdates`.

### Report workflow: `app/orchestration/report_workflow.py`, `app/reporting/*`

* State: draft, audit result, revision count, outcome. Operations: draft, audit,
  revise, degrade. Hard: an auditor that fails, verdicts overruled by the policy,
  objections whose path names one item, a slice, a field or nothing known.
* Correct when: an accepted report was accepted by the last audit of that very
  draft and passes the policy, a revision removes what was objected to and no more,
  nothing is added after the draft, a degraded report claims nothing.
* Modelled: `Reporting` (the four services), `ReportWorkflow` (the graph).

### Diagnosis workflow: `app/orchestration/diagnosis_workflow.py`, `diagnosis_models.py`, `app/memory/matcher.py`, `app/capabilities/*`

* State: what one run hands from stage to stage: request, evidence bundle, agent state,
  recalled cases and their comparison, report, memory result.
* Operations: recall cases if asked for, ReAct with the tools the request allows,
  compare the cases with the findings, report, stage.
* Hard: users confirm and delete cases meanwhile; a comparison made before the
  tools were asked; checks between the stages that refuse a finished run.
* Correct when: what a report says of a case fits its findings; no stage refuses what
  another one hands on.
* Modelled: `DiagnosisSession`.

### Run event stream: `app/api/streaming.py`

* State: cursor, last status sent, deadline. Hard: reads the run, then its events,
  in two transactions, against a queue that commits both at once; reconnection.
* Interactions: the queue and the workers commit what it reads; the browser's
  EventSource takes its frames and reconnects with the id of the last one.
* Correct when: every event is delivered once and in order over reconnections, and
  a terminal frame comes after the last event.
* Modelled: `RunStream`.

### Demo page: `app/static/demo/app.js`

* State: the current run, the EventSource and whether it delivered a frame, the
  poll timer; on display, a status and a timeline.
* Operations: submit, cancel, resume, refresh; the handlers of the stream, the
  fallback to polling, the poll.
* Hard: refreshes that overlap with the stream and with one another, answers that come
  when another run is current, two requests for what the server commits at once.
* Correct when: a run is followed until it has ended, and no longer; no event is shown
  twice; what is on display in the end is the run as recorded.
* Modelled: `DemoPage`; the cards of the report, the trace, the health and the memory are
  left out.

### API security: `app/api/security.py`

* State: a window of request times per identity, in LRU order, at most 4096.
* Operations: check (admit or refuse with a Retry-After), eviction, the token test, the
  tests of the settings at the start.
* Hard: entries that expire at the tick of a request, eviction while windows are full.
* Correct when: the table keeps its size; no identity passes more than its quota in a
  window while it is tracked; a Retry-After is neither too short nor too long.
* Modelled: `RateLimiter`.

### API application: `app/api/main.py`

* State: what a process holds open (embedding, reranker, MCP client, database
  engine, two agents), the worker, the counts that `/health` shows.
* Operations: the lifespan; the middleware; routes that decide a case and refresh
  the counts; routes that translate HTTP to the runtimes above.
* Hard: a start that fails anywhere, closes that raise, executions still running;
  counts read after one decision and published after another.
* Correct when: nothing is closed under the worker's execution, and everything that was
  opened is closed; each change the counts miss has a reason.
* Modelled: `ApiService`. Routes that only read are one action.

### Trace collector: `app/observability/tracing.py`, `model_calls.py`

* State: next sequence number, completed spans, number of dropped spans; per task, the
  parent in a ContextVar.
* Operations: open, annotate, finish, record, snapshot; the measurement of a model call.
* Hard: spans of calls that run side by side, a cancelled batch, the limit of spans.
* Correct when: a snapshot at any moment, of any interleaving of spans, is one tree
  with consecutive numbers, and keeps the calls apart.
* Modelled: `TraceCollector`, and `TracedCalls`, which makes the spans.

### Model adapters, MCP client and executor: `app/agents/*`, `app/mcp/*`

* State: attempts left. Operations: a tool call with its one retry, a request to a
  model with transient retries inside a repair of its output, classification of failures.
* Hard: repetitions that multiply; failures that are no exception and exceptions nobody expects.
* Correct when: a call is repeated only because of what came of it before.
* Modelled: `TracedCalls`. HTTP, the parsing of answers, the merge of observations and the
  sessions of the transports are left out; prompts keep no state.

### Retrieval and evidence budget: `app/retrieval/*`

* State: knowledge graph and imported chunks in the database; one retrieval holds
  candidates, scores, paths.
* Operations: chunk a document; search two channels; rerank or degrade; expand paths;
  build the bundle.
* Hard: each statement sees another state of the graph; the answer of the reranker is in
  its own order, or incomplete; a greedy selection under four limits.
* Correct when: chunks are the document and fit; scores belong to their items; a bundle
  is legal and maximal; a retrieval fails for known reasons only.
* Modelled: `DocumentChunks`, `EvidenceBundle`, `EvidenceRetrieval`.

### Not modelled

* Evaluation (`app/evaluation`, and the evaluation modules of memory, orchestration and
  retrieval): offline measurements, no part of the running service.
* MCP server (`mcp_server`): nine stateless read-only tools over fixtures.
* Prompts, prompt context, factories: text assembly without state.
* Metrics: they only read what other parts record.
* Migrations and seeds: DDL and one-off loading; the constraints they create are
  `ConstraintsAreMet` and `InsertNeverConflicts`.
* Domain models and settings: declarations; the validators that decide control are in
  `ApiService` and `DiagnosisSession`, the limits are constants of the models.
* The mapping of errors to HTTP status codes in the routes; the texts, confidence and
  public events of a report.
* That nothing bounds a whole execution (`diagnosis_worker.py:147`): the heartbeat renews
  the lease of a call that never returns. `EveryRunEnds` assumes that calls return.
* That two similar cases confirmed at the same time do not see each other, so that no edge
  joins them until one is registered again (`graph_registration.py:226`): similarity is an
  arbitrary choice in `CaseMemory`, not a relation of the two cases.

## 2. Modules

| Module | Contents |
| --- | --- |
| `RunLifecycle` | what the queue promises: phases of a run, its session, the checkpoint saved on completion |
| `RunQueue` | the queue, the workers and their executions |
| `MCRunQueue` | instances of it for TLC |
| `RunQueueProofs` | inductive invariant and safety theorems of the queue; it implements `RunLifecycle` |
| `CaseLedger` | what the case memory promises: atomic stage, decide, delete |
| `CaseMemory` | its transactions, row locks, and the case graph |
| `MCCaseMemory` | instances of it for TLC |
| `CaseMemoryProofs` | inductive invariant and safety theorems of the case memory; it implements `CaseLedger`; why a retrieval fails |
| `Selections` | the items of a sequence one keeps, as an operator |
| `SelectionProofs` | lemmas about selections, and induction over a set of numbers |
| `HypothesisUpdates` | how a decision changes the hypotheses, as operators |
| `ReactLoop` | one run of the planner loop |
| `MCReactLoop` | instances of it for TLC |
| `ReactLoopProofs` | inductive invariants and safety theorems of the loop, and of the trace its calls leave |
| `Reporting` | draft, policy, revision and degradation of a report, as operators |
| `ReportWorkflow` | the graph that audits a report with them |
| `MCReportWorkflow` | an instance of it for TLC: what runs may report on |
| `ReportWorkflowProofs` | theorems about the reports that leave the graph |
| `StreamBounds` | runs, events and dropped connections: the bounds the next two share |
| `RunStream` | the stream of a run: the server's generator, the frames, the EventSource |
| `DemoPage` | the page that follows its runs by stream and by polling |
| `DemoPageProofs` | inductive invariants and theorems of the stream, and of the page that uses it |
| `DiagnosisSession` | the turns of a session: workflow, checkpoint windows, recalled cases |
| `MCDiagnosisSession` | instances of it for TLC |
| `DiagnosisSessionProofs` | inductive invariant and safety theorems of the session |
| `TraceCollector` | the collector of spans, as operators |
| `TracedCalls` | the tool and model calls of an execution with their retries, and the trace they leave |
| `DocumentChunks` | how a document is cut, as operators |
| `EvidenceBundle` | ranking, fallback and greedy budget, as operators |
| `EvidenceRetrieval` | one retrieval, statement by statement, while cases change |
| `MCRetrieval` | an instance of it for TLC: a graph, scores, documents |
| `RateLimiter` | the sliding windows of the identities |
| `ApiService` | a process of the API: lifespan, middleware, counts; extends `RateLimiter` |
| `MCApiService` | an instance of it for TLC: the settings of a start |
| `ApiServiceProofs` | theorems about the table, the quota, Retry-After, the end of a process and the counts |

### RunQueue

`run[r]` is the row of run `r`; runs are numbered in the order of `created_at`, which
is the order claim_next_run serves them in. `timeline[r]` is the sequence of its event types,
`checkpoint[s]` the version and source run of session `s`, `worker[w]` whether process
`w` polls, watches a job or is gone, and `execution[<<r, a>>]` the asyncio task that
attempt `a` of run `r` started. A task outlives the interest of its worker: after
`RenewRaises` it goes on with nobody watching, which is what the code does.

An action is one transaction or one step between two awaits. A claim is atomic,
as in the code; `locked` is the set of rows another transaction holds at that
moment, which SKIP LOCKED passes over, and it is arbitrary. Each of complete_run, fail_run
and the claim may commit and lose its acknowledgement.

Time: a lease is kept as the ticks left, so that time has no bound. `now` is read
before the transaction in the code; `lag` is the age of that reading, at most
`MaxLag`. A lease never needs to be tracked below `-MaxLag`, when all readings agree
that it expired.

`writer[r]` is a history variable: the attempt whose execution recorded the outcome.
`staged` is the set of runs whose report the workflow committed to the case memory.

Correspondence of actions: `CreateSession`, `SubmitMessage`, `ResumeRun`, `CancelRun` are
the API's calls; `RunOnceReaps` and `RunOnceClaims` are run_once; `RenewLease`, `LoseLease`,
`RenewRaises`, `Settle` the exits of the heartbeat loop; `Stop` and `Crash` the end of a process;
`ReadCheckpoint` to `FailRunRaises` the steps of execute_claimed_run.

### CaseMemory

`memory[k]` is the row of case `k` with the runs linked to it; a case is identified by
its signature, from which memory_id and node_id derive. Its text is the set of `Facts`
merged into it. `node[k]` is the set of facts the case node shows, `edges` the pairs
joined by SIMILAR_TO (both directions are always written by the same transaction,
which holds both nodes). Each client runs one transaction at a time; what it
writes stays in `tx[c]` until `Commit`, as READ COMMITTED isolation demands. Locks
are read off the transaction: the scope of its candidate (the advisory lock), its
`rows` (FOR UPDATE), the nodes it wrote or dropped. `Abort` is possible at any step:
the embedding provider raises, a deadlock is broken, the client disconnects.

Similarity is left open: find_similar may or may not accept the nearest case, and
any set of confirmed cases may be the neighbours. The limit of twenty neighbours is not
modelled. The memory is one the code has written from its start: cases confirmed by
versions that had no graph are not in it.

### ReactLoop

The variables are the last state the graph streamed. A node works on a copy, which
replaces that state when the node returns; the total time-out cancels the node
and the copy is lost. So a decision is two actions: `AskPlanner` up to the await, the
disjuncts of `PlannerReturns` after it; and a batch is two as well, `StartBatch` and
`BatchReturns`, with the calls already made (`calls`, a history variable) and not yet
written back in between. `closing` remembers that the awaited turn is the closing one: the
flag `closing_turn_used` is written with the result of the node, and a time-out drops it.

`Timeout` may strike at any node once one state was streamed; before that
(`TimeoutBeforeSelection`) there is no state to return and the run raises. `NodeRaises` is an
exception no node expects, one call of a parallel batch raising included: the
whole batch is lost; so is the `ValueError` with which the merge of evidence or tool events refuses an id it knows
with another content. When that happens, which takes contents, is left open. `OutOfTime` is the planner node finding its deadline passed.

The planner may answer anything its schema admits: any updates, any batch of up
to one action more than allowed, tools that are not allowed, other trace ids,
duplicates, references the state does not hold. An answer that is refused is
represented by the reason (`Refusals`), the first fault in the order of the code. The
events a call with retries leaves are one entry with the number of attempts. An
observation is identified by the run and the query that made it. The branch that
stops *before* a turn because the closing turn was used is not modelled: no
path leads back to the planner after that turn, which TLC and `LoopInv` confirm.

### Reporting and ReportWorkflow

A context is what a run has to report on: hypotheses, observations, graph nodes, paths,
solutions, confirmed cases. Of the texts only the root cause is kept, by which
the policy finds the hypothesis of a conclusion; remarks (`uncertainties`) are counted;
summary and risks are functions of the rest and left out. A claim path is a field and a set of
items, empty for the whole field; `"unknown"` is any path the reviser cannot parse.
The step a report falls back to when nothing else is left is `ReadOnlyStep`, for the
builder's wording and the reviser's alike. A case cites itself and the
observations; the limit of seven of them is left out.

`DraftReport`, `AuditorAnswers`, `AuditorFails`, `ReviseReport`, `DegradeReport` are the nodes; an audit
has three ends, of which the failure of the auditor degrades the report within the
same node. `endorsed` is a history variable: the drafts the auditor accepted. A fresh run
starts with no revision made.

### RunStream and DemoPage

`row[r]` is what the stream and the page can see of a run: its status and the number of
its events, which are committed together. `conn` is the server's generator of the one
connection that is open: `GetRun` and `GetEvents` are its two transactions, `cursor` and
`read` what it keeps between them. `wire` holds the frames not yet taken. `source` is
the EventSource with the id it would send on a reconnection, `received` the history of
what it delivered. A connection whose time is up (`GetEvents`, second disjunct) and one
the network drops (`Break`) may occur at any turn; keep-alive comments are left out, and so is
the frame for a run that has disappeared, since nothing deletes runs.

The page adds what app.js keeps. Each handler and button is one action; where
it awaits, it is cut: a call of `refreshRun` is an entry of `calls`, its two
requests are answered in any order (`ReadRun`, `ReadEvents`), and `Render` shows
both, when both are there, and sets the next timer of a poll. `timers` is the set
of runs with a pending setTimeout, `pollTimer` the run of the last one, which is all
that clearTimeout can reach. Submission, resumption and cancellation are one step with
their answer. A browser without EventSource polls as one whose stream was refused
does (`OnErrorBeforeFrames`).

### DiagnosisSession

One session, run after run (that its runs do not overlap is a theorem of `RunQueue`). `state` is
what the agent state holds of the run: hypotheses, evidence and events, of which
the first may be restored. An observation names the run and the query that made it, an event
the run, the query and the attempt. `Begin` to `Save` are the nodes of the workflow
and the code around it; the loop is reduced to the calls the gates of `ReactLoop` let pass and
to one update of the hypotheses at its end, the report to an accepted draft or
revision and a degraded one, with the operators of `Reporting` and `HypothesisUpdates`. `Fail` is any
failure or cancellation, `Decide` a user of any session. A case is named by its root
cause, and texts match when the causes are equal. `log` is history: all that completed
runs observed.

### TraceCollector and TracedCalls

A span is its number, its parent, its status and a label that tells what it is about.
`open` holds the spans each asyncio task has entered: its last entry is the ContextVar, and a task
of a batch starts with that of the main task. `slots` are the calls of a batch, `chat`
the exchange with a model. A step runs from one await to the next, so that the
calls of a batch answer in any order. `LoopTimesOut` and `Cancelled` unwind what is open with the
status the code gives it; `saved` is the trace stored with the outcome.

Left out: spans around one await that calls neither a tool nor a chat model, the waits
between attempts, and the second review after a revision.

### DocumentChunks, EvidenceBundle and EvidenceRetrieval

A line is a heading of a level, a text of a length or blank; a piece of text is named by
its line and part, so that loss, doubling and order can be told. `RunsOf` reads the lines with the buffer of
`_split_sections` and of `re.split`, `Packed` is the loop that `_pack_paragraphs` and
`_split_oversized_paragraph` share, with their separators of two and one, and `AreTheDocument` is what the chunks have to be. Scores are whole tenths
and the weights of the code whole hundredths; sizes in bytes are constants per
node, path and chunk, with the frame of the JSON around them. What a channel finds, and what
the reranker thinks of it, is a world of `Worlds`; scores of the reranker may be out of range, and are cut to it. One step of `EvidenceRetrieval` is one
SQL statement or one request; `CaseChanges` comes between any two. `torn` is history: a
case was deleted since the rows of the paths were read.

Left out: errors of the database during a retrieval, which end it and the run, and the limit of 200 chunks of a
document (`documents.py:120`), beyond which the import is refused.

### RateLimiter and ApiService

`hits` maps tracked identities to the times in their deques, `order` is the
OrderedDict. `granted` (the last admissions since the table forgot the identity) and `promised`
(the first Retry-After since its last admission) are history. The digest of an
identity is the identity.

`phase` is the place of the lifespan: checks, providers, discovery, database, agents,
publish, serving, stopping, closing, ended. `created` is what constructors
returned, `held` what is still to be closed; providers are built before the `try`, so that a
constructor that raises there leaves the ones before it to nobody (`leaky`). `Close`
closes one resource, or raises and leaves the rest. `running` is the execution
the worker waits for, `orphans` those it left when a renewal raised. A decision is three
steps: `Decide` commits, `Count` reads the counts, `Refresh` publishes them. `memory` numbers the
changes; a request carries its own and the last one it counted. `excused` is history: the changes that were
staged by a run (`Stages`, which an orphan may do too), whose count failed, or which were decided while
another decision was under way.

## 3. Plan

All of it is done: the run queue with its life cycle; the case memory with its ledger;
the loop and the report; the stream and the page; the session that composes
loop, report, memory and checkpoint; calls and traces; retrieval; the process. What may follow:

* similarity as a fixed relation between cases, for the edges of concurrent confirmations;
* two runs at a time in `TracedCalls`, to show that their collectors do not mix.

Each theorem is tried with TLC first, as an invariant of a run.

## 4. Runs

| Run | Instance | Shows |
| --- | --- | --- |
| run_queue_takeover | 2 workers, 1 session, 2 runs of 2 attempts | all safety invariants of the queue |
| run_queue_sessions | 2 sessions, 2 workers, 2 runs, 1 attempt, stale clocks | the queue implements `RunLifecycle`; every run ends |
| run_queue_orphan | 2 workers, 1 run of 2 attempts | *violated*: the latest claim decides the outcome |
| case_memory_counts | 3 clients, 2 cases of one scope, 2 runs, 2 facts | invariants of the case memory; it implements `CaseLedger` |
| react_loop | 2 steps, batches of 2, a fresh session and two restored ones | budget, deduplication, grounds of a hypothesis, end of the loop |
| report_workflow | 18 contexts, 1 revision, up to 2 objections of 18 | what leaves the graph, and what a revision does |
| demo_page | 2 runs of 2 events, 1 dropped connection, 1 refresh at a time | events once, in order, none missing at the end; a run is followed to its end and no longer |
| traced_calls | 2 turns, batches of 2, 1 retry, 2 attempts, 1 repair, room for 8 and for 20 spans | one tree; a whole stored trace that keeps calls apart and tells why they were repeated |
| retrieval | 3 nodes and 2 cases, 2 changes, 25 documents, with and without a reranker | chunks, scores, bundle, reasons of a failure |
| diagnosis_session | 2 turns of 2 calls, windows of 1 | windows, repetitions, comparisons, agreement of the stages |
| diagnosis_session_window | the same with 2 references | *violated*: a reported cause rests on an observation |
| api | 4 settings, 3 identities in a table of 2, quota 2, window 3, 2 callers | table, quota, Retry-After, order of the end, counts |

Why the bounds are enough. The dangerous histories of the queue need two
attempts of one run that are alive at the same time and a second run of the session
that restores what the first one saved: two runs, two attempts and two workers
contain them, and a third attempt adds a claim that is neither the first nor the
last. One tick of lease is enough to expire; one tick of lag is enough for a
reading that disagrees. The races of the case memory are between a
transaction that has read and one that commits before it writes, on one case or
two; the third client lets two others commit in between. Symmetry is used where
all properties of the run are safety properties and the actors are alike.

The loop has three admissible queries and a budget of two, so that the budget
binds before the queries run out; batches of up to three actions reach each refusal; one
update with one reference per decision reaches each status of a hypothesis, from each. `Retries`
is 0 in the run: attempts are recorded and decide nothing in the loop. The contexts
of the report hold hypotheses that are supported, contradicted, no longer backed,
rejected, and two of one text in either order: without the last the first draft
satisfies the policy by construction, and with them the rules have something to overrule. Two objections
are the least that can disagree on a field (an item and the whole, an item
and a path nobody can parse).

The page has two runs, so that a stream and a timer of the former can outlive it, and two
events, so that a frame can be lost between them. One refresh at a time is awaited
(`MaxCalls`), to keep the run within minutes: a step that would start another one
waits. One refresh still overlaps with the stream, the timer and the next run. A
completed run has all `MaxEvents` events, and the refresh button is pressed only until the
run has ended: after that, every refresh reads the same.

The take-over run has no stale clocks (`MaxLag = 0`), to keep it within minutes;
run_queue_sessions has them, and the theorems hold for every lag.

Two turns are enough for a session: the second one restores what was cut, and a
window of one entry is cut by the second call of a turn. Two components and two requests, one
of which asks for history, make a tool allowed in one turn only and cases recalled
in one only. Of the update statuses only `new` is used in the runs (`Verdicts`): what each status does to a
hypothesis is `react_loop`'s question.

A trace of 20 spans is never cut, one of 8 always when there is a batch. A batch of two and one
retry let an attempt of one call start between two of the other. The answers of tools and models
hold one of each kind the code tells apart: it repeats them, records them, repairs them,
gives up, or raises.

Documents of the retrieval have texts one below, at and over the limit of ten
characters, alone and joined; the budget has room for all but one of what is
found, in each of its four limits. The cases point at each other, so that a path may lose its
start, its end or both.

Three identities in a table of two evict one another; a window of three ticks and two ticks
to a second make a Retry-After round up. Three changes by two callers let two decisions overlap twice, or overlap while a
run stages. Only the bare service lasts long enough to fill windows again
(`lasts`): start and end of a process do not depend on them.

Fairness. `EveryRunEnds` assumes that time passes; that every step of a started
execution ends, which the time-outs of the model, tool and database clients
provide; that a polling worker polls again (`_run_loop` swallows every exception
and sleeps for a bounded time); and that now and then it finds no row locked and its
transaction commits. It assumes nothing of heartbeats, clients, crashes or
errors: they may happen or not. The property excepts the state in which no worker
process is left. `Ends` assumes that a node that runs returns: the model and tool clients bound
their calls, and the rest is computation; it does not assume that the total time-out
ever strikes. `FollowedToTheEnd` assumes that the
server answers requests, that the browser reconnects and runs its handlers and
timers, and that workers end runs, which is `EveryRunEnds`; nothing of clients, refusals or drops.

### Findings

* *run_queue_orphan* (`diagnosis_worker.py:156`). When a renewal raises, the
  exception leaves `_execute_with_heartbeat` without cancelling the execution. After
  the lease expires the same worker may claim the run again, and the older execution
  passes the fence, which compares the worker and not the attempt. The docstring
  promises that a renewal that fails cancels the execution.
* *diagnosis_session_window* (`checkpoint.py:114`). Evidence and hypotheses are cut apart from
  each other. When the observation that supported a hypothesis leaves the window, the
  hypothesis is restored as supported, the builder drops the reference that names nothing any
  more, and the report gives the cause on a graph node or a past case alone, which
  `_projected_hypothesis_status` says cannot be.

Known, and without a run of their own; where a definition is named it states what is lost, and TLC
finds a counterexample when it is checked with the configuration named:

* `CancelledRunLeavesNoResult` of `RunQueue` (RunQueueTakeover with `Acceptances = {TRUE}`,
  `diagnosis_runtime.py:422`): a cancellation that arrives after the workflow returned finds the case
  memory written, while the event it records says that no partial result was saved.
* `GraphMirrorsMemory` of `CaseMemory` (CaseMemoryCounts, `graph_registration.py:111`): nodes of
  neighbours are written from a read that holds no lock; a neighbour rejected, deleted or
  extended in between comes back as it was, until it is registered or removed again.
* `RejectedIsFinal` of `ReactLoop` (ReactLoop, `react_loop.py:474`): the status of a hypothesis is
  derived from the last update and the references collected so far. A rejected hypothesis that ever
  collected an observation is supported again by any later update that strengthens it.
* `RestShowsTimeline` of `DemoPage` (DemoPage, `app.js:465`): a refresh asks for the run and its
  events at the same time; if the events are read before the transaction that ends the run, and the
  run after it, the poll renders an empty timeline and stops. Answers of two refreshes in
  the other order (`app.js:469`) do the same. The refresh button repairs it.
* `PollsCurrentRun` of `DemoPage` (DemoPage, `app.js:486`): a poll of a former run that is answered after the
  resumption sets its timer over that of the new run, which its next turn then clears;
  `KeepsFollowing` is therefore stated for the first run.
* A refused reconnection leaves the page saying that it reconnects (`app.js:577`); `KeepsFollowing`
  excepts it.
* `TelemetryIsNeutral` of `TracedCalls` (TracedCalls, `model_calls.py:74`): token counts that do not add up raise inside
  the measured call and fail the run, while a comment says that telemetry never
  changes an outcome (`diagnosis_runtime.py:714`).
* `ToolFailuresAreObserved` of `TracedCalls` (TracedCalls, `client.py:138`): a payload that is no tool response
  raises an error the executor does not expect, and the whole batch is lost, while the
  protocol promises `McpClientError` (`protocol.py:86`).
* `PathsNameAncestors` of `EvidenceRetrieval` (Retrieval, `chunking.py:103`): the stack of headings is cut by
  the level of the next one as if no level were ever left out, so that in a document that starts at level
  two, a heading counts as ancestor of its sibling.
* A close that raises leaves the resources after it open, and so does a constructor that raises before
  the `try`; an execution left behind by a renewal that raised may outlive the pools it uses
  (`main.py:759`). `ClosedInOrder` excepts exactly these.
* Of decisions that overlap, the counts published last may miss the later ones, and those of staging are
  never published by themselves, until the next decision (`main.py:1261`). `StaleCountsHaveCause` names, change by
  change, what may be missing: the first of the decisions that overlap never is, nor one that was made alone.

## 5. Proofs

`RunQueueProofs` proves `Spec => []QueueInvariant` for any sets of sessions and workers and
any bounds, from `ConstantsAssumption` only. None of the properties is inductive alone.
The argument has three threads.

* A row is legal, and a run that is active is the newest of its session
  (`SubmittedInOrder`, `ActiveIsNewest`): create_run refuses a session with an active run, and
  nothing makes an ended run active again. `OneActiveRunPerSession` follows, and
  with the legal rows `ConstraintsAreMet`.
* A checkpoint counts the completed runs of its session and names the last
  (`CheckpointTracksCompletions`). As an active run is the newest, no other run of the session
  can complete while it is active, so that what its executions restored, in whatever
  attempt, remains the latest (`RestoredContextIsCurrent`). That in turn makes the version
  test of _save_checkpoint pass whenever the run is still owned, and the new
  checkpoint count right.
* Exactly the granted claims have an execution, the last of them by the owner of
  the lease (`ExecutionsFollowClaims`); a fence that is passed therefore names the worker
  of the last claim (`LastClaimantDecides`), and the timeline was empty before
  (`TimelineMatchesStatus`).

`OutcomeIsFinal`, which no run repeats, follows from the same invariant as an action property.
It also proves `Spec => ImplementsLifecycle`: a submission is a `Submit`, a claim or a
reaping of several rows an `Advance`, an outcome a `Complete`, `Advance` or `Cancel`, and every other step stutters.

`CaseMemoryProofs` proves `Spec => []MemoryInvariant` for any cases, scopes, runs, facts and
clients, from `CaseAssumption` only (NULL is no case and no run). An action that writes no
table is a *move* of one transaction (`Moves`): the transaction stays sound, and the rows
and the scope it holds it held before or nobody did; one lemma shows that a move preserves the
invariant (`MoveStep`), one lemma per action that it is a move. What remains is the commit
(`CommitStep`). Two facts carry it. A row another transaction has locked is not the
row that changes (`LocksExclusive`), so what that transaction will write still follows the row
it read. And a row that a search did not find can only be inserted by a transaction that works
on the same signature, hence in the same scope, whose advisory lock the search
holds (`OthersSound`). A node goes only with a case that is not confirmed any more, and its
edges with it (`CommitGraph`). `OccurrencesCountRuns`, `InsertNeverConflicts`,
`ConfirmedHaveNodes` and `EdgesJoinNodes`, together `GraphIsWhole`, are corollaries. `LedgerImplemented` is
`Spec => ImplementsLedger`: a commit is the operation of the ledger its image follows, and every
other step stutters.

The same module proves of a retrieval, which reads the graph those transactions change, `RetrievalSpec =>
[]FailureHasCause`, from no assumption at all: until a case goes, the paths read are still in the graph
(`RowsArePresent`) and their nodes are among those loaded (`RowsAreLoaded`), so that putting
them together cannot miss any.

`ScoresStayWithTheirItem` (`RetrievalSpec => []ScoresBelongToTheirItem`) and `BundlesAreMaximal` (`RetrievalSpec =>
[]BundleIsMaximal`) are about what is done with the rows. Both rest on what a ranking is: `Ranked`
puts at place i the member with i - 1 members before it, which for a total order is a bijection (`RankingLists`).
An answer of the reranker is such a ranking of the candidates' places with a score at each, so that an answer
that is complete names each place once, with the score of its item, and one that names a place twice is refused;
`ScoresInv` keeps the candidates scored by the opinion of the world, or not at all. For the bundle, what a path, seed or
chunk adds only makes it larger (`SizeMonotone`), so that what found no room when it was tried finds
none in what was kept at the end (`PathStays`, `NodeStays`, `ChunkStays`); what was tried and found room is kept
(`PathsKept`, `SeedsKept`, `ChunksKept`). `BundleInv` says that rows are paths of the
graph with distinct ids, which makes their ranking total and each path tried once. The assumptions are the
types of limits, weights and scores (`RetrievalAssumption`, `WeightsAssumption`; of the reranker's scores only that they are
numbers), the limits of the budget, whose bytes exceed those of an empty bundle
(`BudgetAssumption`; max_bytes is at least 256), the key and the self-loop check of the edge
table (`EdgesAssumption`), and that a document is a sequence of lines (`DocumentsAssumption`).

`ChunksAreWhole` (`RetrievalSpec => []ChunksAreTheDocument`) is about the chunker alone, for every document and every
chunk size of at least a character; that the invariant keeps `imported = Chunks(doc)` carries it to the specification. The
lemmas follow the code from the inside out. The parts of a line make the line (`PartsMakeTheLine`), and the size of
two texts put together is the sum of theirs and what keeps them apart (`SizeConcat`). Packing takes any units in
order and keeps their text, knows the size of each box, and leaves no two neighbours apart that would have fitted one
box (`PackedSound`); it is used twice, with one character between parts of a paragraph and two between
paragraphs. The units of one large paragraph are a single character apart, yet the second use counts two: that is
right because they did not fit one box before, so never meet in one (`Near`). Sections and paragraphs are the same
function of lines between lines of a kind (`RunsWell`), which holds every line of text once. `SectionChunksWell` and
`ChunksWell` put these together. Every induction is over the steps of a loop, as a set of those up to which the claim
holds.

`ReactLoopProofs` proves `Spec => []LoopInv` for any budget, batch size, number of retries and any
restored sessions, from `LoopAssumption`, `PriorAssumption` (what a checkpoint restores
are tool events) and `NoneAssumption`. The budget is not inductive by itself, as calls
are made one step before they are paid for: `Charged` says that the calls
made are the steps paid, but for the batch that is out, and `BatchOK` that this batch
fits into the rest and shares nothing with what was executed. `Distinct` and `NotAnswered` follow the calls
across turns and runs; `Paid` bounds the nodes started by the steps paid, which
gives `WithinRecursionLimit`. The lemma `Approved` is where the gates of the planner node
enter: what an approvable batch is. `LoopTyped` is the type invariant, for which it has to be shown
what a fold of updates makes of the hypotheses.

`SupportedIsObserved` is an action property: a hypothesis that is supported after a step cites an observation
the run holds, or the step left it as it was. As an invariant it would be false, and
it once was one here: the run checked it because no prior it started from had lost the observation
behind a hypothesis, while a checkpoint may (`ForgetfulPrior`, and the second finding above). The proof
attempt showed it.

The rest of the module is about `TracedCalls`, in which the batches and model calls of that
loop have their retries, from `CallsAssumption` only. `TraceInv` says that spans have parents that started
before them (`SpansOK`), that each number given is completed or open in some task
(`NothingForgotten`), and that a task that waits holds the spans around what it waits for, and no other (`StacksFit`,
`FirstIsRun`, `PhasesFit`). A step is a composition of entering, leaving and measuring a span; each of
these makes of a *view* (collector, stack of the task, stack around it) one that `Follows` it:
more is completed, nothing is forgotten. What a time-out or a cancellation unwinds is a chain
of such steps, by induction over the stacks. `ExportsATree` adds that a snapshot, which
renumbers the spans that remain, keeps parents in front (`SnapshotIsATree`), and `SavesTheWhole` that the
snapshot of a collector with nothing open has a span for every number (`SnapshotOfAll`).

Which spans belong together is the last part of the module: `CallsAreAFamily` (`CallsSpec => []FamilyInv`). Its corollaries
`TraceKeepsCallsApart` (`CallsKeptApart`) and `TraceRepeatsWithCause` (`RepetitionsHaveCause`) speak of the trace saved
at the end, and a collector alone does not tell where it is going: what is open is in the stacks of the
tasks. So `FamilyInv` says that there is a *tree* with a span for each number given. A finished span is in it
as the collector has it, an open one as its task entered it, with the status "open" (`TreeOf`, `AllOpen`). A
span has its parent, kind and task from its start, so that entering adds one span to the tree and leaving only
closes some; measuring a request does both. `Sound` and `LeadsOn` are that for one task, and `EnterTree`, `LeaveTree`,
`MeasureTree` and `UnwoundTree` show it of the four operations. `Family` is what each
tree keeps (`LastingAdded`, `LastingClosed`, `CallsEndAdded`, `BatchesAdded`): an attempt under the call of its
task, one call of each task in a batch, a cause for each repetition, their number, and that a call and its last attempt are both open or
have ended alike, as long as nothing was dropped at the limit. None of this is inductive without what is known of the
exchange, the batch and the calls under way (`UnderWay`): that an earlier attempt was one to be retried,
that as many spans were counted as `slots` and `chat` say, that a call reported as good is one in the tree.
Numbers ascend from a span to the ones inside it, and from a batch to its calls (`Orderly`): hence the innermost open
span is the parent of the next one, and no task closes a span of another (`OthersKept`). A step of a call is
shown to change only what is its own (`Beside`, `CallSettles`); a time-out or a cancellation unwinds the calls one
after the other, by induction over the slots (`CallsCancelledTree`), and then the run. When nothing is open the
tree is what is saved (`SavedIsTheTree`). The only assumption is again `CallsAssumption`.

`ReportWorkflowProofs` proves `Spec => []ReportInv` for any contexts and objections, from
`WorkflowAssumption` and `ContextsAssumption`: an outcome exists only at the end, a revision is due only while
one is left, and issues have known codes, which makes the remarks of a degraded
report finitely many and at least one. `AcceptedIsEndorsed` needs no more, because an audit that
accepts found nothing and endorses the draft it leaves alone; the draft changes
only in steps after which no outcome, or a degraded one, is recorded. `OneRevisionMends` (`RevisedIsClean`: the policy has
nothing to object to in what a revision returns) is about the operators: what the builder
makes of a context (`BuildCauses` to `BuildSimilar`), what survives the removal of items (`RevisedLists`,
`SurvivorsAre`), and that every rule of the policy holds of it (`RevisionMends`). `ReportNarrows` and
`RemovalPrecise` are action properties: after the first draft a report adds no conclusion and cites nothing new, and
a revision removes the causes an issue blames and no other. The latter tells causes apart by their
place: told apart by their text it is false when two hypotheses share a root cause, which is how it was
first stated here.

`DemoPageProofs` proves `Stream!Spec => []StreamInv` for any number of runs, events and drops, from
`BoundsAssumption`. Delivery is not inductive by itself: it needs what the frames on their
way hold. `Chained` says that each of them stands at the position the ones before it lead
to, counted from what was delivered, and the server's cursor is the position after
the last (`Top`), or the id of the last frame when there is no connection; a
dropped connection cuts the chain anywhere, and the id of the last frame taken is again
where it was cut. That nothing is missing at the end follows from the order of the two
reads: a terminal status read first means that the events read next are all of
them, as a terminal row never changes. `PageUsesStream` then shows that the page does nothing to rows,
connections and frames but what `RunStream` says, so that all of this holds under it; and `PageInv` that its timeline repeats
nothing. What is not obvious there is a resumption, which starts with the timeline of the run
before: a timeline has a gap only if its run has more than one event (`GapsNeedEvents`), and such a
run cannot be resumed. `ShowsFaithfully` combines the two.

`DiagnosisSessionProofs` proves `Spec => []SessionInv` for any requests, windows and turns, from the
assumptions of the module: `SessionAssumption`, `RequestAssumption`, `NoneAssumption` and `IdentityAssumption` (a
root cause is not an observation). `WindowIsRecent` speaks of what all runs observed, while a run
sees what was restored and what it added; `RunContinues` says that the state of a run is a window of the
history followed by its own entries, and `SavedWindow` that the window of such a sequence is a
window of the whole (`TailOfConcat`). `ComparisonsFitReport` and `NoStageRefusesAnother` need what the stages
before leave (`StagesFit`): cases recalled only if asked for, comparisons that explain these cases with the state
as it is, a report that is accepted exactly if its hypotheses were staged. `AsksNothingTwice` is the action
property `RepeatedOnlyWhenForgotten`: what a turn asks is not in the window it restored.

`ApiServiceProofs` proves `Spec => []TableIsBounded` and `Spec => []QuotaHolds` for any identities, quota, window, table and
clock, from `LimiterAssumption`. The table is what its order lists, each identity once, and the order is
cut to size after each admission. Admissions are not in the state of the limiter, which forgets; the
history remembers the last of them. The invariant says, for each tracked identity, that its deque is
in the order of time and is the end of that history, and that whatever the history holds
before the deque has left the window (`WindowOK`). Then the deque holds all admissions of the
window, and it is not full when one is added. An eviction makes history and deque
empty together. `ExpiredIsPrefix` shows that what counts as expired is the left end of the deque.
`RetryAfterIsKept` adds that while a promise is open the deque is full and stays what it is, and that
the moment promised lies less than a second after its oldest entry leaves (`PromiseOK`): no entry can be
added before that, and a first entry that has not expired means that none has (`OldestFirst`).
`ProcessEndsInOrder` proves `Spec => []ClosedInOrder` from an invariant about the phases of the lifespan: nothing is
closed before the closing phase, which begins only after the worker has stopped, and
the resources held are all those created unless one is known to leak.
`CountsAreCurrent` proves `Spec => []StaleCountsHaveCause` for any number of callers and changes: a decision counts no
less than its own change, and whatever is changed after it counted, while it is still under way, is excused
(`CountedWell`); so what it publishes misses nothing else, whatever it replaces. No bound on how many decisions overlap is
needed, nor that they ever come to rest.

Induction. The operators of the code filter and fold lists. The provers cannot instantiate an
induction theorem whose parameter is an operator, but they can one whose parameter is a set:
`InductionUpTo` of `SelectionProofs` says that a set which holds 0 and, with each number below n, the next one,
holds all numbers up to n. A filter or fold written as a recursive function over places
(`Selected`, `Unwound`, `CallsCancelled`, `Tried`) can then be reasoned about, and the lemmas about `Selected` (which items
it has, in which order, how many) serve five of the modules. They are lemmas of these proofs and say nothing of the
system by themselves.

Two modules hold theorems about two specifications each, as what they are about belongs
together: `ReactLoopProofs` extends `ReactLoop` and `TracedCalls`, `CaseMemoryProofs` extends `CaseMemory` and
`EvidenceRetrieval`. Their state is disjoint, and each theorem names the one specification it is about.

Only model-checked: liveness (`EveryRunEnds`, `Ends`, `FollowedToTheEnd`), which is outside of what the
prover does with fairness, and the properties the code violates. Every other property that a run checks is a
theorem.
The type invariants of `RunQueue`, `CaseMemory`, `ReactLoop`, `TracedCalls`, `DiagnosisSession`, and of
report, stream and page as parts of their invariants, are proved; those of retrieval, limiter and process are
seen to hold on the instances, and no run repeats them.
