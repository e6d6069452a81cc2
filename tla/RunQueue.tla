----------------------------- MODULE RunQueue -----------------------------
(***************************************************************************)
(* The PostgreSQL run queue of the diagnosis service and the worker        *)
(* processes that consume it: app/persistence/run_repository.py,           *)
(* app/orchestration/diagnosis_worker.py and the execution skeleton of     *)
(* app/orchestration/diagnosis_runtime.py.                                 *)
(*                                                                         *)
(* One action is one database transaction or one step between two awaits.  *)
(* A lease is kept as the time left until lease_expires_at, so that time   *)
(* needs no bound; Tick lets it pass.  Every transaction compares the      *)
(* lease with a `now` that was read before the transaction began: `lag` is *)
(* how old that reading is when the rows are locked.                       *)
(***************************************************************************)
EXTENDS Integers, FiniteSets, Sequences

CONSTANTS Sessions,      \* diagnosis sessions
          Workers,       \* worker processes; a restarted process is a new one
          None,          \* SQL NULL, and "no job"
          MaxRuns,       \* bound: number of runs ever submitted
          MaxAttempts,   \* diagnosis_worker_max_attempts
          LeaseTicks,    \* diagnosis_worker_lease_seconds, in ticks
          MaxLag,        \* bound: age of a clock reading, in ticks
          Acceptances    \* whether a report may be accepted: part of BOOLEAN

ASSUME ConstantsAssumption ==
    /\ MaxRuns \in Nat
    /\ MaxAttempts \in Nat \ {0}
    /\ LeaseTicks \in Nat \ {0}
    /\ MaxLag \in Nat
    /\ Acceptances \subseteq BOOLEAN
    /\ None \notin Sessions \cup Workers

VARIABLES sessions,      \* rows of diagnosis_sessions
          run,           \* rows of agent_runs
          timeline,      \* rows of run_events, by sequence
          checkpoint,    \* rows of session_checkpoints; version 0 is no row
          worker,        \* what each worker process is doing
          execution,     \* the asyncio task each claim started
          staged,        \* runs whose report was staged into the case memory
          writer         \* history: attempt whose execution recorded the outcome

dbVars == <<sessions, run, timeline, checkpoint>>
vars == <<sessions, run, timeline, checkpoint, worker, execution, staged, writer>>

-----------------------------------------------------------------------------
(* Types.                                                                  *)

RunIds == 1..MaxRuns             \* in the order of created_at
Attempts == 1..MaxAttempts
Claims == RunIds \X Attempts     \* a claim is a run and its attempt number
Lags == 0..MaxLag
Leases == (-MaxLag)..LeaseTicks

ActiveStatuses == {"queued", "running"}
TerminalStatuses == {"completed", "failed", "cancelled"}
Statuses == {"absent"} \cup ActiveStatuses \cup TerminalStatuses
EventTypes == {"diagnosis_timeline", "session_checkpoint_saved",
               "diagnosis_execution_failed", "worker_attempts_exhausted",
               "run_cancelled"}
LiveSteps == {"claimed", "working", "produced", "failing"}

RunRow == [status : Statuses, session : Sessions \cup {None},
           attempt : 0..MaxAttempts, owner : Workers \cup {None},
           lease : Leases]
NoRun == [status |-> "absent", session |-> None, attempt |-> 0,
          owner |-> None, lease |-> 0]
Checkpoint == [version : Nat, source : 0..MaxRuns]
Execution == [step : {"idle", "ended"} \cup LiveSteps,
              worker : Workers \cup {None}, base : Nat]
WorkerState == [state : {"polling", "watching", "stopped"},
                job : Claims \cup {<<>>}]

Init ==
    /\ sessions = {}
    /\ run = [r \in RunIds |-> NoRun]
    /\ timeline = [r \in RunIds |-> <<>>]
    /\ checkpoint = [s \in Sessions |-> [version |-> 0, source |-> 0]]
    /\ worker = [w \in Workers |-> [state |-> "polling", job |-> <<>>]]
    /\ execution = [c \in Claims |-> [step |-> "idle", worker |-> None, base |-> 0]]
    /\ staged = {}
    /\ writer = [r \in RunIds |-> 0]

-----------------------------------------------------------------------------
(* Rows and leases.                                                        *)

Active(r) == run[r].status \in ActiveStatuses
Terminal(r) == run[r].status \in TerminalStatuses
Completed(s) == {r \in RunIds : run[r].session = s /\ run[r].status = "completed"}

\* lease_expires_at <= now
Expired(r, lag) == run[r].lease + lag <= 0

\* The fence of renew_lease and _lock_owned_running_run.
OwnsNoOwner(r, w, lag) == run[r].status = "running" /\ ~Expired(r, lag)
Owns(r, w, lag) ==
    /\ run[r].status = "running"
    /\ run[r].owner = w
    /\ ~Expired(r, lag)

HasActiveRunQueuedOnly(s) == \E q \in RunIds : run[q].session = s /\ run[q].status = "queued"
HasActiveRun(s) == \E q \in RunIds : run[q].session = s /\ Active(q)

\* Runs claim_next_run may take, and runs fail_exhausted_runs must end.
ClaimableOneMore(lag) ==
    {r \in RunIds : \/ run[r].status = "queued"
                    \/ /\ run[r].status = "running"
                       /\ Expired(r, lag)
                       /\ run[r].attempt <= MaxAttempts}
Claimable(lag) ==
    {r \in RunIds : \/ run[r].status = "queued"
                    \/ /\ run[r].status = "running"
                       /\ Expired(r, lag)
                       /\ run[r].attempt < MaxAttempts}
ExhaustedOffByOne(lag) ==
    {r \in RunIds : /\ run[r].status = "running"
                    /\ Expired(r, lag)
                    /\ run[r].attempt > MaxAttempts}
Exhausted(lag) ==
    {r \in RunIds : /\ run[r].status = "running"
                    /\ Expired(r, lag)
                    /\ run[r].attempt >= MaxAttempts}

\* A row leaves the queue: status set, owner and lease back to NULL.
ClosedKeepsOwner(row, status) == [row EXCEPT !.status = status, !.lease = 0]
Closed(row, status) == [row EXCEPT !.status = status, !.owner = None, !.lease = 0]

ClaimedBy(row, w, lag) ==
    [row EXCEPT !.status = "running", !.attempt = @ + 1,
                !.owner = w, !.lease = LeaseTicks - lag]
IsOldest(r, S) == r \in S /\ \A q \in S : r <= q

Live(c) == execution[c].step \in LiveSteps
Halted(C) == [c \in Claims |-> IF c \in C /\ Live(c)
                               THEN [execution[c] EXCEPT !.step = "ended", !.base = 0]
                               ELSE execution[c]]
Idle(w) == [worker EXCEPT ![w] = [state |-> "polling", job |-> <<>>]]

-----------------------------------------------------------------------------
(* The API: sessions, messages, cancellation, resumption.                  *)

CreateSession(s) ==
    /\ s \notin sessions
    /\ sessions' = sessions \cup {s}
    /\ UNCHANGED <<run, timeline, checkpoint, worker, execution, staged, writer>>

\* create_run, under the lock of the session row.  A session with an active
\* run raises ActiveRunConflictError and the transaction rolls back.
CreateRun(r, s) ==
    /\ s \in sessions
    /\ ~HasActiveRun(s)
    /\ run[r].status = "absent"
    /\ \A q \in RunIds : q < r => run[q].status # "absent"
    /\ run' = [run EXCEPT ![r] = [NoRun EXCEPT !.status = "queued", !.session = s]]
    /\ UNCHANGED <<sessions, timeline, checkpoint, worker, execution, staged, writer>>

SubmitMessage(r, s) == CreateRun(r, s)

\* The source run stays cancelled; the new run is a copy of it.
ResumeRun(source, r) ==
    /\ run[source].status = "cancelled"
    /\ CreateRun(r, run[source].session)

CancellableFailed(r) == run[r].status \in ActiveStatuses \cup {"failed"}
Cancellable(r) == Active(r)

\* A run that already ended is returned unchanged.
CancelRun(r) ==
    /\ Cancellable(r)
    /\ run' = [run EXCEPT ![r] = Closed(@, "cancelled")]
    /\ timeline' = [timeline EXCEPT ![r] = Append(@, "run_cancelled")]
    /\ UNCHANGED <<sessions, checkpoint, worker, execution, staged, writer>>

-----------------------------------------------------------------------------
(* The worker loop.                                                        *)

\* The two transitions of fail_exhausted_runs and claim_next_run, before and
\* after the claim.
Reaped(dead) == [r \in RunIds |-> IF r \in dead THEN Closed(run[r], "failed") ELSE run[r]]
ReapTimelines(dead) ==
    timeline' = [r \in RunIds |-> IF r \in dead
                                  THEN Append(timeline[r], "worker_attempts_exhausted")
                                  ELSE timeline[r]]

\* run_once when nothing is left to claim.  `locked` are the rows that other
\* transactions hold: FOR UPDATE SKIP LOCKED passes over them.
RunOnceReaps(w, lag, locked) ==
    LET dead == Exhausted(lag) \ locked
    IN  /\ worker[w].state = "polling"
        /\ dead # {}
        /\ Claimable(lag) \subseteq locked
        /\ run' = Reaped(dead)
        /\ ReapTimelines(dead)
        /\ UNCHANGED <<sessions, checkpoint, worker, execution, staged, writer>>

\* run_once when it claims a run and starts its execution.  The
\* acknowledgement of the commit may be lost: the row is claimed then, the
\* exception is swallowed by _run_loop and nothing executes.
RunOnceClaims(w, r, lag, locked, acknowledged) ==
    LET dead == Exhausted(lag) \ locked
        c == <<r, run[r].attempt + 1>>
    IN  /\ worker[w].state = "polling"
        /\ IsOldest(r, Claimable(lag) \ locked)
        /\ run' = [Reaped(dead) EXCEPT ![r] = ClaimedBy(run[r], w, lag)]
        /\ ReapTimelines(dead)
        /\ execution' = [execution EXCEPT
              ![c] = [step |-> IF acknowledged THEN "claimed" ELSE "ended",
                      worker |-> w, base |-> 0]]
        /\ worker' = IF acknowledged
                     THEN [worker EXCEPT ![w] = [state |-> "watching", job |-> c]]
                     ELSE worker
        /\ UNCHANGED <<sessions, checkpoint, staged, writer>>

\* A heartbeat that renews the lease.
RenewLease(w, lag) ==
    /\ worker[w].state = "watching"
    /\ Owns(worker[w].job[1], w, lag)
    /\ run' = [run EXCEPT ![worker[w].job[1]].lease = LeaseTicks - lag]
    /\ UNCHANGED <<sessions, timeline, checkpoint, worker, execution, staged, writer>>

\* A heartbeat that finds the lease gone cancels the execution.
LoseLease(w, lag) ==
    /\ worker[w].state = "watching"
    /\ ~Owns(worker[w].job[1], w, lag)
    /\ execution' = Halted({worker[w].job})
    /\ worker' = Idle(w)
    /\ UNCHANGED <<dbVars, staged, writer>>

\* A heartbeat whose transaction raises: the exception leaves
\* _execute_with_heartbeat, whose handler is for CancelledError only, and
\* _run_loop swallows it.  Nobody watches the execution any more.
RenewRaises(w) ==
    /\ worker[w].state = "watching"
    /\ worker' = Idle(w)
    /\ UNCHANGED <<dbVars, execution, staged, writer>>

\* The watched execution returned or raised.
Settle(w) ==
    /\ worker[w].state = "watching"
    /\ ~Live(worker[w].job)
    /\ worker' = Idle(w)
    /\ UNCHANGED <<dbVars, execution, staged, writer>>

\* stop() cancels the loop and the execution it watches; the lease stays.
Stop(w) ==
    /\ worker[w].state \in {"polling", "watching"}
    /\ execution' = Halted({worker[w].job})
    /\ worker' = [worker EXCEPT ![w] = [state |-> "stopped", job |-> <<>>]]
    /\ UNCHANGED <<dbVars, staged, writer>>

\* The process exits or dies, and every task in it.
Crash(w) ==
    /\ \/ worker[w].state # "stopped"
       \/ \E c \in Claims : execution[c].worker = w /\ Live(c)
    /\ execution' = Halted({c \in Claims : execution[c].worker = w})
    /\ worker' = [worker EXCEPT ![w] = [state |-> "stopped", job |-> <<>>]]
    /\ UNCHANGED <<dbVars, staged, writer>>

-----------------------------------------------------------------------------
(* One execution: execute_claimed_run.                                     *)

\* The restored checkpoint is a local of the try block: only "produced" keeps it.
Goto(c, step) ==
    execution' = [execution EXCEPT ![c].step = step,
                                   ![c].base = IF step = "produced" THEN @ ELSE 0]

ReadCheckpoint(c) ==
    /\ execution[c].step = "claimed"
    /\ execution' = [execution EXCEPT ![c].step = "working",
                                      ![c].base = checkpoint[run[c[1]].session].version]
    /\ UNCHANGED <<dbVars, worker, staged, writer>>

\* get_checkpoint stands before the try: if it raises, nothing is recorded.
ReadCheckpointRaises(c) ==
    /\ execution[c].step = "claimed"
    /\ Goto(c, "ended")
    /\ UNCHANGED <<dbVars, worker, staged, writer>>

\* The workflow returns; its last node has committed an accepted report with a
\* root cause to the case memory, in a transaction of its own.
WorkflowReturns(c, stages) ==
    /\ execution[c].step = "working"
    /\ staged' = IF stages THEN staged \cup {c[1]} ELSE staged
    /\ Goto(c, "produced")
    /\ UNCHANGED <<dbVars, worker, writer>>

\* Retrieval, a model or a tool raises.
WorkflowRaises(c) ==
    /\ execution[c].step = "working"
    /\ Goto(c, "failing")
    /\ UNCHANGED <<dbVars, worker, staged, writer>>

\* The version _save_checkpoint accepts, and the row it writes.
VersionAdmitted(c) == execution[c].base = checkpoint[run[c[1]].session].version
NextCheckpointKeepsSource(c) ==
    [version |-> execution[c].base + 1, source |-> checkpoint[run[c[1]].session].source]
NextCheckpoint(c) == [version |-> execution[c].base + 1, source |-> c[1]]

\* complete_run: terminal row, whole timeline from sequence one and next
\* checkpoint in one transaction.  When the acknowledgement of its commit is
\* lost the execution goes on as if it had failed.
CompleteRun(c, lag, acknowledged) ==
    LET r == c[1]
    IN  /\ execution[c].step = "produced"
        /\ Owns(r, execution[c].worker, lag)
        /\ VersionAdmitted(c)
        /\ timeline[r] = <<>>
        /\ run' = [run EXCEPT ![r] = Closed(@, "completed")]
        /\ timeline' = [timeline EXCEPT ![r] = <<"diagnosis_timeline",
                                                 "session_checkpoint_saved">>]
        /\ checkpoint' = [checkpoint EXCEPT ![run[r].session] = NextCheckpoint(c)]
        /\ writer' = [writer EXCEPT ![r] = c[2]]
        /\ Goto(c, IF acknowledged THEN "ended" ELSE "failing")
        /\ UNCHANGED <<sessions, worker, staged>>

\* complete_run raises (lease lost, version jumped, database down) and rolls
\* back.
CompleteRunRaises(c) ==
    /\ execution[c].step = "produced"
    /\ Goto(c, "failing")
    /\ UNCHANGED <<dbVars, worker, staged, writer>>

\* fail_run: the failed row and its only event.
FailRun(c, lag) ==
    LET r == c[1]
    IN  /\ execution[c].step = "failing"
        /\ Owns(r, execution[c].worker, lag)
        /\ timeline[r] = <<>>
        /\ run' = [run EXCEPT ![r] = Closed(@, "failed")]
        /\ timeline' = [timeline EXCEPT ![r] = <<"diagnosis_execution_failed">>]
        /\ writer' = [writer EXCEPT ![r] = c[2]]
        /\ Goto(c, "ended")
        /\ UNCHANGED <<sessions, checkpoint, worker, staged>>

\* The failure is not recorded: the run was cancelled, the lease is lost or the
\* database is down.
FailRunRaises(c) ==
    /\ execution[c].step = "failing"
    /\ Goto(c, "ended")
    /\ UNCHANGED <<dbVars, worker, staged, writer>>

-----------------------------------------------------------------------------

\* Time passes for every lease; beyond MaxLag all readings agree it expired.
Tick ==
    /\ \E r \in RunIds : run[r].status = "running" /\ run[r].lease > -MaxLag
    /\ run' = [r \in RunIds |->
                  IF run[r].status = "running" /\ run[r].lease > -MaxLag
                  THEN [run[r] EXCEPT !.lease = @ - 1] ELSE run[r]]
    /\ UNCHANGED <<sessions, timeline, checkpoint, worker, execution, staged, writer>>

Api ==
    \/ \E s \in Sessions : CreateSession(s)
    \/ \E r \in RunIds, s \in Sessions : SubmitMessage(r, s)
    \/ \E source, r \in RunIds : ResumeRun(source, r)
    \/ \E r \in RunIds : CancelRun(r)

WorkerLoop(w) ==
    \/ RenewRaises(w) \/ Settle(w) \/ Stop(w) \/ Crash(w)
    \/ \E lag \in Lags : RenewLease(w, lag) \/ LoseLease(w, lag)
    \/ \E lag \in Lags : \E locked \in SUBSET (Exhausted(lag) \cup Claimable(lag)) :
          \/ RunOnceReaps(w, lag, locked)
          \/ \E r \in RunIds, acknowledged \in BOOLEAN :
                RunOnceClaims(w, r, lag, locked, acknowledged)

Execute(c) ==
    \/ ReadCheckpoint(c) \/ ReadCheckpointRaises(c)
    \/ \E stages \in Acceptances : WorkflowReturns(c, stages)
    \/ WorkflowRaises(c) \/ CompleteRunRaises(c) \/ FailRunRaises(c)
    \/ \E lag \in Lags : FailRun(c, lag)
    \/ \E lag \in Lags, acknowledged \in BOOLEAN : CompleteRun(c, lag, acknowledged)

Next ==
    \/ Api
    \/ \E w \in Workers : WorkerLoop(w)
    \/ \E c \in Claims : Execute(c)
    \/ Tick

Spec == Init /\ [][Next]_vars

\* Time passes, every step of a started execution ends (all of its calls carry
\* timeouts), a polling worker keeps polling and once in a while finds no row
\* locked.  Heartbeats, clients, crashes and errors are not fair.
Fairness ==
    /\ WF_vars(Tick)
    /\ \A c \in Claims : WF_vars(Execute(c))
    /\ \A w \in Workers : /\ WF_vars(Settle(w))
                          /\ WF_vars(\/ RunOnceReaps(w, 0, {})
                                     \/ \E r \in RunIds : RunOnceClaims(w, r, 0, {}, TRUE))

FairSpec == Spec /\ Fairness

-----------------------------------------------------------------------------
(* Properties.                                                             *)

\* Every row, task and worker has the fields its class declares.
TypeOK ==
    /\ sessions \subseteq Sessions
    /\ run \in [RunIds -> RunRow]
    /\ timeline \in [RunIds -> Seq(EventTypes)]
    /\ checkpoint \in [Sessions -> Checkpoint]
    /\ worker \in [Workers -> WorkerState]
    /\ execution \in [Claims -> Execution]
    /\ staged \subseteq RunIds
    /\ writer \in [RunIds -> 0..MaxAttempts]

\* Whatever path a row took, its columns satisfy ck_agent_runs_terminal_payload:
\* no statement of the repository can be refused by that constraint.
RowLegal(row) ==
    /\ row.status = "running" <=> row.owner # None
    /\ row.status # "running" => row.lease = 0
    /\ row.status = "queued" => row.attempt = 0
    /\ row.status \in {"running", "completed", "failed"} => row.attempt >= 1
    /\ IF row.status = "absent" THEN row = NoRun ELSE row.session \in sessions
RowsSatisfyConstraint == \A r \in RunIds : RowLegal(run[r])

\* A session never has two runs in flight, however submissions, resumptions,
\* cancellations and re-claims interleave (uq_agent_runs_active_session).
OneActiveRunPerSession ==
    \A q, r \in RunIds :
        Active(q) /\ Active(r) /\ run[q].session = run[r].session => q = r

\* Whatever transactions interleave, none leaves rows that a constraint of agent_runs
\* refuses: a lease goes with its owner and a terminal row with its payload
\* (ck_agent_runs_*), and a session has one run in flight (uq_agent_runs_active_session).
ConstraintsAreMet == RowsSatisfyConstraint /\ OneActiveRunPerSession

\* The checkpoint of a session counts its completed runs and names the last of
\* them: failed, cancelled and abandoned runs leave it alone.
CheckpointTracksCompletions ==
    \A s \in Sessions :
        /\ checkpoint[s].version = Cardinality(Completed(s))
        /\ Completed(s) # {} => checkpoint[s].source \in Completed(s)
        /\ \A r \in Completed(s) : r <= checkpoint[s].source

\* The context an execution restored stays the latest one of its session as
\* long as its run is active, across expired leases and re-claims: the version
\* test of _save_checkpoint never costs a run its result.
RestoredContextIsCurrent ==
    \A c \in Claims :
        /\ execution[c].step \in {"working", "produced"}
        /\ Active(c[1])
        => VersionAdmitted(c)

\* The timeline of a run is exactly the one its status calls for: nothing before
\* the run ends, one outcome, no event after it.
TimelineMatchesStatus ==
    \A r \in RunIds :
        \/ run[r].status \in {"absent", "queued", "running"} /\ timeline[r] = <<>>
        \/ /\ run[r].status = "completed"
           /\ timeline[r] = <<"diagnosis_timeline", "session_checkpoint_saved">>
        \/ run[r].status = "cancelled" /\ timeline[r] = <<"run_cancelled">>
        \/ /\ run[r].status = "failed"
           /\ timeline[r] = IF writer[r] = 0 THEN <<"worker_attempts_exhausted">>
                            ELSE <<"diagnosis_execution_failed">>

\* The outcome of a run comes from the worker that claimed it last: a worker
\* whose run was taken over by another one records nothing.
LastClaimantDecides ==
    \A r \in RunIds :
        writer[r] # 0 => execution[<<r, writer[r]>>].worker
                         = execution[<<r, run[r].attempt>>].worker

\* What the invariants above rest on.  Runs are numbered in the order they
\* were submitted, and the run in flight is the newest of its session.
SubmittedInOrder ==
    \A q, r \in RunIds : q < r /\ run[r].status # "absent" => run[q].status # "absent"
ActiveIsNewest ==
    \A q, r \in RunIds : Active(r) /\ run[q].session = run[r].session => q <= r

\* Exactly the claims that were granted have an execution; the last one is by
\* the owner of the lease, and a recorded outcome belongs to one of them.
ExecutionsFollowClaims ==
    /\ \A c \in Claims : execution[c].step = "idle" <=> c[2] > run[c[1]].attempt
    /\ \A r \in RunIds :
          run[r].status = "running"
          => execution[<<r, run[r].attempt>>].worker = run[r].owner
    /\ \A r \in RunIds :
          writer[r] # 0 => Terminal(r) /\ writer[r] <= run[r].attempt
    /\ \A w \in Workers : worker[w].state = "watching" => worker[w].job \in Claims

\* The inductive invariant.
QueueInvariant ==
    /\ TypeOK
    /\ RowsSatisfyConstraint
    /\ SubmittedInOrder
    /\ ActiveIsNewest
    /\ ExecutionsFollowClaims
    /\ CheckpointTracksCompletions
    /\ RestoredContextIsCurrent
    /\ TimelineMatchesStatus
    /\ LastClaimantDecides

\* An outcome is final: no late commit, retry, reaper or cancellation changes
\* the row, the timeline or the author of a run that ended.
OutcomeIsFinal ==
    [][\A r \in RunIds : Terminal(r) => /\ run'[r] = run[r]
                                        /\ timeline'[r] = timeline[r]
                                        /\ writer'[r] = writer[r]]_vars

\* The queue implements the life cycle a client of the API relies on.
Lifecycle == INSTANCE RunLifecycle WITH
    phase <- [r \in RunIds |-> run[r].status],
    home <- [r \in RunIds |-> run[r].session],
    saved <- checkpoint
ImplementsLifecycle == Lifecycle!Spec

\* As long as a worker process is up, every submitted run ends: whatever was
\* lost, abandoned or orphaned is re-claimed or given up.
NoWorkerUp == \A w \in Workers : worker[w].state = "stopped"
EveryRunEnds == \A r \in RunIds : Active(r) ~> (Terminal(r) \/ NoWorkerUp)

\* Claimed by the docstrings of _lock_owned_running_run and
\* _execute_with_heartbeat: an execution whose lease expired cannot record an
\* outcome once the run was claimed again.
LatestClaimDecides ==
    \A r \in RunIds : writer[r] # 0 => writer[r] = run[r].attempt

\* Claimed by the run_cancelled event: a cancelled run leaves no part of its
\* diagnosis behind.
CancelledRunLeavesNoResult ==
    \A r \in staged : run[r].status # "cancelled"
=============================================================================
