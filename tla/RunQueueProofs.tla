-------------------------- MODULE RunQueueProofs --------------------------
(* Proofs about RunQueue.tla, for any number of sessions, workers, runs and *)
(* attempts.                                                                *)
EXTENDS RunQueue, FiniteSetTheorems, TLAPS

-----------------------------------------------------------------------------
(* Type correctness.                                                        *)

\* The lease times the actions write are leases.
LEMMA LeaseFacts ==
    /\ 0 \in Leases
    /\ \A lag \in Lags : LeaseTicks - lag \in Leases
    /\ \A lease \in Leases : lease > -MaxLag => lease - 1 \in Leases
BY ConstantsAssumption DEF Leases, Lags

\* Closing a row keeps it a row.
LEMMA ClosedType ==
    ASSUME NEW row \in RunRow, NEW status \in Statuses
    PROVE  Closed(row, status) \in RunRow
BY LeaseFacts DEF Closed, RunRow

\* So does the batch of fail_exhausted_runs, for rows and timelines.
LEMMA ReapType ==
    ASSUME TypeOK, NEW dead, ReapTimelines(dead)
    PROVE  /\ Reaped(dead) \in [RunIds -> RunRow]
           /\ timeline' \in [RunIds -> Seq(EventTypes)]
<1>1. \A r \in RunIds : Closed(run[r], "failed") \in RunRow
  BY ClosedType DEF TypeOK, Statuses, TerminalStatuses
<1>2. \A r \in RunIds : Append(timeline[r], "worker_attempts_exhausted") \in Seq(EventTypes)
  BY DEF TypeOK, EventTypes
<1>. QED  BY <1>1, <1>2 DEF TypeOK, Reaped, ReapTimelines

\* Halting tasks keeps every execution in its type.
LEMMA HaltType ==
    ASSUME TypeOK, NEW C
    PROVE  Halted(C) \in [Claims -> Execution]
BY DEF TypeOK, Halted, Execution

\* So does moving one execution to another step.
LEMMA GotoType ==
    ASSUME TypeOK, NEW c \in Claims, NEW step \in {"ended"} \cup LiveSteps, Goto(c, step)
    PROVE  execution' \in [Claims -> Execution]
<1>1. \A e \in Execution, b \in Nat : [e EXCEPT !.step = step, !.base = b] \in Execution
  BY DEF Execution
<1>. QED  BY <1>1 DEF TypeOK, Goto, Execution

\* A claim names a run and an attempt.
LEMMA ClaimParts ==
    /\ \A c \in Claims : c[1] \in RunIds /\ c[2] \in Attempts /\ c = <<c[1], c[2]>>
    /\ \A r \in RunIds, a \in Attempts : <<r, a>> \in Claims
BY DEF Claims

\* Every action keeps every variable in its type.
LEMMA TypeStep == QueueInvariant /\ [Next]_vars => TypeOK'
<1> SUFFICES ASSUME QueueInvariant, [Next]_vars PROVE TypeOK'
  OBVIOUS
<1> USE ConstantsAssumption
<1>0. TypeOK
  BY DEF QueueInvariant
<1>1. ASSUME NEW s \in Sessions, CreateSession(s) PROVE TypeOK'
  BY <1>0, <1>1 DEF TypeOK, CreateSession
<1>2. ASSUME NEW r \in RunIds, NEW s, CreateRun(r, s) PROVE TypeOK'
  <2>1. s \in Sessions
    BY <1>0, <1>2 DEF TypeOK, CreateRun
  <2>2. [NoRun EXCEPT !.status = "queued", !.session = s] \in RunRow
    <3>1. "queued" \in Statuses /\ 0 \in 0..MaxAttempts
      BY DEF Statuses, ActiveStatuses
    <3>. QED  BY <2>1, <3>1, LeaseFacts DEF NoRun, RunRow
  <2>. QED  BY <1>0, <1>2, <2>2 DEF TypeOK, CreateRun
<1>3. ASSUME NEW r \in RunIds, CancelRun(r) PROVE TypeOK'
  BY <1>0, <1>3, ClosedType DEF TypeOK, CancelRun, Statuses, TerminalStatuses, EventTypes
<1>4. ASSUME NEW w \in Workers, NEW lag \in Lags, NEW locked, RunOnceReaps(w, lag, locked)
      PROVE  TypeOK'
  BY <1>0, <1>4, ReapType DEF TypeOK, RunOnceReaps
<1>5. ASSUME NEW w \in Workers, NEW r \in RunIds, NEW lag \in Lags, NEW locked,
             NEW acknowledged \in BOOLEAN, RunOnceClaims(w, r, lag, locked, acknowledged)
      PROVE  TypeOK'
  <2>1. run[r].attempt + 1 \in Attempts
    <3>1. run[r].attempt \in 0..MaxAttempts
      BY <1>0 DEF TypeOK, RunRow
    <3>2. run[r].status = "queued" => run[r].attempt = 0
      BY DEF QueueInvariant, RowsSatisfyConstraint, RowLegal
    <3>. QED  BY <1>5, <3>1, <3>2 DEF RunOnceClaims, IsOldest, Claimable, Attempts
  <2>2. ClaimedBy(run[r], w, lag) \in RunRow
    <3>1. "running" \in Statuses /\ run[r].attempt + 1 \in 0..MaxAttempts
      BY <2>1 DEF Statuses, ActiveStatuses, Attempts
    <3>2. LeaseTicks - lag \in Leases
      BY LeaseFacts
    <3>3. \A row \in RunRow : row.attempt + 1 \in 0..MaxAttempts
                              => ClaimedBy(row, w, lag) \in RunRow
      BY <3>1, <3>2 DEF ClaimedBy, RunRow
    <3>. QED  BY <1>0, <3>1, <3>3 DEF TypeOK
  <2>3. run' \in [RunIds -> RunRow] /\ timeline' \in [RunIds -> Seq(EventTypes)]
    BY <1>0, <1>5, <2>2, ReapType DEF RunOnceClaims
  <2>4. <<r, run[r].attempt + 1>> \in Claims
    BY <2>1, ClaimParts
  <2>5. execution' \in [Claims -> Execution]
    BY <1>0, <1>5, <2>4 DEF TypeOK, RunOnceClaims, Execution, LiveSteps
  <2>6. worker' \in [Workers -> WorkerState]
    <3>1. [state |-> "watching", job |-> <<r, run[r].attempt + 1>>] \in WorkerState
      BY <2>4 DEF WorkerState
    <3>. QED  BY <1>0, <1>5, <3>1 DEF TypeOK, RunOnceClaims
  <2>. QED  BY <1>0, <1>5, <2>3, <2>5, <2>6 DEF TypeOK, RunOnceClaims
<1>6. ASSUME NEW w \in Workers, NEW lag \in Lags, RenewLease(w, lag) PROVE TypeOK'
  <2>1. \A row \in RunRow : [row EXCEPT !.lease = LeaseTicks - lag] \in RunRow
    BY LeaseFacts DEF RunRow
  <2>. QED  BY <1>0, <1>6, <2>1 DEF TypeOK, RenewLease
<1>7. ASSUME NEW w \in Workers PROVE Idle(w) \in [Workers -> WorkerState]
  <2>1. [state |-> "polling", job |-> <<>>] \in WorkerState
    BY DEF WorkerState
  <2>. QED  BY <1>0, <2>1 DEF TypeOK, Idle
<1>8. ASSUME NEW w \in Workers, NEW lag \in Lags,
             LoseLease(w, lag) \/ RenewRaises(w) \/ Settle(w)
      PROVE  TypeOK'
  BY <1>0, <1>7, <1>8, HaltType DEF TypeOK, LoseLease, RenewRaises, Settle, dbVars
<1>9. ASSUME NEW w \in Workers, Stop(w) \/ Crash(w) PROVE TypeOK'
  <2>1. [state |-> "stopped", job |-> <<>>] \in WorkerState
    BY DEF WorkerState
  <2>. QED  BY <1>0, <1>9, <2>1, HaltType DEF TypeOK, Stop, Crash, dbVars
<1>10. ASSUME NEW c \in Claims, ReadCheckpoint(c) PROVE TypeOK'
  <2>1. run[c[1]].status # "absent"
    BY <1>0, <1>10, ClaimParts
       DEF QueueInvariant, RowsSatisfyConstraint, RowLegal, ExecutionsFollowClaims, NoRun,
           ReadCheckpoint, Attempts
  <2>2. run[c[1]].session \in Sessions
    BY <1>0, <2>1, ClaimParts DEF QueueInvariant, RowsSatisfyConstraint, RowLegal, TypeOK
  <2>. QED
    BY <1>0, <1>10, <2>2 DEF TypeOK, ReadCheckpoint, Execution, Checkpoint, LiveSteps, dbVars
<1>11. ASSUME NEW c \in Claims, NEW stages \in BOOLEAN,
              \/ ReadCheckpointRaises(c) \/ WorkflowReturns(c, stages) \/ WorkflowRaises(c)
              \/ CompleteRunRaises(c) \/ FailRunRaises(c)
       PROVE  TypeOK'
  <2>1. execution' \in [Claims -> Execution]
    BY <1>0, <1>11, GotoType DEF ReadCheckpointRaises, WorkflowReturns, WorkflowRaises,
       CompleteRunRaises, FailRunRaises, LiveSteps
  <2>2. staged' \subseteq RunIds
    BY <1>0, <1>11, ClaimParts DEF TypeOK, ReadCheckpointRaises, WorkflowReturns,
       WorkflowRaises, CompleteRunRaises, FailRunRaises
  <2>. QED
    BY <1>0, <1>11, <2>1, <2>2 DEF TypeOK, ReadCheckpointRaises, WorkflowReturns,
       WorkflowRaises, CompleteRunRaises, FailRunRaises, dbVars
<1>12. ASSUME NEW c \in Claims, NEW lag \in Lags, NEW acknowledged \in BOOLEAN,
              CompleteRun(c, lag, acknowledged)
       PROVE  TypeOK'
  <2>1. run' \in [RunIds -> RunRow]
    BY <1>0, <1>12, ClaimParts, ClosedType DEF TypeOK, CompleteRun, Statuses, TerminalStatuses
  <2>2. timeline' \in [RunIds -> Seq(EventTypes)]
    <3>1. <<"diagnosis_timeline", "session_checkpoint_saved">> \in Seq(EventTypes)
      BY DEF EventTypes
    <3>. QED  BY <1>0, <1>12, <3>1 DEF TypeOK, CompleteRun
  <2>3. checkpoint' \in [Sessions -> Checkpoint]
    <3>1. NextCheckpoint(c) \in Checkpoint
      BY <1>0, ClaimParts DEF TypeOK, NextCheckpoint, Checkpoint, Execution, RunIds
    <3>. QED  BY <1>0, <1>12, <3>1 DEF TypeOK, CompleteRun
  <2>4. execution' \in [Claims -> Execution]
    BY <1>0, <1>12, GotoType DEF CompleteRun, LiveSteps
  <2>5. writer' \in [RunIds -> 0..MaxAttempts]
    BY <1>0, <1>12, ClaimParts DEF TypeOK, CompleteRun, Attempts
  <2>. QED  BY <1>0, <1>12, <2>1, <2>2, <2>3, <2>4, <2>5 DEF TypeOK, CompleteRun
<1>13. ASSUME NEW c \in Claims, NEW lag \in Lags, FailRun(c, lag) PROVE TypeOK'
  <2>1. run' \in [RunIds -> RunRow]
    BY <1>0, <1>13, ClaimParts, ClosedType DEF TypeOK, FailRun, Statuses, TerminalStatuses
  <2>2. timeline' \in [RunIds -> Seq(EventTypes)]
    <3>1. <<"diagnosis_execution_failed">> \in Seq(EventTypes)
      BY DEF EventTypes
    <3>. QED  BY <1>0, <1>13, <3>1 DEF TypeOK, FailRun
  <2>3. execution' \in [Claims -> Execution]
    BY <1>0, <1>13, GotoType DEF FailRun
  <2>4. writer' \in [RunIds -> 0..MaxAttempts]
    BY <1>0, <1>13, ClaimParts DEF TypeOK, FailRun, Attempts
  <2>. QED  BY <1>0, <1>13, <2>1, <2>2, <2>3, <2>4 DEF TypeOK, FailRun
<1>14. CASE Tick
  <2>1. \A row \in RunRow : row.lease > -MaxLag => [row EXCEPT !.lease = @ - 1] \in RunRow
    BY LeaseFacts DEF RunRow
  <2>. QED  BY <1>0, <1>14, <2>1 DEF TypeOK, Tick
<1>15. CASE UNCHANGED vars
  BY <1>0, <1>15 DEF TypeOK, vars
<1>16. \A stages \in Acceptances : stages \in BOOLEAN
  OBVIOUS
<1>17. CASE Api
  BY <1>1, <1>2, <1>3, <1>17 DEF Api, SubmitMessage, ResumeRun
<1>18. ASSUME NEW w \in Workers, WorkerLoop(w) PROVE TypeOK'
  <2>1. 0 \in Lags
    BY DEF Lags
  <2>. QED  BY <1>4, <1>5, <1>6, <1>8, <1>9, <1>18, <2>1 DEF WorkerLoop
<1>19. ASSUME NEW c \in Claims, Execute(c) PROVE TypeOK'
  BY <1>10, <1>11, <1>12, <1>13, <1>16, <1>19 DEF Execute
<1>. QED  BY <1>14, <1>15, <1>17, <1>18, <1>19 DEF Next

-----------------------------------------------------------------------------
(* The rows of agent_runs.                                                  *)

\* Eight kinds of step write a run, its timeline, its author or a checkpoint.
Quiet == UNCHANGED <<run, timeline, checkpoint, writer>> /\ sessions \subseteq sessions'

LEMMA StepCases ==
    ASSUME TypeOK, [Next]_vars
    PROVE  \/ Quiet
           \/ \E r \in RunIds, s \in Sessions : CreateRun(r, s)
           \/ \E r \in RunIds : CancelRun(r)
           \/ \E w \in Workers, lag \in Lags, locked \in SUBSET RunIds :
                 RunOnceReaps(w, lag, locked)
           \/ \E w \in Workers, r \in RunIds, lag \in Lags, locked \in SUBSET RunIds,
                 acknowledged \in BOOLEAN : RunOnceClaims(w, r, lag, locked, acknowledged)
           \/ \E w \in Workers, lag \in Lags : RenewLease(w, lag)
           \/ \E c \in Claims, lag \in Lags, acknowledged \in BOOLEAN :
                 CompleteRun(c, lag, acknowledged)
           \/ \E c \in Claims, lag \in Lags : FailRun(c, lag)
           \/ Tick
<1>1. ASSUME NEW s \in Sessions, CreateSession(s) PROVE Quiet
  BY <1>1 DEF CreateSession, Quiet
<1>2. ASSUME NEW source \in RunIds, NEW r \in RunIds, ResumeRun(source, r)
      PROVE  \E s \in Sessions : CreateRun(r, s)
  BY <1>2 DEF ResumeRun, CreateRun, TypeOK
<1>3. ASSUME NEW w \in Workers, NEW lag \in Lags,
             LoseLease(w, lag) \/ RenewRaises(w) \/ Settle(w) \/ Stop(w) \/ Crash(w)
      PROVE  Quiet
  BY <1>3 DEF LoseLease, RenewRaises, Settle, Stop, Crash, Quiet, dbVars
<1>4. ASSUME NEW c \in Claims, NEW stages,
             \/ ReadCheckpoint(c) \/ ReadCheckpointRaises(c) \/ WorkflowReturns(c, stages)
             \/ WorkflowRaises(c) \/ CompleteRunRaises(c) \/ FailRunRaises(c)
      PROVE  Quiet
  BY <1>4 DEF ReadCheckpoint, ReadCheckpointRaises, WorkflowReturns, WorkflowRaises,
     CompleteRunRaises, FailRunRaises, Quiet, dbVars
<1>5. 0 \in Lags /\ \A lag \in Lags : Exhausted(lag) \cup Claimable(lag) \in SUBSET RunIds
  BY ConstantsAssumption DEF Lags, Exhausted, Claimable
<1>6. CASE Api
  BY <1>1, <1>2, <1>6 DEF Api, SubmitMessage
<1>7. CASE \E w \in Workers : WorkerLoop(w)
  BY <1>3, <1>5, <1>7 DEF WorkerLoop
<1>8. CASE \E c \in Claims : Execute(c)
  BY <1>4, <1>8 DEF Execute
<1>9. CASE UNCHANGED vars
  BY <1>9 DEF Quiet, vars
<1>. QED  BY <1>6, <1>7, <1>8, <1>9 DEF Next

\* What run_once does to the runs it does not claim, and to the one it does.
GivenUp(q) ==
    /\ run[q].status = "running"
    /\ run[q].attempt = MaxAttempts
    /\ run'[q] = Closed(run[q], "failed")
    /\ timeline'[q] = Append(timeline[q], "worker_attempts_exhausted")
Kept(q) == run'[q] = run[q] /\ timeline'[q] = timeline[q]

LEMMA ReapEffect ==
    ASSUME TypeOK, NEW lag \in Lags, NEW locked, NEW q \in RunIds,
           ReapTimelines(Exhausted(lag) \ locked),
           run'[q] = Reaped(Exhausted(lag) \ locked)[q]
    PROVE  Kept(q) \/ GivenUp(q)
<1>1. run[q].attempt \in 0..MaxAttempts
  BY DEF TypeOK, RunRow
<1>2. CASE q \in Exhausted(lag) \ locked
  BY <1>1, <1>2, ConstantsAssumption DEF Exhausted, GivenUp, Reaped, ReapTimelines
<1>3. CASE q \notin Exhausted(lag) \ locked
  BY <1>3 DEF Kept, Reaped, ReapTimelines
<1>. QED  BY <1>2, <1>3

LEMMA ClaimEffect ==
    ASSUME TypeOK, NEW w \in Workers, NEW r \in RunIds, NEW lag \in Lags, NEW locked,
           NEW acknowledged, RunOnceClaims(w, r, lag, locked, acknowledged)
    PROVE  /\ run[r].status \in {"queued", "running"}
           /\ run'[r] = ClaimedBy(run[r], w, lag)
           /\ timeline'[r] = timeline[r]
           /\ \A q \in RunIds : q # r => Kept(q) \/ GivenUp(q)
<1>1. r \in Claimable(lag)
  BY DEF RunOnceClaims, IsOldest
<1>2. run[r].status \in {"queued", "running"} /\ r \notin Exhausted(lag)
  <2>1. run[r].attempt \in 0..MaxAttempts
    BY DEF TypeOK, RunRow
  <2>. QED  BY <1>1, <2>1, ConstantsAssumption DEF Claimable, Exhausted
<1>3. Reaped(Exhausted(lag) \ locked) \in [RunIds -> RunRow]
  BY ReapType DEF RunOnceClaims
<1>4. run'[r] = ClaimedBy(run[r], w, lag)
  BY <1>3 DEF RunOnceClaims
<1>5. timeline'[r] = timeline[r]
  BY <1>2 DEF RunOnceClaims, ReapTimelines
<1>6. ASSUME NEW q \in RunIds, q # r PROVE Kept(q) \/ GivenUp(q)
  <2>1. run'[q] = Reaped(Exhausted(lag) \ locked)[q]
    BY <1>3, <1>6 DEF RunOnceClaims
  <2>2. ReapTimelines(Exhausted(lag) \ locked)
    BY DEF RunOnceClaims
  <2>. QED  BY <2>1, <2>2, ReapEffect
<1>. QED  BY <1>2, <1>4, <1>5, <1>6

\* Every step leaves every row with columns the check constraint accepts.
LEMMA RowsStep == QueueInvariant /\ [Next]_vars => RowsSatisfyConstraint'
<1> SUFFICES ASSUME QueueInvariant, [Next]_vars, NEW q \in RunIds PROVE RowLegal(run[q])'
  BY DEF RowsSatisfyConstraint
<1>0. TypeOK /\ run[q] \in RunRow /\ RowLegal(run[q])
  BY DEF QueueInvariant, RowsSatisfyConstraint, TypeOK
<1>1. ASSUME sessions \subseteq sessions', Kept(q) PROVE RowLegal(run[q])'
  BY <1>0, <1>1 DEF RowLegal, Kept, NoRun
<1>2. ASSUME UNCHANGED sessions, NEW status \in TerminalStatuses, run[q].status = "running",
             run'[q] = Closed(run[q], status)
      PROVE  RowLegal(run[q])'
  BY <1>0, <1>2 DEF RowLegal, Closed, RunRow, TerminalStatuses, NoRun
<1>3. CASE Quiet
  BY <1>1, <1>3 DEF Quiet, Kept
<1>4. ASSUME NEW r \in RunIds, NEW s \in Sessions, CreateRun(r, s) PROVE RowLegal(run[q])'
  BY <1>0, <1>4 DEF TypeOK, CreateRun, RowLegal, NoRun
<1>5. ASSUME NEW r \in RunIds, CancelRun(r) PROVE RowLegal(run[q])'
  BY <1>0, <1>5 DEF TypeOK, RowLegal, CancelRun, Cancellable, Active, ActiveStatuses, Closed,
     RunRow, NoRun
<1>6. ASSUME NEW w \in Workers, NEW lag \in Lags, NEW locked \in SUBSET RunIds,
             RunOnceReaps(w, lag, locked)
      PROVE  RowLegal(run[q])'
  <2>1. Kept(q) \/ GivenUp(q)
    BY <1>0, <1>6, ReapEffect DEF RunOnceReaps
  <2>2. UNCHANGED sessions
    BY <1>6 DEF RunOnceReaps
  <2>. QED  BY <1>1, <1>2, <2>1, <2>2 DEF GivenUp, TerminalStatuses
<1>7. ASSUME NEW w \in Workers, NEW r \in RunIds, NEW lag \in Lags,
             NEW locked \in SUBSET RunIds, NEW acknowledged \in BOOLEAN,
             RunOnceClaims(w, r, lag, locked, acknowledged)
      PROVE  RowLegal(run[q])'
  <2>1. UNCHANGED sessions
    BY <1>7 DEF RunOnceClaims
  <2>2. CASE q = r
    <3>1. run'[q] = ClaimedBy(run[q], w, lag) /\ run[q].status \in {"queued", "running"}
      BY <1>0, <1>7, <2>2, ClaimEffect
    <3>. QED  BY <1>0, <2>1, <3>1, ConstantsAssumption DEF RowLegal, ClaimedBy, RunRow, NoRun
  <2>3. CASE q # r
    BY <1>0, <1>1, <1>2, <1>7, <2>1, <2>3, ClaimEffect DEF GivenUp, TerminalStatuses
  <2>. QED  BY <2>2, <2>3
<1>8. ASSUME NEW w \in Workers, NEW lag \in Lags, RenewLease(w, lag) PROVE RowLegal(run[q])'
  BY <1>0, <1>8 DEF TypeOK, RowLegal, RenewLease, Owns, RunRow, NoRun
<1>9. ASSUME NEW c \in Claims, NEW lag \in Lags, NEW acknowledged \in BOOLEAN,
             CompleteRun(c, lag, acknowledged)
      PROVE  RowLegal(run[q])'
  BY <1>0, <1>9 DEF TypeOK, RowLegal, CompleteRun, Owns, Closed, RunRow, NoRun
<1>10. ASSUME NEW c \in Claims, NEW lag \in Lags, FailRun(c, lag) PROVE RowLegal(run[q])'
  BY <1>0, <1>10 DEF TypeOK, RowLegal, FailRun, Owns, Closed, RunRow, NoRun
<1>11. CASE Tick
  BY <1>0, <1>11 DEF TypeOK, RowLegal, Tick, RunRow, NoRun
<1>. QED
  BY <1>0, <1>3, <1>4, <1>5, <1>6, <1>7, <1>8, <1>9, <1>10, <1>11, StepCases

\* No step but a submission moves a run to another session, brings it into
\* being or makes it active, and none touches a run that ended.
Forward(q) ==
    /\ run'[q].session = run[q].session
    /\ run'[q].status = "absent" <=> run[q].status = "absent"
    /\ Active(q)' => Active(q)
    /\ Terminal(q) => Kept(q) /\ writer'[q] = writer[q]

LEMMA ForwardStep ==
    ASSUME QueueInvariant, [Next]_vars, ~ \E r \in RunIds, s \in Sessions : CreateRun(r, s),
           NEW q \in RunIds
    PROVE  Forward(q)
<1> USE DEF Forward, Kept, Active, ActiveStatuses, Terminal, TerminalStatuses
<1>0. TypeOK /\ run[q] \in RunRow
  BY DEF QueueInvariant, TypeOK
<1>1. ASSUME Kept(q) \/ GivenUp(q), writer' = writer PROVE Forward(q)
  BY <1>0, <1>1 DEF GivenUp, Closed, RunRow
<1>2. CASE Quiet
  BY <1>2 DEF Quiet
<1>3. ASSUME NEW r \in RunIds, CancelRun(r) PROVE Forward(q)
  BY <1>0, <1>3 DEF TypeOK, CancelRun, Cancellable, Closed, RunRow
<1>4. ASSUME NEW w \in Workers, NEW lag \in Lags, NEW locked \in SUBSET RunIds,
             RunOnceReaps(w, lag, locked)
      PROVE  Forward(q)
  BY <1>0, <1>1, <1>4, ReapEffect DEF RunOnceReaps
<1>5. ASSUME NEW w \in Workers, NEW r \in RunIds, NEW lag \in Lags,
             NEW locked \in SUBSET RunIds, NEW acknowledged \in BOOLEAN,
             RunOnceClaims(w, r, lag, locked, acknowledged)
      PROVE  Forward(q)
  <2>1. writer' = writer
    BY <1>5 DEF RunOnceClaims
  <2>2. CASE q = r
    <3>1. run'[q] = ClaimedBy(run[q], w, lag) /\ run[q].status \in {"queued", "running"}
      BY <1>0, <1>5, <2>2, ClaimEffect
    <3>. QED  BY <1>0, <3>1 DEF ClaimedBy, RunRow
  <2>. QED  BY <1>0, <1>1, <1>5, <2>1, <2>2, ClaimEffect
<1>6. ASSUME NEW w \in Workers, NEW lag \in Lags, RenewLease(w, lag) PROVE Forward(q)
  BY <1>0, <1>6 DEF TypeOK, RenewLease, Owns, RunRow
<1>7. ASSUME NEW c \in Claims, NEW lag \in Lags, NEW acknowledged \in BOOLEAN,
             CompleteRun(c, lag, acknowledged)
      PROVE  Forward(q)
  BY <1>0, <1>7 DEF TypeOK, CompleteRun, Owns, Closed, RunRow
<1>8. ASSUME NEW c \in Claims, NEW lag \in Lags, FailRun(c, lag) PROVE Forward(q)
  BY <1>0, <1>8 DEF TypeOK, FailRun, Owns, Closed, RunRow
<1>9. CASE Tick
  BY <1>0, <1>9 DEF TypeOK, Tick, RunRow
<1>. QED  BY <1>0, <1>2, <1>3, <1>4, <1>5, <1>6, <1>7, <1>8, <1>9, StepCases

\* A submission takes the first unused number.
LEMMA OrderStep ==
    QueueInvariant /\ [Next]_vars => SubmittedInOrder' /\ ActiveIsNewest'
<1> SUFFICES ASSUME QueueInvariant, [Next]_vars PROVE SubmittedInOrder' /\ ActiveIsNewest'
  OBVIOUS
<1>0. TypeOK /\ RowsSatisfyConstraint /\ SubmittedInOrder /\ ActiveIsNewest
  BY DEF QueueInvariant
<1>1. ASSUME NEW n \in RunIds, NEW s \in Sessions, CreateRun(n, s)
      PROVE  SubmittedInOrder' /\ ActiveIsNewest'
  <2>1. /\ \A q \in RunIds : q # n => run'[q] = run[q]
        /\ run'[n].status = "queued" /\ run'[n].session = s
    BY <1>0, <1>1 DEF TypeOK, CreateRun, NoRun
  <2>2. \A q \in RunIds : q < n => run[q].status # "absent"
    BY <1>1 DEF CreateRun
  <2>3. \A q \in RunIds : n < q => run[q] = NoRun
    BY <1>0, <1>1 DEF CreateRun, SubmittedInOrder, RowsSatisfyConstraint, RowLegal
  <2>4. s # None
    BY ConstantsAssumption
  <2>5. SubmittedInOrder'
    BY <1>0, <2>1, <2>2, <2>3 DEF TypeOK, SubmittedInOrder, NoRun, RunIds
  <2>6. \A q \in RunIds : run[q].session = s => ~Active(q)
    BY <1>1 DEF CreateRun, HasActiveRun
  <2>7. ASSUME NEW q \in RunIds, NEW r \in RunIds, Active(r)',
               run'[q].session = run'[r].session
        PROVE  q <= r
    <3>1. CASE r = n
      <4>1. CASE q > n
        <5>1. n < q /\ q # n
          BY <4>1 DEF RunIds
        <5>2. run'[q] = NoRun
          BY <2>1, <2>3, <5>1
        <5>. QED  BY <2>1, <2>4, <2>7, <3>1, <5>2 DEF NoRun
      <4>. QED  BY <3>1, <4>1 DEF RunIds
    <3>2. CASE r # n
      <4>1. Active(r) /\ run'[r].session = run[r].session
        BY <1>0, <2>1, <2>7, <3>2 DEF TypeOK, Active
      <4>2. q # n
        BY <2>1, <2>6, <2>7, <4>1
      <4>. QED  BY <1>0, <2>1, <2>7, <4>1, <4>2 DEF TypeOK, ActiveIsNewest
    <3>. QED  BY <3>1, <3>2
  <2>. QED  BY <2>5, <2>7 DEF ActiveIsNewest
<1>2. CASE ~ \E r \in RunIds, s \in Sessions : CreateRun(r, s)
  <2>1. \A q \in RunIds : Forward(q)
    BY <1>2, ForwardStep
  <2>. QED  BY <1>0, <2>1 DEF SubmittedInOrder, ActiveIsNewest, Forward
<1>. QED  BY <1>1, <1>2

\* At most one run of a session is in flight: the newest.
LEMMA NewestIsOnly == TypeOK /\ ActiveIsNewest => OneActiveRunPerSession
<1> SUFFICES ASSUME ActiveIsNewest, NEW q \in RunIds, NEW r \in RunIds, Active(q), Active(r),
                    run[q].session = run[r].session
             PROVE  q = r
  BY DEF OneActiveRunPerSession
<1>1. q <= r /\ r <= q
  BY DEF ActiveIsNewest
<1>. QED  BY <1>1 DEF RunIds

-----------------------------------------------------------------------------
(* Executions.                                                              *)

\* A step that does not grant claim c keeps its worker, and the checkpoint
\* version it restored unless this step reads it.
Restored(c) == execution[c].step \in {"working", "produced"}
TaskKept(c) ==
    /\ execution'[c].worker = execution[c].worker
    /\ execution'[c].step = "idle" <=> execution[c].step = "idle"
    /\ Restored(c)' =>
          \/ Restored(c) /\ execution'[c].base = execution[c].base
          \/ /\ UNCHANGED <<run, checkpoint>>
             /\ execution'[c].base = checkpoint[run[c[1]].session].version
Grants(c) ==
    \E w \in Workers, r \in RunIds, lag \in Lags, locked \in SUBSET RunIds,
       acknowledged \in BOOLEAN :
        RunOnceClaims(w, r, lag, locked, acknowledged) /\ c = <<r, run[r].attempt + 1>>

LEMMA HaltEffect ==
    ASSUME TypeOK, NEW C, execution' = Halted(C), NEW c \in Claims
    PROVE  TaskKept(c)
BY DEF TypeOK, Halted, Live, LiveSteps, Execution, TaskKept, Restored

LEMMA GotoEffect ==
    ASSUME TypeOK, NEW d \in Claims, NEW step \in {"ended", "failing", "produced"},
           Goto(d, step), Live(d), step = "produced" => execution[d].step = "working",
           NEW c \in Claims
    PROVE  TaskKept(c)
BY DEF TypeOK, Goto, Live, LiveSteps, Execution, TaskKept, Restored

LEMMA TaskStep ==
    ASSUME TypeOK, [Next]_vars, NEW c \in Claims
    PROVE  TaskKept(c) \/ Grants(c)
<1>1. ASSUME UNCHANGED execution PROVE TaskKept(c)
  BY <1>1 DEF TaskKept, Restored
<1>2. CASE Api
  <2>1. UNCHANGED execution
    BY <1>2 DEF Api, CreateSession, SubmitMessage, ResumeRun, CreateRun, CancelRun
  <2>. QED  BY <1>1, <2>1
<1>3. ASSUME NEW w \in Workers, RenewRaises(w) \/ Settle(w) PROVE TaskKept(c)
  BY <1>1, <1>3 DEF RenewRaises, Settle
<1>4. ASSUME NEW w \in Workers, NEW lag, RenewLease(w, lag) PROVE TaskKept(c)
  BY <1>1, <1>4 DEF RenewLease
<1>5. ASSUME NEW w \in Workers, NEW lag, LoseLease(w, lag) \/ Stop(w) \/ Crash(w)
      PROVE  TaskKept(c)
  BY <1>5, HaltEffect DEF LoseLease, Stop, Crash
<1>6. ASSUME NEW w \in Workers, NEW lag, NEW locked, RunOnceReaps(w, lag, locked)
      PROVE  TaskKept(c)
  BY <1>1, <1>6 DEF RunOnceReaps
<1>7. ASSUME NEW w \in Workers, NEW lag \in Lags, NEW locked \in SUBSET RunIds,
             NEW r \in RunIds, NEW acknowledged \in BOOLEAN,
             RunOnceClaims(w, r, lag, locked, acknowledged)
      PROVE  TaskKept(c) \/ Grants(c)
  <2>1. CASE c = <<r, run[r].attempt + 1>>
    BY <1>7, <2>1 DEF Grants
  <2>2. CASE c # <<r, run[r].attempt + 1>>
    BY <1>7, <2>2 DEF RunOnceClaims, TypeOK, TaskKept, Restored
  <2>. QED  BY <2>1, <2>2
<1>8. CASE \E w \in Workers : WorkerLoop(w)
  <2>1. 0 \in Lags /\ \A lag \in Lags : Exhausted(lag) \cup Claimable(lag) \in SUBSET RunIds
    BY ConstantsAssumption DEF Lags, Exhausted, Claimable
  <2>. QED  BY <1>3, <1>4, <1>5, <1>6, <1>7, <1>8, <2>1 DEF WorkerLoop
<1>9. ASSUME NEW d \in Claims, ReadCheckpoint(d) PROVE TaskKept(c)
  BY <1>9 DEF TypeOK, ReadCheckpoint, TaskKept, Restored, Execution, dbVars
<1>10. ASSUME NEW d \in Claims, ReadCheckpointRaises(d) \/ WorkflowRaises(d) PROVE TaskKept(c)
  BY <1>10, GotoEffect DEF ReadCheckpointRaises, WorkflowRaises, Live, LiveSteps
<1>11. ASSUME NEW d \in Claims, NEW stages, WorkflowReturns(d, stages) PROVE TaskKept(c)
  BY <1>11, GotoEffect DEF WorkflowReturns, Live, LiveSteps
<1>12. ASSUME NEW d \in Claims, CompleteRunRaises(d) \/ FailRunRaises(d) PROVE TaskKept(c)
  BY <1>12, GotoEffect DEF CompleteRunRaises, FailRunRaises, Live, LiveSteps
<1>13. ASSUME NEW d \in Claims, NEW lag, FailRun(d, lag) PROVE TaskKept(c)
  BY <1>13, GotoEffect DEF FailRun, Live, LiveSteps
<1>14. ASSUME NEW d \in Claims, NEW lag, NEW acknowledged, CompleteRun(d, lag, acknowledged)
       PROVE  TaskKept(c)
  BY <1>14, GotoEffect DEF CompleteRun, Live, LiveSteps
<1>15. CASE \E d \in Claims : Execute(d)
  BY <1>9, <1>10, <1>11, <1>12, <1>13, <1>14, <1>15 DEF Execute
<1>16. CASE Tick \/ UNCHANGED vars
  BY <1>1, <1>16 DEF Tick, vars
<1>. QED  BY <1>2, <1>8, <1>15, <1>16 DEF Next

\* A step that does not claim run q keeps its attempt number, and its owner
\* while it runs.
Claimed(q) ==
    \E w \in Workers, lag \in Lags, locked \in SUBSET RunIds, acknowledged \in BOOLEAN :
        RunOnceClaims(w, q, lag, locked, acknowledged)
OwnerKept(q) ==
    /\ run'[q].attempt = run[q].attempt
    /\ run'[q].status = "running" => run[q].status = "running" /\ run'[q].owner = run[q].owner

LEMMA OwnerStep ==
    ASSUME QueueInvariant, [Next]_vars, NEW q \in RunIds
    PROVE  OwnerKept(q) \/ Claimed(q)
<1> USE DEF OwnerKept
<1>0. TypeOK /\ run[q] \in RunRow /\ RowLegal(run[q])
  BY DEF QueueInvariant, RowsSatisfyConstraint, TypeOK
<1>1. ASSUME Kept(q) \/ GivenUp(q) PROVE OwnerKept(q)
  BY <1>0, <1>1 DEF Kept, GivenUp, Closed, RunRow
<1>2. CASE Quiet
  BY <1>2 DEF Quiet
<1>3. ASSUME NEW r \in RunIds, NEW s \in Sessions, CreateRun(r, s) PROVE OwnerKept(q)
  BY <1>0, <1>3 DEF TypeOK, CreateRun, RowLegal, NoRun
<1>4. ASSUME NEW r \in RunIds, CancelRun(r) PROVE OwnerKept(q)
  BY <1>0, <1>4 DEF TypeOK, CancelRun, Closed, RunRow
<1>5. ASSUME NEW w \in Workers, NEW lag \in Lags, NEW locked \in SUBSET RunIds,
             RunOnceReaps(w, lag, locked)
      PROVE  OwnerKept(q)
  <2>1. Kept(q) \/ GivenUp(q)
    BY <1>0, <1>5, ReapEffect DEF RunOnceReaps
  <2>. QED  BY <1>1, <2>1
<1>6. ASSUME NEW w \in Workers, NEW r \in RunIds, NEW lag \in Lags,
             NEW locked \in SUBSET RunIds, NEW acknowledged \in BOOLEAN,
             RunOnceClaims(w, r, lag, locked, acknowledged)
      PROVE  OwnerKept(q) \/ Claimed(q)
  <2>1. CASE q = r
    BY <1>6, <2>1 DEF Claimed
  <2>2. CASE q # r
    BY <1>0, <1>1, <1>6, <2>2, ClaimEffect
  <2>. QED  BY <2>1, <2>2
<1>7. ASSUME NEW w \in Workers, NEW lag \in Lags, RenewLease(w, lag) PROVE OwnerKept(q)
  BY <1>0, <1>7 DEF TypeOK, RenewLease, RunRow
<1>8. ASSUME NEW c \in Claims, NEW lag \in Lags, NEW acknowledged \in BOOLEAN,
             CompleteRun(c, lag, acknowledged)
      PROVE  OwnerKept(q)
  BY <1>0, <1>8 DEF TypeOK, CompleteRun, Closed, RunRow
<1>9. ASSUME NEW c \in Claims, NEW lag \in Lags, FailRun(c, lag) PROVE OwnerKept(q)
  BY <1>0, <1>9 DEF TypeOK, FailRun, Closed, RunRow
<1>10. CASE Tick
  BY <1>0, <1>10 DEF TypeOK, Tick, RunRow
<1>. QED
  BY <1>0, <1>2, <1>3, <1>4, <1>5, <1>6, <1>7, <1>8, <1>9, <1>10, StepCases

\* A claim leaves no trace but its own: the attempt number it consumed and the
\* task it started.
LEMMA GrantEffect ==
    ASSUME QueueInvariant, NEW w \in Workers, NEW r \in RunIds, NEW lag \in Lags,
           NEW locked, NEW acknowledged, RunOnceClaims(w, r, lag, locked, acknowledged)
    PROVE  /\ run'[r].status = "running" /\ run'[r].owner = w
           /\ run'[r].attempt = run[r].attempt + 1
           /\ <<r, run[r].attempt + 1>> \in Claims
           /\ execution'[<<r, run[r].attempt + 1>>].worker = w
           /\ execution'[<<r, run[r].attempt + 1>>].step \in {"claimed", "ended"}
           /\ \A c \in Claims : c # <<r, run[r].attempt + 1>> => execution'[c] = execution[c]
           /\ \A q \in RunIds : q # r => run'[q].attempt = run[q].attempt
<1>0. TypeOK /\ run[r] \in RunRow /\ RowLegal(run[r])
  BY DEF QueueInvariant, RowsSatisfyConstraint, TypeOK
<1>1. run'[r] = ClaimedBy(run[r], w, lag)
  BY <1>0, ClaimEffect
<1>2. run[r].attempt + 1 \in Attempts
  <2>1. run[r].attempt \in 0..MaxAttempts /\ (run[r].status = "queued" => run[r].attempt = 0)
    BY <1>0 DEF RowLegal, RunRow
  <2>. QED  BY <2>1, ConstantsAssumption DEF RunOnceClaims, IsOldest, Claimable, Attempts
<1>3. <<r, run[r].attempt + 1>> \in Claims
  BY <1>2, ClaimParts
<1>4. /\ execution'[<<r, run[r].attempt + 1>>].worker = w
      /\ execution'[<<r, run[r].attempt + 1>>].step \in {"claimed", "ended"}
      /\ \A c \in Claims : c # <<r, run[r].attempt + 1>> => execution'[c] = execution[c]
  <2>1. PICK step \in {"claimed", "ended"} :
           execution' = [execution EXCEPT ![<<r, run[r].attempt + 1>>] =
                            [step |-> step, worker |-> w, base |-> 0]]
    BY DEF RunOnceClaims
  <2>. QED  BY <1>0, <1>3, <2>1 DEF TypeOK
<1>5. ASSUME NEW q \in RunIds, q # r PROVE run'[q].attempt = run[q].attempt
  <2>1. Kept(q) \/ GivenUp(q)
    BY <1>0, <1>5, ClaimEffect
  <2>2. run[q] \in RunRow
    BY <1>0 DEF TypeOK
  <2>. QED  BY <2>1, <2>2 DEF Kept, GivenUp, Closed, RunRow
<1>. QED  BY <1>0, <1>1, <1>3, <1>4, <1>5 DEF ClaimedBy, RunRow

\* The steps that record an outcome record it for a granted claim.
LEMMA OutcomeEffect ==
    ASSUME QueueInvariant, NEW c \in Claims, NEW lag, NEW acknowledged,
           CompleteRun(c, lag, acknowledged) \/ FailRun(c, lag)
    PROVE  /\ c[1] \in RunIds /\ run[c[1]].status = "running" /\ c[2] <= run[c[1]].attempt
           /\ run[c[1]].owner = execution[c].worker
           /\ Terminal(c[1])' /\ writer'[c[1]] = c[2]
           /\ run'[c[1]].attempt = run[c[1]].attempt
           /\ \A r \in RunIds : r # c[1] => writer'[r] = writer[r]
<1>0. TypeOK /\ c[1] \in RunIds /\ c[2] \in Attempts /\ run[c[1]] \in RunRow
  BY ClaimParts DEF QueueInvariant, TypeOK
<1>1. run[c[1]].status = "running" /\ run[c[1]].owner = execution[c].worker
  BY DEF CompleteRun, FailRun, Owns
<1>2. c[2] <= run[c[1]].attempt
  <2>1. execution[c].step # "idle"
    BY DEF CompleteRun, FailRun
  <2>2. ~ (c[2] > run[c[1]].attempt)
    BY <2>1 DEF QueueInvariant, ExecutionsFollowClaims
  <2>. QED  BY <1>0, <2>2, ConstantsAssumption DEF RunRow, Attempts
<1>3. Terminal(c[1])' /\ run'[c[1]].attempt = run[c[1]].attempt
  <2>1. PICK status \in TerminalStatuses : run'[c[1]] = Closed(run[c[1]], status)
    BY <1>0 DEF TypeOK, CompleteRun, FailRun, TerminalStatuses
  <2>. QED  BY <1>0, <2>1 DEF Terminal, Closed, RunRow
<1>4. writer'[c[1]] = c[2] /\ \A r \in RunIds : r # c[1] => writer'[r] = writer[r]
  BY <1>0 DEF TypeOK, CompleteRun, FailRun
<1>. QED  BY <1>0, <1>1, <1>2, <1>3, <1>4

\* Only those steps change the author of an outcome.
LEMMA WriterStep ==
    ASSUME TypeOK, [Next]_vars
    PROVE  \/ UNCHANGED writer
           \/ \E c \in Claims, lag \in Lags, acknowledged \in BOOLEAN :
                 CompleteRun(c, lag, acknowledged) \/ FailRun(c, lag)
BY StepCases DEF Quiet, CreateRun, CancelRun, RunOnceReaps, RunOnceClaims, RenewLease, Tick

\* What a step may do to a worker.
LEMMA WorkerStep ==
    ASSUME TypeOK, [Next]_vars
    PROVE  \/ UNCHANGED worker
           \/ \E w \in Workers, lag \in Lags :
                 LoseLease(w, lag) \/ RenewRaises(w) \/ Settle(w) \/ Stop(w) \/ Crash(w)
           \/ \E r \in RunIds : Claimed(r)
<1>1. 0 \in Lags /\ \A lag \in Lags : Exhausted(lag) \cup Claimable(lag) \in SUBSET RunIds
  BY ConstantsAssumption DEF Lags, Exhausted, Claimable
<1>2. CASE Api
  BY <1>2 DEF Api, CreateSession, SubmitMessage, ResumeRun, CreateRun, CancelRun
<1>3. CASE \E w \in Workers : WorkerLoop(w)
  BY <1>1, <1>3 DEF WorkerLoop, RenewLease, RunOnceReaps, Claimed
<1>4. CASE \E c \in Claims : Execute(c)
  BY <1>4 DEF Execute, ReadCheckpoint, ReadCheckpointRaises, WorkflowReturns, WorkflowRaises,
     CompleteRun, CompleteRunRaises, FailRun, FailRunRaises
<1>. QED  BY <1>2, <1>3, <1>4 DEF Next, Tick, vars

\* A step keeps executions and claims together.
LEMMA ExecutionsStep == QueueInvariant /\ [Next]_vars => ExecutionsFollowClaims'
<1> SUFFICES ASSUME QueueInvariant, [Next]_vars PROVE ExecutionsFollowClaims'
  OBVIOUS
<1>0. TypeOK /\ TypeOK' /\ ExecutionsFollowClaims
  BY TypeStep DEF QueueInvariant
<1>1. ASSUME NEW c \in Claims PROVE (execution[c].step = "idle" <=> c[2] > run[c[1]].attempt)'
  <2>0. c[1] \in RunIds /\ c[2] \in Attempts /\ c = <<c[1], c[2]>>
    BY ClaimParts
  <2>1. CASE Claimed(c[1])
    <3>1. PICK w \in Workers, lag \in Lags, locked \in SUBSET RunIds, acknowledged \in BOOLEAN :
             RunOnceClaims(w, c[1], lag, locked, acknowledged)
      BY <2>1 DEF Claimed
    <3>2. /\ run'[c[1]].attempt = run[c[1]].attempt + 1
          /\ execution'[<<c[1], run[c[1]].attempt + 1>>].step # "idle"
          /\ c # <<c[1], run[c[1]].attempt + 1>> => execution'[c] = execution[c]
      BY <2>0, <3>1, GrantEffect
    <3>3. run[c[1]].attempt \in Nat /\ c[2] \in Nat
      BY <1>0, <2>0, ConstantsAssumption DEF TypeOK, RunRow, Attempts
    <3>4. CASE c[2] = run[c[1]].attempt + 1
      BY <2>0, <3>2, <3>3, <3>4
    <3>5. CASE c[2] # run[c[1]].attempt + 1
      <4>1. execution'[c] = execution[c]
        BY <2>0, <3>2, <3>5
      <4>. QED  BY <1>0, <3>2, <3>3, <3>5, <4>1 DEF ExecutionsFollowClaims
    <3>. QED  BY <3>4, <3>5
  <2>2. CASE ~Claimed(c[1])
    <3>1. TaskKept(c)
      BY <1>0, <2>0, <2>2, TaskStep DEF Grants, Claimed
    <3>2. run'[c[1]].attempt = run[c[1]].attempt
      BY <2>0, <2>2, OwnerStep DEF OwnerKept
    <3>. QED  BY <1>0, <3>1, <3>2 DEF ExecutionsFollowClaims, TaskKept
  <2>. QED  BY <2>1, <2>2
<1>2. ASSUME NEW r \in RunIds, run'[r].status = "running"
      PROVE  execution'[<<r, run'[r].attempt>>].worker = run'[r].owner
  <2>1. CASE Claimed(r)
    <3>1. PICK w \in Workers, lag \in Lags, locked \in SUBSET RunIds, acknowledged \in BOOLEAN :
             RunOnceClaims(w, r, lag, locked, acknowledged)
      BY <2>1 DEF Claimed
    <3>2. /\ run'[r].attempt = run[r].attempt + 1
          /\ run'[r].owner = w
          /\ execution'[<<r, run[r].attempt + 1>>].worker = w
      BY <3>1, GrantEffect
    <3>. QED  BY <3>2
  <2>2. CASE ~Claimed(r)
    <3>1. OwnerKept(r)
      BY <2>2, OwnerStep
    <3>2. execution[<<r, run[r].attempt>>].worker = run[r].owner
      BY <1>0, <1>2, <3>1 DEF ExecutionsFollowClaims, OwnerKept
    <3>3. run[r].attempt \in Attempts
      BY <1>0, <1>2, <3>1 DEF QueueInvariant, RowsSatisfyConstraint, RowLegal, OwnerKept,
         TypeOK, RunRow, Attempts
    <3>4. TaskKept(<<r, run[r].attempt>>)
      <4>1. <<r, run[r].attempt>> \in Claims /\ ~Grants(<<r, run[r].attempt>>)
        BY <2>2, <3>3, ClaimParts DEF Grants, Claimed
      <4>. QED  BY <1>0, <4>1, TaskStep
    <3>. QED  BY <1>2, <3>1, <3>2, <3>4 DEF OwnerKept, TaskKept
  <2>. QED  BY <2>1, <2>2
<1>3. ASSUME NEW r \in RunIds, writer'[r] # 0
      PROVE  Terminal(r)' /\ writer'[r] <= run'[r].attempt
  <2>1. CASE writer'[r] = writer[r]
    <3>1. Terminal(r) /\ writer[r] <= run[r].attempt
      BY <1>0, <1>3, <2>1 DEF ExecutionsFollowClaims
    <3>2. ~ \E n \in RunIds, s \in Sessions : CreateRun(n, s) /\ n = r
      BY <3>1 DEF CreateRun, Terminal, TerminalStatuses
    <3>3. run'[r] = run[r]
      <4>1. CASE \E n \in RunIds, s \in Sessions : CreateRun(n, s)
        BY <1>0, <3>2, <4>1 DEF CreateRun, TypeOK
      <4>2. CASE ~ \E n \in RunIds, s \in Sessions : CreateRun(n, s)
        BY <3>1, <4>2, ForwardStep DEF Forward, Kept
      <4>. QED  BY <4>1, <4>2
    <3>. QED  BY <2>1, <3>1, <3>3 DEF Terminal
  <2>2. CASE writer'[r] # writer[r]
    <3>1. PICK c \in Claims, lag \in Lags, acknowledged \in BOOLEAN :
             CompleteRun(c, lag, acknowledged) \/ FailRun(c, lag)
      BY <1>0, <2>2, WriterStep
    <3>2. r = c[1]
      BY <2>2, <3>1, OutcomeEffect
    <3>. QED  BY <3>1, <3>2, OutcomeEffect
  <2>. QED  BY <2>1, <2>2
<1>4. ASSUME NEW w \in Workers, worker'[w].state = "watching" PROVE worker'[w].job \in Claims
  <2>1. CASE worker' = worker
    BY <1>0, <1>4, <2>1 DEF ExecutionsFollowClaims
  <2>2. CASE \E v \in Workers, lag \in Lags :
                LoseLease(v, lag) \/ RenewRaises(v) \/ Settle(v) \/ Stop(v) \/ Crash(v)
    <3>1. PICK v \in Workers, state \in {"polling", "stopped"} :
             worker' = [worker EXCEPT ![v] = [state |-> state, job |-> <<>>]]
      BY <2>2 DEF LoseLease, RenewRaises, Settle, Stop, Crash, Idle
    <3>2. w # v /\ worker'[w] = worker[w]
      BY <1>0, <1>4, <3>1 DEF TypeOK
    <3>. QED  BY <1>0, <1>4, <3>2 DEF ExecutionsFollowClaims
  <2>3. CASE \E r \in RunIds : Claimed(r)
    <3>1. PICK v \in Workers, r \in RunIds, lag \in Lags, locked \in SUBSET RunIds,
               acknowledged \in BOOLEAN : RunOnceClaims(v, r, lag, locked, acknowledged)
      BY <2>3 DEF Claimed
    <3>2. <<r, run[r].attempt + 1>> \in Claims
      BY <3>1, GrantEffect
    <3>. QED  BY <1>0, <1>4, <3>1, <3>2 DEF RunOnceClaims, ExecutionsFollowClaims, TypeOK
  <2>. QED  BY <1>0, <2>1, <2>2, <2>3, WorkerStep
<1>. QED  BY <1>1, <1>2, <1>3, <1>4 DEF ExecutionsFollowClaims

\* Whoever records the outcome is the worker of the last claim, and no later
\* step changes either of them.
LEMMA AuthorStep == QueueInvariant /\ [Next]_vars => LastClaimantDecides'
<1> SUFFICES ASSUME QueueInvariant, [Next]_vars, NEW r \in RunIds, writer'[r] # 0
             PROVE  execution'[<<r, writer'[r]>>].worker
                    = execution'[<<r, run'[r].attempt>>].worker
  BY DEF LastClaimantDecides
<1>0. TypeOK /\ TypeOK' /\ ExecutionsFollowClaims /\ ExecutionsFollowClaims'
  BY TypeStep, ExecutionsStep DEF QueueInvariant
<1>1. Terminal(r)' /\ writer'[r] \in Attempts /\ run'[r].attempt \in Attempts
  <2>1. Terminal(r)' /\ writer'[r] <= run'[r].attempt
    BY <1>0 DEF ExecutionsFollowClaims
  <2>2. writer'[r] \in 0..MaxAttempts /\ run'[r].attempt \in 0..MaxAttempts
    BY <1>0 DEF TypeOK, RunRow
  <2>. QED  BY <2>1, <2>2, ConstantsAssumption DEF Attempts
<1>2. ~Claimed(r)
  <2>1. ASSUME NEW w \in Workers, NEW lag \in Lags, NEW locked \in SUBSET RunIds,
               NEW acknowledged \in BOOLEAN, RunOnceClaims(w, r, lag, locked, acknowledged)
        PROVE  FALSE
    BY <1>1, <2>1, GrantEffect DEF Terminal, TerminalStatuses
  <2>. QED  BY <2>1 DEF Claimed
<1>3. run'[r].attempt = run[r].attempt
  BY <1>2, OwnerStep DEF OwnerKept
<1>4. ASSUME NEW a \in Attempts PROVE execution'[<<r, a>>].worker = execution[<<r, a>>].worker
  <2>1. <<r, a>> \in Claims /\ ~Grants(<<r, a>>)
    BY <1>2, ClaimParts DEF Grants, Claimed
  <2>. QED  BY <1>0, <2>1, TaskStep DEF TaskKept
<1>5. execution[<<r, writer'[r]>>].worker = execution[<<r, run[r].attempt>>].worker
  <2>1. CASE writer'[r] = writer[r]
    BY <2>1 DEF QueueInvariant, LastClaimantDecides
  <2>2. CASE writer'[r] # writer[r]
    <3>1. PICK c \in Claims, lag \in Lags, acknowledged \in BOOLEAN :
             CompleteRun(c, lag, acknowledged) \/ FailRun(c, lag)
      BY <1>0, <2>2, WriterStep
    <3>2. r = c[1]
      BY <2>2, <3>1, OutcomeEffect
    <3>3. c = <<r, writer'[r]>> /\ run[r].status = "running" /\ run[r].owner = execution[c].worker
      BY <3>1, <3>2, OutcomeEffect, ClaimParts
    <3>4. execution[<<r, run[r].attempt>>].worker = run[r].owner
      BY <1>0, <3>3 DEF ExecutionsFollowClaims
    <3>. QED  BY <3>3, <3>4
  <2>. QED  BY <2>1, <2>2
<1>. QED  BY <1>1, <1>3, <1>4, <1>5

-----------------------------------------------------------------------------
(* Timelines and checkpoints.                                               *)

\* The timeline that goes with a status.
Matches(r) ==
    \/ run[r].status \in {"absent", "queued", "running"} /\ timeline[r] = <<>>
    \/ /\ run[r].status = "completed"
       /\ timeline[r] = <<"diagnosis_timeline", "session_checkpoint_saved">>
    \/ run[r].status = "cancelled" /\ timeline[r] = <<"run_cancelled">>
    \/ /\ run[r].status = "failed"
       /\ timeline[r] = IF writer[r] = 0 THEN <<"worker_attempts_exhausted">>
                        ELSE <<"diagnosis_execution_failed">>

\* Every step leaves every run with the timeline its status calls for.
LEMMA TimelineStep == QueueInvariant /\ [Next]_vars => TimelineMatchesStatus'
<1> SUFFICES ASSUME QueueInvariant, [Next]_vars, NEW q \in RunIds PROVE Matches(q)'
  BY DEF TimelineMatchesStatus, Matches
<1>0. TypeOK /\ run[q] \in RunRow /\ Matches(q)
  BY DEF QueueInvariant, TypeOK, TimelineMatchesStatus, Matches
<1>1. writer[q] # 0 => Terminal(q)
  BY DEF QueueInvariant, ExecutionsFollowClaims
<1>2. ASSUME Kept(q), writer'[q] = writer[q] PROVE Matches(q)'
  BY <1>0, <1>2 DEF Kept, Matches
<1>3. ASSUME GivenUp(q), writer'[q] = writer[q] PROVE Matches(q)'
  <2>1. timeline[q] = <<>> /\ writer[q] = 0
    BY <1>0, <1>1, <1>3 DEF GivenUp, Matches, Terminal, TerminalStatuses
  <2>2. run'[q].status = "failed"
    BY <1>0, <1>3 DEF GivenUp, Closed, RunRow
  <2>. QED  BY <1>3, <2>1, <2>2 DEF GivenUp, Matches
<1>4. ASSUME timeline'[q] = timeline[q], writer'[q] = writer[q],
             run[q].status \in {"absent", "queued", "running"},
             run'[q].status \in {"absent", "queued", "running"}
      PROVE  Matches(q)'
  BY <1>0, <1>4 DEF Matches
<1>5. CASE Quiet
  BY <1>2, <1>5 DEF Quiet, Kept
<1>6. ASSUME NEW r \in RunIds, NEW s \in Sessions, CreateRun(r, s) PROVE Matches(q)'
  <2>1. CASE q = r
    BY <1>0, <1>4, <1>6, <2>1 DEF TypeOK, CreateRun, NoRun
  <2>2. CASE q # r
    BY <1>0, <1>2, <1>6, <2>2 DEF TypeOK, CreateRun, Kept
  <2>. QED  BY <2>1, <2>2
<1>7. ASSUME NEW r \in RunIds, CancelRun(r) PROVE Matches(q)'
  <2>1. CASE q = r
    <3>1. timeline[q] = <<>>
      BY <1>0, <1>7, <2>1 DEF CancelRun, Cancellable, Active, ActiveStatuses, Matches
    <3>2. run'[q].status = "cancelled" /\ timeline'[q] = <<"run_cancelled">>
      BY <1>0, <1>7, <2>1, <3>1 DEF TypeOK, CancelRun, Closed, RunRow
    <3>. QED  BY <3>2 DEF Matches
  <2>2. CASE q # r
    BY <1>0, <1>2, <1>7, <2>2 DEF TypeOK, CancelRun, Kept
  <2>. QED  BY <2>1, <2>2
<1>8. ASSUME NEW w \in Workers, NEW lag \in Lags, NEW locked \in SUBSET RunIds,
             RunOnceReaps(w, lag, locked)
      PROVE  Matches(q)'
  <2>1. Kept(q) \/ GivenUp(q)
    BY <1>0, <1>8, ReapEffect DEF RunOnceReaps
  <2>2. writer' = writer
    BY <1>8 DEF RunOnceReaps
  <2>. QED  BY <1>2, <1>3, <2>1, <2>2
<1>9. ASSUME NEW w \in Workers, NEW r \in RunIds, NEW lag \in Lags,
             NEW locked \in SUBSET RunIds, NEW acknowledged \in BOOLEAN,
             RunOnceClaims(w, r, lag, locked, acknowledged)
      PROVE  Matches(q)'
  <2>1. writer' = writer
    BY <1>9 DEF RunOnceClaims
  <2>2. CASE q = r
    <3>1. timeline'[q] = timeline[q] /\ run[q].status \in {"queued", "running"}
      BY <1>0, <1>9, <2>2, ClaimEffect
    <3>2. run'[q].status = "running"
      BY <1>9, <2>2, GrantEffect
    <3>. QED  BY <1>4, <2>1, <3>1, <3>2
  <2>3. CASE q # r
    BY <1>0, <1>2, <1>3, <1>9, <2>1, <2>3, ClaimEffect
  <2>. QED  BY <2>2, <2>3
<1>10. ASSUME NEW w \in Workers, NEW lag \in Lags, RenewLease(w, lag) PROVE Matches(q)'
  <2>1. run'[q].status = run[q].status /\ timeline' = timeline /\ writer' = writer
    BY <1>0, <1>10 DEF TypeOK, RenewLease, RunRow
  <2>. QED  BY <1>0, <2>1 DEF Matches
<1>11. ASSUME NEW c \in Claims, NEW lag \in Lags, NEW acknowledged \in BOOLEAN,
              CompleteRun(c, lag, acknowledged)
       PROVE  Matches(q)'
  <2>1. CASE q = c[1]
    <3>1. /\ run'[q].status = "completed"
          /\ timeline'[q] = <<"diagnosis_timeline", "session_checkpoint_saved">>
      BY <1>0, <1>11, <2>1 DEF TypeOK, CompleteRun, Closed, RunRow
    <3>. QED  BY <3>1 DEF Matches
  <2>2. CASE q # c[1]
    BY <1>0, <1>2, <1>11, <2>2 DEF TypeOK, CompleteRun, Kept
  <2>. QED  BY <2>1, <2>2
<1>12. ASSUME NEW c \in Claims, NEW lag \in Lags, FailRun(c, lag) PROVE Matches(q)'
  <2>1. CASE q = c[1]
    <3>1. writer'[q] = c[2] /\ c[2] # 0
      BY <1>12, <2>1, OutcomeEffect, ClaimParts DEF Attempts
    <3>2. run'[q].status = "failed" /\ timeline'[q] = <<"diagnosis_execution_failed">>
      BY <1>0, <1>12, <2>1 DEF TypeOK, FailRun, Closed, RunRow
    <3>. QED  BY <3>1, <3>2 DEF Matches
  <2>2. CASE q # c[1]
    BY <1>0, <1>2, <1>12, <2>2 DEF TypeOK, FailRun, Kept
  <2>. QED  BY <2>1, <2>2
<1>13. CASE Tick
  <2>1. run'[q].status = run[q].status /\ timeline' = timeline /\ writer' = writer
    BY <1>0, <1>13 DEF TypeOK, Tick, RunRow
  <2>. QED  BY <1>0, <2>1 DEF Matches
<1>. QED
  BY <1>0, <1>5, <1>6, <1>7, <1>8, <1>9, <1>10, <1>11, <1>12, <1>13, StepCases

\* Only complete_run completes a run or writes a checkpoint.
CompletionsKept ==
    /\ UNCHANGED checkpoint
    /\ \A q \in RunIds :
          /\ run'[q].status = "completed" <=> run[q].status = "completed"
          /\ run[q].status = "completed" => run'[q].session = run[q].session

LEMMA CompletionStep ==
    ASSUME QueueInvariant, [Next]_vars
    PROVE  \/ CompletionsKept
           \/ \E c \in Claims, lag \in Lags, acknowledged \in BOOLEAN :
                 CompleteRun(c, lag, acknowledged)
<1> USE DEF CompletionsKept
<1>0. TypeOK
  BY DEF QueueInvariant
<1>1. ASSUME NEW q \in RunIds, Kept(q) \/ GivenUp(q)
      PROVE  /\ run'[q].status = "completed" <=> run[q].status = "completed"
             /\ run[q].status = "completed" => run'[q].session = run[q].session
  BY <1>0, <1>1 DEF Kept, GivenUp, Closed, TypeOK, RunRow
<1>2. CASE Quiet
  BY <1>2 DEF Quiet
<1>3. ASSUME NEW r \in RunIds, NEW s \in Sessions, CreateRun(r, s) PROVE CompletionsKept
  BY <1>0, <1>3 DEF TypeOK, CreateRun, NoRun
<1>4. ASSUME NEW r \in RunIds, CancelRun(r) PROVE CompletionsKept
  BY <1>0, <1>4 DEF TypeOK, CancelRun, Cancellable, Active, ActiveStatuses, Closed, RunRow
<1>5. ASSUME NEW w \in Workers, NEW lag \in Lags, NEW locked \in SUBSET RunIds,
             RunOnceReaps(w, lag, locked)
      PROVE  CompletionsKept
  <2>1. \A q \in RunIds : Kept(q) \/ GivenUp(q)
    BY <1>0, <1>5, ReapEffect DEF RunOnceReaps
  <2>. QED  BY <1>1, <1>5, <2>1 DEF RunOnceReaps
<1>6. ASSUME NEW w \in Workers, NEW r \in RunIds, NEW lag \in Lags,
             NEW locked \in SUBSET RunIds, NEW acknowledged \in BOOLEAN,
             RunOnceClaims(w, r, lag, locked, acknowledged)
      PROVE  CompletionsKept
  <2>1. run[r].status # "completed" /\ run'[r].status # "completed"
    BY <1>0, <1>6, ClaimEffect, GrantEffect
  <2>2. \A q \in RunIds : q # r => Kept(q) \/ GivenUp(q)
    BY <1>0, <1>6, ClaimEffect
  <2>. QED  BY <1>1, <1>6, <2>1, <2>2 DEF RunOnceClaims
<1>7. ASSUME NEW w \in Workers, NEW lag \in Lags, RenewLease(w, lag) PROVE CompletionsKept
  BY <1>0, <1>7 DEF TypeOK, RenewLease, RunRow
<1>8. ASSUME NEW c \in Claims, NEW lag \in Lags, FailRun(c, lag) PROVE CompletionsKept
  BY <1>0, <1>8, ClaimParts DEF TypeOK, FailRun, Owns, Closed, RunRow
<1>9. CASE Tick
  BY <1>0, <1>9 DEF TypeOK, Tick, RunRow
<1>. QED
  BY <1>0, <1>2, <1>3, <1>4, <1>5, <1>6, <1>7, <1>8, <1>9, StepCases

\* What complete_run does: the newest run of the session joins its completed
\* runs, and the checkpoint of no other session changes.
LEMMA CompleteEffect ==
    ASSUME QueueInvariant, NEW c \in Claims, NEW lag, NEW acknowledged,
           CompleteRun(c, lag, acknowledged)
    PROVE  /\ c[1] \in RunIds /\ run[c[1]].session \in Sessions
           /\ \A s \in Sessions : s = run[c[1]].session =>
                 /\ Completed(s)' = Completed(s) \cup {c[1]}
                 /\ c[1] \notin Completed(s)
                 /\ \A q \in Completed(s) : q <= c[1]
                 /\ checkpoint'[s] = [version |-> checkpoint[s].version + 1, source |-> c[1]]
           /\ \A s \in Sessions : s # run[c[1]].session =>
                 Completed(s)' = Completed(s) /\ checkpoint'[s] = checkpoint[s]
<1>0. /\ TypeOK /\ RowsSatisfyConstraint /\ ActiveIsNewest
      /\ c[1] \in RunIds /\ run[c[1]] \in RunRow
  BY ClaimParts DEF QueueInvariant, TypeOK
<1>1. run[c[1]].status = "running"
  BY DEF CompleteRun, Owns
<1>2. run[c[1]].session \in Sessions
  BY <1>0, <1>1 DEF RowsSatisfyConstraint, RowLegal, TypeOK
<1>3. /\ run'[c[1]].status = "completed" /\ run'[c[1]].session = run[c[1]].session
      /\ \A q \in RunIds : q # c[1] => run'[q] = run[q]
  BY <1>0 DEF TypeOK, CompleteRun, Closed, RunRow
<1>4. ASSUME NEW s \in Sessions, s = run[c[1]].session
      PROVE  /\ Completed(s)' = Completed(s) \cup {c[1]}
             /\ c[1] \notin Completed(s)
             /\ \A q \in Completed(s) : q <= c[1]
             /\ checkpoint'[s] = [version |-> checkpoint[s].version + 1, source |-> c[1]]
  <2>1. \A q \in Completed(s) : q <= c[1]
    BY <1>0, <1>1, <1>4 DEF ActiveIsNewest, Active, ActiveStatuses, Completed
  <2>2. execution[c].base = checkpoint[s].version
    BY <1>4 DEF CompleteRun, VersionAdmitted
  <2>3. checkpoint'[s] = [version |-> checkpoint[s].version + 1, source |-> c[1]]
    BY <1>0, <1>4, <2>2 DEF TypeOK, CompleteRun, NextCheckpoint
  <2>4. Completed(s)' = Completed(s) \cup {c[1]} /\ c[1] \notin Completed(s)
    BY <1>0, <1>1, <1>3, <1>4 DEF Completed
  <2>. QED  BY <2>1, <2>3, <2>4
<1>5. ASSUME NEW s \in Sessions, s # run[c[1]].session
      PROVE  Completed(s)' = Completed(s) /\ checkpoint'[s] = checkpoint[s]
  <2>1. checkpoint'[s] = checkpoint[s]
    BY <1>0, <1>2, <1>5 DEF TypeOK, CompleteRun
  <2>2. Completed(s)' = Completed(s)
    BY <1>0, <1>3, <1>5 DEF Completed
  <2>. QED  BY <2>1, <2>2
<1>. QED  BY <1>0, <1>2, <1>4, <1>5

\* The version of a checkpoint grows with the number of completed runs.
LEMMA CheckpointStep == QueueInvariant /\ [Next]_vars => CheckpointTracksCompletions'
<1> SUFFICES ASSUME QueueInvariant, [Next]_vars, NEW s \in Sessions
             PROVE  /\ checkpoint'[s].version = Cardinality(Completed(s)')
                    /\ Completed(s)' # {} => checkpoint'[s].source \in Completed(s)'
                    /\ \A r \in Completed(s)' : r <= checkpoint'[s].source
  BY DEF CheckpointTracksCompletions
<1>1. /\ checkpoint[s].version = Cardinality(Completed(s))
      /\ Completed(s) # {} => checkpoint[s].source \in Completed(s)
      /\ \A r \in Completed(s) : r <= checkpoint[s].source
  BY DEF QueueInvariant, CheckpointTracksCompletions
<1>2. CASE Completed(s)' = Completed(s) /\ checkpoint'[s] = checkpoint[s]
  BY <1>1, <1>2
<1>3. CASE CompletionsKept
  <2>1. \A q \in RunIds : run'[q].status = "completed" => run'[q].session = run[q].session
    BY <1>3 DEF CompletionsKept
  <2>2. Completed(s)' = Completed(s)
    BY <1>3, <2>1 DEF CompletionsKept, Completed
  <2>. QED  BY <1>2, <1>3, <2>2 DEF CompletionsKept
<1>4. ASSUME NEW c \in Claims, NEW lag \in Lags, NEW acknowledged \in BOOLEAN,
             CompleteRun(c, lag, acknowledged), run[c[1]].session = s
      PROVE  /\ checkpoint'[s].version = Cardinality(Completed(s)')
             /\ Completed(s)' # {} => checkpoint'[s].source \in Completed(s)'
             /\ \A r \in Completed(s)' : r <= checkpoint'[s].source
  <2>1. /\ Completed(s)' = Completed(s) \cup {c[1]}
        /\ c[1] \notin Completed(s) /\ c[1] \in RunIds
        /\ \A q \in Completed(s) : q <= c[1]
        /\ checkpoint'[s] = [version |-> checkpoint[s].version + 1, source |-> c[1]]
    BY <1>4, CompleteEffect
  <2>2. IsFiniteSet(Completed(s))
    <3>1. IsFiniteSet(RunIds)
      BY ConstantsAssumption, FS_Interval DEF RunIds
    <3>. QED  BY <3>1, FS_Subset DEF Completed
  <2>3. Cardinality(Completed(s)') = Cardinality(Completed(s)) + 1
    BY <2>1, <2>2, FS_AddElement
  <2>4. c[1] <= c[1]
    BY <2>1 DEF RunIds
  <2>. QED  BY <1>1, <2>1, <2>3, <2>4
<1>5. ASSUME NEW c \in Claims, NEW lag \in Lags, NEW acknowledged \in BOOLEAN,
             CompleteRun(c, lag, acknowledged), run[c[1]].session # s
      PROVE  Completed(s)' = Completed(s) /\ checkpoint'[s] = checkpoint[s]
  BY <1>5, CompleteEffect
<1>. QED  BY <1>2, <1>3, <1>4, <1>5, CompletionStep

\* No step makes the context of a live execution stale.
LEMMA ContextStep == QueueInvariant /\ [Next]_vars => RestoredContextIsCurrent'
<1> SUFFICES ASSUME QueueInvariant, [Next]_vars, NEW c \in Claims, Restored(c)', Active(c[1])'
             PROVE  VersionAdmitted(c)'
  BY DEF RestoredContextIsCurrent, Restored
<1>0. TypeOK /\ c[1] \in RunIds /\ c[2] \in Attempts /\ RestoredContextIsCurrent
  BY ClaimParts DEF QueueInvariant
<1>1. TaskKept(c)
  <2>1. ASSUME Grants(c) PROVE FALSE
    <3>1. execution'[c].step \in {"claimed", "ended"}
      BY <2>1, GrantEffect DEF Grants
    <3>. QED  BY <3>1 DEF Restored
  <2>. QED  BY <1>0, <2>1, TaskStep
<1>2. CASE UNCHANGED <<run, checkpoint>>
  BY <1>0, <1>1, <1>2 DEF TaskKept, RestoredContextIsCurrent, Restored, VersionAdmitted, Active
<1>3. CASE Restored(c) /\ execution'[c].base = execution[c].base
  <2>1. run[c[1]].status # "absent"
    <3>1. c[2] <= run[c[1]].attempt
      <4>1. ~ (c[2] > run[c[1]].attempt)
        BY <1>3 DEF QueueInvariant, ExecutionsFollowClaims, Restored
      <4>2. run[c[1]].attempt \in Nat /\ c[2] \in Nat
        BY <1>0, ConstantsAssumption DEF TypeOK, RunRow, Attempts
      <4>. QED  BY <4>1, <4>2
    <3>. QED  BY <1>0, <3>1 DEF QueueInvariant, RowsSatisfyConstraint, RowLegal, NoRun, Attempts
  <2>2. Active(c[1]) /\ run'[c[1]].session = run[c[1]].session
    <3>1. CASE \E r \in RunIds, s \in Sessions : CreateRun(r, s)
      BY <1>0, <2>1, <3>1 DEF CreateRun, TypeOK, Active
    <3>2. CASE ~ \E r \in RunIds, s \in Sessions : CreateRun(r, s)
      BY <1>0, <3>2, ForwardStep DEF Forward
    <3>. QED  BY <3>1, <3>2
  <2>3. execution[c].base = checkpoint[run[c[1]].session].version
    BY <1>0, <1>3, <2>2 DEF RestoredContextIsCurrent, Restored, VersionAdmitted
  <2>4. checkpoint'[run[c[1]].session] = checkpoint[run[c[1]].session]
    <3>1. ASSUME NEW d \in Claims, NEW lag \in Lags, NEW acknowledged \in BOOLEAN,
                 CompleteRun(d, lag, acknowledged)
          PROVE  checkpoint'[run[c[1]].session] = checkpoint[run[c[1]].session]
      <4>1. d[1] # c[1]
        BY <3>1, OutcomeEffect DEF Active, ActiveStatuses, Terminal, TerminalStatuses
      <4>2. Active(d[1]) /\ d[1] \in RunIds
        BY <3>1, OutcomeEffect DEF Active, ActiveStatuses
      <4>3. run[d[1]].session # run[c[1]].session
        BY <1>0, <2>2, <4>1, <4>2, NewestIsOnly DEF QueueInvariant, OneActiveRunPerSession
      <4>4. run[c[1]].session \in Sessions
        BY <1>0, <2>1 DEF QueueInvariant, RowsSatisfyConstraint, RowLegal, TypeOK
      <4>. QED  BY <3>1, <4>3, <4>4, CompleteEffect
    <3>. QED  BY <3>1, CompletionStep DEF CompletionsKept
  <2>. QED  BY <1>3, <2>2, <2>3, <2>4 DEF VersionAdmitted
<1>. QED  BY <1>1, <1>2, <1>3 DEF TaskKept

-----------------------------------------------------------------------------
(* The theorems.                                                            *)

LEMMA InitInvariant == Init => QueueInvariant
<1> SUFFICES ASSUME Init PROVE QueueInvariant
  OBVIOUS
<1> USE ConstantsAssumption DEF Init
<1>1. TypeOK
  <2>1. NoRun \in RunRow
    <3>1. 0 \in 0..MaxAttempts /\ "absent" \in Statuses
      BY DEF Statuses
    <3>. QED  BY <3>1, LeaseFacts DEF NoRun, RunRow
  <2>2. [version |-> 0, source |-> 0] \in Checkpoint
    BY DEF Checkpoint
  <2>3. [state |-> "polling", job |-> <<>>] \in WorkerState
    BY DEF WorkerState
  <2>4. [step |-> "idle", worker |-> None, base |-> 0] \in Execution
    BY DEF Execution
  <2>. QED  BY <2>1, <2>2, <2>3, <2>4 DEF TypeOK
<1>2. RowsSatisfyConstraint
  BY DEF RowsSatisfyConstraint, RowLegal, NoRun
<1>3. SubmittedInOrder /\ ActiveIsNewest
  BY DEF SubmittedInOrder, ActiveIsNewest, Active, ActiveStatuses, NoRun
<1>4. ExecutionsFollowClaims
  BY ClaimParts DEF ExecutionsFollowClaims, NoRun, Attempts
<1>5. CheckpointTracksCompletions
  <2>1. \A s \in Sessions : Completed(s) = {}
    BY DEF Completed, NoRun
  <2>. QED  BY <2>1, FS_EmptySet DEF CheckpointTracksCompletions
<1>6. RestoredContextIsCurrent /\ TimelineMatchesStatus /\ LastClaimantDecides
  BY DEF RestoredContextIsCurrent, TimelineMatchesStatus, LastClaimantDecides, NoRun
<1>. QED  BY <1>1, <1>2, <1>3, <1>4, <1>5, <1>6 DEF QueueInvariant

\* The invariant of the queue: every conjunct holds in every reachable state,
\* for any number of workers, sessions, runs, attempts and any clock error.
THEOREM Invariant == Spec => []QueueInvariant
<1>1. QueueInvariant /\ [Next]_vars => QueueInvariant'
  BY TypeStep, RowsStep, OrderStep, ExecutionsStep, CheckpointStep, ContextStep, TimelineStep,
     AuthorStep DEF QueueInvariant
<1>. QED  BY InitInvariant, <1>1, PTL DEF Spec

\* Every row, task and worker keeps the fields its class declares.
THEOREM TypeCorrect == Spec => []TypeOK
<1>1. QueueInvariant => TypeOK
  BY DEF QueueInvariant
<1>. QED  BY Invariant, <1>1, PTL

\* No statement of the repository is refused by the check constraint of
\* agent_runs.
THEOREM RowsLegal == Spec => []RowsSatisfyConstraint
<1>1. QueueInvariant => RowsSatisfyConstraint
  BY DEF QueueInvariant
<1>. QED  BY Invariant, <1>1, PTL

\* A session has one run in flight at most: the test under the session lock
\* suffices, the partial unique index never fires.
THEOREM OneActiveRun == Spec => []OneActiveRunPerSession
<1>1. QueueInvariant => OneActiveRunPerSession
  BY NewestIsOnly DEF QueueInvariant
<1>. QED  BY Invariant, <1>1, PTL

\* No transaction of the queue ever meets a constraint of agent_runs: neither the
\* check on the lease columns nor the unique index on active runs.
THEOREM ConstraintsHold == Spec => []ConstraintsAreMet
<1>1. RowsSatisfyConstraint /\ OneActiveRunPerSession => ConstraintsAreMet
  BY DEF ConstraintsAreMet
<1>. QED  BY RowsLegal, OneActiveRun, <1>1, PTL

\* The checkpoint version of a session is the number of its completed runs.
THEOREM CheckpointCounts == Spec => []CheckpointTracksCompletions
<1>1. QueueInvariant => CheckpointTracksCompletions
  BY DEF QueueInvariant
<1>. QED  BY Invariant, <1>1, PTL

\* An execution of a run in flight is never refused for a stale context.
THEOREM ContextNeverStale == Spec => []RestoredContextIsCurrent
<1>1. QueueInvariant => RestoredContextIsCurrent
  BY DEF QueueInvariant
<1>. QED  BY Invariant, <1>1, PTL

\* A run has the one timeline its status calls for.
THEOREM TimelineExact == Spec => []TimelineMatchesStatus
<1>1. QueueInvariant => TimelineMatchesStatus
  BY DEF QueueInvariant
<1>. QED  BY Invariant, <1>1, PTL

\* A worker that was replaced by another one records nothing.
THEOREM FencedByWorker == Spec => []LastClaimantDecides
<1>1. QueueInvariant => LastClaimantDecides
  BY DEF QueueInvariant
<1>. QED  BY Invariant, <1>1, PTL

\* Nothing that happens after a run ended changes its outcome.
THEOREM OutcomesAreFinal == Spec => OutcomeIsFinal
<1>1. ASSUME QueueInvariant, [Next]_vars, NEW r \in RunIds, Terminal(r)
      PROVE  run'[r] = run[r] /\ timeline'[r] = timeline[r] /\ writer'[r] = writer[r]
  <2>1. CASE \E n \in RunIds, s \in Sessions : CreateRun(n, s)
    BY <1>1, <2>1 DEF QueueInvariant, TypeOK, CreateRun, Terminal, TerminalStatuses
  <2>2. CASE ~ \E n \in RunIds, s \in Sessions : CreateRun(n, s)
    BY <1>1, <2>2, ForwardStep DEF Forward, Kept
  <2>. QED  BY <2>1, <2>2
<1>2. QueueInvariant /\ [Next]_vars
      => [\A r \in RunIds : Terminal(r) => /\ run'[r] = run[r]
                                           /\ timeline'[r] = timeline[r]
                                           /\ writer'[r] = writer[r]]_vars
  BY <1>1
<1>. QED  BY Invariant, <1>2, PTL DEF Spec, OutcomeIsFinal

-----------------------------------------------------------------------------
(* The queue implements the life cycle RunLifecycle.tla promises: every    *)
(* step of the queue is a step of the life cycle, or none.                  *)

\* What the client sees of a step that only moves runs along.
LEMMA AdvanceStep ==
    ASSUME TypeOK, UNCHANGED checkpoint, run' \in [RunIds -> RunRow],
           \A r \in RunIds :
              /\ run'[r].session = run[r].session
              /\ \/ run'[r].status = run[r].status
                 \/ run[r].status = "queued" /\ run'[r].status = "running"
                 \/ run[r].status = "running" /\ run'[r].status = "failed"
    PROVE  Lifecycle!Advance
<1>1. [r \in RunIds |-> run'[r].status] \in [RunIds -> Statuses]
  BY DEF RunRow
<1>2. [r \in RunIds |-> run'[r].session] = [r \in RunIds |-> run[r].session]
  OBVIOUS
<1>3. Lifecycle!RunIds = RunIds /\ Lifecycle!Phases = Statuses
  BY DEF Lifecycle!RunIds, RunIds, Lifecycle!Phases, Statuses, Lifecycle!ActivePhases,
     ActiveStatuses, Lifecycle!TerminalPhases, TerminalStatuses
<1>. QED  BY <1>1, <1>2, <1>3 DEF Lifecycle!Advance

\* Given up or kept, a run moves along.
LEMMA KeptAdvances ==
    ASSUME TypeOK, NEW q \in RunIds, Kept(q) \/ GivenUp(q)
    PROVE  /\ run'[q].session = run[q].session
           /\ \/ run'[q].status = run[q].status
              \/ run[q].status = "running" /\ run'[q].status = "failed"
BY DEF Kept, GivenUp, Closed, TypeOK, RunRow

\* Every step of the queue maps to a step of the life cycle or to a stutter.
LEMMA LifecycleStep ==
    QueueInvariant /\ [Next]_vars => [Lifecycle!Next]_(Lifecycle!vars)
<1> SUFFICES ASSUME QueueInvariant, [Next]_vars
             PROVE  Lifecycle!Next \/ UNCHANGED Lifecycle!vars
  OBVIOUS
<1>0. TypeOK /\ TypeOK' /\ Lifecycle!RunIds = RunIds
  BY TypeStep DEF QueueInvariant, Lifecycle!RunIds, RunIds
<1>1. ASSUME UNCHANGED checkpoint,
             \A r \in RunIds : /\ run'[r].status = run[r].status
                               /\ run'[r].session = run[r].session
      PROVE  UNCHANGED Lifecycle!vars
  BY <1>1 DEF Lifecycle!vars
<1>2. CASE Quiet
  BY <1>1, <1>2 DEF Quiet
<1>3. ASSUME NEW r \in RunIds, NEW s \in Sessions, CreateRun(r, s) PROVE Lifecycle!Next
  <2>1. /\ run'[r].status = "queued" /\ run'[r].session = s /\ UNCHANGED checkpoint
        /\ \A q \in RunIds : q # r => run'[q] = run[q]
    BY <1>0, <1>3 DEF TypeOK, CreateRun, NoRun
  <2>2. [q \in RunIds |-> run'[q].status]
        = [[q \in RunIds |-> run[q].status] EXCEPT ![r] = "queued"]
    BY <2>1
  <2>3. [q \in RunIds |-> run'[q].session] = [[q \in RunIds |-> run[q].session] EXCEPT ![r] = s]
    BY <2>1
  <2>4. /\ run[r].status = "absent"
        /\ \A q \in RunIds : q < r => run[q].status # "absent"
        /\ \A q \in RunIds : run[q].session = s => run[q].status \notin ActiveStatuses
    BY <1>3 DEF CreateRun, HasActiveRun, Active
  <2>5. Lifecycle!Submit(r, s)
    BY <1>0, <2>1, <2>2, <2>3, <2>4
       DEF Lifecycle!Submit, Lifecycle!ActivePhases, ActiveStatuses
  <2>. QED  BY <1>0, <2>5 DEF Lifecycle!Next
<1>4. ASSUME NEW r \in RunIds, CancelRun(r) PROVE Lifecycle!Next
  <2>1. /\ run'[r].status = "cancelled" /\ run'[r].session = run[r].session
        /\ UNCHANGED checkpoint
        /\ \A q \in RunIds : q # r => run'[q] = run[q]
    BY <1>0, <1>4 DEF TypeOK, CancelRun, Closed, RunRow
  <2>2. [q \in RunIds |-> run'[q].status]
        = [[q \in RunIds |-> run[q].status] EXCEPT ![r] = "cancelled"]
    BY <2>1
  <2>3. [q \in RunIds |-> run'[q].session] = [q \in RunIds |-> run[q].session]
    BY <2>1
  <2>4. Lifecycle!Cancel(r)
    BY <1>4, <2>1, <2>2, <2>3 DEF CancelRun, Cancellable, Active, ActiveStatuses,
       Lifecycle!Cancel, Lifecycle!ActivePhases
  <2>. QED  BY <1>0, <2>4 DEF Lifecycle!Next
<1>5. ASSUME NEW w \in Workers, NEW lag \in Lags, NEW locked \in SUBSET RunIds,
             RunOnceReaps(w, lag, locked)
      PROVE  Lifecycle!Next
  <2>1. \A q \in RunIds : Kept(q) \/ GivenUp(q)
    BY <1>0, <1>5, ReapEffect DEF RunOnceReaps
  <2>2. Lifecycle!Advance
    BY <1>0, <1>5, <2>1, KeptAdvances, AdvanceStep DEF RunOnceReaps, TypeOK
  <2>. QED  BY <2>2 DEF Lifecycle!Next
<1>6. ASSUME NEW w \in Workers, NEW r \in RunIds, NEW lag \in Lags,
             NEW locked \in SUBSET RunIds, NEW acknowledged \in BOOLEAN,
             RunOnceClaims(w, r, lag, locked, acknowledged)
      PROVE  Lifecycle!Next
  <2>1. \A q \in RunIds : q # r => Kept(q) \/ GivenUp(q)
    BY <1>0, <1>6, ClaimEffect
  <2>2. /\ run[r].status \in {"queued", "running"}
        /\ run'[r].status = "running" /\ run'[r].session = run[r].session
    <3>1. run[r].status \in {"queued", "running"} /\ run'[r] = ClaimedBy(run[r], w, lag)
      BY <1>0, <1>6, ClaimEffect
    <3>. QED  BY <1>0, <3>1 DEF ClaimedBy, TypeOK, RunRow
  <2>3. Lifecycle!Advance
    BY <1>0, <1>6, <2>1, <2>2, KeptAdvances, AdvanceStep DEF RunOnceClaims, TypeOK
  <2>. QED  BY <2>3 DEF Lifecycle!Next
<1>7. ASSUME NEW w \in Workers, NEW lag \in Lags, RenewLease(w, lag)
      PROVE  UNCHANGED Lifecycle!vars
  BY <1>0, <1>1, <1>7 DEF TypeOK, RenewLease, RunRow
<1>8. ASSUME NEW c \in Claims, NEW lag \in Lags, NEW acknowledged \in BOOLEAN,
             CompleteRun(c, lag, acknowledged)
      PROVE  Lifecycle!Next
  <2>0. c[1] \in RunIds /\ run[c[1]].status = "running"
    BY <1>8, OutcomeEffect
  <2>1. /\ run'[c[1]].status = "completed" /\ run'[c[1]].session = run[c[1]].session
        /\ \A q \in RunIds : q # c[1] => run'[q] = run[q]
    BY <1>0, <1>8, <2>0 DEF TypeOK, CompleteRun, Closed, RunRow
  <2>2. [q \in RunIds |-> run'[q].status]
        = [[q \in RunIds |-> run[q].status] EXCEPT ![c[1]] = "completed"]
    BY <2>0, <2>1
  <2>3. [q \in RunIds |-> run'[q].session] = [q \in RunIds |-> run[q].session]
    BY <2>0, <2>1
  <2>4. checkpoint' = [checkpoint EXCEPT ![run[c[1]].session] =
                          [version |-> @.version + 1, source |-> c[1]]]
    BY <1>8 DEF CompleteRun, VersionAdmitted, NextCheckpoint
  <2>5. Lifecycle!Complete(c[1])
    BY <2>0, <2>2, <2>3, <2>4 DEF Lifecycle!Complete
  <2>. QED  BY <1>0, <2>0, <2>5 DEF Lifecycle!Next
<1>9. ASSUME NEW c \in Claims, NEW lag \in Lags, FailRun(c, lag) PROVE Lifecycle!Next
  <2>0. c[1] \in RunIds /\ run[c[1]].status = "running"
    BY <1>9, OutcomeEffect
  <2>1. /\ run'[c[1]].status = "failed" /\ run'[c[1]].session = run[c[1]].session
        /\ \A q \in RunIds : q # c[1] => run'[q] = run[q]
    BY <1>0, <1>9, <2>0 DEF TypeOK, FailRun, Closed, RunRow
  <2>2. Lifecycle!Advance
    BY <1>0, <1>9, <2>0, <2>1, AdvanceStep DEF FailRun, TypeOK
  <2>. QED  BY <2>2 DEF Lifecycle!Next
<1>10. CASE Tick
  BY <1>0, <1>1, <1>10 DEF TypeOK, Tick, RunRow
<1>. QED
  BY <1>0, <1>2, <1>3, <1>4, <1>5, <1>6, <1>7, <1>8, <1>9, <1>10, StepCases

\* A client that only knows the life cycle never observes the queue deviate
\* from it, whatever workers, clocks and connections do.
THEOREM LifecycleImplemented == Spec => ImplementsLifecycle
<1>1. Init => Lifecycle!Init
  BY DEF Init, NoRun, Lifecycle!Init, Lifecycle!RunIds, RunIds
<1>. QED  BY Invariant, LifecycleStep, <1>1, PTL DEF Spec, ImplementsLifecycle, Lifecycle!Spec
=============================================================================
