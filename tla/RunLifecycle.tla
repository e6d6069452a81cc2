--------------------------- MODULE RunLifecycle ---------------------------
(***************************************************************************)
(* What the diagnosis run queue promises to a client of the API, with no   *)
(* worker, lease, attempt or transaction in sight: every session handles   *)
(* one run at a time, a run only moves forward, and the checkpoint of a    *)
(* session advances by one exactly when one of its runs completes.         *)
(* RunQueue.tla is shown to implement this specification.                  *)
(***************************************************************************)
EXTENDS Naturals, FiniteSets

CONSTANTS Sessions,   \* diagnosis sessions
          MaxRuns,    \* bound: number of runs ever submitted
          None        \* "no session" of a run that was not submitted yet

VARIABLES phase,      \* run -> its public status
          home,       \* run -> the session it belongs to
          saved       \* session -> version and source run of its checkpoint

vars == <<phase, home, saved>>

RunIds == 1..MaxRuns
ActivePhases == {"queued", "running"}
TerminalPhases == {"completed", "failed", "cancelled"}
Phases == {"absent"} \cup ActivePhases \cup TerminalPhases

Init ==
    /\ phase = [r \in RunIds |-> "absent"]
    /\ home = [r \in RunIds |-> None]
    /\ saved = [s \in Sessions |-> [version |-> 0, source |-> 0]]

\* The client submits (or resumes) a run: only into a session at rest.
Submit(r, s) ==
    /\ phase[r] = "absent"
    /\ \A q \in RunIds : home[q] = s => phase[q] \notin ActivePhases
    /\ \A q \in RunIds : q < r => phase[q] # "absent"
    /\ phase' = [phase EXCEPT ![r] = "queued"]
    /\ home' = [home EXCEPT ![r] = s]
    /\ UNCHANGED saved

\* The queue starts some queued runs and gives up on some running ones, at once.
Advance ==
    /\ phase' \in [RunIds -> Phases]
    /\ \A r \in RunIds :
          \/ phase'[r] = phase[r]
          \/ phase[r] = "queued" /\ phase'[r] = "running"
          \/ phase[r] = "running" /\ phase'[r] = "failed"
    /\ UNCHANGED <<home, saved>>

\* A run completes together with the next checkpoint of its session.
Complete(r) ==
    /\ phase[r] = "running"
    /\ phase' = [phase EXCEPT ![r] = "completed"]
    /\ saved' = [saved EXCEPT ![home[r]] = [version |-> @.version + 1, source |-> r]]
    /\ UNCHANGED home

\* The client cancels a run that has not ended.
Cancel(r) ==
    /\ phase[r] \in ActivePhases
    /\ phase' = [phase EXCEPT ![r] = "cancelled"]
    /\ UNCHANGED <<home, saved>>

Next ==
    \/ \E r \in RunIds, s \in Sessions : Submit(r, s)
    \/ Advance
    \/ \E r \in RunIds : Complete(r) \/ Cancel(r)

Spec == Init /\ [][Next]_vars
=============================================================================
