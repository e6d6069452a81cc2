----------------------------- MODULE DemoPage ------------------------------
(***************************************************************************)
(* The single-page demo: what app.js shows of the current run, kept up to  *)
(* date by the frames of RunStream, by polling when the stream fails, and  *)
(* by the buttons.  A refresh reads the run and its events with two GETs   *)
(* that the server answers in any order; it is rendered when both answers  *)
(* are there, whatever the page has become since.                          *)
(***************************************************************************)
EXTENDS StreamBounds, Sequences, FiniteSets

CONSTANTS MaxCalls,    \* bound: refreshes awaited at a time
          Outcomes     \* how the worker ends a run

ASSUME OutcomesAssumption == Outcomes \subseteq {"completed", "failed"}

VARIABLES row, conn, wire, source, received, breaks,
          runId,      \* state.runId, 0 before the first submission
          badge,      \* the run and the status on display
          shown,      \* the timeline: run and sequence of every item
          live,       \* state.streamFrames > 0
          timers,     \* runs with a pending setTimeout of pollRun
          pollTimer,  \* state.pollTimer: the run of the last setTimeout
          calls,      \* refreshRun calls not yet resolved
          failed      \* some refresh was rejected

Stream == INSTANCE RunStream

page == <<runId, badge, shown, live, timers, pollTimer, calls, failed>>
channel == <<conn, wire, source, received, breaks>>
vars == <<row, channel, page>>

CallIds == 1..MaxCalls
Terminal(s) == Stream!Terminal(s)

\* upto = -1: the events are not read yet.
NoCall == [poll |-> FALSE, run |-> 0, status |-> "absent", upto |-> -1]
Refresh(poll, r) == [poll |-> poll, run |-> r, status |-> "absent", upto |-> -1]
Calls == [poll : BOOLEAN, run : RunIds \cup {0}, status : Stream!Statuses,
          upto : -1..MaxEvents]

TypeOK ==
    /\ Stream!TypeOK
    /\ runId \in RunIds \cup {0}
    /\ badge \in [run : RunIds \cup {0}, status : Stream!Statuses]
    /\ shown \in Seq(RunIds \X (1..MaxEvents))
    /\ live \in BOOLEAN
    /\ timers \subseteq RunIds
    /\ pollTimer \in RunIds \cup {0}
    /\ calls \in [CallIds -> Calls]
    /\ failed \in BOOLEAN

Init ==
    /\ Stream!Init
    /\ runId = 0
    /\ badge = [run |-> 0, status |-> "absent"]
    /\ shown = <<>>
    /\ live = FALSE
    /\ timers = {}
    /\ pollTimer = 0
    /\ calls = [i \in CallIds |-> NoCall]
    /\ failed = FALSE

\* A refreshRun call starts, in the first free slot.
Call(poll, r) ==
    \E i \in CallIds :
        /\ calls[i] = NoCall
        /\ \A j \in CallIds : j < i => calls[j] # NoCall
        /\ calls' = [calls EXCEPT ![i] = Refresh(poll, r)]

\* clearTimeout(state.pollTimer): the last timer set, if it has not fired.
TimersCleared == timers \ {pollTimer}

(***************************************************************************)
(* The buttons.  A request and the handling of its answer are one step.    *)
(***************************************************************************)
StartRunStream(r) ==
    /\ Stream!Open(r)
    /\ live' = FALSE
    /\ timers' = TimersCleared
    /\ runId' = r
    /\ badge' = [run |-> r, status |-> "queued"]
    /\ UNCHANGED <<pollTimer, calls, failed>>

SubmitMessage(r) ==
    /\ Stream!Create(r)
    /\ StartRunStream(r)
    /\ shown' = <<>>

\* The timeline of the cancelled run stays until the first refresh.
ResumeRun(r) ==
    /\ runId # 0
    /\ row[runId].status = "cancelled"
    /\ Stream!Create(r)
    /\ StartRunStream(r)
    /\ UNCHANGED shown

CancelRun ==
    /\ runId # 0
    /\ Stream!End(runId, "cancelled", 1)
    /\ badge' = [run |-> runId, status |-> "cancelled"]
    /\ Call(FALSE, runId)
    /\ UNCHANGED <<channel, runId, shown, live, timers, pollTimer, failed>>

\* Bound: pressed until the run has ended; from then on every refresh reads the
\* same.
RefreshEvents ==
    /\ runId # 0
    /\ ~Terminal(row[runId].status)
    /\ Call(FALSE, runId)
    /\ UNCHANGED <<row, channel, runId, badge, shown, live, timers, pollTimer, failed>>

(***************************************************************************)
(* The handlers of the stream.                                             *)
(***************************************************************************)
OnRunSnapshot ==
    /\ Stream!Take("run_snapshot")
    /\ live' = TRUE
    /\ badge' = [run |-> source.run, status |-> Head(wire).status]
    /\ Call(FALSE, source.run)
    /\ UNCHANGED <<row, runId, shown, timers, pollTimer, failed>>

\* An event already on display, by its sequence, is not shown again.
Appended(r, n) ==
    IF \E i \in DOMAIN shown : shown[i][2] = n THEN shown ELSE Append(shown, <<r, n>>)

OnRunEvent ==
    /\ Stream!Take("run_event")
    /\ live' = TRUE
    /\ shown' = Appended(source.run, Head(wire).cursor)
    /\ UNCHANGED <<row, runId, badge, timers, pollTimer, calls, failed>>

\* Polling takes over from a stream that timed out: this connection has ended,
\* not the run.
FallbackToPolling(r) ==
    /\ Call(TRUE, r)
    /\ timers' = TimersCleared

OnStreamEnd ==
    /\ Stream!TakeEnd
    /\ live' = FALSE
    /\ IF Head(wire).reason = "stream_timeout"
       THEN FallbackToPolling(source.run)
       ELSE Call(FALSE, source.run) /\ UNCHANGED timers
    /\ UNCHANGED <<row, runId, badge, shown, pollTimer, failed>>

\* Before any frame an error means there is no stream here; later the browser
\* is left to reconnect.
OnErrorBeforeFrames ==
    /\ ~live
    /\ source.state \in {"connecting", "open"}
    /\ Stream!Close
    /\ FallbackToPolling(source.run)
    /\ UNCHANGED <<row, runId, badge, shown, live, pollTimer, failed>>

OnErrorAfterFrames ==
    /\ live
    /\ Stream!Break \/ Stream!Refuse
    /\ UNCHANGED <<row, page>>

(***************************************************************************)
(* Refreshes and polling.                                                  *)
(***************************************************************************)
ReadRun(i) ==
    /\ calls[i].run # 0
    /\ calls[i].status = "absent"
    /\ calls' = [calls EXCEPT ![i].status = row[calls[i].run].status]
    /\ UNCHANGED <<row, channel, runId, badge, shown, live, timers, pollTimer, failed>>

ReadEvents(i) ==
    /\ calls[i].run # 0
    /\ calls[i].upto = -1
    /\ calls' = [calls EXCEPT ![i].upto = row[calls[i].run].count]
    /\ UNCHANGED <<row, channel, runId, badge, shown, live, timers, pollTimer, failed>>

PollAgainAlways(call) == call.poll

\* Polling goes on until an answer has a terminal status.
PollAgain(call) == call.poll /\ ~Terminal(call.status)

\* renderRun and renderEvents; a poll then schedules the next.
Render(i) ==
    LET call == calls[i]
    IN  /\ call.run # 0 /\ call.status # "absent" /\ call.upto # -1
        /\ badge' = [run |-> call.run, status |-> call.status]
        /\ shown' = [k \in 1..call.upto |-> <<call.run, k>>]
        /\ IF PollAgain(call)
           THEN timers' = timers \cup {call.run} /\ pollTimer' = call.run
           ELSE UNCHANGED <<timers, pollTimer>>
        /\ calls' = [calls EXCEPT ![i] = NoCall]
        /\ UNCHANGED <<row, channel, runId, live, failed>>

\* A rejected request ends its refresh; a poll is not tried again.
Rejected(i) ==
    /\ calls[i].run # 0
    /\ failed' = TRUE
    /\ calls' = [calls EXCEPT ![i] = NoCall]
    /\ UNCHANGED <<row, channel, runId, badge, shown, live, timers, pollTimer>>

Refreshing(i) == ReadRun(i) \/ ReadEvents(i) \/ Render(i)

PollRun(r) ==
    /\ r \in timers
    /\ timers' = TimersCleared \ {r}
    /\ Call(TRUE, r)
    /\ UNCHANGED <<row, channel, runId, badge, shown, live, pollTimer, failed>>

(***************************************************************************)
(* The specification                                                       *)
(***************************************************************************)
Worker ==
    /\ \E r \in RunIds :
          \/ Stream!Start(r)
          \/ \E s \in Outcomes :
                Stream!End(r, s, IF s = "completed" THEN MaxEvents ELSE 1)
    /\ UNCHANGED <<channel, page>>

Server == (Stream!Connect \/ Stream!GetRun \/ Stream!GetEvents) /\ UNCHANGED page

Handler == OnRunSnapshot \/ OnRunEvent \/ OnStreamEnd

Next ==
    \/ Worker \/ Server
    \/ \E r \in RunIds : SubmitMessage(r) \/ ResumeRun(r) \/ PollRun(r)
    \/ CancelRun \/ RefreshEvents
    \/ Handler \/ OnErrorBeforeFrames \/ OnErrorAfterFrames
    \/ \E i \in CallIds : Refreshing(i) \/ Rejected(i)

Spec == Init /\ [][Next]_vars

\* The server answers, the browser reconnects and runs its handlers and timers,
\* and the workers end every run (EveryRunEnds of RunQueue.tla).
Fairness ==
    /\ WF_vars(Worker)
    /\ WF_vars(Server)
    /\ WF_vars(Handler)
    /\ WF_vars(\E r \in RunIds : PollRun(r))
    /\ \A i \in CallIds : WF_vars(Refreshing(i))

FairSpec == Spec /\ Fairness

(***************************************************************************)
(* Properties                                                              *)
(***************************************************************************)
\* The stream's guarantees hold as this page uses it (RunStream.tla).
OnceInOrder == Stream!OnceInOrder
EndIsComplete == Stream!EndIsComplete

\* The timeline never shows a sequence number twice nor out of order, whatever
\* refreshes replace it while the stream appends to it (frontend-design.md 116).
NoRepeat ==
    \A i, j \in DOMAIN shown : i < j => shown[i][2] < shown[j][2]

\* What reaches the page is every event of the run, once and in order, and all of
\* them before the end; and the timeline it shows, which refreshes replace while the
\* stream appends to it, repeats none (iter_run_stream, appendTimelineEvent).
ShownFaithfully == OnceInOrder /\ EndIsComplete /\ NoRepeat

Following(r) ==
    \/ source.run = r /\ source.state \in {"connecting", "open"}
    \/ r \in timers
    \/ \E i \in CallIds : calls[i].run = r /\ calls[i].poll

\* A run that has ended is not followed for ever: the stream is closed and the
\* polling stops (app.js 474-495, 559-571).
StopsFollowing ==
    \A r \in RunIds : Terminal(row[r].status) ~> ~Following(r)

\* A page does not lose its first run: until the run has ended it is streamed or
\* polled, unless a request failed or the browser was refused a reconnection.  (A
\* later run can lose its polling to a timer of an earlier one: PollsCurrentRun.)
KeepsFollowing ==
    (runId = 1 /\ ~Terminal(row[1].status)) =>
        Following(1) \/ failed \/ source.state = "closed"

\* A run is followed to its end, whatever connections break, and no longer.
FollowedToTheEnd == []KeepsFollowing /\ StopsFollowing

AtRest ==
    /\ runId # 0 /\ Terminal(row[runId].status)
    /\ source.state = "none" /\ timers = {}
    /\ \A i \in CallIds : calls[i] = NoCall
    /\ ~failed

\* Polling reads what the stream reads: once the run has ended and the page has
\* nothing more to ask, it shows that status and the whole timeline.
RestShowsTimeline ==
    AtRest => /\ badge = [run |-> runId, status |-> row[runId].status]
              /\ Len(shown) = row[runId].count

\* A new run replaces the target of the polling (app.js 423): no timer is left
\* to poll another.
PollsCurrentRun == timers \subseteq {runId}
=============================================================================
