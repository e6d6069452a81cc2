---------------------------- MODULE ApiService ----------------------------
(***************************************************************************)
(* One process of the API (app/api/main.py): the lifespan that opens what  *)
(* the process needs, publishes it, starts the diagnosis worker and closes *)
(* everything when the process ends or its start fails; the middleware that*)
(* limits and authenticates every protected request (app/api/security.py); *)
(* and the routes that decide case memories and refresh the counts the     *)
(* health check shows.                                                     *)
(*                                                                         *)
(* phase is the place of the lifespan in its body.  created is every       *)
(* resource a constructor ever returned, held those the lifespan still has *)
(* to close.  running is the execution the worker waits for, orphans those *)
(* it left behind when a renewal of their lease raised.  memory counts the *)
(* changes of the case memories, counts is the change the published counts *)
(* were read after (app.state.memory_counts).  A request carries the       *)
(* change it made and the one its counts were read after.  excused is      *)
(* history: the changes the published counts may miss, for they were staged*)
(* by a run, their count failed, or a decision before them was still under *)
(* way.                                                                    *)
(***************************************************************************)
EXTENDS RateLimiter

CONSTANTS Callers,          \* requests under way at the same time
          Configurations,   \* the settings a process is started with; their field
                            \* lasts bounds the clock of the process
          MaxChanges,       \* bound of the changes of case memories
          MaxOrphans        \* bound of the executions left behind

VARIABLES settings, phase, created, held, leaky, running, worker, orphans,
          request, memory, counts, excused

service == <<settings, phase, created, held, leaky, running, worker, orphans>>
memories == <<request, memory, counts, excused>>
vars == <<service, memories, limiter>>

Resources == {"embedding", "reranker", "mcp", "engine", "planner", "auditor"}

\* The order in which the finally block closes what there is.
Closing == [auditor |-> 1, planner |-> 2, mcp |-> 3, reranker |-> 4, embedding |-> 5,
            engine |-> 6]

Idle == [stage |-> "idle", change |-> 0, seen |-> 0]

Init ==
    /\ settings \in Configurations
    /\ phase = "checks"
    /\ created = {} /\ held = {} /\ leaky = FALSE
    /\ running = FALSE /\ worker = "none" /\ orphans = 0
    /\ request = [c \in Callers |-> Idle]
    /\ memory = 0 /\ counts = 0 /\ excused = {}
    /\ LimiterInit

-----------------------------------------------------------------------------
(* The lifespan: start.                                                     *)

\* Bearer mode and the token come together or not at all.
SettingsAgree(s) == (s.mode = "bearer") <=> (s.token # "absent")

\* The guard refuses what the settings refuse, and a weak token.
GuardAccepts(s) == SettingsAgree(s) /\ s.token # "weak"

\* The local contracts are checked and the guard is built; nothing is open yet.
Check ==
    /\ phase = "checks"
    /\ phase' \in IF GuardAccepts(settings) THEN {"providers", "ended"} ELSE {"ended"}
    /\ UNCHANGED <<settings, created, held, leaky, running, worker, orphans>>
    /\ UNCHANGED memories /\ UNCHANGED limiter

\* The retrieval providers and the MCP client are built before the try: what a
\* constructor that raises leaves behind, nobody closes.
Providers ==
    LET wanted == <<"embedding">> \o (IF settings.reranker THEN <<"reranker">> ELSE <<>>)
                                  \o <<"mcp">>
    IN  /\ phase = "providers"
        /\ \E n \in 0..Len(wanted) :
              /\ created' = {wanted[k] : k \in 1..n}
              /\ held' = created'
              /\ phase' = IF n = Len(wanted) THEN "discovery" ELSE "ended"
              /\ leaky' = (n < Len(wanted))
        /\ UNCHANGED <<settings, running, worker, orphans>>
        /\ UNCHANGED memories /\ UNCHANGED limiter

Stop(p) == phase = p /\ phase' = "stopping"

\* list_tools answers with every required tool, or the start fails.
Discover ==
    /\ \/ phase = "discovery" /\ phase' = "database"
       \/ Stop("discovery")
    /\ UNCHANGED <<settings, created, held, leaky, running, worker, orphans>>
    /\ UNCHANGED memories /\ UNCHANGED limiter

\* The engine, its check, the counts of the knowledge base and of the memories.
Database ==
    /\ phase = "database"
    /\ IF settings.database
       THEN /\ created' = created \cup {"engine"}
            /\ held' = held \cup {"engine"}
            /\ phase' \in {"agents", "stopping"}
       ELSE phase' = "agents" /\ UNCHANGED <<created, held>>
    /\ counts' = IF phase' = "agents" THEN memory ELSE counts
    /\ UNCHANGED <<settings, leaky, running, worker, orphans>>
    /\ UNCHANGED <<request, memory, excused>> /\ UNCHANGED limiter

\* The runtimes of the two agents, one after the other.
Agents ==
    /\ phase = "agents"
    /\ \E made \in IF settings.model
                   THEN {{}, {"planner"}, {"planner", "auditor"}} ELSE {{}} :
          /\ created' = created \cup made
          /\ held' = held \cup made
          /\ phase' = IF settings.model /\ "auditor" \notin made
                      THEN "stopping" ELSE "publish"
    /\ UNCHANGED <<settings, leaky, running, worker, orphans>>
    /\ UNCHANGED memories /\ UNCHANGED limiter

\* Everything a diagnosis needs is there.
Diagnoses == {"engine", "planner", "auditor"} \subseteq held

\* app.state is published whole, then the worker is started.
Publish ==
    /\ phase = "publish"
    /\ phase' = "serving"
    /\ worker' = IF Diagnoses THEN "polling" ELSE worker
    /\ UNCHANGED <<settings, created, held, leaky, running, orphans>>
    /\ UNCHANGED memories /\ UNCHANGED limiter

-----------------------------------------------------------------------------
(* The worker while the process serves.                                     *)

Claim ==
    /\ phase = "serving" /\ worker = "polling" /\ ~ running
    /\ running' = TRUE
    /\ UNCHANGED <<settings, phase, created, held, leaky, worker, orphans>>
    /\ UNCHANGED memories /\ UNCHANGED limiter

\* An execution may have staged a case memory by its end, which refreshes nothing.
Stages ==
    /\ memory < MaxChanges
    /\ memory' = memory + 1
    /\ excused' = excused \cup {memory'}
    /\ UNCHANGED <<request, counts>>
MayStage == Stages \/ UNCHANGED memories

\* The execution ends.
Finish ==
    /\ phase = "serving" /\ running
    /\ running' = FALSE
    /\ MayStage
    /\ UNCHANGED <<settings, phase, created, held, leaky, worker, orphans>>
    /\ UNCHANGED limiter

\* The renewal raises: the worker polls on and the execution is left behind.
RenewalRaises ==
    /\ phase = "serving" /\ running /\ orphans < MaxOrphans
    /\ running' = FALSE
    /\ orphans' = orphans + 1
    /\ UNCHANGED <<settings, phase, created, held, leaky, worker>>
    /\ UNCHANGED memories /\ UNCHANGED limiter

OrphanEnds ==
    /\ orphans > 0
    /\ orphans' = orphans - 1
    /\ MayStage
    /\ UNCHANGED <<settings, phase, created, held, leaky, worker, running>>
    /\ UNCHANGED limiter

-----------------------------------------------------------------------------
(* Requests.                                                                *)

\* What a protected request of an identity is answered with before its route.
Rejection(i, authorized) ==
    IF Full(Live(hits, i, clock)) THEN 429
    ELSE IF settings.mode = "disabled" \/ authorized THEN None
    ELSE 401

\* The middleware: the limit is taken before the token is looked at, and a
\* refused request reaches no route.
Guarded(i) == phase = "serving" /\ (Refuse(i) \/ Admit(i))

\* A request of which nothing here changes but the quota: it was refused, the
\* route only reads, or what the route needs is not configured (503).
PlainRequest(i) ==
    /\ Guarded(i)
    /\ UNCHANGED service /\ UNCHANGED memories

\* A decision has committed and is not answered yet.
UnderWay == \E d \in Callers : request[d] # Idle

\* Mutant of Decide: the counts are read before the change.
DecideAfterCounting(c, i, authorized) ==
    /\ request[c] = Idle
    /\ "engine" \in held
    /\ Rejection(i, authorized) = None
    /\ Guarded(i)
    /\ memory < MaxChanges
    /\ memory' = memory + 1
    /\ request' = [request EXCEPT
                      ![c] = [stage |-> "counted", change |-> memory', seen |-> memory]]
    /\ excused' = IF UnderWay THEN excused \cup {memory'} ELSE excused
    /\ UNCHANGED <<counts, service>>

\* decide_memory, delete_memory: the change commits in its own transaction.
Decide(c, i, authorized) ==
    /\ request[c] = Idle
    /\ "engine" \in held
    /\ Rejection(i, authorized) = None
    /\ Guarded(i)
    /\ memory < MaxChanges
    /\ memory' = memory + 1
    /\ request' = [request EXCEPT
                      ![c] = [stage |-> "decided", change |-> memory', seen |-> 0]]
    /\ excused' = IF UnderWay THEN excused \cup {memory'} ELSE excused
    /\ UNCHANGED <<counts, service>>

\* runtime.counts() reads the numbers in another transaction.
Count(c) ==
    /\ request[c].stage = "decided"
    /\ request' = [request EXCEPT
                      ![c] = [stage |-> "counted", change |-> @.change, seen |-> memory]]
    /\ UNCHANGED <<memory, counts, excused, service, limiter>>

\* The answer reaches the handler, which publishes it.
Refresh(c) ==
    /\ request[c].stage = "counted"
    /\ counts' = request[c].seen
    /\ request' = [request EXCEPT ![c] = Idle]
    /\ UNCHANGED <<memory, excused, service, limiter>>

\* The count fails after the decision committed: the client is told of an error.
CountFails(c) ==
    /\ request[c].stage = "decided"
    /\ request' = [request EXCEPT ![c] = Idle]
    /\ excused' = excused \cup {request[c].change}
    /\ UNCHANGED <<memory, counts, service, limiter>>

-----------------------------------------------------------------------------
(* The lifespan: end.                                                       *)

\* The server has answered what was under way before it ends the lifespan.
Shutdown ==
    /\ Stop("serving")
    /\ \A c \in Callers : request[c] = Idle
    /\ UNCHANGED <<settings, created, held, leaky, running, worker, orphans>>
    /\ UNCHANGED memories /\ UNCHANGED limiter

\* Mutant of StopWorker: the cancelled task is not awaited.
StopWithoutWaiting ==
    /\ phase = "stopping"
    /\ worker' = IF worker = "polling" THEN "stopped" ELSE worker
    /\ phase' = "closing"
    /\ UNCHANGED <<settings, created, held, leaky, running, orphans>>
    /\ UNCHANGED memories /\ UNCHANGED limiter

\* The worker's task is cancelled; it cancels the execution and waits for it.
StopWorker ==
    /\ phase = "stopping"
    /\ \/ worker = "polling" /\ running /\ worker' = "cancelling" /\ UNCHANGED <<phase, running>>
       \/ /\ worker = "polling" /\ ~ running
          /\ worker' = "stopped" /\ phase' = "closing" /\ UNCHANGED running
       \/ /\ worker = "cancelling"
          /\ worker' = "stopped" /\ running' = FALSE /\ phase' = "closing"
       \/ worker = "none" /\ phase' = "closing" /\ UNCHANGED <<worker, running>>
    /\ UNCHANGED <<settings, created, held, leaky, orphans>>
    /\ UNCHANGED memories /\ UNCHANGED limiter

\* The next resource is closed; if that raises, the rest stays open.
Close ==
    /\ phase = "closing"
    /\ \/ held = {} /\ phase' = "ended" /\ UNCHANGED <<held, leaky>>
       \/ /\ \E r \in held :
                /\ \A q \in held : Closing[r] <= Closing[q]
                /\ held' = held \ {r}
          /\ UNCHANGED <<phase, leaky>>
       \/ held # {} /\ phase' = "ended" /\ leaky' = TRUE /\ UNCHANGED held
    /\ UNCHANGED <<settings, created, running, worker, orphans>>
    /\ UNCHANGED memories /\ UNCHANGED limiter

Next ==
    \/ Check \/ Providers \/ Discover \/ Database \/ Agents \/ Publish
    \/ Claim \/ RenewalRaises \/ OrphanEnds \/ Shutdown \/ StopWorker \/ Close
    \/ Finish
    \/ \E i \in Identities : PlainRequest(i)
    \/ \E c \in Callers, i \in Identities, authorized \in BOOLEAN : Decide(c, i, authorized)
    \/ \E c \in Callers : Count(c) \/ Refresh(c) \/ CountFails(c)
    \/ phase = "serving" /\ clock < settings.lasts /\ Tick /\ UNCHANGED service /\ UNCHANGED memories

Spec == Init /\ [][Next]_vars

-----------------------------------------------------------------------------
TypeOK ==
    /\ settings \in Configurations
    /\ phase \in {"checks", "providers", "discovery", "database", "agents", "publish",
                  "serving", "stopping", "closing", "ended"}
    /\ held \subseteq created /\ created \subseteq Resources
    /\ leaky \in BOOLEAN /\ running \in BOOLEAN /\ orphans \in 0..MaxOrphans
    /\ worker \in {"none", "polling", "cancelling", "stopped"}
    /\ memory \in 0..MaxChanges /\ counts \in 0..memory /\ excused \subseteq 1..memory
    /\ request \in [Callers -> [stage : {"idle", "decided", "counted"},
                               change : 0..memory, seen : 0..memory]]

\* What the process opened is not closed under an execution, unless the worker
\* itself had left that execution behind; and a process that ends has closed
\* everything, wherever its start failed -- except behind a constructor that
\* raised before the try, or a close that raised.
ClosedInOrder ==
    /\ (phase \in {"closing", "ended"}) => ~ running
    /\ (created # held) => (~ running /\ worker \in {"none", "stopped"})
    /\ (phase = "ended" /\ ~ leaky) => held = {}

\* A change of the memories that the counts of /health do not show was made by a
\* decision still to be answered, or is excused: of decisions that overlap, answers
\* that overtake one another lose the later ones and never the first.
StaleCountsHaveCause ==
    \A n \in (counts + 1)..memory :
        n \in excused \/ \E c \in Callers : request[c].change = n
=============================================================================
