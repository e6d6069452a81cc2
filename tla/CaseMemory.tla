---------------------------- MODULE CaseMemory ----------------------------
(***************************************************************************)
(* The long-term case memory: app/memory/runtime.py and service.py over    *)
(* app/memory/repository.py, and the case nodes and SIMILAR_TO edges       *)
(* app/memory/graph_registration.py keeps for confirmed cases.             *)
(*                                                                         *)
(* Each client (a worker that stages a report, a request that decides or   *)
(* deletes) runs one READ COMMITTED transaction at a time.  An action is   *)
(* one statement or a few no other transaction can come between; what a    *)
(* transaction writes is kept in tx[c] until it commits, and the rows and  *)
(* nodes found there are the locks it holds.                               *)
(***************************************************************************)
EXTENDS Integers, FiniteSets

CONSTANTS Cases,         \* case signatures; memory_id and node_id derive from them
          Scope,         \* the component scope of each case
          Runs,          \* diagnosis runs whose accepted reports are staged
          Facts,         \* what a report may add to the text of a case
          Clients,       \* database sessions
          None           \* SQL NULL

ASSUME CaseAssumption == None \notin Cases \cup Runs

VARIABLES memory,        \* rows of case_memories, with their memory_evidence
          node,          \* case nodes: the facts in their content; {} is no node
          edges,         \* SIMILAR_TO edges, both directions as one pair
          tx             \* the transaction of each client

vars == <<memory, node, edges, tx>>

-----------------------------------------------------------------------------
(* Types.                                                                  *)

Statuses == {"pending", "confirmed", "rejected"}
Decisions == {"confirmed", "rejected"}
Reports == [run : Runs, fact : Facts]
Row == [status : Statuses \cup {"absent"}, occurrences : Nat,
        facts : SUBSET Facts, runs : SUBSET Runs]
NoRow == [status |-> "absent", occurrences |-> 0, facts |-> {}, runs |-> {}]
Steps == {"idle", "find", "similar", "insert", "own", "join", "drop", "commit"}

\* A transaction: the report and the signature stage works on (its scope is
\* locked), the rows it locked, the row it will write, the neighbours it read
\* and has not written yet, the nodes it wrote, and whether it dropped its own.
Transaction == [step : Steps, report : Reports \cup {None},
                candidate : Cases \cup {None}, rows : SUBSET Cases,
                target : Cases \cup {None}, image : Row,
                seen : [Cases -> SUBSET Facts], wrote : [Cases -> SUBSET Facts],
                drops : BOOLEAN]
NoNodes == [k \in Cases |-> {}]
Idle == [step |-> "idle", report |-> None, candidate |-> None, rows |-> {},
         target |-> None, image |-> NoRow, seen |-> NoNodes, wrote |-> NoNodes,
         drops |-> FALSE]

Init ==
    /\ memory = [k \in Cases |-> NoRow]
    /\ node = NoNodes
    /\ edges = {}
    /\ tx = [c \in Clients |-> Idle]

-----------------------------------------------------------------------------
(* Rows and locks.                                                         *)

Present(k) == memory[k].status # "absent"
Confirmed(k) == memory[k].status = "confirmed"

NodeLocks(c) == {k \in Cases : tx[c].wrote[k] # {}}
                \cup (IF tx[c].drops THEN {tx[c].target} ELSE {})

\* pg_advisory_xact_lock, SELECT ... FOR UPDATE and INSERT ... ON CONFLICT wait
\* for the transaction that holds the lock.
ScopeFreeAlways(c, k) == TRUE
ScopeFree(c, k) ==
    \A d \in Clients \ {c} :
        tx[d].candidate # None => Scope[tx[d].candidate] # Scope[k]
RowFreeAlways(c, k) == TRUE
RowFree(c, k) == \A d \in Clients \ {c} : k \notin tx[d].rows
NodeFree(c, k) == \A d \in Clients \ {c} : k \notin NodeLocks(d)

\* _merge_duplicate: lists grow, a run is counted once, the status stays.
MergedCountsReplays(row, report) ==
    [status |-> row.status, occurrences |-> row.occurrences + 1,
     facts |-> row.facts \cup {report.fact}, runs |-> row.runs \cup {report.run}]
Merged(row, report) ==
    [status |-> row.status,
     occurrences |-> row.occurrences + (IF report.run \in row.runs THEN 0 ELSE 1),
     facts |-> row.facts \cup {report.fact}, runs |-> row.runs \cup {report.run}]

Candidate(report) ==
    [status |-> "pending", occurrences |-> 1,
     facts |-> {report.fact}, runs |-> {report.run}]

\* The transaction locked row k and will write this image of it; a confirmed
\* image is registered in the graph next.
Takes(c, k, image, otherwise) ==
    tx' = [tx EXCEPT ![c].rows = @ \cup {k}, ![c].target = k, ![c].image = image,
                     ![c].step = IF image.status = "confirmed" THEN "own"
                                 ELSE otherwise]

-----------------------------------------------------------------------------
(* stage: an accepted report with a root cause.                            *)

Stage(c, report, k) ==
    /\ tx[c].step = "idle"
    /\ ScopeFree(c, k)
    /\ tx' = [tx EXCEPT ![c] = [Idle EXCEPT !.step = "find", !.report = report,
                                            !.candidate = k]]
    /\ UNCHANGED <<memory, node, edges>>

\* find_exact, and the merge into the row it locked.
FindExact(c) ==
    LET k == tx[c].candidate
    IN  /\ tx[c].step = "find"
        /\ \/ /\ Present(k)
              /\ RowFree(c, k)
              /\ Takes(c, k, Merged(memory[k], tx[c].report), "commit")
           \/ /\ ~Present(k)
              /\ tx' = [tx EXCEPT ![c].step = "similar"]
        /\ UNCHANGED <<memory, node, edges>>

\* find_similar locks the nearest case of the scope, if there is one, and keeps
\* it locked even when it is not near enough to be merged into.
FindSimilar(c) ==
    LET kin == {m \in Cases : Present(m) /\ Scope[m] = Scope[tx[c].candidate]}
    IN  /\ tx[c].step = "similar"
        /\ \/ \E m \in kin :
                /\ RowFree(c, m)
                /\ \/ Takes(c, m, Merged(memory[m], tx[c].report), "commit")
                   \/ tx' = [tx EXCEPT ![c].rows = @ \cup {m}, ![c].step = "insert"]
           \/ kin = {} /\ tx' = [tx EXCEPT ![c].step = "insert"]
        /\ UNCHANGED <<memory, node, edges>>

Insert(c) ==
    LET k == tx[c].candidate
    IN  /\ tx[c].step = "insert"
        /\ ~Present(k)
        /\ RowFree(c, k)
        /\ Takes(c, k, Candidate(tx[c].report), "commit")
        /\ UNCHANGED <<memory, node, edges>>

-----------------------------------------------------------------------------
(* decide and delete: a request of the user for a case that exists.        *)

Decide(c, k, decision) ==
    /\ tx[c].step = "idle"
    /\ Present(k)
    /\ RowFree(c, k)
    /\ Takes(c, k, [memory[k] EXCEPT !.status = decision], "drop")
    /\ UNCHANGED <<memory, node, edges>>

Delete(c, k) ==
    /\ tx[c].step = "idle"
    /\ Present(k)
    /\ RowFree(c, k)
    /\ Takes(c, k, NoRow, "drop")
    /\ UNCHANGED <<memory, node, edges>>

-----------------------------------------------------------------------------
(* The case graph.                                                         *)

\* register_confirmed writes the node of the case, deletes its edges and reads
\* the confirmed neighbours, without locking them.
OwnNode(c, neighbours) ==
    LET k == tx[c].target
    IN  /\ tx[c].step = "own"
        /\ NodeFree(c, k)
        /\ \A n \in neighbours : n # k /\ Confirmed(n)
        /\ tx' = [tx EXCEPT ![c].wrote[k] = tx[c].image.facts,
                            ![c].seen = [n \in Cases |-> IF n \in neighbours
                                                         THEN memory[n].facts ELSE {}],
                            ![c].step = IF neighbours = {} THEN "commit" ELSE "join"]
        /\ UNCHANGED <<memory, node, edges>>

\* A neighbour's node is written as it was read, then the two edges.
JoinNeighbour(c, n) ==
    LET unseen == [tx[c].seen EXCEPT ![n] = {}]
    IN  /\ tx[c].step = "join"
        /\ tx[c].seen[n] # {}
        /\ NodeFree(c, n)
        /\ tx' = [tx EXCEPT ![c].wrote[n] = tx[c].seen[n], ![c].seen = unseen,
                            ![c].step = IF unseen = NoNodes THEN "commit" ELSE "join"]
        /\ UNCHANGED <<memory, node, edges>>

\* remove: a node that another transaction has not committed yet is not found.
DropNode(c) ==
    LET k == tx[c].target
    IN  /\ tx[c].step = "drop"
        /\ node[k] = {} \/ NodeFree(c, k)
        /\ tx' = [tx EXCEPT ![c].drops = node[k] # {}, ![c].step = "commit"]
        /\ UNCHANGED <<memory, node, edges>>

-----------------------------------------------------------------------------
(* The end of a transaction.                                               *)

\* The edges that go: those of a node that is dropped, by cascade, or registered
\* again.
SeveredButDropped(c) ==
    {e \in edges : tx[c].target \in e /\ tx[c].wrote[tx[c].target] # {}}
Severed(c) ==
    {e \in edges : /\ tx[c].target \in e
                   /\ tx[c].drops \/ tx[c].wrote[tx[c].target] # {}}
Joined(c) == {{tx[c].target, n} : n \in {m \in Cases \ {tx[c].target} :
                                            tx[c].wrote[m] # {}}}

Commit(c) ==
    /\ tx[c].step = "commit"
    /\ memory' = [memory EXCEPT ![tx[c].target] = tx[c].image]
    /\ node' = [k \in Cases |-> IF tx[c].drops /\ k = tx[c].target THEN {}
                                ELSE IF tx[c].wrote[k] # {} THEN tx[c].wrote[k]
                                ELSE node[k]]
    /\ edges' = (edges \ Severed(c)) \cup Joined(c)
    /\ tx' = [tx EXCEPT ![c] = Idle]

\* The embedding provider or the database raises, a deadlock is broken or the
\* client goes away.
Abort(c) ==
    /\ tx[c].step # "idle"
    /\ tx' = [tx EXCEPT ![c] = Idle]
    /\ UNCHANGED <<memory, node, edges>>

Next ==
    \E c \in Clients :
        \/ \E report \in Reports, k \in Cases : Stage(c, report, k)
        \/ FindExact(c) \/ FindSimilar(c) \/ Insert(c)
        \/ \E k \in Cases, decision \in Decisions : Decide(c, k, decision)
        \/ \E k \in Cases : Delete(c, k)
        \/ \E neighbours \in SUBSET Cases : OwnNode(c, neighbours)
        \/ \E n \in Cases : JoinNeighbour(c, n)
        \/ DropNode(c) \/ Commit(c) \/ Abort(c)

Spec == Init /\ [][Next]_vars

-----------------------------------------------------------------------------
(* Properties.                                                             *)

\* Every row, node and transaction has the fields its class declares.
TypeOK ==
    /\ memory \in [Cases -> Row]
    /\ node \in [Cases -> SUBSET Facts]
    /\ edges \subseteq SUBSET Cases
    /\ tx \in [Clients -> Transaction]

\* However often a run is executed again and its report staged again, a case
\* counts the distinct runs linked to it (has_source_run).
OccurrencesCountRuns ==
    \A k \in Cases : memory[k].occurrences = Cardinality(memory[k].runs)

\* The lock on the component scope keeps the row a transaction looked for and
\* did not find absent until it inserts it: uq_case_memories_signature refuses
\* no insert.
InsertNeverConflicts ==
    \A c \in Clients : tx[c].step = "insert" => ~Present(tx[c].candidate)

\* Whatever confirmations, rejections, deletions and merges run at the same
\* time, every confirmed case can be reached through the graph.
ConfirmedHaveNodes == \A k \in Cases : Confirmed(k) => node[k] # {}

\* No edge loses an end: neither of its foreign keys is ever violated.
EdgesJoinNodes == \A e \in edges : \A k \in e : node[k] # {}

\* The graph hides no confirmed case and holds no dangling edge, whatever
\* decisions, deletions and registrations overlap.
GraphIsWhole == ConfirmedHaveNodes /\ EdgesJoinNodes

\* What the invariants above rest on.  A row that exists shows something and
\* counts its runs.
RowLegal(row) ==
    IF row.status = "absent" THEN row = NoRow
    ELSE /\ row.facts # {}
         /\ IsFiniteSet(row.runs)
         /\ row.occurrences = Cardinality(row.runs)
RowsLegal == \A k \in Cases : RowLegal(memory[k])

\* No two transactions hold the same row or work in the same scope.
LocksExclusive ==
    \A c, d \in Clients :
        c # d => /\ tx[c].rows \cap tx[d].rows = {}
                 /\ tx[c].candidate # None /\ tx[d].candidate # None
                    => Scope[tx[c].candidate] # Scope[tx[d].candidate]

\* The row a transaction will write is still the one it read, changed by its
\* operation.
Follows(t, row) ==
    \/ t.candidate = t.target /\ row.status = "absent" /\ t.image = Candidate(t.report)
    \/ t.candidate # None /\ row.status # "absent" /\ t.image = Merged(row, t.report)
    \/ t.candidate = None /\ row.status # "absent" /\ t.image = NoRow
    \/ /\ t.candidate = None /\ row.status # "absent"
       /\ \E decision \in Decisions : t.image = [row EXCEPT !.status = decision]

Searches(t) ==
    /\ t.candidate \in Cases /\ t.report \in Reports
    /\ t.wrote = NoNodes /\ ~t.drops
    /\ t.step \in {"similar", "insert"} => ~Present(t.candidate)
    /\ \A k \in t.rows : Present(k)

Writes(t) ==
    /\ t.target \in t.rows
    /\ t.candidate # None => t.report \in Reports
    /\ Follows(t, memory[t.target])
    /\ \A k \in t.rows : ~Present(k) => k = t.candidate
    /\ t.step \in {"own", "join"} => t.image.status = "confirmed" /\ ~t.drops
    /\ t.step \in {"own", "drop"} => t.wrote = NoNodes
    /\ t.step = "drop" => t.image.status # "confirmed"
    /\ t.step = "join" => t.wrote[t.target] # {}
    /\ t.step = "commit" => IF t.image.status = "confirmed"
                            THEN t.wrote[t.target] # {} /\ ~t.drops
                            ELSE t.wrote = NoNodes

Sound(t) ==
    /\ t.step = "idle" => t = Idle
    /\ t.step \in {"find", "similar", "insert"} => Searches(t)
    /\ t.step \in {"own", "join", "drop", "commit"} => Writes(t)
TransactionsSound == \A c \in Clients : Sound(tx[c])

\* The inductive invariant.
MemoryInvariant ==
    /\ TypeOK
    /\ RowsLegal
    /\ LocksExclusive
    /\ TransactionsSound
    /\ ConfirmedHaveNodes
    /\ EdgesJoinNodes

\* The transactions implement the ledger of cases: each of them counts as one
\* atomic operation, or as nothing.
Ledger == INSTANCE CaseLedger WITH
    verdict <- [k \in Cases |-> memory[k].status],
    contributors <- [k \in Cases |-> memory[k].runs]
ImplementsLedger == Ledger!Spec

\* Claimed by the comment in PostgresMemoryRuntime.stage and by the README: the
\* graph holds exactly the confirmed cases, as the memory has them.
GraphMirrorsMemory ==
    \A k \in Cases : node[k] = IF Confirmed(k) THEN memory[k].facts ELSE {}
=============================================================================
