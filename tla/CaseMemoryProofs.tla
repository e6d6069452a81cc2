------------------------- MODULE CaseMemoryProofs -------------------------
(* Proofs about CaseMemory.tla, for any number of cases, scopes, runs,      *)
(* facts and clients, and about the retrievals that read its graph.         *)
EXTENDS CaseMemory, EvidenceRetrieval, FiniteSetTheorems, SequenceTheorems, SelectionProofs,
        TLAPS

-----------------------------------------------------------------------------
(* A step of one transaction that writes no table.                          *)

\* Client c's transaction becomes t; what t holds it held before or nobody did.
Moves(c, t) ==
    /\ tx' = [tx EXCEPT ![c] = t]
    /\ UNCHANGED <<memory, node, edges>>
    /\ t \in Transaction
    /\ Sound(t)
    /\ \A k \in t.rows : k \in tx[c].rows \/ RowFree(c, k)
    /\ t.candidate # None => t.candidate = tx[c].candidate \/ ScopeFree(c, t.candidate)

\* The other clients do not notice such a step.
LEMMA MoveStep ==
    ASSUME MemoryInvariant, NEW c \in Clients, NEW t, Moves(c, t)
    PROVE  MemoryInvariant'
<1>1. /\ tx' \in [Clients -> Transaction]
      /\ tx'[c] = t
      /\ \A d \in Clients \ {c} : tx'[d] = tx[d]
  BY DEF Moves, MemoryInvariant, TypeOK
<1>2. memory' = memory /\ node' = node /\ edges' = edges
  BY DEF Moves
<1>3. TypeOK'
  BY <1>1, <1>2 DEF MemoryInvariant, TypeOK
<1>4. RowsLegal' /\ ConfirmedHaveNodes' /\ EdgesJoinNodes'
  BY <1>2 DEF MemoryInvariant, RowsLegal, ConfirmedHaveNodes, Confirmed, EdgesJoinNodes
<1>5. ASSUME NEW d \in Clients PROVE Sound(tx[d])'
  <2>1. Sound(tx'[d])
    <3>1. CASE d = c
      BY <1>1, <3>1 DEF Moves
    <3>2. CASE d # c
      BY <1>1, <3>2 DEF MemoryInvariant, TransactionsSound
    <3>. QED  BY <3>1, <3>2
  <2>. QED  BY <1>2, <2>1 DEF Sound, Searches, Writes, Present
<1>6. LocksExclusive'
  <2>1. ASSUME NEW d \in Clients \ {c}
        PROVE  /\ t.rows \cap tx[d].rows = {}
               /\ t.candidate # None /\ tx[d].candidate # None
                  => Scope[t.candidate] # Scope[tx[d].candidate]
    BY DEF Moves, RowFree, ScopeFree, MemoryInvariant, LocksExclusive
  <2>. QED  BY <1>1, <2>1 DEF MemoryInvariant, LocksExclusive
<1>. QED  BY <1>3, <1>4, <1>5, <1>6 DEF MemoryInvariant, TransactionsSound

-----------------------------------------------------------------------------
(* Rows and images.                                                         *)

\* What a merge or a new candidate yields is a legal row.
LEMMA MergedLegal ==
    ASSUME NEW row \in Row, RowLegal(row), row.status # "absent",
           NEW report \in Reports
    PROVE  /\ Merged(row, report) \in Row
           /\ RowLegal(Merged(row, report))
           /\ Merged(row, report).status = row.status
           /\ Merged(row, report).runs = row.runs \cup {report.run}
<1> DEFINE merged == Merged(row, report)
<1>1. report.run \in Runs /\ report.fact \in Facts
  BY DEF Reports
<1>2. /\ row.status \in Statuses \cup {"absent"} /\ row.occurrences \in Nat
      /\ row.facts \in SUBSET Facts /\ row.runs \in SUBSET Runs
  BY DEF Row
<1>3. /\ merged.status = row.status
      /\ merged.occurrences = row.occurrences
                              + (IF report.run \in row.runs THEN 0 ELSE 1)
      /\ merged.facts = row.facts \cup {report.fact}
      /\ merged.runs = row.runs \cup {report.run}
  BY DEF Merged
<1>4. merged \in Row
  BY <1>1, <1>2 DEF Merged, Row
<1>5. IsFiniteSet(row.runs) /\ row.occurrences = Cardinality(row.runs)
  BY DEF RowLegal
<1>6. /\ IsFiniteSet(row.runs \cup {report.run})
      /\ Cardinality(row.runs \cup {report.run})
         = IF report.run \in row.runs THEN Cardinality(row.runs)
           ELSE Cardinality(row.runs) + 1
  BY <1>5, FS_AddElement
<1>. HIDE DEF merged
<1>7. IsFiniteSet(merged.runs) /\ merged.occurrences = Cardinality(merged.runs)
  <2>1. IsFiniteSet(merged.runs)
    BY <1>3, <1>6
  <2>2. CASE report.run \in row.runs
    <3>1. merged.runs = row.runs
      BY <1>3, <2>2
    <3>2. merged.occurrences = row.occurrences
      BY <1>2, <1>3, <2>2
    <3>. QED  BY <1>5, <3>1, <3>2
  <2>3. CASE report.run \notin row.runs
    <3>1. Cardinality(merged.runs) = Cardinality(row.runs) + 1
      BY <1>3, <1>6, <2>3
    <3>. QED  BY <1>3, <1>5, <2>1, <2>3, <3>1
  <2>. QED  BY <2>2, <2>3
<1>8. RowLegal(merged)
  BY <1>3, <1>7 DEF RowLegal
<1>. QED  BY <1>3, <1>4, <1>8 DEF merged

LEMMA CandidateLegal ==
    ASSUME NEW report \in Reports
    PROVE  /\ Candidate(report) \in Row
           /\ RowLegal(Candidate(report))
           /\ Candidate(report).status = "pending"
           /\ Candidate(report).runs = {report.run}
<1>1. report.run \in Runs /\ report.fact \in Facts
  BY DEF Reports
<1>2. IsFiniteSet({report.run}) /\ Cardinality({report.run}) = 1
  BY FS_Singleton
<1>. QED  BY <1>1, <1>2 DEF Candidate, RowLegal, Row, Statuses

LEMMA NoRowLegal == NoRow \in Row /\ RowLegal(NoRow)
BY DEF NoRow, Row, RowLegal

\* A decision changes the status only.
LEMMA DecidedLegal ==
    ASSUME NEW row \in Row, RowLegal(row), row.status # "absent",
           NEW decision \in Decisions
    PROVE  LET decided == [row EXCEPT !.status = decision]
           IN  /\ decided \in Row /\ RowLegal(decided)
               /\ decided.status = decision
               /\ decided.runs = row.runs
BY DEF Row, RowLegal, Decisions, Statuses

\* The image of a transaction that follows a legal row is legal.
LEMMA FollowsLegal ==
    ASSUME NEW t \in Transaction, NEW row \in Row, RowLegal(row), Follows(t, row),
           t.candidate # None => t.report \in Reports, t.target # None
    PROVE  RowLegal(t.image)
<1>1. CASE t.candidate = t.target /\ row.status = "absent" /\ t.image = Candidate(t.report)
  BY <1>1, CandidateLegal
<1>2. CASE /\ t.candidate # None /\ row.status # "absent"
           /\ t.image = Merged(row, t.report)
  BY <1>2, MergedLegal
<1>3. CASE t.image = NoRow
  BY <1>3, NoRowLegal
<1>4. ASSUME NEW decision \in Decisions, row.status # "absent",
             t.image = [row EXCEPT !.status = decision]
      PROVE  RowLegal(t.image)
  BY <1>4, DecidedLegal
<1>. QED  BY <1>1, <1>2, <1>3, <1>4 DEF Follows

-----------------------------------------------------------------------------
(* One lemma per action: it is a move.                                      *)

LEMMA IdleSound == Idle \in Transaction /\ Sound(Idle)
BY NoRowLegal DEF Idle, Transaction, Sound, Steps, NoNodes

LEMMA StageMoves ==
    ASSUME MemoryInvariant, NEW c \in Clients, NEW report \in Reports,
           NEW k \in Cases, Stage(c, report, k)
    PROVE  \E t : Moves(c, t)
<1> DEFINE t == [Idle EXCEPT !.step = "find", !.report = report, !.candidate = k]
<1>1. /\ t.step = "find" /\ t.report = report /\ t.candidate = k
      /\ t.rows = {} /\ t.wrote = NoNodes /\ t.drops = FALSE
      /\ t \in Transaction
  BY IdleSound DEF Idle, Transaction, Steps
<1>. HIDE DEF t
<1>2. Sound(t)
  BY <1>1 DEF Sound, Searches
<1>3. tx' = [tx EXCEPT ![c] = t] /\ UNCHANGED <<memory, node, edges>> /\ ScopeFree(c, k)
  BY DEF Stage, t
<1>. QED  BY <1>1, <1>2, <1>3 DEF Moves

\* A transaction that locks a row and will write an image that follows it.
LEMMA TakeMoves ==
    ASSUME MemoryInvariant, NEW c \in Clients, NEW k \in Cases, NEW image \in Row,
           NEW otherwise \in {"commit", "drop"},
           Takes(c, k, image, otherwise), UNCHANGED <<memory, node, edges>>,
           RowFree(c, k),
           tx[c].wrote = NoNodes, ~tx[c].drops,
           tx[c].candidate # None => tx[c].report \in Reports,
           \A m \in tx[c].rows : Present(m),
           ~Present(k) => k = tx[c].candidate,
           Follows([tx[c] EXCEPT !.target = k, !.image = image], memory[k])
    PROVE  \E t : Moves(c, t)
<1> DEFINE step == IF image.status = "confirmed" THEN "own" ELSE otherwise
           t == [tx[c] EXCEPT !.rows = @ \cup {k}, !.target = k, !.image = image,
                              !.step = step]
           f == [tx[c] EXCEPT !.target = k, !.image = image]
<1>0. tx \in [Clients -> Transaction]
  BY DEF MemoryInvariant, TypeOK
<1>1. /\ t \in Transaction
      /\ t.rows = tx[c].rows \cup {k} /\ t.target = k /\ t.image = image
      /\ t.step = step /\ t.wrote = NoNodes /\ t.drops = FALSE
      /\ t.candidate = tx[c].candidate /\ t.report = tx[c].report
  <2>1. tx[c] \in Transaction /\ step \in Steps /\ tx[c].rows \cup {k} \in SUBSET Cases
    BY <1>0 DEF Transaction, Steps
  <2>. HIDE DEF step
  <2>2. /\ t.rows = tx[c].rows \cup {k} /\ t.target = k /\ t.image = image
        /\ t.step = step /\ t.wrote = tx[c].wrote /\ t.drops = tx[c].drops
        /\ t.candidate = tx[c].candidate /\ t.report = tx[c].report
        /\ t \in Transaction
    BY <2>1 DEF Transaction
  <2>3. t.drops \in BOOLEAN
    BY <2>2 DEF Transaction
  <2>. QED  BY <2>2, <2>3
<1>2. /\ f.target = k /\ f.image = image /\ f.candidate = tx[c].candidate
      /\ f.report = tx[c].report
  BY <1>0 DEF Transaction
<1>3. tx' = [tx EXCEPT ![c] = t]
  BY <1>0 DEF Takes
<1>4. Follows(f, memory[k])
  OBVIOUS
<1>. HIDE DEF t, f
<1>5. Follows(t, memory[t.target])
  BY <1>1, <1>2, <1>4 DEF Follows
<1>6. Sound(t)
  BY <1>1, <1>5 DEF Sound, Writes
<1>. QED  BY <1>1, <1>3, <1>6 DEF Moves

\* A transaction that locks rows but does not know yet what it will write.
LEMMA SearchMoves ==
    ASSUME MemoryInvariant, NEW c \in Clients, Searches(tx[c]),
           NEW found \in SUBSET Cases, NEW step \in {"similar", "insert"},
           tx' = [tx EXCEPT ![c].rows = found, ![c].step = step],
           UNCHANGED <<memory, node, edges>>,
           ~Present(tx[c].candidate),
           \A k \in found : Present(k) /\ (k \in tx[c].rows \/ RowFree(c, k))
    PROVE  \E t : Moves(c, t)
<1> DEFINE t == [tx[c] EXCEPT !.rows = found, !.step = step]
<1>0. tx \in [Clients -> Transaction]
  BY DEF MemoryInvariant, TypeOK
<1>1. /\ t.rows = found /\ t.step = step
      /\ t.candidate = tx[c].candidate /\ t.report = tx[c].report
      /\ t.wrote = tx[c].wrote /\ t.drops = tx[c].drops
      /\ t \in Transaction
  <2>1. tx[c] \in Transaction /\ step \in Steps
    BY <1>0 DEF Steps
  <2>. QED  BY <2>1 DEF Transaction
<1>2. tx' = [tx EXCEPT ![c] = t]
  BY <1>0
<1>. HIDE DEF t
<1>3. Sound(t)
  BY <1>1 DEF Sound, Searches
<1>. QED  BY <1>1, <1>2, <1>3 DEF Moves

\* What the lemmas below use of the transaction of one client.
LEMMA ClientFacts ==
    ASSUME MemoryInvariant, NEW c \in Clients
    PROVE  /\ tx \in [Clients -> Transaction] /\ tx[c] \in Transaction
           /\ Sound(tx[c])
           /\ \A k \in Cases : memory[k] \in Row /\ RowLegal(memory[k])
           /\ memory \in [Cases -> Row]
BY DEF MemoryInvariant, TypeOK, TransactionsSound, RowsLegal

LEMMA MergeMoves ==
    ASSUME MemoryInvariant, NEW c \in Clients, NEW k \in Cases, Searches(tx[c]),
           Present(k), RowFree(c, k), UNCHANGED <<memory, node, edges>>,
           Takes(c, k, Merged(memory[k], tx[c].report), "commit")
    PROVE  \E t : Moves(c, t)
<1> DEFINE image == Merged(memory[k], tx[c].report)
           f == [tx[c] EXCEPT !.target = k, !.image = image]
<1>1. image \in Row
  BY ClientFacts, MergedLegal DEF Searches, Present
<1>2. f.candidate # None /\ f.image = Merged(memory[k], f.report)
  <2>. HIDE DEF image
  <2>1. /\ f.candidate = tx[c].candidate /\ f.report = tx[c].report
        /\ f.image = image
    BY ClientFacts DEF Transaction
  <2>. QED  BY <2>1, CaseAssumption DEF Searches, image
<1>3. Follows(f, memory[k])
  <2>. HIDE DEF f
  <2>. QED  BY <1>2 DEF Follows, Present
<1>. HIDE DEF image
<1>4. Takes(c, k, image, "commit")
  BY DEF image
<1>. QED  BY <1>1, <1>3, <1>4, TakeMoves DEF Searches

LEMMA FindExactMoves ==
    ASSUME MemoryInvariant, NEW c \in Clients, FindExact(c)
    PROVE  \E t : Moves(c, t)
<1>1. Searches(tx[c]) /\ tx[c].candidate \in Cases
  BY ClientFacts DEF FindExact, Sound, Searches
<1>2. CASE Present(tx[c].candidate)
  BY <1>1, <1>2, MergeMoves DEF FindExact
<1>3. CASE ~Present(tx[c].candidate)
  <2>1. tx' = [tx EXCEPT ![c].rows = tx[c].rows, ![c].step = "similar"]
    BY <1>3, ClientFacts DEF FindExact, Transaction
  <2>2. tx[c].rows \in SUBSET Cases
    BY ClientFacts DEF Transaction
  <2>3. UNCHANGED <<memory, node, edges>>
    BY DEF FindExact
  <2>. QED  BY <1>1, <1>3, <2>1, <2>2, <2>3, SearchMoves DEF Searches
<1>. QED  BY <1>2, <1>3

LEMMA FindSimilarMoves ==
    ASSUME MemoryInvariant, NEW c \in Clients, FindSimilar(c)
    PROVE  \E t : Moves(c, t)
<1>1. Searches(tx[c]) /\ ~Present(tx[c].candidate) /\ tx[c].rows \in SUBSET Cases
  BY ClientFacts DEF FindSimilar, Sound, Searches, Transaction
<1>2. UNCHANGED <<memory, node, edges>>
  BY DEF FindSimilar
<1>3. ASSUME NEW m \in Cases, Present(m), RowFree(c, m),
             Takes(c, m, Merged(memory[m], tx[c].report), "commit")
      PROVE  \E t : Moves(c, t)
  BY <1>1, <1>2, <1>3, MergeMoves
<1>4. ASSUME NEW m \in Cases, Present(m), RowFree(c, m),
             tx' = [tx EXCEPT ![c].rows = @ \cup {m}, ![c].step = "insert"]
      PROVE  \E t : Moves(c, t)
  <2>1. tx' = [tx EXCEPT ![c].rows = tx[c].rows \cup {m}, ![c].step = "insert"]
    BY <1>4, ClientFacts DEF Transaction
  <2>2. /\ tx[c].rows \cup {m} \in SUBSET Cases
        /\ \A k \in tx[c].rows \cup {m} :
              Present(k) /\ (k \in tx[c].rows \/ RowFree(c, k))
    BY <1>1, <1>4 DEF Searches
  <2>. HIDE DEF RowFree
  <2>. QED  BY <1>1, <1>2, <2>1, <2>2, SearchMoves
<1>5. ASSUME tx' = [tx EXCEPT ![c].step = "insert"]
      PROVE  \E t : Moves(c, t)
  <2>1. tx' = [tx EXCEPT ![c].rows = tx[c].rows, ![c].step = "insert"]
    BY <1>5, ClientFacts DEF Transaction
  <2>. QED  BY <1>1, <1>2, <2>1, SearchMoves DEF Searches
<1>. QED  BY <1>3, <1>4, <1>5 DEF FindSimilar

LEMMA InsertMoves ==
    ASSUME MemoryInvariant, NEW c \in Clients, Insert(c)
    PROVE  \E t : Moves(c, t)
<1> DEFINE k == tx[c].candidate
           image == Candidate(tx[c].report)
           f == [tx[c] EXCEPT !.target = k, !.image = image]
<1>1. Searches(tx[c]) /\ k \in Cases /\ image \in Row
  BY ClientFacts, CandidateLegal DEF Insert, Sound, Searches
<1>2. f.candidate = f.target /\ f.image = Candidate(f.report)
  <2>. HIDE DEF image
  <2>1. /\ f.candidate = tx[c].candidate /\ f.report = tx[c].report
        /\ f.image = image /\ f.target = k
    BY ClientFacts DEF Transaction
  <2>. QED  BY <2>1 DEF image
<1>3. Follows(f, memory[k])
  <2>. HIDE DEF f
  <2>. QED  BY <1>2 DEF Follows, Present, Insert
<1>. HIDE DEF image
<1>4. /\ Takes(c, k, image, "commit") /\ RowFree(c, k)
      /\ UNCHANGED <<memory, node, edges>>
  BY DEF image, Insert
<1>. QED  BY <1>1, <1>3, <1>4, TakeMoves DEF Searches

\* An idle client takes a row to write an image of it that is no merge.
LEMMA RequestMoves ==
    ASSUME MemoryInvariant, NEW c \in Clients, NEW k \in Cases, NEW image \in Row,
           tx[c].step = "idle", Present(k), RowFree(c, k),
           UNCHANGED <<memory, node, edges>>, Takes(c, k, image, "drop"),
           \/ image = NoRow
           \/ \E decision \in Decisions : image = [memory[k] EXCEPT !.status = decision]
    PROVE  \E t : Moves(c, t)
<1> DEFINE f == [tx[c] EXCEPT !.target = k, !.image = image]
<1>1. tx[c] = Idle
  BY ClientFacts DEF Sound
<1>2. f.candidate = None /\ f.image = image
  BY <1>1 DEF Idle
<1>3. Follows(f, memory[k])
  <2>. HIDE DEF f
  <2>. QED  BY <1>2 DEF Follows, Present
<1>4. tx[c].rows = {} /\ tx[c].wrote = NoNodes /\ ~tx[c].drops /\ tx[c].candidate = None
  BY <1>1 DEF Idle
<1>. QED  BY <1>3, <1>4, TakeMoves

LEMMA DecideMoves ==
    ASSUME MemoryInvariant, NEW c \in Clients, NEW k \in Cases,
           NEW decision \in Decisions, Decide(c, k, decision)
    PROVE  \E t : Moves(c, t)
<1> DEFINE image == [memory[k] EXCEPT !.status = decision]
<1>1. image \in Row
  BY ClientFacts, DecidedLegal DEF Decide, Present
<1>2. /\ Takes(c, k, image, "drop") /\ RowFree(c, k) /\ Present(k)
      /\ tx[c].step = "idle" /\ UNCHANGED <<memory, node, edges>>
  BY DEF Decide
<1>3. \E d \in Decisions : image = [memory[k] EXCEPT !.status = d]
  OBVIOUS
<1>. HIDE DEF image
<1>. QED  BY <1>1, <1>2, <1>3, RequestMoves

LEMMA DeleteMoves ==
    ASSUME MemoryInvariant, NEW c \in Clients, NEW k \in Cases, Delete(c, k)
    PROVE  \E t : Moves(c, t)
BY NoRowLegal, RequestMoves DEF Delete

LEMMA OwnNodeMoves ==
    ASSUME MemoryInvariant, NEW c \in Clients, NEW neighbours \in SUBSET Cases,
           OwnNode(c, neighbours)
    PROVE  \E t : Moves(c, t)
<1> DEFINE k == tx[c].target
           seen == [n \in Cases |-> IF n \in neighbours THEN memory[n].facts ELSE {}]
           wrote == [tx[c].wrote EXCEPT ![k] = tx[c].image.facts]
           step == IF neighbours = {} THEN "commit" ELSE "join"
           t == [tx[c] EXCEPT !.wrote = wrote, !.seen = seen, !.step = step]
<1>1. tx[c] \in Transaction /\ Writes(tx[c]) /\ tx[c].step = "own"
  BY ClientFacts DEF OwnNode, Sound
<1>2. /\ k \in Cases /\ tx[c].wrote \in [Cases -> SUBSET Facts]
      /\ tx[c].image \in Row /\ tx[c].rows \in SUBSET Cases
      /\ tx[c].target \in tx[c].rows
  BY <1>1 DEF Writes, Transaction
<1>3. tx[c].image.status = "confirmed" /\ ~tx[c].drops
  BY <1>1 DEF Writes
<1>4. tx[c].image.facts # {} /\ tx[c].image.facts \in SUBSET Facts
  <2>1. RowLegal(tx[c].image)
    BY <1>1, <1>2, ClientFacts, FollowsLegal, CaseAssumption DEF Writes
  <2>. QED  BY <1>2, <1>3, <2>1 DEF RowLegal, Row
<1>5. wrote \in [Cases -> SUBSET Facts] /\ wrote[k] # {}
  BY <1>2, <1>4
<1>6. seen \in [Cases -> SUBSET Facts]
  BY ClientFacts DEF Row
<1>7. step \in {"commit", "join"}
  OBVIOUS
<1>8. tx' = [tx EXCEPT ![c] = t] /\ UNCHANGED <<memory, node, edges>>
  BY <1>1, ClientFacts DEF OwnNode, Transaction
<1>9. /\ t \in Transaction
      /\ t.wrote = wrote /\ t.step = step /\ t.rows = tx[c].rows
      /\ t.candidate = tx[c].candidate /\ t.report = tx[c].report
      /\ t.target = k /\ t.image = tx[c].image /\ t.drops = tx[c].drops
  <2>. HIDE DEF wrote, seen, step, k
  <2>. QED  BY <1>1, <1>5, <1>6, <1>7 DEF Transaction, Steps, k
<1>. HIDE DEF t, wrote, seen, step
<1>10. Sound(t)
  BY <1>1, <1>3, <1>5, <1>7, <1>9 DEF Sound, Writes, Follows
<1>. QED  BY <1>8, <1>9, <1>10 DEF Moves

LEMMA JoinNeighbourMoves ==
    ASSUME MemoryInvariant, NEW c \in Clients, NEW n \in Cases, JoinNeighbour(c, n)
    PROVE  \E t : Moves(c, t)
<1> DEFINE k == tx[c].target
           seen == [tx[c].seen EXCEPT ![n] = {}]
           wrote == [tx[c].wrote EXCEPT ![n] = tx[c].seen[n]]
           step == IF seen = NoNodes THEN "commit" ELSE "join"
           t == [tx[c] EXCEPT !.wrote = wrote, !.seen = seen, !.step = step]
<1>1. tx[c] \in Transaction /\ Writes(tx[c]) /\ tx[c].step = "join"
  BY ClientFacts DEF JoinNeighbour, Sound
<1>2. /\ k \in Cases /\ tx[c].wrote \in [Cases -> SUBSET Facts]
      /\ tx[c].seen \in [Cases -> SUBSET Facts] /\ tx[c].rows \in SUBSET Cases
  BY <1>1 DEF Writes, Transaction
<1>3. tx[c].image.status = "confirmed" /\ ~tx[c].drops /\ tx[c].wrote[k] # {}
  BY <1>1 DEF Writes
<1>4. wrote \in [Cases -> SUBSET Facts] /\ wrote[k] # {}
  BY <1>2, <1>3 DEF JoinNeighbour
<1>5. seen \in [Cases -> SUBSET Facts]
  BY <1>2
<1>6. step \in {"commit", "join"}
  OBVIOUS
<1>7. tx' = [tx EXCEPT ![c] = t] /\ UNCHANGED <<memory, node, edges>>
  BY <1>1, ClientFacts DEF JoinNeighbour, Transaction
<1>8. /\ t \in Transaction
      /\ t.wrote = wrote /\ t.step = step /\ t.rows = tx[c].rows
      /\ t.candidate = tx[c].candidate /\ t.report = tx[c].report
      /\ t.target = k /\ t.image = tx[c].image /\ t.drops = tx[c].drops
  <2>. HIDE DEF wrote, seen, step, k
  <2>. QED  BY <1>1, <1>4, <1>5, <1>6 DEF Transaction, Steps, k
<1>. HIDE DEF t, wrote, seen, step
<1>9. Sound(t)
  BY <1>1, <1>3, <1>4, <1>6, <1>8 DEF Sound, Writes, Follows
<1>. QED  BY <1>7, <1>8, <1>9 DEF Moves

LEMMA DropNodeMoves ==
    ASSUME MemoryInvariant, NEW c \in Clients, DropNode(c)
    PROVE  \E t : Moves(c, t)
<1> DEFINE drops == node[tx[c].target] # {}
           t == [tx[c] EXCEPT !.drops = drops, !.step = "commit"]
<1>1. tx[c] \in Transaction /\ Writes(tx[c]) /\ tx[c].step = "drop"
  BY ClientFacts DEF DropNode, Sound
<1>2. tx' = [tx EXCEPT ![c] = t] /\ UNCHANGED <<memory, node, edges>>
  BY <1>1, ClientFacts DEF DropNode, Transaction
<1>3. drops \in BOOLEAN
  OBVIOUS
<1>4. /\ t \in Transaction
      /\ t.wrote = tx[c].wrote /\ t.step = "commit" /\ t.rows = tx[c].rows
      /\ t.candidate = tx[c].candidate /\ t.report = tx[c].report
      /\ t.target = tx[c].target /\ t.image = tx[c].image
  <2>. HIDE DEF drops
  <2>. QED  BY <1>1, <1>3 DEF Transaction, Steps
<1>. HIDE DEF t, drops
<1>5. Sound(t)
  BY <1>1, <1>4 DEF Sound, Writes, Follows
<1>. QED  BY <1>2, <1>4, <1>5 DEF Moves

LEMMA AbortMoves ==
    ASSUME MemoryInvariant, NEW c \in Clients, Abort(c)
    PROVE  \E t : Moves(c, t)
<1>1. Idle.rows = {} /\ Idle.candidate = None
  BY DEF Idle
<1>. QED  BY <1>1, IdleSound DEF Abort, Moves

-----------------------------------------------------------------------------
(* The commit.                                                              *)

\* Nothing another transaction read or locked changes when c commits.
LEMMA OthersSound ==
    ASSUME MemoryInvariant, NEW c \in Clients, Commit(c), NEW d \in Clients \ {c}
    PROVE  Sound(tx[d])'
<1> DEFINE k == tx[c].target
<1>1. /\ Writes(tx[c]) /\ k \in tx[c].rows /\ tx[c].rows \in SUBSET Cases
      /\ tx[d] \in Transaction /\ Sound(tx[d]) /\ tx[d].rows \in SUBSET Cases
  BY ClientFacts DEF Commit, Sound, Writes, Transaction
<1>2. tx'[d] = tx[d]
  BY ClientFacts DEF Commit
<1>3. \A m \in Cases \ {k} : memory'[m] = memory[m]
  BY ClientFacts DEF Commit
<1>4. k \notin tx[d].rows
  BY <1>1 DEF MemoryInvariant, LocksExclusive
<1>5. \A m \in tx[d].rows : memory'[m] = memory[m]
  BY <1>1, <1>3, <1>4
<1>6. ASSUME Searches(tx[d]) PROVE Searches(tx[d])'
  <2>1. /\ tx[d].candidate \in Cases /\ tx[d].candidate # None
        /\ tx[d].report \in Reports /\ tx[d].wrote = NoNodes /\ ~tx[d].drops
        /\ tx[d].step \in {"similar", "insert"} => ~Present(tx[d].candidate)
        /\ \A m \in tx[d].rows : Present(m)
    BY <1>6, CaseAssumption DEF Searches
  <2>2. ASSUME tx[d].step \in {"similar", "insert"}
        PROVE  memory'[tx[d].candidate].status = "absent"
    <3>1. CASE tx[d].candidate = k
      <4>1. k = tx[c].candidate
        BY <1>1, <2>1, <2>2, <3>1 DEF Writes
      <4>. QED  BY <2>1, <3>1, <4>1 DEF MemoryInvariant, LocksExclusive
    <3>2. CASE tx[d].candidate # k
      BY <1>3, <2>1, <2>2, <3>2 DEF Present
    <3>. QED  BY <3>1, <3>2
  <2>. QED  BY <1>2, <1>5, <2>1, <2>2 DEF Searches, Present, NoNodes
<1>7. ASSUME Writes(tx[d]) PROVE Writes(tx[d])'
  <2>1. memory'[tx[d].target] = memory[tx[d].target]
    BY <1>5, <1>7 DEF Writes
  <2>2. Follows(tx[d], memory[tx[d].target])
    BY <1>7 DEF Writes
  <2>3. Follows(tx'[d], memory'[tx'[d].target])
    BY <1>2, <2>1, <2>2
  <2>4. \A m \in tx[d].rows : memory'[m].status = "absent" => m = tx[d].candidate
    BY <1>5, <1>7 DEF Writes, Present
  <2>. QED  BY <1>2, <1>7, <2>3, <2>4 DEF Writes, Present, NoNodes
<1>. QED  BY <1>1, <1>2, <1>6, <1>7 DEF Sound

\* What a commit makes of the graph: every node it takes away belonged to a case
\* that is no longer confirmed, and went with its edges.
LEMMA CommitGraph ==
    ASSUME MemoryInvariant, NEW c \in Clients, Commit(c)
    PROVE  ConfirmedHaveNodes' /\ EdgesJoinNodes'
<1> DEFINE k == tx[c].target
<1>1. /\ tx[c] \in Transaction /\ Writes(tx[c]) /\ tx[c].step = "commit"
      /\ k \in Cases
  BY ClientFacts DEF Commit, Sound, Writes, Transaction
<1>2. IF tx[c].image.status = "confirmed" THEN tx[c].wrote[k] # {} /\ ~tx[c].drops
      ELSE tx[c].wrote = NoNodes
  BY <1>1 DEF Writes
<1>3. /\ memory'[k] = tx[c].image
      /\ \A m \in Cases \ {k} : memory'[m] = memory[m]
  BY <1>1, ClientFacts DEF Commit
<1>4. \A m \in Cases : node'[m] = IF tx[c].drops /\ m = k THEN {}
                                  ELSE IF tx[c].wrote[m] # {} THEN tx[c].wrote[m]
                                  ELSE node[m]
  BY DEF Commit
<1>5. \A m \in Cases : node[m] # {} => node'[m] # {} \/ (m = k /\ tx[c].drops)
  BY <1>4
<1>6. ConfirmedHaveNodes'
  <2>1. memory'[k].status = "confirmed" => node'[k] # {}
    BY <1>1, <1>2, <1>3, <1>4
  <2>2. ASSUME NEW m \in Cases, m # k, memory'[m].status = "confirmed"
        PROVE  node'[m] # {}
    BY <1>3, <1>5, <2>2 DEF MemoryInvariant, ConfirmedHaveNodes, Confirmed
  <2>. QED  BY <2>1, <2>2 DEF ConfirmedHaveNodes, Confirmed
<1>7. ASSUME NEW e \in edges', NEW m \in e PROVE node'[m] # {}
  <2>1. CASE e \in edges \ Severed(c)
    <3>1. node[m] # {} /\ m \in Cases
      BY <2>1 DEF MemoryInvariant, TypeOK, EdgesJoinNodes
    <3>2. ~(m = k /\ tx[c].drops)
      BY <2>1 DEF Severed
    <3>. QED  BY <1>5, <3>1, <3>2
  <2>2. CASE e \in Joined(c)
    <3>1. PICK n \in Cases \ {k} : e = {k, n} /\ tx[c].wrote[n] # {}
      BY <2>2 DEF Joined
    <3>2. tx[c].wrote[k] # {} /\ ~tx[c].drops
      BY <1>2, <3>1 DEF NoNodes
    <3>. QED  BY <1>1, <1>4, <3>1, <3>2
  <2>. QED  BY <2>1, <2>2 DEF Commit
<1>. QED  BY <1>6, <1>7 DEF EdgesJoinNodes

LEMMA CommitStep ==
    ASSUME MemoryInvariant, NEW c \in Clients, Commit(c)
    PROVE  MemoryInvariant'
<1> DEFINE k == tx[c].target
<1>1. /\ tx[c] \in Transaction /\ Writes(tx[c]) /\ k \in Cases
      /\ tx[c].image \in Row /\ tx[c].wrote \in [Cases -> SUBSET Facts]
  BY ClientFacts DEF Commit, Sound, Writes, Transaction
<1>2. /\ tx' \in [Clients -> Transaction] /\ tx'[c] = Idle
      /\ \A d \in Clients \ {c} : tx'[d] = tx[d]
  BY ClientFacts, IdleSound DEF Commit
<1>3. TypeOK'
  <2>1. memory' \in [Cases -> Row]
    BY <1>1, ClientFacts DEF Commit
  <2>2. node' \in [Cases -> SUBSET Facts]
    BY <1>1 DEF Commit, MemoryInvariant, TypeOK
  <2>3. edges' \subseteq SUBSET Cases
    BY <1>1 DEF Commit, Joined, MemoryInvariant, TypeOK
  <2>. QED  BY <1>2, <2>1, <2>2, <2>3 DEF TypeOK
<1>4. RowsLegal'
  <2>1. RowLegal(tx[c].image)
    BY <1>1, ClientFacts, FollowsLegal, CaseAssumption DEF Writes
  <2>2. ASSUME NEW m \in Cases PROVE RowLegal(memory'[m])
    <3>1. memory'[m] = IF m = k THEN tx[c].image ELSE memory[m]
      BY <1>1, ClientFacts DEF Commit
    <3>. QED  BY <2>1, <3>1, ClientFacts
  <2>. QED  BY <2>2 DEF RowsLegal, RowLegal
<1>5. LocksExclusive'
  <2>1. Idle.rows = {} /\ Idle.candidate = None
    BY DEF Idle
  <2>. QED  BY <1>2, <2>1 DEF MemoryInvariant, LocksExclusive
<1>6. TransactionsSound'
  <2>1. Sound(tx[c])'
    <3>1. Sound(tx'[c]) /\ tx'[c].step = "idle"
      BY <1>2, IdleSound DEF Idle
    <3>. QED  BY <1>2, <3>1 DEF Sound
  <2>. QED  BY <2>1, OthersSound DEF TransactionsSound
<1>. QED  BY <1>3, <1>4, <1>5, <1>6, CommitGraph DEF MemoryInvariant

-----------------------------------------------------------------------------
(* The theorems.                                                            *)

LEMMA MemoryInit == Init => MemoryInvariant
<1> SUFFICES ASSUME Init PROVE MemoryInvariant
  OBVIOUS
<1>1. TypeOK
  BY NoRowLegal, IdleSound DEF Init, TypeOK, NoNodes
<1>2. NoRow.status = "absent"
  BY DEF NoRow
<1>3. RowsLegal /\ ConfirmedHaveNodes /\ EdgesJoinNodes
  BY <1>2, NoRowLegal DEF Init, RowsLegal, ConfirmedHaveNodes, Confirmed, EdgesJoinNodes
<1>4. LocksExclusive
  BY DEF Init, LocksExclusive, Idle
<1>5. TransactionsSound
  BY IdleSound DEF Init, TransactionsSound
<1>. QED  BY <1>1, <1>3, <1>4, <1>5 DEF MemoryInvariant

LEMMA MemoryNext == MemoryInvariant /\ [Next]_vars => MemoryInvariant'
<1> SUFFICES ASSUME MemoryInvariant, [Next]_vars PROVE MemoryInvariant'
  OBVIOUS
<1>1. ASSUME NEW c \in Clients, NEW t, Moves(c, t) PROVE MemoryInvariant'
  BY <1>1, MoveStep
<1>2. ASSUME NEW c \in Clients, NEW report \in Reports, NEW k \in Cases,
             Stage(c, report, k)
      PROVE  MemoryInvariant'
  BY <1>1, <1>2, StageMoves
<1>3. ASSUME NEW c \in Clients, FindExact(c) \/ FindSimilar(c) \/ Insert(c)
      PROVE  MemoryInvariant'
  BY <1>1, <1>3, FindExactMoves, FindSimilarMoves, InsertMoves
<1>4. ASSUME NEW c \in Clients, NEW k \in Cases,
             Delete(c, k) \/ \E decision \in Decisions : Decide(c, k, decision)
      PROVE  MemoryInvariant'
  BY <1>1, <1>4, DeleteMoves, DecideMoves
<1>5. ASSUME NEW c \in Clients,
             \/ \E neighbours \in SUBSET Cases : OwnNode(c, neighbours)
             \/ \E n \in Cases : JoinNeighbour(c, n)
             \/ DropNode(c)
      PROVE  MemoryInvariant'
  BY <1>1, <1>5, OwnNodeMoves, JoinNeighbourMoves, DropNodeMoves
<1>6. ASSUME NEW c \in Clients, Commit(c) PROVE MemoryInvariant'
  BY <1>6, CommitStep
<1>7. ASSUME NEW c \in Clients, Abort(c) PROVE MemoryInvariant'
  BY <1>1, <1>7, AbortMoves
<1>8. CASE UNCHANGED vars
  BY <1>8 DEF vars, MemoryInvariant, TypeOK, RowsLegal, LocksExclusive,
     TransactionsSound, Sound, Searches, Writes, Present,
     ConfirmedHaveNodes, Confirmed, EdgesJoinNodes
<1>. QED  BY <1>2, <1>3, <1>4, <1>5, <1>6, <1>7, <1>8 DEF Next

\* In every reachable state of the case memory the inductive invariant holds:
\* what each transaction of PostgresMemoryRuntime read under its locks is still
\* so when it writes.
THEOREM MemorySound == Spec => []MemoryInvariant
BY MemoryInit, MemoryNext, PTL DEF Spec

\* Rows, nodes and transactions always have the fields their classes declare.
THEOREM MemoryTypeCorrect == Spec => []TypeOK
<1>1. MemoryInvariant => TypeOK
  BY DEF MemoryInvariant
<1>. QED  BY <1>1, MemorySound, PTL

\* occurrence_count of a case is the number of distinct runs whose reports it
\* stands for, however often they are staged and by how many workers.
THEOREM OccurrencesCount == Spec => []OccurrencesCountRuns
<1>1. MemoryInvariant => OccurrencesCountRuns
  <2> SUFFICES ASSUME MemoryInvariant, NEW k \in Cases
               PROVE  memory[k].occurrences = Cardinality(memory[k].runs)
    BY DEF OccurrencesCountRuns
  <2>1. RowLegal(memory[k])
    BY DEF MemoryInvariant, RowsLegal
  <2>. QED  BY <2>1, FS_EmptySet DEF RowLegal, NoRow
<1>. QED  BY <1>1, MemorySound, PTL

\* save never meets the unique constraint on the signature: the advisory lock
\* of the component scope keeps the row absent that find_exact did not find.
THEOREM InsertsSucceed == Spec => []InsertNeverConflicts
<1>1. MemoryInvariant => InsertNeverConflicts
  BY DEF MemoryInvariant, TransactionsSound, Sound, Searches, InsertNeverConflicts
<1>. QED  BY <1>1, MemorySound, PTL

\* register_confirmed and remove, run in the transaction that changes the row,
\* never leave a confirmed case without its node.
THEOREM ConfirmedReachable == Spec => []ConfirmedHaveNodes
<1>1. MemoryInvariant => ConfirmedHaveNodes
  BY DEF MemoryInvariant
<1>. QED  BY <1>1, MemorySound, PTL

\* No SIMILAR_TO edge outlives a node it joins.
THEOREM EdgesSound == Spec => []EdgesJoinNodes
<1>1. MemoryInvariant => EdgesJoinNodes
  BY DEF MemoryInvariant
<1>. QED  BY <1>1, MemorySound, PTL

\* Every confirmed case can be reached through the graph and no edge of it dangles.
THEOREM GraphSound == Spec => []GraphIsWhole
<1>1. ConfirmedHaveNodes /\ EdgesJoinNodes => GraphIsWhole
  BY DEF GraphIsWhole
<1>. QED  BY ConfirmedReachable, EdgesSound, <1>1, PTL

-----------------------------------------------------------------------------
(* Refinement: every transaction is one operation of the ledger of         *)
(* CaseLedger.tla, at its commit, or none.                                  *)

\* The image of a transaction is what the operation of the ledger yields.
LEMMA CommitFollows ==
    ASSUME MemoryInvariant, NEW c \in Clients, Commit(c)
    PROVE  /\ tx[c].target \in Cases
           /\ tx[c].candidate # None => tx[c].report.run \in Runs
           /\ Follows(tx[c], memory[tx[c].target])
           /\ \A k \in Cases : memory'[k].status
                 = IF k = tx[c].target THEN tx[c].image.status ELSE memory[k].status
           /\ \A k \in Cases : memory'[k].runs
                 = IF k = tx[c].target THEN tx[c].image.runs ELSE memory[k].runs
<1>1. /\ tx[c] \in Transaction /\ Writes(tx[c]) /\ tx[c].target \in Cases
  BY ClientFacts DEF Commit, Sound, Writes, Transaction
<1>2. \A k \in Cases : memory'[k] = IF k = tx[c].target THEN tx[c].image ELSE memory[k]
  BY <1>1, ClientFacts DEF Commit
<1>. QED  BY <1>1, <1>2 DEF Writes, Reports

\* A commit is one operation of the ledger.
LEMMA CommitIsOperation ==
    ASSUME MemoryInvariant, NEW c \in Clients, Commit(c)
    PROVE  Ledger!Next
<1> DEFINE k == tx[c].target
           row == memory[k]
           image == tx[c].image
           report == tx[c].report
           verdict == [m \in Cases |-> memory[m].status]
           contributors == [m \in Cases |-> memory[m].runs]
<1>1. /\ k \in Cases /\ row \in Row /\ RowLegal(row)
      /\ tx[c].candidate # None => report \in Reports /\ report.run \in Runs
      /\ tx[c].candidate = k => tx[c].candidate # None
      /\ Follows(tx[c], row)
  <2>1. tx[c].candidate # None => report \in Reports
    BY ClientFacts DEF Commit, Sound, Writes
  <2>. QED  BY <2>1, CommitFollows, ClientFacts, CaseAssumption
<1>2. /\ verdict' = [verdict EXCEPT ![k] = image.status]
      /\ contributors' = [contributors EXCEPT ![k] = image.runs]
      /\ verdict[k] = row.status /\ contributors[k] = row.runs
  BY CommitFollows
<1>3. ASSUME NEW r \in Runs,
             image.status = IF row.status = "absent" THEN "pending" ELSE row.status,
             image.runs = row.runs \cup {r}
      PROVE  Ledger!Stage(k, r)
  BY <1>1, <1>2, <1>3 DEF Ledger!Stage
<1>4. CASE tx[c].candidate = k /\ row.status = "absent" /\ image = Candidate(report)
  <2>1. report.run \in Runs /\ row.runs = {} /\ image.status = "pending"
        /\ image.runs = {report.run}
    BY <1>1, <1>4, CandidateLegal DEF RowLegal, NoRow
  <2>. QED  BY <1>1, <1>3, <1>4, <2>1 DEF Ledger!Next
<1>5. CASE /\ tx[c].candidate # None /\ row.status # "absent"
           /\ image = Merged(row, report)
  <2>1. report.run \in Runs /\ image.status = row.status
        /\ image.runs = row.runs \cup {report.run}
    BY <1>1, <1>5, MergedLegal
  <2>. QED  BY <1>1, <1>3, <1>5, <2>1 DEF Ledger!Next
<1>6. CASE row.status # "absent" /\ image = NoRow
  <2>1. image.status = "absent" /\ image.runs = {}
    BY <1>6 DEF NoRow
  <2>2. Ledger!Delete(k)
    BY <1>1, <1>2, <1>6, <2>1 DEF Ledger!Delete
  <2>. QED  BY <1>1, <2>2 DEF Ledger!Next, Ledger!Delete
<1>7. ASSUME NEW decision \in Decisions, row.status # "absent",
             image = [row EXCEPT !.status = decision]
      PROVE  Ledger!Next
  <2>1. image.status = decision /\ image.runs = row.runs
    BY <1>1, <1>7, DecidedLegal
  <2>2. contributors' = contributors
    BY <1>1, <1>2, <2>1
  <2>3. Ledger!Decide(k, decision)
    BY <1>2, <1>7, <2>1, <2>2 DEF Ledger!Decide
  <2>. QED  BY <1>1, <2>3 DEF Ledger!Next, Ledger!Verdicts, Decisions
<1>. HIDE DEF k, row, image, report
<1>8. \/ tx[c].candidate = k /\ row.status = "absent" /\ image = Candidate(report)
      \/ tx[c].candidate # None /\ row.status # "absent" /\ image = Merged(row, report)
      \/ row.status # "absent" /\ image = NoRow
      \/ row.status # "absent" /\ \E decision \in Decisions :
                                     image = [row EXCEPT !.status = decision]
  BY <1>1 DEF Follows, k, image, report
<1>. QED  BY <1>4, <1>5, <1>6, <1>7, <1>8

\* Each transaction of PostgresMemoryRuntime is one atomic operation of the
\* ledger or nothing at all: a report is counted once per run, only a decision
\* changes a verdict, and a case that is deleted takes its links with it.
THEOREM LedgerImplemented == Spec => ImplementsLedger
<1>1. Init => Ledger!Init
  BY DEF Init, Ledger!Init, NoRow
<1>2. MemoryInvariant /\ [Next]_vars => [Ledger!Next]_(Ledger!vars)
  <2> SUFFICES ASSUME MemoryInvariant, [Next]_vars
               PROVE  Ledger!Next \/ UNCHANGED Ledger!vars
    OBVIOUS
  <2>1. CASE memory' = memory
    BY <2>1 DEF Ledger!vars
  <2>2. ASSUME NEW c \in Clients, Commit(c) PROVE Ledger!Next
    BY <2>2, CommitIsOperation
  <2>. QED  BY <2>1, <2>2 DEF Next, vars, Stage, FindExact, FindSimilar, Insert, Decide,
              Delete, OwnNode, JoinNeighbour, DropNode, Abort
<1>. QED  BY <1>1, <1>2, MemorySound, PTL DEF Spec, ImplementsLedger, Ledger!Spec

-----------------------------------------------------------------------------
(* A retrieval of evidence, which reads the graph the case memory changes.  *)

\* The path r is one of the graph of now.
IsPresent(r) ==
    /\ Items(r.nodes) \subseteq Nodes
    /\ Items(r.edges) \subseteq {e.id : e \in PresentEdges(Edges)}

\* Paths read are still there until a case goes, and so are the nodes loaded for them.
RowsArePresent ==
    phase \in {"nodes", "edges"} => torn \/ \A r \in rows : IsPresent(r)

RowsAreLoaded ==
    phase = "edges" => torn \/ \A r \in rows : Items(r.nodes) \subseteq loaded

RetrievalInv == RowsArePresent /\ RowsAreLoaded /\ FailureHasCause

\* The statement that reads paths reads nodes and edges of one graph.
LEMMA PathsArePresent ==
    ASSUME NEW n, NEW r \in PathsFrom(n)
    PROVE  IsPresent(r)
<1>1. ASSUME NEW x, NEW y
      PROVE  Items(<<x>>) = {x} /\ Items(<<x, y>>) = {x, y}
    BY DEF Items
<1>2. ASSUME NEW x, NEW y, NEW z PROVE Items(<<x, y, z>>) = {x, y, z}
    BY DEF Items
<1>3. CASE \E e \in PresentEdges(Edges) :
              e.from = n /\ r = [nodes |-> <<n, e.to>>, edges |-> <<e.id>>, score |-> e.weight]
    <2>1. PICK e \in PresentEdges(Edges) :
              e.from = n /\ r = [nodes |-> <<n, e.to>>, edges |-> <<e.id>>, score |-> e.weight]
        BY <1>3
    <2>2. n \in Nodes /\ e.to \in Nodes
        BY <2>1 DEF PresentEdges
    <2>3. Items(r.nodes) = {n, e.to} /\ Items(r.edges) = {e.id}
        BY <2>1, <1>1
    <2> QED BY <2>2, <2>3 DEF IsPresent
<1>4. CASE \E e, f \in PresentEdges(Edges) :
              /\ e.from = n /\ f.from = e.to
              /\ r = [nodes |-> <<n, e.to, f.to>>, edges |-> <<e.id, f.id>>,
                      score |-> (e.weight * f.weight) \div 10]
    <2>1. PICK e \in PresentEdges(Edges), f \in PresentEdges(Edges) :
              /\ e.from = n /\ f.from = e.to
              /\ r = [nodes |-> <<n, e.to, f.to>>, edges |-> <<e.id, f.id>>,
                      score |-> (e.weight * f.weight) \div 10]
        BY <1>4
    <2>2. n \in Nodes /\ e.to \in Nodes /\ f.to \in Nodes
        BY <2>1 DEF PresentEdges
    <2>3. Items(r.nodes) = {n, e.to, f.to} /\ Items(r.edges) = {e.id, f.id}
        <3>1. r.nodes = <<n, e.to, f.to>> /\ r.edges = <<e.id, f.id>>
            BY <2>1
        <3>2. Items(<<n, e.to, f.to>>) = {n, e.to, f.to}
            BY <1>2, Zenon
        <3>3. Items(<<e.id, f.id>>) = {e.id, f.id}
            BY <1>1, Zenon
        <3> QED BY <3>1, <3>2, <3>3, Zenon
    <2> QED BY <2>2, <2>3 DEF IsPresent
<1> DEFINE one == {e \in PresentEdges(Edges) : e.from = n}
           two == {p \in one \X PresentEdges(Edges) :
                       p[2].from = p[1].to /\ p[2].to # n /\ p[2].to # p[1].to}
<1>5. \/ r \in {[nodes |-> <<n, e.to>>, edges |-> <<e.id>>, score |-> e.weight] : e \in one}
      \/ r \in {[nodes |-> <<n, p[1].to, p[2].to>>, edges |-> <<p[1].id, p[2].id>>,
                 score |-> (p[1].weight * p[2].weight) \div 10] : p \in two}
    <2>1. CASE MaxHops = 1
        BY <2>1, Zenon DEF PathsFrom
    <2>2. CASE MaxHops # 1
        BY <2>2, Zenon DEF PathsFrom
    <2> QED BY <2>1, <2>2
<1>6. CASE r \in {[nodes |-> <<n, e.to>>, edges |-> <<e.id>>, score |-> e.weight] : e \in one}
    <2>1. PICK e \in one : r = [nodes |-> <<n, e.to>>, edges |-> <<e.id>>, score |-> e.weight]
        BY <1>6, Zenon
    <2> QED BY <1>3, <2>1
<1>7. CASE r \in {[nodes |-> <<n, p[1].to, p[2].to>>, edges |-> <<p[1].id, p[2].id>>,
                   score |-> (p[1].weight * p[2].weight) \div 10] : p \in two}
    <2>1. PICK p \in two : r = [nodes |-> <<n, p[1].to, p[2].to>>,
                                edges |-> <<p[1].id, p[2].id>>,
                                score |-> (p[1].weight * p[2].weight) \div 10]
        BY <1>7, Zenon
    <2>2. p[1] \in one /\ p[2] \in PresentEdges(Edges) /\ p[2].from = p[1].to
        OBVIOUS
    <2> QED BY <1>4, <2>1, <2>2
<1> QED BY <1>5, <1>6, <1>7

\* What another request does to the cases breaks a path only if it takes a case away.
LEMMA ChangesKeepPaths ==
    ASSUME NEW c \in CaseNodes, CaseChanges(c), RetrievalInv
    PROVE  RetrievalInv'
<1>1. /\ UNCHANGED <<phase, rows, loaded, cause>>
      /\ torn' = (torn \/ c \in cases)
      /\ cases' = IF c \in cases THEN cases \ {c} ELSE cases \cup {c}
    BY DEF CaseChanges
<1>2. CASE torn'
    BY <1>1, <1>2 DEF RetrievalInv, RowsArePresent, RowsAreLoaded, FailureHasCause
<1>3. CASE ~torn'
    <2>1. ~torn /\ cases \subseteq cases'
        BY <1>1, <1>3, Zenon
    <2>2. /\ Nodes \subseteq Nodes'
          /\ PresentEdges(Edges) \subseteq PresentEdges(Edges)'
        BY <2>1 DEF Nodes, PresentEdges
    <2>3. ASSUME NEW r \in rows, IsPresent(r) PROVE IsPresent(r)'
        BY <2>2, <2>3 DEF IsPresent
    <2>4. rows' = rows
        BY <1>1
    <2>5. RowsArePresent'
        <3>1. SUFFICES ASSUME phase' \in {"nodes", "edges"}, NEW r \in rows' PROVE IsPresent(r)'
            BY DEF RowsArePresent
        <3>2. IsPresent(r)
            BY <1>1, <2>1, <2>4, <3>1 DEF RetrievalInv, RowsArePresent
        <3> QED BY <2>3, <2>4, <3>1, <3>2
    <2> QED BY <1>1, <1>3, <2>1, <2>5 DEF RetrievalInv, RowsAreLoaded, FailureHasCause
<1> QED BY <1>2, <1>3

\* Every step of a retrieval, and every change of the cases, keeps its invariant.
LEMMA RetrievalStep ==
    ASSUME RetrievalInv, [RetrievalNext]_retrievalVars
    PROVE  RetrievalInv'
<1> USE DEF RetrievalInv, RowsArePresent, RowsAreLoaded, FailureHasCause
<1>1. CASE Embedded
    BY <1>1 DEF Embedded, Goes, Fails
<1>2. CASE SearchedLexical
    BY <1>2 DEF SearchedLexical, Goes
<1>3. CASE SearchedVector
    BY <1>3 DEF SearchedVector, Goes
<1>4. CASE RerankedSeeds
    <2>1. Goes("rows")
        BY <1>4 DEF RerankedSeeds, SecondStage, Degrades
    <2> QED BY <2>1 DEF Goes
<1>5. CASE ReadRows
    <2>1. PICK n : n = seeds[turn].id /\ rows' = PathsFrom(n)
        BY <1>5 DEF ReadRows
    <2>2. UNCHANGED <<cases, cause>> /\ phase' \in {"rows", "nodes"}
        BY <1>5 DEF ReadRows, Goes, Kept, Alone
    <2>3. Nodes' = Nodes /\ PresentEdges(Edges)' = PresentEdges(Edges)
        BY <2>2 DEF Nodes, PresentEdges
    <2>4. ASSUME NEW r \in rows' PROVE IsPresent(r)'
        <3>1. IsPresent(r)
            BY <2>1, <2>4, PathsArePresent
        <3> QED BY <2>3, <3>1 DEF IsPresent
    <2> QED BY <2>2, <2>4
<1>6. CASE LoadedNodes
    <2>1. /\ UNCHANGED <<cases, cause, rows, torn>> /\ phase = "nodes" /\ phase' = "edges"
          /\ loaded' = Nodes \cap UNION {Items(r.nodes) : r \in rows}
        BY <1>6 DEF LoadedNodes, Goes, Kept, Alone
    <2>2. Nodes' = Nodes /\ PresentEdges(Edges)' = PresentEdges(Edges)
        BY <2>1 DEF Nodes, PresentEdges
    <2>3. CASE torn
        BY <2>1, <2>3
    <2>4. CASE ~torn
        <3>1. ASSUME NEW r \in rows 
              PROVE  IsPresent(r)' /\ Items(r.nodes) \subseteq loaded'
            <4>1. IsPresent(r)
                BY <2>1, <2>4, <3>1
            <4> QED BY <2>1, <2>2, <3>1, <4>1 DEF IsPresent
        <3> QED BY <2>1, <3>1
    <2> QED BY <2>3, <2>4
<1>7. CASE LoadedEdges
    <2>1. UNCHANGED torn /\ phase = "edges"
        BY <1>7 DEF LoadedEdges, Kept
    <2>2. CASE Goes("rows")
        BY <2>2 DEF Goes
    <2>3. CASE Fails("KeyError")
        <3>1. \E r \in rows :
                 ~(/\ Items(r.nodes) \subseteq loaded
                   /\ Items(r.edges) \subseteq {e.id : e \in PresentEdges(Edges)})
            BY <1>7, <2>1, <2>3 DEF LoadedEdges, Goes, Fails
        <3>2. torn
            BY <2>1, <3>1 DEF IsPresent
        <3> QED BY <2>1, <2>3, <3>2 DEF Fails
    <2> QED BY <1>7, <2>2, <2>3 DEF LoadedEdges
<1>8. CASE GraphDone
    BY <1>8 DEF GraphDone, Goes
<1>9. CASE SearchedChunks
    BY <1>9 DEF SearchedChunks, Goes
<1>10. CASE RerankedChunks
    <2>1. Goes("bundle")
        BY <1>10 DEF RerankedChunks, SecondStage, Degrades
    <2> QED BY <2>1 DEF Goes
<1>11. CASE Bundled
    BY <1>11 DEF Bundled, Goes
<1>12. ASSUME NEW c \in CaseNodes, CaseChanges(c) PROVE RetrievalInv'
    BY <1>12, ChangesKeepPaths
<1>13. CASE UNCHANGED retrievalVars
    BY <1>13 DEF retrievalVars, IsPresent, Nodes, PresentEdges
<1> QED BY <1>1, <1>2, <1>3, <1>4, <1>5, <1>6, <1>7, <1>8, <1>9, <1>10, <1>11, <1>12, <1>13
        DEF RetrievalNext

\* A retrieval fails when the query cannot be embedded, or when a case was deleted between
\* the statement that read the paths and the two that load them; for no other reason.
THEOREM RetrievalFailsForCause == RetrievalSpec => []FailureHasCause
<1>1. RetrievalInit => RetrievalInv
    BY DEF RetrievalInit, RetrievalInv, RowsArePresent, RowsAreLoaded, FailureHasCause
<1>2. RetrievalInv /\ [RetrievalNext]_retrievalVars => RetrievalInv'
    BY RetrievalStep
<1>3. RetrievalInv => FailureHasCause
    BY DEF RetrievalInv
<1> QED BY <1>1, <1>2, <1>3, PTL DEF RetrievalSpec

-----------------------------------------------------------------------------
(* Rankings: Ranked takes each member once, in the order it is given.       *)

\* What comes before x in the order R of S.
Preceding(S, R) == [x \in S |-> {y \in S : y # x /\ <<y, x>> \in R}]

\* R orders S: of two members one comes first, and what comes before x comes before
\* whatever x comes before.
Orders(R, S) ==
    /\ \A x, y \in S : x # y => (<<x, y>> \in R <=> <<y, x>> \notin R)
    /\ \A x, y, z \in S : x # y /\ y # z /\ <<x, y>> \in R /\ <<y, z>> \in R => <<x, z>> \in R

\* As many members come before x as its rank says, and every rank is taken.
LEMMA RankExists ==
    ASSUME NEW S, IsFiniteSet(S), NEW R, Orders(R, S)
    PROVE  /\ \A i \in 1..Cardinality(S) :
                  \E x \in S : Cardinality(Preceding(S, R)[x]) = i - 1
           /\ \A x \in S : Cardinality(Preceding(S, R)[x]) + 1 \in 1..Cardinality(S)
           /\ \A x, y \in S :
                  Cardinality(Preceding(S, R)[x]) = Cardinality(Preceding(S, R)[y]) => x = y
<1> DEFINE before == Preceding(S, R)
           n == Cardinality(S)
           rank == [x \in S |-> Cardinality(before[x]) + 1]
<1>1. n \in Nat
  BY FS_CardinalityType
<1>2. ASSUME NEW x \in S
      PROVE  IsFiniteSet(before[x]) /\ Cardinality(before[x]) \in Nat /\ Cardinality(before[x]) < n
  <2>1. IsFiniteSet(S \ {x}) /\ Cardinality(S \ {x}) = n - 1
    BY FS_RemoveElement
  <2>2. before[x] \in SUBSET (S \ {x})
    BY DEF Preceding
  <2>3. IsFiniteSet(before[x]) /\ Cardinality(before[x]) <= n - 1
    BY <2>1, <2>2, FS_Subset
  <2>4. Cardinality(before[x]) \in Nat
    BY <2>3, FS_CardinalityType
  <2> QED BY <2>3, <2>4, <1>1
<1>3. ASSUME NEW x \in S, NEW y \in S, x # y, <<x, y>> \in R
      PROVE  Cardinality(before[x]) < Cardinality(before[y])
  <2>1. before[x] \in SUBSET before[y]
    BY <1>3 DEF Preceding, Orders
  <2>2. x \in before[y] /\ x \notin before[x]
    BY <1>3 DEF Preceding
  <2>3. /\ Cardinality(before[x]) <= Cardinality(before[y])
        /\ Cardinality(before[y]) = Cardinality(before[x]) => before[y] = before[x]
    BY <2>1, <1>2, FS_Subset
  <2> QED BY <2>2, <2>3, <1>2
<1>4. ASSUME NEW x \in S, NEW y \in S, Cardinality(before[x]) = Cardinality(before[y])
      PROVE  x = y
  <2>1. \A a, b \in S : a # b /\ <<a, b>> \in R => Cardinality(before[a]) < Cardinality(before[b])
    BY <1>3
  <2>2. x # y => <<x, y>> \in R \/ <<y, x>> \in R
    BY DEF Orders
  <2>3. ~(Cardinality(before[x]) < Cardinality(before[y])) /\ ~(Cardinality(before[y]) < Cardinality(before[x]))
    BY <1>4, <1>2
  <2> HIDE DEF before
  <2> QED BY <2>1, <2>2, <2>3
<1>5. rank \in [S -> 1..n]
  <2>1. \A x \in S : Cardinality(before[x]) + 1 \in 1..n
    BY <1>1, <1>2
  <2> HIDE DEF before, n
  <2> QED BY <2>1
<1>6. rank \in Injection(S, 1..n)
  <2>1. \A x, y \in S : rank[x] = rank[y] => x = y
    <3>1. \A x \in S : Cardinality(before[x]) \in Nat
      BY <1>2
    <3>2. \A x, y \in S : Cardinality(before[x]) = Cardinality(before[y]) => x = y
      BY <1>4
    <3> HIDE DEF before, n
    <3> QED BY <3>1, <3>2
  <2> HIDE DEF rank
  <2> QED BY <2>1, <1>5 DEF Injection, IsInjective
<1>7. rank \in Surjection(S, 1..n)
  <2>1. IsFiniteSet(1..n) /\ Cardinality(1..n) = n
    BY <1>1, FS_Interval
  <2> HIDE DEF rank
  <2> QED BY <1>6, <2>1, FS_Injection
<1>8. ASSUME NEW i \in 1..n PROVE \E x \in S : Cardinality(before[x]) = i - 1
  <2>1. PICK x \in S : rank[x] = i
    <3> HIDE DEF rank
    <3> QED BY <1>7 DEF Surjection
  <2>2. Cardinality(before[x]) \in Nat
    BY <1>2
  <2> QED BY <2>1, <2>2, <1>1
<1>9. \A x \in S : Cardinality(before[x]) + 1 \in 1..n
  BY <1>1, <1>2
<1> HIDE DEF before
<1> QED BY <1>4, <1>8, <1>9 DEF before

\* seq holds each member of S, and each once.
Lists(seq, S) ==
    /\ seq \in Seq(S)
    /\ \A x \in S : \E i \in DOMAIN seq : seq[i] = x
    /\ \A i, j \in DOMAIN seq : seq[i] = seq[j] => i = j

\* Members taken by their rank are all members, each once.
LEMMA RankingLists ==
    ASSUME NEW S, IsFiniteSet(S), NEW R, Orders(R, S), NEW r,
           DOMAIN r = 1..Cardinality(S), r = [i \in DOMAIN r |-> r[i]],
           \A i \in DOMAIN r : r[i] \in S /\ Cardinality(Preceding(S, R)[r[i]]) = i - 1
    PROVE  Lists(r, S) /\ Len(r) = Cardinality(S)
<1> DEFINE before == Preceding(S, R)
           n == Cardinality(S)
<1>1. n \in Nat
  BY FS_CardinalityType
<1>2. r \in [1..n -> S]
  <2>1. DOMAIN r = 1..n /\ r = [i \in DOMAIN r |-> r[i]] /\ \A i \in DOMAIN r : r[i] \in S
    OBVIOUS
  <2> HIDE DEF n
  <2> QED BY <2>1
<1>3. r \in Seq(S) /\ Len(r) = n
  <2> HIDE DEF n
  <2> QED BY <1>1, <1>2
<1>4. ASSUME NEW x \in S PROVE \E i \in DOMAIN r : r[i] = x
  <2>1. Cardinality(before[x]) + 1 \in 1..n
    BY RankExists
  <2> DEFINE i == Cardinality(before[x]) + 1
  <2>2. i \in DOMAIN r
    BY <2>1
  <2>3. r[i] \in S /\ Cardinality(before[r[i]]) = i - 1
    BY <2>2
  <2>4. IsFiniteSet(before[x])
    BY FS_Subset DEF Preceding
  <2>5. Cardinality(before[x]) \in Nat
    BY <2>4, FS_CardinalityType
  <2>6. r[i] = x
    BY <2>3, <2>5, RankExists
  <2> QED BY <2>2, <2>6
<1>5. ASSUME NEW i \in DOMAIN r, NEW j \in DOMAIN r, r[i] = r[j] PROVE i = j
  <2>1. i - 1 = j - 1
    BY <1>5
  <2> QED BY <2>1, <1>1
<1> QED BY <1>3, <1>4, <1>5 DEF Lists

\* Candidates with ids of their own and numeric scores are listed by Ranked.
LEMMA RankedByFinal ==
    ASSUME NEW S, IsFiniteSet(S), \A x \in S : x.final \in Int /\ x.id \in Int,
           \A x, y \in S : x.id = y.id => x = y
    PROVE  Lists(Ranked(S, ByFinal), S)
<1> DEFINE R == {p \in S \X S : ByFinal(p[1], p[2])}
           r == Ranked(S, ByFinal)
<1>1. \A x, y \in S : <<x, y>> \in R <=> ByFinal(x, y)
  OBVIOUS
<1>2. Orders(R, S)
  <2> HIDE DEF R
  <2> QED BY <1>1 DEF Orders, ByFinal
<1>3. \A x \in S : {y \in S : y # x /\ ByFinal(y, x)} = Preceding(S, R)[x]
  <2> HIDE DEF R
  <2> QED BY <1>1 DEF Preceding
<1>4. \A i \in 1..Cardinality(S) :
          \E x \in S : Cardinality({y \in S : y # x /\ ByFinal(y, x)}) = i - 1
  <2> SUFFICES ASSUME NEW i \in 1..Cardinality(S)
               PROVE  \E x \in S : Cardinality({y \in S : y # x /\ ByFinal(y, x)}) = i - 1
    OBVIOUS
  <2> HIDE DEF R
  <2>1. PICK x \in S : Cardinality(Preceding(S, R)[x]) = i - 1
    BY <1>2, RankExists
  <2>2. {y \in S : y # x /\ ByFinal(y, x)} = Preceding(S, R)[x]
    BY <1>3
  <2> QED BY <2>1, <2>2
<1>5. /\ r = [i \in 1..Cardinality(S) |-> r[i]]
      /\ \A i \in 1..Cardinality(S) :
            r[i] \in S /\ Cardinality({y \in S : y # r[i] /\ ByFinal(y, r[i])}) = i - 1
  BY <1>4 DEF Ranked
<1> HIDE DEF R, r
<1>6. \A i \in DOMAIN r : r[i] \in S /\ Cardinality(Preceding(S, R)[r[i]]) = i - 1
  BY <1>3, <1>5
<1>7. Lists(r, S)
  BY <1>2, <1>5, <1>6, RankingLists
<1> QED BY <1>7 DEF r

-----------------------------------------------------------------------------
(* Candidates, and the second stage.                                        *)

CandidatesIn(S) ==
    [id : S, semantic : Int, lexical : Int, reliability : Int, hybrid : Int,
     rerank : Int, final : Int]

\* seq holds candidates of S, none twice.
Candidates(seq, S) ==
    /\ seq \in Seq(CandidatesIn(S))
    /\ \A i, j \in DOMAIN seq : seq[i].id = seq[j].id => i = j

\* list holds candidates of S; each has the reranker's opinion of it, or none has one.
ScoredAs(list, S, done, opinion) ==
    /\ Candidates(list, S)
    /\ \A i \in DOMAIN list : list[i].rerank = IF done THEN Bounded(opinion[list[i].id]) ELSE -1

\* The scores are those of the candidates, in their order.
ScoresFit(scores, list, opinion) ==
    \A i \in DOMAIN list : scores[i] = Bounded(opinion[list[i].id])

LEMMA BoundedInt ==
    ASSUME NEW x \in Int
    PROVE  Bounded(x) \in Int
BY DEF Bounded

LEMMA SequenceItems ==
    ASSUME NEW T, NEW seq \in Seq(T)
    PROVE  DOMAIN seq = 1..Len(seq) /\ \A i \in 1..Len(seq) : seq[i] \in T
OBVIOUS

LEMMA UpToKeeps ==
    ASSUME NEW T, NEW seq \in Seq(T), NEW limit \in Nat
    PROVE  /\ UpTo(seq, limit) \in Seq(T)
           /\ \A i \in DOMAIN UpTo(seq, limit) : i \in DOMAIN seq /\ UpTo(seq, limit)[i] = seq[i]
BY DEF UpTo

LEMMA UpToCandidates ==
    ASSUME NEW S, NEW seq, Candidates(seq, S), NEW limit \in Nat
    PROVE  Candidates(UpTo(seq, limit), S)
<1> DEFINE kept == UpTo(seq, limit)
<1>1. /\ kept \in Seq(CandidatesIn(S))
      /\ \A i \in DOMAIN kept : i \in DOMAIN seq /\ kept[i] = seq[i]
  BY UpToKeeps DEF Candidates
<1> HIDE DEF kept
<1>2. Candidates(kept, S)
  BY <1>1 DEF Candidates
<1> QED BY <1>2 DEF kept

LEMMA ImageFinite ==
    ASSUME NEW D, IsFiniteSet(D), NEW f
    PROVE  IsFiniteSet({f[n] : n \in D})
<1> DEFINE T == {f[n] : n \in D}
           g == [n \in D |-> f[n]]
<1>1. g \in Surjection(D, T)
  BY DEF Surjection
<1> QED BY <1>1, FS_Surjection

\* A ranking of candidates of S is a list of them.
LEMMA RankedCandidates ==
    ASSUME NEW S, S \subseteq Nat, NEW T, IsFiniteSet(T), T \subseteq CandidatesIn(S),
           \A x, y \in T : x.id = y.id => x = y
    PROVE  /\ Candidates(Ranked(T, ByFinal), S)
           /\ \A i \in DOMAIN Ranked(T, ByFinal) : Ranked(T, ByFinal)[i] \in T
<1> DEFINE r == Ranked(T, ByFinal)
<1>1. ASSUME NEW x \in T PROVE x.final \in Int /\ x.id \in Int
  <2>1. x \in CandidatesIn(S)
    OBVIOUS
  <2>2. x.final \in Int /\ x.id \in S
    BY <2>1 DEF CandidatesIn
  <2>3. x.id \in Nat
    BY <2>2
  <2> QED BY <2>2, <2>3
<1>2. Lists(r, T)
  BY <1>1, RankedByFinal
<1> HIDE DEF r
<1>3. \A i \in DOMAIN r : r[i] \in T
  BY <1>2 DEF Lists
<1>4. r \in Seq(CandidatesIn(S))
  BY <1>2 DEF Lists
<1>5. \A i, j \in DOMAIN r : r[i].id = r[j].id => i = j
  BY <1>2, <1>3 DEF Lists
<1> QED BY <1>3, <1>4, <1>5 DEF Candidates, r

\* full names each candidate of the list once, with the opinion of it.
Covers(full, list, opinion) ==
    LET n == Len(list)
    IN  /\ full \in Seq((1..n) \X Int) /\ Len(full) = n
        /\ \A k \in 1..n : full[k][2] = opinion[list[full[k][1]].id]
        /\ \A i \in 1..n : \E k \in 1..n : full[k][1] = i
        /\ \A k, l \in 1..n : full[k][1] = full[l][1] => k = l

\* The opinion of an endpoint names each candidate once, with what it thinks of it.
LEMMA FullAnswerLists ==
    ASSUME NEW S, NEW list, Candidates(list, S), NEW opinion,
           \A x \in S : opinion[x] \in Int
    PROVE  Covers(FullAnswer(list, opinion), list, opinion)
<1> DEFINE n == Len(list)
           D == 1..n
           Higher(i, j) == \/ opinion[list[i].id] > opinion[list[j].id]
                           \/ opinion[list[i].id] = opinion[list[j].id] /\ i < j
           R == {p \in D \X D : Higher(p[1], p[2])}
           order == Ranked(D, Higher)
<1>1. n \in Nat /\ DOMAIN list = 1..n
  BY DEF Candidates
<1>2. \A i \in 1..n : opinion[list[i].id] \in Int
  <2>1. ASSUME NEW i \in 1..n PROVE list[i].id \in S
    <3>1. list[i] \in CandidatesIn(S)
      BY <1>1 DEF Candidates
    <3> HIDE DEF n
    <3> QED BY <3>1 DEF CandidatesIn
  <2> QED BY <2>1
<1>3. IsFiniteSet(D) /\ Cardinality(D) = n
  <2> HIDE DEF n
  <2>1. IsFiniteSet(D) /\ Cardinality(D) = IF 1 > n THEN 0 ELSE n - 1 + 1
    BY <1>1, FS_Interval
  <2> QED BY <2>1, <1>1
<1>4. \A i, j \in D : <<i, j>> \in R <=> Higher(i, j)
  <2> HIDE DEF n
  <2> QED OBVIOUS
<1> HIDE DEF n, R
<1>D. D = 1..n
  OBVIOUS
<1>5. Orders(R, D)
  <2>1. \A i, j \in D : i # j => (Higher(i, j) <=> ~Higher(j, i))
    BY <1>1, <1>2
  <2>2. \A i, j, k \in D : Higher(i, j) /\ Higher(j, k) => Higher(i, k)
    BY <1>1, <1>2
  <2> HIDE DEF Higher
  <2> QED BY <1>4, <2>1, <2>2 DEF Orders
<1> HIDE DEF D
<1>6. \A i \in D : {j \in D : j # i /\ Higher(j, i)} = Preceding(D, R)[i]
  <2> HIDE DEF Higher
  <2> QED BY <1>4 DEF Preceding
<1>7. \A k \in 1..Cardinality(D) :
          \E i \in D : Cardinality({j \in D : j # i /\ Higher(j, i)}) = k - 1
  <2> SUFFICES ASSUME NEW k \in 1..Cardinality(D)
               PROVE  \E i \in D : Cardinality({j \in D : j # i /\ Higher(j, i)}) = k - 1
    OBVIOUS
  <2> HIDE DEF Higher
  <2>1. PICK i \in D : Cardinality(Preceding(D, R)[i]) = k - 1
    BY <1>3, <1>5, RankExists
  <2>2. {j \in D : j # i /\ Higher(j, i)} = Preceding(D, R)[i]
    BY <1>6
  <2> QED BY <2>1, <2>2
<1>8. /\ order = [k \in 1..Cardinality(D) |-> order[k]]
      /\ \A k \in 1..Cardinality(D) :
            order[k] \in D
            /\ Cardinality({j \in D : j # order[k] /\ Higher(j, order[k])}) = k - 1
  <2> HIDE DEF Higher
  <2> DEFINE ranked(k) ==
          CHOOSE i \in D : Cardinality({j \in D : j # i /\ Higher(j, i)}) = k - 1
  <2>1. order = [k \in 1..Cardinality(D) |-> ranked(k)]
    BY DEF Ranked
  <2>2. ASSUME NEW k \in 1..Cardinality(D)
        PROVE  ranked(k) \in D /\ Cardinality({j \in D : j # ranked(k) /\ Higher(j, ranked(k))}) = k - 1
    BY <1>7
  <2> HIDE DEF ranked
  <2> HIDE DEF order
  <2> QED BY <2>1, <2>2
<1>9. FullAnswer(list, opinion) = [k \in 1..n |-> <<order[k], opinion[list[order[k]].id]>>]
  BY DEF FullAnswer, n, D
<1> HIDE DEF order
<1>10. \A k \in DOMAIN order :
          order[k] \in D /\ Cardinality(Preceding(D, R)[order[k]]) = k - 1
  BY <1>6, <1>8
<1>11. Lists(order, D)
  BY <1>3, <1>5, <1>8, <1>10, RankingLists
<1>12. DOMAIN order = 1..n
  BY <1>3, <1>8
<1> DEFINE full == [k \in 1..n |-> <<order[k], opinion[list[order[k]].id]>>]
<1>13. full \in Seq((1..n) \X Int) /\ Len(full) = n
  <2>1. \A k \in 1..n : full[k] \in (1..n) \X Int
    BY <1>2, <1>3, <1>8, <1>D
  <2> HIDE DEF Higher
  <2> QED BY <2>1, <1>1
<1>14. \A k \in 1..n : full[k][1] = order[k] /\ full[k][2] = opinion[list[order[k]].id]
  OBVIOUS
<1> HIDE DEF full
<1> HIDE DEF Higher
<1>15. ASSUME NEW i \in 1..n PROVE \E k \in 1..n : full[k][1] = i
  <2>1. PICK k \in DOMAIN order : order[k] = i
    BY <1>D, <1>11 DEF Lists
  <2>2. k \in 1..n /\ full[k][1] = i
    BY <2>1, <1>12, <1>14
  <2> QED BY <2>2
<1>16. ASSUME NEW k \in 1..n, NEW l \in 1..n, full[k][1] = full[l][1] PROVE k = l
  <2>1. order[k] = order[l]
    BY <1>14, <1>16
  <2> QED BY <2>1, <1>11, <1>12 DEF Lists
<1>17. \A k \in 1..n : full[k][2] = opinion[list[full[k][1]].id]
  BY <1>14
<1>18. FullAnswer(list, opinion) = full
  BY <1>9 DEF full
<1> QED BY <1>13, <1>15, <1>16, <1>17, <1>18 DEF n, Covers

\* Whatever the endpoint answers, it is refused or each score is of its own candidate.
LEMMA ScoresInOrder ==
    ASSUME NEW S, NEW list, Candidates(list, S), list # <<>>, NEW opinion,
           \A x \in S : opinion[x] \in Int, NEW answer \in Answers(list, opinion),
           NEW scores, scores = ScoresInInputOrder(answer, Len(list)), scores # Failed
    PROVE  ScoresFit(scores, list, opinion)
<1> DEFINE n == Len(list)
           full == FullAnswer(list, opinion)
           double == [full EXCEPT ![n] = <<full[1][1], 10>>]
           Read(a) == ScoresInInputOrder(a, n)
<1>1. n \in Nat \ {0} /\ DOMAIN list = 1..n
  BY EmptySeq DEF Candidates
<1>2. /\ full \in Seq((1..n) \X Int) /\ Len(full) = n
      /\ \A k \in 1..n : full[k][2] = opinion[list[full[k][1]].id]
      /\ \A i \in 1..n : \E k \in 1..n : full[k][1] = i
      /\ \A k, l \in 1..n : full[k][1] = full[l][1] => k = l
  <2>1. Covers(FullAnswer(list, opinion), list, opinion)
    BY FullAnswerLists
  <2> QED BY <2>1 DEF Covers
<1>F. DOMAIN full = 1..n /\ \A k \in 1..n : full[k] \in (1..n) \X Int
  <2> HIDE DEF full, n
  <2> QED BY <1>2, SequenceItems
<1>3. answer \in {full, Front(full), <<>>} \/ (n # 1 /\ answer = double)
  BY DEF Answers
<1> HIDE DEF full, n
<1>4. ASSUME answer = full, Read(answer) # Failed
      PROVE  \A i \in 1..n : Read(answer)[i] = Bounded(opinion[list[i].id])
  <2>1. ASSUME NEW i \in 1..n
        PROVE  LET j == CHOOSE j \in DOMAIN full : full[j][1] = i
               IN  Bounded(full[j][2]) = Bounded(opinion[list[i].id])
    <3>1. \E j \in DOMAIN full : full[j][1] = i
      BY <1>1, <1>2, <1>F
    <3>2. PICK j : j = CHOOSE k \in DOMAIN full : full[k][1] = i
      OBVIOUS
    <3>3. j \in DOMAIN full /\ full[j][1] = i
      BY <3>1, <3>2
    <3>4. j \in 1..n
      BY <3>3, <1>F
    <3>5. full[j][2] = opinion[list[i].id]
      BY <3>3, <3>4, <1>2
    <3> QED BY <3>2, <3>5
  <2>2. Read(answer) = [i \in 1..n |->
                            Bounded(full[CHOOSE j \in DOMAIN full : full[j][1] = i][2])]
    BY <1>4 DEF ScoresInInputOrder
  <2> HIDE DEF Read
  <2> QED BY <2>1, <2>2
<1>5. ASSUME answer = Front(full) \/ answer = <<>> PROVE Read(answer) = Failed
  <2>1. Len(answer) # n
    <3>1. CASE answer = <<>>
      BY <3>1, <1>1, EmptySeq
    <3>2. CASE answer = Front(full)
      <4>1. Front(full) = SubSeq(full, 1, n - 1)
        BY <1>2 DEF Front
      <4>2. Len(SubSeq(full, 1, n - 1)) = n - 1
        BY <1>1, <1>2
      <4> QED BY <3>2, <4>1, <4>2, <1>1
    <3> QED BY <1>5, <3>1, <3>2
  <2> QED BY <2>1 DEF ScoresInInputOrder
<1>6. ASSUME n # 1, answer = double PROVE Read(answer) = Failed
  <2>1. DOMAIN double = 1..n /\ \A k \in 1..n : double[k][1] = IF k = n THEN full[1][1] ELSE full[k][1]
    BY <1>1, <1>2, <1>F
  <2>2. full[n][1] \in 1..n
    <3>1. full[n] \in (1..n) \X Int
      BY <1>1, <1>F
    <3> QED BY <3>1
  <2> HIDE DEF double
  <2>3. \A k \in 1..n : double[k][1] # full[n][1]
    BY <2>1, <1>1, <1>2, <1>6
  <2>4. full[n][1] \notin {answer[k][1] : k \in DOMAIN answer}
    BY <2>1, <2>3, <1>6
  <2>5. {answer[k][1] : k \in DOMAIN answer} # 1..n
    BY <2>2, <2>4
  <2> QED BY <2>5 DEF ScoresInInputOrder
<1> HIDE DEF double
<1>7. scores = Read(answer)
  BY DEF n
<1> HIDE DEF Read
<1>8. answer = full
  BY <1>3, <1>5, <1>6, <1>7
<1> QED BY <1>1, <1>4, <1>7, <1>8 DEF ScoresFit

\* Rescored candidates have the scores of their own, each its own.
LEMMA RescoredCandidates ==
    ASSUME NEW S, S \subseteq Nat, NEW list, Candidates(list, S), NEW opinion,
           \A x \in S : opinion[x] \in Int, NEW scores, ScoresFit(scores, list, opinion)
    PROVE  ScoredAs(Rescored(list, scores), S, TRUE, opinion)
<1> DEFINE f == [i \in DOMAIN list |->
                    [list[i] EXCEPT !.rerank = scores[i],
                                    !.final = FinalScore(list[i].hybrid, scores[i])]]
           T == {f[i] : i \in DOMAIN list}
           r == Ranked(T, ByFinal)
<1>1. list \in Seq(CandidatesIn(S)) /\ IsFiniteSet(DOMAIN list)
  <2>1. list \in Seq(CandidatesIn(S))
    BY DEF Candidates
  <2>2. Len(list) \in Nat /\ DOMAIN list = 1..Len(list)
    BY <2>1
  <2> QED BY <2>1, <2>2, FS_Interval
<1>2. ASSUME NEW i \in DOMAIN list
      PROVE  /\ f[i] \in CandidatesIn(S) /\ f[i].id = list[i].id
             /\ f[i].rerank = Bounded(opinion[list[i].id])
  <2>1. list[i] \in CandidatesIn(S)
    BY <1>1
  <2>2. list[i].id \in S /\ list[i].hybrid \in Int
    BY <2>1 DEF CandidatesIn
  <2>3. scores[i] \in Int
    <3>1. opinion[list[i].id] \in Int
      BY <2>2
    <3> QED BY <3>1, BoundedInt DEF ScoresFit
  <2>4. FinalScore(list[i].hybrid, scores[i]) \in Int
    BY <2>2, <2>3, WeightsAssumption DEF FinalScore
  <2>5. f[i] = [list[i] EXCEPT !.rerank = scores[i],
                               !.final = FinalScore(list[i].hybrid, scores[i])]
    OBVIOUS
  <2> HIDE DEF f
  <2> QED BY <2>1, <2>3, <2>4, <2>5 DEF CandidatesIn, ScoresFit
<1>3. Rescored(list, scores) = r
  <2>1. T = {[list[i] EXCEPT !.rerank = scores[i],
                           !.final = FinalScore(list[i].hybrid, scores[i])] : i \in DOMAIN list}
    OBVIOUS
  <2> HIDE DEF T
  <2> QED BY <2>1 DEF Rescored
<1> HIDE DEF f
<1>4. \A i, j \in DOMAIN list : f[i].id = f[j].id => i = j
  BY <1>2 DEF Candidates
<1>T. T = {f[i] : i \in DOMAIN list}
  OBVIOUS
<1> HIDE DEF T
<1>5. Candidates(r, S) /\ \A k \in DOMAIN r : r[k] \in T
  <2>1. IsFiniteSet(T)
    BY <1>T, <1>1, ImageFinite
  <2>2. T \subseteq CandidatesIn(S)
    BY <1>T, <1>2
  <2>3. \A x, y \in T : x.id = y.id => x = y
    BY <1>T, <1>4
  <2> QED BY <2>1, <2>2, <2>3, RankedCandidates
<1> HIDE DEF r
<1>6. \A k \in DOMAIN r : r[k].rerank = Bounded(opinion[r[k].id])
  BY <1>T, <1>2, <1>5
<1> QED BY <1>3, <1>5, <1>6 DEF ScoredAs

-----------------------------------------------------------------------------
(* Every score is the candidate's own.                                      *)

LEMMA UpToScored ==
    ASSUME NEW list, NEW S, NEW done, NEW opinion, ScoredAs(list, S, done, opinion),
           NEW limit \in Nat
    PROVE  ScoredAs(UpTo(list, limit), S, done, opinion)
<1>1. list \in Seq(CandidatesIn(S))
  BY DEF ScoredAs, Candidates
<1>2. Candidates(UpTo(list, limit), S)
  BY UpToCandidates DEF ScoredAs
<1>3. \A i \in DOMAIN UpTo(list, limit) : i \in DOMAIN list /\ UpTo(list, limit)[i] = list[i]
  BY <1>1, UpToKeeps
<1> QED BY <1>2, <1>3 DEF ScoredAs

LEMMA NoneScored ==
    ASSUME NEW S, NEW done, NEW opinion
    PROVE  ScoredAs(<<>>, S, done, opinion)
BY EmptySeq DEF ScoredAs, Candidates

\* What the channels found, merged and ranked: nothing is scored twice yet.
LEMMA MergedScored ==
    ASSUME NEW S, S \subseteq Nat, NEW T, IsFiniteSet(T),
           \A x \in T : x \in CandidatesIn(S) /\ x.rerank = -1,
           \A x, y \in T : x.id = y.id => x = y, NEW limit \in Nat, NEW opinion
    PROVE  ScoredAs(UpTo(Ranked(T, ByFinal), limit), S, FALSE, opinion)
<1> DEFINE r == Ranked(T, ByFinal)
<1>4. Candidates(r, S) /\ \A i \in DOMAIN r : r[i] \in T
  <2>1. T \subseteq CandidatesIn(S)
    OBVIOUS
  <2> QED BY <2>1, RankedCandidates
<1> HIDE DEF r
<1>5. ScoredAs(r, S, FALSE, opinion)
  BY <1>4 DEF ScoredAs
<1>6. ScoredAs(UpTo(r, limit), S, FALSE, opinion)
  BY <1>5, UpToScored
<1> QED BY <1>6 DEF r

LEMMA SeedsScored ==
    ASSUME NEW S, S \subseteq Nat, IsFiniteSet(S), NEW text, NEW vector, NEW reliable,
           DOMAIN text \cup DOMAIN vector \subseteq S,
           \A n \in DOMAIN text : text[n] \in Int, \A n \in DOMAIN vector : vector[n] \in Int,
           \A n \in S : reliable[n] \in Int, NEW limit \in Nat, NEW opinion
    PROVE  ScoredAs(SeedsOf(text, vector, reliable, limit), S, FALSE, opinion)
<1> DEFINE D == DOMAIN text \cup DOMAIN vector
           Found(f, n) == IF n \in DOMAIN f THEN f[n] ELSE 0
           a(n) == Found(vector, n)
           b(n) == Bounded(Found(text, n))
           OfNode(n) == CandidateOf(n, a(n), b(n), reliable[n],
                            a(n) * Weights.semantic + b(n) * Weights.lexical
                            + reliable[n] * Weights.reliability)
           f == [n \in D |-> OfNode(n)]
           T == {OfNode(n) : n \in D}
<1>1. ASSUME NEW n \in D
      PROVE  f[n] \in CandidatesIn(S) /\ f[n].id = n /\ f[n].rerank = -1
  <2>1. n \in S /\ a(n) \in Int /\ Found(text, n) \in Int /\ reliable[n] \in Int
    <3>1. n \in S
      OBVIOUS
    <3>2. a(n) \in Int /\ Found(text, n) \in Int
      OBVIOUS
    <3> QED BY <3>1, <3>2
  <2>2. b(n) \in Int
    BY <2>1, BoundedInt
  <2>3. f[n] = OfNode(n)
    OBVIOUS
  <2>4. Weights.semantic \in Nat /\ Weights.lexical \in Nat /\ Weights.reliability \in Nat
    BY WeightsAssumption
  <2> HIDE DEF D, f, a, b
  <2>5. a(n) * Weights.semantic + b(n) * Weights.lexical + reliable[n] * Weights.reliability \in Int
    BY <2>1, <2>2, <2>4
  <2>6. OfNode(n) \in CandidatesIn(S) /\ OfNode(n).id = n /\ OfNode(n).rerank = -1
    BY <2>1, <2>2, <2>5 DEF CandidateOf, CandidatesIn, FinalScore
  <2> QED BY <2>3, <2>6
<1>2. IsFiniteSet(D)
  <2> HIDE DEF D
  <2>1. D \in SUBSET S
    BY DEF D
  <2> QED BY <2>1, FS_Subset
<1>3. T = {f[n] : n \in D}
  <2> HIDE DEF D, OfNode
  <2> QED OBVIOUS
<1>4. SeedsOf(text, vector, reliable, limit) = UpTo(Ranked(T, ByFinal), limit)
  BY DEF SeedsOf
<1> HIDE DEF D, f, T
<1>5. ScoredAs(UpTo(Ranked(T, ByFinal), limit), S, FALSE, opinion)
  <2>1. IsFiniteSet(T)
    BY <1>2, <1>3, ImageFinite
  <2>2. \A x \in T : x \in CandidatesIn(S) /\ x.rerank = -1
    BY <1>1, <1>3
  <2>3. \A x, y \in T : x.id = y.id => x = y
    BY <1>1, <1>3
  <2> QED BY <2>1, <2>2, <2>3, MergedScored
<1> QED BY <1>4, <1>5

LEMMA ChunksScored ==
    ASSUME NEW S, S \subseteq Nat, IsFiniteSet(S), NEW text, NEW vector, NEW authority \in Int,
           DOMAIN text \cup DOMAIN vector \subseteq S,
           \A n \in DOMAIN text : text[n] \in Int, \A n \in DOMAIN vector : vector[n] \in Int,
           NEW limit \in Nat, NEW opinion
    PROVE  ScoredAs(ChunksFound(text, vector, authority, limit), S, FALSE, opinion)
<1> DEFINE D == DOMAIN text \cup DOMAIN vector
           Found(f, n) == IF n \in DOMAIN f THEN f[n] ELSE 0
           a(n) == Found(vector, n)
           b(n) == Bounded(Found(text, n))
           OfNode(n) == CandidateOf(n, a(n), b(n), authority,
                            a(n) * ChunkWeights.semantic + b(n) * ChunkWeights.lexical
                            + authority * ChunkWeights.authority)
           f == [n \in D |-> OfNode(n)]
           T == {OfNode(n) : n \in D}
<1>1. ASSUME NEW n \in D
      PROVE  f[n] \in CandidatesIn(S) /\ f[n].id = n /\ f[n].rerank = -1
  <2>1. n \in S /\ a(n) \in Int /\ Found(text, n) \in Int
    OBVIOUS
  <2>2. b(n) \in Int
    BY <2>1, BoundedInt
  <2>3. f[n] = OfNode(n)
    OBVIOUS
  <2>4. /\ ChunkWeights.semantic \in Nat /\ ChunkWeights.lexical \in Nat
        /\ ChunkWeights.authority \in Nat
    BY WeightsAssumption
  <2> HIDE DEF D, f, a, b
  <2>5. a(n) * ChunkWeights.semantic + b(n) * ChunkWeights.lexical
        + authority * ChunkWeights.authority \in Int
    BY <2>1, <2>2, <2>4
  <2>6. OfNode(n) \in CandidatesIn(S) /\ OfNode(n).id = n /\ OfNode(n).rerank = -1
    BY <2>1, <2>2, <2>5 DEF CandidateOf, CandidatesIn, FinalScore
  <2> QED BY <2>3, <2>6
<1>2. IsFiniteSet(D)
  <2> HIDE DEF D
  <2>1. D \in SUBSET S
    BY DEF D
  <2> QED BY <2>1, FS_Subset
<1>3. T = {f[n] : n \in D}
  <2> HIDE DEF D, OfNode
  <2> QED OBVIOUS
<1>4. ChunksFound(text, vector, authority, limit) = UpTo(Ranked(T, ByFinal), limit)
  BY DEF ChunksFound
<1> HIDE DEF D, f, T
<1>5. ScoredAs(UpTo(Ranked(T, ByFinal), limit), S, FALSE, opinion)
  <2>1. IsFiniteSet(T)
    BY <1>2, <1>3, ImageFinite
  <2>2. \A x \in T : x \in CandidatesIn(S) /\ x.rerank = -1
    BY <1>1, <1>3
  <2>3. \A x, y \in T : x.id = y.id => x = y
    BY <1>1, <1>3
  <2> QED BY <2>1, <2>2, <2>3, MergedScored
<1> QED BY <1>4, <1>5

\* An answer that is not refused gives each candidate the score meant for it.
LEMMA RescoredScored ==
    ASSUME NEW S, S \subseteq Nat, NEW list, Candidates(list, S), list # <<>>, NEW opinion,
           \A x \in S : opinion[x] \in Int, NEW answer \in Answers(list, opinion),
           ScoresInInputOrder(answer, Len(list)) # Failed, NEW limit \in Nat
    PROVE  ScoredAs(UpTo(Rescored(list, ScoresInInputOrder(answer, Len(list))), limit),
                    S, TRUE, opinion)
<1> DEFINE scores == ScoresInInputOrder(answer, Len(list))
           kept == Rescored(list, scores)
<1>1. ScoresFit(scores, list, opinion)
  BY ScoresInOrder
<1> HIDE DEF scores
<1>2. ScoredAs(kept, S, TRUE, opinion)
  BY <1>1, RescoredCandidates
<1> HIDE DEF kept
<1>3. ScoredAs(UpTo(kept, limit), S, TRUE, opinion)
  BY <1>2, UpToScored
<1> QED BY <1>3 DEF kept, scores

SeedIds == (DOMAIN world.lexical \cup DOMAIN world.semantic) \cap (Base \cup CaseNodes)
ChunkIds == (DOMAIN world.found \cup DOMAIN world.near) \cap 1..Len(imported)

\* Seeds and chunks are candidates all through, scored when their second stage is over.
ScoresInv ==
    /\ world \in Worlds /\ cases \subseteq CaseNodes
    /\ scored \in [seeds : BOOLEAN, chunks : BOOLEAN]
    /\ (scored.seeds \/ scored.chunks) => reranks
    /\ DOMAIN lexical \subseteq SeedIds /\ \A n \in DOMAIN lexical : lexical[n] \in Int
    /\ ScoredAs(seeds, SeedIds, scored.seeds, world.rerank)
    /\ ScoredAs(chunks, ChunkIds, scored.chunks, world.reranked)
    /\ phase \in {"embed", "lexical", "vector", "rerank"} => ~scored.seeds
    /\ phase \notin {"bundle", "done", "failed"} => ~scored.chunks

LEMMA WorldFacts ==
    ASSUME world \in Worlds
    PROVE  /\ SeedIds \subseteq Nat /\ ChunkIds \subseteq Nat
           /\ IsFiniteSet(SeedIds) /\ IsFiniteSet(ChunkIds)
           /\ \A n \in SeedIds : world.rerank[n] \in Int /\ Reliability[n] \in Int
           /\ \A n \in ChunkIds : world.reranked[n] \in Int
<1>1. ChunkIds \subseteq Nat /\ \A n \in ChunkIds : world.reranked[n] \in Int
  BY RetrievalAssumption DEF ChunkIds
<1>2. /\ SeedIds \subseteq Nat
      /\ \A n \in SeedIds : world.rerank[n] \in Int /\ Reliability[n] \in Int
  BY RetrievalAssumption DEF SeedIds
<1>3. IsFiniteSet(SeedIds)
  <2>1. IsFiniteSet(DOMAIN world.lexical \cup DOMAIN world.semantic)
    BY RetrievalAssumption
  <2>2. SeedIds \in SUBSET (DOMAIN world.lexical \cup DOMAIN world.semantic)
    BY DEF SeedIds
  <2> QED BY <2>1, <2>2, FS_Subset
<1>4. IsFiniteSet(ChunkIds)
  <2>1. IsFiniteSet(DOMAIN world.found \cup DOMAIN world.near)
    BY RetrievalAssumption
  <2>2. ChunkIds \in SUBSET (DOMAIN world.found \cup DOMAIN world.near)
    BY DEF ChunkIds
  <2> QED BY <2>1, <2>2, FS_Subset
<1> QED BY <1>1, <1>2, <1>3, <1>4

LEMMA LimitFacts ==
    SeedLimit \in Nat /\ ChunkLimit \in Nat /\ SeedCandidates \in Nat /\ ChunkCandidates \in Nat
<1>1. /\ SeedLimit \in Nat /\ ChunkLimit \in Nat
      /\ SeedLimit * Multiplier \in Nat /\ ChunkLimit * Multiplier \in Nat /\ MostCandidates \in Nat
  BY RetrievalAssumption
<1> QED BY <1>1 DEF SeedCandidates, ChunkCandidates, CandidateLimit

\* The best of what a channel found is part of it.
LEMMA BestIsPart ==
    ASSUME NEW f, NEW S, NEW limit, \A n \in DOMAIN f : f[n] \in Int
    PROVE  LET best == Best(Restricted(f, S), limit)
           IN  /\ DOMAIN best \subseteq DOMAIN f \cap S
               /\ \A n \in DOMAIN best : best[n] \in Int
<1> DEFINE g == Restricted(f, S)
<1>1. DOMAIN g = DOMAIN f \cap S /\ \A n \in DOMAIN g : g[n] \in Int
  BY DEF Restricted
<1> HIDE DEF g
<1>2. PICK T : Best(g, limit) = Restricted(g, T)
  BY DEF Best
<1>3. DOMAIN Restricted(g, T) \subseteq DOMAIN g /\ \A n \in DOMAIN Restricted(g, T) : Restricted(g, T)[n] = g[n]
  BY DEF Restricted
<1> QED BY <1>1, <1>2, <1>3 DEF g

\* The second stage of either service.
LEMMA StageScored ==
    ASSUME NEW S, S \subseteq Nat, NEW list, NEW opinion, \A x \in S : opinion[x] \in Int,
           ScoredAs(list, S, FALSE, opinion), NEW limit \in Nat, NEW kept, NEW done,
           \/ ~done /\ (kept = UpTo(list, limit) \/ kept = list)
           \/ /\ done /\ list # <<>>
              /\ \E answer \in Answers(list, opinion) :
                    /\ ScoresInInputOrder(answer, Len(list)) # Failed
                    /\ kept = UpTo(Rescored(list, ScoresInInputOrder(answer, Len(list))), limit)
    PROVE  ScoredAs(kept, S, done, opinion)
<1>1. CASE ~done
  <2>1. ScoredAs(kept, S, FALSE, opinion)
    BY <1>1, UpToScored
  <2> QED BY <2>1, <1>1 DEF ScoredAs
<1>2. CASE done
  <2>1. PICK answer \in Answers(list, opinion) :
            /\ ScoresInInputOrder(answer, Len(list)) # Failed
            /\ kept = UpTo(Rescored(list, ScoresInInputOrder(answer, Len(list))), limit)
    BY <1>2
  <2>2. Candidates(list, S)
    BY DEF ScoredAs
  <2>3. ScoredAs(kept, S, TRUE, opinion)
    BY <1>2, <2>1, <2>2, RescoredScored
  <2> QED BY <2>3, <1>2 DEF ScoredAs
<1> QED BY <1>1, <1>2

LEMMA ScoresStep ==
    ScoresInv /\ [RetrievalNext]_retrievalVars => ScoresInv'
<1> SUFFICES ASSUME ScoresInv, [RetrievalNext]_retrievalVars PROVE ScoresInv'
  OBVIOUS
<1> USE DEF Kept, Alone, Goes, Fails
<1>A. ASSUME UNCHANGED <<world, imported, lexical, seeds, chunks, scored, reranks, cases>>,
             /\ phase' \in {"embed", "lexical", "vector", "rerank"} =>
                    phase \in {"embed", "lexical", "vector", "rerank"}
             /\ phase' \notin {"bundle", "done", "failed"} => phase \notin {"bundle", "done", "failed"}
      PROVE  ScoresInv'
  BY <1>A DEF ScoresInv, SeedIds, ChunkIds
<1>1. CASE Embedded
  BY <1>1, <1>A DEF Embedded
<1>2. CASE SearchedLexical
  <2>1. /\ DOMAIN lexical' \subseteq DOMAIN world.lexical \cap Nodes
        /\ \A n \in DOMAIN lexical' : lexical'[n] \in Int
    <3>1. \A n \in DOMAIN world.lexical : world.lexical[n] \in Int
      BY RetrievalAssumption DEF ScoresInv
    <3>2. lexical' = Best(Restricted(world.lexical, Nodes), SeedCandidates)
      BY <1>2 DEF SearchedLexical
    <3> QED BY <3>1, <3>2, BestIsPart
  <2>2. Nodes \subseteq Base \cup CaseNodes
    BY DEF Nodes, ScoresInv
  <2>3. DOMAIN lexical' \subseteq SeedIds
    BY <2>1, <2>2 DEF SeedIds
  <2>4. /\ UNCHANGED <<world, imported, seeds, chunks, scored, reranks, cases>>
        /\ phase = "lexical" /\ phase' = "vector"
    BY <1>2 DEF SearchedLexical
  <2> QED BY <2>1, <2>3, <2>4 DEF ScoresInv, SeedIds, ChunkIds
<1>3. CASE SearchedVector
  <2>1. /\ UNCHANGED <<world, imported, lexical, chunks, scored, reranks, cases>>
        /\ phase = "vector" /\ phase' = "rerank"
    BY <1>3 DEF SearchedVector
  <2> DEFINE vector == Best(Restricted(world.semantic, Nodes), SeedCandidates)
  <2>2. /\ DOMAIN vector \subseteq DOMAIN world.semantic \cap Nodes
        /\ \A n \in DOMAIN vector : vector[n] \in Int
    <3>1. \A n \in DOMAIN world.semantic : world.semantic[n] \in Int
      BY RetrievalAssumption DEF ScoresInv
    <3> QED BY <3>1, BestIsPart
  <2>3. Nodes \subseteq Base \cup CaseNodes
    BY DEF Nodes, ScoresInv
  <2>4. seeds' = SeedsOf(lexical, vector, Reliability, SeedCandidates)
    BY <1>3 DEF SearchedVector
  <2> HIDE DEF vector
  <2>5. DOMAIN lexical \cup DOMAIN vector \subseteq SeedIds
    BY <2>2, <2>3 DEF ScoresInv, SeedIds
  <2>6. ScoredAs(seeds', SeedIds, FALSE, world.rerank)
    <3>1. /\ SeedIds \subseteq Nat /\ IsFiniteSet(SeedIds)
          /\ \A n \in SeedIds : Reliability[n] \in Int
      BY WorldFacts DEF ScoresInv
    <3>2. \A n \in DOMAIN lexical : lexical[n] \in Int
      BY DEF ScoresInv
    <3> QED BY <2>2, <2>4, <2>5, <3>1, <3>2, LimitFacts, SeedsScored
  <2>7. ~scored.seeds
    BY <2>1 DEF ScoresInv
  <2>8. ScoredAs(seeds', SeedIds, scored.seeds, world.rerank)
    BY <2>6, <2>7 DEF ScoredAs
  <2> QED BY <2>1, <2>7, <2>8 DEF ScoresInv, SeedIds, ChunkIds
<1>4. CASE RerankedSeeds
  <2>1. /\ UNCHANGED <<world, imported, lexical, chunks, reranks, cases>>
        /\ phase = "rerank" /\ phase' \in {"rows", "failed"}
    BY <1>4 DEF RerankedSeeds, SecondStage
  <2>2. ~scored.seeds /\ ~scored.chunks
    BY <2>1 DEF ScoresInv
  <2>3. \/ scored' = scored /\ (seeds' = UpTo(seeds, SeedLimit) \/ seeds' = seeds)
        \/ /\ scored' = [scored EXCEPT !.seeds = TRUE] /\ reranks /\ seeds # <<>>
           /\ \E answer \in Answers(seeds, world.rerank) :
                 /\ ScoresInInputOrder(answer, Len(seeds)) # Failed
                 /\ seeds' = UpTo(Rescored(seeds, ScoresInInputOrder(answer, Len(seeds))), SeedLimit)
    <3>1. SecondStage(seeds, world.rerank, seeds, scored, "rows", SeedLimit)
      BY <1>4 DEF RerankedSeeds
    <3>2. CASE ~reranks \/ seeds = <<>>
      BY <3>1, <3>2 DEF SecondStage
    <3>3. CASE reranks /\ seeds # <<>>
      <4>1. PICK answer \in Answers(seeds, world.rerank) :
                LET scores == ScoresInInputOrder(answer, Len(seeds))
                IN  \/ /\ scores # Failed
                       /\ seeds' = UpTo(Rescored(seeds, scores), SeedLimit)
                       /\ scored' = [scored EXCEPT !.seeds = TRUE]
                    \/ seeds' = UpTo(seeds, SeedLimit) /\ scored' = scored
                    \/ seeds' = seeds /\ scored' = scored
        <5> HIDE DEF Goes, Fails
        <5> QED BY <3>1, <3>3 DEF SecondStage
      <4> QED BY <3>3, <4>1
    <3> QED BY <3>2, <3>3
  <2>4. /\ scored' \in [seeds : BOOLEAN, chunks : BOOLEAN] /\ scored'.chunks = scored.chunks
        /\ scored' = scored => ~scored'.seeds
        /\ scored' = [scored EXCEPT !.seeds = TRUE] => scored'.seeds
    BY <2>2, <2>3 DEF ScoresInv
  <2>5. ScoredAs(seeds, SeedIds, FALSE, world.rerank)
    BY <2>2 DEF ScoresInv, ScoredAs
  <2>6. ScoredAs(seeds', SeedIds, scored'.seeds, world.rerank)
    <3>1. SeedIds \subseteq Nat /\ \A n \in SeedIds : world.rerank[n] \in Int
      BY WorldFacts DEF ScoresInv
    <3> QED BY <2>3, <2>4, <2>5, <3>1, LimitFacts, StageScored
  <2>7. (scored.seeds \/ scored.chunks)' => reranks
    BY <2>2, <2>3, <2>4
  <2> QED BY <2>1, <2>2, <2>4, <2>6, <2>7 DEF ScoresInv, SeedIds, ChunkIds
<1>5. CASE ReadRows
  BY <1>5, <1>A DEF ReadRows
<1>6. CASE LoadedNodes
  BY <1>6, <1>A DEF LoadedNodes
<1>7. CASE LoadedEdges
  BY <1>7, <1>A DEF LoadedEdges
<1>8. CASE GraphDone
  BY <1>8, <1>A DEF GraphDone
<1>9. CASE SearchedChunks
  <2>1. /\ UNCHANGED <<world, imported, lexical, seeds, scored, reranks, cases>>
        /\ phase = "chunks" /\ phase' = "rerankChunks"
    BY <1>9 DEF SearchedChunks
  <2> DEFINE there == 1..Len(imported)
             found == Restricted(world.found, there)
             near == Restricted(world.near, there)
  <2>2. /\ DOMAIN found \cup DOMAIN near \subseteq ChunkIds
        /\ \A n \in DOMAIN found : found[n] \in Int
        /\ \A n \in DOMAIN near : near[n] \in Int
    BY RetrievalAssumption DEF ScoresInv, Restricted, ChunkIds
  <2>3. chunks' = ChunksFound(found, near, Authority, ChunkCandidates)
    BY <1>9 DEF SearchedChunks
  <2> HIDE DEF found, near
  <2>4. ScoredAs(chunks', ChunkIds, FALSE, world.reranked)
    <3>1. ChunkIds \subseteq Nat /\ IsFiniteSet(ChunkIds)
      BY WorldFacts DEF ScoresInv
    <3> QED BY <2>2, <2>3, <3>1, LimitFacts, RetrievalAssumption, ChunksScored
  <2>5. ~scored.chunks
    BY <2>1 DEF ScoresInv
  <2>6. ScoredAs(chunks', ChunkIds, scored.chunks, world.reranked)
    BY <2>4, <2>5 DEF ScoredAs
  <2> QED BY <2>1, <2>5, <2>6 DEF ScoresInv, SeedIds, ChunkIds
<1>10. CASE RerankedChunks
  <2>1. /\ UNCHANGED <<world, imported, lexical, seeds, reranks, cases>>
        /\ phase = "rerankChunks" /\ phase' \in {"bundle", "failed"}
    BY <1>10 DEF RerankedChunks, SecondStage
  <2>2. ~scored.chunks
    BY <2>1 DEF ScoresInv
  <2>3. \/ scored' = scored /\ (chunks' = UpTo(chunks, ChunkLimit) \/ chunks' = chunks)
        \/ /\ scored' = [scored EXCEPT !.chunks = TRUE] /\ reranks /\ chunks # <<>>
           /\ \E answer \in Answers(chunks, world.reranked) :
                 /\ ScoresInInputOrder(answer, Len(chunks)) # Failed
                 /\ chunks' = UpTo(Rescored(chunks, ScoresInInputOrder(answer, Len(chunks))), ChunkLimit)
    <3>1. SecondStage(chunks, world.reranked, chunks, scored, "bundle", ChunkLimit)
      BY <1>10 DEF RerankedChunks
    <3>2. CASE ~reranks \/ chunks = <<>>
      BY <3>1, <3>2 DEF SecondStage
    <3>3. CASE reranks /\ chunks # <<>>
      <4>1. PICK answer \in Answers(chunks, world.reranked) :
                LET scores == ScoresInInputOrder(answer, Len(chunks))
                IN  \/ /\ scores # Failed
                       /\ chunks' = UpTo(Rescored(chunks, scores), ChunkLimit)
                       /\ scored' = [scored EXCEPT !.chunks = TRUE]
                    \/ chunks' = UpTo(chunks, ChunkLimit) /\ scored' = scored
                    \/ chunks' = chunks /\ scored' = scored
        <5> HIDE DEF Goes, Fails
        <5> QED BY <3>1, <3>3 DEF SecondStage
      <4> QED BY <3>3, <4>1
    <3> QED BY <3>2, <3>3
  <2>4. /\ scored' \in [seeds : BOOLEAN, chunks : BOOLEAN] /\ scored'.seeds = scored.seeds
        /\ scored' = scored => ~scored'.chunks
        /\ scored' = [scored EXCEPT !.chunks = TRUE] => scored'.chunks
    BY <2>2, <2>3 DEF ScoresInv
  <2>5. ScoredAs(chunks, ChunkIds, FALSE, world.reranked)
    BY <2>2 DEF ScoresInv, ScoredAs
  <2>6. ScoredAs(chunks', ChunkIds, scored'.chunks, world.reranked)
    <3>1. ChunkIds \subseteq Nat /\ \A n \in ChunkIds : world.reranked[n] \in Int
      BY WorldFacts DEF ScoresInv
    <3> QED BY <2>3, <2>4, <2>5, <3>1, LimitFacts, StageScored
  <2>7. (scored.seeds \/ scored.chunks)' => reranks
    BY <2>3, <2>4 DEF ScoresInv
  <2> QED BY <2>1, <2>4, <2>6, <2>7 DEF ScoresInv, SeedIds, ChunkIds
<1>11. CASE Bundled
  BY <1>11, <1>A DEF Bundled
<1>12. CASE \E c \in CaseNodes : CaseChanges(c)
  BY <1>12 DEF CaseChanges, ScoresInv, SeedIds, ChunkIds
<1>13. CASE UNCHANGED retrievalVars
  BY <1>13, <1>A DEF retrievalVars
<1> QED BY <1>1, <1>2, <1>3, <1>4, <1>5, <1>6, <1>7, <1>8, <1>9, <1>10, <1>11, <1>12, <1>13
        DEF RetrievalNext

\* What ScoresInv says holds all through.
LEMMA ScoresAlways == RetrievalSpec => []ScoresInv
<1>1. RetrievalInit => ScoresInv
  <2> SUFFICES ASSUME RetrievalInit PROVE ScoresInv
    OBVIOUS
  <2>1. DOMAIN lexical = {}
    BY EmptySeq DEF RetrievalInit
  <2>2. /\ ScoredAs(seeds, SeedIds, scored.seeds, world.rerank)
        /\ ScoredAs(chunks, ChunkIds, scored.chunks, world.reranked)
    BY NoneScored DEF RetrievalInit
  <2> QED BY <2>1, <2>2 DEF RetrievalInit, ScoresInv
<1>2. ScoresInv /\ [RetrievalNext]_retrievalVars => ScoresInv'
  BY ScoresStep
<1> QED BY <1>1, <1>2, PTL DEF RetrievalSpec

\* For every knowledge graph, every document and every endpoint: a score of the second
\* stage is the candidate's own, whatever the order and whatever the faults of the answer.
THEOREM ScoresStayWithTheirItem == RetrievalSpec => []ScoresBelongToTheirItem
<1>1. ScoresInv => ScoresBelongToTheirItem
  BY DEF ScoresInv, ScoresBelongToTheirItem, ScoredAs, Items
<1> QED BY <1>1, ScoresAlways, PTL

-----------------------------------------------------------------------------
(* Sums and selections that go through a sequence from left to right.       *)

\* f is what comes of start after each of n steps.
StepsFrom(f, step, start, n) ==
    f[0] = start /\ \A i \in 1..n : f[i] = step[<<f[i - 1], i>>]

LEMMA StepsExist ==
    ASSUME NEW n \in Nat, NEW K, NEW start \in K, NEW step,
           \A k \in K, i \in 1..n : step[<<k, i>>] \in K
    PROVE  \E f \in [0..n -> K] : StepsFrom(f, step, start, n)
<1> DEFINE P(m) == \E f \in [0..m -> K] : StepsFrom(f, step, start, m)
           S == {m \in 0..n : P(m)}
<1>1. P(0)
  <2> DEFINE f == [i \in 0..0 |-> start]
  <2>1. f \in [0..0 -> K] /\ f[0] = start
    OBVIOUS
  <2> HIDE DEF f
  <2> QED BY <2>1 DEF StepsFrom
<1>2. ASSUME NEW m \in 0..(n - 1), P(m) PROVE P(m + 1)
  <2>1. PICK f \in [0..m -> K] : StepsFrom(f, step, start, m)
    BY <1>2
  <2> DEFINE g == [i \in 0..(m + 1) |-> IF i = m + 1 THEN step[<<f[m], m + 1>>] ELSE f[i]]
  <2>2. f[m] \in K /\ step[<<f[m], m + 1>>] \in K
    BY <2>1
  <2>3. g \in [0..(m + 1) -> K] /\ \A i \in 0..m : g[i] = f[i]
    BY <2>1, <2>2
  <2>4. g[m + 1] = step[<<g[m], m + 1>>]
    BY <2>3
  <2> HIDE DEF g
  <2>5. ASSUME NEW i \in 1..(m + 1) PROVE g[i] = step[<<g[i - 1], i>>]
    <3>1. CASE i = m + 1
      BY <3>1, <2>4
    <3>2. CASE i \in 1..m
      <4>1. i - 1 \in 0..m /\ i \in 0..m
        BY <3>2
      <4>2. f[i] = step[<<f[i - 1], i>>]
        BY <2>1, <3>2 DEF StepsFrom
      <4> QED BY <4>1, <4>2, <2>3
    <3> QED BY <3>1, <3>2
  <2>6. g[0] = start
    BY <2>1, <2>3 DEF StepsFrom
  <2> QED BY <2>3, <2>5, <2>6 DEF StepsFrom
<1>3. \A m \in 0..n : m \in S
  <2>1. 0 \in S /\ \A m \in 0..(n - 1) : m \in S => m + 1 \in S
    <3> HIDE DEF P
    <3> QED BY <1>1, <1>2
  <2> HIDE DEF S
  <2> QED BY <2>1, InductionUpTo
<1>4. P(n)
  BY <1>3
<1> QED BY <1>4

\* The sum of numbers, as TotalLength forms it.
Sums(f, lengths) ==
    /\ f \in [0..Len(lengths) -> Int] /\ f[0] = 0
    /\ \A i \in 1..Len(lengths) : f[i] = f[i - 1] + lengths[i]

LEMMA SumsExist ==
    ASSUME NEW lengths \in Seq(Int)
    PROVE  \E f : Sums(f, lengths) /\ TotalLength(lengths) = f[Len(lengths)]
<1> DEFINE n == Len(lengths)
           step == [p \in Int \X (1..n) |-> p[1] + lengths[p[2]]]
<1>1. n \in Nat /\ \A i \in 1..n : lengths[i] \in Int
  OBVIOUS
<1> HIDE DEF n
<1>2. \A k \in Int, i \in 1..n : step[<<k, i>>] = k + lengths[i] /\ step[<<k, i>>] \in Int
  BY <1>1
<1> HIDE DEF step
<1>3. PICK g \in [0..n -> Int] : StepsFrom(g, step, 0, n)
  <2> DEFINE K == Int
             zero == 0
  <2>1. zero \in K /\ \A k \in K, i \in 1..n : step[<<k, i>>] \in K
    BY <1>2
  <2> HIDE DEF K, zero
  <2>2. \E g \in [0..n -> K] : StepsFrom(g, step, zero, n)
    BY <1>1, <2>1, StepsExist
  <2> QED BY <2>2 DEF K, zero
<1>4. g[0] = 0 /\ \A i \in 1..n : g[i] = g[i - 1] + lengths[i]
  <2>1. g[0] = 0
    BY <1>3 DEF StepsFrom
  <2>2. ASSUME NEW i \in 1..n PROVE g[i] = g[i - 1] + lengths[i]
    <3>1. i - 1 \in 0..n
      BY <1>1
    <3>2. g[i - 1] \in Int /\ g[i] = step[<<g[i - 1], i>>]
      BY <1>3, <3>1 DEF StepsFrom
    <3> QED BY <3>2, <1>2
  <2> QED BY <2>1, <2>2
<1>5. g = [i \in 0..n |-> IF i = 0 THEN 0 ELSE g[i - 1] + lengths[i]]
  BY <1>1, <1>4
<1> DEFINE R(f) == f = [i \in 0..n |-> IF i = 0 THEN 0 ELSE f[i - 1] + lengths[i]]
           f == CHOOSE f : R(f)
<1>6. R(f)
  <2>1. \E h : R(h)
    BY <1>5
  <2> HIDE DEF R
  <2> QED BY <2>1
<1>7. TotalLength(lengths) = f[n]
  BY DEF TotalLength, n
<1> HIDE DEF f
<1>8. f[0] = 0 /\ \A i \in 1..n : f[i] = f[i - 1] + lengths[i]
  BY <1>1, <1>6
<1>9. \A i \in 0..n : f[i] \in Int
  <2> DEFINE S == {i \in 0..n : f[i] \in Int}
  <2>1. 0 \in S
    BY <1>1, <1>8
  <2>3. ASSUME NEW i \in 0..(n - 1), i \in S PROVE i + 1 \in S
    <3>1. i + 1 \in 1..n /\ i + 1 \in 0..n /\ i + 1 - 1 = i /\ f[i] \in Int
      BY <1>1, <2>3
    <3>2. f[i + 1] = f[i] + lengths[i + 1]
      BY <3>1, <1>8
    <3> QED BY <3>1, <3>2, <1>1
  <2> HIDE DEF S
  <2>2. \A i \in 0..n : i \in S
    BY <1>1, <2>1, <2>3, InductionUpTo
  <2> QED BY <2>2 DEF S
<1>10. f \in [0..n -> Int]
  BY <1>6, <1>9
<1>12. Sums(f, lengths)
  BY <1>8, <1>10 DEF Sums, n
<1> QED BY <1>7, <1>12 DEF n

\* A part more makes the whole longer by its length.
LEMMA TotalAppend ==
    ASSUME NEW lengths \in Seq(Int), NEW x \in Int
    PROVE  /\ TotalLength(lengths) \in Int
           /\ TotalLength(Append(lengths, x)) = TotalLength(lengths) + x
<1> DEFINE n == Len(lengths)
           more == Append(lengths, x)
<1>1. /\ n \in Nat /\ more \in Seq(Int) /\ Len(more) = n + 1
      /\ more[n + 1] = x /\ \A i \in 1..n : more[i] = lengths[i]
  OBVIOUS
<1> HIDE DEF more
<1>2. PICK f : Sums(f, lengths) /\ TotalLength(lengths) = f[n]
  BY SumsExist
<1>3. PICK g : Sums(g, more) /\ TotalLength(more) = g[n + 1]
  BY <1>1, SumsExist
<1> HIDE DEF n
<1>F. f[0] = 0 /\ (\A i \in 1..n : f[i] = f[i - 1] + lengths[i]) /\ \A i \in 0..n : f[i] \in Int
  BY <1>2 DEF Sums, n
<1>G. g[0] = 0 /\ \A i \in 1..(n + 1) : g[i] = g[i - 1] + more[i]
  BY <1>1, <1>3 DEF Sums
<1>4. \A i \in 0..n : f[i] = g[i]
  <2> DEFINE S == {i \in 0..n : f[i] = g[i]}
  <2>1. 0 \in S
    BY <1>1, <1>F, <1>G
  <2>2. ASSUME NEW i \in 0..(n - 1), i \in S PROVE i + 1 \in S
    <3>1. i + 1 \in 1..n /\ i + 1 \in 1..(n + 1) /\ i + 1 - 1 = i
      BY <1>1
    <3>2. f[i + 1] = f[i] + lengths[i + 1] /\ g[i + 1] = g[i] + lengths[i + 1]
      BY <3>1, <1>1, <1>F, <1>G
    <3>3. f[i] = g[i]
      BY <2>2
    <3> QED BY <3>1, <3>2, <3>3
  <2> HIDE DEF S
  <2>3. \A i \in 0..n : i \in S
    BY <1>1, <2>1, <2>2, InductionUpTo
  <2> QED BY <2>3 DEF S
<1>5. g[n + 1] = g[n] + x
  BY <1>1, <1>G
<1>6. f[n] = g[n] /\ f[n] \in Int
  BY <1>1, <1>4, <1>F
<1> QED BY <1>2, <1>3, <1>5, <1>6 DEF more

LEMMA TotalEmpty == TotalLength(<<>>) = 0
<1>1. <<>> \in Seq(Int) /\ Len(<<>>) = 0
  OBVIOUS
<1>2. PICK f : Sums(f, <<>>) /\ TotalLength(<<>>) = f[0]
  BY <1>1, SumsExist
<1> QED BY <1>2 DEF Sums

-----------------------------------------------------------------------------
(* Sequences put one after another.                                         *)

\* Every two items of seq, or every two neighbours, are in R.
InOrder(seq, R) == \A i, j \in DOMAIN seq : i < j => <<seq[i], seq[j]>> \in R
Linked(seq, R) == \A i \in 1..(Len(seq) - 1) : <<seq[i], seq[i + 1]>> \in R

Joins(g, list) ==
    /\ g[0] = <<>>
    /\ \A i \in 1..Len(list) : g[i] = g[i - 1] \o list[i]

LEMMA FlattenIs ==
    ASSUME NEW T, NEW list \in Seq(Seq(T))
    PROVE  \E g \in [0..Len(list) -> Seq(T)] :
              Joins(g, list) /\ FlattenSeq(list) = g[Len(list)]
<1> DEFINE n == Len(list)
           K == Seq(T)
           start == <<>>
           step == [p \in K \X (1..n) |-> p[1] \o list[p[2]]]
<1>1. n \in Nat /\ (\A i \in 1..n : list[i] \in K) /\ start \in K
  OBVIOUS
<1>2. \A k \in K, i \in 1..n : step[<<k, i>>] = k \o list[i] /\ step[<<k, i>>] \in K
  <2> TAKE k \in K, i \in 1..n
  <2>1. list[i] \in Seq(T) /\ k \in Seq(T)
    BY <1>1
  <2>2. k \o list[i] \in Seq(T)
    BY <2>1
  <2> QED BY <2>2
<1> HIDE DEF n, K, start, step
<1>3. PICK g \in [0..n -> K] : StepsFrom(g, step, start, n)
  BY <1>1, <1>2, StepsExist
<1>4. g[0] = <<>> /\ \A i \in 1..n : g[i] = g[i - 1] \o list[i]
  <2>1. g[0] = <<>>
    BY <1>3 DEF StepsFrom, start
  <2>2. ASSUME NEW i \in 1..n PROVE g[i] = g[i - 1] \o list[i]
    <3>1. i - 1 \in 0..n
      BY <1>1
    <3>2. g[i - 1] \in K /\ g[i] = step[<<g[i - 1], i>>]
      BY <1>3, <3>1 DEF StepsFrom
    <3> QED BY <3>2, <1>2
  <2> QED BY <2>1, <2>2
<1>5. FlattenSeq(list) = g[n]
  <2>1. CASE n = 0
    <3>1. FlattenSeq(list) = list
      BY <2>1 DEF FlattenSeq, n
    <3>2. list = <<>>
      BY <2>1 DEF n
    <3> QED BY <3>1, <3>2, <2>1, <1>4
  <2>2. CASE n > 0
    <3> DEFINE R(f) == f = [i \in 1..n |-> IF i = 1 THEN list[i] ELSE f[i - 1] \o list[i]]
               f == CHOOSE f : R(f)
               h == [i \in 1..n |-> g[i]]
    <3>1. h[1] = list[1]
      <4>1. 1 \in 1..n /\ 1 - 1 = 0
        BY <1>1, <2>2
      <4>2. g[1] = <<>> \o list[1]
        BY <4>1, <1>4
      <4>3. list[1] \in Seq(T)
        BY <4>1, <1>1 DEF K
      <4> QED BY <4>1, <4>2, <4>3
    <3>2. \A i \in 1..n : i # 1 => h[i] = h[i - 1] \o list[i]
      <4> TAKE i \in 1..n
      <4> HAVE i # 1
      <4>1. i - 1 \in 1..n
        BY <1>1
      <4> QED BY <4>1, <1>4
    <3>3. R(h)
      <4>1. \A i \in 1..n : h[i] = IF i = 1 THEN list[i] ELSE h[i - 1] \o list[i]
        BY <3>1, <3>2
      <4>2. h = [i \in 1..n |-> h[i]]
        OBVIOUS
      <4> HIDE DEF h
      <4> QED BY <4>1, <4>2
    <3>4. R(f)
      <4>1. \E x : R(x)
        BY <3>3
      <4> HIDE DEF R
      <4> QED BY <4>1
    <3>5. FlattenSeq(list) = f[n]
      <4>1. Len(list) # 0
        BY <2>2 DEF n
      <4> QED BY <4>1 DEF FlattenSeq, n
    <3> HIDE DEF f, h
    <3>6. \A i \in 1..n : f[i] = IF i = 1 THEN list[i] ELSE f[i - 1] \o list[i]
      BY <3>4
    <3> DEFINE S == {i \in 0..n : i = 0 \/ f[i] = h[i]}
    <3>7. 0 \in S
      BY <1>1
    <3>8. ASSUME NEW i \in 0..(n - 1), i \in S PROVE i + 1 \in S
      <4>1. i + 1 \in 1..n /\ i + 1 \in 0..n /\ i + 1 - 1 = i
        BY <1>1
      <4>2. CASE i = 0
        <5>1. f[1] = list[1]
          BY <4>1, <4>2, <3>6
        <5> QED BY <5>1, <3>1, <4>1, <4>2
      <4>3. CASE i # 0
        <5>1. f[i] = h[i] /\ i + 1 # 1
          BY <4>3, <3>8
        <5>2. PICK j \in 1..n : j = i + 1
          BY <4>1
        <5>3. j # 1 /\ j - 1 = i
          BY <5>1, <5>2, <4>1
        <5>4. f[j] = f[j - 1] \o list[j] /\ h[j] = h[j - 1] \o list[j]
          BY <5>3, <3>2, <3>6
        <5> QED BY <5>1, <5>2, <5>3, <5>4, <4>1
      <4> QED BY <4>2, <4>3
    <3> HIDE DEF S
    <3>9. \A i \in 0..n : i \in S
      BY <1>1, <3>7, <3>8, InductionUpTo
    <3>10. n \in 0..n /\ n \in 1..n
      BY <1>1, <2>2
    <3>11. f[n] = h[n]
      BY <3>9, <3>10, <2>2 DEF S
    <3> QED BY <3>5, <3>11, <3>10 DEF h
  <2> QED BY <1>1, <2>1, <2>2
<1>6. g \in [0..Len(list) -> Seq(T)] /\ Joins(g, list)
  BY <1>3, <1>4 DEF Joins, n, K
<1> QED BY <1>5, <1>6 DEF n

\* Two sequences one after the other.
LEMMA ConcatItems ==
    ASSUME NEW T, NEW s \in Seq(T), NEW t \in Seq(T)
    PROVE  /\ s \o t \in Seq(T)
           /\ Items(s \o t) = Items(s) \cup Items(t)
           /\ Len(s \o t) = Len(s) + Len(t)
           /\ \A i \in 1..Len(s) : (s \o t)[i] = s[i]
           /\ \A i \in 1..Len(t) : (s \o t)[Len(s) + i] = t[i]
<1> DEFINE m == Len(s)
           n == Len(t)
           st == s \o t
<1>1. /\ m \in Nat /\ n \in Nat /\ st \in Seq(T) /\ Len(st) = m + n
      /\ DOMAIN s = 1..m /\ DOMAIN t = 1..n /\ DOMAIN st = 1..(m + n)
      /\ \A i \in 1..(m + n) : st[i] = IF i <= m THEN s[i] ELSE t[i - m]
  OBVIOUS
<1> HIDE DEF m, n, st
<1>2. \A i \in 1..m : st[i] = s[i] /\ i \in DOMAIN st
  BY <1>1
<1>3. \A i \in 1..n : st[m + i] = t[i] /\ m + i \in DOMAIN st
  <2> TAKE i \in 1..n
  <2>1. m + i \in 1..(m + n) /\ ~(m + i <= m) /\ m + i - m = i
    BY <1>1
  <2>2. st[m + i] = t[m + i - m]
    BY <2>1, <1>1
  <2> QED BY <2>1, <2>2, <1>1
<1>4. \A x \in Items(st) : x \in Items(s) \cup Items(t)
  <2> TAKE x \in Items(st)
  <2>1. PICK i \in 1..(m + n) : x = st[i]
    BY <1>1 DEF Items
  <2>2. CASE i <= m
    <3>1. i \in 1..m /\ st[i] = s[i]
      BY <2>2, <1>1
    <3> QED BY <3>1, <2>1, <1>1 DEF Items
  <2>3. CASE i > m
    <3>1. i - m \in 1..n /\ st[i] = t[i - m]
      BY <2>3, <1>1
    <3> QED BY <3>1, <2>1, <1>1 DEF Items
  <2> QED BY <2>2, <2>3, <1>1
<1>5. \A x \in Items(s) \cup Items(t) : x \in Items(st)
  <2> TAKE x \in Items(s) \cup Items(t)
  <2>1. CASE x \in Items(s)
    <3>1. PICK i \in 1..m : x = s[i]
      BY <2>1, <1>1 DEF Items
    <3> QED BY <3>1, <1>2 DEF Items
  <2>2. CASE x \in Items(t)
    <3>1. PICK i \in 1..n : x = t[i]
      BY <2>2, <1>1 DEF Items
    <3>2. st[m + i] = x /\ m + i \in DOMAIN st
      BY <3>1, <1>3
    <3> QED BY <3>2 DEF Items
  <2> QED BY <2>1, <2>2
<1> QED BY <1>1, <1>2, <1>3, <1>4, <1>5 DEF m, n, st

LEMMA ConcatInOrder ==
    ASSUME NEW T, NEW s \in Seq(T), NEW t \in Seq(T), NEW R, InOrder(s, R), InOrder(t, R),
           \A x \in Items(s), y \in Items(t) : <<x, y>> \in R
    PROVE  InOrder(s \o t, R)
<1> DEFINE m == Len(s)
           n == Len(t)
           st == s \o t
<1>1. /\ m \in Nat /\ n \in Nat /\ st \in Seq(T) /\ Len(st) = m + n
      /\ DOMAIN s = 1..m /\ DOMAIN t = 1..n /\ DOMAIN st = 1..(m + n)
      /\ \A i \in 1..(m + n) : st[i] = IF i <= m THEN s[i] ELSE t[i - m]
  OBVIOUS
<1> HIDE DEF m, n, st
<1>2. ASSUME NEW i \in 1..(m + n), NEW j \in 1..(m + n), i < j
      PROVE  <<st[i], st[j]>> \in R
  <2>1. CASE j <= m
    <3>1. i \in 1..m /\ j \in 1..m /\ st[i] = s[i] /\ st[j] = s[j]
      BY <2>1, <1>1, <1>2
    <3> QED BY <3>1, <1>1, <1>2 DEF InOrder
  <2>2. CASE i > m
    <3>1. m \in Nat /\ n \in Nat /\ i > m /\ j > m
      BY <2>2, <1>1, <1>2
    <3>2. i - m \in 1..n /\ j - m \in 1..n /\ i - m < j - m /\ ~(i <= m) /\ ~(j <= m)
      BY <3>1, <1>2
    <3>3. st[i] = t[i - m] /\ st[j] = t[j - m]
      BY <3>2, <1>1
    <3> QED BY <3>2, <3>3, <1>1 DEF InOrder
  <2>3. CASE i <= m /\ j > m
    <3>1. i \in 1..m /\ j - m \in 1..n /\ st[i] = s[i] /\ st[j] = t[j - m]
      BY <2>3, <1>1, <1>2
    <3>2. st[i] \in Items(s) /\ st[j] \in Items(t)
      BY <3>1, <1>1 DEF Items
    <3> QED BY <3>2
  <2> QED BY <2>1, <2>2, <2>3, <1>1
<1>3. InOrder(st, R)
  BY <1>1, <1>2 DEF InOrder
<1> QED BY <1>3 DEF st

LEMMA ConcatLinked ==
    ASSUME NEW T, NEW s \in Seq(T), NEW t \in Seq(T), NEW R, Linked(s, R), Linked(t, R),
           \A x \in Items(s), y \in Items(t) : <<x, y>> \in R
    PROVE  Linked(s \o t, R)
<1> DEFINE m == Len(s)
           n == Len(t)
           st == s \o t
<1>1. /\ m \in Nat /\ n \in Nat /\ st \in Seq(T) /\ Len(st) = m + n
      /\ DOMAIN s = 1..m /\ DOMAIN t = 1..n /\ DOMAIN st = 1..(m + n)
      /\ \A i \in 1..(m + n) : st[i] = IF i <= m THEN s[i] ELSE t[i - m]
      /\ (\A i \in 1..(m - 1) : <<s[i], s[i + 1]>> \in R)
      /\ (\A i \in 1..(n - 1) : <<t[i], t[i + 1]>> \in R)
  BY DEF Linked
<1> HIDE DEF m, n, st
<1>2. ASSUME NEW i \in 1..(m + n - 1) PROVE <<st[i], st[i + 1]>> \in R
  <2>1. CASE i < m
    <3>1. i \in 1..(m - 1) /\ st[i] = s[i] /\ st[i + 1] = s[i + 1]
      BY <2>1, <1>1
    <3> QED BY <3>1, <1>1
  <2>2. CASE i > m
    <3>1. m \in Nat /\ n \in Nat
      BY <1>1
    <3>2. /\ i - m \in 1..(n - 1) /\ i + 1 - m = i - m + 1 /\ i + 1 \in 1..(m + n)
          /\ ~(i <= m) /\ ~(i + 1 <= m) /\ i \in 1..(m + n)
      BY <3>1, <2>2
    <3>3. st[i] = t[i - m] /\ st[i + 1] = t[i + 1 - m]
      BY <3>2, <1>1
    <3>4. <<t[i - m], t[i - m + 1]>> \in R
      BY <3>2, <1>1
    <3> QED BY <3>2, <3>3, <3>4
  <2>3. CASE i = m
    <3>1. i \in 1..m /\ 1 \in 1..n /\ i + 1 - m = 1 /\ st[i] = s[i] /\ st[i + 1] = t[i + 1 - m]
      BY <2>3, <1>1
    <3>2. st[i] \in Items(s) /\ st[i + 1] \in Items(t)
      BY <3>1, <1>1 DEF Items
    <3> QED BY <3>2
  <2> QED BY <2>1, <2>2, <2>3, <1>1
<1>3. Linked(st, R)
  BY <1>1, <1>2 DEF Linked
<1> QED BY <1>3 DEF st

LEMMA FlattenItems ==
    ASSUME NEW T, NEW list \in Seq(Seq(T))
    PROVE  /\ FlattenSeq(list) \in Seq(T)
           /\ Items(FlattenSeq(list)) = UNION {Items(list[k]) : k \in DOMAIN list}
<1> DEFINE n == Len(list)
<1>1. n \in Nat /\ DOMAIN list = 1..n /\ \A i \in 1..n : list[i] \in Seq(T)
  OBVIOUS
<1>2. PICK g \in [0..n -> Seq(T)] : Joins(g, list) /\ FlattenSeq(list) = g[n]
  BY FlattenIs
<1>3. g[0] = <<>> /\ \A i \in 1..n : g[i] = g[i - 1] \o list[i]
  BY <1>2 DEF Joins
<1> HIDE DEF n
<1> DEFINE Upto(i) == UNION {Items(list[k]) : k \in 1..i}
           S == {i \in 0..n : Items(g[i]) = Upto(i)}
<1>4. 0 \in S
  <2>1. Items(<<>>) = {}
    BY DEF Items
  <2>2. Upto(0) = {}
    OBVIOUS
  <2> QED BY <2>1, <2>2, <1>1, <1>3
<1>5. ASSUME NEW i \in 0..(n - 1), i \in S PROVE i + 1 \in S
  <2>1. PICK j \in 1..n : j = i + 1
    BY <1>1
  <2>2. j - 1 = i /\ i \in 0..n /\ j \in 0..n
    BY <2>1, <1>1
  <2>3. g[j] = g[i] \o list[j]
    BY <2>2, <1>3
  <2>4. Items(g[j]) = Items(g[i]) \cup Items(list[j])
    BY <2>2, <2>3, <1>1, <1>2, ConcatItems
  <2>5. Items(g[i]) = Upto(i)
    BY <1>5
  <2>6. 1..j = (1..i) \cup {j}
    BY <2>1
  <2>7. Upto(j) = Upto(i) \cup Items(list[j])
    BY <2>6
  <2> QED BY <2>1, <2>2, <2>4, <2>5, <2>7
<1> HIDE DEF S
<1>6. \A i \in 0..n : i \in S
  BY <1>1, <1>4, <1>5, InductionUpTo
<1>7. n \in 0..n
  BY <1>1
<1>8. Items(g[n]) = Upto(n) /\ g[n] \in Seq(T)
  BY <1>2, <1>6, <1>7 DEF S
<1> QED BY <1>1, <1>2, <1>8

\* What holds within and across the parts holds of the whole.
LEMMA FlattenOrdered ==
    ASSUME NEW T, NEW list \in Seq(Seq(T)), NEW R,
           \A j, k \in DOMAIN list : j < k =>
              \A x \in Items(list[j]), y \in Items(list[k]) : <<x, y>> \in R
    PROVE  /\ (\A k \in DOMAIN list : InOrder(list[k], R)) => InOrder(FlattenSeq(list), R)
           /\ (\A k \in DOMAIN list : Linked(list[k], R)) => Linked(FlattenSeq(list), R)
<1> DEFINE n == Len(list)
<1>1. n \in Nat /\ DOMAIN list = 1..n /\ \A i \in 1..n : list[i] \in Seq(T)
  OBVIOUS
<1>2. PICK g \in [0..n -> Seq(T)] : Joins(g, list) /\ FlattenSeq(list) = g[n]
  BY FlattenIs
<1>3. g[0] = <<>> /\ \A i \in 1..n : g[i] = g[i - 1] \o list[i]
  BY <1>2 DEF Joins
<1> HIDE DEF n
<1> DEFINE Ordered == \A k \in 1..n : InOrder(list[k], R)
           Chained == \A k \in 1..n : Linked(list[k], R)
           Upto(i) == \A x \in Items(g[i]) : \E k \in 1..i : x \in Items(list[k])
           S == {i \in 0..n : /\ Upto(i)
                              /\ Ordered => InOrder(g[i], R)
                              /\ Chained => Linked(g[i], R)}
<1>4. 0 \in S
  <2>1. Items(g[0]) = {} /\ InOrder(g[0], R) /\ Linked(g[0], R)
    BY <1>3 DEF Items, InOrder, Linked
  <2> QED BY <2>1, <1>1
<1>5. ASSUME NEW i \in 0..(n - 1), i \in S PROVE i + 1 \in S
  <2>1. PICK j \in 1..n : j = i + 1
    BY <1>1
  <2>2. j - 1 = i /\ i \in 0..n /\ j \in 0..n
    BY <2>1, <1>1
  <2>3. g[j] = g[i] \o list[j] /\ g[i] \in Seq(T) /\ list[j] \in Seq(T)
    BY <2>2, <1>1, <1>2, <1>3
  <2>4. Items(g[j]) = Items(g[i]) \cup Items(list[j])
    BY <2>3, ConcatItems
  <2>5. Upto(i)
    BY <1>5
  <2>6. \A x \in Items(g[i]), y \in Items(list[j]) : <<x, y>> \in R
    <3> TAKE x \in Items(g[i]), y \in Items(list[j])
    <3>1. PICK k \in 1..i : x \in Items(list[k])
      BY <2>5
    <3>2. k \in 1..n /\ k < j
      BY <2>1, <2>2, <3>1, <1>1
    <3> QED BY <3>1, <3>2, <1>1
  <2>7. Upto(j)
    <3> TAKE x \in Items(g[j])
    <3>1. CASE x \in Items(g[i])
      <4>1. PICK k \in 1..i : x \in Items(list[k])
        BY <2>5, <3>1
      <4>2. k \in 1..j
        BY <2>1
      <4> QED BY <4>1, <4>2
    <3>2. CASE x \in Items(list[j])
      BY <3>2, <2>1
    <3> QED BY <3>1, <3>2, <2>4
  <2>8. Ordered => InOrder(g[j], R)
    BY <1>5, <2>3, <2>6, ConcatInOrder
  <2>9. Chained => Linked(g[j], R)
    BY <1>5, <2>3, <2>6, ConcatLinked
  <2> HIDE DEF Ordered, Chained, Upto
  <2> QED BY <2>1, <2>2, <2>7, <2>8, <2>9
<1> HIDE DEF S
<1>6. \A i \in 0..n : i \in S
  BY <1>1, <1>4, <1>5, InductionUpTo
<1>7. n \in 0..n
  BY <1>1
<1>8. (Ordered => InOrder(g[n], R)) /\ (Chained => Linked(g[n], R))
  BY <1>6, <1>7 DEF S
<1> QED BY <1>1, <1>2, <1>8

-----------------------------------------------------------------------------
(* Lengths.                                                                 *)

\* The parts of a line are at least a character and at most a chunk long.
LEMMA PartFacts ==
    ASSUME NEW n \in Nat \ {0}
    PROVE  /\ Parts(n) \in Nat \ {0}
           /\ \A p \in 1..Parts(n) : PartLength(n, p) \in 1..MaxChars
           /\ n <= MaxChars => Parts(n) = 1 /\ PartLength(n, 1) = n
<1> DEFINE m == MaxChars
           q == (n + m - 1) \div m
<1>1. m \in Nat /\ m > 0 /\ n \in Nat /\ n > 0
  BY MaxCharsAssumption
<1> HIDE DEF m
<1>2. q \in Int /\ m * q <= n + m - 1 /\ n + m - 1 < m * q + m
  BY <1>1
<1> HIDE DEF q
<1>3. q > 0
  <2>1. CASE q <= 0
    <3>1. m * q <= 0
      BY <2>1, <1>1, <1>2
    <3> QED BY <3>1, <1>1, <1>2
  <2> QED BY <2>1, <1>2
<1>4. m * (q - 1) = m * q - m
  BY <1>1, <1>2
<1>5. n - (q - 1) * m \in 1..m
  <2>1. (q - 1) * m = m * q - m
    BY <1>1, <1>2
  <2>2. (q - 1) * m \in Int /\ m * q \in Int
    BY <1>1, <1>2
  <2> QED BY <2>1, <2>2, <1>1, <1>2
<1>6. n <= m => q = 1
  <2> SUFFICES ASSUME n <= m, q >= 2 PROVE FALSE
    BY <1>2, <1>3
  <2>1. m * q >= m * 2
    BY <1>1, <1>2
  <2>2. m * q \in Int
    BY <1>1, <1>2
  <2> QED BY <2>1, <2>2, <1>1, <1>2
<1>7. Parts(n) = q
  BY DEF Parts, q, m
<1>8. \A p \in 1..q : PartLength(n, p) = IF p < q THEN m ELSE n - (p - 1) * m
  BY <1>7 DEF PartLength, m
<1>9. \A p \in 1..q : PartLength(n, p) \in 1..m
  <2> TAKE p \in 1..q
  <2>1. CASE p < q
    BY <2>1, <1>1, <1>8
  <2>2. CASE p = q
    BY <2>2, <1>5, <1>8
  <2> QED BY <2>1, <2>2, <1>2
<1>10. n <= m => PartLength(n, 1) = n
  <2> HAVE n <= m
  <2>1. q = 1 /\ 1 \in 1..q
    BY <1>6
  <2>2. PartLength(n, 1) = n - (1 - 1) * m
    BY <2>1, <1>8
  <2> QED BY <2>2, <1>1
<1> QED BY <1>2, <1>3, <1>6, <1>7, <1>9, <1>10 DEF m

\* The parts of a line make the line.
LEMMA PartsMakeTheLine ==
    ASSUME NEW n \in Nat \ {0}
    PROVE  TotalLength([p \in 1..Parts(n) |-> PartLength(n, p)]) = n
<1> DEFINE m == MaxChars
           q == Parts(n)
           s == [p \in 1..q |-> PartLength(n, p)]
<1>1. m \in Nat /\ q \in Nat \ {0} /\ \A p \in 1..q : PartLength(n, p) \in 1..m
  BY PartFacts, MaxCharsAssumption
<1>2. \A p \in 1..q : s[p] = IF p < q THEN m ELSE n - (p - 1) * m
  BY DEF PartLength
<1>3. s \in Seq(Int) /\ Len(s) = q
  <2>1. s \in [1..q -> Int]
    BY <1>1
  <2> HIDE DEF s, q, m
  <2> QED BY <2>1, <1>1
<1> HIDE DEF m, q, s
<1>4. PICK f : Sums(f, s) /\ TotalLength(s) = f[q]
  BY <1>3, SumsExist
<1>5. f[0] = 0 /\ \A i \in 1..q : f[i] = f[i - 1] + s[i]
  BY <1>3, <1>4 DEF Sums
<1> DEFINE S == {i \in 0..q : i < q => f[i] = i * m}
<1>6. 0 \in S
  BY <1>1, <1>5
<1>7. ASSUME NEW i \in 0..(q - 1), i \in S PROVE i + 1 \in S
  <2>1. PICK j \in 1..q : j = i + 1 /\ j - 1 = i /\ j \in 0..q
    BY <1>1
  <2>2. CASE j < q
    <3>1. f[i] = i * m /\ f[j] = f[i] + m
      <4>1. f[i] = i * m
        <5>1. i < q => f[i] = i * m
          BY <1>7
        <5>2. i < q
          BY <2>1, <2>2, <1>1
        <5> QED BY <5>1, <5>2
      <4>2. s[j] = m
        BY <2>2, <1>2
      <4>3. f[j] = f[j - 1] + s[j]
        BY <1>5
      <4> QED BY <4>1, <4>2, <4>3, <2>1
    <3>2. j * m = i * m + m
      BY <2>1, <1>1
    <3> QED BY <2>1, <3>1, <3>2
  <2>3. CASE ~(j < q)
    BY <2>1, <2>3
  <2> QED BY <2>2, <2>3
<1> HIDE DEF S
<1>8. \A i \in 0..q : i \in S
  BY <1>1, <1>6, <1>7, InductionUpTo
<1>9. PICK l \in 0..q : l = q - 1
  BY <1>1
<1>10. f[l] = l * m
  BY <1>1, <1>8, <1>9 DEF S
<1>11. f[q] = f[l] + (n - l * m)
  <2>1. q \in 1..q
    BY <1>1
  <2> QED BY <2>1, <1>2, <1>5, <1>9
<1>12. l * m \in Int
  BY <1>1
<1> QED BY <1>4, <1>10, <1>11, <1>12 DEF s, q

\* How much a piece adds to a text, at its place.
Adds(paper, text, i) ==
    PartLength(paper[text[i][1]][2], text[i][2])
      + (IF i = 1 THEN 0 ELSE Apart(paper, text[i - 1], text[i]))

LEMMA PieceFacts ==
    ASSUME NEW paper \in Seq(Line), NEW x \in AllPieces(paper)
    PROVE  /\ x[1] \in 1..Len(paper) /\ paper[x[1]][1] = "text"
           /\ x[2] \in 1..Parts(paper[x[1]][2]) /\ x = <<x[1], x[2]>>
           /\ paper[x[1]][2] \in Nat \ {0}
           /\ PartLength(paper[x[1]][2], x[2]) \in 1..MaxChars
<1>1. PICK i \in {j \in DOMAIN paper : paper[j][1] = "text"} : x \in {i} \X (1..Parts(paper[i][2]))
  BY DEF AllPieces
<1>2. i \in 1..Len(paper) /\ paper[i] \in Line
  BY <1>1
<1>3. paper[i][1] = "text" /\ paper[i][2] \in Nat \ {0}
  BY <1>1, <1>2 DEF Line
<1>4. PICK p \in 1..Parts(paper[i][2]) : x = <<i, p>>
  BY <1>1
<1>5. PartLength(paper[i][2], p) \in 1..MaxChars
  BY <1>3, <1>4, PartFacts
<1> QED BY <1>2, <1>3, <1>4, <1>5

LEMMA AddsFacts ==
    ASSUME NEW paper \in Seq(Line), NEW text \in Seq(AllPieces(paper))
    PROVE  /\ [i \in DOMAIN text |-> Adds(paper, text, i)] \in Seq(Int)
           /\ \A i \in 1..Len(text) : Adds(paper, text, i) \in Nat \ {0}
           /\ SizeOf(paper, text) = TotalLength([i \in DOMAIN text |-> Adds(paper, text, i)])
<1>1. \A i \in 1..Len(text) : Adds(paper, text, i) \in Nat \ {0}
  <2> TAKE i \in 1..Len(text)
  <2>1. text[i] \in AllPieces(paper)
    OBVIOUS
  <2>2. PICK a : a = PartLength(paper[text[i][1]][2], text[i][2])
    OBVIOUS
  <2>3. a \in 1..MaxChars
    BY <2>1, <2>2, PieceFacts
  <2>4. PICK b : b = IF i = 1 THEN 0 ELSE Apart(paper, text[i - 1], text[i])
    OBVIOUS
  <2>5. b \in Nat
    BY <2>4 DEF Apart
  <2>6. Adds(paper, text, i) = a + b
    BY <2>2, <2>4 DEF Adds
  <2> QED BY <2>3, <2>5, <2>6, MaxCharsAssumption
<1>2. [i \in DOMAIN text |-> Adds(paper, text, i)] \in Seq(Int)
  <2>1. DOMAIN text = 1..Len(text) /\ Len(text) \in Nat
    OBVIOUS
  <2>2. \A i \in 1..Len(text) : Adds(paper, text, i) \in Int
    BY <1>1
  <2>3. [i \in 1..Len(text) |-> Adds(paper, text, i)] \in [1..Len(text) -> Int]
    BY <2>2
  <2> QED BY <2>1, <2>3
<1>3. SizeOf(paper, text) = TotalLength([i \in DOMAIN text |-> Adds(paper, text, i)])
  BY DEF SizeOf, Adds
<1> QED BY <1>1, <1>2, <1>3

\* One piece, and one piece more.
LEMMA SizeAppend ==
    ASSUME NEW paper \in Seq(Line), NEW text \in Seq(AllPieces(paper)), NEW x \in AllPieces(paper)
    PROVE  /\ SizeOf(paper, text) \in Int
           /\ SizeOf(paper, Append(text, x)) =
                SizeOf(paper, text) + PartLength(paper[x[1]][2], x[2])
                  + (IF text = <<>> THEN 0 ELSE Apart(paper, text[Len(text)], x))
<1> DEFINE n == Len(text)
           more == Append(text, x)
           a == [i \in DOMAIN text |-> Adds(paper, text, i)]
           b == [i \in DOMAIN more |-> Adds(paper, more, i)]
           y == Adds(paper, more, n + 1)
<1>1. /\ n \in Nat /\ more \in Seq(AllPieces(paper)) /\ Len(more) = n + 1
      /\ more[n + 1] = x /\ (\A i \in 1..n : more[i] = text[i])
      /\ DOMAIN text = 1..n /\ DOMAIN more = 1..(n + 1)
      /\ (text = <<>>) = (n = 0)
  OBVIOUS
<1>2. a \in Seq(Int) /\ SizeOf(paper, text) = TotalLength(a)
  BY AddsFacts
<1>3. b \in Seq(Int) /\ SizeOf(paper, more) = TotalLength(b) /\ y \in Int
  <2>1. b \in Seq(Int) /\ SizeOf(paper, more) = TotalLength(b)
    BY <1>1, AddsFacts
  <2>2. n + 1 \in 1..Len(more)
    BY <1>1
  <2>3. y \in Nat \ {0}
    BY <1>1, <2>2, AddsFacts
  <2> QED BY <2>1, <2>3
<1> HIDE DEF n, more
<1>4. b = Append(a, y)
  <2>1. ASSUME NEW i \in 1..n PROVE Adds(paper, more, i) = Adds(paper, text, i)
    <3>1. more[i] = text[i] /\ (i # 1 => more[i - 1] = text[i - 1])
      <4>1. i # 1 => i - 1 \in 1..n
        BY <1>1
      <4> QED BY <4>1, <1>1
    <3> QED BY <3>1 DEF Adds
  <2>2. Len(a) = n /\ Len(b) = n + 1
    <3>1. DOMAIN a = 1..n /\ DOMAIN b = 1..(n + 1)
      BY <1>1
    <3> HIDE DEF a, b
    <3> QED BY <3>1, <1>1, <1>2, <1>3, LenProperties
  <2>3. \A i \in 1..n : b[i] = a[i]
    BY <1>1, <2>1
  <2>4. b[n + 1] = y
    BY <1>1
  <2> HIDE DEF a, b, y
  <2>5. /\ Append(a, y) \in Seq(Int) /\ Len(Append(a, y)) = n + 1
        /\ (\A i \in 1..n : Append(a, y)[i] = a[i]) /\ Append(a, y)[n + 1] = y
    BY <1>2, <1>3, <2>2
  <2>6. \A i \in 1..(n + 1) : b[i] = Append(a, y)[i]
    <3> TAKE i \in 1..(n + 1)
    <3>1. i \in 1..n \/ i = n + 1
      BY <1>1
    <3> QED BY <3>1, <2>3, <2>4, <2>5
  <2> QED BY <1>3, <2>2, <2>5, <2>6, SeqEqual
<1> HIDE DEF a, b
<1>5. TotalLength(a) \in Int /\ TotalLength(b) = TotalLength(a) + y
  <2> HIDE DEF y
  <2> QED BY <1>2, <1>3, <1>4, TotalAppend
<1>6. y = PartLength(paper[x[1]][2], x[2])
            + (IF text = <<>> THEN 0 ELSE Apart(paper, text[n], x))
  <2>1. CASE n = 0
    BY <2>1, <1>1 DEF Adds
  <2>2. CASE n # 0
    <3>1. n + 1 # 1 /\ n + 1 - 1 = n /\ more[n] = text[n] /\ text # <<>>
      BY <2>2, <1>1
    <3> QED BY <3>1, <1>1 DEF Adds
  <2> QED BY <2>1, <2>2
<1> DEFINE pl == PartLength(paper[x[1]][2], x[2])
           gap == IF text = <<>> THEN 0 ELSE Apart(paper, text[n], x)
<1>7. pl \in Int /\ gap \in Int
  <2>1. pl \in 1..MaxChars
    BY PieceFacts
  <2>2. gap \in Int
    BY DEF Apart
  <2> QED BY <2>1, <2>2
<1>8. y = pl + gap
  BY <1>6
<1>9. SizeOf(paper, more) = TotalLength(a) + pl + gap
  <2> HIDE DEF y, pl, gap
  <2> QED BY <1>3, <1>5, <1>7, <1>8
<1>10. SizeOf(paper, text) \in Int /\ SizeOf(paper, more) = SizeOf(paper, text) + pl + gap
  BY <1>2, <1>5, <1>9
<1> QED BY <1>10 DEF more, n

\* The text up to its k-th piece, and one piece further.
LEMMA PrefixGrows ==
    ASSUME NEW T, NEW s \in Seq(T), NEW k \in 1..Len(s)
    PROVE  /\ SubSeq(s, 1, k - 1) \in Seq(T)
           /\ SubSeq(s, 1, k) = Append(SubSeq(s, 1, k - 1), s[k])
           /\ Len(SubSeq(s, 1, k)) = k
<1>1. Len(s) \in Nat /\ s[k] \in T
  OBVIOUS
<1>2. SubSeq(s, 1, k - 1) \in Seq(T) /\ SubSeq(s, 1, k) \in Seq(T)
      /\ Len(SubSeq(s, 1, k - 1)) = k - 1 /\ Len(SubSeq(s, 1, k)) = k
  OBVIOUS
<1>3. \A i \in 1..k : SubSeq(s, 1, k)[i] = s[i]
  OBVIOUS
<1>4. \A i \in 1..(k - 1) : SubSeq(s, 1, k - 1)[i] = s[i]
  OBVIOUS
<1> DEFINE p == SubSeq(s, 1, k - 1)
           q == SubSeq(s, 1, k)
<1> HIDE DEF p, q
<1>5. Append(p, s[k]) \in Seq(T) /\ Len(Append(p, s[k])) = k
      /\ (\A i \in 1..(k - 1) : Append(p, s[k])[i] = p[i]) /\ Append(p, s[k])[k] = s[k]
  BY <1>1, <1>2 DEF p
<1>6. \A i \in 1..k : q[i] = Append(p, s[k])[i]
  <2> TAKE i \in 1..k
  <2>1. i \in 1..(k - 1) \/ i = k
    BY <1>1
  <2> QED BY <2>1, <1>3, <1>4, <1>5 DEF p, q
<1>7. q = Append(p, s[k])
  BY <1>2, <1>5, <1>6, SeqEqual DEF q
<1> QED BY <1>2, <1>7 DEF p, q

\* Two texts with what keeps them apart.
LEMMA SizeConcat ==
    ASSUME NEW paper \in Seq(Line), NEW a \in Seq(AllPieces(paper)), NEW b \in Seq(AllPieces(paper)),
           a # <<>>, b # <<>>
    PROVE  /\ SizeOf(paper, a) \in Int /\ SizeOf(paper, b) \in Int
           /\ SizeOf(paper, a \o b) =
                SizeOf(paper, a) + Apart(paper, a[Len(a)], b[1]) + SizeOf(paper, b)
<1> DEFINE T == AllPieces(paper)
           n == Len(a)
           m == Len(b)
           sub(k) == SubSeq(b, 1, k)
           g == Apart(paper, a[n], b[1])
           pl(x) == PartLength(paper[x[1]][2], x[2])
           S == {k \in 0..m : k = 0 \/ SizeOf(paper, a \o sub(k)) = SizeOf(paper, a) + g + SizeOf(paper, sub(k))}
<1>1. n \in Nat /\ m \in Nat /\ m >= 1 /\ n >= 1 /\ \A k \in 1..m : b[k] \in T
  OBVIOUS
<1>2. g \in Int
  BY DEF Apart
<1>3. SizeOf(paper, a) \in Int /\ SizeOf(paper, b) \in Int /\ b[1] \in T
  <2>1. b[1] \in T
    BY <1>1
  <2> QED BY <2>1, SizeAppend
<1>4. SizeOf(paper, <<>>) = 0
  <2>1. <<>> \in Seq(T)
    OBVIOUS
  <2>2. SizeOf(paper, <<>>) = TotalLength([i \in DOMAIN <<>> |-> Adds(paper, <<>>, i)])
    BY <2>1, AddsFacts
  <2>3. [i \in DOMAIN <<>> |-> Adds(paper, <<>>, i)] = <<>>
    OBVIOUS
  <2> QED BY <2>2, <2>3, TotalEmpty
<1>5. ASSUME NEW x \in T PROVE pl(x) \in Int
  <2>1. pl(x) \in 1..MaxChars
    BY <1>5, PieceFacts
  <2> QED BY <2>1
<1>6. ASSUME NEW k \in 1..m
      PROVE  /\ sub(k - 1) \in Seq(T) /\ sub(k) = Append(sub(k - 1), b[k])
             /\ a \o sub(k - 1) \in Seq(T) /\ a \o sub(k) = Append(a \o sub(k - 1), b[k])
             /\ Len(sub(k)) = k
  <2>1. /\ sub(k - 1) \in Seq(T) /\ sub(k) = Append(sub(k - 1), b[k]) /\ b[k] \in T
        /\ Len(sub(k)) = k
    BY <1>1, PrefixGrows
  <2> DEFINE p == sub(k - 1)
  <2>2. p \in Seq(T) /\ a \in Seq(T) /\ b[k] \in T
    BY <2>1
  <2> HIDE DEF p, sub
  <2>3. a \o p \in Seq(T) /\ a \o Append(p, b[k]) = Append(a \o p, b[k])
    <3> HIDE DEF T
    <3> QED BY <2>2
  <2> QED BY <2>1, <2>3 DEF p
<1> HIDE DEF g, pl, sub
<1>7. 0 \in S
  BY <1>1
<1>8. ASSUME NEW i \in 0..(m - 1), i \in S PROVE i + 1 \in S
  <2>1. PICK k \in 1..m : k = i + 1 /\ k - 1 = i /\ k \in 0..m
    BY <1>1
  <2>2. /\ sub(i) \in Seq(T) /\ sub(k) = Append(sub(i), b[k]) /\ b[k] \in T
        /\ a \o sub(i) \in Seq(T) /\ a \o sub(k) = Append(a \o sub(i), b[k])
    BY <1>1, <1>6, <2>1
  <2>3. CASE i = 0
    <3>1. sub(0) = <<>>
      BY SubSeqEmpty DEF sub
    <3>2. a \o sub(0) = a
      BY <3>1, ConcatEmptySeq
    <3>3. k = 1 /\ sub(1) = Append(<<>>, b[1]) /\ a \o sub(1) = Append(a, b[1])
      <4>1. k = 1
        BY <2>1, <2>3
      <4>2. sub(1) = Append(sub(0), b[1]) /\ a \o sub(1) = Append(a \o sub(0), b[1])
        BY <2>2, <2>3, <4>1
      <4> QED BY <4>1, <4>2, <3>1, <3>2
    <3>4. SizeOf(paper, Append(<<>>, b[1])) = 0 + pl(b[1]) + 0
      <4>1. <<>> \in Seq(T)
        OBVIOUS
      <4> QED BY <4>1, <1>3, <1>4, SizeAppend DEF pl
    <3>5. SizeOf(paper, Append(a, b[1])) = SizeOf(paper, a) + pl(b[1]) + g
      BY <1>3, SizeAppend DEF pl, g
    <3>6. pl(b[1]) \in Int
      BY <1>3, <1>5
    <3>7. SizeOf(paper, a \o sub(1)) = SizeOf(paper, a) + g + SizeOf(paper, sub(1))
      <4>1. SizeOf(paper, a \o sub(1)) = SizeOf(paper, a) + pl(b[1]) + g
        BY <3>3, <3>5
      <4>2. SizeOf(paper, sub(1)) = 0 + pl(b[1]) + 0
        BY <3>3, <3>4
      <4> QED BY <4>1, <4>2, <3>6, <1>2, <1>3
    <3> QED BY <2>1, <3>3, <3>7
  <2>4. CASE i # 0
    <3>1. SizeOf(paper, a \o sub(i)) = SizeOf(paper, a) + g + SizeOf(paper, sub(i))
      BY <2>4, <1>8
    <3> DEFINE s == sub(i)
               as == a \o s
               d == Apart(paper, s[Len(s)], b[k])
    <3>2. s \in Seq(T) /\ as \in Seq(T) /\ Len(s) = i /\ s # <<>> /\ as # <<>>
          /\ as[Len(as)] = s[Len(s)]
      <4>1. i \in 1..m
        BY <2>4, <1>1
      <4>2. Len(s) = i
        BY <4>1, <1>6
      <4>3. s \in Seq(T)
        BY <2>2
      <4> HIDE DEF s
      <4>4. /\ Len(as) = Len(a) + Len(s) /\ as \in Seq(T)
            /\ \A j \in 1..Len(s) : as[Len(a) + j] = s[j]
        BY <4>3, ConcatItems
      <4>5. as[n + i] = s[i]
        BY <4>1, <4>2, <4>4
      <4> QED BY <4>1, <4>2, <4>3, <4>4, <4>5, <1>1
    <3>3. /\ SizeOf(paper, s) \in Int
          /\ SizeOf(paper, Append(s, b[k])) = SizeOf(paper, s) + pl(b[k]) + d
      BY <2>2, <3>2, SizeAppend DEF pl
    <3>4. SizeOf(paper, Append(as, b[k])) = SizeOf(paper, as) + pl(b[k]) + d
      BY <2>2, <3>2, SizeAppend DEF pl
    <3>5. d \in Int /\ pl(b[k]) \in Int
      <4>1. pl(b[k]) \in Int
        BY <2>2, <1>5
      <4> QED BY <4>1 DEF Apart
    <3>6. SizeOf(paper, a \o sub(k)) = SizeOf(paper, a) + g + SizeOf(paper, sub(k))
      <4>1. SizeOf(paper, a \o sub(k)) = SizeOf(paper, as) + pl(b[k]) + d
        BY <2>2, <3>4
      <4>2. SizeOf(paper, sub(k)) = SizeOf(paper, s) + pl(b[k]) + d
        BY <2>2, <3>3
      <4>3. SizeOf(paper, as) = SizeOf(paper, a) + g + SizeOf(paper, s)
        BY <3>1
      <4>4. SizeOf(paper, s) \in Int
        BY <3>3
      <4> HIDE DEF s, as, d
      <4> QED BY <4>1, <4>2, <4>3, <4>4, <3>5, <1>2, <1>3
    <3> QED BY <2>1, <3>6
  <2> QED BY <2>3, <2>4
<1> HIDE DEF S
<1>9. \A i \in 0..m : i \in S
  BY <1>1, <1>7, <1>8, InductionUpTo
<1>10. SizeOf(paper, a \o sub(m)) = SizeOf(paper, a) + g + SizeOf(paper, sub(m))
  BY <1>1, <1>9 DEF S
<1>11. sub(m) = b
  BY SubSeqFull DEF sub
<1> QED BY <1>3, <1>10, <1>11 DEF g

-----------------------------------------------------------------------------
(* Packing.                                                                 *)

Box(paper) == [text : Seq(AllPieces(paper)), length : Nat]
Final(box) == box.text[Len(box.text)]
Precede(paper) == {p \in AllPieces(paper) \X AllPieces(paper) : Precedes(p[1], p[2])}

\* A box holds some text, in order, and knows its size.
Good(paper, box) ==
    /\ box \in Box(paper) /\ box.text # <<>>
    /\ InOrder(box.text, Precede(paper))
    /\ SizeOf(paper, box.text) = box.length /\ box.length <= MaxChars

\* All of the first comes before all of the second; they are too big for one box; or
\* they are gap characters apart, or too big for one box even if they are nearer.
Follow(paper) ==
    {p \in Box(paper) \X Box(paper) :
        \A x \in Items(p[1].text), y \in Items(p[2].text) : Precedes(x, y)}
TooBig(paper) ==
    {p \in Box(paper) \X Box(paper) : SizeOf(paper, p[1].text \o p[2].text) > MaxChars}
Near(paper, gap) ==
    {p \in Box(paper) \X Box(paper) :
        \/ Apart(paper, Final(p[1]), p[2].text[1]) = gap
        \/ Apart(paper, Final(p[1]), p[2].text[1]) <= gap /\ p \in TooBig(paper)}

TextOf(boxes) == UNION {Items(boxes[i].text) : i \in DOMAIN boxes}

PackedWell(paper, boxes, S) ==
    /\ boxes \in Seq(Box(paper)) /\ \A i \in DOMAIN boxes : Good(paper, boxes[i])
    /\ InOrder(boxes, Follow(paper)) /\ Linked(boxes, TooBig(paper))
    /\ TextOf(boxes) = S

LEMMA BoxFacts ==
    ASSUME NEW paper \in Seq(Line), NEW b, Good(paper, b)
    PROVE  /\ b \in Box(paper) /\ b.text \in Seq(AllPieces(paper)) /\ b.text # <<>>
           /\ b.length \in Nat /\ SizeOf(paper, b.text) = b.length
           /\ Len(b.text) \in Nat \ {0} /\ DOMAIN b.text = 1..Len(b.text)
           /\ b.text[1] \in AllPieces(paper) /\ b.text[1] \in Items(b.text)
           /\ Final(b) \in AllPieces(paper) /\ Final(b) \in Items(b.text)
           /\ \A x \in Items(b.text) : x \in AllPieces(paper)
<1>1. /\ b \in Box(paper) /\ b.text \in Seq(AllPieces(paper)) /\ b.text # <<>>
      /\ b.length \in Nat /\ SizeOf(paper, b.text) = b.length
  BY DEF Good, Box
<1> DEFINE t == b.text
           T == AllPieces(paper)
<1>2. t \in Seq(T) /\ t # <<>>
  BY <1>1
<1> HIDE DEF t, T
<1>3. Len(t) \in Nat \ {0} /\ DOMAIN t = 1..Len(t) /\ \A i \in 1..Len(t) : t[i] \in T
  BY <1>2
<1>4. t[1] \in T /\ t[1] \in Items(t) /\ t[Len(t)] \in T /\ t[Len(t)] \in Items(t)
  BY <1>3 DEF Items
<1>5. \A x \in Items(t) : x \in T
  BY <1>3 DEF Items
<1> QED BY <1>1, <1>3, <1>4, <1>5 DEF t, T, Final

\* Two boxes put together, and what comes of it.
IsJoined(paper, b, c, m) ==
    /\ m = [text |-> b.text \o c.text,
            length |-> b.length + Apart(paper, Final(b), c.text[1]) + c.length]
    /\ m.length <= MaxChars
Enlarges(paper, m, b, c) ==
    /\ Good(paper, m) /\ Final(m) = Final(c) /\ m.text[1] = b.text[1]
    /\ Items(m.text) = Items(b.text) \cup Items(c.text)
    /\ m.length >= c.length /\ m.length >= b.length

LEMMA JoinedBoxes ==
    ASSUME NEW paper \in Seq(Line), NEW b, NEW c, Good(paper, b), Good(paper, c),
           <<b, c>> \in Follow(paper), NEW m, IsJoined(paper, b, c, m)
    PROVE  Enlarges(paper, m, b, c)
<1> DEFINE n == b.length + Apart(paper, Final(b), c.text[1]) + c.length
<1>0. n <= MaxChars /\ m = [text |-> b.text \o c.text, length |-> n]
  BY DEF IsJoined
<1> DEFINE T == AllPieces(paper)
           s == b.text
           t == c.text
           st == s \o t
           a == Apart(paper, Final(b), t[1])
<1>1. /\ s \in Seq(T) /\ s # <<>> /\ t \in Seq(T) /\ t # <<>>
      /\ b.length \in Nat /\ c.length \in Nat /\ SizeOf(paper, s) = b.length /\ SizeOf(paper, t) = c.length
      /\ Len(s) \in Nat \ {0} /\ Len(t) \in Nat \ {0}
  BY BoxFacts
<1>2. a \in Nat
  BY DEF Apart
<1>3. /\ st \in Seq(T) /\ Len(st) = Len(s) + Len(t) /\ Items(st) = Items(s) \cup Items(t)
      /\ (\A i \in 1..Len(s) : st[i] = s[i]) /\ (\A i \in 1..Len(t) : st[Len(s) + i] = t[i])
  <2> HIDE DEF s, t, T
  <2> QED BY <1>1, ConcatItems
<1>4. SizeOf(paper, st) = n
  <2>1. SizeOf(paper, st) = SizeOf(paper, s) + Apart(paper, s[Len(s)], t[1]) + SizeOf(paper, t)
    BY <1>1, SizeConcat
  <2> QED BY <2>1, <1>1 DEF Final
<1>5. InOrder(st, Precede(paper))
  <2>1. InOrder(s, Precede(paper)) /\ InOrder(t, Precede(paper))
    BY DEF Good
  <2>2. \A x \in Items(s), y \in Items(t) : <<x, y>> \in Precede(paper)
    <3>1. \A x \in Items(s), y \in Items(t) : Precedes(x, y)
      BY DEF Follow
    <3>2. (\A x \in Items(s) : x \in T) /\ (\A y \in Items(t) : y \in T)
      BY BoxFacts
    <3> QED BY <3>1, <3>2 DEF Precede
  <2> QED BY <2>1, <2>2, <1>1, ConcatInOrder
<1>6. n \in Nat /\ n >= c.length /\ n >= b.length
  <2>1. n = b.length + a + c.length
    OBVIOUS
  <2> HIDE DEF a, n
  <2> QED BY <2>1, <1>1, <1>2
<1>7. st[1] = s[1] /\ st[Len(st)] = t[Len(t)] /\ st # <<>>
  <2>1. 1 \in 1..Len(s) /\ Len(t) \in 1..Len(t)
    BY <1>1
  <2>2. st[1] = s[1] /\ st[Len(s) + Len(t)] = t[Len(t)]
    BY <2>1, <1>3
  <2>3. Len(st) # 0
    <3> HIDE DEF s, t, st
    <3> QED BY <1>1, <1>3
  <2> HIDE DEF st
  <2>4. st # <<>>
    BY <2>3
  <2> QED BY <2>2, <2>4, <1>3
<1>8. m.text = st /\ m.length = n
  BY <1>0
<1>9. m \in Box(paper)
  <2> HIDE DEF st, n
  <2> QED BY <1>0, <1>3, <1>6, <1>8 DEF Box, st
<1> HIDE DEF st
<1>10. Good(paper, m)
  BY <1>0, <1>4, <1>5, <1>7, <1>8, <1>9 DEF Good
<1> HIDE DEF n
<1> QED BY <1>3, <1>6, <1>7, <1>8, <1>10 DEF Enlarges, Final

\* Whether a unit goes into a box depends on the unit the box ends with.
SameEnd(unit, box) == Final(unit) = Final(box) /\ unit.length <= box.length
Judged(paper, b, u, gap) ==
    /\ Projected(b, u, gap) <= MaxChars => Apart(paper, Final(b), u.text[1]) = gap
    /\ ~(Projected(b, u, gap) <= MaxChars) => <<b, u>> \in TooBig(paper)
    /\ Projected(b, u, gap) = b.length + gap + u.length

LEMMA FitsOrNot ==
    ASSUME NEW paper \in Seq(Line), NEW gap \in {1, 2}, NEW b, NEW u, Good(paper, b), Good(paper, u),
           NEW prev, Good(paper, prev), SameEnd(prev, b), <<prev, u>> \in Near(paper, gap)
    PROVE  Judged(paper, b, u, gap)
<1>0. Final(prev) = Final(b) /\ prev.length <= b.length
  BY DEF SameEnd
<1> DEFINE a == Apart(paper, Final(b), u.text[1])
<1>1. a \in {1, 2}
  BY DEF Apart
<1>2. a = gap \/ (a <= gap /\ <<prev, u>> \in TooBig(paper))
  BY <1>0 DEF Near
<1>3. /\ b.length \in Nat /\ u.length \in Nat /\ prev.length \in Nat
      /\ SizeOf(paper, b.text \o u.text) = b.length + a + u.length
      /\ SizeOf(paper, prev.text \o u.text) = prev.length + a + u.length
      /\ <<b, u>> \in Box(paper) \X Box(paper)
  <2>1. /\ b.text \in Seq(AllPieces(paper)) /\ b.text # <<>> /\ u.text \in Seq(AllPieces(paper))
        /\ u.text # <<>> /\ prev.text \in Seq(AllPieces(paper)) /\ prev.text # <<>>
        /\ SizeOf(paper, b.text) = b.length /\ SizeOf(paper, u.text) = u.length
        /\ SizeOf(paper, prev.text) = prev.length
        /\ b.length \in Nat /\ u.length \in Nat /\ prev.length \in Nat
        /\ b \in Box(paper) /\ u \in Box(paper)
    BY BoxFacts
  <2>2. SizeOf(paper, b.text \o u.text)
          = b.length + Apart(paper, b.text[Len(b.text)], u.text[1]) + u.length
    BY <2>1, SizeConcat
  <2>3. SizeOf(paper, prev.text \o u.text)
          = prev.length + Apart(paper, prev.text[Len(prev.text)], u.text[1]) + u.length
    BY <2>1, SizeConcat
  <2>4. prev.text[Len(prev.text)] = b.text[Len(b.text)]
    BY <1>0 DEF Final
  <2> QED BY <2>1, <2>2, <2>3, <2>4 DEF Final
<1>4. <<prev, u>> \in TooBig(paper) => prev.length + a + u.length > MaxChars
  BY <1>3 DEF TooBig
<1>5. b.length + a + u.length > MaxChars => <<b, u>> \in TooBig(paper)
  BY <1>3 DEF TooBig
<1>6. Projected(b, u, gap) = b.length + gap + u.length
  BY DEF Projected
<1> HIDE DEF a
<1> DEFINE bl == b.length
           ul == u.length
           vl == prev.length
           p == Projected(b, u, gap)
<1>7. bl \in Nat /\ ul \in Nat /\ vl \in Nat /\ vl <= bl /\ p = bl + gap + ul
      /\ (<<prev, u>> \in TooBig(paper) => vl + a + ul > MaxChars)
      /\ (bl + a + ul > MaxChars => <<b, u>> \in TooBig(paper))
  BY <1>0, <1>3, <1>4, <1>5, <1>6
<1>8. MaxChars \in Nat
  BY MaxCharsAssumption
<1> HIDE DEF bl, ul, vl, p
<1>9. p <= MaxChars => a = gap
  BY <1>1, <1>2, <1>7, <1>8
<1>10. ~(p <= MaxChars) => <<b, u>> \in TooBig(paper)
  BY <1>1, <1>2, <1>7, <1>8
<1> QED BY <1>6, <1>9, <1>10 DEF Judged, a, p

LEMMA BoxAppended ==
    ASSUME NEW paper \in Seq(Line), NEW boxes, NEW S, PackedWell(paper, boxes, S),
           NEW u, Good(paper, u), \A x \in S, y \in Items(u.text) : Precedes(x, y),
           boxes # <<>> => <<boxes[Len(boxes)], u>> \in TooBig(paper)
    PROVE  PackedWell(paper, Append(boxes, u), S \cup Items(u.text))
<1> DEFINE B == Box(paper)
           n == Len(boxes)
           more == Append(boxes, u)
<1>1. boxes \in Seq(B) /\ u \in B
  BY BoxFacts DEF PackedWell
<1> HIDE DEF B
<1>2. /\ n \in Nat /\ more \in Seq(B) /\ Len(more) = n + 1 /\ more[n + 1] = u
      /\ (\A i \in 1..n : more[i] = boxes[i]) /\ (boxes # <<>>) = (n # 0)
      /\ DOMAIN boxes = 1..n /\ DOMAIN more = 1..(n + 1)
  BY <1>1
<1> HIDE DEF n, more
<1>3. /\ \A i \in 1..n : Good(paper, boxes[i]) /\ Items(boxes[i].text) \subseteq S
      /\ \A i, j \in 1..n : i < j => <<boxes[i], boxes[j]>> \in Follow(paper)
      /\ \A i \in 1..(n - 1) : <<boxes[i], boxes[i + 1]>> \in TooBig(paper)
  BY <1>2 DEF PackedWell, InOrder, Linked, TextOf, n
<1>4. \A i \in 1..(n + 1) : i \in 1..n \/ i = n + 1
  BY <1>2
<1>5. \A i \in 1..(n + 1) : Good(paper, more[i])
  BY <1>2, <1>3, <1>4
<1>6. \A i \in 1..n : <<boxes[i], u>> \in Follow(paper)
  <2> TAKE i \in 1..n
  <2>1. boxes[i] \in Box(paper) /\ u \in Box(paper)
    BY <1>3, BoxFacts
  <2>2. \A x \in Items(boxes[i].text), y \in Items(u.text) : Precedes(x, y)
    BY <1>3
  <2> QED BY <2>1, <2>2 DEF Follow
<1>7. InOrder(more, Follow(paper))
  <2> SUFFICES ASSUME NEW i \in 1..(n + 1), NEW j \in 1..(n + 1), i < j
               PROVE  <<more[i], more[j]>> \in Follow(paper)
    BY <1>2 DEF InOrder
  <2>1. i \in 1..n
    BY <1>2
  <2>2. CASE j \in 1..n
    BY <2>1, <2>2, <1>2, <1>3
  <2>3. CASE j = n + 1
    BY <2>1, <2>3, <1>2, <1>6
  <2> QED BY <2>2, <2>3, <1>4
<1>8. Linked(more, TooBig(paper))
  <2> SUFFICES ASSUME NEW i \in 1..n PROVE <<more[i], more[i + 1]>> \in TooBig(paper)
    BY <1>2 DEF Linked
  <2>1. CASE i = n
    BY <2>1, <1>2 DEF n
  <2>2. CASE i \in 1..(n - 1)
    <3>1. i + 1 \in 1..n
      BY <2>2, <1>2
    <3> QED BY <3>1, <2>2, <1>2, <1>3
  <2> QED BY <2>1, <2>2, <1>2
<1>9. TextOf(more) = S \cup Items(u.text)
  <2>1. ASSUME NEW x \in TextOf(more) PROVE x \in S \cup Items(u.text)
    <3>1. PICK i \in 1..(n + 1) : x \in Items(more[i].text)
      BY <1>2 DEF TextOf
    <3> QED BY <3>1, <1>2, <1>3, <1>4
  <2>2. ASSUME NEW x \in S PROVE x \in TextOf(more)
    <3>1. PICK i \in 1..n : x \in Items(boxes[i].text)
      BY <1>2 DEF PackedWell, TextOf
    <3>2. i \in DOMAIN more /\ more[i] = boxes[i]
      BY <1>2
    <3> QED BY <3>1, <3>2 DEF TextOf
  <2>3. ASSUME NEW x \in Items(u.text) PROVE x \in TextOf(more)
    <3>1. n + 1 \in DOMAIN more
      BY <1>2
    <3> QED BY <3>1, <1>2 DEF TextOf
  <2> QED BY <2>1, <2>2, <2>3
<1> QED BY <1>2, <1>5, <1>7, <1>8, <1>9 DEF PackedWell, B, more

LEMMA BoxEnlarged ==
    ASSUME NEW paper \in Seq(Line), NEW boxes, NEW S, PackedWell(paper, boxes, S), boxes # <<>>,
           NEW u, Good(paper, u), \A x \in S, y \in Items(u.text) : Precedes(x, y),
           NEW m, Enlarges(paper, m, boxes[Len(boxes)], u)
    PROVE  PackedWell(paper, [boxes EXCEPT ![Len(boxes)] = m], S \cup Items(u.text))
<1> DEFINE B == Box(paper)
           n == Len(boxes)
           b == boxes[n]
           out == [boxes EXCEPT ![n] = m]
<1>1. boxes \in Seq(B) /\ m \in B /\ u \in B
  BY BoxFacts DEF PackedWell, Enlarges
<1> HIDE DEF B
<1>2. /\ n \in Nat /\ n >= 1 /\ n \in 1..n /\ out \in Seq(B) /\ Len(out) = n /\ out[n] = m
      /\ (\A i \in 1..(n - 1) : out[i] = boxes[i])
      /\ DOMAIN boxes = 1..n /\ DOMAIN out = 1..n
  BY <1>1
<1> HIDE DEF n, out
<1>3. /\ \A i \in 1..n : Good(paper, boxes[i]) /\ Items(boxes[i].text) \subseteq S
      /\ \A i, j \in 1..n : i < j => <<boxes[i], boxes[j]>> \in Follow(paper)
      /\ \A i \in 1..(n - 1) : <<boxes[i], boxes[i + 1]>> \in TooBig(paper)
  BY <1>2 DEF PackedWell, InOrder, Linked, TextOf, n
<1>4. \A i \in 1..n : i \in 1..(n - 1) \/ i = n
  BY <1>2
<1>M. /\ m.text[1] = b.text[1] /\ Good(paper, m) /\ Good(paper, b)
      /\ Items(m.text) = Items(b.text) \cup Items(u.text) /\ m.length >= b.length
  BY <1>2, <1>3 DEF Enlarges, n
<1>5. \A i \in 1..n : Good(paper, out[i])
  BY <1>2, <1>3, <1>4, <1>M
<1>6. \A i \in 1..(n - 1) : <<boxes[i], m>> \in Follow(paper)
  <2> TAKE i \in 1..(n - 1)
  <2>1. i \in 1..n /\ i < n
    BY <1>2
  <2>2. boxes[i] \in Box(paper) /\ m \in Box(paper)
    BY <2>1, <1>3, <1>M, BoxFacts
  <2>3. <<boxes[i], b>> \in Follow(paper)
    BY <2>1, <1>2, <1>3
  <2>4. \A x \in Items(boxes[i].text), y \in Items(b.text) : Precedes(x, y)
    BY <2>3 DEF Follow
  <2>5. \A x \in Items(boxes[i].text), y \in Items(u.text) : Precedes(x, y)
    BY <2>1, <1>3
  <2>6. \A x \in Items(boxes[i].text), y \in Items(m.text) : Precedes(x, y)
    BY <2>4, <2>5, <1>M
  <2> QED BY <2>2, <2>6 DEF Follow
<1>7. InOrder(out, Follow(paper))
  <2> SUFFICES ASSUME NEW i \in 1..n, NEW j \in 1..n, i < j
               PROVE  <<out[i], out[j]>> \in Follow(paper)
    BY <1>2 DEF InOrder
  <2>1. i \in 1..(n - 1)
    BY <1>2
  <2>2. CASE j \in 1..(n - 1)
    BY <2>1, <2>2, <1>2, <1>3
  <2>3. CASE j = n
    BY <2>1, <2>3, <1>2, <1>6
  <2> QED BY <2>2, <2>3, <1>4
<1>8. ASSUME NEW c, Good(paper, c), <<c, b>> \in TooBig(paper) PROVE <<c, m>> \in TooBig(paper)
  <2>1. /\ c.text \in Seq(AllPieces(paper)) /\ c.text # <<>> /\ b.text \in Seq(AllPieces(paper))
        /\ b.text # <<>> /\ m.text \in Seq(AllPieces(paper)) /\ m.text # <<>>
        /\ SizeOf(paper, b.text) = b.length /\ SizeOf(paper, m.text) = m.length
        /\ c \in Box(paper) /\ m \in Box(paper) /\ b.length \in Nat /\ m.length \in Nat
    BY <1>8, <1>M, BoxFacts
  <2> DEFINE a == Apart(paper, c.text[Len(c.text)], b.text[1])
             cs == SizeOf(paper, c.text)
  <2>2. /\ SizeOf(paper, c.text \o b.text) = cs + a + b.length
        /\ SizeOf(paper, c.text \o m.text) = cs + a + m.length
        /\ cs \in Int
    <3>1. /\ SizeOf(paper, c.text \o b.text) = cs + a + SizeOf(paper, b.text)
          /\ SizeOf(paper, c.text \o m.text)
               = cs + Apart(paper, c.text[Len(c.text)], m.text[1]) + SizeOf(paper, m.text)
          /\ cs \in Int
      BY <2>1, SizeConcat
    <3> QED BY <3>1, <2>1, <1>M
  <2>3. a \in Int
    BY DEF Apart
  <2>4. cs + a + b.length > MaxChars
    BY <2>2, <1>8 DEF TooBig
  <2>5. cs + a + m.length > MaxChars
    <3> DEFINE bl == b.length
               ml == m.length
    <3>1. bl \in Nat /\ ml \in Nat /\ ml >= bl /\ cs + a + bl > MaxChars
      BY <2>1, <2>4, <1>M
    <3> HIDE DEF a, cs, bl, ml
    <3>2. cs + a + ml > MaxChars
      BY <3>1, <2>2, <2>3, MaxCharsAssumption
    <3> QED BY <3>2 DEF ml
  <2>6. SizeOf(paper, c.text \o m.text) > MaxChars
    BY <2>2, <2>5
  <2> QED BY <2>1, <2>6 DEF TooBig
<1>9. Linked(out, TooBig(paper))
  <2> SUFFICES ASSUME NEW i \in 1..(n - 1) PROVE <<out[i], out[i + 1]>> \in TooBig(paper)
    BY <1>2 DEF Linked
  <2>1. i \in 1..n /\ i + 1 \in 1..n /\ out[i] = boxes[i] /\ Good(paper, boxes[i])
    BY <1>2, <1>3
  <2>2. <<boxes[i], boxes[i + 1]>> \in TooBig(paper)
    BY <1>3
  <2>3. CASE i + 1 = n
    BY <2>1, <2>2, <2>3, <1>2, <1>8
  <2>4. CASE i + 1 \in 1..(n - 1)
    BY <2>1, <2>2, <2>4, <1>2
  <2> QED BY <2>1, <2>3, <2>4, <1>4
<1>10. TextOf(out) = S \cup Items(u.text)
  <2>1. ASSUME NEW x \in TextOf(out) PROVE x \in S \cup Items(u.text)
    <3>1. PICK i \in 1..n : x \in Items(out[i].text)
      BY <1>2 DEF TextOf
    <3>2. CASE i = n
      BY <3>1, <3>2, <1>2, <1>3, <1>M
    <3>3. CASE i \in 1..(n - 1)
      BY <3>1, <3>3, <1>2, <1>3
    <3> QED BY <3>2, <3>3, <1>4
  <2>2. ASSUME NEW x \in S PROVE x \in TextOf(out)
    <3>1. PICK i \in 1..n : x \in Items(boxes[i].text)
      BY <1>2 DEF PackedWell, TextOf
    <3>2. x \in Items(out[i].text)
      <4>1. CASE i = n
        BY <4>1, <3>1, <1>2, <1>M
      <4>2. CASE i \in 1..(n - 1)
        BY <4>2, <3>1, <1>2
      <4> QED BY <4>1, <4>2, <1>4
    <3> QED BY <3>2, <1>2 DEF TextOf
  <2>3. ASSUME NEW x \in Items(u.text) PROVE x \in TextOf(out)
    BY <2>3, <1>2, <1>M DEF TextOf
  <2> QED BY <2>1, <2>2, <2>3
<1>11. PackedWell(paper, out, S \cup Items(u.text))
  BY <1>2, <1>5, <1>7, <1>9, <1>10 DEF PackedWell, B
<1> QED BY <1>11 DEF out, n

\* The last box ends with the last unit put.
EndsWith(boxes, unit) == boxes # <<>> /\ SameEnd(unit, boxes[Len(boxes)])

LEMMA PutKeeps ==
    ASSUME NEW paper \in Seq(Line), NEW gap \in {1, 2}, NEW boxes, NEW S, PackedWell(paper, boxes, S),
           NEW u, Good(paper, u), \A x \in S, y \in Items(u.text) : Precedes(x, y),
           NEW prev,
           boxes # <<>> => /\ Good(paper, prev) /\ EndsWith(boxes, prev)
                           /\ <<prev, u>> \in Near(paper, gap)
    PROVE  /\ PackedWell(paper, Put(boxes, u, gap), S \cup Items(u.text))
           /\ EndsWith(Put(boxes, u, gap), u)
<1> DEFINE B == Box(paper)
           n == Len(boxes)
           b == boxes[n]
<1>1. boxes \in Seq(B) /\ u \in B /\ u.length \in Nat
  BY BoxFacts DEF PackedWell
<1>2. CASE boxes # <<>> /\ Projected(b, u, gap) <= MaxChars
  <2> DEFINE m == [text |-> b.text \o u.text, length |-> Projected(b, u, gap)]
             out == [boxes EXCEPT ![n] = m]
  <2>1. n \in 1..n /\ n \in DOMAIN boxes
    <3> HIDE DEF B
    <3> QED BY <1>1, <1>2
  <2>2. Good(paper, b)
    BY <2>1 DEF PackedWell
  <2>3. Good(paper, prev) /\ SameEnd(prev, b) /\ <<prev, u>> \in Near(paper, gap)
    BY <1>2 DEF EndsWith
  <2>J. Judged(paper, b, u, gap)
    <3> HIDE DEF b, m, out, n, B
    <3> QED BY <2>2, <2>3, FitsOrNot
  <2>4. Apart(paper, Final(b), u.text[1]) = gap /\ Projected(b, u, gap) = b.length + gap + u.length
    <3>1. Projected(b, u, gap) <= MaxChars
      BY <1>2
    <3> HIDE DEF b
    <3> QED BY <3>1, <2>J DEF Judged
  <2>5. <<b, u>> \in Follow(paper)
    <3>1. Items(b.text) \subseteq S
      BY <2>1 DEF PackedWell, TextOf
    <3>2. b \in Box(paper) /\ u \in Box(paper)
      BY <2>2, BoxFacts
    <3> HIDE DEF b
    <3> QED BY <3>1, <3>2 DEF Follow
  <2>6. Enlarges(paper, m, b, u)
    <3>1. IsJoined(paper, b, u, m)
      BY <1>2, <2>4 DEF IsJoined
    <3> HIDE DEF m, b, out, n, B
    <3> QED BY <3>1, <2>2, <2>5, JoinedBoxes
  <2>8. Put(boxes, u, gap) = out
    BY <1>2 DEF Put
  <2> HIDE DEF m
  <2>9. PackedWell(paper, out, S \cup Items(u.text))
    BY <1>2, <2>6, BoxEnlarged
  <2>10. Len(out) = n /\ out[n] = m /\ out # <<>>
    <3>1. m \in B
      BY <2>6, BoxFacts DEF Enlarges
    <3> HIDE DEF B
    <3>2. out \in Seq(B) /\ Len(out) = n /\ out[n] = m
      BY <1>1, <2>1, <3>1
    <3> HIDE DEF out
    <3>3. n \in Nat \ {0}
      BY <1>1, <1>2
    <3> QED BY <3>2, <3>3
  <2> HIDE DEF out
  <2>11. SameEnd(u, m)
    BY <1>1, <2>6, BoxFacts DEF Enlarges, SameEnd
  <2> QED BY <2>8, <2>9, <2>10, <2>11 DEF EndsWith
<1>3. CASE ~(boxes # <<>> /\ Projected(b, u, gap) <= MaxChars)
  <2>1. Put(boxes, u, gap) = Append(boxes, u)
    BY <1>3 DEF Put
  <2>2. boxes # <<>> => <<b, u>> \in TooBig(paper)
    <3> HAVE boxes # <<>>
    <3>1. n \in DOMAIN boxes
      <4> HIDE DEF B
      <4> QED BY <1>1
    <3>2. Good(paper, b)
      BY <3>1 DEF PackedWell
    <3>3. Good(paper, prev) /\ SameEnd(prev, b) /\ <<prev, u>> \in Near(paper, gap)
      BY DEF EndsWith
    <3>4. ~(Projected(b, u, gap) <= MaxChars)
      BY <1>3
    <3> HIDE DEF b
    <3>5. Judged(paper, b, u, gap)
      BY <3>2, <3>3, FitsOrNot
    <3> QED BY <3>4, <3>5 DEF Judged
  <2>3. PackedWell(paper, Append(boxes, u), S \cup Items(u.text))
    BY <2>2, BoxAppended
  <2>4. Append(boxes, u) # <<>> /\ Append(boxes, u)[Len(Append(boxes, u))] = u
    <3> DEFINE more == Append(boxes, u)
    <3>1. boxes \in Seq(B) /\ u \in B
      BY <1>1
    <3> HIDE DEF B
    <3>2. more \in Seq(B) /\ Len(more) = Len(boxes) + 1 /\ more[Len(boxes) + 1] = u /\ Len(boxes) \in Nat
      BY <3>1
    <3> HIDE DEF more
    <3>3. more # <<>>
      BY <3>2
    <3> QED BY <3>2, <3>3 DEF more
  <2>5. SameEnd(u, u)
    BY <1>1 DEF SameEnd
  <2> QED BY <2>1, <2>3, <2>4, <2>5 DEF EndsWith
<1> QED BY <1>2, <1>3

\* Units that packing makes chunks of.
Packable(paper, units, gap) ==
    /\ units \in Seq(Box(paper)) /\ \A i \in DOMAIN units : Good(paper, units[i])
    /\ InOrder(units, Follow(paper)) /\ Linked(units, Near(paper, gap))

LEMMA PackedIs ==
    ASSUME NEW paper, NEW gap \in {1, 2}, NEW units \in Seq(Box(paper))
    PROVE  \E f \in [0..Len(units) -> Seq(Box(paper))] :
              /\ f[0] = <<>> /\ \A i \in 1..Len(units) : f[i] = Put(f[i - 1], units[i], gap)
              /\ Packed(units, gap) = f[Len(units)]
<1> DEFINE n == Len(units)
           B == Box(paper)
           K == Seq(B)
           start == <<>>
           step == [p \in K \X (1..n) |-> Put(p[1], units[p[2]], gap)]
           D == 0..n
           R(f) == f = [i \in D |-> IF i = 0 THEN <<>> ELSE Put(f[i - 1], units[i], gap)]
<1>1. n \in Nat /\ start \in K /\ \A i \in 1..n : units[i] \in B
  OBVIOUS
<1>2. \A k \in K, i \in 1..n : step[<<k, i>>] = Put(k, units[i], gap) /\ step[<<k, i>>] \in K
  <2> TAKE k \in K, i \in 1..n
  <2>1. units[i] \in B
    BY <1>1
  <2> DEFINE u == units[i]
  <2>2. Put(k, u, gap) \in K
    <3>1. CASE k # <<>> /\ Projected(k[Len(k)], u, gap) <= MaxChars
      <4> DEFINE b == k[Len(k)]
                 m == [text |-> b.text \o u.text, length |-> Projected(b, u, gap)]
      <4>1. k \in Seq(B)
        OBVIOUS
      <4>2. Len(k) \in 1..Len(k) /\ b \in B
        <5> HIDE DEF B
        <5> QED BY <4>1, <3>1
      <4>3. m \in B
        <5>1. b.text \in Seq(AllPieces(paper)) /\ u.text \in Seq(AllPieces(paper))
              /\ b.length \in Nat /\ u.length \in Nat
          BY <4>2, <2>1 DEF Box
        <5> DEFINE T == AllPieces(paper)
                   s == b.text
                   t == u.text
        <5>2. s \in Seq(T) /\ t \in Seq(T)
          BY <5>1
        <5> HIDE DEF T, s, t
        <5>3. s \o t \in Seq(T)
          BY <5>2
        <5>4. Projected(b, u, gap) \in Nat
          <6> DEFINE bl == b.length
                     ul == u.length
          <6>1. bl \in Nat /\ ul \in Nat /\ gap \in {1, 2} /\ Projected(b, u, gap) = bl + gap + ul
            BY <5>1 DEF Projected
          <6> HIDE DEF bl, ul
          <6> QED BY <6>1
        <5> QED BY <5>3, <5>4 DEF Box, s, t, T
      <4>4. Put(k, u, gap) = [k EXCEPT ![Len(k)] = m]
        BY <3>1 DEF Put
      <4> HIDE DEF m, B
      <4>5. [k EXCEPT ![Len(k)] = m] \in Seq(B)
        BY <4>1, <4>2, <4>3
      <4> QED BY <4>4, <4>5
    <3>2. CASE ~(k # <<>> /\ Projected(k[Len(k)], u, gap) <= MaxChars)
      <4>1. Put(k, u, gap) = Append(k, u)
        BY <3>2 DEF Put
      <4>2. k \in Seq(B) /\ u \in B
        BY <2>1
      <4> HIDE DEF B, u
      <4>3. Append(k, u) \in Seq(B)
        BY <4>2
      <4> QED BY <4>1, <4>3
    <3> QED BY <3>1, <3>2
  <2>3. step[<<k, i>>] = Put(k, units[i], gap)
    OBVIOUS
  <2> QED BY <2>2, <2>3
<1> HIDE DEF n, K, start, step
<1>3. PICK g \in [0..n -> K] : StepsFrom(g, step, start, n)
  BY <1>1, <1>2, StepsExist
<1>4. g[0] = <<>> /\ \A i \in 1..n : g[i] = Put(g[i - 1], units[i], gap)
  <2>1. g[0] = <<>>
    BY <1>3 DEF StepsFrom, start
  <2>2. ASSUME NEW i \in 1..n PROVE g[i] = Put(g[i - 1], units[i], gap)
    <3>1. i - 1 \in 0..n
      BY <1>1
    <3>2. g[i - 1] \in K /\ g[i] = step[<<g[i - 1], i>>]
      BY <1>3, <3>1 DEF StepsFrom
    <3> QED BY <3>2, <1>2
  <2> QED BY <2>1, <2>2
<1> DEFINE f == CHOOSE f : R(f)
<1>5. R(g)
  <2>1. \A i \in D : g[i] = IF i = 0 THEN <<>> ELSE Put(g[i - 1], units[i], gap)
    <3> TAKE i \in D
    <3>1. i = 0 \/ (i \in 1..n /\ i # 0)
      BY <1>1
    <3> QED BY <3>1, <1>4
  <2>2. g = [i \in D |-> g[i]]
    BY <1>3
  <2> QED BY <2>1, <2>2
<1>6. R(f)
  <2>1. \E x : R(x)
    BY <1>5
  <2> HIDE DEF R
  <2> QED BY <2>1
<1>7. Packed(units, gap) = f[n]
  BY DEF Packed, n
<1> HIDE DEF f
<1>8. \A i \in D : f[i] = IF i = 0 THEN <<>> ELSE Put(f[i - 1], units[i], gap)
  BY <1>6
<1> DEFINE S == {i \in 0..n : f[i] = g[i]}
<1>9. 0 \in S
  BY <1>1, <1>4, <1>8
<1>10. ASSUME NEW i \in 0..(n - 1), i \in S PROVE i + 1 \in S
  <2>1. PICK j \in 1..n : j = i + 1
    BY <1>1
  <2>2. j \in D /\ j # 0 /\ j - 1 = i
    BY <2>1, <1>1
  <2>3. f[j] = Put(f[j - 1], units[j], gap) /\ g[j] = Put(g[j - 1], units[j], gap)
    BY <2>2, <1>8, <1>4
  <2>4. f[i] = g[i]
    BY <1>10
  <2> QED BY <2>1, <2>2, <2>3, <2>4
<1> HIDE DEF S
<1>11. \A i \in 0..n : i \in S
  BY <1>1, <1>9, <1>10, InductionUpTo
<1>12. f[n] = g[n]
  BY <1>1, <1>11 DEF S
<1>13. g \in [0..n -> Seq(Box(paper))]
  BY <1>3 DEF K
<1> QED BY <1>4, <1>7, <1>12, <1>13 DEF n

\* Packing keeps the text of the units, and no two neighbours it leaves apart fit one box.
LEMMA PackedSound ==
    ASSUME NEW paper \in Seq(Line), NEW gap \in {1, 2}, NEW units, Packable(paper, units, gap)
    PROVE  PackedWell(paper, Packed(units, gap), TextOf(units))
<1> DEFINE n == Len(units)
           Upto(i) == UNION {Items(units[k].text) : k \in 1..i}
<1>1. /\ units \in Seq(Box(paper)) /\ n \in Nat /\ DOMAIN units = 1..n
      /\ \A i \in 1..n : Good(paper, units[i])
      /\ \A i, j \in 1..n : i < j => <<units[i], units[j]>> \in Follow(paper)
      /\ \A i \in 1..(n - 1) : <<units[i], units[i + 1]>> \in Near(paper, gap)
  <2>1. units \in Seq(Box(paper))
    BY DEF Packable
  <2> DEFINE B == Box(paper)
  <2>2. units \in Seq(B)
    BY <2>1
  <2> HIDE DEF B
  <2>3. n \in Nat /\ DOMAIN units = 1..n
    BY <2>2
  <2> QED BY <2>1, <2>3 DEF Packable, InOrder, Linked
<1>2. PICK f \in [0..n -> Seq(Box(paper))] :
        /\ f[0] = <<>> /\ \A i \in 1..n : f[i] = Put(f[i - 1], units[i], gap)
        /\ Packed(units, gap) = f[n]
  BY <1>1, PackedIs
<1> DEFINE S == {i \in 0..n : /\ PackedWell(paper, f[i], Upto(i))
                              /\ i # 0 => EndsWith(f[i], units[i])}
<1> HIDE DEF n
<1>3. 0 \in S
  <2>1. PackedWell(paper, <<>>, {})
    BY DEF PackedWell, InOrder, Linked, TextOf
  <2>2. Upto(0) = {}
    OBVIOUS
  <2>3. PackedWell(paper, f[0], Upto(0)) /\ 0 \in 0..n
    <3>1. f[0] = <<>>
      BY <1>2
    <3>2. 0 \in 0..n
      BY <1>1
    <3> HIDE DEF Upto
    <3> QED BY <3>1, <3>2, <2>1, <2>2
  <2> HIDE DEF Upto
  <2> QED BY <2>3
<1>4. ASSUME NEW i \in 0..(n - 1), i \in S PROVE i + 1 \in S
  <2>1. PICK j \in 1..n : j = i + 1 /\ j - 1 = i /\ j \in 0..n /\ j # 0
    BY <1>1
  <2>2. f[j] = Put(f[i], units[j], gap)
    BY <2>1, <1>2
  <2>3. Upto(j) = Upto(i) \cup Items(units[j].text)
    <3>1. 1..j = (1..i) \cup {j}
      BY <2>1
    <3> QED BY <3>1
  <2>4. \A x \in Upto(i), y \in Items(units[j].text) : Precedes(x, y)
    <3> TAKE x \in Upto(i), y \in Items(units[j].text)
    <3>1. PICK k \in 1..i : x \in Items(units[k].text)
      OBVIOUS
    <3>2. k \in 1..n /\ k < j
      BY <2>1, <1>1
    <3>3. <<units[k], units[j]>> \in Follow(paper)
      BY <3>2, <1>1
    <3> QED BY <3>1, <3>3 DEF Follow
  <2> DEFINE prev == units[i]
  <2>5. PackedWell(paper, f[i], Upto(i))
    BY <1>4
  <2>6. f[i] # <<>> => Good(paper, prev) /\ EndsWith(f[i], prev) /\ <<prev, units[j]>> \in Near(paper, gap)
    <3> HAVE f[i] # <<>>
    <3>1. i # 0
      BY <1>2
    <3>2. i \in 1..n /\ i \in 1..(n - 1)
      BY <3>1, <1>1
    <3>3. EndsWith(f[i], prev)
      BY <3>1, <1>4
    <3>4. <<units[i], units[i + 1]>> \in Near(paper, gap)
      BY <3>2, <1>1
    <3> QED BY <3>2, <3>3, <3>4, <2>1, <1>1
  <2>7. Good(paper, units[j])
    BY <1>1
  <2> HIDE DEF prev, Upto
  <2>8. /\ PackedWell(paper, Put(f[i], units[j], gap), Upto(i) \cup Items(units[j].text))
        /\ EndsWith(Put(f[i], units[j], gap), units[j])
    BY <2>4, <2>5, <2>6, <2>7, PutKeeps
  <2> QED BY <2>1, <2>2, <2>3, <2>8
<1> HIDE DEF S
<1>5. \A i \in 0..n : i \in S
  BY <1>1, <1>3, <1>4, InductionUpTo
<1>6. PackedWell(paper, f[n], Upto(n))
  BY <1>1, <1>5 DEF S
<1>7. Upto(n) = TextOf(units)
  BY <1>1 DEF TextOf
<1> QED BY <1>2, <1>6, <1>7

-----------------------------------------------------------------------------
(* Sections and paragraphs: the runs between two lines of a kind.           *)

LineRun == [from : Nat, to : Nat]
Between(paper, kind) ==
    {p \in LineRun \X LineRun : \E i \in Nat : p[1].to < i /\ i < p[2].from /\ paper[i][1] = kind}

\* A run within from..last has some text and no line of the kind.
RunAt(paper, kind, from, last, run) ==
    /\ run \in LineRun /\ from <= run.from /\ run.to <= last
    /\ (\E j \in run.from..run.to : paper[j][1] = "text")
    /\ \A j \in run.from..run.to : paper[j][1] # kind

\* The runs within from..last hold all of the text of from..until.
AreRuns(paper, kind, from, last, until, runs) ==
    /\ runs \in Seq(LineRun) /\ \A k \in DOMAIN runs : RunAt(paper, kind, from, last, runs[k])
    /\ InOrder(runs, Between(paper, kind))
    /\ \A i \in from..until : paper[i][1] = "text" =>
          \E k \in DOMAIN runs : i \in runs[k].from..runs[k].to

\* What has been read when line i is next.
Reading(paper, kind, from, s, i) ==
    /\ s = [runs |-> s.runs, from |-> s.from]
    /\ s.from \in Nat /\ from <= s.from /\ s.from <= i
    /\ \A j \in s.from..(i - 1) : paper[j][1] # kind
    /\ s.from # from => paper[s.from - 1][1] = kind
    /\ AreRuns(paper, kind, from, s.from - 2, s.from - 1, s.runs)

\* A run more.
LEMMA RunAppended ==
    ASSUME NEW paper, NEW kind, NEW from \in Nat \ {0}, NEW f \in Nat, from <= f,
           NEW last \in Int, f # from => paper[f - 1][1] = kind,
           NEW runs, AreRuns(paper, kind, from, f - 2, f - 1, runs),
           NEW run, run = [from |-> f, to |-> last], RunAt(paper, kind, from, last, run)
    PROVE  AreRuns(paper, kind, from, last, last, Append(runs, run))
<1> DEFINE n == Len(runs)
           more == Append(runs, run)
<1>1. runs \in Seq(LineRun) /\ run \in LineRun /\ run.from = f /\ run.to = last /\ f <= last
  <2>1. PICK j \in f..last : paper[j][1] = "text"
    BY DEF RunAt
  <2> QED BY <2>1 DEF AreRuns, RunAt
<1>2. /\ n \in Nat /\ more \in Seq(LineRun) /\ Len(more) = n + 1 /\ more[n + 1] = run
      /\ (\A i \in 1..n : more[i] = runs[i]) /\ DOMAIN runs = 1..n /\ DOMAIN more = 1..(n + 1)
  BY <1>1
<1> HIDE DEF n, more
<1>3. /\ \A k \in 1..n : RunAt(paper, kind, from, f - 2, runs[k])
      /\ \A i, j \in 1..n : i < j => <<runs[i], runs[j]>> \in Between(paper, kind)
      /\ \A i \in from..(f - 1) : paper[i][1] = "text" =>
            \E k \in 1..n : i \in runs[k].from..runs[k].to
  BY <1>2 DEF AreRuns, InOrder
<1>4. \A i \in 1..(n + 1) : i \in 1..n \/ i = n + 1
  BY <1>2
<1>5. \A k \in 1..n : /\ runs[k] \in LineRun /\ runs[k].to \in Nat /\ runs[k].to <= f - 2
                      /\ RunAt(paper, kind, from, last, runs[k]) /\ f # from
  <2> TAKE k \in 1..n
  <2>1. RunAt(paper, kind, from, f - 2, runs[k])
    BY <1>3
  <2>2. /\ runs[k] \in LineRun /\ runs[k].to \in Nat /\ runs[k].from \in Nat
        /\ runs[k].to <= f - 2 /\ from <= runs[k].from
    BY <2>1 DEF RunAt, LineRun
  <2>3. PICK j \in runs[k].from..runs[k].to : paper[j][1] = "text"
    BY <2>1 DEF RunAt
  <2> DEFINE rf == runs[k].from
             rt == runs[k].to
  <2>4. rf \in Nat /\ rt \in Nat /\ rt <= f - 2 /\ from <= rf /\ j \in rf..rt
    BY <2>2, <2>3
  <2> HIDE DEF rf, rt
  <2>5. f # from /\ rt <= last
    BY <2>4, <1>1
  <2> QED BY <2>1, <2>2, <2>5 DEF RunAt, rt
<1>6. \A k \in 1..(n + 1) : RunAt(paper, kind, from, last, more[k])
  BY <1>2, <1>4, <1>5
<1>7. InOrder(more, Between(paper, kind))
  <2> SUFFICES ASSUME NEW i \in 1..(n + 1), NEW j \in 1..(n + 1), i < j
               PROVE  <<more[i], more[j]>> \in Between(paper, kind)
    BY <1>2 DEF InOrder
  <2>1. i \in 1..n
    BY <1>2
  <2>2. CASE j \in 1..n
    BY <2>1, <2>2, <1>2, <1>3
  <2>3. CASE j = n + 1
    <3>1. more[i] = runs[i] /\ more[j] = run /\ runs[i] \in LineRun
      BY <2>1, <2>3, <1>2, <1>5
    <3>2. runs[i].to \in Nat /\ runs[i].to <= f - 2 /\ paper[f - 1][1] = kind
      BY <2>1, <1>5
    <3>3. PICK l : l = f - 1
      OBVIOUS
    <3> DEFINE rt == runs[i].to
    <3>4. rt \in Nat /\ rt <= f - 2
      BY <3>2
    <3> HIDE DEF rt
    <3>5. l \in Nat /\ rt < l /\ l < f
      BY <3>3, <3>4
    <3>6. paper[l][1] = kind
      BY <3>2, <3>3
    <3> QED BY <3>1, <3>5, <3>6, <1>1 DEF Between, rt
  <2> QED BY <2>2, <2>3, <1>4
<1>8. ASSUME NEW i \in from..last, paper[i][1] = "text"
      PROVE  \E k \in 1..(n + 1) : i \in more[k].from..more[k].to
  <2>1. CASE i \in from..(f - 1)
    <3>1. PICK k \in 1..n : i \in runs[k].from..runs[k].to
      BY <2>1, <1>3, <1>8
    <3> QED BY <3>1, <1>2
  <2>2. CASE i \in f..last
    BY <2>2, <1>1, <1>2
  <2> QED BY <2>1, <2>2
<1> QED BY <1>2, <1>6, <1>7, <1>8 DEF AreRuns, more

LEMMA FlushedWell ==
    ASSUME NEW paper, NEW kind, NEW from \in Nat \ {0}, NEW s, NEW i \in Nat, from <= i,
           Reading(paper, kind, from, s, i)
    PROVE  AreRuns(paper, kind, from, i - 1, i - 1, Flushed(paper, s, i))
<1>1. /\ s.from \in Nat /\ from <= s.from /\ s.from <= i
      /\ (\A j \in s.from..(i - 1) : paper[j][1] # kind)
      /\ (s.from # from => paper[s.from - 1][1] = kind)
      /\ AreRuns(paper, kind, from, s.from - 2, s.from - 1, s.runs)
  BY DEF Reading
<1> DEFINE f == s.from
           runs == s.runs
<1>2. /\ f \in Nat /\ from <= f /\ f <= i /\ (\A j \in f..(i - 1) : paper[j][1] # kind)
      /\ (f # from => paper[f - 1][1] = kind) /\ AreRuns(paper, kind, from, f - 2, f - 1, runs)
      /\ Flushed(paper, s, i) = IF \E j \in f..(i - 1) : paper[j][1] = "text"
                              THEN Append(runs, [from |-> f, to |-> i - 1]) ELSE runs
  BY <1>1 DEF Flushed
<1> HIDE DEF f, runs
<1>3. CASE \E j \in f..(i - 1) : paper[j][1] = "text"
  <2> DEFINE run == [from |-> f, to |-> i - 1]
             last == i - 1
  <2>0. last \in Int /\ f <= last /\ last \in Nat /\ run = [from |-> f, to |-> last]
    BY <1>2, <1>3
  <2>1. RunAt(paper, kind, from, last, run)
    <3>1. run \in LineRun
      BY <2>0, <1>2 DEF LineRun
    <3> QED BY <3>1, <2>0, <1>2, <1>3 DEF RunAt
  <2>2. Flushed(paper, s, i) = Append(runs, run)
    BY <1>2, <1>3
  <2> HIDE DEF run, last
  <2>3. AreRuns(paper, kind, from, last, last, Append(runs, run))
    BY <2>0, <2>1, <1>2, RunAppended
  <2> QED BY <2>2, <2>3 DEF last
<1>4. CASE ~\E j \in f..(i - 1) : paper[j][1] = "text"
  <2>1. Flushed(paper, s, i) = runs
    BY <1>2, <1>4
  <2>2. \A k \in DOMAIN runs : RunAt(paper, kind, from, i - 1, runs[k])
    <3> TAKE k \in DOMAIN runs
    <3>1. RunAt(paper, kind, from, f - 2, runs[k])
      BY <1>2 DEF AreRuns
    <3>2. runs[k].to \in Nat /\ runs[k].to <= f - 2
      BY <3>1 DEF RunAt, LineRun
    <3> DEFINE rt == runs[k].to
    <3>3. rt \in Nat /\ rt <= f - 2
      BY <3>2
    <3> HIDE DEF rt
    <3>4. rt <= i - 1
      BY <3>3, <1>2
    <3> QED BY <3>1, <3>4 DEF RunAt, rt
  <2>3. ASSUME NEW j \in from..(i - 1), paper[j][1] = "text"
        PROVE  \E k \in DOMAIN runs : j \in runs[k].from..runs[k].to
    <3>1. j \in from..(f - 1)
      BY <2>3, <1>2, <1>4
    <3> QED BY <3>1, <2>3, <1>2 DEF AreRuns
  <2> QED BY <2>1, <2>2, <2>3, <1>2 DEF AreRuns
<1> QED BY <1>3, <1>4

LEMMA ReadingStep ==
    ASSUME NEW paper, NEW kind, kind # "text", NEW from \in Nat \ {0}, NEW s, NEW i \in Nat, from <= i,
           Reading(paper, kind, from, s, i)
    PROVE  Reading(paper, kind, from, ReadLine(paper, kind, s, i), i + 1)
<1>1. CASE paper[i][1] = kind
  <2> DEFINE runs == Flushed(paper, s, i)
  <2>1. AreRuns(paper, kind, from, i - 1, i - 1, runs)
    BY FlushedWell
  <2>2. ReadLine(paper, kind, s, i) = [runs |-> runs, from |-> i + 1]
    BY <1>1 DEF ReadLine
  <2> HIDE DEF runs
  <2>3. AreRuns(paper, kind, from, i - 1, i, runs)
    <3>1. \A j \in from..i : j \in from..(i - 1) \/ j = i
      OBVIOUS
    <3> QED BY <3>1, <2>1, <1>1 DEF AreRuns
  <2> DEFINE r == [runs |-> runs, from |-> i + 1]
  <2>4. r.runs = runs /\ r.from = i + 1
    OBVIOUS
  <2>5. i + 1 - 2 = i - 1 /\ i + 1 - 1 = i
    OBVIOUS
  <2>6. \A j \in (i + 1)..(i + 1 - 1) : paper[j][1] # kind
    OBVIOUS
  <2>7. i + 1 \in Nat /\ from <= i + 1 /\ i + 1 <= i + 1
    OBVIOUS
  <2>8. paper[i + 1 - 1][1] = kind
    BY <1>1, <2>5
  <2>9. AreRuns(paper, kind, from, i + 1 - 2, i + 1 - 1, runs)
    BY <2>3, <2>5
  <2>10. Reading(paper, kind, from, r, i + 1)
    BY <2>4, <2>6, <2>7, <2>8, <2>9 DEF Reading
  <2> QED BY <2>2, <2>10
<1>2. CASE paper[i][1] # kind
  <2>1. ReadLine(paper, kind, s, i) = s
    BY <1>2 DEF ReadLine
  <2> DEFINE f == s.from
  <2>2. f \in Nat /\ f <= i /\ \A j \in f..(i - 1) : paper[j][1] # kind
    BY DEF Reading
  <2> HIDE DEF f
  <2>3. f <= i + 1 /\ \A j \in f..(i + 1 - 1) : paper[j][1] # kind
    <3>1. \A j \in f..(i + 1 - 1) : j \in f..(i - 1) \/ j = i
      BY <2>2
    <3> QED BY <3>1, <2>2, <1>2
  <2> QED BY <2>1, <2>3 DEF Reading, f
<1> QED BY <1>1, <1>2

LEMMA RunsWell ==
    ASSUME NEW paper, NEW kind, kind # "text", NEW from \in Nat \ {0}, NEW to \in Nat, from <= to + 1
    PROVE  AreRuns(paper, kind, from, to, to, RunsOf(paper, kind, from, to))
<1> DEFINE n == to - from + 1
           K == [runs : Seq(LineRun), from : Nat]
           start == [runs |-> <<>>, from |-> from]
           step == [p \in K \X (1..n) |-> ReadLine(paper, kind, p[1], from + p[2] - 1)]
           D == 0..n
           R(f) == f = [m \in 0..(to - from + 1) |->
                          IF m = 0 THEN start ELSE ReadLine(paper, kind, f[m - 1], from + m - 1)]
           f == CHOOSE f : R(f)
<1>1. n \in Nat /\ start \in K /\ from + n = to + 1
  <2>1. <<>> \in Seq(LineRun)
    OBVIOUS
  <2> QED BY <2>1
<1>2. \A k \in K, i \in 1..n :
        /\ step[<<k, i>>] = ReadLine(paper, kind, k, from + i - 1)
        /\ step[<<k, i>>] \in K
  <2> TAKE k \in K, i \in 1..n
  <2>1. PICK l \in Nat \ {0} : l = from + i - 1
    BY <1>1
  <2>2. k.runs \in Seq(LineRun) /\ k.from \in Nat
    OBVIOUS
  <2> DEFINE runs == k.runs
             run == [from |-> k.from, to |-> l - 1]
  <2>3. run \in LineRun /\ runs \in Seq(LineRun)
    BY <2>1, <2>2 DEF LineRun
  <2>4. Append(runs, run) \in Seq(LineRun)
    <3> HIDE DEF runs, run
    <3> QED BY <2>3
  <2>5. Flushed(paper, k, l) \in Seq(LineRun)
    BY <2>3, <2>4 DEF Flushed
  <2>6. ReadLine(paper, kind, k, l) \in K
    BY <2>1, <2>5 DEF ReadLine
  <2> QED BY <2>1, <2>6
<1> HIDE DEF n, K, start, step
<1>3. PICK g \in [0..n -> K] : StepsFrom(g, step, start, n)
  BY <1>1, <1>2, StepsExist
<1>4. R(g)
  <2>1. ASSUME NEW m \in 0..n
        PROVE  g[m] = IF m = 0 THEN start ELSE ReadLine(paper, kind, g[m - 1], from + m - 1)
    <3>1. CASE m = 0
      BY <3>1, <1>3 DEF StepsFrom
    <3>2. CASE m # 0
      <4>1. m \in 1..n /\ m - 1 \in 0..n
        BY <3>2, <1>1
      <4>2. g[m - 1] \in K /\ g[m] = step[<<g[m - 1], m>>]
        BY <4>1, <1>3 DEF StepsFrom
      <4> QED BY <3>2, <4>1, <4>2, <1>2
    <3> QED BY <3>1, <3>2
  <2>2. g = [m \in 0..n |-> g[m]]
    BY <1>3
  <2> QED BY <2>1, <2>2 DEF n
<1>5. R(f)
  <2>1. \E x : R(x)
    BY <1>4
  <2> HIDE DEF R
  <2> QED BY <2>1
<1>6. RunsOf(paper, kind, from, to) = Flushed(paper, f[n], to + 1)
  BY DEF RunsOf, start, n
<1> HIDE DEF f
<1>7. \A m \in 0..n : f[m] = IF m = 0 THEN start ELSE ReadLine(paper, kind, f[m - 1], from + m - 1)
  BY <1>5 DEF n
<1> DEFINE S == {m \in 0..n : Reading(paper, kind, from, f[m], from + m)}
<1>8. 0 \in S
  <2>1. f[0] = start
    BY <1>1, <1>7
  <2>2. start = [runs |-> <<>>, from |-> from] /\ start.runs = <<>> /\ start.from = from
    BY DEF start
  <2>3. AreRuns(paper, kind, from, from - 2, from - 1, <<>>)
    BY DEF AreRuns, InOrder
  <2>4. Reading(paper, kind, from, start, from + 0)
    BY <2>2, <2>3 DEF Reading
  <2> QED BY <2>1, <2>4, <1>1
<1>9. ASSUME NEW m \in 0..(n - 1), m \in S PROVE m + 1 \in S
  <2>1. PICK j \in 0..n : j = m + 1 /\ j - 1 = m /\ j # 0
    BY <1>1
  <2>2. PICK i \in Nat : i = from + m /\ from <= i /\ i = from + j - 1 /\ i + 1 = from + j
    BY <2>1, <1>1
  <2>3. f[j] = ReadLine(paper, kind, f[j - 1], from + j - 1)
    BY <2>1, <1>7
  <2>4. f[j] = ReadLine(paper, kind, f[m], i)
    BY <2>1, <2>2, <2>3
  <2>5. Reading(paper, kind, from, f[m], i)
    BY <2>2, <1>9
  <2>6. Reading(paper, kind, from, ReadLine(paper, kind, f[m], i), i + 1)
    BY <2>2, <2>5, ReadingStep
  <2> QED BY <2>1, <2>2, <2>4, <2>6
<1> HIDE DEF S
<1>10. \A m \in 0..n : m \in S
  BY <1>1, <1>8, <1>9, InductionUpTo
<1>11. Reading(paper, kind, from, f[n], to + 1)
  BY <1>1, <1>10 DEF S
<1>12. PICK i \in Nat : i = to + 1 /\ i - 1 = to /\ from <= i
  OBVIOUS
<1>13. AreRuns(paper, kind, from, i - 1, i - 1, Flushed(paper, f[n], i))
  BY <1>11, <1>12, FlushedWell
<1> QED BY <1>6, <1>12, <1>13

-----------------------------------------------------------------------------
(* Paragraphs.                                                              *)

\* The pieces of the lines from..to, which are text.
PiecesOf(paper, from, to) == {x \in AllPieces(paper) : x[1] \in from..to}
TextLines(paper, r) ==
    /\ r \in LineRun /\ 1 <= r.from /\ r.from <= r.to /\ r.to <= Len(paper)
    /\ \A j \in r.from..r.to : paper[j][1] = "text"

LEMMA LineFacts ==
    ASSUME NEW paper \in Seq(Line), NEW i \in 1..Len(paper), paper[i][1] = "text"
    PROVE  /\ paper[i][2] \in Nat \ {0} /\ Parts(paper[i][2]) \in Nat \ {0}
           /\ \A p \in 1..Parts(paper[i][2]) :
                /\ <<i, p>> \in AllPieces(paper)
                /\ PartLength(paper[i][2], p) \in 1..MaxChars
<1>1. paper[i] \in Line
  OBVIOUS
<1>2. paper[i][2] \in Nat \ {0}
  BY <1>1 DEF Line
<1>3. Parts(paper[i][2]) \in Nat \ {0} /\ \A p \in 1..Parts(paper[i][2]) : PartLength(paper[i][2], p) \in 1..MaxChars
  BY <1>2, PartFacts
<1>4. \A p \in 1..Parts(paper[i][2]) : <<i, p>> \in AllPieces(paper)
  <2> TAKE p \in 1..Parts(paper[i][2])
  <2>1. <<i, p>> \in {i} \X (1..Parts(paper[i][2]))
    OBVIOUS
  <2>2. i \in {j \in DOMAIN paper : paper[j][1] = "text"}
    OBVIOUS
  <2> QED BY <2>1, <2>2 DEF AllPieces
<1> QED BY <1>2, <1>3, <1>4

\* Within a paragraph everything is one separator apart.
LEMMA NotApart ==
    ASSUME NEW paper, NEW r, TextLines(paper, r), NEW x, NEW y, x[1] \in r.from..r.to, y[1] \in r.from..r.to
    PROVE  Apart(paper, x, y) = 1
<1> DEFINE a == r.from
           b == r.to
<1>1. a \in Nat /\ b \in Nat /\ \A j \in a..b : paper[j][1] = "text"
  BY DEF TextLines, LineRun
<1>2. x[1] \in a..b /\ y[1] \in a..b
  OBVIOUS
<1> HIDE DEF a, b
<1>3. \A j \in x[1]..y[1] : j \in a..b
  BY <1>1, <1>2
<1>4. \A j \in x[1]..y[1] : paper[j][1] # "blank"
  BY <1>1, <1>3
<1> QED BY <1>4 DEF Apart

LEMMA OneBox ==
    ASSUME NEW paper \in Seq(Line), NEW b, Good(paper, b)
    PROVE  PackedWell(paper, <<b>>, Items(b.text))
<1>1. b \in Box(paper)
  BY BoxFacts
<1> DEFINE s == <<b>>
<1>2. s \in Seq(Box(paper)) /\ DOMAIN s = {1} /\ s[1] = b /\ Len(s) = 1
  BY <1>1
<1> HIDE DEF s
<1>3. InOrder(s, Follow(paper)) /\ Linked(s, TooBig(paper))
  BY <1>2 DEF InOrder, Linked
<1>4. TextOf(s) = Items(b.text)
  BY <1>2 DEF TextOf
<1> QED BY <1>2, <1>3, <1>4 DEF PackedWell, s

LEMMA OrderedIsLinked ==
    ASSUME NEW T, NEW s \in Seq(T), NEW R, InOrder(s, R)
    PROVE  Linked(s, R)
<1>1. \A i \in 1..(Len(s) - 1) : i \in DOMAIN s /\ i + 1 \in DOMAIN s /\ i < i + 1
  OBVIOUS
<1> QED BY <1>1 DEF InOrder, Linked

\* A piece by itself.
PieceBoxed(paper, x, b) == b = [text |-> <<x>>, length |-> PartLength(paper[x[1]][2], x[2])]

LEMMA PieceBox ==
    ASSUME NEW paper \in Seq(Line), NEW x \in AllPieces(paper), NEW b, PieceBoxed(paper, x, b)
    PROVE  Good(paper, b) /\ Final(b) = x /\ b.text[1] = x /\ Items(b.text) = {x}
<1> DEFINE T == AllPieces(paper)
           l == PartLength(paper[x[1]][2], x[2])
           t == <<x>>
<1>1. l \in 1..MaxChars
  BY PieceFacts
<1>2. t \in Seq(T) /\ Len(t) = 1 /\ t[1] = x /\ DOMAIN t = {1} /\ t # <<>> /\ t = Append(<<>>, x)
  <2>1. x \in T
    OBVIOUS
  <2> HIDE DEF T
  <2>2. t \in Seq(T) /\ Len(t) = 1 /\ t[1] = x /\ DOMAIN t = {1} /\ t # <<>>
    BY <2>1
  <2>3. t = Append(<<>>, x)
    OBVIOUS
  <2> QED BY <2>2, <2>3
<1>3. SizeOf(paper, t) = l
  <2>1. SizeOf(paper, <<>>) = 0
    <3>1. <<>> \in Seq(T)
      OBVIOUS
    <3>2. SizeOf(paper, <<>>) = TotalLength([i \in DOMAIN <<>> |-> Adds(paper, <<>>, i)])
      BY <3>1, AddsFacts
    <3>3. [i \in DOMAIN <<>> |-> Adds(paper, <<>>, i)] = <<>>
      OBVIOUS
    <3> QED BY <3>2, <3>3, TotalEmpty
  <2>2. <<>> \in Seq(T)
    OBVIOUS
  <2>3. SizeOf(paper, Append(<<>>, x)) = SizeOf(paper, <<>>) + l + 0
    BY <2>2, SizeAppend
  <2> HIDE DEF t, l
  <2> QED BY <2>1, <2>3, <1>1, <1>2
<1>0. b = [text |-> t, length |-> l]
  BY DEF PieceBoxed
<1>4. b.text = t /\ b.length = l
  BY <1>0
<1>5. l \in Nat /\ l <= MaxChars
  BY <1>1, MaxCharsAssumption
<1> HIDE DEF t, l
<1>6. b \in Box(paper)
  BY <1>0, <1>2, <1>5 DEF Box
<1>7. InOrder(t, Precede(paper))
  BY <1>2 DEF InOrder
<1>8. Good(paper, b)
  BY <1>2, <1>3, <1>4, <1>5, <1>6, <1>7 DEF Good
<1>9. Items(t) = {x}
  BY <1>2 DEF Items
<1> QED BY <1>2, <1>4, <1>8, <1>9 DEF Final

\* The pieces of a line.
LEMMA LinePieces ==
    ASSUME NEW paper \in Seq(Line), NEW i \in 1..Len(paper), paper[i][1] = "text"
    PROVE  /\ Pieces(paper, i) \in Seq(Box(paper)) /\ InOrder(Pieces(paper, i), Follow(paper))
           /\ \A b \in Items(Pieces(paper, i)) :
                /\ Good(paper, b) /\ Final(b) = b.text[1] /\ b.text[1] \in PiecesOf(paper, i, i)
                /\ Items(b.text) = {b.text[1]}
           /\ \A x \in PiecesOf(paper, i, i) : \E b \in Items(Pieces(paper, i)) : x \in Items(b.text)
<1> DEFINE m == Parts(paper[i][2])
           box(p) == [text |-> << <<i, p>> >>, length |-> PartLength(paper[i][2], p)]
           s == Pieces(paper, i)
<1>1. m \in Nat \ {0} /\ \A p \in 1..m : <<i, p>> \in AllPieces(paper)
  BY LineFacts
<1>2. s = [p \in 1..m |-> box(p)]
  BY DEF Pieces
<1>3. ASSUME NEW p \in 1..m
      PROVE  /\ s[p] = box(p) /\ Good(paper, s[p]) /\ Final(s[p]) = <<i, p>> /\ s[p].text[1] = <<i, p>>
             /\ Items(s[p].text) = { <<i, p>> } /\ s[p] \in Box(paper) /\ <<i, p>> \in PiecesOf(paper, i, i)
  <2>1. s[p] = box(p)
    BY <1>2
  <2> DEFINE x == <<i, p>>
             b == s[p]
  <2>2. x \in AllPieces(paper) /\ x[1] = i /\ x[2] = p
    BY <1>1
  <2>3. PieceBoxed(paper, x, b)
    BY <2>1, <2>2 DEF PieceBoxed
  <2> HIDE DEF x, b, box, s
  <2>4. Good(paper, b) /\ Final(b) = x /\ b.text[1] = x /\ Items(b.text) = {x}
    BY <2>2, <2>3, PieceBox
  <2>5. b \in Box(paper)
    BY <2>4, BoxFacts
  <2>6. x \in PiecesOf(paper, i, i)
    BY <2>2 DEF PiecesOf
  <2> QED BY <2>1, <2>4, <2>5, <2>6 DEF x, b
<1> HIDE DEF box
<1>4. s \in Seq(Box(paper)) /\ DOMAIN s = 1..m /\ Len(s) = m
  <2>1. s \in [1..m -> Box(paper)]
    BY <1>2, <1>3
  <2> HIDE DEF s, m
  <2> QED BY <2>1, <1>1
<1> HIDE DEF s, m
<1>5. InOrder(s, Follow(paper))
  <2> SUFFICES ASSUME NEW p \in 1..m, NEW q \in 1..m, p < q PROVE <<s[p], s[q]>> \in Follow(paper)
    BY <1>4 DEF InOrder
  <2>1. Items(s[p].text) = { <<i, p>> } /\ Items(s[q].text) = { <<i, q>> } /\ s[p] \in Box(paper) /\ s[q] \in Box(paper)
    BY <1>3
  <2>2. Precedes(<<i, p>>, <<i, q>>)
    BY DEF Precedes
  <2> QED BY <2>1, <2>2 DEF Follow
<1>6. ASSUME NEW b \in Items(s)
      PROVE  /\ Good(paper, b) /\ Final(b) = b.text[1] /\ b.text[1] \in PiecesOf(paper, i, i)
             /\ Items(b.text) = {b.text[1]}
  <2>1. PICK p \in 1..m : b = s[p]
    BY <1>4 DEF Items
  <2> QED BY <2>1, <1>3
<1>7. ASSUME NEW x \in PiecesOf(paper, i, i) PROVE \E b \in Items(s) : x \in Items(b.text)
  <2>1. x \in AllPieces(paper) /\ x[1] = i
    BY DEF PiecesOf
  <2>2. x[2] \in 1..m /\ x = <<i, x[2]>>
    BY <2>1, PieceFacts DEF m
  <2>3. PICK p \in 1..m : x = <<i, p>>
    BY <2>2
  <2>4. x \in Items(s[p].text)
    BY <2>3, <1>3
  <2>5. s[p] \in Items(s)
    BY <1>4 DEF Items
  <2> QED BY <2>4, <2>5
<1> QED BY <1>4, <1>5, <1>6, <1>7 DEF s

\* No part is longer than the whole.
LEMMA TotalBounds ==
    ASSUME NEW lengths \in Seq(Nat)
    PROVE  TotalLength(lengths) \in Nat /\ \A i \in 1..Len(lengths) : lengths[i] <= TotalLength(lengths)
<1> DEFINE n == Len(lengths)
<1>1. n \in Nat /\ lengths \in Seq(Int) /\ \A i \in 1..n : lengths[i] \in Nat
  OBVIOUS
<1>2. PICK f : Sums(f, lengths) /\ TotalLength(lengths) = f[n]
  BY <1>1, SumsExist
<1>3. f[0] = 0 /\ \A i \in 1..n : f[i] = f[i - 1] + lengths[i]
  BY <1>2 DEF Sums
<1> HIDE DEF n
<1> DEFINE S == {i \in 0..n : f[i] \in Nat /\ \A j \in 1..i : lengths[j] <= f[i]}
<1>4. 0 \in S
  BY <1>1, <1>3
<1>5. ASSUME NEW i \in 0..(n - 1), i \in S PROVE i + 1 \in S
  <2>1. PICK k \in 1..n : k = i + 1 /\ k - 1 = i /\ k \in 0..n
    BY <1>1
  <2>2. f[k] = f[i] + lengths[k] /\ lengths[k] \in Nat /\ f[i] \in Nat
    BY <2>1, <1>1, <1>3, <1>5
  <2>3. f[k] \in Nat
    BY <2>2
  <2>4. \A j \in 1..k : lengths[j] <= f[k]
    <3> TAKE j \in 1..k
    <3>1. CASE j = k
      BY <3>1, <2>2
    <3>2. CASE j \in 1..i
      <4>1. lengths[j] <= f[i]
        BY <3>2, <1>5
      <4>2. j \in 1..n
        BY <2>1, <1>1
      <4>3. lengths[j] \in Nat
        BY <4>2, <1>1
      <4> QED BY <4>1, <4>3, <2>2
    <3> QED BY <3>1, <3>2, <2>1
  <2> QED BY <2>1, <2>3, <2>4
<1> HIDE DEF S
<1>6. \A i \in 0..n : i \in S
  BY <1>1, <1>4, <1>5, InductionUpTo
<1>7. f[n] \in Nat /\ \A j \in 1..n : lengths[j] <= f[n]
  BY <1>1, <1>6 DEF S
<1> QED BY <1>2, <1>7 DEF n

\* The unit of a paragraph that fits.
WholeUnit(paper, paragraph) ==
    [text |-> [k \in 1..(paragraph.to - paragraph.from + 1) |-> <<paragraph.from + k - 1, 1>>],
     length |-> TotalLength([k \in 1..(paragraph.to - paragraph.from + 1) |->
                    paper[paragraph.from + k - 1][2] + (IF k = 1 THEN 0 ELSE 1)])]

LEMMA WholeIsGood ==
    ASSUME NEW paper \in Seq(Line), NEW r, TextLines(paper, r), WholeUnit(paper, r).length <= MaxChars
    PROVE  /\ Good(paper, WholeUnit(paper, r))
           /\ Items(WholeUnit(paper, r).text) = PiecesOf(paper, r.from, r.to)
<1> DEFINE from == r.from
           to == r.to
           n == to - from + 1
           T == AllPieces(paper)
           text == [k \in 1..n |-> <<from + k - 1, 1>>]
           lens == [k \in 1..n |-> paper[from + k - 1][2] + (IF k = 1 THEN 0 ELSE 1)]
           whole == WholeUnit(paper, r)
<1>1. /\ from \in Nat \ {0} /\ to \in Nat /\ from <= to /\ to <= Len(paper) /\ Len(paper) \in Nat
      /\ n \in Nat \ {0} /\ \A j \in from..to : paper[j][1] = "text"
  BY DEF TextLines, LineRun
<1>2. whole.text = text /\ whole.length = TotalLength(lens) /\ TotalLength(lens) <= MaxChars
      /\ whole = [text |-> text, length |-> TotalLength(lens)]
  BY DEF WholeUnit
<1> HIDE DEF from, to, whole
<1>3. \A k \in 1..n : from + k - 1 \in from..to /\ from + k - 1 \in 1..Len(paper)
  BY <1>1
<1>4. ASSUME NEW j \in from..to
      PROVE  j \in 1..Len(paper) /\ paper[j][2] \in Nat \ {0} /\ j - from + 1 \in 1..n /\ from + (j - from + 1) - 1 = j
  <2>1. j \in 1..Len(paper) /\ paper[j][1] = "text"
    BY <1>1
  <2>2. paper[j][2] \in Nat \ {0}
    BY <2>1, LineFacts
  <2> QED BY <2>1, <2>2, <1>1
<1>5. lens \in Seq(Nat) /\ Len(lens) = n
  <2>1. ASSUME NEW k \in 1..n PROVE paper[from + k - 1][2] + (IF k = 1 THEN 0 ELSE 1) \in Nat
    <3>1. PICK j \in from..to : j = from + k - 1
      BY <1>3
    <3>2. paper[j][2] \in Nat
      BY <1>4
    <3> QED BY <3>1, <3>2
  <2>2. lens \in [1..n -> Nat]
    BY <2>1
  <2> HIDE DEF lens
  <2>3. n \in Nat /\ lens \in [1..n -> Nat]
    BY <2>2, <1>1
  <2> HIDE DEF n
  <2> QED BY <2>3
<1>6. ASSUME NEW k \in 1..n PROVE lens[k] <= MaxChars
  <2>1. k \in 1..Len(lens)
    BY <1>5
  <2> HIDE DEF lens
  <2>2. lens[k] <= TotalLength(lens) /\ TotalLength(lens) \in Nat
    BY <2>1, <1>5, TotalBounds
  <2>3. lens[k] \in Nat
    BY <2>1, <1>5
  <2> QED BY <2>2, <2>3, <1>2, MaxCharsAssumption
<1>7. ASSUME NEW k \in 1..n
      PROVE  /\ <<from + k - 1, 1>> \in T /\ Parts(paper[from + k - 1][2]) = 1
             /\ PartLength(paper[from + k - 1][2], 1) = paper[from + k - 1][2]
  <2>1. PICK j \in from..to : j = from + k - 1
    BY <1>3
  <2>2. j \in 1..Len(paper) /\ paper[j][2] \in Nat \ {0} /\ paper[j][1] = "text"
    BY <1>1, <1>4
  <2>3. lens[k] = paper[j][2] + (IF k = 1 THEN 0 ELSE 1)
    BY <2>1
  <2>4. paper[j][2] <= MaxChars
    <3>1. lens[k] <= MaxChars
      BY <1>6
    <3> HIDE DEF lens
    <3> QED BY <2>2, <2>3, <3>1, MaxCharsAssumption
  <2>5. Parts(paper[j][2]) = 1 /\ PartLength(paper[j][2], 1) = paper[j][2]
    BY <2>2, <2>4, PartFacts
  <2>6. 1 \in 1..Parts(paper[j][2])
    BY <2>5
  <2>7. <<j, 1>> \in T
    BY <2>2, <2>6, LineFacts
  <2> QED BY <2>1, <2>5, <2>7
<1>8. text \in Seq(T) /\ Len(text) = n /\ DOMAIN text = 1..n /\ text # <<>>
  <2>1. text \in [1..n -> T]
    BY <1>7
  <2>2. n \in Nat \ {0} /\ DOMAIN text = 1..n
    BY <1>1
  <2> HIDE DEF text, T, n
  <2>3. text \in Seq(T) /\ Len(text) = n
    BY <2>1, <2>2
  <2>4. text # <<>>
    BY <2>2, <2>3
  <2> QED BY <2>2, <2>3, <2>4
<1>9. \A k \in 1..n : text[k] = <<from + k - 1, 1>>
  OBVIOUS
<1> HIDE DEF text
<1>10. ASSUME NEW k \in 1..n PROVE Adds(paper, text, k) = lens[k]
  <2>1. PartLength(paper[text[k][1]][2], text[k][2]) = paper[from + k - 1][2]
    <3>1. text[k][1] = from + k - 1 /\ text[k][2] = 1
      BY <1>9
    <3>2. PICK l : l = from + k - 1
      OBVIOUS
    <3>3. PartLength(paper[l][2], 1) = paper[l][2]
      BY <3>2, <1>7
    <3> QED BY <3>1, <3>2, <3>3
  <2>2. CASE k = 1
    <3>1. Adds(paper, text, k) = paper[from + k - 1][2] + 0
      BY <2>1, <2>2 DEF Adds
    <3> QED BY <3>1, <2>2
  <2>3. CASE k # 1
    <3>1. k - 1 \in 1..n
      BY <2>3, <1>1
    <3>2. text[k - 1][1] \in r.from..r.to /\ text[k][1] \in r.from..r.to
      BY <3>1, <1>3, <1>9 DEF from, to
    <3>3. Apart(paper, text[k - 1], text[k]) = 1
      BY <3>2, NotApart
    <3> QED BY <2>1, <2>3, <3>3 DEF Adds
  <2> QED BY <2>2, <2>3
<1>11. SizeOf(paper, text) = TotalLength(lens)
  <2>1. [i \in DOMAIN text |-> Adds(paper, text, i)] = lens
    BY <1>8, <1>10
  <2> HIDE DEF lens
  <2> QED BY <2>1, <1>8, AddsFacts
<1>12. InOrder(text, Precede(paper))
  <2> SUFFICES ASSUME NEW i \in 1..n, NEW j \in 1..n, i < j PROVE <<text[i], text[j]>> \in Precede(paper)
    BY <1>8 DEF InOrder
  <2>1. text[i] \in AllPieces(paper) /\ text[j] \in AllPieces(paper)
    BY <1>7, <1>9
  <2>2. text[i][1] < text[j][1]
    BY <1>1, <1>9
  <2> QED BY <2>1, <2>2 DEF Precede, Precedes
<1>13. Items(text) = PiecesOf(paper, from, to)
  <2>1. ASSUME NEW x \in Items(text) PROVE x \in PiecesOf(paper, from, to)
    <3>1. PICK k \in 1..n : x = <<from + k - 1, 1>>
      BY <1>8, <1>9 DEF Items
    <3> QED BY <3>1, <1>3, <1>7 DEF PiecesOf
  <2>2. ASSUME NEW x \in PiecesOf(paper, from, to) PROVE x \in Items(text)
    <3>1. x \in AllPieces(paper) /\ x[1] \in from..to
      BY DEF PiecesOf
    <3>2. PICK k \in 1..n : x[1] = from + k - 1
      BY <3>1, <1>4
    <3>3. x[2] \in 1..Parts(paper[x[1]][2]) /\ x = <<x[1], x[2]>>
      BY <3>1, PieceFacts
    <3>4. Parts(paper[x[1]][2]) = 1
      BY <3>2, <1>7
    <3>5. x = <<from + k - 1, 1>>
      BY <3>2, <3>3, <3>4
    <3>6. x = text[k] /\ k \in DOMAIN text
      BY <3>5, <1>8, <1>9
    <3> QED BY <3>6 DEF Items
  <2> QED BY <2>1, <2>2
<1>14. Good(paper, whole)
  <2>1. TotalLength(lens) \in Nat
    <3> HIDE DEF lens
    <3> QED BY <1>5, TotalBounds
  <2> HIDE DEF lens
  <2>2. whole \in Box(paper)
    BY <2>1, <1>2, <1>8 DEF Box
  <2> QED BY <2>2, <1>2, <1>8, <1>11, <1>12 DEF Good
<1> QED BY <1>2, <1>13, <1>14 DEF whole, from, to

LEMMA UnitsWell ==
    ASSUME NEW paper \in Seq(Line), NEW r, TextLines(paper, r)
    PROVE  PackedWell(paper, Units(paper, r), PiecesOf(paper, r.from, r.to))
<1> DEFINE whole == WholeUnit(paper, r)
           from == r.from
           to == r.to
           n == to - from + 1
           list == [k \in 1..n |-> Pieces(paper, from + k - 1)]
           flat == FlattenSeq(list)
           B == Box(paper)
<1>1. Units(paper, r) = IF whole.length <= MaxChars THEN <<whole>> ELSE Packed(flat, 1)
  BY DEF Units, WholeUnit
<1>2. /\ from \in Nat \ {0} /\ to \in Nat /\ from <= to /\ to <= Len(paper) /\ Len(paper) \in Nat
      /\ n \in Nat \ {0} /\ \A j \in from..to : paper[j][1] = "text"
  BY DEF TextLines, LineRun
<1>3. CASE whole.length <= MaxChars
  <2>1. Good(paper, whole) /\ Items(whole.text) = PiecesOf(paper, r.from, r.to)
    BY <1>3, WholeIsGood
  <2> HIDE DEF whole
  <2>2. PackedWell(paper, <<whole>>, Items(whole.text))
    BY <2>1, OneBox
  <2> QED BY <2>1, <2>2, <1>1, <1>3
<1>4. CASE ~(whole.length <= MaxChars)
  <2> HIDE DEF whole, from, to
  <2>1. ASSUME NEW k \in 1..n
        PROVE  /\ from + k - 1 \in 1..Len(paper) /\ from + k - 1 \in from..to
               /\ paper[from + k - 1][1] = "text" /\ list[k] = Pieces(paper, from + k - 1)
    BY <1>2
  <2>2. ASSUME NEW j \in from..to PROVE j - from + 1 \in 1..n /\ from + (j - from + 1) - 1 = j
    BY <1>2
  <2>3. \A k \in 1..n : list[k] \in Seq(B) /\ InOrder(list[k], Follow(paper))
    <3> TAKE k \in 1..n
    <3>1. PICK i \in 1..Len(paper) : i = from + k - 1
      BY <2>1
    <3>2. paper[i][1] = "text"
      BY <2>1, <3>1
    <3>3. Pieces(paper, i) \in Seq(B) /\ InOrder(Pieces(paper, i), Follow(paper))
      BY <3>2, LinePieces
    <3> QED BY <2>1, <3>1, <3>3
  <2>4. ASSUME NEW k \in 1..n, NEW b \in Items(list[k])
        PROVE  /\ Good(paper, b) /\ Final(b) = b.text[1] /\ Items(b.text) = {b.text[1]}
               /\ b.text[1] \in AllPieces(paper) /\ b.text[1][1] = from + k - 1 /\ b \in B
    <3>1. PICK i \in 1..Len(paper) : i = from + k - 1
      BY <2>1
    <3>2. paper[i][1] = "text" /\ b \in Items(Pieces(paper, i))
      BY <2>1, <2>4, <3>1
    <3>3. Good(paper, b) /\ Final(b) = b.text[1] /\ b.text[1] \in PiecesOf(paper, i, i) /\ Items(b.text) = {b.text[1]}
      BY <3>2, LinePieces
    <3>4. b.text[1][1] = i /\ b.text[1] \in AllPieces(paper)
      BY <3>3 DEF PiecesOf
    <3>5. b \in B
      BY <3>3, BoxFacts
    <3> QED BY <3>1, <3>3, <3>4, <3>5
  <2>5. list \in Seq(Seq(B)) /\ DOMAIN list = 1..n
    <3>1. list \in [1..n -> Seq(B)]
      BY <2>3
    <3>2. n \in Nat
      BY <1>2
    <3> HIDE DEF list, n, B
    <3> QED BY <3>1, <3>2
  <2>6. ASSUME NEW k \in 1..n, NEW l \in 1..n, k <= l, NEW a \in Items(list[k]), NEW b \in Items(list[l])
        PROVE  <<a, b>> \in Near(paper, 1)
    <3>1. /\ a \in B /\ b \in B /\ Final(a) = a.text[1]
          /\ a.text[1][1] = from + k - 1 /\ b.text[1][1] = from + l - 1
      BY <2>4
    <3>2. a.text[1][1] \in r.from..r.to /\ b.text[1][1] \in r.from..r.to
      BY <3>1, <2>1 DEF from, to
    <3>3. Apart(paper, Final(a), b.text[1]) = 1
      BY <3>1, <3>2, NotApart
    <3> QED BY <3>1, <3>3 DEF Near
  <2>7. ASSUME NEW k \in 1..n, NEW l \in 1..n, k < l, NEW a \in Items(list[k]), NEW b \in Items(list[l])
        PROVE  <<a, b>> \in Follow(paper)
    <3>1. /\ a \in B /\ b \in B /\ Items(a.text) = {a.text[1]} /\ Items(b.text) = {b.text[1]}
          /\ a.text[1][1] = from + k - 1 /\ b.text[1][1] = from + l - 1
      BY <2>4
    <3>2. a.text[1][1] < b.text[1][1]
      BY <3>1, <2>7, <1>2
    <3>3. Precedes(a.text[1], b.text[1])
      BY <3>2 DEF Precedes
    <3> QED BY <3>1, <3>3 DEF Follow
  <2>8. \A k \in 1..n : Linked(list[k], Near(paper, 1))
    <3> TAKE k \in 1..n
    <3>1. list[k] \in Seq(B)
      BY <2>3
    <3>2. InOrder(list[k], Near(paper, 1))
      <4>1. \A i \in DOMAIN list[k] : list[k][i] \in Items(list[k])
        BY DEF Items
      <4>2. k <= k
        BY <1>2
      <4> HIDE DEF list
      <4> QED BY <4>1, <4>2, <2>6 DEF InOrder
    <3> HIDE DEF list, B
    <3> QED BY <3>1, <3>2, OrderedIsLinked
  <2> HIDE DEF list
  <2>9. flat \in Seq(B) /\ Items(flat) = UNION {Items(list[k]) : k \in 1..n}
    <3> HIDE DEF B
    <3> QED BY <2>5, FlattenItems
  <2>10. InOrder(flat, Follow(paper))
    <3>1. \A j, k \in DOMAIN list : j < k =>
              \A x \in Items(list[j]), y \in Items(list[k]) : <<x, y>> \in Follow(paper)
      BY <2>5, <2>7
    <3>2. \A k \in DOMAIN list : InOrder(list[k], Follow(paper))
      BY <2>3, <2>5
    <3> HIDE DEF B
    <3> QED BY <3>1, <3>2, <2>5, FlattenOrdered
  <2>11. Linked(flat, Near(paper, 1))
    <3>1. \A j, k \in DOMAIN list : j < k =>
              \A x \in Items(list[j]), y \in Items(list[k]) : <<x, y>> \in Near(paper, 1)
      <4> TAKE j, k \in DOMAIN list
      <4> HAVE j < k
      <4>1. j \in 1..n /\ k \in 1..n
        BY <2>5
      <4>2. j <= k
        BY <4>1, <1>2
      <4> QED BY <4>1, <4>2, <2>6
    <3>2. \A k \in DOMAIN list : Linked(list[k], Near(paper, 1))
      BY <2>5, <2>8
    <3> HIDE DEF B
    <3> QED BY <3>1, <3>2, <2>5, FlattenOrdered
  <2> HIDE DEF flat
  <2>12. \A i \in DOMAIN flat : \E k \in 1..n : flat[i] \in Items(list[k])
    <3> TAKE i \in DOMAIN flat
    <3>1. flat[i] \in Items(flat)
      BY DEF Items
    <3> QED BY <3>1, <2>9
  <2>13. Packable(paper, flat, 1)
    <3>1. \A i \in DOMAIN flat : Good(paper, flat[i])
      BY <2>4, <2>12
    <3> QED BY <3>1, <2>9, <2>10, <2>11 DEF Packable
  <2>14. PackedWell(paper, Packed(flat, 1), TextOf(flat))
    BY <2>13, PackedSound
  <2>15. TextOf(flat) = PiecesOf(paper, from, to)
    <3>1. ASSUME NEW x \in TextOf(flat) PROVE x \in PiecesOf(paper, from, to)
      <4>1. PICK i \in DOMAIN flat : x \in Items(flat[i].text)
        BY DEF TextOf
      <4>2. PICK k \in 1..n : flat[i] \in Items(list[k])
        BY <2>12
      <4>3. x = flat[i].text[1] /\ x \in AllPieces(paper) /\ x[1] = from + k - 1
        BY <4>1, <4>2, <2>4
      <4> QED BY <4>3, <2>1 DEF PiecesOf
    <3>2. ASSUME NEW x \in PiecesOf(paper, from, to) PROVE x \in TextOf(flat)
      <4>1. x \in AllPieces(paper) /\ x[1] \in from..to
        BY DEF PiecesOf
      <4>2. PICK k \in 1..n : x[1] = from + k - 1
        BY <4>1, <2>2
      <4>3. PICK i \in 1..Len(paper) : i = x[1]
        BY <4>2, <2>1
      <4>4. i = from + k - 1 /\ paper[i][1] = "text" /\ list[k] = Pieces(paper, i)
        BY <4>2, <4>3, <2>1 DEF list
      <4>5. x \in PiecesOf(paper, i, i)
        BY <4>1, <4>3 DEF PiecesOf
      <4>6. PICK b \in Items(list[k]) : x \in Items(b.text)
        BY <4>4, <4>5, LinePieces
      <4>7. b \in Items(flat)
        BY <2>9
      <4>8. PICK j \in DOMAIN flat : flat[j] = b
        BY <4>7 DEF Items
      <4> QED BY <4>6, <4>8 DEF TextOf
    <3> QED BY <3>1, <3>2
  <2> QED BY <2>14, <2>15, <1>1, <1>4 DEF from, to
<1> QED BY <1>3, <1>4

-----------------------------------------------------------------------------
(* Sections.                                                                *)

Section(paper, r) == RunAt(paper, "heading", 1, Len(paper), r)
SectionBoxes(paper, section) ==
    Packed(FlattenSeq([k \in DOMAIN Paragraphs(paper, section) |->
                          Units(paper, Paragraphs(paper, section)[k])]), 2)

\* The paragraphs of a section have its text, with a blank line between any two.
LEMMA ParagraphsWell ==
    ASSUME NEW paper \in Seq(Line), NEW r, Section(paper, r)
    PROVE  /\ Paragraphs(paper, r) \in Seq(LineRun)
           /\ \A k \in DOMAIN Paragraphs(paper, r) :
                /\ TextLines(paper, Paragraphs(paper, r)[k])
                /\ r.from <= Paragraphs(paper, r)[k].from /\ Paragraphs(paper, r)[k].to <= r.to
           /\ InOrder(Paragraphs(paper, r), Between(paper, "blank"))
           /\ \A i \in r.from..r.to : paper[i][1] = "text" =>
                 \E k \in DOMAIN Paragraphs(paper, r) :
                    i \in Paragraphs(paper, r)[k].from..Paragraphs(paper, r)[k].to
<1> DEFINE from == r.from
           to == r.to
           ps == Paragraphs(paper, r)
<1>1. /\ from \in Nat \ {0} /\ to \in Nat /\ from <= to /\ to <= Len(paper) /\ Len(paper) \in Nat
      /\ \A j \in from..to : paper[j][1] # "heading"
  <2>1. PICK j \in r.from..r.to : paper[j][1] = "text"
    BY DEF Section, RunAt
  <2>2. r.from \in Nat /\ r.to \in Nat /\ 1 <= r.from /\ r.to <= Len(paper)
        /\ \A i \in r.from..r.to : paper[i][1] # "heading"
    BY DEF Section, RunAt, LineRun
  <2>3. r.from <= r.to
    BY <2>1, <2>2
  <2> QED BY <2>2, <2>3
<1>2. ps = RunsOf(paper, "blank", from, to)
  BY DEF Paragraphs
<1> HIDE DEF from, to, ps
<1>3. AreRuns(paper, "blank", from, to, to, ps)
  <2>1. from <= to + 1 /\ "blank" # "text"
    BY <1>1
  <2> QED BY <2>1, <1>1, <1>2, RunsWell
<1>4. ASSUME NEW k \in DOMAIN ps
      PROVE  TextLines(paper, ps[k]) /\ from <= ps[k].from /\ ps[k].to <= to
  <2>1. RunAt(paper, "blank", from, to, ps[k])
    BY <1>3 DEF AreRuns
  <2> DEFINE a == ps[k].from
             b == ps[k].to
  <2>2. /\ ps[k] \in LineRun /\ a \in Nat /\ b \in Nat /\ from <= a /\ b <= to
        /\ (\E j \in a..b : paper[j][1] = "text") /\ \A j \in a..b : paper[j][1] # "blank"
    BY <2>1 DEF RunAt, LineRun
  <2> HIDE DEF a, b
  <2>3. PICK j \in a..b : paper[j][1] = "text"
    BY <2>2
  <2>4. a <= b /\ 1 <= a /\ b <= Len(paper)
    BY <2>2, <2>3, <1>1
  <2>5. \A l \in a..b : paper[l][1] = "text"
    <3> TAKE l \in a..b
    <3>1. l \in from..to /\ l \in 1..Len(paper)
      BY <2>2, <2>4, <1>1
    <3>2. paper[l] \in Line
      BY <3>1
    <3>3. paper[l][1] \in {"blank", "heading", "text"}
      BY <3>2 DEF Line
    <3> QED BY <3>1, <3>3, <2>2, <1>1
  <2> QED BY <2>2, <2>4, <2>5 DEF TextLines, a, b
<1>5. /\ ps \in Seq(LineRun) /\ InOrder(ps, Between(paper, "blank"))
      /\ \A i \in from..to : paper[i][1] = "text" => \E k \in DOMAIN ps : i \in ps[k].from..ps[k].to
  BY <1>3 DEF AreRuns
<1> QED BY <1>4, <1>5 DEF from, to, ps

LEMMA SectionWell ==
    ASSUME NEW paper \in Seq(Line), NEW r, Section(paper, r)
    PROVE  PackedWell(paper, SectionBoxes(paper, r), PiecesOf(paper, r.from, r.to))
<1> DEFINE from == r.from
           to == r.to
           ps == Paragraphs(paper, r)
           n == Len(ps)
           list == [k \in DOMAIN ps |-> Units(paper, ps[k])]
           flat == FlattenSeq(list)
           B == Box(paper)
<1>1. /\ ps \in Seq(LineRun) /\ InOrder(ps, Between(paper, "blank"))
      /\ (\A k \in DOMAIN ps : TextLines(paper, ps[k]) /\ from <= ps[k].from /\ ps[k].to <= to)
      /\ \A i \in from..to : paper[i][1] = "text" => \E k \in DOMAIN ps : i \in ps[k].from..ps[k].to
  BY ParagraphsWell
<1>2. SectionBoxes(paper, r) = Packed(flat, 2)
  BY DEF SectionBoxes
<1>S. from \in Nat /\ to \in Nat
  BY DEF Section, RunAt, LineRun
<1> HIDE DEF ps, from, to
<1>3. DOMAIN ps = 1..n /\ n \in Nat
  BY <1>1
<1>4. ASSUME NEW k \in 1..n
      PROVE  /\ list[k] = Units(paper, ps[k]) /\ TextLines(paper, ps[k]) /\ ps[k].from \in Nat /\ ps[k].to \in Nat
             /\ PackedWell(paper, list[k], PiecesOf(paper, ps[k].from, ps[k].to))
             /\ from <= ps[k].from /\ ps[k].to <= to
  <2>1. TextLines(paper, ps[k]) /\ from <= ps[k].from /\ ps[k].to <= to
    BY <1>1, <1>3
  <2>2. list[k] = Units(paper, ps[k])
    BY <1>3
  <2>3. PackedWell(paper, list[k], PiecesOf(paper, ps[k].from, ps[k].to))
    BY <2>1, <2>2, UnitsWell
  <2>4. ps[k].from \in Nat /\ ps[k].to \in Nat
    BY <2>1 DEF TextLines, LineRun
  <2> QED BY <2>1, <2>2, <2>3, <2>4
<1>5. list \in Seq(Seq(B)) /\ DOMAIN list = 1..n
  <2>1. \A k \in 1..n : list[k] \in Seq(B)
    BY <1>4 DEF PackedWell
  <2>2. list \in [1..n -> Seq(B)]
    BY <2>1, <1>3
  <2> HIDE DEF list, n, B
  <2> QED BY <2>2, <1>3
<1> HIDE DEF list, n
<1>6. ASSUME NEW k \in 1..n, NEW b \in Items(list[k])
      PROVE  /\ Good(paper, b) /\ b \in B
             /\ \A x \in Items(b.text) : x \in AllPieces(paper) /\ x[1] \in ps[k].from..ps[k].to
             /\ Final(b) \in Items(b.text) /\ b.text[1] \in Items(b.text)
  <2>1. PICK i \in DOMAIN list[k] : b = list[k][i]
    BY DEF Items
  <2>2. Good(paper, b) /\ Items(b.text) \subseteq PiecesOf(paper, ps[k].from, ps[k].to)
    BY <2>1, <1>4 DEF PackedWell, TextOf
  <2>3. b \in B /\ Final(b) \in Items(b.text) /\ b.text[1] \in Items(b.text)
    BY <2>2, BoxFacts
  <2> QED BY <2>2, <2>3 DEF PiecesOf
<1>7. ASSUME NEW j \in 1..n, NEW k \in 1..n, j < k, NEW a \in Items(list[j]), NEW b \in Items(list[k]),
             NEW x \in Items(a.text), NEW y \in Items(b.text)
      PROVE  x[1] < y[1] /\ Apart(paper, x, y) = 2
  <2>1. x[1] \in ps[j].from..ps[j].to /\ y[1] \in ps[k].from..ps[k].to
    BY <1>6
  <2>2. <<ps[j], ps[k]>> \in Between(paper, "blank")
    BY <1>1, <1>3, <1>7 DEF InOrder
  <2>3. PICK i \in Nat : ps[j].to < i /\ i < ps[k].from /\ paper[i][1] = "blank"
    BY <2>2 DEF Between
  <2> DEFINE f1 == ps[j].from
             t1 == ps[j].to
             f2 == ps[k].from
             t2 == ps[k].to
  <2>4. /\ f1 \in Nat /\ t1 \in Nat /\ f2 \in Nat /\ t2 \in Nat
        /\ x[1] \in f1..t1 /\ y[1] \in f2..t2 /\ t1 < i /\ i < f2
    BY <2>1, <2>3, <1>4
  <2> HIDE DEF f1, t1, f2, t2
  <2>5. x[1] < y[1] /\ i \in x[1]..y[1]
    BY <2>4
  <2> QED BY <2>3, <2>5 DEF Apart
<1>8. ASSUME NEW j \in 1..n, NEW k \in 1..n, j < k, NEW a \in Items(list[j]), NEW b \in Items(list[k])
      PROVE  <<a, b>> \in Follow(paper) /\ <<a, b>> \in Near(paper, 2)
  <2>1. a \in B /\ b \in B /\ Final(a) \in Items(a.text) /\ b.text[1] \in Items(b.text)
    BY <1>6
  <2>2. Apart(paper, Final(a), b.text[1]) = 2
    BY <2>1, <1>7, <1>8
  <2>3. \A x \in Items(a.text), y \in Items(b.text) : Precedes(x, y)
    BY <1>7, <1>8 DEF Precedes
  <2> QED BY <2>1, <2>2, <2>3 DEF Follow, Near
<1>9. \A k \in 1..n : InOrder(list[k], Follow(paper)) /\ Linked(list[k], Near(paper, 2))
  <2> TAKE k \in 1..n
  <2>1. InOrder(list[k], Follow(paper)) /\ Linked(list[k], TooBig(paper)) /\ list[k] \in Seq(B)
    BY <1>4 DEF PackedWell
  <2>2. ASSUME NEW i \in 1..(Len(list[k]) - 1) PROVE <<list[k][i], list[k][i + 1]>> \in Near(paper, 2)
    <3> DEFINE s == list[k]
               a == s[i]
               b == s[i + 1]
    <3>1. i \in DOMAIN s /\ i + 1 \in DOMAIN s
      <4>1. s \in Seq(B)
        BY <2>1
      <4> HIDE DEF s, B
      <4>2. i \in 1..(Len(s) - 1)
        BY <2>2 DEF s
      <4> QED BY <4>1, <4>2
    <3>2. a \in Items(list[k]) /\ b \in Items(list[k])
      BY <3>1 DEF Items
    <3> HIDE DEF a, b
    <3>3. Final(a) \in Items(a.text) /\ b.text[1] \in Items(b.text) /\ a \in B /\ b \in B
      BY <3>2, <1>6
    <3>4. Final(a)[1] \in ps[k].from..ps[k].to /\ b.text[1][1] \in ps[k].from..ps[k].to
      BY <3>2, <3>3, <1>6
    <3>5. Apart(paper, Final(a), b.text[1]) = 1
      BY <3>4, <1>4, NotApart
    <3>6. <<a, b>> \in TooBig(paper)
      BY <2>1 DEF Linked, a, b
    <3>7. <<a, b>> \in Near(paper, 2)
      BY <3>3, <3>5, <3>6 DEF Near
    <3> QED BY <3>7 DEF a, b
  <2> QED BY <2>1, <2>2 DEF Linked
<1>10. flat \in Seq(B) /\ Items(flat) = UNION {Items(list[k]) : k \in 1..n}
  <2> HIDE DEF B
  <2> QED BY <1>5, FlattenItems
<1>11. InOrder(flat, Follow(paper))
  <2>1. \A j, k \in DOMAIN list : j < k =>
            \A x \in Items(list[j]), y \in Items(list[k]) : <<x, y>> \in Follow(paper)
    BY <1>5, <1>8
  <2>2. \A k \in DOMAIN list : InOrder(list[k], Follow(paper))
    BY <1>5, <1>9
  <2> HIDE DEF B
  <2> QED BY <2>1, <2>2, <1>5, FlattenOrdered
<1>12. Linked(flat, Near(paper, 2))
  <2>1. \A j, k \in DOMAIN list : j < k =>
            \A x \in Items(list[j]), y \in Items(list[k]) : <<x, y>> \in Near(paper, 2)
    BY <1>5, <1>8
  <2>2. \A k \in DOMAIN list : Linked(list[k], Near(paper, 2))
    BY <1>5, <1>9
  <2> HIDE DEF B
  <2> QED BY <2>1, <2>2, <1>5, FlattenOrdered
<1> HIDE DEF flat
<1>13. \A i \in DOMAIN flat : \E k \in 1..n : flat[i] \in Items(list[k])
  <2> TAKE i \in DOMAIN flat
  <2>1. flat[i] \in Items(flat)
    BY DEF Items
  <2> QED BY <2>1, <1>10
<1>14. Packable(paper, flat, 2)
  <2>1. \A i \in DOMAIN flat : Good(paper, flat[i])
    BY <1>6, <1>13
  <2> QED BY <2>1, <1>10, <1>11, <1>12 DEF Packable
<1>15. PackedWell(paper, Packed(flat, 2), TextOf(flat))
  BY <1>14, PackedSound
<1>16. TextOf(flat) = PiecesOf(paper, from, to)
  <2>1. ASSUME NEW x \in TextOf(flat) PROVE x \in PiecesOf(paper, from, to)
    <3>1. PICK i \in DOMAIN flat : x \in Items(flat[i].text)
      BY DEF TextOf
    <3>2. PICK k \in 1..n : flat[i] \in Items(list[k])
      BY <1>13
    <3>3. x \in AllPieces(paper) /\ x[1] \in ps[k].from..ps[k].to
      BY <3>1, <3>2, <1>6
    <3> DEFINE f1 == ps[k].from
               t1 == ps[k].to
    <3>4. f1 \in Nat /\ t1 \in Nat /\ from <= f1 /\ t1 <= to /\ x[1] \in f1..t1
      BY <3>3, <1>4
    <3> HIDE DEF f1, t1
    <3>5. x[1] \in from..to
      BY <3>4, <1>S
    <3> QED BY <3>3, <3>5 DEF PiecesOf
  <2>2. ASSUME NEW x \in PiecesOf(paper, from, to) PROVE x \in TextOf(flat)
    <3>1. x \in AllPieces(paper) /\ x[1] \in from..to
      BY DEF PiecesOf
    <3>2. paper[x[1]][1] = "text"
      BY <3>1, PieceFacts
    <3>3. PICK k \in 1..n : x[1] \in ps[k].from..ps[k].to
      BY <3>1, <3>2, <1>1, <1>3
    <3>4. x \in PiecesOf(paper, ps[k].from, ps[k].to)
      BY <3>1, <3>3 DEF PiecesOf
    <3>5. PICK i \in DOMAIN list[k] : x \in Items(list[k][i].text)
      <4>1. TextOf(list[k]) = PiecesOf(paper, ps[k].from, ps[k].to)
        BY <1>4, Zenon DEF PackedWell
      <4>2. x \in TextOf(list[k])
        BY <3>4, <4>1
      <4> QED BY <4>2 DEF TextOf
    <3>6. list[k][i] \in Items(flat)
      <4>1. list[k][i] \in Items(list[k])
        BY DEF Items
      <4> QED BY <4>1, <1>10
    <3>7. PICK j \in DOMAIN flat : flat[j] = list[k][i]
      BY <3>6 DEF Items
    <3> QED BY <3>5, <3>7 DEF TextOf
  <2> QED BY <2>1, <2>2
<1> QED BY <1>2, <1>15, <1>16 DEF from, to

-----------------------------------------------------------------------------
(* The document.                                                            *)

BoxOf(chunk) == [text |-> chunk.text, length |-> chunk.length]
ChunkOf(paper, section, c) ==
    /\ Good(paper, BoxOf(c)) /\ c.text = BoxOf(c).text /\ c.length \in Nat
    /\ Items(c.text) \subseteq PiecesOf(paper, section.from, section.to)

\* Chunks in order, and chunks that fit no chunk together if they are of one section.
ChunksFollow(paper, T) ==
    {p \in T \X T : \A x \in Items(p[1].text), y \in Items(p[2].text) : Precedes(x, y)}
ChunksFull(paper, T) ==
    {p \in T \X T : SameSection(paper, p[1].text[1], p[2].text[1]) =>
                        SizeOf(paper, p[1].text \o p[2].text) > MaxChars}

LEMMA SectionChunksWell ==
    ASSUME NEW paper \in Seq(Line), NEW r, Section(paper, r), NEW T,
           \A i \in DOMAIN SectionChunks(paper, r) : SectionChunks(paper, r)[i] \in T
    PROVE  /\ SectionChunks(paper, r) \in Seq(T)
           /\ \A c \in Items(SectionChunks(paper, r)) : ChunkOf(paper, r, c)
           /\ InOrder(SectionChunks(paper, r), ChunksFollow(paper, T))
           /\ Linked(SectionChunks(paper, r), ChunksFull(paper, T))
           /\ \A x \in PiecesOf(paper, r.from, r.to) :
                \E c \in Items(SectionChunks(paper, r)) : x \in Items(c.text)
<1> DEFINE boxes == SectionBoxes(paper, r)
           n == Len(boxes)
           made == SectionChunks(paper, r)
           path == HeadingsAfter(paper, r.to)
<1>1. made = [k \in DOMAIN boxes |-> [path |-> path, text |-> boxes[k].text, length |-> boxes[k].length]]
  BY DEF SectionChunks, SectionBoxes
<1>2. PackedWell(paper, boxes, PiecesOf(paper, r.from, r.to))
  BY SectionWell
<1> HIDE DEF boxes, path
<1>3. n \in Nat /\ DOMAIN boxes = 1..n
  <2> DEFINE B == Box(paper)
  <2>1. boxes \in Seq(B)
    BY <1>2 DEF PackedWell
  <2> HIDE DEF B
  <2> QED BY <2>1
<1> HIDE DEF n
<1>4. /\ \A i \in 1..n : Good(paper, boxes[i]) /\ Items(boxes[i].text) \subseteq PiecesOf(paper, r.from, r.to)
      /\ \A i, j \in 1..n : i < j => <<boxes[i], boxes[j]>> \in Follow(paper)
      /\ \A i \in 1..(n - 1) : <<boxes[i], boxes[i + 1]>> \in TooBig(paper)
      /\ \A x \in PiecesOf(paper, r.from, r.to) : \E i \in 1..n : x \in Items(boxes[i].text)
  BY <1>2, <1>3 DEF PackedWell, InOrder, Linked, TextOf, n
<1>5. /\ DOMAIN made = 1..n
      /\ \A k \in 1..n : made[k].text = boxes[k].text /\ made[k].length = boxes[k].length /\ made[k] \in T
  <2>1. \A k \in DOMAIN made : made[k] \in T
    OBVIOUS
  <2> HIDE DEF made
  <2>2. DOMAIN made = 1..n
    BY <1>1, <1>3
  <2>3. \A k \in 1..n : made[k].text = boxes[k].text /\ made[k].length = boxes[k].length
    BY <1>1, <1>3
  <2> QED BY <2>1, <2>2, <2>3
<1>6. made \in Seq(T) /\ Len(made) = n
  <2>1. made \in [1..n -> T]
    BY <1>1, <1>3, <1>5
  <2> HIDE DEF made
  <2> QED BY <2>1, <1>3
<1> HIDE DEF made
<1>7. ASSUME NEW c \in Items(made) PROVE ChunkOf(paper, r, c)
  <2>1. PICK k \in 1..n : c = made[k]
    BY <1>5 DEF Items
  <2> DEFINE b == boxes[k]
  <2>2. Good(paper, b) /\ b \in Box(paper) /\ b.length \in Nat
    BY <1>4, BoxFacts
  <2>3. BoxOf(c) = b
    BY <2>1, <2>2, <1>5 DEF BoxOf, Box
  <2> HIDE DEF b
  <2>4. c.text = b.text /\ c.length = b.length
    BY <2>1, <1>5 DEF b
  <2> QED BY <2>2, <2>3, <2>4, <1>4 DEF ChunkOf, b
<1>8. InOrder(made, ChunksFollow(paper, T))
  <2> SUFFICES ASSUME NEW i \in 1..n, NEW j \in 1..n, i < j
               PROVE  <<made[i], made[j]>> \in ChunksFollow(paper, T)
    BY <1>5 DEF InOrder
  <2>1. <<boxes[i], boxes[j]>> \in Follow(paper)
    BY <1>4
  <2>2. \A x \in Items(boxes[i].text), y \in Items(boxes[j].text) : Precedes(x, y)
    BY <2>1 DEF Follow
  <2> QED BY <2>2, <1>5 DEF ChunksFollow
<1>9. Linked(made, ChunksFull(paper, T))
  <2> SUFFICES ASSUME NEW i \in 1..(n - 1)
               PROVE  <<made[i], made[i + 1]>> \in ChunksFull(paper, T)
    BY <1>6 DEF Linked
  <2>0. i \in 1..n /\ i + 1 \in 1..n
    BY <1>3
  <2>1. <<boxes[i], boxes[i + 1]>> \in TooBig(paper)
    BY <1>4
  <2>2. SizeOf(paper, boxes[i].text \o boxes[i + 1].text) > MaxChars
    BY <2>1 DEF TooBig
  <2> QED BY <2>0, <2>2, <1>5 DEF ChunksFull
<1>10. ASSUME NEW x \in PiecesOf(paper, r.from, r.to)
       PROVE  \E c \in Items(made) : x \in Items(c.text)
  <2>1. PICK i \in 1..n : x \in Items(boxes[i].text)
    BY <1>4
  <2>2. made[i] \in Items(made) /\ made[i].text = boxes[i].text
    BY <1>5 DEF Items
  <2> QED BY <2>1, <2>2
<1> QED BY <1>6, <1>7, <1>8, <1>9, <1>10 DEF made

\* Whatever the lines of a document, its chunks are the document.
LEMMA ChunksWell ==
    ASSUME NEW paper \in Seq(Line)
    PROVE  /\ AreTheDocument(paper, Chunks(paper))
           /\ \A i \in 1..Len(Chunks(paper)) : Chunks(paper)[i].length \in Nat
<1> DEFINE ss == Sections(paper)
           n == Len(ss)
           list == [k \in DOMAIN ss |-> SectionChunks(paper, ss[k])]
           T == UNION {Items(list[k]) : k \in DOMAIN ss}
           made == Chunks(paper)
<1>1. AreRuns(paper, "heading", 1, Len(paper), Len(paper), ss)
  <2>1. Len(paper) \in Nat /\ 1 <= Len(paper) + 1 /\ 1 \in Nat \ {0} /\ "heading" # "text"
    OBVIOUS
  <2> QED BY <2>1, RunsWell DEF Sections
<1>2. made = FlattenSeq(list)
  BY DEF Chunks
<1> HIDE DEF ss, made
<1>3. n \in Nat /\ DOMAIN ss = 1..n
  <2>1. ss \in Seq(LineRun)
    BY <1>1 DEF AreRuns
  <2> QED BY <2>1
<1> HIDE DEF n
<1>4. /\ \A k \in 1..n : Section(paper, ss[k]) /\ ss[k].from \in Nat /\ ss[k].to \in Nat
      /\ \A j, k \in 1..n : j < k => <<ss[j], ss[k]>> \in Between(paper, "heading")
      /\ \A i \in 1..Len(paper) : paper[i][1] = "text" => \E k \in 1..n : i \in ss[k].from..ss[k].to
  <2>1. \A k \in 1..n : Section(paper, ss[k])
    BY <1>1, <1>3 DEF AreRuns, Section
  <2>2. \A k \in 1..n : ss[k].from \in Nat /\ ss[k].to \in Nat
    BY <2>1 DEF Section, RunAt, LineRun
  <2> QED BY <2>1, <2>2, <1>1, <1>3 DEF AreRuns, InOrder
<1>5. DOMAIN list = 1..n /\ \A k \in 1..n : list[k] = SectionChunks(paper, ss[k])
  BY <1>3
<1> HIDE DEF list
<1>6. ASSUME NEW k \in 1..n
      PROVE  /\ list[k] \in Seq(T)
             /\ \A c \in Items(list[k]) : ChunkOf(paper, ss[k], c) /\ c \in T
             /\ InOrder(list[k], ChunksFollow(paper, T)) /\ Linked(list[k], ChunksFull(paper, T))
             /\ \A x \in PiecesOf(paper, ss[k].from, ss[k].to) :
                  \E c \in Items(list[k]) : x \in Items(c.text)
  <2>1. Section(paper, ss[k]) /\ list[k] = SectionChunks(paper, ss[k])
    BY <1>4, <1>5
  <2>2. \A c \in Items(list[k]) : c \in T
    BY <1>3
  <2>3. \A i \in DOMAIN list[k] : list[k][i] \in T
    BY <2>2 DEF Items
  <2> HIDE DEF T
  <2> QED BY <2>1, <2>2, <2>3, SectionChunksWell
<1>7. list \in Seq(Seq(T))
  <2> HIDE DEF T
  <2>1. list = [k \in 1..n |-> list[k]]
    BY <1>3 DEF list
  <2>2. list \in [1..n -> Seq(T)]
    BY <2>1, <1>6
  <2> QED BY <2>2, <1>3
<1> HIDE DEF T
<1>8. ASSUME NEW j \in 1..n, NEW k \in 1..n, j < k, NEW a \in Items(list[j]), NEW b \in Items(list[k]),
             NEW x \in Items(a.text), NEW y \in Items(b.text)
      PROVE  Precedes(x, y) /\ ~SameSection(paper, x, y)
  <2>1. x[1] \in ss[j].from..ss[j].to /\ y[1] \in ss[k].from..ss[k].to
    BY <1>6 DEF ChunkOf, PiecesOf
  <2>2. PICK i \in Nat : ss[j].to < i /\ i < ss[k].from /\ paper[i][1] = "heading"
    BY <1>4, <1>8 DEF Between
  <2> DEFINE f1 == ss[j].from
             t1 == ss[j].to
             f2 == ss[k].from
             t2 == ss[k].to
  <2>3. /\ f1 \in Nat /\ t1 \in Nat /\ f2 \in Nat /\ t2 \in Nat
        /\ x[1] \in f1..t1 /\ y[1] \in f2..t2 /\ t1 < i /\ i < f2
    BY <2>1, <2>2, <1>4
  <2> HIDE DEF f1, t1, f2, t2
  <2>4. x[1] < y[1] /\ i \in x[1]..y[1]
    BY <2>3
  <2> QED BY <2>2, <2>4 DEF Precedes, SameSection
<1>9. ASSUME NEW k \in 1..n, NEW c \in Items(list[k])
      PROVE  c.text[1] \in Items(c.text)
  <2>1. Good(paper, BoxOf(c)) /\ c.text = BoxOf(c).text
    BY <1>6 DEF ChunkOf
  <2> QED BY <2>1, BoxFacts
<1>10. ASSUME NEW j \in 1..n, NEW k \in 1..n, j < k, NEW a \in Items(list[j]), NEW b \in Items(list[k])
       PROVE  <<a, b>> \in ChunksFollow(paper, T) /\ <<a, b>> \in ChunksFull(paper, T)
  <2>1. a \in T /\ b \in T
    BY <1>6
  <2>2. \A x \in Items(a.text), y \in Items(b.text) : Precedes(x, y) /\ ~SameSection(paper, x, y)
    BY <1>8, <1>10
  <2>3. a.text[1] \in Items(a.text) /\ b.text[1] \in Items(b.text)
    BY <1>9
  <2> QED BY <2>1, <2>2, <2>3 DEF ChunksFollow, ChunksFull
<1>11. made \in Seq(T) /\ Items(made) = UNION {Items(list[k]) : k \in 1..n}
  BY <1>2, <1>5, <1>7, FlattenItems
<1>12. InOrder(made, ChunksFollow(paper, T))
  <2>1. \A j, k \in DOMAIN list : j < k =>
            \A x \in Items(list[j]), y \in Items(list[k]) : <<x, y>> \in ChunksFollow(paper, T)
    BY <1>5, <1>10
  <2>2. \A k \in DOMAIN list : InOrder(list[k], ChunksFollow(paper, T))
    BY <1>5, <1>6
  <2> QED BY <2>1, <2>2, <1>2, <1>7, FlattenOrdered
<1>13. Linked(made, ChunksFull(paper, T))
  <2>1. \A j, k \in DOMAIN list : j < k =>
            \A x \in Items(list[j]), y \in Items(list[k]) : <<x, y>> \in ChunksFull(paper, T)
    BY <1>5, <1>10
  <2>2. \A k \in DOMAIN list : Linked(list[k], ChunksFull(paper, T))
    BY <1>5, <1>6
  <2> QED BY <2>1, <2>2, <1>2, <1>7, FlattenOrdered
<1> DEFINE P == AllPieces(paper)
           m == Len(made)
           texts == [i \in DOMAIN made |-> made[i].text]
           text == FlattenSeq(texts)
<1>14. m \in Nat /\ DOMAIN made = 1..m
  BY <1>11
<1> HIDE DEF m
<1>15. ASSUME NEW i \in 1..m
       PROVE  \E k \in 1..n : made[i] \in Items(list[k]) /\ ChunkOf(paper, ss[k], made[i])
  <2>1. made[i] \in Items(made)
    BY <1>14 DEF Items
  <2>2. PICK k \in 1..n : made[i] \in Items(list[k])
    BY <2>1, <1>11
  <2> QED BY <2>2, <1>6
<1>16. ASSUME NEW i \in 1..m
       PROVE  /\ made[i].text \in Seq(P) /\ SizeOf(paper, made[i].text) = made[i].length
              /\ made[i].length <= MaxChars /\ made[i].length \in Nat
              /\ InOrder(made[i].text, Precede(paper))
              /\ SameSection(paper, made[i].text[1], made[i].text[Len(made[i].text)])
  <2>1. PICK k \in 1..n : ChunkOf(paper, ss[k], made[i])
    BY <1>15
  <2> DEFINE b == BoxOf(made[i])
  <2>2. Good(paper, b) /\ made[i].text = b.text /\ made[i].length = b.length
        /\ Items(b.text) \subseteq PiecesOf(paper, ss[k].from, ss[k].to)
    BY <2>1 DEF ChunkOf, BoxOf
  <2> HIDE DEF b
  <2>3. /\ b.text \in Seq(P) /\ SizeOf(paper, b.text) = b.length /\ b.length \in Nat
        /\ b.text[1] \in Items(b.text) /\ b.text[Len(b.text)] \in Items(b.text)
    BY <2>2, BoxFacts DEF Final
  <2>4. b.length <= MaxChars /\ InOrder(b.text, Precede(paper))
    BY <2>2 DEF Good
  <2>5. SameSection(paper, b.text[1], b.text[Len(b.text)])
    <3> DEFINE x == b.text[1][1]
               y == b.text[Len(b.text)][1]
               f == ss[k].from
               t == ss[k].to
    <3>1. x \in f..t /\ y \in f..t /\ f \in Nat /\ t \in Nat
      BY <2>2, <2>3, <1>4 DEF PiecesOf
    <3>2. \A l \in f..t : paper[l][1] # "heading"
      BY <1>4 DEF Section, RunAt
    <3> HIDE DEF x, y, f, t
    <3>3. \A l \in x..y : paper[l][1] # "heading"
      BY <3>1, <3>2
    <3> QED BY <3>3 DEF SameSection, x, y
  <2> QED BY <2>2, <2>3, <2>4, <2>5
<1>17. texts \in Seq(Seq(P)) /\ DOMAIN texts = 1..m
  <2>1. texts \in [1..m -> Seq(P)]
    BY <1>14, <1>16
  <2> HIDE DEF texts, P
  <2> QED BY <2>1, <1>14
<1>18. \A i \in 1..m : texts[i] = made[i].text
  BY <1>14
<1> HIDE DEF texts
<1>19. text \in Seq(P) /\ Items(text) = UNION {Items(texts[i]) : i \in 1..m}
  <2> HIDE DEF P
  <2> QED BY <1>17, FlattenItems
<1>20. InOrder(text, Precede(paper))
  <2>1. \A i, j \in DOMAIN texts : i < j =>
            \A x \in Items(texts[i]), y \in Items(texts[j]) : <<x, y>> \in Precede(paper)
    <3> TAKE i, j \in DOMAIN texts
    <3> HAVE i < j
    <3> TAKE x \in Items(texts[i]), y \in Items(texts[j])
    <3>1. i \in 1..m /\ j \in 1..m /\ x \in Items(made[i].text) /\ y \in Items(made[j].text)
      BY <1>17, <1>18
    <3>2. <<made[i], made[j]>> \in ChunksFollow(paper, T)
      BY <3>1, <1>12, <1>14 DEF InOrder
    <3>3. Precedes(x, y)
      BY <3>1, <3>2 DEF ChunksFollow
    <3>4. x \in P /\ y \in P
      <4>1. \A l \in 1..m : \A z \in Items(made[l].text) : z \in P
        <5> TAKE l \in 1..m
        <5>1. made[l].text \in Seq(P)
          BY <1>16
        <5> HIDE DEF P
        <5> QED BY <5>1 DEF Items
      <4> QED BY <3>1, <4>1
    <3> QED BY <3>3, <3>4 DEF Precede
  <2>2. \A i \in DOMAIN texts : InOrder(texts[i], Precede(paper))
    BY <1>16, <1>17, <1>18
  <2> HIDE DEF P
  <2> QED BY <2>1, <2>2, <1>17, FlattenOrdered
<1> HIDE DEF text
<1>21. \A i \in 1..(Len(text) - 1) : Precedes(text[i], text[i + 1])
  <2>1. Linked(text, Precede(paper))
    <3> HIDE DEF P
    <3> QED BY <1>19, <1>20, OrderedIsLinked
  <2> QED BY <2>1 DEF Linked, Precede
<1>22. Items(text) = P
  <2>1. ASSUME NEW x \in P PROVE x \in Items(text)
    <3>1. x[1] \in 1..Len(paper) /\ paper[x[1]][1] = "text"
      BY PieceFacts
    <3>2. PICK k \in 1..n : x[1] \in ss[k].from..ss[k].to
      BY <3>1, <1>4
    <3>3. x \in PiecesOf(paper, ss[k].from, ss[k].to)
      BY <3>2 DEF PiecesOf
    <3>4. PICK c \in Items(list[k]) : x \in Items(c.text)
      BY <3>3, <1>6
    <3>5. c \in Items(made)
      BY <1>11
    <3>6. PICK i \in 1..m : c = made[i]
      BY <3>5, <1>14 DEF Items
    <3> QED BY <3>4, <3>6, <1>18, <1>19
  <2>2. \A x \in Items(text) : x \in P
    <3> HIDE DEF P
    <3> QED BY <1>19 DEF Items
  <2> QED BY <2>1, <2>2
<1>23. \A i \in 1..m : i < m /\ SameSection(paper, made[i].text[1], made[i + 1].text[1])
          => SizeOf(paper, made[i].text \o made[i + 1].text) > MaxChars
  <2> TAKE i \in 1..m
  <2> HAVE i < m /\ SameSection(paper, made[i].text[1], made[i + 1].text[1])
  <2>1. i \in 1..(m - 1)
    BY <1>14
  <2>2. <<made[i], made[i + 1]>> \in ChunksFull(paper, T)
    BY <2>1, <1>13 DEF Linked, m
  <2> QED BY <2>2 DEF ChunksFull
<1>24. AreTheDocument(paper, made)
  <2>1. FlattenSeq([i \in DOMAIN made |-> made[i].text]) = text
    BY DEF text, texts
  <2>2. {text[i] : i \in DOMAIN text} = AllPieces(paper)
    BY <1>22 DEF Items
  <2>3. \A i \in {j \in DOMAIN paper : paper[j][1] = "text"} :
            TotalLength([p \in 1..Parts(paper[i][2]) |-> PartLength(paper[i][2], p)]) = paper[i][2]
    <3> TAKE i \in {j \in DOMAIN paper : paper[j][1] = "text"}
    <3>1. i \in 1..Len(paper) /\ paper[i][1] = "text"
      OBVIOUS
    <3>2. paper[i][2] \in Nat \ {0}
      BY <3>1, LineFacts
    <3> QED BY <3>2, PartsMakeTheLine
  <2> QED BY <2>1, <2>2, <2>3, <1>14, <1>16, <1>21, <1>23 DEF AreTheDocument, m
<1>25. \A i \in 1..m : made[i].length \in Nat
  BY <1>16
<1> QED BY <1>24, <1>25 DEF made, m

-----------------------------------------------------------------------------
(* What a bundle keeps, and what one more candidate makes of it.            *)

PathItem == [id : Seq(Nat), nodes : Seq(Nat), final : Int]
ChunkItem == [id : Nat, size : Nat]
KeptItems == [nodes : Seq(Nat), paths : Seq(PathItem), chunks : Seq(ChunkItem)]

Distinct(seq) == \A i, j \in DOMAIN seq : seq[i] = seq[j] => i = j
ChunksLength(list) == TotalLength([i \in DOMAIN list |-> list[i].size])

KeptLegal(k) ==
    /\ k \in KeptItems /\ Distinct(k.nodes)
    /\ Len(k.nodes) <= Budget.nodes /\ Len(k.paths) <= Budget.paths
    /\ Len(k.chunks) <= Budget.documents /\ ChunksLength(k.chunks) \in Nat
    /\ Size(k.nodes, k.paths, k.chunks) <= Budget.bytes
    /\ \A i \in DOMAIN k.paths : Items(k.paths[i].nodes) \subseteq Items(k.nodes)

\* l keeps whatever k keeps.
Extends(k, l) ==
    /\ Items(k.nodes) \subseteq Items(l.nodes) /\ Len(k.nodes) <= Len(l.nodes)
    /\ Items(k.paths) \subseteq Items(l.paths) /\ Len(k.paths) <= Len(l.paths)
    /\ Items(k.chunks) \subseteq Items(l.chunks) /\ Len(k.chunks) <= Len(l.chunks)
    /\ ChunksLength(k.chunks) <= ChunksLength(l.chunks)

NoRoomForPath(k, p) ==
    \/ Len(k.paths) = Budget.paths
    \/ Cardinality(Items(k.nodes) \cup Items(p.nodes)) > Budget.nodes
    \/ Size(k.nodes \o NewNodes(k, p), Append(k.paths, p), k.chunks) > Budget.bytes
NoRoomForNode(k, n) ==
    \/ Len(k.nodes) = Budget.nodes
    \/ Size(Append(k.nodes, n), k.paths, k.chunks) > Budget.bytes
NoRoomForChunk(k, c) ==
    \/ Len(k.chunks) = Budget.documents
    \/ Size(k.nodes, k.paths, Append(k.chunks, c)) > Budget.bytes

LEMMA BudgetFacts ==
    /\ Budget.bytes \in Nat /\ Budget.nodes \in Nat /\ Budget.paths \in Nat
    /\ Budget.documents \in Nat /\ Budget.frame \in Nat /\ Budget.frame <= Budget.bytes
    /\ NodeSize \in Nat /\ PathSize \in Nat /\ ChunkSize \in Nat
BY BudgetAssumption

LEMMA KeptFields ==
    ASSUME NEW k \in KeptItems
    PROVE  /\ k.nodes \in Seq(Nat) /\ k.paths \in Seq(PathItem) /\ k.chunks \in Seq(ChunkItem)
           /\ Len(k.nodes) \in Nat /\ Len(k.paths) \in Nat /\ Len(k.chunks) \in Nat
           /\ DOMAIN k.nodes = 1..Len(k.nodes) /\ DOMAIN k.paths = 1..Len(k.paths)
           /\ DOMAIN k.chunks = 1..Len(k.chunks)
<1>1. k.nodes \in Seq(Nat) /\ k.paths \in Seq(PathItem) /\ k.chunks \in Seq(ChunkItem)
  BY DEF KeptItems
<1> QED BY <1>1, LenProperties

\* An item more in a sequence.
LEMMA OneItemMore ==
    ASSUME NEW T, NEW seq \in Seq(T), NEW x \in T
    PROVE  /\ Append(seq, x) \in Seq(T) /\ Len(Append(seq, x)) = Len(seq) + 1
           /\ Items(Append(seq, x)) = Items(seq) \cup {x}
           /\ DOMAIN Append(seq, x) = 1..(Len(seq) + 1)
           /\ \A i \in 1..Len(seq) : Append(seq, x)[i] = seq[i]
           /\ Append(seq, x)[Len(seq) + 1] = x
<1> DEFINE more == Append(seq, x)
<1>1. Len(seq) \in Nat /\ DOMAIN seq = 1..Len(seq)
  BY LenProperties
<1>2. /\ more \in Seq(T) /\ Len(more) = Len(seq) + 1 /\ DOMAIN more = 1..(Len(seq) + 1)
      /\ \A i \in 1..Len(seq) : more[i] = seq[i]
      /\ more[Len(seq) + 1] = x
  BY AppendProperties, <1>1
<1> HIDE DEF more
<1>3. Items(more) = Items(seq) \cup {x}
  <2>1. \A y \in Items(more) : y \in Items(seq) \/ y = x
    BY <1>1, <1>2 DEF Items
  <2>2. \A y \in Items(seq) : y \in Items(more)
    BY <1>1, <1>2 DEF Items
  <2>3. x \in Items(more)
    <3>1. Len(seq) + 1 \in DOMAIN more
      BY <1>1, <1>2
    <3> QED BY <3>1, <1>2 DEF Items
  <2> QED BY <2>1, <2>2, <2>3
<1> QED BY <1>2, <1>3 DEF more

LEMMA ChunksLengthAppend ==
    ASSUME NEW list \in Seq(ChunkItem), NEW c \in ChunkItem
    PROVE  /\ ChunksLength(Append(list, c)) = ChunksLength(list) + c.size
           /\ ChunksLength(list) \in Int /\ c.size \in Nat
<1> DEFINE sizes(seq) == [i \in DOMAIN seq |-> seq[i].size]
           more == Append(list, c)
           n == Len(list)
<1>1. c.size \in Nat
  BY DEF ChunkItem
<1>2. n \in Nat /\ DOMAIN list = 1..n /\ \A i \in 1..n : list[i] \in ChunkItem
  BY LenProperties, ElementOfSeq
<1>3. \A i \in 1..n : list[i].size \in Nat
  <2> SUFFICES ASSUME NEW i \in 1..n PROVE list[i].size \in Nat
    OBVIOUS
  <2>1. list[i] \in ChunkItem
    BY <1>2
  <2> QED BY <2>1 DEF ChunkItem
<1>4. sizes(list) \in Seq(Int) /\ Len(sizes(list)) = n
  <2>1. sizes(list) \in [1..n -> Int]
    BY <1>2, <1>3
  <2> HIDE DEF sizes, n
  <2> QED BY <2>1, <1>2
<1>5. sizes(more) = Append(sizes(list), c.size)
  <2>1. /\ DOMAIN more = 1..(n + 1) /\ more[n + 1] = c
        /\ \A i \in 1..n : more[i] = list[i]
    BY OneItemMore
  <2> HIDE DEF more
  <2>2. /\ DOMAIN sizes(more) = 1..(n + 1) /\ sizes(more)[n + 1] = c.size
        /\ \A i \in 1..n : sizes(more)[i] = sizes(list)[i]
    BY <2>1, <1>2
  <2>3. /\ DOMAIN Append(sizes(list), c.size) = 1..(n + 1)
        /\ Append(sizes(list), c.size)[n + 1] = c.size
        /\ \A i \in 1..n : Append(sizes(list), c.size)[i] = sizes(list)[i]
    BY <1>1, <1>4, OneItemMore
  <2>4. \A i \in 1..(n + 1) : sizes(more)[i] = Append(sizes(list), c.size)[i]
    BY <2>2, <2>3, <1>2
  <2>5. /\ sizes(more) = [i \in 1..(n + 1) |-> sizes(more)[i]]
        /\ Append(sizes(list), c.size) = [i \in 1..(n + 1) |-> Append(sizes(list), c.size)[i]]
    <3>1. sizes(more) = [i \in 1..(n + 1) |-> sizes(more)[i]]
      BY <2>2
    <3>2. Append(sizes(list), c.size) \in Seq(Int)
      BY <1>1, <1>4
    <3>3. Append(sizes(list), c.size) = [i \in DOMAIN Append(sizes(list), c.size) |->
                                              Append(sizes(list), c.size)[i]]
      <4> DEFINE t == Append(sizes(list), c.size)
      <4>1. t \in Seq(Int)
        BY <3>2
      <4> HIDE DEF t
      <4>2. t = [i \in DOMAIN t |-> t[i]]
        BY <4>1
      <4> QED BY <4>2 DEF t
    <3> QED BY <2>3, <3>1, <3>3
  <2> HIDE DEF sizes
  <2> QED BY <2>4, <2>5
<1> HIDE DEF sizes, more
<1>6. /\ TotalLength(sizes(list)) \in Int
      /\ TotalLength(sizes(more)) = TotalLength(sizes(list)) + c.size
  BY <1>1, <1>4, <1>5, TotalAppend
<1> QED BY <1>1, <1>6 DEF ChunksLength, sizes, more

LEMMA ChunksLengthEmpty == ChunksLength(<<>>) = 0
<1>1. [i \in DOMAIN <<>> |-> <<>>[i].size] = <<>>
  OBVIOUS
<1> QED BY <1>1, TotalEmpty DEF ChunksLength

LEMMA SizeIs ==
    ASSUME NEW nodes, NEW list, NEW parts
    PROVE  Size(nodes, list, parts) =
               Budget.frame + Len(nodes) * NodeSize + Len(list) * PathSize + ChunksLength(parts)
BY DEF Size, ChunksLength

LEMMA TimesMonotone ==
    ASSUME NEW a \in Nat, NEW b \in Nat, NEW c \in Nat, a <= b
    PROVE  a * c <= b * c /\ a * c \in Nat /\ b * c \in Nat
<1>1. b - a \in Nat /\ b = a + (b - a)
  OBVIOUS
<1> DEFINE d == b - a
<1>2. d \in Nat /\ b = a + d
  BY <1>1
<1> HIDE DEF d
<1>3. (a + d) * c = a * c + d * c /\ d * c \in Nat /\ a * c \in Nat
  BY <1>2
<1> QED BY <1>2, <1>3

LEMMA SumMonotone ==
    ASSUME NEW f \in Int, NEW a \in Int, NEW b \in Int, NEW c \in Int,
           NEW d \in Int, NEW p \in Int, NEW q \in Int, a <= b, c <= d, p <= q
    PROVE  /\ f + a + c + p <= f + b + d + q
           /\ f + a + c + p \in Int /\ f + b + d + q \in Int
OBVIOUS

\* A size grows with what is in it.
LEMMA SizeMonotone ==
    ASSUME NEW a, NEW b, NEW list, NEW more, NEW parts, NEW others,
           Len(a) \in Nat, Len(b) \in Nat, Len(a) <= Len(b),
           Len(list) \in Nat, Len(more) \in Nat, Len(list) <= Len(more),
           ChunksLength(parts) \in Int, ChunksLength(others) \in Int,
           ChunksLength(parts) <= ChunksLength(others)
    PROVE  /\ Size(a, list, parts) <= Size(b, more, others)
           /\ Size(a, list, parts) \in Int /\ Size(b, more, others) \in Int
<1>1. /\ Len(a) * NodeSize <= Len(b) * NodeSize
      /\ Len(a) * NodeSize \in Nat /\ Len(b) * NodeSize \in Nat
  BY TimesMonotone, BudgetFacts
<1>2. /\ Len(list) * PathSize <= Len(more) * PathSize
      /\ Len(list) * PathSize \in Nat /\ Len(more) * PathSize \in Nat
  BY TimesMonotone, BudgetFacts
<1> DEFINE an == Len(a) * NodeSize
           bn == Len(b) * NodeSize
           lp == Len(list) * PathSize
           mp == Len(more) * PathSize
           pl == ChunksLength(parts)
           ol == ChunksLength(others)
           first == Size(a, list, parts)
           second == Size(b, more, others)
<1>3. first = Budget.frame + an + lp + pl /\ second = Budget.frame + bn + mp + ol
  BY SizeIs
<1>4. Budget.frame \in Nat
  BY BudgetFacts
<1>5. an <= bn /\ an \in Nat /\ bn \in Nat /\ lp <= mp /\ lp \in Nat /\ mp \in Nat
  BY <1>1, <1>2
<1>6. pl \in Int /\ ol \in Int /\ pl <= ol
  OBVIOUS
<1> HIDE DEF an, bn, lp, mp, pl, ol, first, second
<1>7. first <= second /\ first \in Int /\ second \in Int
  <2>1. Budget.frame \in Int /\ an \in Int /\ bn \in Int /\ lp \in Int /\ mp \in Int
    BY <1>4, <1>5
  <2> QED BY <1>3, <2>1, <1>5, <1>6, SumMonotone
<1> QED BY <1>7 DEF first, second

LEMMA DistinctCount ==
    ASSUME NEW T, NEW seq \in Seq(T), Distinct(seq)
    PROVE  IsFiniteSet(Items(seq)) /\ Cardinality(Items(seq)) = Len(seq)
<1> DEFINE n == Len(seq)
<1>1. n \in Nat /\ DOMAIN seq = 1..n
  BY LenProperties
<1>2. seq \in Bijection(1..n, Items(seq))
  <2>1. seq \in [1..n -> Items(seq)]
    <3>1. \A i \in 1..n : seq[i] \in Items(seq)
      BY <1>1 DEF Items
    <3>2. seq = [i \in DOMAIN seq |-> seq[i]]
      OBVIOUS
    <3> HIDE DEF n
    <3> QED BY <1>1, <3>1, <3>2
  <2>2. \A y \in Items(seq) : \E i \in 1..n : seq[i] = y
    BY <1>1 DEF Items
  <2>3. \A i, j \in 1..n : seq[i] = seq[j] => i = j
    BY <1>1 DEF Distinct
  <2> HIDE DEF n
  <2> QED BY <2>1, <2>2, <2>3 DEF Bijection, Injection, Surjection, IsInjective
<1>3. IsFiniteSet(1..n) /\ Cardinality(1..n) = n
  <2> HIDE DEF n
  <2>1. IsFiniteSet(1..n) /\ Cardinality(1..n) = IF 1 > n THEN 0 ELSE n - 1 + 1
    BY <1>1, FS_Interval
  <2> QED BY <2>1, <1>1
<1> HIDE DEF n
<1>4. IsFiniteSet(Items(seq)) /\ Cardinality(Items(seq)) = n
  BY <1>2, <1>3, FS_Surjection DEF Bijection
<1> QED BY <1>4 DEF n

-----------------------------------------------------------------------------
(* What is kept after each candidate was tried.                             *)

\* Where each step stays in K and goes from a state to one it is related to, the last is
\* related to all before.
LEMMA StepsReach ==
    ASSUME NEW n \in Nat, NEW K, NEW R, NEW start \in K, NEW step, NEW f,
           StepsFrom(f, step, start, n),
           \A k \in K, i \in 1..n : step[<<k, i>>] \in K /\ <<k, step[<<k, i>>]>> \in R,
           \A k \in K : <<k, k>> \in R,
           \A k, l, m \in K : <<k, l>> \in R /\ <<l, m>> \in R => <<k, m>> \in R
    PROVE  \A i \in 0..n : f[i] \in K /\ <<f[i], f[n]>> \in R
<1>1. \A i \in 0..n : f[i] \in K
  <2> DEFINE S == {i \in 0..n : f[i] \in K}
  <2>1. 0 \in S
    BY DEF StepsFrom
  <2>2. ASSUME NEW i \in 0..(n - 1), i \in S PROVE i + 1 \in S
    <3>1. i + 1 \in 1..n /\ i + 1 \in 0..n /\ i + 1 - 1 = i /\ f[i] \in K
      BY <2>2
    <3>2. f[i + 1] = step[<<f[i], i + 1>>]
      BY <3>1 DEF StepsFrom
    <3>3. f[i + 1] \in K
      BY <3>1, <3>2
    <3> QED BY <3>1, <3>3
  <2> HIDE DEF S
  <2>3. \A i \in 0..n : i \in S
    BY <2>1, <2>2, InductionUpTo
  <2> QED BY <2>3 DEF S
<1>2. ASSUME NEW i \in 0..n PROVE <<f[i], f[n]>> \in R
  <2> DEFINE S == {j \in 0..n : j < i \/ <<f[i], f[j]>> \in R}
  <2>1. 0 \in S
    <3>1. CASE 0 < i
      BY <3>1
    <3>2. CASE i = 0
      BY <3>2, <1>1
    <3> QED BY <3>1, <3>2
  <2>2. ASSUME NEW j \in 0..(n - 1), j \in S PROVE j + 1 \in S
    <3>1. j + 1 \in 1..n /\ j + 1 \in 0..n /\ j + 1 - 1 = j /\ j \in 0..n
      OBVIOUS
    <3>2. f[i] \in K /\ f[j] \in K /\ f[j + 1] \in K
      BY <1>1, <3>1
    <3>3. f[j + 1] = step[<<f[j], j + 1>>]
      BY <3>1 DEF StepsFrom
    <3>4. <<f[j], f[j + 1]>> \in R
      BY <3>1, <3>2, <3>3
    <3>5. CASE j + 1 < i
      BY <3>1, <3>5
    <3>6. CASE j + 1 = i
      BY <3>1, <3>2, <3>6
    <3>7. CASE j + 1 > i
      <4>1. <<f[i], f[j]>> \in R
        BY <2>2, <3>7
      <4>2. <<f[i], f[j + 1]>> \in R
        BY <4>1, <3>2, <3>4
      <4> QED BY <3>1, <4>2
    <3> QED BY <3>1, <3>5, <3>6, <3>7
  <2> HIDE DEF S
  <2>3. n \in S
    <3>1. \A j \in 0..n : j \in S
      BY <2>1, <2>2, InductionUpTo
    <3> QED BY <3>1
  <2> QED BY <2>3 DEF S
<1> QED BY <1>1, <1>2

\* A function that goes on by step from each member of K never leaves K.
LEMMA StepsStay ==
    ASSUME NEW n \in Nat, NEW K, NEW start \in K, NEW step, NEW h, h[0] = start,
           \A k \in K, i \in 1..n : step[<<k, i>>] \in K,
           \A i \in 1..n : h[i - 1] \in K => h[i] = step[<<h[i - 1], i>>]
    PROVE  StepsFrom(h, step, start, n) /\ \A i \in 0..n : h[i] \in K
<1> DEFINE S == {i \in 0..n : h[i] \in K}
<1>1. 0 \in S
  OBVIOUS
<1>2. ASSUME NEW i \in 0..(n - 1), i \in S PROVE i + 1 \in S
  <2>1. i + 1 \in 1..n /\ i + 1 \in 0..n /\ i + 1 - 1 = i /\ h[i] \in K
    BY <1>2
  <2>2. h[i + 1] = step[<<h[i], i + 1>>]
    BY <2>1
  <2>3. h[i + 1] \in K
    BY <2>1, <2>2
  <2> QED BY <2>1, <2>3
<1> HIDE DEF S
<1>3. \A i \in 0..n : i \in S
  BY <1>1, <1>2, InductionUpTo
<1>4. \A i \in 0..n : h[i] \in K
  BY <1>3 DEF S
<1>5. ASSUME NEW i \in 1..n PROVE h[i] = step[<<h[i - 1], i>>]
  <2>1. i - 1 \in 0..n
    OBVIOUS
  <2> QED BY <2>1, <1>4
<1> QED BY <1>4, <1>5 DEF StepsFrom

TriesPath(step, K, list) ==
    \A k \in K, i \in 1..Len(list) : step[<<k, i>>] = WithPath(k, list[i]) /\ step[<<k, i>>] \in K

LEMMA TriedPaths ==
    ASSUME NEW list, Len(list) \in Nat, NEW K, NEW start \in K, NEW step, TriesPath(step, K, list)
    PROVE  \E f : StepsFrom(f, step, start, Len(list)) /\ Tried(list, start, WithPath) = f[Len(list)]
<1> DEFINE n == Len(list)
<1>0. /\ n \in Nat
      /\ \A k \in K, i \in 1..n : step[<<k, i>>] = WithPath(k, list[i]) /\ step[<<k, i>>] \in K
  BY DEF TriesPath
<1> HIDE DEF n
<1> DEFINE P(f) == f = [i \in 0..n |-> IF i = 0 THEN start ELSE WithPath(f[i - 1], list[i])]
           f == CHOOSE f : P(f)
<1>1. PICK g \in [0..n -> K] : StepsFrom(g, step, start, n)
  BY <1>0, StepsExist
<1>2. P(g)
  <2>1. ASSUME NEW i \in 1..n PROVE g[i] = WithPath(g[i - 1], list[i])
    <3>1. i - 1 \in 0..n
      BY <1>0
    <3>2. g[i - 1] \in K /\ g[i] = step[<<g[i - 1], i>>]
      BY <1>1, <3>1 DEF StepsFrom
    <3> QED BY <3>2, <1>0
  <2>2. g[0] = start
    BY <1>1 DEF StepsFrom
  <2>3. g = [i \in 0..n |-> g[i]]
    OBVIOUS
  <2>4. \A i \in 0..n : g[i] = IF i = 0 THEN start ELSE WithPath(g[i - 1], list[i])
    BY <2>1, <2>2, <1>0
  <2> QED BY <2>3, <2>4
<1>3. P(f)
  <2>1. \E h : P(h)
    BY <1>2
  <2> HIDE DEF P
  <2> QED BY <2>1
<1>4. Tried(list, start, WithPath) = f[n]
  BY DEF Tried, n
<1> HIDE DEF f
<1>5. f[0] = start /\ \A i \in 1..n : f[i] = WithPath(f[i - 1], list[i])
  BY <1>0, <1>3
<1> HIDE DEF P
<1>6. \A i \in 1..n : f[i - 1] \in K => f[i] = step[<<f[i - 1], i>>]
  BY <1>0, <1>5
<1>7. StepsFrom(f, step, start, n)
  BY <1>0, <1>5, <1>6, StepsStay
<1> QED BY <1>4, <1>7 DEF n

TriesSeed(step, K, list) ==
    \A k \in K, i \in 1..Len(list) : step[<<k, i>>] = WithSeed(k, list[i]) /\ step[<<k, i>>] \in K

LEMMA TriedSeeds ==
    ASSUME NEW list, Len(list) \in Nat, NEW K, NEW start \in K, NEW step, TriesSeed(step, K, list)
    PROVE  \E f : StepsFrom(f, step, start, Len(list)) /\ Tried(list, start, WithSeed) = f[Len(list)]
<1> DEFINE n == Len(list)
<1>0. /\ n \in Nat
      /\ \A k \in K, i \in 1..n : step[<<k, i>>] = WithSeed(k, list[i]) /\ step[<<k, i>>] \in K
  BY DEF TriesSeed
<1> HIDE DEF n
<1> DEFINE P(f) == f = [i \in 0..n |-> IF i = 0 THEN start ELSE WithSeed(f[i - 1], list[i])]
           f == CHOOSE f : P(f)
<1>1. PICK g \in [0..n -> K] : StepsFrom(g, step, start, n)
  BY <1>0, StepsExist
<1>2. P(g)
  <2>1. ASSUME NEW i \in 1..n PROVE g[i] = WithSeed(g[i - 1], list[i])
    <3>1. i - 1 \in 0..n
      BY <1>0
    <3>2. g[i - 1] \in K /\ g[i] = step[<<g[i - 1], i>>]
      BY <1>1, <3>1 DEF StepsFrom
    <3> QED BY <3>2, <1>0
  <2>2. g[0] = start
    BY <1>1 DEF StepsFrom
  <2>3. g = [i \in 0..n |-> g[i]]
    OBVIOUS
  <2>4. \A i \in 0..n : g[i] = IF i = 0 THEN start ELSE WithSeed(g[i - 1], list[i])
    BY <2>1, <2>2, <1>0
  <2> QED BY <2>3, <2>4
<1>3. P(f)
  <2>1. \E h : P(h)
    BY <1>2
  <2> HIDE DEF P
  <2> QED BY <2>1
<1>4. Tried(list, start, WithSeed) = f[n]
  BY DEF Tried, n
<1> HIDE DEF f
<1>5. f[0] = start /\ \A i \in 1..n : f[i] = WithSeed(f[i - 1], list[i])
  BY <1>0, <1>3
<1> HIDE DEF P
<1>6. \A i \in 1..n : f[i - 1] \in K => f[i] = step[<<f[i - 1], i>>]
  BY <1>0, <1>5
<1>7. StepsFrom(f, step, start, n)
  BY <1>0, <1>5, <1>6, StepsStay
<1> QED BY <1>4, <1>7 DEF n

TriesChunk(step, K, list) ==
    \A k \in K, i \in 1..Len(list) : step[<<k, i>>] = WithChunk(k, list[i]) /\ step[<<k, i>>] \in K

LEMMA TriedChunks ==
    ASSUME NEW list, Len(list) \in Nat, NEW K, NEW start \in K, NEW step, TriesChunk(step, K, list)
    PROVE  \E f : StepsFrom(f, step, start, Len(list)) /\ Tried(list, start, WithChunk) = f[Len(list)]
<1> DEFINE n == Len(list)
<1>0. /\ n \in Nat
      /\ \A k \in K, i \in 1..n : step[<<k, i>>] = WithChunk(k, list[i]) /\ step[<<k, i>>] \in K
  BY DEF TriesChunk
<1> HIDE DEF n
<1> DEFINE P(f) == f = [i \in 0..n |-> IF i = 0 THEN start ELSE WithChunk(f[i - 1], list[i])]
           f == CHOOSE f : P(f)
<1>1. PICK g \in [0..n -> K] : StepsFrom(g, step, start, n)
  BY <1>0, StepsExist
<1>2. P(g)
  <2>1. ASSUME NEW i \in 1..n PROVE g[i] = WithChunk(g[i - 1], list[i])
    <3>1. i - 1 \in 0..n
      BY <1>0
    <3>2. g[i - 1] \in K /\ g[i] = step[<<g[i - 1], i>>]
      BY <1>1, <3>1 DEF StepsFrom
    <3> QED BY <3>2, <1>0
  <2>2. g[0] = start
    BY <1>1 DEF StepsFrom
  <2>3. g = [i \in 0..n |-> g[i]]
    OBVIOUS
  <2>4. \A i \in 0..n : g[i] = IF i = 0 THEN start ELSE WithChunk(g[i - 1], list[i])
    BY <2>1, <2>2, <1>0
  <2> QED BY <2>3, <2>4
<1>3. P(f)
  <2>1. \E h : P(h)
    BY <1>2
  <2> HIDE DEF P
  <2> QED BY <2>1
<1>4. Tried(list, start, WithChunk) = f[n]
  BY DEF Tried, n
<1> HIDE DEF f
<1>5. f[0] = start /\ \A i \in 1..n : f[i] = WithChunk(f[i - 1], list[i])
  BY <1>0, <1>3
<1> HIDE DEF P
<1>6. \A i \in 1..n : f[i - 1] \in K => f[i] = step[<<f[i - 1], i>>]
  BY <1>0, <1>5
<1>7. StepsFrom(f, step, start, n)
  BY <1>0, <1>5, <1>6, StepsStay
<1> QED BY <1>4, <1>7 DEF n

-----------------------------------------------------------------------------
(* One candidate more.                                                      *)

\* The nodes of a path after those kept: no node twice, as many as the union has.
LEMMA JoinedNodes ==
    ASSUME NEW k \in KeptItems, Distinct(k.nodes), NEW p \in PathItem, Distinct(p.nodes)
    PROVE  LET all == k.nodes \o NewNodes(k, p)
           IN  /\ all \in Seq(Nat) /\ Distinct(all)
               /\ Items(all) = Items(k.nodes) \cup Items(p.nodes)
               /\ Len(all) \in Nat /\ Len(k.nodes) <= Len(all)
               /\ Len(all) = Cardinality(Items(k.nodes) \cup Items(p.nodes))
               /\ IsFiniteSet(Items(k.nodes) \cup Items(p.nodes))
<1> DEFINE I == {i \in DOMAIN p.nodes : p.nodes[i] \notin Items(k.nodes)}
           new == NewNodes(k, p)
           all == k.nodes \o new
           m == Len(k.nodes)
<1>1. k.nodes \in Seq(Nat) /\ m \in Nat /\ DOMAIN k.nodes = 1..m
  BY KeptFields
<1>2. p.nodes \in Seq(Nat) /\ DOMAIN p.nodes = 1..Len(p.nodes)
  <2>1. p.nodes \in Seq(Nat)
    BY DEF PathItem
  <2> QED BY <2>1, LenProperties
<1>3. new = Selected(p.nodes, I)
  BY DEF NewNodes
<1>4. /\ new \in Seq(Nat) /\ Len(new) \in Nat /\ DOMAIN new = 1..Len(new)
      /\ \A j \in DOMAIN new : \E i \in I \cap DOMAIN p.nodes : new[j] = p.nodes[i]
      /\ \A i \in I \cap DOMAIN p.nodes : \E j \in DOMAIN new : new[j] = p.nodes[i]
  <2> HIDE DEF I, new
  <2> DEFINE D == Nat
  <2>1. p.nodes \in Seq(D)
    BY <1>2
  <2> HIDE DEF D
  <2>2. /\ new \in Seq(D) /\ Len(new) \in D /\ DOMAIN new = 1..Len(new)
        /\ \A j \in DOMAIN new : \E i \in I \cap DOMAIN p.nodes : new[j] = p.nodes[i]
        /\ \A i \in I \cap DOMAIN p.nodes : \E j \in DOMAIN new : new[j] = p.nodes[i]
    BY <1>3, <2>1, SelectedItems DEF D
  <2> QED BY <2>2 DEF D
<1>5. \A i, j \in 1..Len(new) : new[i] = new[j] => i = j
  <2>1. \A i, j \in 1..Len(p.nodes) : p.nodes[i] = p.nodes[j] => i = j
    BY <1>2 DEF Distinct
  <2> QED BY <1>2, <1>3, <2>1, SelectedDistinct
<1>6. \A j \in 1..Len(new) : new[j] \in Items(p.nodes) /\ new[j] \notin Items(k.nodes)
  <2> SUFFICES ASSUME NEW j \in 1..Len(new)
               PROVE  new[j] \in Items(p.nodes) /\ new[j] \notin Items(k.nodes)
    OBVIOUS
  <2>1. PICK i \in I \cap DOMAIN p.nodes : new[j] = p.nodes[i]
    <3> HIDE DEF I, new
    <3> QED BY <1>4
  <2> QED BY <2>1 DEF Items
<1>7. \A x \in Items(p.nodes) : x \in Items(k.nodes) \/ \E j \in 1..Len(new) : new[j] = x
  <2> SUFFICES ASSUME NEW x \in Items(p.nodes), x \notin Items(k.nodes)
               PROVE  \E j \in 1..Len(new) : new[j] = x
    OBVIOUS
  <2>1. PICK i \in DOMAIN p.nodes : p.nodes[i] = x
    BY DEF Items
  <2>2. i \in I \cap DOMAIN p.nodes
    BY <2>1
  <2> HIDE DEF I, new
  <2> QED BY <2>1, <2>2, <1>4
<1> HIDE DEF I, new
<1>8. /\ all \in Seq(Nat) /\ Len(all) = m + Len(new) /\ DOMAIN all = 1..(m + Len(new))
      /\ \A i \in 1..m : all[i] = k.nodes[i]
      /\ \A j \in 1..Len(new) : all[m + j] = new[j]
  <2>1. all \in Seq(Nat) /\ Len(all) = m + Len(new)
        /\ \A i \in 1..(m + Len(new)) : all[i] = IF i <= m THEN k.nodes[i] ELSE new[i - m]
    BY <1>1, <1>4, ConcatProperties
  <2>2. DOMAIN all = 1..Len(all)
    BY <2>1, LenProperties
  <2>3. \A j \in 1..Len(new) : m + j \in 1..(m + Len(new)) /\ ~(m + j <= m) /\ m + j - m = j
    BY <1>1, <1>4
  <2>4. \A i \in 1..m : i \in 1..(m + Len(new)) /\ i <= m
    BY <1>1, <1>4
  <2> HIDE DEF all, m
  <2>5. ASSUME NEW j \in 1..Len(new) PROVE all[m + j] = new[j]
    <3>1. m + j \in 1..(m + Len(new)) /\ ~(m + j <= m) /\ m + j - m = j
      BY <2>3
    <3>2. PICK i \in 1..(m + Len(new)) : i = m + j /\ ~(i <= m) /\ i - m = j
      BY <3>1, <1>1, <1>4
    <3>3. all[i] = IF i <= m THEN k.nodes[i] ELSE new[i - m]
      BY <2>1
    <3> QED BY <3>2, <3>3
  <2>6. \A i \in 1..m : all[i] = k.nodes[i]
    BY <2>1, <2>4
  <2>7. DOMAIN all = 1..(m + Len(new))
    BY <2>1, <2>2
  <2> QED BY <2>1, <2>5, <2>6, <2>7
<1>9. \A i \in DOMAIN all : i \in 1..m \/ \E j \in 1..Len(new) : i = m + j
  <2> SUFFICES ASSUME NEW i \in DOMAIN all, i \notin 1..m PROVE \E j \in 1..Len(new) : i = m + j
    OBVIOUS
  <2>1. i - m \in 1..Len(new) /\ i = m + (i - m)
    BY <1>1, <1>4, <1>8
  <2> QED BY <2>1
<1> HIDE DEF all
<1>10. Items(all) = Items(k.nodes) \cup Items(p.nodes)
  <2>1. ASSUME NEW x \in Items(all) PROVE x \in Items(k.nodes) \cup Items(p.nodes)
    <3>1. PICK i \in DOMAIN all : x = all[i]
      BY DEF Items
    <3>2. CASE i \in 1..m
      <4>1. x = k.nodes[i] /\ i \in DOMAIN k.nodes
        BY <3>1, <3>2, <1>1, <1>8
      <4> QED BY <4>1 DEF Items
    <3>3. CASE \E j \in 1..Len(new) : i = m + j
      <4>1. PICK j \in 1..Len(new) : i = m + j
        BY <3>3
      <4>2. x = new[j]
        BY <3>1, <4>1, <1>8
      <4> QED BY <4>2, <1>6
    <3> QED BY <3>2, <3>3, <1>9
  <2>2. ASSUME NEW x \in Items(k.nodes) PROVE x \in Items(all)
    <3>1. PICK i \in 1..m : x = k.nodes[i]
      BY <1>1 DEF Items
    <3>2. i \in DOMAIN all /\ all[i] = x
      BY <3>1, <1>1, <1>4, <1>8
    <3> QED BY <3>2 DEF Items
  <2>3. ASSUME NEW x \in Items(p.nodes) PROVE x \in Items(all)
    <3>1. CASE x \in Items(k.nodes)
      BY <3>1, <2>2
    <3>2. CASE \E j \in 1..Len(new) : new[j] = x
      <4>1. PICK j \in 1..Len(new) : new[j] = x
        BY <3>2
      <4>2. m + j \in DOMAIN all /\ all[m + j] = x
        BY <4>1, <1>1, <1>4, <1>8
      <4> QED BY <4>2 DEF Items
    <3> QED BY <3>1, <3>2, <1>7
  <2> QED BY <2>1, <2>2, <2>3
<1>11. Distinct(all)
  <2> SUFFICES ASSUME NEW i \in DOMAIN all, NEW j \in DOMAIN all, all[i] = all[j] PROVE i = j
    BY DEF Distinct
  <2>1. ASSUME NEW a \in 1..m, NEW b \in 1..Len(new) PROVE all[a] # all[m + b]
    <3>1. all[a] \in Items(k.nodes) /\ all[m + b] = new[b]
      BY <1>1, <1>8 DEF Items
    <3> QED BY <3>1, <1>6
  <2>2. CASE i \in 1..m /\ j \in 1..m
    <3>1. k.nodes[i] = k.nodes[j]
      BY <2>2, <1>8
    <3> QED BY <3>1, <2>2, <1>1 DEF Distinct
  <2>3. CASE i \in 1..m /\ \E b \in 1..Len(new) : j = m + b
    BY <2>1, <2>3
  <2>4. CASE j \in 1..m /\ \E b \in 1..Len(new) : i = m + b
    BY <2>1, <2>4
  <2>5. CASE (\E a \in 1..Len(new) : i = m + a) /\ (\E b \in 1..Len(new) : j = m + b)
    <3>1. PICK a \in 1..Len(new) : i = m + a
      BY <2>5
    <3>2. PICK b \in 1..Len(new) : j = m + b
      BY <2>5
    <3>3. new[a] = new[b]
      BY <3>1, <3>2, <1>8
    <3>4. a = b
      BY <3>3, <1>5
    <3> QED BY <3>1, <3>2, <3>4
  <2> QED BY <2>2, <2>3, <2>4, <2>5, <1>9
<1>12. IsFiniteSet(Items(all)) /\ Cardinality(Items(all)) = Len(all)
  BY <1>8, <1>11, DistinctCount
<1>13. Len(all) \in Nat /\ m <= Len(all)
  BY <1>1, <1>4, <1>8
<1> QED BY <1>8, <1>10, <1>11, <1>12, <1>13 DEF all, new

LEMMA ExtendsItself ==
    ASSUME NEW k, KeptLegal(k)
    PROVE  Extends(k, k)
BY KeptFields DEF Extends, KeptLegal

LEMMA ExtendsFurther ==
    ASSUME NEW k, KeptLegal(k), NEW l, KeptLegal(l), NEW m, KeptLegal(m),
           Extends(k, l), Extends(l, m)
    PROVE  Extends(k, m)
<1>1. /\ Len(k.nodes) \in Nat /\ Len(k.paths) \in Nat /\ Len(k.chunks) \in Nat
      /\ Len(l.nodes) \in Nat /\ Len(l.paths) \in Nat /\ Len(l.chunks) \in Nat
      /\ Len(m.nodes) \in Nat /\ Len(m.paths) \in Nat /\ Len(m.chunks) \in Nat
  BY KeptFields DEF KeptLegal
<1>2. /\ ChunksLength(k.chunks) \in Nat /\ ChunksLength(l.chunks) \in Nat
      /\ ChunksLength(m.chunks) \in Nat
  BY DEF KeptLegal
<1>3. /\ Items(k.nodes) \subseteq Items(m.nodes) /\ Items(k.paths) \subseteq Items(m.paths)
      /\ Items(k.chunks) \subseteq Items(m.chunks)
  BY DEF Extends
<1>4. /\ Len(k.nodes) <= Len(l.nodes) /\ Len(l.nodes) <= Len(m.nodes)
      /\ Len(k.paths) <= Len(l.paths) /\ Len(l.paths) <= Len(m.paths)
      /\ Len(k.chunks) <= Len(l.chunks) /\ Len(l.chunks) <= Len(m.chunks)
      /\ ChunksLength(k.chunks) <= ChunksLength(l.chunks)
      /\ ChunksLength(l.chunks) <= ChunksLength(m.chunks)
  BY DEF Extends
<1>5. /\ Len(k.nodes) <= Len(m.nodes) /\ Len(k.paths) <= Len(m.paths)
      /\ Len(k.chunks) <= Len(m.chunks)
      /\ ChunksLength(k.chunks) <= ChunksLength(m.chunks)
  <2>1. \A a, b, c \in Int : a <= b /\ b <= c => a <= c
    OBVIOUS
  <2>2. Len(k.nodes) <= Len(m.nodes)
    BY <1>1, <1>4, <2>1
  <2>3. Len(k.paths) <= Len(m.paths)
    BY <1>1, <1>4, <2>1
  <2>4. Len(k.chunks) <= Len(m.chunks)
    BY <1>1, <1>4, <2>1
  <2>5. ChunksLength(k.chunks) <= ChunksLength(m.chunks)
    BY <1>2, <1>4, <2>1
  <2> QED BY <2>2, <2>3, <2>4, <2>5
<1> QED BY <1>3, <1>5 DEF Extends

LEMMA AppendDistinct ==
    ASSUME NEW T, NEW seq \in Seq(T), Distinct(seq), NEW x \in T, x \notin Items(seq)
    PROVE  Distinct(Append(seq, x))
<1> DEFINE more == Append(seq, x)
           n == Len(seq)
<1>1. /\ n \in Nat /\ DOMAIN seq = 1..n /\ DOMAIN more = 1..(n + 1)
      /\ \A i \in 1..n : more[i] = seq[i]
      /\ more[n + 1] = x
  BY LenProperties, OneItemMore
<1> HIDE DEF more, n
<1> SUFFICES ASSUME NEW i \in DOMAIN more, NEW j \in DOMAIN more, more[i] = more[j] PROVE i = j
  BY DEF Distinct, more
<1>2. \A a \in 1..n : more[a] \in Items(seq)
  BY <1>1 DEF Items
<1>3. CASE i \in 1..n /\ j \in 1..n
  BY <1>3, <1>1 DEF Distinct
<1>4. CASE i = n + 1 /\ j \in 1..n
  BY <1>2, <1>4, <1>1
<1>5. CASE j = n + 1 /\ i \in 1..n
  BY <1>2, <1>5, <1>1
<1>6. CASE i = n + 1 /\ j = n + 1
  BY <1>6
<1>7. \A a \in DOMAIN more : a \in 1..n \/ a = n + 1
  BY <1>1
<1> QED BY <1>3, <1>4, <1>5, <1>6, <1>7

LEMMA PathTried ==
    ASSUME NEW k, KeptLegal(k), k.chunks = <<>>, NEW p \in PathItem, Distinct(p.nodes)
    PROVE  /\ KeptLegal(WithPath(k, p)) /\ WithPath(k, p).chunks = <<>>
           /\ Extends(k, WithPath(k, p))
           /\ p \in Items(WithPath(k, p).paths) \/ NoRoomForPath(WithPath(k, p), p)
<1> DEFINE l == WithPath(k, p)
           all == k.nodes \o NewNodes(k, p)
           more == Append(k.paths, p)
<1>1. /\ k \in KeptItems /\ Distinct(k.nodes) /\ k.paths \in Seq(PathItem)
      /\ Len(k.nodes) \in Nat /\ Len(k.paths) \in Nat /\ DOMAIN k.paths = 1..Len(k.paths)
  BY KeptFields DEF KeptLegal
<1>2. /\ all \in Seq(Nat) /\ Distinct(all)
      /\ Items(all) = Items(k.nodes) \cup Items(p.nodes)
      /\ Len(all) \in Nat /\ Len(k.nodes) <= Len(all)
      /\ Len(all) = Cardinality(Items(k.nodes) \cup Items(p.nodes))
  BY <1>1, JoinedNodes
<1>3. /\ more \in Seq(PathItem) /\ Len(more) = Len(k.paths) + 1
      /\ Items(more) = Items(k.paths) \cup {p} /\ DOMAIN more = 1..(Len(k.paths) + 1)
      /\ \A i \in 1..Len(k.paths) : more[i] = k.paths[i]
      /\ more[Len(k.paths) + 1] = p
  BY <1>1, OneItemMore
<1>4. PathFits(k, p) <=> /\ Len(k.paths) < Budget.paths /\ Len(all) <= Budget.nodes
                         /\ Size(all, more, <<>>) <= Budget.bytes
  BY DEF PathFits
<1>5. CASE ~PathFits(k, p)
  <2>1. l = k
    BY <1>5 DEF WithPath
  <2>2. Len(k.paths) <= Budget.paths
    BY DEF KeptLegal
  <2>3. NoRoomForPath(k, p)
    <3>1. CASE ~(Len(k.paths) < Budget.paths)
      <4>1. Len(k.paths) = Budget.paths
        BY <3>1, <2>2, <1>1, BudgetFacts
      <4> QED BY <4>1 DEF NoRoomForPath
    <3>2. CASE ~(Len(all) <= Budget.nodes)
      <4>1. Cardinality(Items(k.nodes) \cup Items(p.nodes)) > Budget.nodes
        BY <3>2, <1>2, BudgetFacts
      <4> QED BY <4>1 DEF NoRoomForPath
    <3>3. CASE ~(Size(all, more, <<>>) <= Budget.bytes)
      <4>1. ChunksLength(<<>>) \in Int /\ ChunksLength(<<>>) <= ChunksLength(<<>>)
        BY ChunksLengthEmpty
      <4>2. Len(more) \in Nat /\ Len(more) <= Len(more) /\ Len(all) <= Len(all)
        BY <1>1, <1>2, <1>3
      <4>3. Size(all, more, <<>>) \in Int
        <5> HIDE DEF all, more
        <5> QED BY <4>1, <4>2, <1>2, SizeMonotone
      <4>4. Size(all, more, k.chunks) > Budget.bytes
        BY <4>3, <3>3, BudgetFacts
      <4> QED BY <4>4 DEF NoRoomForPath
    <3> QED BY <1>4, <1>5, <3>1, <3>2, <3>3
  <2>4. Extends(k, k)
    BY ExtendsItself
  <2> HIDE DEF l
  <2>5. KeptLegal(l) /\ l.chunks = <<>> /\ Extends(k, l) /\ NoRoomForPath(l, p)
    BY <2>1, <2>3, <2>4
  <2> QED BY <2>5 DEF l
<1>6. CASE PathFits(k, p)
  <2>1. /\ l.nodes = all /\ l.paths = more /\ l.chunks = <<>> /\ l \in KeptItems
    <3>1. l = [k EXCEPT !.nodes = all, !.paths = more]
      BY <1>6 DEF WithPath
    <3>2. all \in Seq(Nat) /\ more \in Seq(PathItem) /\ k \in KeptItems
      BY <1>1, <1>2, <1>3
    <3> HIDE DEF l, all, more
    <3> QED BY <3>1, <3>2 DEF KeptItems
  <2> HIDE DEF l, all, more
  <2>2. ChunksLength(<<>>) = 0 /\ ChunksLength(l.chunks) = 0 /\ ChunksLength(k.chunks) = 0
    BY <2>1, ChunksLengthEmpty
  <2>3. Len(k.chunks) <= Budget.documents /\ Len(l.chunks) = Len(k.chunks)
    BY <2>1 DEF KeptLegal
  <2>4. ASSUME NEW i \in DOMAIN l.paths PROVE Items(l.paths[i].nodes) \subseteq Items(l.nodes)
    <3>1. CASE i \in 1..Len(k.paths)
      <4>1. i \in DOMAIN k.paths /\ l.paths[i] = k.paths[i]
        BY <3>1, <2>1, <1>1, <1>3
      <4>2. Items(k.paths[i].nodes) \subseteq Items(k.nodes)
        BY <4>1 DEF KeptLegal
      <4> QED BY <4>1, <4>2, <2>1, <1>2
    <3>2. CASE i = Len(k.paths) + 1
      BY <3>2, <2>1, <1>2, <1>3
    <3> QED BY <3>1, <3>2, <2>1, <1>1, <1>3
  <2>5. Len(l.nodes) <= Budget.nodes /\ Size(l.nodes, l.paths, l.chunks) <= Budget.bytes
    BY <1>4, <1>6, <2>1
  <2>6. Len(l.paths) <= Budget.paths
    BY <1>1, <1>3, <1>4, <1>6, <2>1, BudgetFacts
  <2>7. KeptLegal(l)
    BY <2>1, <2>2, <2>3, <2>4, <2>5, <2>6, <1>2 DEF KeptLegal
  <2>8. Len(k.paths) <= Len(l.paths)
    BY <1>1, <1>3, <2>1
  <2>9. Len(k.chunks) <= Len(l.chunks)
    BY <2>3, <1>1, KeptFields
  <2>10. Extends(k, l)
    BY <1>2, <1>3, <2>1, <2>2, <2>8, <2>9 DEF Extends
  <2>11. p \in Items(l.paths)
    BY <1>3, <2>1
  <2> QED BY <2>1, <2>7, <2>10, <2>11 DEF l
<1> QED BY <1>5, <1>6

LEMMA SeedTried ==
    ASSUME NEW k, KeptLegal(k), k.chunks = <<>>, NEW s, s.id \in Nat
    PROVE  /\ KeptLegal(WithSeed(k, s)) /\ WithSeed(k, s).chunks = <<>>
           /\ Extends(k, WithSeed(k, s))
           /\ s.id \in Items(WithSeed(k, s).nodes) \/ NoRoomForNode(WithSeed(k, s), s.id)
<1> DEFINE l == WithSeed(k, s)
           all == Append(k.nodes, s.id)
           D == Nat
<1>1. /\ k \in KeptItems /\ Distinct(k.nodes) /\ k.nodes \in Seq(D) /\ s.id \in D
      /\ Len(k.nodes) \in Nat /\ Len(k.paths) \in Nat /\ DOMAIN k.nodes = 1..Len(k.nodes)
      /\ Len(k.chunks) \in Nat
  BY KeptFields DEF KeptLegal
<1>2. /\ all \in Seq(D) /\ Len(all) = Len(k.nodes) + 1
      /\ Items(all) = Items(k.nodes) \cup {s.id} /\ DOMAIN all = 1..(Len(k.nodes) + 1)
      /\ \A i \in 1..Len(k.nodes) : all[i] = k.nodes[i]
      /\ all[Len(k.nodes) + 1] = s.id
  <2> HIDE DEF D
  <2> QED BY <1>1, OneItemMore
<1>3. Len(k.nodes) <= Budget.nodes
  BY DEF KeptLegal
<1>4. CASE ~(/\ s.id \notin Items(k.nodes) /\ Len(k.nodes) < Budget.nodes
             /\ Size(all, k.paths, <<>>) <= Budget.bytes)
  <2>1. l = k
    BY <1>4 DEF WithSeed
  <2>2. s.id \in Items(k.nodes) \/ NoRoomForNode(k, s.id)
    <3>1. CASE ~(Len(k.nodes) < Budget.nodes)
      <4>1. Len(k.nodes) = Budget.nodes
        BY <3>1, <1>1, <1>3, BudgetFacts
      <4> QED BY <4>1 DEF NoRoomForNode
    <3>2. CASE ~(Size(all, k.paths, <<>>) <= Budget.bytes)
      <4>1. ChunksLength(<<>>) \in Int /\ ChunksLength(<<>>) <= ChunksLength(<<>>)
        BY ChunksLengthEmpty
      <4>2. Len(all) \in Nat /\ Len(all) <= Len(all) /\ Len(k.paths) <= Len(k.paths)
        BY <1>1, <1>2
      <4>3. Size(all, k.paths, <<>>) \in Int
        <5> HIDE DEF all
        <5> QED BY <4>1, <4>2, <1>1, SizeMonotone
      <4>4. Size(all, k.paths, k.chunks) > Budget.bytes
        BY <4>3, <3>2, BudgetFacts
      <4> QED BY <4>4 DEF NoRoomForNode
    <3> QED BY <1>4, <3>1, <3>2
  <2>3. Extends(k, k)
    BY ExtendsItself
  <2> HIDE DEF l
  <2> SUFFICES KeptLegal(l) /\ l.chunks = <<>> /\ Extends(k, l)
               /\ (s.id \in Items(l.nodes) \/ NoRoomForNode(l, s.id))
    BY DEF l
  <2> QED BY <2>1, <2>2, <2>3
<1>5. CASE /\ s.id \notin Items(k.nodes) /\ Len(k.nodes) < Budget.nodes
           /\ Size(all, k.paths, <<>>) <= Budget.bytes
  <2>1. l.nodes = all /\ l.paths = k.paths /\ l.chunks = <<>> /\ l \in KeptItems
    <3>1. l = [k EXCEPT !.nodes = all]
      BY <1>5 DEF WithSeed
    <3>2. all \in Seq(Nat) /\ k \in KeptItems
      BY <1>1, <1>2
    <3> HIDE DEF l, all
    <3> QED BY <3>1, <3>2 DEF KeptItems
  <2> HIDE DEF l, all
  <2>2. ChunksLength(l.chunks) = 0 /\ ChunksLength(k.chunks) = 0
    BY <2>1, ChunksLengthEmpty
  <2>3. Len(k.chunks) <= Budget.documents /\ Len(l.chunks) = Len(k.chunks)
        /\ Len(l.paths) <= Budget.paths
    BY <2>1 DEF KeptLegal
  <2>4. \A i \in DOMAIN l.paths : Items(l.paths[i].nodes) \subseteq Items(l.nodes)
    BY <2>1, <1>2 DEF KeptLegal
  <2>5. Len(l.nodes) <= Budget.nodes
    BY <1>1, <1>2, <1>5, <2>1, BudgetFacts
  <2>6. Size(l.nodes, l.paths, l.chunks) <= Budget.bytes
    BY <1>5, <2>1
  <2>7. Distinct(all)
    <3> HIDE DEF D
    <3>1. Distinct(Append(k.nodes, s.id))
      BY <1>1, <1>5, AppendDistinct
    <3> QED BY <3>1 DEF all
  <2>8. KeptLegal(l)
    BY <2>1, <2>2, <2>3, <2>4, <2>5, <2>6, <2>7 DEF KeptLegal
  <2>9. Len(k.nodes) <= Len(l.nodes) /\ Len(k.paths) <= Len(l.paths) /\ Len(k.chunks) <= Len(l.chunks)
    BY <1>1, <1>2, <2>1, <2>3
  <2>10. Extends(k, l)
    BY <1>2, <2>1, <2>2, <2>9 DEF Extends
  <2>11. s.id \in Items(l.nodes)
    BY <1>2, <2>1
  <2> QED BY <2>1, <2>8, <2>10, <2>11 DEF l
<1> QED BY <1>4, <1>5

LEMMA ChunkTried ==
    ASSUME NEW k, KeptLegal(k), NEW c \in ChunkItem
    PROVE  /\ KeptLegal(WithChunk(k, c)) /\ Extends(k, WithChunk(k, c))
           /\ c \in Items(WithChunk(k, c).chunks) \/ NoRoomForChunk(WithChunk(k, c), c)
           /\ Items(WithChunk(k, c).chunks) \subseteq Items(k.chunks) \cup {c}
           /\ Distinct(k.chunks) /\ c \notin Items(k.chunks) => Distinct(WithChunk(k, c).chunks)
<1> DEFINE l == WithChunk(k, c)
           more == Append(k.chunks, c)
<1>1. /\ k \in KeptItems /\ k.chunks \in Seq(ChunkItem)
      /\ Len(k.nodes) \in Nat /\ Len(k.paths) \in Nat /\ Len(k.chunks) \in Nat
  BY KeptFields DEF KeptLegal
<1>2. /\ more \in Seq(ChunkItem) /\ Len(more) = Len(k.chunks) + 1
      /\ Items(more) = Items(k.chunks) \cup {c}
  BY <1>1, OneItemMore
<1>3. Len(k.chunks) <= Budget.documents /\ ChunksLength(k.chunks) \in Nat
  BY DEF KeptLegal
<1>4. /\ ChunksLength(more) \in Nat /\ ChunksLength(k.chunks) <= ChunksLength(more)
  BY <1>1, <1>3, ChunksLengthAppend
<1>5. CASE ~ChunkFits(k, c)
  <2>1. l = k
    BY <1>5 DEF WithChunk
  <2>2. NoRoomForChunk(k, c)
    <3>1. CASE ~(Len(k.chunks) < Budget.documents)
      <4>1. Len(k.chunks) = Budget.documents
        BY <3>1, <1>1, <1>3, BudgetFacts
      <4> QED BY <4>1 DEF NoRoomForChunk
    <3>2. CASE ~(Size(k.nodes, k.paths, more) <= Budget.bytes)
      <4>1. Len(k.nodes) <= Len(k.nodes) /\ Len(k.paths) <= Len(k.paths)
            /\ ChunksLength(more) \in Int /\ ChunksLength(more) <= ChunksLength(more)
        BY <1>1, <1>4
      <4>2. Size(k.nodes, k.paths, more) \in Int
        <5> HIDE DEF more
        <5> QED BY <4>1, <1>1, SizeMonotone
      <4>3. Size(k.nodes, k.paths, more) > Budget.bytes
        BY <4>2, <3>2, BudgetFacts
      <4> QED BY <4>3 DEF NoRoomForChunk
    <3> QED BY <1>5, <3>1, <3>2 DEF ChunkFits
  <2>3. Extends(k, k)
    BY ExtendsItself
  <2> HIDE DEF l
  <2> SUFFICES /\ KeptLegal(l) /\ Extends(k, l) /\ NoRoomForChunk(l, c)
               /\ Items(l.chunks) \subseteq Items(k.chunks) \cup {c}
               /\ Distinct(k.chunks) => Distinct(l.chunks)
    BY DEF l
  <2> QED BY <2>1, <2>2, <2>3
<1>6. CASE ChunkFits(k, c)
  <2>1. l.nodes = k.nodes /\ l.paths = k.paths /\ l.chunks = more /\ l \in KeptItems
    <3>1. l = [k EXCEPT !.chunks = more]
      BY <1>6 DEF WithChunk
    <3>2. more \in Seq(ChunkItem) /\ k \in KeptItems
      BY <1>1, <1>2
    <3> HIDE DEF l, more
    <3> QED BY <3>1, <3>2 DEF KeptItems
  <2>2. Len(k.chunks) < Budget.documents /\ Size(k.nodes, k.paths, more) <= Budget.bytes
    BY <1>6 DEF ChunkFits
  <2>3. Distinct(k.chunks) /\ c \notin Items(k.chunks) => Distinct(more)
    BY <1>1, AppendDistinct
  <2> HIDE DEF l, more
  <2>4. Len(more) <= Budget.documents /\ Len(k.chunks) <= Len(more)
    BY <1>1, <1>2, <2>2, BudgetFacts
  <2>5. KeptLegal(l)
    BY <2>1, <2>2, <2>4, <1>4 DEF KeptLegal
  <2>6. Extends(k, l)
    BY <2>1, <2>4, <1>1, <1>2, <1>4 DEF Extends
  <2>7. c \in Items(l.chunks) /\ Items(l.chunks) \subseteq Items(k.chunks) \cup {c}
    BY <1>2, <2>1
  <2> QED BY <2>1, <2>3, <2>5, <2>6, <2>7 DEF l
<1> QED BY <1>5, <1>6

-----------------------------------------------------------------------------
(* What found no room finds none later.                                     *)

LEMMA PathStays ==
    ASSUME NEW k, KeptLegal(k), NEW l, KeptLegal(l), Extends(k, l),
           NEW p \in PathItem, Distinct(p.nodes),
           p \in Items(k.paths) \/ NoRoomForPath(k, p)
    PROVE  p \in Items(l.paths) \/ NoRoomForPath(l, p)
<1> DEFINE before == k.nodes \o NewNodes(k, p)
           after == l.nodes \o NewNodes(l, p)
           first == Items(k.nodes) \cup Items(p.nodes)
           second == Items(l.nodes) \cup Items(p.nodes)
<1>1. /\ k \in KeptItems /\ Distinct(k.nodes) /\ l \in KeptItems /\ Distinct(l.nodes)
      /\ k.paths \in Seq(PathItem) /\ l.paths \in Seq(PathItem)
      /\ Len(k.paths) \in Nat /\ Len(l.paths) \in Nat
      /\ ChunksLength(k.chunks) \in Int /\ ChunksLength(l.chunks) \in Int
      /\ Len(l.paths) <= Budget.paths
  BY KeptFields DEF KeptLegal
<1>2. /\ Items(k.nodes) \subseteq Items(l.nodes) /\ Items(k.paths) \subseteq Items(l.paths)
      /\ Len(k.paths) <= Len(l.paths) /\ ChunksLength(k.chunks) <= ChunksLength(l.chunks)
  BY DEF Extends
<1>3. Len(before) \in Nat /\ Len(before) = Cardinality(first) /\ IsFiniteSet(first)
  BY <1>1, JoinedNodes
<1>4. Len(after) \in Nat /\ Len(after) = Cardinality(second) /\ IsFiniteSet(second)
  BY <1>1, JoinedNodes
<1>5. Cardinality(first) <= Cardinality(second)
  <2>1. first \in SUBSET second
    BY <1>2
  <2> HIDE DEF first, second
  <2> QED BY <2>1, <1>4, FS_Subset
<1>6. CASE p \in Items(k.paths)
  BY <1>2, <1>6
<1>7. CASE Len(k.paths) = Budget.paths
  <2>1. Len(l.paths) = Budget.paths
    BY <1>1, <1>2, <1>7, BudgetFacts
  <2> QED BY <2>1 DEF NoRoomForPath
<1>8. CASE Cardinality(first) > Budget.nodes
  <2>1. Cardinality(second) > Budget.nodes
    <3> HIDE DEF first, second
    <3> QED BY <1>3, <1>4, <1>5, <1>8, BudgetFacts
  <2> QED BY <2>1 DEF NoRoomForPath
<1>9. CASE Size(before, Append(k.paths, p), k.chunks) > Budget.bytes
  <2> DEFINE a == Append(k.paths, p)
             b == Append(l.paths, p)
  <2>1. Len(a) = Len(k.paths) + 1 /\ Len(b) = Len(l.paths) + 1
    BY <1>1, OneItemMore
  <2> HIDE DEF before, after, first, second, a, b
  <2>2. /\ Len(before) <= Len(after) /\ Len(a) <= Len(b)
        /\ Len(a) \in Nat /\ Len(b) \in Nat
    BY <1>1, <1>2, <1>3, <1>4, <1>5, <2>1
  <2>3. /\ Size(before, a, k.chunks) <= Size(after, b, l.chunks)
        /\ Size(before, a, k.chunks) \in Int /\ Size(after, b, l.chunks) \in Int
    BY <1>1, <1>2, <1>3, <1>4, <2>2, SizeMonotone
  <2>4. Size(after, b, l.chunks) > Budget.bytes
    <3>1. Size(before, a, k.chunks) > Budget.bytes
      BY <1>9 DEF a
    <3> QED BY <3>1, <2>3, BudgetFacts
  <2> QED BY <2>4 DEF NoRoomForPath, after, b
<1> QED BY <1>6, <1>7, <1>8, <1>9 DEF NoRoomForPath

LEMMA NodeStays ==
    ASSUME NEW k, KeptLegal(k), NEW l, KeptLegal(l), Extends(k, l), NEW n \in Nat,
           n \in Items(k.nodes) \/ NoRoomForNode(k, n)
    PROVE  n \in Items(l.nodes) \/ NoRoomForNode(l, n)
<1> DEFINE a == Append(k.nodes, n)
           b == Append(l.nodes, n)
<1>1. /\ k.nodes \in Seq(Nat) /\ l.nodes \in Seq(Nat)
      /\ Len(k.nodes) \in Nat /\ Len(l.nodes) \in Nat
      /\ Len(k.paths) \in Nat /\ Len(l.paths) \in Nat
      /\ ChunksLength(k.chunks) \in Int /\ ChunksLength(l.chunks) \in Int
      /\ Len(l.nodes) <= Budget.nodes
  BY KeptFields DEF KeptLegal
<1>2. /\ Items(k.nodes) \subseteq Items(l.nodes) /\ Len(k.nodes) <= Len(l.nodes)
      /\ Len(k.paths) <= Len(l.paths) /\ ChunksLength(k.chunks) <= ChunksLength(l.chunks)
  BY DEF Extends
<1>3. CASE n \in Items(k.nodes)
  BY <1>2, <1>3
<1>4. CASE Len(k.nodes) = Budget.nodes
  <2>1. Len(l.nodes) = Budget.nodes
    BY <1>1, <1>2, <1>4, BudgetFacts
  <2> QED BY <2>1 DEF NoRoomForNode
<1>5. CASE Size(a, k.paths, k.chunks) > Budget.bytes
  <2>1. Len(a) = Len(k.nodes) + 1 /\ Len(b) = Len(l.nodes) + 1
    BY <1>1, AppendProperties
  <2> HIDE DEF a, b
  <2>2. Len(a) <= Len(b) /\ Len(a) \in Nat /\ Len(b) \in Nat
    BY <1>1, <1>2, <2>1
  <2>3. /\ Size(a, k.paths, k.chunks) <= Size(b, l.paths, l.chunks)
        /\ Size(a, k.paths, k.chunks) \in Int /\ Size(b, l.paths, l.chunks) \in Int
    BY <1>1, <1>2, <2>2, SizeMonotone
  <2>4. Size(b, l.paths, l.chunks) > Budget.bytes
    BY <1>5, <2>3, BudgetFacts
  <2> QED BY <2>4 DEF NoRoomForNode, b
<1> QED BY <1>3, <1>4, <1>5 DEF NoRoomForNode

LEMMA ChunkStays ==
    ASSUME NEW k, KeptLegal(k), NEW l, KeptLegal(l), Extends(k, l), NEW c \in ChunkItem,
           c \in Items(k.chunks) \/ NoRoomForChunk(k, c)
    PROVE  c \in Items(l.chunks) \/ NoRoomForChunk(l, c)
<1> DEFINE a == Append(k.chunks, c)
           b == Append(l.chunks, c)
<1>1. /\ k.chunks \in Seq(ChunkItem) /\ l.chunks \in Seq(ChunkItem)
      /\ Len(k.chunks) \in Nat /\ Len(l.chunks) \in Nat
      /\ Len(k.nodes) \in Nat /\ Len(l.nodes) \in Nat
      /\ Len(k.paths) \in Nat /\ Len(l.paths) \in Nat
      /\ Len(l.chunks) <= Budget.documents
  BY KeptFields DEF KeptLegal
<1>2. /\ Items(k.chunks) \subseteq Items(l.chunks) /\ Len(k.nodes) <= Len(l.nodes)
      /\ Len(k.paths) <= Len(l.paths) /\ Len(k.chunks) <= Len(l.chunks)
      /\ ChunksLength(k.chunks) <= ChunksLength(l.chunks)
  BY DEF Extends
<1>3. CASE c \in Items(k.chunks)
  BY <1>2, <1>3
<1>4. CASE Len(k.chunks) = Budget.documents
  <2>1. Len(l.chunks) = Budget.documents
    BY <1>1, <1>2, <1>4, BudgetFacts
  <2> QED BY <2>1 DEF NoRoomForChunk
<1>5. CASE Size(k.nodes, k.paths, a) > Budget.bytes
  <2>1. /\ ChunksLength(a) = ChunksLength(k.chunks) + c.size /\ ChunksLength(k.chunks) \in Int
        /\ ChunksLength(b) = ChunksLength(l.chunks) + c.size /\ ChunksLength(l.chunks) \in Int
        /\ c.size \in Nat
    BY <1>1, ChunksLengthAppend
  <2> HIDE DEF a, b
  <2>2. ChunksLength(a) <= ChunksLength(b) /\ ChunksLength(a) \in Int /\ ChunksLength(b) \in Int
    BY <1>2, <2>1
  <2>3. /\ Size(k.nodes, k.paths, a) <= Size(l.nodes, l.paths, b)
        /\ Size(k.nodes, k.paths, a) \in Int /\ Size(l.nodes, l.paths, b) \in Int
    BY <1>1, <1>2, <2>2, SizeMonotone
  <2>4. Size(l.nodes, l.paths, b) > Budget.bytes
    BY <1>5, <2>3, BudgetFacts
  <2> QED BY <2>4 DEF NoRoomForChunk, b
<1> QED BY <1>3, <1>4, <1>5 DEF NoRoomForChunk

-----------------------------------------------------------------------------
(* All candidates of a kind.                                                *)

LEMMA PathsKept ==
    ASSUME NEW k, KeptLegal(k), k.chunks = <<>>, NEW list \in Seq(PathItem),
           \A i \in DOMAIN list : Distinct(list[i].nodes)
    PROVE  LET l == Tried(list, k, WithPath)
           IN  /\ KeptLegal(l) /\ l.chunks = <<>> /\ Extends(k, l)
               /\ \A i \in DOMAIN list : list[i] \in Items(l.paths) \/ NoRoomForPath(l, list[i])
<1> DEFINE K == {x \in KeptItems : KeptLegal(x) /\ x.chunks = <<>>}
           n == Len(list)
           step == [q \in K \X (1..n) |-> WithPath(q[1], list[q[2]])]
           R == {q \in K \X K : Extends(q[1], q[2])}
           l == Tried(list, k, WithPath)
<1>1. n \in Nat /\ DOMAIN list = 1..n /\ \A i \in 1..n : list[i] \in PathItem
  BY SequenceItems, LenProperties
<1> HIDE DEF n
<1>2. \A x \in K : KeptLegal(x) /\ x.chunks = <<>>
  OBVIOUS
<1>3. \A x : KeptLegal(x) /\ x.chunks = <<>> => x \in K
  BY DEF KeptLegal
<1>4. \A x \in K, i \in 1..n : step[<<x, i>>] = WithPath(x, list[i])
  OBVIOUS
<1>5. \A x, y \in K : <<x, y>> \in R <=> Extends(x, y)
  OBVIOUS
<1> HIDE DEF K, step, R, l
<1>6. k \in K
  BY <1>3
<1>7. \A x \in K, i \in 1..n : step[<<x, i>>] \in K /\ <<x, step[<<x, i>>]>> \in R
  <2> SUFFICES ASSUME NEW x \in K, NEW i \in 1..n
               PROVE  step[<<x, i>>] \in K /\ <<x, step[<<x, i>>]>> \in R
    OBVIOUS
  <2>1. KeptLegal(x) /\ x.chunks = <<>> /\ list[i] \in PathItem /\ Distinct(list[i].nodes)
    BY <1>1, <1>2
  <2>2. /\ KeptLegal(WithPath(x, list[i])) /\ WithPath(x, list[i]).chunks = <<>>
        /\ Extends(x, WithPath(x, list[i]))
    BY <2>1, PathTried
  <2>3. WithPath(x, list[i]) \in K
    BY <1>3, <2>2
  <2> QED BY <2>2, <2>3, <1>4, <1>5
<1>8. PICK f : StepsFrom(f, step, k, n) /\ l = f[n]
  <2>1. Len(list) = n
    BY DEF n
  <2>2. TriesPath(step, K, list)
    BY <1>4, <1>7 DEF TriesPath, n
  <2>3. \E f : StepsFrom(f, step, k, n) /\ Tried(list, k, WithPath) = f[n]
    BY <1>1, <1>6, <2>1, <2>2, TriedPaths
  <2> QED BY <2>3 DEF l
<1>9. \A i \in 0..n : f[i] \in K /\ <<f[i], f[n]>> \in R
  <2>1. \A x \in K : <<x, x>> \in R
    BY <1>2, <1>5, ExtendsItself
  <2>2. \A x, y, z \in K : <<x, y>> \in R /\ <<y, z>> \in R => <<x, z>> \in R
    BY <1>2, <1>5, ExtendsFurther
  <2> QED BY <1>1, <1>6, <1>7, <1>8, <2>1, <2>2, StepsReach
<1>10. l \in K /\ Extends(k, l)
  <2>1. 0 \in 0..n /\ n \in 0..n
    BY <1>1
  <2>2. f[0] = k
    BY <1>8 DEF StepsFrom
  <2> QED BY <2>1, <2>2, <1>5, <1>8, <1>9
<1>11. ASSUME NEW i \in 1..n PROVE list[i] \in Items(l.paths) \/ NoRoomForPath(l, list[i])
  <2>1. i - 1 \in 0..n /\ i \in 0..n
    BY <1>1
  <2>2. KeptLegal(f[i - 1]) /\ f[i - 1].chunks = <<>> /\ f[i - 1] \in K
    BY <1>2, <1>9, <2>1
  <2>3. f[i] = WithPath(f[i - 1], list[i])
    BY <1>4, <1>8, <2>2 DEF StepsFrom
  <2>4. list[i] \in PathItem /\ Distinct(list[i].nodes)
    BY <1>1
  <2>5. list[i] \in Items(f[i].paths) \/ NoRoomForPath(f[i], list[i])
    BY <2>2, <2>3, <2>4, PathTried
  <2>6. KeptLegal(f[i]) /\ KeptLegal(l) /\ Extends(f[i], l)
    BY <1>2, <1>5, <1>8, <1>9, <1>10, <2>1
  <2> QED BY <2>4, <2>5, <2>6, PathStays
<1>12. KeptLegal(l) /\ l.chunks = <<>>
  BY <1>2, <1>10
<1> QED BY <1>1, <1>10, <1>11, <1>12 DEF l

LEMMA SeedsKept ==
    ASSUME NEW k, KeptLegal(k), k.chunks = <<>>, NEW list, Len(list) \in Nat,
           DOMAIN list = 1..Len(list), \A i \in DOMAIN list : list[i].id \in Nat
    PROVE  LET l == Tried(list, k, WithSeed)
           IN  /\ KeptLegal(l) /\ l.chunks = <<>> /\ Extends(k, l)
               /\ \A i \in DOMAIN list :
                     list[i].id \in Items(l.nodes) \/ NoRoomForNode(l, list[i].id)
<1> DEFINE K == {x \in KeptItems : KeptLegal(x) /\ x.chunks = <<>>}
           n == Len(list)
           step == [q \in K \X (1..n) |-> WithSeed(q[1], list[q[2]])]
           R == {q \in K \X K : Extends(q[1], q[2])}
           l == Tried(list, k, WithSeed)
<1>1. n \in Nat /\ DOMAIN list = 1..n /\ \A i \in 1..n : list[i].id \in Nat
  OBVIOUS
<1> HIDE DEF n
<1>2. \A x \in K : KeptLegal(x) /\ x.chunks = <<>>
  OBVIOUS
<1>3. \A x : KeptLegal(x) /\ x.chunks = <<>> => x \in K
  BY DEF KeptLegal
<1>4. \A x \in K, i \in 1..n : step[<<x, i>>] = WithSeed(x, list[i])
  OBVIOUS
<1>5. \A x, y \in K : <<x, y>> \in R <=> Extends(x, y)
  OBVIOUS
<1> HIDE DEF K, step, R, l
<1>6. k \in K
  BY <1>3
<1>7. \A x \in K, i \in 1..n : step[<<x, i>>] \in K /\ <<x, step[<<x, i>>]>> \in R
  <2> SUFFICES ASSUME NEW x \in K, NEW i \in 1..n
               PROVE  step[<<x, i>>] \in K /\ <<x, step[<<x, i>>]>> \in R
    OBVIOUS
  <2>1. KeptLegal(x) /\ x.chunks = <<>> /\ list[i].id \in Nat
    BY <1>1, <1>2
  <2>2. /\ KeptLegal(WithSeed(x, list[i])) /\ WithSeed(x, list[i]).chunks = <<>>
        /\ Extends(x, WithSeed(x, list[i]))
    BY <2>1, SeedTried
  <2>3. WithSeed(x, list[i]) \in K
    BY <1>3, <2>2
  <2> QED BY <2>2, <2>3, <1>4, <1>5
<1>8. PICK f : StepsFrom(f, step, k, n) /\ l = f[n]
  <2>1. Len(list) = n
    BY DEF n
  <2>2. TriesSeed(step, K, list)
    BY <1>4, <1>7 DEF TriesSeed, n
  <2>3. \E f : StepsFrom(f, step, k, n) /\ Tried(list, k, WithSeed) = f[n]
    BY <1>1, <1>6, <2>1, <2>2, TriedSeeds
  <2> QED BY <2>3 DEF l
<1>9. \A i \in 0..n : f[i] \in K /\ <<f[i], f[n]>> \in R
  <2>1. \A x \in K : <<x, x>> \in R
    BY <1>2, <1>5, ExtendsItself
  <2>2. \A x, y, z \in K : <<x, y>> \in R /\ <<y, z>> \in R => <<x, z>> \in R
    BY <1>2, <1>5, ExtendsFurther
  <2> QED BY <1>1, <1>6, <1>7, <1>8, <2>1, <2>2, StepsReach
<1>10. l \in K /\ Extends(k, l)
  <2>1. 0 \in 0..n /\ n \in 0..n
    BY <1>1
  <2>2. f[0] = k
    BY <1>8 DEF StepsFrom
  <2> QED BY <2>1, <2>2, <1>5, <1>8, <1>9
<1>11. ASSUME NEW i \in 1..n
       PROVE  list[i].id \in Items(l.nodes) \/ NoRoomForNode(l, list[i].id)
  <2>1. i - 1 \in 0..n /\ i \in 0..n
    BY <1>1
  <2>2. KeptLegal(f[i - 1]) /\ f[i - 1].chunks = <<>> /\ f[i - 1] \in K
    BY <1>2, <1>9, <2>1
  <2>3. f[i] = WithSeed(f[i - 1], list[i])
    BY <1>4, <1>8, <2>2 DEF StepsFrom
  <2>4. list[i].id \in Nat
    BY <1>1
  <2>5. list[i].id \in Items(f[i].nodes) \/ NoRoomForNode(f[i], list[i].id)
    BY <2>2, <2>3, <2>4, SeedTried
  <2>6. KeptLegal(f[i]) /\ KeptLegal(l) /\ Extends(f[i], l)
    BY <1>2, <1>5, <1>8, <1>9, <1>10, <2>1
  <2> QED BY <2>4, <2>5, <2>6, NodeStays
<1>12. KeptLegal(l) /\ l.chunks = <<>>
  BY <1>2, <1>10
<1> QED BY <1>1, <1>10, <1>11, <1>12 DEF l

LEMMA ChunksKept ==
    ASSUME NEW k, KeptLegal(k), k.chunks = <<>>, NEW list \in Seq(ChunkItem), Distinct(list)
    PROVE  LET l == Tried(list, k, WithChunk)
           IN  /\ KeptLegal(l) /\ Extends(k, l)
               /\ \A i \in DOMAIN list : list[i] \in Items(l.chunks) \/ NoRoomForChunk(l, list[i])
               /\ Distinct(l.chunks) /\ Items(l.chunks) \subseteq Items(list)
<1> DEFINE K == {x \in KeptItems : KeptLegal(x)}
           n == Len(list)
           step == [q \in K \X (1..n) |-> WithChunk(q[1], list[q[2]])]
           R == {q \in K \X K : Extends(q[1], q[2])}
           l == Tried(list, k, WithChunk)
<1>1. n \in Nat /\ DOMAIN list = 1..n /\ \A i \in 1..n : list[i] \in ChunkItem
  BY SequenceItems, LenProperties
<1> HIDE DEF n
<1>2. \A x \in K : KeptLegal(x)
  OBVIOUS
<1>3. \A x : KeptLegal(x) => x \in K
  BY DEF KeptLegal
<1>4. \A x \in K, i \in 1..n : step[<<x, i>>] = WithChunk(x, list[i])
  OBVIOUS
<1>5. \A x, y \in K : <<x, y>> \in R <=> Extends(x, y)
  OBVIOUS
<1> HIDE DEF K, step, R, l
<1>6. k \in K
  BY <1>3
<1>7. \A x \in K, i \in 1..n : step[<<x, i>>] \in K /\ <<x, step[<<x, i>>]>> \in R
  <2> SUFFICES ASSUME NEW x \in K, NEW i \in 1..n
               PROVE  step[<<x, i>>] \in K /\ <<x, step[<<x, i>>]>> \in R
    OBVIOUS
  <2>1. KeptLegal(x) /\ list[i] \in ChunkItem
    BY <1>1, <1>2
  <2>2. KeptLegal(WithChunk(x, list[i])) /\ Extends(x, WithChunk(x, list[i]))
    BY <2>1, ChunkTried
  <2>3. WithChunk(x, list[i]) \in K
    BY <1>3, <2>2
  <2> QED BY <2>2, <2>3, <1>4, <1>5
<1>8. PICK f : StepsFrom(f, step, k, n) /\ l = f[n]
  <2>1. Len(list) = n
    BY DEF n
  <2>2. TriesChunk(step, K, list)
    BY <1>4, <1>7 DEF TriesChunk, n
  <2>3. \E f : StepsFrom(f, step, k, n) /\ Tried(list, k, WithChunk) = f[n]
    BY <1>1, <1>6, <2>1, <2>2, TriedChunks
  <2> QED BY <2>3 DEF l
<1>9. \A i \in 0..n : f[i] \in K /\ <<f[i], f[n]>> \in R
  <2>1. \A x \in K : <<x, x>> \in R
    BY <1>2, <1>5, ExtendsItself
  <2>2. \A x, y, z \in K : <<x, y>> \in R /\ <<y, z>> \in R => <<x, z>> \in R
    BY <1>2, <1>5, ExtendsFurther
  <2> QED BY <1>1, <1>6, <1>7, <1>8, <2>1, <2>2, StepsReach
<1>B. f[0] = k /\ \A i \in 1..n : f[i] = step[<<f[i - 1], i>>]
  BY <1>8 DEF StepsFrom
<1>C. \A i \in 1..n : f[i - 1] \in K /\ f[i] = WithChunk(f[i - 1], list[i])
  <2> SUFFICES ASSUME NEW i \in 1..n
               PROVE  f[i - 1] \in K /\ f[i] = WithChunk(f[i - 1], list[i])
    OBVIOUS
  <2>1. i - 1 \in 0..n
    BY <1>1
  <2>2. f[i - 1] \in K
    BY <1>9, <2>1
  <2> QED BY <2>2, <1>4, <1>B
<1>10. l \in K /\ Extends(k, l)
  <2>1. 0 \in 0..n /\ n \in 0..n
    BY <1>1
  <2> QED BY <2>1, <1>B, <1>5, <1>8, <1>9
<1>11. ASSUME NEW i \in 1..n PROVE list[i] \in Items(l.chunks) \/ NoRoomForChunk(l, list[i])
  <2>1. i \in 0..n
    BY <1>1
  <2>2. KeptLegal(f[i - 1]) /\ list[i] \in ChunkItem
    BY <1>1, <1>2, <1>C
  <2>3. list[i] \in Items(f[i].chunks) \/ NoRoomForChunk(f[i], list[i])
    BY <2>2, <1>C, ChunkTried
  <2>4. KeptLegal(f[i]) /\ KeptLegal(l) /\ Extends(f[i], l)
    BY <1>2, <1>5, <1>8, <1>9, <1>10, <2>1
  <2> QED BY <2>2, <2>3, <2>4, ChunkStays
<1> DEFINE P(i) == /\ \A x \in Items(f[i].chunks) : \E j \in 1..i : x = list[j]
                   /\ Distinct(f[i].chunks)
           S == {i \in 0..n : P(i)}
<1>12. P(0)
  <2>1. f[0].chunks = <<>> /\ DOMAIN <<>> = {}
    BY <1>B, EmptySeq
  <2> QED BY <2>1 DEF Items, Distinct
<1>13. ASSUME NEW i \in 0..(n - 1), P(i) PROVE P(i + 1)
  <2>1. i + 1 \in 1..n /\ i + 1 - 1 = i /\ i \in 0..n /\ i \in Nat
    BY <1>1
  <2>2. f[i] \in K /\ f[i + 1] = WithChunk(f[i], list[i + 1]) /\ list[i + 1] \in ChunkItem
    BY <1>1, <1>C, <2>1
  <2>3. KeptLegal(f[i])
    BY <1>2, <2>2
  <2>4. /\ Items(f[i + 1].chunks) \subseteq Items(f[i].chunks) \cup {list[i + 1]}
        /\ Distinct(f[i].chunks) /\ list[i + 1] \notin Items(f[i].chunks)
              => Distinct(f[i + 1].chunks)
    BY <2>2, <2>3, ChunkTried
  <2>5. list[i + 1] \notin Items(f[i].chunks)
    <3> SUFFICES ASSUME list[i + 1] \in Items(f[i].chunks) PROVE FALSE
      OBVIOUS
    <3>1. PICK j \in 1..i : list[i + 1] = list[j]
      BY <1>13
    <3>2. j \in DOMAIN list /\ i + 1 \in DOMAIN list /\ j # i + 1
      BY <1>1, <2>1
    <3> QED BY <3>1, <3>2 DEF Distinct
  <2>6. Distinct(f[i + 1].chunks)
    BY <1>13, <2>4, <2>5
  <2>7. \A x \in Items(f[i + 1].chunks) : \E j \in 1..(i + 1) : x = list[j]
    <3> SUFFICES ASSUME NEW x \in Items(f[i + 1].chunks) PROVE \E j \in 1..(i + 1) : x = list[j]
      OBVIOUS
    <3>1. CASE x = list[i + 1]
      BY <3>1, <2>1
    <3>2. CASE x \in Items(f[i].chunks)
      <4>1. PICK j \in 1..i : x = list[j]
        BY <3>2, <1>13
      <4>2. j \in 1..(i + 1)
        BY <2>1
      <4> QED BY <4>1, <4>2
    <3> QED BY <3>1, <3>2, <2>4
  <2> QED BY <2>6, <2>7
<1>14. P(n)
  <2> HIDE DEF P
  <2>1. 0 \in S /\ \A i \in 0..(n - 1) : i \in S => i + 1 \in S
    BY <1>1, <1>12, <1>13
  <2> HIDE DEF S
  <2>2. \A i \in 0..n : i \in S
    BY <1>1, <2>1, InductionUpTo
  <2> QED BY <2>2, <1>1 DEF S
<1>15. Distinct(l.chunks) /\ Items(l.chunks) \subseteq Items(list)
  BY <1>1, <1>8, <1>14 DEF Items
<1>16. KeptLegal(l)
  BY <1>2, <1>10
<1> QED BY <1>1, <1>10, <1>11, <1>15, <1>16 DEF l

-----------------------------------------------------------------------------
(* The order of paths.                                                      *)

\* A path of the graph, of one edge or of two, without a node twice.
EdgePath(p, e) == p.id = <<e.id>> /\ p.nodes = <<e.from, e.to>>
TwoEdgePath(p, e, f) == p.id = <<e.id, f.id>> /\ p.nodes = <<e.from, e.to, f.to>>
OfGraph(p) ==
    /\ p \in PathItem /\ Distinct(p.nodes) /\ Len(p.id) \in 1..2
    /\ (\E e \in Edges : EdgePath(p, e)) \/ (\E e, f \in Edges : TwoEdgePath(p, e, f))

LEMMA ShortIds ==
    ASSUME NEW s \in Seq(Nat), NEW t \in Seq(Nat), Len(s) = Len(t), Len(s) \in 1..2
    PROVE  /\ Before(s, t) <=> \/ s[1] < t[1]
                               \/ Len(s) = 2 /\ s[1] = t[1] /\ s[2] < t[2]
           /\ s = t <=> s[1] = t[1] /\ (Len(s) = 2 => s[2] = t[2])
           /\ s[1] \in Nat /\ t[1] \in Nat /\ (Len(s) = 2 => s[2] \in Nat /\ t[2] \in Nat)
<1>1. /\ DOMAIN s = 1..Len(s) /\ DOMAIN t = 1..Len(t) /\ ~(Len(s) < Len(t))
      /\ \A i \in 1..Len(s) : s[i] \in Nat /\ t[i] \in Nat
      /\ s = [i \in DOMAIN s |-> s[i]] /\ t = [i \in DOMAIN t |-> t[i]]
  OBVIOUS
<1>2. Len(s) = 1 \/ Len(s) = 2
  OBVIOUS
<1>3. CASE Len(s) = 1
  <2>1. DOMAIN s = {1} /\ DOMAIN t = {1} /\ 1..(1 - 1) = {} /\ s[1] \in Nat /\ t[1] \in Nat
    BY <1>1, <1>3
  <2>2. Before(s, t) <=> s[1] < t[1]
    BY <2>1, <1>1 DEF Before
  <2>3. s = t <=> s[1] = t[1]
    BY <2>1, <1>1
  <2> QED BY <2>1, <2>2, <2>3, <1>3
<1>4. CASE Len(s) = 2
  <2>1. /\ DOMAIN s = {1, 2} /\ DOMAIN t = {1, 2} /\ 1..(1 - 1) = {} /\ 1..(2 - 1) = {1}
        /\ s[1] \in Nat /\ t[1] \in Nat /\ s[2] \in Nat /\ t[2] \in Nat
    BY <1>1, <1>4
  <2>2. Before(s, t) <=> s[1] < t[1] \/ (s[1] = t[1] /\ s[2] < t[2])
    <3>1. Before(s, t) <=> \E i \in {1, 2} : s[i] < t[i] /\ \A j \in 1..(i - 1) : s[j] = t[j]
      BY <2>1, <1>1 DEF Before
    <3>2. (\E i \in {1, 2} : s[i] < t[i] /\ \A j \in 1..(i - 1) : s[j] = t[j])
            <=> \/ s[1] < t[1] /\ \A j \in 1..(1 - 1) : s[j] = t[j]
                \/ s[2] < t[2] /\ \A j \in 1..(2 - 1) : s[j] = t[j]
      OBVIOUS
    <3> QED BY <3>1, <3>2, <2>1
  <2>3. s = t <=> s[1] = t[1] /\ s[2] = t[2]
    BY <2>1, <1>1
  <2> QED BY <2>1, <2>2, <2>3, <1>4
<1> QED BY <1>2, <1>3, <1>4

LEMMA RankedByPath ==
    ASSUME NEW S, IsFiniteSet(S), \A p \in S : OfGraph(p),
           \A p, q \in S : p.id = q.id => p = q
    PROVE  Lists(Ranked(S, PathOrder), S)
<1> DEFINE R == {p \in S \X S : PathOrder(p[1], p[2])}
           r == Ranked(S, PathOrder)
<1>1. \A x, y \in S : <<x, y>> \in R <=> PathOrder(x, y)
  OBVIOUS
<1>2. \A p \in S : /\ p.final \in Int /\ p.id \in Seq(Nat)
                   /\ Len(p.id) \in Nat /\ Len(p.id) \in 1..2
  BY DEF OfGraph, PathItem
<1> DEFINE Smaller(p, q) == \/ p.id[1] < q.id[1]
                            \/ Len(p.id) = 2 /\ p.id[1] = q.id[1] /\ p.id[2] < q.id[2]
<1>I. \A p, q \in S : Len(p.id) = Len(q.id) =>
          /\ Before(p.id, q.id) <=> Smaller(p, q)
          /\ p = q <=> p.id[1] = q.id[1] /\ (Len(p.id) = 2 => p.id[2] = q.id[2])
  <2> SUFFICES ASSUME NEW p \in S, NEW q \in S, Len(p.id) = Len(q.id)
               PROVE  /\ Before(p.id, q.id) <=> Smaller(p, q)
                      /\ p = q <=> p.id[1] = q.id[1] /\ (Len(p.id) = 2 => p.id[2] = q.id[2])
    OBVIOUS
  <2>1. /\ Before(p.id, q.id) <=> Smaller(p, q)
        /\ p.id = q.id <=> p.id[1] = q.id[1] /\ (Len(p.id) = 2 => p.id[2] = q.id[2])
    BY <1>2, ShortIds
  <2> QED BY <2>1
<1>T. \A p \in S : p.id[1] \in Nat /\ (Len(p.id) = 2 => p.id[2] \in Nat)
  BY <1>2, ShortIds
<1> DEFINE Ahead(p, q) == \/ p.final > q.final
                          \/ p.final = q.final /\ Len(p.id) > Len(q.id)
                          \/ p.final = q.final /\ Len(p.id) = Len(q.id) /\ Smaller(p, q)
<1>3. \A p, q \in S : PathOrder(p, q) <=> Ahead(p, q)
  <2> HIDE DEF Smaller
  <2> QED BY <1>I DEF PathOrder
<1>4. \A p, q \in S : p # q => (Ahead(p, q) <=> ~Ahead(q, p))
  <2> SUFFICES ASSUME NEW p \in S, NEW q \in S, p # q PROVE Ahead(p, q) <=> ~Ahead(q, p)
    OBVIOUS
  <2>1. CASE Len(p.id) = Len(q.id)
    <3>1. ~(p.id[1] = q.id[1] /\ (Len(p.id) = 2 => p.id[2] = q.id[2]))
      BY <1>I, <2>1
    <3>2. /\ p.final \in Int /\ q.final \in Int /\ Len(p.id) \in 1..2
          /\ p.id[1] \in Nat /\ q.id[1] \in Nat
          /\ Len(p.id) = 2 => p.id[2] \in Nat /\ q.id[2] \in Nat
      BY <1>2, <1>T, <2>1
    <3> QED BY <2>1, <3>1, <3>2
  <2>2. CASE Len(p.id) # Len(q.id)
    <3> HIDE DEF Smaller
    <3> QED BY <1>2, <2>2
  <2> QED BY <2>1, <2>2
<1>5. \A p, q, s \in S : Ahead(p, q) /\ Ahead(q, s) => Ahead(p, s)
  <2> SUFFICES ASSUME NEW p \in S, NEW q \in S, NEW s \in S, Ahead(p, q), Ahead(q, s)
               PROVE  Ahead(p, s)
    OBVIOUS
  <2>1. Len(p.id) = Len(q.id) /\ Len(q.id) = Len(s.id) /\ Smaller(p, q) /\ Smaller(q, s)
            => Smaller(p, s)
    BY <1>T
  <2>2. /\ p.final \in Int /\ q.final \in Int /\ s.final \in Int
        /\ Len(p.id) \in Nat /\ Len(q.id) \in Nat /\ Len(s.id) \in Nat
    BY <1>2
  <2> HIDE DEF Smaller
  <2> QED BY <2>1, <2>2
<1> HIDE DEF Ahead, Smaller
<1>6. Orders(R, S)
  <2> HIDE DEF R
  <2> QED BY <1>1, <1>3, <1>4, <1>5 DEF Orders
<1>7. \A x \in S : {y \in S : y # x /\ PathOrder(y, x)} = Preceding(S, R)[x]
  <2> HIDE DEF R
  <2> QED BY <1>1 DEF Preceding
<1>8. \A i \in 1..Cardinality(S) :
          \E x \in S : Cardinality({y \in S : y # x /\ PathOrder(y, x)}) = i - 1
  <2> SUFFICES ASSUME NEW i \in 1..Cardinality(S)
               PROVE  \E x \in S : Cardinality({y \in S : y # x /\ PathOrder(y, x)}) = i - 1
    OBVIOUS
  <2> HIDE DEF R
  <2>1. PICK x \in S : Cardinality(Preceding(S, R)[x]) = i - 1
    BY <1>6, RankExists
  <2>2. {y \in S : y # x /\ PathOrder(y, x)} = Preceding(S, R)[x]
    BY <1>7
  <2> QED BY <2>1, <2>2
<1>9. /\ r = [i \in 1..Cardinality(S) |-> r[i]]
      /\ \A i \in 1..Cardinality(S) :
            r[i] \in S /\ Cardinality({y \in S : y # r[i] /\ PathOrder(y, r[i])}) = i - 1
  BY <1>8 DEF Ranked
<1> HIDE DEF R, r
<1>10. \A i \in DOMAIN r : r[i] \in S /\ Cardinality(Preceding(S, R)[r[i]]) = i - 1
  BY <1>7, <1>9
<1>11. Lists(r, S)
  BY <1>6, <1>9, <1>10, RankingLists
<1> QED BY <1>11 DEF r

-----------------------------------------------------------------------------
(* The bundle.                                                              *)

Whole(b) ==
    LET kept == b.kept
    IN  /\ Size(kept.nodes, kept.paths, kept.chunks) <= Budget.bytes
        /\ Len(kept.nodes) <= Budget.nodes /\ Len(kept.paths) <= Budget.paths
        /\ Len(kept.chunks) <= Budget.documents
        /\ Cardinality(Items(kept.nodes)) = Len(kept.nodes)
        /\ \A p \in Items(kept.paths) : Items(p.nodes) \subseteq Items(kept.nodes)

\* b leaves out nothing of ps, ss and n chunks that there was room for.
LeavesOutTheRest(b, ps, ss, n) ==
    LET kept == b.kept
    IN  /\ \A p \in b.omitted.paths : NoRoomForPath(kept, p)
        /\ \A x \in b.omitted.nodes :
              NoRoomForNode(kept, x) \/ x \notin {s.id : s \in Items(ss)}
        /\ \A c \in b.omitted.chunks : NoRoomForChunk(kept, c)
        /\ b.truncated =
            (\/ \E p \in ps : p \notin Items(kept.paths)
             \/ n > Len(kept.chunks)
             \/ \E s \in Items(ss) : s.id \notin Items(kept.nodes))

LEMMA LegalIsWhole ==
    ASSUME NEW b, KeptLegal(b.kept)
    PROVE  Whole(b)
<1> DEFINE k == b.kept
<1>1. KeptLegal(k)
  OBVIOUS
<1> HIDE DEF k
<1>2. k.nodes \in Seq(Nat) /\ Distinct(k.nodes) /\ DOMAIN k.paths = 1..Len(k.paths)
  BY <1>1, KeptFields DEF KeptLegal
<1>3. Cardinality(Items(k.nodes)) = Len(k.nodes)
  <2> DEFINE D == Nat
  <2>1. k.nodes \in Seq(D)
    BY <1>2
  <2> HIDE DEF D
  <2> QED BY <1>2, <2>1, DistinctCount
<1>4. \A p \in Items(k.paths) : Items(p.nodes) \subseteq Items(k.nodes)
  BY <1>1 DEF KeptLegal, Items
<1>5. /\ Size(k.nodes, k.paths, k.chunks) <= Budget.bytes
      /\ Len(k.nodes) <= Budget.nodes /\ Len(k.paths) <= Budget.paths
      /\ Len(k.chunks) <= Budget.documents
  BY <1>1 DEF KeptLegal
<1> QED BY <1>3, <1>4, <1>5 DEF Whole, k

LEMMA EmptyIsLegal ==
    KeptLegal([nodes |-> <<>>, paths |-> <<>>, chunks |-> <<>>])
<1> DEFINE none == [nodes |-> <<>>, paths |-> <<>>, chunks |-> <<>>]
<1>1. none \in KeptItems /\ none.nodes = <<>> /\ none.paths = <<>> /\ none.chunks = <<>>
  BY DEF KeptItems
<1>2. Len(<<>>) = 0 /\ DOMAIN <<>> = {}
  BY EmptySeq
<1> HIDE DEF none
<1>3. Size(none.nodes, none.paths, none.chunks) = Budget.frame
  <2>1. Size(<<>>, <<>>, <<>>) = Budget.frame + Len(<<>>) * NodeSize + Len(<<>>) * PathSize + ChunksLength(<<>>)
    BY SizeIs
  <2>2. Len(<<>>) * NodeSize = 0 /\ Len(<<>>) * PathSize = 0
    BY <1>2, BudgetFacts
  <2> QED BY <1>1, <2>1, <2>2, ChunksLengthEmpty, BudgetFacts
<1>4. Distinct(none.nodes)
  BY <1>1, <1>2 DEF Distinct
<1>5. ChunksLength(none.chunks) \in Nat
  BY <1>1, ChunksLengthEmpty
<1>6. KeptLegal(none)
  BY <1>1, <1>2, <1>3, <1>4, <1>5, BudgetFacts DEF KeptLegal
<1> QED BY <1>6 DEF none

\* What build_evidence_bundle makes of any paths, seeds and chunks.
LEMMA BundleOfAll ==
    ASSUME NEW ranking \in Seq(PathItem), \A i \in DOMAIN ranking : Distinct(ranking[i].nodes),
           NEW ss, Len(ss) \in Nat, DOMAIN ss = 1..Len(ss), \A i \in DOMAIN ss : ss[i].id \in Nat,
           NEW cs \in Seq(ChunkItem), Distinct(cs), NEW b, b = Bundle(ranking, ss, cs)
    PROVE  Whole(b) /\ LeavesOutTheRest(b, Items(ranking), ss, Len(cs))
<1> DEFINE none == [nodes |-> <<>>, paths |-> <<>>, chunks |-> <<>>]
           first == Tried(ranking, none, WithPath)
           second == Tried(ss, first, WithSeed)
           kept == Tried(cs, second, WithChunk)
           nodes == {s.id : s \in Items(ss)} \cup UNION {Items(p.nodes) : p \in Items(ranking)}
           omitted == [nodes |-> nodes \ Items(kept.nodes),
                       paths |-> {p \in Items(ranking) : p \notin Items(kept.paths)},
                       chunks |-> {c \in Items(cs) : c \notin Items(kept.chunks)}]
<1>1. b = [kept |-> kept, omitted |-> omitted,
           truncated |-> \E part \in DOMAIN omitted : omitted[part] # {}]
  BY DEF Bundle
<1>2. KeptLegal(none) /\ none.chunks = <<>>
  BY EmptyIsLegal
<1> HIDE DEF none
<1>3. /\ KeptLegal(first) /\ first.chunks = <<>>
      /\ \A i \in DOMAIN ranking :
            ranking[i] \in Items(first.paths) \/ NoRoomForPath(first, ranking[i])
  BY <1>2, PathsKept
<1> HIDE DEF first
<1>4. /\ KeptLegal(second) /\ second.chunks = <<>> /\ Extends(first, second)
      /\ \A i \in DOMAIN ss :
            ss[i].id \in Items(second.nodes) \/ NoRoomForNode(second, ss[i].id)
  BY <1>3, SeedsKept
<1> HIDE DEF second
<1>5. /\ KeptLegal(kept) /\ Extends(second, kept)
      /\ \A i \in DOMAIN cs : cs[i] \in Items(kept.chunks) \/ NoRoomForChunk(kept, cs[i])
      /\ Distinct(kept.chunks) /\ Items(kept.chunks) \subseteq Items(cs)
  BY <1>4, ChunksKept
<1> HIDE DEF kept
<1>6. Extends(first, kept)
  BY <1>3, <1>4, <1>5, ExtendsFurther
<1>7. \A p \in Items(ranking) : p \in Items(kept.paths) \/ NoRoomForPath(kept, p)
  <2> SUFFICES ASSUME NEW i \in DOMAIN ranking
               PROVE  ranking[i] \in Items(kept.paths) \/ NoRoomForPath(kept, ranking[i])
    BY DEF Items
  <2>1. ranking[i] \in PathItem /\ Distinct(ranking[i].nodes)
    BY ElementOfSeq, LenProperties
  <2> QED BY <2>1, <1>3, <1>5, <1>6, PathStays
<1>8. \A s \in Items(ss) : s.id \in Items(kept.nodes) \/ NoRoomForNode(kept, s.id)
  <2> SUFFICES ASSUME NEW i \in DOMAIN ss
               PROVE  ss[i].id \in Items(kept.nodes) \/ NoRoomForNode(kept, ss[i].id)
    BY DEF Items
  <2> QED BY <1>4, <1>5, NodeStays
<1>9. \A c \in Items(cs) : c \in Items(kept.chunks) \/ NoRoomForChunk(kept, c)
  BY <1>5 DEF Items
<1>10. (\E c \in Items(cs) : c \notin Items(kept.chunks)) <=> Len(cs) > Len(kept.chunks)
  <2>1. kept.chunks \in Seq(ChunkItem) /\ Len(kept.chunks) \in Nat
    BY <1>5, KeptFields DEF KeptLegal
  <2>2. IsFiniteSet(Items(cs)) /\ Cardinality(Items(cs)) = Len(cs) /\ Len(cs) \in Nat
    BY DistinctCount, LenProperties
  <2>3. IsFiniteSet(Items(kept.chunks)) /\ Cardinality(Items(kept.chunks)) = Len(kept.chunks)
    BY <1>5, <2>1, DistinctCount
  <2>4. /\ Cardinality(Items(kept.chunks)) <= Cardinality(Items(cs))
        /\ Cardinality(Items(kept.chunks)) = Cardinality(Items(cs)) => Items(kept.chunks) = Items(cs)
    BY <1>5, <2>2, FS_Subset
  <2>5. CASE Items(kept.chunks) = Items(cs)
    BY <2>1, <2>2, <2>3, <2>5
  <2>6. CASE Items(kept.chunks) # Items(cs)
    <3>1. Len(kept.chunks) # Len(cs) /\ Len(kept.chunks) <= Len(cs)
      BY <2>2, <2>3, <2>4, <2>6
    <3>2. Len(cs) > Len(kept.chunks)
      BY <3>1, <2>1, <2>2
    <3>3. \E c \in Items(cs) : c \notin Items(kept.chunks)
      BY <1>5, <2>6
    <3> QED BY <3>2, <3>3
  <2> QED BY <2>5, <2>6
<1>11. \A p \in Items(kept.paths) : Items(p.nodes) \subseteq Items(kept.nodes)
  BY <1>5 DEF KeptLegal, Items
<1> DEFINE truncated == \E part \in DOMAIN omitted : omitted[part] # {}
<1>12. truncated <=> \/ \E p \in Items(ranking) : p \notin Items(kept.paths)
                     \/ Len(cs) > Len(kept.chunks)
                     \/ \E s \in Items(ss) : s.id \notin Items(kept.nodes)
  <2>1. truncated <=> \/ nodes \ Items(kept.nodes) # {}
                      \/ {p \in Items(ranking) : p \notin Items(kept.paths)} # {}
                      \/ {c \in Items(cs) : c \notin Items(kept.chunks)} # {}
    <3>1. DOMAIN omitted = {"nodes", "paths", "chunks"}
      OBVIOUS
    <3>2. truncated <=> omitted.nodes # {} \/ omitted.paths # {} \/ omitted.chunks # {}
      BY <3>1
    <3> HIDE DEF nodes
    <3> QED BY <3>2
  <2>2. {p \in Items(ranking) : p \notin Items(kept.paths)} # {}
            <=> \E p \in Items(ranking) : p \notin Items(kept.paths)
    OBVIOUS
  <2>3. {c \in Items(cs) : c \notin Items(kept.chunks)} # {} <=> Len(cs) > Len(kept.chunks)
    BY <1>10
  <2>4. (\E s \in Items(ss) : s.id \notin Items(kept.nodes)) => nodes \ Items(kept.nodes) # {}
    OBVIOUS
  <2>5. nodes \ Items(kept.nodes) # {} =>
            \/ \E p \in Items(ranking) : p \notin Items(kept.paths)
            \/ \E s \in Items(ss) : s.id \notin Items(kept.nodes)
    <3> SUFFICES ASSUME NEW x \in nodes, x \notin Items(kept.nodes)
                 PROVE  \/ \E p \in Items(ranking) : p \notin Items(kept.paths)
                        \/ \E s \in Items(ss) : s.id \notin Items(kept.nodes)
      OBVIOUS
    <3>1. CASE x \in {s.id : s \in Items(ss)}
      BY <3>1
    <3>2. CASE \E p \in Items(ranking) : x \in Items(p.nodes)
      BY <3>2, <1>11
    <3> QED BY <3>1, <3>2
  <2> HIDE DEF truncated, nodes
  <2> QED BY <2>1, <2>2, <2>3, <2>4, <2>5
<1> HIDE DEF nodes, truncated
<1>13. /\ b.kept = kept /\ b.omitted = omitted /\ b.truncated = truncated
  BY <1>1 DEF truncated
<1>14. /\ omitted.nodes = nodes \ Items(kept.nodes)
       /\ omitted.paths = {p \in Items(ranking) : p \notin Items(kept.paths)}
       /\ omitted.chunks = {c \in Items(cs) : c \notin Items(kept.chunks)}
  OBVIOUS
<1> HIDE DEF omitted
<1>15. Whole(b)
  BY <1>5, <1>13, LegalIsWhole
<1>16. LeavesOutTheRest(b, Items(ranking), ss, Len(cs))
  <2>1. \A p \in b.omitted.paths : NoRoomForPath(b.kept, p)
    BY <1>7, <1>13, <1>14
  <2>2. \A x \in b.omitted.nodes :
            NoRoomForNode(b.kept, x) \/ x \notin {s.id : s \in Items(ss)}
    BY <1>8, <1>13, <1>14
  <2>3. \A c \in b.omitted.chunks : NoRoomForChunk(b.kept, c)
    BY <1>9, <1>13, <1>14
  <2>4. b.truncated = (\/ \E p \in Items(ranking) : p \notin Items(b.kept.paths)
                       \/ Len(cs) > Len(b.kept.chunks)
                       \/ \E s \in Items(ss) : s.id \notin Items(b.kept.nodes))
    <3>1. truncated \in BOOLEAN
      BY DEF truncated
    <3> QED BY <3>1, <1>12, <1>13
  <2> QED BY <2>1, <2>2, <2>3, <2>4 DEF LeavesOutTheRest
<1> QED BY <1>15, <1>16

-----------------------------------------------------------------------------
(* The paths a retrieval reads.                                             *)

\* A row of the graph, which becomes a path when it is scored.
RowFits(r) ==
    r.score \in Int /\ \A x \in Int : OfGraph([id |-> r.edges, nodes |-> r.nodes, final |-> x])

LEMMA ShortLists ==
    ASSUME NEW T, NEW x \in T, NEW y \in T, NEW z \in T
    PROVE  /\ <<x>> \in Seq(T) /\ <<x, y>> \in Seq(T) /\ <<x, y, z>> \in Seq(T)
           /\ Len(<<x>>) = 1 /\ Len(<<x, y>>) = 2
           /\ x # y => Distinct(<<x, y>>)
           /\ x # y /\ y # z /\ x # z => Distinct(<<x, y, z>>)
BY DEF Distinct

LEMMA EdgeRowFits ==
    ASSUME NEW e \in Edges, e.from \in Nat, e.to \in Nat, NEW r, r.score \in Int,
           r.nodes = <<e.from, e.to>>, r.edges = <<e.id>>
    PROVE  RowFits(r)
<1>1. e.id \in Nat /\ e.from # e.to
  BY EdgesAssumption
<1>2. /\ r.nodes \in Seq(Nat) /\ r.edges \in Seq(Nat) /\ Len(r.edges) = 1
      /\ Distinct(r.nodes)
  <2> DEFINE D == Nat
  <2>1. e.id \in D /\ e.from \in D /\ e.to \in D
    BY <1>1
  <2> HIDE DEF D
  <2>2. <<e.from, e.to>> \in Seq(D) /\ <<e.id>> \in Seq(D) /\ Len(<<e.id>>) = 1
        /\ Distinct(<<e.from, e.to>>)
    BY <1>1, <2>1, ShortLists
  <2> QED BY <2>2 DEF D
<1>3. ASSUME NEW x \in Int PROVE OfGraph([id |-> r.edges, nodes |-> r.nodes, final |-> x])
  <2> DEFINE p == [id |-> r.edges, nodes |-> r.nodes, final |-> x]
  <2>1. p \in PathItem /\ p.nodes = r.nodes /\ p.id = r.edges
    BY <1>2 DEF PathItem
  <2> HIDE DEF p
  <2>2. EdgePath(p, e)
    BY <2>1 DEF EdgePath
  <2>3. Len(p.id) \in 1..2
    BY <1>2, <2>1
  <2>4. OfGraph(p)
    BY <1>2, <2>1, <2>2, <2>3 DEF OfGraph
  <2> QED BY <2>4 DEF p
<1> QED BY <1>3 DEF RowFits

LEMMA TwoEdgeRowFits ==
    ASSUME NEW e \in Edges, NEW f \in Edges, e.from \in Nat, e.to \in Nat, f.to \in Nat,
           f.to # e.from, f.to # e.to, NEW r, r.score \in Int,
           r.nodes = <<e.from, e.to, f.to>>, r.edges = <<e.id, f.id>>
    PROVE  RowFits(r)
<1>1. e.id \in Nat /\ f.id \in Nat /\ e.from # e.to
  BY EdgesAssumption
<1>2. /\ r.nodes \in Seq(Nat) /\ r.edges \in Seq(Nat) /\ Len(r.edges) = 2
      /\ Distinct(r.nodes)
  <2> DEFINE D == Nat
  <2>1. e.id \in D /\ f.id \in D /\ e.from \in D /\ e.to \in D /\ f.to \in D
    BY <1>1
  <2> HIDE DEF D
  <2>2. <<e.from, e.to, f.to>> \in Seq(D) /\ Distinct(<<e.from, e.to, f.to>>)
    BY <1>1, <2>1, ShortLists
  <2>3. <<e.id, f.id>> \in Seq(D) /\ Len(<<e.id, f.id>>) = 2
    BY <2>1, ShortLists
  <2> QED BY <2>2, <2>3 DEF D
<1>3. ASSUME NEW x \in Int PROVE OfGraph([id |-> r.edges, nodes |-> r.nodes, final |-> x])
  <2> DEFINE p == [id |-> r.edges, nodes |-> r.nodes, final |-> x]
  <2>1. p \in PathItem /\ p.nodes = r.nodes /\ p.id = r.edges
    BY <1>2 DEF PathItem
  <2> HIDE DEF p
  <2>2. TwoEdgePath(p, e, f)
    BY <2>1 DEF TwoEdgePath
  <2>3. Len(p.id) \in 1..2
    BY <1>2, <2>1
  <2>4. OfGraph(p)
    BY <1>2, <2>1, <2>2, <2>3 DEF OfGraph
  <2> QED BY <2>4 DEF p
<1> QED BY <1>3 DEF RowFits

LEMMA RowsFit ==
    ASSUME cases \subseteq CaseNodes, NEW n, NEW r \in PathsFrom(n)
    PROVE  RowFits(r)
<1>1. \A e \in PresentEdges(Edges) :
          e \in Edges /\ e.from \in Nat /\ e.to \in Nat /\ e.weight \in Nat
  <2>1. Nodes \subseteq Nat
    BY RetrievalAssumption DEF Nodes
  <2> QED BY <2>1, EdgesAssumption DEF PresentEdges
<1> DEFINE one == {e \in PresentEdges(Edges) : e.from = n}
           two == {p \in one \X PresentEdges(Edges) :
                       p[2].from = p[1].to /\ p[2].to # n /\ p[2].to # p[1].to}
<1>2. \/ r \in {[nodes |-> <<n, e.to>>, edges |-> <<e.id>>, score |-> e.weight] : e \in one}
      \/ r \in {[nodes |-> <<n, p[1].to, p[2].to>>, edges |-> <<p[1].id, p[2].id>>,
                 score |-> (p[1].weight * p[2].weight) \div 10] : p \in two}
    <2>1. CASE MaxHops = 1
        BY <2>1, Zenon DEF PathsFrom
    <2>2. CASE MaxHops # 1
        BY <2>2, Zenon DEF PathsFrom
    <2> QED BY <2>1, <2>2
<1>3. CASE r \in {[nodes |-> <<n, e.to>>, edges |-> <<e.id>>, score |-> e.weight] : e \in one}
  <2>1. PICK e \in one : r = [nodes |-> <<n, e.to>>, edges |-> <<e.id>>, score |-> e.weight]
    BY <1>3, Zenon
  <2>2. e \in Edges /\ e.from \in Nat /\ e.to \in Nat /\ e.weight \in Nat /\ e.from = n
    BY <1>1
  <2>3. r.nodes = <<e.from, e.to>> /\ r.edges = <<e.id>> /\ r.score \in Int
    BY <2>1, <2>2
  <2> QED BY <2>2, <2>3, EdgeRowFits
<1>4. CASE r \in {[nodes |-> <<n, p[1].to, p[2].to>>, edges |-> <<p[1].id, p[2].id>>,
                   score |-> (p[1].weight * p[2].weight) \div 10] : p \in two}
  <2>1. PICK p \in two : r = [nodes |-> <<n, p[1].to, p[2].to>>,
                              edges |-> <<p[1].id, p[2].id>>,
                              score |-> (p[1].weight * p[2].weight) \div 10]
    BY <1>4, Zenon
  <2>2. PICK e \in one, f \in PresentEdges(Edges) : e = p[1] /\ f = p[2]
    OBVIOUS
  <2>3. /\ e \in Edges /\ f \in Edges /\ e.from \in Nat /\ e.to \in Nat /\ f.to \in Nat
        /\ e.from = n /\ e.weight \in Nat /\ f.weight \in Nat
    BY <1>1
  <2>4. f.to # e.from /\ f.to # e.to
    BY <2>2, <2>3
  <2>5. r = [nodes |-> <<e.from, e.to, f.to>>, edges |-> <<e.id, f.id>>,
             score |-> (e.weight * f.weight) \div 10]
    BY <2>1, <2>2, <2>3
  <2>6. (e.weight * f.weight) \div 10 \in Int
    <3>1. e.weight * f.weight \in Nat
      BY <2>3
    <3> QED BY <3>1
  <2>7. r.nodes = <<e.from, e.to, f.to>> /\ r.edges = <<e.id, f.id>> /\ r.score \in Int
    BY <2>5, <2>6
  <2> QED BY <2>3, <2>4, <2>7, TwoEdgeRowFits
<1> QED BY <1>2, <1>3, <1>4

LEMMA RowsFinite ==
    ASSUME NEW n
    PROVE  IsFiniteSet(PathsFrom(n))
<1> DEFINE present == PresentEdges(Edges)
           one == {e \in present : e.from = n}
           two == {p \in one \X present :
                       p[2].from = p[1].to /\ p[2].to # n /\ p[2].to # p[1].to}
           short == [e \in one |-> [nodes |-> <<n, e.to>>, edges |-> <<e.id>>, score |-> e.weight]]
           long == [p \in two |-> [nodes |-> <<n, p[1].to, p[2].to>>, edges |-> <<p[1].id, p[2].id>>,
                                   score |-> (p[1].weight * p[2].weight) \div 10]]
           shorts == {short[e] : e \in one}
           longs == {long[p] : p \in two}
<1>1. IsFiniteSet(present)
  <2>1. present \in SUBSET Edges
    BY DEF PresentEdges
  <2> QED BY <2>1, EdgesAssumption, FS_Subset
<1>2. IsFiniteSet(one)
  <2>1. one \in SUBSET present
    OBVIOUS
  <2> HIDE DEF present, one
  <2> QED BY <1>1, <2>1, FS_Subset
<1>3. IsFiniteSet(two)
  <2>1. two \in SUBSET (one \X present)
    OBVIOUS
  <2> HIDE DEF present, one, two
  <2>2. IsFiniteSet(one \X present)
    BY <1>1, <1>2, FS_Product
  <2> QED BY <2>1, <2>2, FS_Subset
<1>4. PathsFrom(n) \in SUBSET (shorts \cup longs)
  <2>1. /\ shorts = {[nodes |-> <<n, e.to>>, edges |-> <<e.id>>, score |-> e.weight] : e \in one}
        /\ longs = {[nodes |-> <<n, p[1].to, p[2].to>>, edges |-> <<p[1].id, p[2].id>>,
                     score |-> (p[1].weight * p[2].weight) \div 10] : p \in two}
    <3> HIDE DEF one, two
    <3> QED OBVIOUS
  <2>2. \/ PathsFrom(n) = {[nodes |-> <<n, e.to>>, edges |-> <<e.id>>, score |-> e.weight] : e \in one} \cup {}
        \/ PathsFrom(n) = {[nodes |-> <<n, e.to>>, edges |-> <<e.id>>, score |-> e.weight] : e \in one}
               \cup {[nodes |-> <<n, p[1].to, p[2].to>>, edges |-> <<p[1].id, p[2].id>>,
                      score |-> (p[1].weight * p[2].weight) \div 10] : p \in two}
    <3>1. CASE MaxHops = 1
        BY <3>1, Zenon DEF PathsFrom
    <3>2. CASE MaxHops # 1
        BY <3>2, Zenon DEF PathsFrom
    <3> QED BY <3>1, <3>2
  <2> HIDE DEF one, two, shorts, longs
  <2> QED BY <2>1, <2>2
<1> HIDE DEF one, two, short, long
<1>5. IsFiniteSet(shorts) /\ IsFiniteSet(longs)
  BY <1>2, <1>3, ImageFinite
<1> HIDE DEF shorts, longs
<1>6. IsFiniteSet(shorts \cup longs)
  BY <1>5, FS_Union
<1> QED BY <1>4, <1>6, FS_Subset

\* The edges of a path decide its nodes.
LEMMA IdsDecideNodes ==
    ASSUME NEW p, OfGraph(p), NEW q, OfGraph(q), p.id = q.id
    PROVE  p.nodes = q.nodes
<1>1. \A e, f \in Edges : e.id = f.id => e = f
  BY EdgesAssumption
<1>2. ASSUME NEW e \in Edges, EdgePath(p, e) PROVE p.nodes = q.nodes
  <2>1. PICK f \in Edges : EdgePath(q, f)
    BY <1>2 DEF OfGraph, EdgePath, TwoEdgePath
  <2>2. <<e.id>> = <<f.id>>
    BY <1>2, <2>1 DEF EdgePath
  <2>3. e = f
    BY <1>1, <2>2
  <2> QED BY <1>2, <2>1, <2>3 DEF EdgePath
<1>3. ASSUME NEW e \in Edges, NEW d \in Edges, TwoEdgePath(p, e, d) PROVE p.nodes = q.nodes
  <2>1. PICK f \in Edges, g \in Edges : TwoEdgePath(q, f, g)
    BY <1>3 DEF OfGraph, EdgePath, TwoEdgePath
  <2>2. <<e.id, d.id>> = <<f.id, g.id>>
    BY <1>3, <2>1 DEF TwoEdgePath
  <2>3. e = f /\ d = g
    BY <1>1, <2>2
  <2> QED BY <1>3, <2>1, <2>3 DEF TwoEdgePath
<1> QED BY <1>2, <1>3 DEF OfGraph

LEMMA ScoredPathFits ==
    ASSUME NEW r, RowFits(r), NEW S, NEW seed \in CandidatesIn(S)
    PROVE  OfGraph(ScoredPath(r, seed))
<1>1. /\ seed.semantic \in Int /\ seed.lexical \in Int /\ seed.reliability \in Int
      /\ seed.rerank \in Int
  BY DEF CandidatesIn
<1>2. /\ Weights.semantic \in Int /\ Weights.lexical \in Int /\ Weights.path \in Int
      /\ Weights.reliability \in Int /\ Blend \in Int
  BY WeightsAssumption
<1>3. r.score \in Int
  BY DEF RowFits
<1> DEFINE hybrid == seed.semantic * Weights.semantic + seed.lexical * Weights.lexical
                     + r.score * Weights.path + seed.reliability * Weights.reliability
<1>4. hybrid \in Int
  <2>1. \A x, y \in Int : x * y \in Int /\ x + y \in Int
    OBVIOUS
  <2>2. /\ seed.semantic * Weights.semantic \in Int /\ seed.lexical * Weights.lexical \in Int
        /\ r.score * Weights.path \in Int /\ seed.reliability * Weights.reliability \in Int
    BY <1>1, <1>2, <1>3, <2>1
  <2> QED BY <2>1, <2>2
<1> HIDE DEF hybrid
<1>5. FinalScore(hybrid, seed.rerank) \in Int
  <2>1. \A x, y \in Int : x * y \in Int /\ x + y \in Int
    OBVIOUS
  <2>2. (10 - Blend) * hybrid \in Int /\ Blend * 100 * seed.rerank \in Int /\ 10 * hybrid \in Int
    <3>1. 10 - Blend \in Int /\ Blend * 100 \in Int
      BY <1>2
    <3> QED BY <1>1, <1>4, <2>1, <3>1
  <2> QED BY <2>1, <2>2 DEF FinalScore
<1>6. ScoredPath(r, seed) =
          [id |-> r.edges, nodes |-> r.nodes, final |-> FinalScore(hybrid, seed.rerank)]
  BY DEF ScoredPath, hybrid
<1> QED BY <1>5, <1>6 DEF RowFits

PathsFit(ps) ==
    /\ IsFiniteSet(ps) /\ \A p \in ps : OfGraph(p)
    /\ \A p, q \in ps : p.id = q.id => p = q

LEMMA WithPathsFit ==
    ASSUME PathsFit(paths), NEW found, IsFiniteSet(found), \A p \in found : OfGraph(p)
    PROVE  PathsFit(WithPaths(found))
<1> DEFINE T == WithPaths(found)
<1>1. T \in SUBSET (paths \cup found)
  BY DEF WithPaths
<1>2. IsFiniteSet(T)
  <2>1. IsFiniteSet(paths \cup found)
    BY FS_Union DEF PathsFit
  <2> HIDE DEF T
  <2> QED BY <1>1, <2>1, FS_Subset
<1>3. \A p \in T : OfGraph(p)
  BY <1>1 DEF PathsFit
<1>4. ASSUME NEW p \in T, NEW q \in T, p.id = q.id, p # q PROVE FALSE
  <2>1. ByFinal(p, q) /\ ByFinal(q, p)
    BY <1>1, <1>4 DEF WithPaths
  <2>2. p.nodes = q.nodes
    BY <1>3, <1>4, IdsDecideNodes
  <2>3. /\ p \in [id : Seq(Nat), nodes : Seq(Nat), final : Int]
        /\ q \in [id : Seq(Nat), nodes : Seq(Nat), final : Int]
    BY <1>3 DEF OfGraph, PathItem
  <2>4. p.final \in Int /\ q.final \in Int
    BY <2>3
  <2>5. p.final # q.final
    BY <1>4, <2>2, <2>3
  <2> QED BY <2>1, <2>4, <2>5 DEF ByFinal
<1> QED BY <1>2, <1>3, <1>4 DEF PathsFit

\* The chunks as the bundle is given them.
LEMMA SizedFits ==
    ASSUME doc \in Documents, imported = Chunks(doc), world \in Worlds,
           Candidates(chunks, ChunkIds)
    PROVE  Sized \in Seq(ChunkItem) /\ Distinct(Sized) /\ Len(Sized) = Len(chunks)
<1> DEFINE n == Len(chunks)
<1>1. n \in Nat /\ DOMAIN chunks = 1..n
  BY LenProperties DEF Candidates
<1>2. ASSUME NEW i \in 1..n
      PROVE  chunks[i].id \in Nat /\ imported[chunks[i].id].length \in Nat
  <2>1. chunks[i] \in CandidatesIn(ChunkIds)
    BY <1>1, SequenceItems DEF Candidates
  <2>2. chunks[i].id \in ChunkIds
    BY <2>1 DEF CandidatesIn
  <2>3. chunks[i].id \in 1..Len(imported)
    BY <2>2 DEF ChunkIds
  <2>4. \A j \in 1..Len(imported) : imported[j].length \in Nat
    <3>1. doc \in Seq(Line)
      BY DocumentsAssumption
    <3> QED BY <3>1, ChunksWell
  <2>5. chunks[i].id \in Nat
    BY <2>2, WorldFacts
  <2> QED BY <2>3, <2>4, <2>5
<1>3. Sized = [i \in 1..n |-> [id |-> chunks[i].id,
                               size |-> ChunkSize + imported[chunks[i].id].length]]
  BY <1>1 DEF Sized
<1>4. ASSUME NEW i \in 1..n
      PROVE  Sized[i] \in ChunkItem /\ Sized[i].id = chunks[i].id
  <2>1. Sized[i] = [id |-> chunks[i].id, size |-> ChunkSize + imported[chunks[i].id].length]
    BY <1>3
  <2>2. ChunkSize + imported[chunks[i].id].length \in Nat
    BY <1>2, BudgetFacts
  <2> QED BY <1>2, <2>1, <2>2 DEF ChunkItem
<1>5. DOMAIN Sized = 1..n /\ Sized = [i \in 1..n |-> Sized[i]]
  BY <1>3
<1>6. Sized \in Seq(ChunkItem) /\ Len(Sized) = n
  <2> HIDE DEF n
  <2>1. Sized \in [1..n -> ChunkItem]
    BY <1>4, <1>5
  <2> QED BY <1>1, <1>5, <2>1
<1>7. \A i, j \in 1..n : Sized[i] = Sized[j] => i = j
  <2>1. \A i, j \in 1..n : chunks[i].id = chunks[j].id => i = j
    BY <1>1 DEF Candidates
  <2> HIDE DEF n
  <2> QED BY <1>4, <2>1
<1> QED BY <1>5, <1>6, <1>7 DEF Distinct

LEMMA SeedsFit ==
    ASSUME world \in Worlds, Candidates(seeds, SeedIds)
    PROVE  /\ Len(seeds) \in Nat /\ DOMAIN seeds = 1..Len(seeds)
           /\ \A i \in DOMAIN seeds : seeds[i] \in CandidatesIn(SeedIds) /\ seeds[i].id \in Nat
<1>1. Len(seeds) \in Nat /\ DOMAIN seeds = 1..Len(seeds)
  BY LenProperties DEF Candidates
<1>2. ASSUME NEW i \in DOMAIN seeds
      PROVE  seeds[i] \in CandidatesIn(SeedIds) /\ seeds[i].id \in Nat
  <2>1. seeds[i] \in CandidatesIn(SeedIds)
    BY <1>1, SequenceItems DEF Candidates
  <2>2. seeds[i].id \in SeedIds
    BY <2>1 DEF CandidatesIn
  <2> QED BY <2>1, <2>2, WorldFacts
<1> QED BY <1>1, <1>2

\* Rows and paths are those of the graph, and what was bundled is maximal.
BundleInv ==
    /\ doc \in Documents /\ imported = Chunks(doc)
    /\ IsFiniteSet(rows) /\ \A r \in rows : RowFits(r)
    /\ PathsFit(paths)
    /\ turn \in Nat \ {0} /\ (phase \in {"nodes", "edges"} => turn <= Len(seeds))
    /\ phase = "done" => Whole(bundle) /\ LeavesOutTheRest(bundle, paths, seeds, Len(chunks))

LEMMA BundleStep ==
    ScoresInv /\ BundleInv /\ [RetrievalNext]_retrievalVars => BundleInv'
<1> SUFFICES ASSUME ScoresInv, BundleInv, [RetrievalNext]_retrievalVars PROVE BundleInv'
  OBVIOUS
<1> USE DEF Kept, Alone, Goes, Fails
<1>S. /\ world \in Worlds /\ cases \subseteq CaseNodes
      /\ Candidates(seeds, SeedIds) /\ Candidates(chunks, ChunkIds)
  BY DEF ScoresInv, ScoredAs
<1>N. Len(seeds) \in Nat /\ DOMAIN seeds = 1..Len(seeds)
      /\ \A i \in DOMAIN seeds : seeds[i] \in CandidatesIn(SeedIds) /\ seeds[i].id \in Nat
  BY <1>S, SeedsFit
\* Steps before the bundle that leave the paths alone.
<1>A. ASSUME UNCHANGED <<doc, imported, rows, paths, turn>>, phase' # "done",
             phase' \notin {"nodes", "edges"}
      PROVE  BundleInv'
  BY <1>A DEF BundleInv, PathsFit
<1>1. CASE Embedded
  BY <1>1, <1>A DEF Embedded
<1>2. CASE SearchedLexical
  BY <1>2, <1>A DEF SearchedLexical
<1>3. CASE SearchedVector
  BY <1>3, <1>A DEF SearchedVector
<1>4. CASE RerankedSeeds
  BY <1>4, <1>A DEF RerankedSeeds, SecondStage
<1>5. CASE ReadRows
  <2>1. /\ rows' = PathsFrom(seeds[turn].id) /\ turn <= Len(seeds)
        /\ UNCHANGED <<doc, imported, paths, seeds, chunks, bundle>>
        /\ \/ phase' = "rows" /\ turn' = turn + 1
           \/ phase' = "nodes" /\ turn' = turn
    BY <1>5 DEF ReadRows
  <2>2. IsFiniteSet(rows') /\ \A r \in rows' : RowFits(r)
    BY <2>1, <1>S, RowsFit, RowsFinite
  <2>3. turn' \in Nat \ {0}
    BY <2>1 DEF BundleInv
  <2> QED BY <2>1, <2>2, <2>3 DEF BundleInv, PathsFit
<1>6. CASE LoadedNodes
  BY <1>6 DEF LoadedNodes, BundleInv, PathsFit
<1>7. CASE LoadedEdges
  <2>1. /\ phase = "edges" /\ UNCHANGED <<doc, imported, rows, seeds, chunks, bundle>>
        /\ \/ phase' = "rows" /\ turn' = turn + 1
              /\ paths' = WithPaths({ScoredPath(r, seeds[turn]) : r \in rows})
           \/ phase' = "failed" /\ UNCHANGED <<turn, paths>>
    BY <1>7, Zenon DEF LoadedEdges
  <2>2. CASE UNCHANGED paths
    BY <2>1, <2>2 DEF BundleInv, PathsFit
  <2>3. CASE paths' = WithPaths({ScoredPath(r, seeds[turn]) : r \in rows}) /\ turn' = turn + 1
             /\ phase' = "rows"
    <3> DEFINE score == [r \in rows |-> ScoredPath(r, seeds[turn])]
               found == {score[r] : r \in rows}
    <3>1. turn \in DOMAIN seeds
      BY <2>1, <1>N DEF BundleInv
    <3>2. \A r \in rows : OfGraph(ScoredPath(r, seeds[turn]))
      BY <3>1, <1>N, ScoredPathFits DEF BundleInv
    <3>3. \A p \in found : OfGraph(p)
      BY <3>2
    <3>4. paths' = WithPaths(found)
      <4>1. found = {ScoredPath(r, seeds[turn]) : r \in rows}
        OBVIOUS
      <4> HIDE DEF found
      <4> QED BY <2>3, <4>1
    <3> HIDE DEF score
    <3>5. IsFiniteSet(found)
      BY ImageFinite DEF BundleInv
    <3> HIDE DEF found
    <3>6. PathsFit(WithPaths(found))
      BY <3>3, <3>5, WithPathsFit DEF BundleInv
    <3>7. PathsFit(paths)'
      BY <3>4, <3>6 DEF PathsFit
    <3>8. turn' \in Nat \ {0}
      BY <2>3 DEF BundleInv
    <3> QED BY <2>1, <2>3, <3>7, <3>8 DEF BundleInv
  <2> QED BY <2>1, <2>2, <2>3
<1>8. CASE GraphDone
  BY <1>8, <1>A DEF GraphDone
<1>9. CASE SearchedChunks
  BY <1>9, <1>A DEF SearchedChunks
<1>10. CASE RerankedChunks
  BY <1>10, <1>A DEF RerankedChunks, SecondStage
<1>11. CASE Bundled
  <2>1. /\ UNCHANGED <<doc, imported, rows, paths, turn, seeds, chunks>> /\ phase' = "done"
        /\ bundle' = Bundle(Ranked(paths, PathOrder), seeds, Sized)
    BY <1>11 DEF Bundled
  <2>2. PICK ranking : ranking = Ranked(paths, PathOrder)
    OBVIOUS
  <2>3. Lists(ranking, paths)
    BY <2>2, RankedByPath DEF BundleInv, PathsFit
  <2>4. /\ ranking \in Seq(PathItem) /\ Items(ranking) = paths
        /\ \A i \in DOMAIN ranking : Distinct(ranking[i].nodes)
    <3>1. \A p \in paths : p \in PathItem /\ Distinct(p.nodes)
      BY DEF BundleInv, PathsFit, OfGraph
    <3>2. ranking \in Seq(paths)
      BY <2>3 DEF Lists
    <3>3. \A i \in DOMAIN ranking : ranking[i] \in paths
      BY <3>2, SequenceItems
    <3>4. ranking \in Seq(PathItem)
      BY <3>1, <3>2, <3>3
    <3>5. Items(ranking) = paths
      BY <2>3, <3>3 DEF Items, Lists
    <3> QED BY <3>1, <3>3, <3>4, <3>5
  <2>5. Sized \in Seq(ChunkItem) /\ Distinct(Sized) /\ Len(Sized) = Len(chunks)
    BY <1>S, SizedFits DEF BundleInv
  <2>6. Whole(bundle') /\ LeavesOutTheRest(bundle', Items(ranking), seeds, Len(Sized))
    <3>1. PICK b, sized : b = bundle' /\ sized = Sized
      OBVIOUS
    <3>2. b = Bundle(ranking, seeds, sized)
      BY <2>1, <2>2, <3>1
    <3>3. Whole(b) /\ LeavesOutTheRest(b, Items(ranking), seeds, Len(sized))
      BY <3>1, <3>2, <1>N, <2>4, <2>5, BundleOfAll
    <3> QED BY <3>1, <3>3
  <2>7. Whole(bundle') /\ LeavesOutTheRest(bundle', paths', seeds', Len(chunks'))
    BY <2>1, <2>4, <2>5, <2>6
  <2> QED BY <2>1, <2>7 DEF BundleInv, PathsFit
<1>12. CASE \E c \in CaseNodes : CaseChanges(c)
  BY <1>12 DEF CaseChanges, BundleInv, PathsFit
<1>13. CASE UNCHANGED retrievalVars
  BY <1>13 DEF retrievalVars, BundleInv, PathsFit
<1> QED BY <1>1, <1>2, <1>3, <1>4, <1>5, <1>6, <1>7, <1>8, <1>9, <1>10, <1>11, <1>12, <1>13
        DEF RetrievalNext

LEMMA BundleAlways == RetrievalSpec => []BundleInv
<1>1. RetrievalInit => BundleInv
  <2> SUFFICES ASSUME RetrievalInit PROVE BundleInv
    OBVIOUS
  <2>1. rows = {} /\ paths = {} /\ IsFiniteSet({})
    BY FS_EmptySet DEF RetrievalInit
  <2> QED BY <2>1 DEF RetrievalInit, BundleInv, PathsFit
<1>2. ScoresInv /\ BundleInv /\ [RetrievalNext]_retrievalVars => BundleInv'
  BY BundleStep
<1> QED BY <1>1, <1>2, ScoresAlways, PTL DEF RetrievalSpec

\* For every graph, every document, every budget and whatever the reranker says: what a
\* retrieval bundles keeps to its budget, breaks no path, and leaves nothing out that
\* there was room for.
THEOREM BundlesAreMaximal == RetrievalSpec => []BundleIsMaximal
<1>1. BundleInv => BundleIsMaximal
  <2> SUFFICES ASSUME BundleInv, phase = "done"
               PROVE  BundleIsWhole /\ NothingThatFitsIsOmitted
    BY DEF BundleIsMaximal, BundleIsWhole, NothingThatFitsIsOmitted
  <2>1. Whole(bundle) /\ LeavesOutTheRest(bundle, paths, seeds, Len(chunks))
    BY DEF BundleInv
  <2>2. BundleIsWhole
    BY <2>1 DEF Whole, BundleIsWhole
  <2>3. NothingThatFitsIsOmitted
    BY <2>1 DEF LeavesOutTheRest, NoRoomForPath, NoRoomForNode, NoRoomForChunk,
                NothingThatFitsIsOmitted
  <2> QED BY <2>2, <2>3
<1> QED BY <1>1, BundleAlways, PTL

\* Whatever lines a document has: its import fits every chunk into a chunk, cuts every long
\* line into parts that make the line, keeps all of the text and its order, and never leaves
\* two neighbours of a section apart that would have made one chunk.
THEOREM ChunksAreWhole == RetrievalSpec => []ChunksAreTheDocument
<1>1. BundleInv => ChunksAreTheDocument
  <2> SUFFICES ASSUME BundleInv, phase = "embed" PROVE AreTheDocument(doc, imported)
    BY DEF ChunksAreTheDocument
  <2>1. doc \in Documents /\ imported = Chunks(doc)
    BY DEF BundleInv
  <2>2. doc \in Seq(Line)
    BY <2>1, DocumentsAssumption
  <2> QED BY <2>1, <2>2, ChunksWell
<1> QED BY <1>1, BundleAlways, PTL
=============================================================================
