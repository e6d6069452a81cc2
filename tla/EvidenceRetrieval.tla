------------------------- MODULE EvidenceRetrieval -------------------------
(***************************************************************************)
(* One retrieval of evidence for a message (PostgresGraphContextRetriever, *)
(* GraphRetrievalService, DocumentRetrievalService, the repositories),     *)
(* from the embedding of the query to the bundle the planner is given,     *)
(* while cases are confirmed and removed by other requests.  Each SQL      *)
(* statement sees what is committed when it runs, so that a step is one    *)
(* statement or one request to a provider.                                 *)
(*                                                                         *)
(* Nodes are numbers, in the order of their ids.  What the channels find   *)
(* in a node, and what the reranker thinks of it, is a world of Worlds;    *)
(* the text of a document is one of Documents, chunked when it was         *)
(* imported.                                                               *)
(***************************************************************************)
EXTENDS EvidenceBundle

CONSTANTS Base,        \* nodes of the curated knowledge
          CaseNodes,   \* nodes of cases, in the graph while these are confirmed
          Edges,       \* [id, from, to, weight], weight in tenths
          Reliability, \* of each node
          Worlds,      \* [lexical, semantic, rerank] of nodes, [found, near, reranked] of chunks
          Documents,
          Authority,   \* reliability of the document
          SeedLimit, ChunkLimit, Multiplier, MostCandidates, MaxHops,
          MaxChanges   \* bound: cases confirmed or removed meanwhile

\* Nodes and chunks are numbers, scores are numbers; a reranker may think anything of
\* anything a channel can find.
ASSUME RetrievalAssumption ==
    /\ SeedLimit \in Nat /\ ChunkLimit \in Nat /\ Multiplier \in Nat /\ MostCandidates \in Nat
    /\ Base \cup CaseNodes \subseteq Nat /\ Authority \in Int
    /\ \A n \in Base \cup CaseNodes : Reliability[n] \in Int
    /\ \A w \in Worlds :
        /\ IsFiniteSet(DOMAIN w.found \cup DOMAIN w.near) /\ DOMAIN w.found \cup DOMAIN w.near \subseteq Nat
        /\ \A n \in DOMAIN w.found : w.found[n] \in Int
        /\ \A n \in DOMAIN w.near : w.near[n] \in Int
        /\ \A n \in DOMAIN w.found \cup DOMAIN w.near : w.reranked[n] \in Int
        /\ IsFiniteSet(DOMAIN w.lexical \cup DOMAIN w.semantic)
        /\ \A n \in DOMAIN w.lexical : w.lexical[n] \in Int
        /\ \A n \in DOMAIN w.semantic : w.semantic[n] \in Int
        /\ \A n \in DOMAIN w.lexical \cup DOMAIN w.semantic : w.rerank[n] \in Int

\* The primary key of edges, and ck_knowledge_edges_no_self_loop.
ASSUME EdgesAssumption ==
    /\ IsFiniteSet(Edges)
    /\ \A e \in Edges : e.id \in Nat /\ e.from # e.to /\ e.weight \in Nat
    /\ \A e, f \in Edges : e.id = f.id => e = f

\* A document is a sequence of lines.
ASSUME DocumentsAssumption == Documents \subseteq Seq(Line)

VARIABLES phase,       \* the statement or request that comes next
          cases,       \* case nodes in the graph
          changes,     \* how many confirmations and removals there were
          world, doc,  \* what there is to find
          imported,    \* the chunks of doc, stored before the retrieval begins
          reranks,     \* a reranker is configured
          lexical,     \* what the first channel found, with its scores
          seeds,       \* candidates, and then the seeds kept
          scored,      \* the reranker's scores are in the seeds, in the chunks
          turn,        \* the seed whose paths are read
          rows, loaded,\* paths read as ids, and the nodes loaded for them
          paths,       \* paths found so far
          chunks,
          bundle,
          cause, torn  \* history: why it failed; a case went since the rows were read

retrievalVars == <<phase, cases, changes, world, doc, imported, reranks, lexical, seeds, scored,
                   turn, rows, loaded, paths, chunks, bundle, cause, torn>>

Nothing == [kept |-> [nodes |-> <<>>, paths |-> <<>>, chunks |-> <<>>]]
Nodes == Base \cup cases
PresentEdges(edges) == {e \in edges : e.from \in Nodes /\ e.to \in Nodes}
Restricted(f, S) == [n \in DOMAIN f \cap S |-> f[n]]

\* The best of what a channel finds: ORDER BY score, reliability, id LIMIT.
Best(f, limit) ==
    LET Better(x, y) ==
            \/ f[x] > f[y]
            \/ f[x] = f[y] /\ Reliability[x] > Reliability[y]
            \/ f[x] = f[y] /\ Reliability[x] = Reliability[y] /\ x < y
    IN  Restricted(f, Items(UpTo(Ranked(DOMAIN f, Better), limit)))

SeedCandidates == CandidateLimit(SeedLimit, reranks, Multiplier, MostCandidates)
ChunkCandidates == CandidateLimit(ChunkLimit, reranks, Multiplier, MostCandidates)

RetrievalInit ==
    /\ phase = "embed" /\ cases \in SUBSET CaseNodes /\ changes = 0
    /\ world \in Worlds /\ doc \in Documents /\ imported = Chunks(doc) /\ reranks \in BOOLEAN
    /\ lexical = <<>> /\ seeds = <<>> /\ scored = [seeds |-> FALSE, chunks |-> FALSE]
    /\ turn = 1 /\ rows = {} /\ loaded = {} /\ paths = {} /\ chunks = <<>>
    /\ bundle = Nothing /\ cause = "none" /\ torn = FALSE

Goes(next) == phase' = next /\ UNCHANGED cause
Fails(why) == phase' = "failed" /\ cause' = why
Alone == UNCHANGED <<cases, changes, world, doc, imported, reranks>>
Kept(variables) == UNCHANGED variables /\ Alone

-----------------------------------------------------------------------------
(* The graph channel.                                                      *)

\* One vector of the configured length, or the retrieval fails.
Embedded ==
    /\ phase \in {"embed", "embedAgain"}
    /\ \/ Goes(IF phase = "embed" THEN "lexical" ELSE "chunks")
       \/ Fails("embedding")
    /\ Kept(<<lexical, seeds, scored, turn, rows, loaded, paths, chunks, bundle, torn>>)

SearchedLexical ==
    /\ phase = "lexical" /\ Goes("vector")
    /\ lexical' = Best(Restricted(world.lexical, Nodes), SeedCandidates)
    /\ Kept(<<seeds, scored, turn, rows, loaded, paths, chunks, bundle, torn>>)

SearchedVector ==
    /\ phase = "vector" /\ Goes("rerank")
    /\ seeds' = SeedsOf(lexical, Best(Restricted(world.semantic, Nodes), SeedCandidates),
                        Reliability, SeedCandidates)
    /\ Kept(<<lexical, scored, turn, rows, loaded, paths, chunks, bundle, torn>>)

\* The endpoint's opinion of these candidates: <<index, score>>, best first.
FullAnswer(candidates, opinion) ==
    LET Higher(i, j) == \/ opinion[candidates[i].id] > opinion[candidates[j].id]
                        \/ opinion[candidates[i].id] = opinion[candidates[j].id] /\ i < j
        order == Ranked(1..Len(candidates), Higher)
    IN  [k \in 1..Len(candidates) |-> <<order[k], opinion[candidates[order[k]].id]>>]

\* What the endpoint may answer: its opinion, one score short, with one index twice, or
\* nothing anybody can read.
Answers(candidates, opinion) ==
    LET n == Len(candidates)
        full == FullAnswer(candidates, opinion)
    IN  {full, Front(full), <<>>}
        \cup (IF n = 1 THEN {} ELSE {[full EXCEPT ![n] = <<full[1][1], 10>>]})

\* A reranker that fails leaves the candidates as they are; and one that does not.
DegradesNever(scores) == FALSE
Degrades(scores) == scores = Failed

\* _rerank_candidates of both services.
SecondStage(candidates, opinion, kept, isScored, next, limit) ==
    IF ~reranks \/ candidates = <<>>
    THEN Goes(next) /\ kept' = UpTo(candidates, limit) /\ isScored' = isScored
    ELSE \E answer \in Answers(candidates, opinion) :
            LET scores == ScoresInInputOrder(answer, Len(candidates))
            IN  \/ /\ scores # Failed /\ Goes(next)
                   /\ kept' = UpTo(Rescored(candidates, scores), limit)
                   /\ isScored' = [isScored EXCEPT ![IF next = "rows" THEN "seeds" ELSE "chunks"] = TRUE]
                \/ /\ Degrades(scores) /\ Goes(next)
                   /\ kept' = UpTo(candidates, limit) /\ isScored' = isScored
                \/ /\ scores = Failed /\ ~Degrades(scores) /\ Fails("reranker")
                   /\ kept' = candidates /\ isScored' = isScored

RerankedSeeds ==
    /\ phase = "rerank"
    /\ SecondStage(seeds, world.rerank, seeds, scored, "rows", SeedLimit)
    /\ Kept(<<lexical, turn, rows, loaded, paths, chunks, bundle, torn>>)

\* The simple directed paths from a node along present edges, of one hop and of two.
PathsFrom(n) ==
    LET one == {e \in PresentEdges(Edges) : e.from = n}
        two == {p \in one \X PresentEdges(Edges) :
                    p[2].from = p[1].to /\ p[2].to # n /\ p[2].to # p[1].to}
    IN  {[nodes |-> <<n, e.to>>, edges |-> <<e.id>>, score |-> e.weight] : e \in one}
        \cup (IF MaxHops = 1 THEN {}
              ELSE {[nodes |-> <<n, p[1].to, p[2].to>>, edges |-> <<p[1].id, p[2].id>>,
                     score |-> (p[1].weight * p[2].weight) \div 10] : p \in two})

ReadRows ==
    /\ phase = "rows" /\ turn <= Len(seeds)
    /\ rows' = PathsFrom(seeds[turn].id) /\ torn' = FALSE
    /\ IF rows' = {} THEN Goes("rows") /\ turn' = turn + 1
       ELSE Goes("nodes") /\ UNCHANGED turn
    /\ Kept(<<lexical, seeds, scored, loaded, paths, chunks, bundle>>)

LoadedNodes ==
    /\ phase = "nodes" /\ Goes("edges")
    /\ loaded' = Nodes \cap UNION {Items(r.nodes) : r \in rows}
    /\ Kept(<<lexical, seeds, scored, turn, rows, paths, chunks, bundle, torn>>)

\* Of two versions of one path the better stays.
WithPaths(found) ==
    {p \in paths \cup found :
        \A q \in paths \cup found : q.id = p.id /\ q # p => ByFinal(p, q)}

\* The rows are put together from what was loaded; whatever is missing is a KeyError.
LoadedEdges ==
    /\ phase = "edges"
    /\ LET edges == {e.id : e \in PresentEdges(Edges)}
       IN  IF \A r \in rows : Items(r.nodes) \subseteq loaded /\ Items(r.edges) \subseteq edges
           THEN /\ Goes("rows") /\ turn' = turn + 1
                /\ paths' = WithPaths({ScoredPath(r, seeds[turn]) : r \in rows})
           ELSE Fails("KeyError") /\ UNCHANGED <<turn, paths>>
    /\ Kept(<<lexical, seeds, scored, rows, loaded, chunks, bundle, torn>>)

-----------------------------------------------------------------------------
(* The document channel, and the bundle.                                   *)

GraphDone ==
    /\ phase = "rows" /\ turn > Len(seeds) /\ Goes("embedAgain")
    /\ Kept(<<lexical, seeds, scored, turn, rows, loaded, paths, chunks, bundle, torn>>)

\* Documents do not change: the two statements of this channel are one step.
SearchedChunks ==
    /\ phase = "chunks" /\ Goes("rerankChunks")
    /\ LET there == 1..Len(imported)
       IN  chunks' = ChunksFound(Restricted(world.found, there), Restricted(world.near, there),
                                 Authority, ChunkCandidates)
    /\ Kept(<<lexical, seeds, scored, turn, rows, loaded, paths, bundle, torn>>)

RerankedChunks ==
    /\ phase = "rerankChunks"
    /\ SecondStage(chunks, world.reranked, chunks, scored, "bundle", ChunkLimit)
    /\ Kept(<<lexical, seeds, turn, rows, loaded, paths, bundle, torn>>)

Sized == [i \in DOMAIN chunks |->
            [id |-> chunks[i].id, size |-> ChunkSize + imported[chunks[i].id].length]]

Bundled ==
    /\ phase = "bundle" /\ Goes("done")
    /\ bundle' = Bundle(Ranked(paths, PathOrder), seeds, Sized)
    /\ Kept(<<lexical, seeds, scored, turn, rows, loaded, paths, chunks, torn>>)

-----------------------------------------------------------------------------
(* Other requests confirm and delete cases: their nodes come and go, and   *)
(* with a node its edges.                                                  *)

CaseChanges(c) ==
    /\ changes < MaxChanges /\ changes' = changes + 1
    /\ cases' = IF c \in cases THEN cases \ {c} ELSE cases \cup {c}
    /\ torn' = (torn \/ c \in cases)
    /\ UNCHANGED <<phase, world, doc, imported, reranks, lexical, seeds, scored, turn, rows,
                   loaded, paths, chunks, bundle, cause>>

RetrievalNext ==
    \/ Embedded \/ SearchedLexical \/ SearchedVector \/ RerankedSeeds
    \/ ReadRows \/ LoadedNodes \/ LoadedEdges \/ GraphDone
    \/ SearchedChunks \/ RerankedChunks \/ Bundled
    \/ \E c \in CaseNodes : CaseChanges(c)

RetrievalSpec == RetrievalInit /\ [][RetrievalNext]_retrievalVars

-----------------------------------------------------------------------------
(* Properties.                                                             *)

\* The shape of the state: what the phases may hold.
RetrievalTyped ==
    /\ phase \in {"embed", "lexical", "vector", "rerank", "rows", "nodes", "edges",
                  "embedAgain", "chunks", "rerankChunks", "bundle", "done", "failed"}
    /\ cases \subseteq CaseNodes /\ changes \in 0..MaxChanges /\ reranks \in BOOLEAN
    /\ world \in Worlds /\ doc \in Documents /\ turn \in 1..(SeedLimit + 1)
    /\ DOMAIN lexical \subseteq Base \cup CaseNodes
    /\ \A i \in DOMAIN seeds :
           seeds[i].id \in Base \cup CaseNodes /\ seeds[i].final \in 0..10000
    /\ \A i \in DOMAIN chunks : chunks[i].id \in 1..Len(imported) /\ chunks[i].final \in 0..10000
    /\ cause \in {"none", "embedding", "reranker", "KeyError"} /\ torn \in BOOLEAN

\* The chunks of an imported document are the document, in pieces that fit: all of its
\* text and in order, no chunk longer than a chunk may be, the separators included, and no
\* two neighbours of one section that would have made one chunk (chunking.py: whatever the
\* lines, a chunk fits, or the import of the document fails).
ChunksAreTheDocument == phase = "embed" => AreTheDocument(doc, imported)

\* A score of the second stage is the score the reranker gave to this very candidate,
\* cut to the range of scores, whatever the order of its answer, and either all
\* candidates have one or none has (reranker.py: an answer read in its own order gives
\* the best score to the first candidate, and nobody notices).
ScoresBelongToTheirItem ==
    /\ \A s \in Items(seeds) :
        s.rerank = IF scored.seeds THEN Bounded(world.rerank[s.id]) ELSE -1
    /\ \A c \in Items(chunks) :
        c.rerank = IF scored.chunks THEN Bounded(world.reranked[c.id]) ELSE -1
    /\ ~reranks => ~scored.seeds /\ ~scored.chunks

\* The bundle keeps to all four budgets, holds no node twice, and whoever reads a path
\* of it finds every node of the path in it, and a path of the graph: the planner is
\* never shown a broken one (budget.py).
BundleIsWhole ==
    LET kept == bundle.kept
    IN  phase = "done" =>
        /\ Size(kept.nodes, kept.paths, kept.chunks) <= Budget.bytes
        /\ Len(kept.nodes) <= Budget.nodes /\ Len(kept.paths) <= Budget.paths
        /\ Len(kept.chunks) <= Budget.documents
        /\ Cardinality(Items(kept.nodes)) = Len(kept.nodes)
        /\ \A p \in Items(kept.paths) : Items(p.nodes) \subseteq Items(kept.nodes)

\* Nothing is left out that the budget had room for to the end: a path whose nodes
\* came in with others, a node, or a chunk (budget.py goes on with the next candidate
\* after one that did not fit; what is omitted is omitted for the budget).
NothingThatFitsIsOmitted ==
    LET kept == bundle.kept
    IN  phase = "done" =>
        /\ \A p \in bundle.omitted.paths :
            \/ Len(kept.paths) = Budget.paths
            \/ Cardinality(Items(kept.nodes) \cup Items(p.nodes)) > Budget.nodes
            \/ Size(kept.nodes \o NewNodes(kept, p), Append(kept.paths, p), kept.chunks) > Budget.bytes
        /\ \A n \in bundle.omitted.nodes :
            \/ Len(kept.nodes) = Budget.nodes
            \/ Size(Append(kept.nodes, n), kept.paths, kept.chunks) > Budget.bytes
            \/ n \notin {s.id : s \in Items(seeds)}
        /\ \A c \in bundle.omitted.chunks :
            \/ Len(kept.chunks) = Budget.documents
            \/ Size(kept.nodes, kept.paths, Append(kept.chunks, c)) > Budget.bytes
        /\ bundle.truncated =
            (\/ \E p \in paths : p \notin Items(kept.paths)
             \/ Len(chunks) > Len(kept.chunks)
             \/ \E s \in Items(seeds) : s.id \notin Items(kept.nodes))

\* What build_evidence_bundle keeps is a legal bundle, and nothing it left out could
\* have been added to it.
BundleIsMaximal == BundleIsWhole /\ NothingThatFitsIsOmitted

\* A retrieval fails when the query cannot be embedded, or when a case was deleted
\* between the statement that read the paths and the two that load their nodes and
\* edges; never because of the reranker (service.py: every RerankerError degrades).
FailureHasCause ==
    phase = "failed" => cause = "embedding" \/ (cause = "KeyError" /\ torn)

\* Above a text stand headings of smaller levels only: a heading is no ancestor of its
\* sibling (chunking.py cuts the stack so that equal levels do not pile up into longer
\* and longer false paths).
PathsNameAncestors ==
    \A i \in DOMAIN imported :
        \A k \in 2..Len(imported[i].path) : imported[i].path[k - 1][2] < imported[i].path[k][2]
=============================================================================
