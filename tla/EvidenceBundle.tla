--------------------------- MODULE EvidenceBundle ---------------------------
(***************************************************************************)
(* What a retrieval does with what it was given: scores and order of       *)
(* candidates (retrieval/service.py, document_service.py, scoring.py),     *)
(* answers of the reranker (reranker.py), and the selection of evidence    *)
(* under a budget (budget.py).                                             *)
(*                                                                         *)
(* Scores are tenths, weights hundredths, so that a first-stage score is   *)
(* out of 1000.  A size counts the comma before an item with the item.     *)
(***************************************************************************)
EXTENDS DocumentChunks, Selections, FiniteSets

CONSTANTS Weights,      \* HybridScoringWeights: semantic, lexical, path, reliability
          ChunkWeights, \* DocumentScoringWeights: semantic, lexical, authority
          Blend,        \* rerank_blend_weight, in tenths
          Budget,       \* EvidenceBundleBudget
          NodeSize, PathSize, ChunkSize   \* of an item without its text

ASSUME WeightsAssumption ==
    /\ Weights \in [semantic : Nat, lexical : Nat, path : Nat, reliability : Nat]
    /\ ChunkWeights \in [semantic : Nat, lexical : Nat, authority : Nat]
    /\ Weights.semantic + Weights.lexical + Weights.path + Weights.reliability <= 100
    /\ ChunkWeights.semantic + ChunkWeights.lexical + ChunkWeights.authority = 100
    /\ Blend \in 0..10

\* A budget has room for the brackets of an empty bundle (max_bytes is at least 256).
ASSUME BudgetAssumption ==
    /\ Budget \in [bytes : Nat, nodes : Nat, paths : Nat, documents : Nat, frame : Nat]
    /\ Budget.frame <= Budget.bytes
    /\ NodeSize \in Nat /\ PathSize \in Nat /\ ChunkSize \in Nat

Items(seq) == {seq[i] : i \in DOMAIN seq}
UpTo(seq, n) == SubSeq(seq, 1, IF n < Len(seq) THEN n ELSE Len(seq))

\* The members of S, those Before(x, y) says first; Before is a total order.
Ranked(S, Before(_, _)) ==
    [i \in 1..Cardinality(S) |->
        CHOOSE x \in S : Cardinality({y \in S : y # x /\ Before(y, x)}) = i - 1]

Bounded(score) == IF score > 10 THEN 10 ELSE IF score < 0 THEN 0 ELSE score

-----------------------------------------------------------------------------
(* Candidates.  A candidate is scored by the channels that found it;       *)
(* rerank is -1 while no second stage has scored it.  final is out of      *)
(* 10000.                                                                  *)

FinalScore(hybrid, rerank) ==
    IF rerank < 0 THEN 10 * hybrid ELSE (10 - Blend) * hybrid + Blend * 100 * rerank

CandidateOf(id, semantic, lexical, reliability, hybrid) ==
    [id |-> id, semantic |-> semantic, lexical |-> lexical, reliability |-> reliability,
     hybrid |-> hybrid, rerank |-> -1, final |-> FinalScore(hybrid, -1)]

ByFinal(x, y) == x.final > y.final \/ (x.final = y.final /\ x.id < y.id)

\* merge_seed_matches: lexical and vector map what each channel found to its score.
SeedsOf(lexical, vector, Reliability, limit) ==
    LET Score(f, n) == IF n \in DOMAIN f THEN f[n] ELSE 0
        Merged(n) ==
            LET semantic == Score(vector, n)
                text == Bounded(Score(lexical, n))
            IN  CandidateOf(n, semantic, text, Reliability[n],
                    semantic * Weights.semantic + text * Weights.lexical
                    + Reliability[n] * Weights.reliability)
    IN  UpTo(Ranked({Merged(n) : n \in DOMAIN lexical \cup DOMAIN vector}, ByFinal), limit)

\* merge_chunk_matches: the reliability of the document is the third factor.
ChunksFound(lexical, vector, authority, limit) ==
    LET Score(f, n) == IF n \in DOMAIN f THEN f[n] ELSE 0
        Merged(n) ==
            LET semantic == Score(vector, n)
                text == Bounded(Score(lexical, n))
            IN  CandidateOf(n, semantic, text, authority,
                    semantic * ChunkWeights.semantic + text * ChunkWeights.lexical
                    + authority * ChunkWeights.authority)
    IN  UpTo(Ranked({Merged(n) : n \in DOMAIN lexical \cup DOMAIN vector}, ByFinal), limit)

\* _candidate_limit: a second stage has more to choose from.
CandidateLimit(limit, reranks, multiplier, most) ==
    IF ~reranks THEN limit
    ELSE LET wider == IF limit * multiplier < most THEN limit * multiplier ELSE most
         IN  IF wider > limit THEN wider ELSE limit

-----------------------------------------------------------------------------
(* The second stage.  An answer is a sequence of <<index, score>>.         *)

Failed == <<>>   \* RerankerError: no scores at all

\* Scores as they come, whatever they are of.
ScoresAsSent(answer, expected) ==
    IF Len(answer) # expected THEN Failed ELSE [i \in 1..expected |-> Bounded(answer[i][2])]

\* _scores_in_input_order: every document scored once, or the answer is refused.
ScoresInInputOrder(answer, expected) ==
    IF /\ Len(answer) = expected
       /\ {answer[i][1] : i \in DOMAIN answer} = 1..expected
    THEN [i \in 1..expected |->
            Bounded(answer[CHOOSE j \in DOMAIN answer : answer[j][1] = i][2])]
    ELSE Failed

Rescored(candidates, scores) ==
    Ranked({[candidates[i] EXCEPT !.rerank = scores[i],
                                  !.final = FinalScore(candidates[i].hybrid, scores[i])]
            : i \in DOMAIN candidates}, ByFinal)

-----------------------------------------------------------------------------
(* Paths.  A path is [nodes, edges, score], score the product of weights.  *)

\* score_graph_path: what made its seed relevant, and its own edges.
ScoredPath(path, seed) ==
    LET hybrid == seed.semantic * Weights.semantic + seed.lexical * Weights.lexical
                  + path.score * Weights.path + seed.reliability * Weights.reliability
    IN  [id |-> path.edges, nodes |-> path.nodes, final |-> FinalScore(hybrid, seed.rerank)]

Before(s, t) ==   \* lexicographic order of sequences of numbers
    \/ Len(s) < Len(t) /\ SubSeq(t, 1, Len(s)) = s
    \/ \E i \in DOMAIN s \cap DOMAIN t : s[i] < t[i] /\ \A j \in 1..(i - 1) : s[j] = t[j]

\* Better paths first, then deeper ones, then those with the smaller id.
PathOrder(p, q) ==
    \/ p.final > q.final
    \/ p.final = q.final /\ Len(p.id) > Len(q.id)
    \/ p.final = q.final /\ Len(p.id) = Len(q.id) /\ Before(p.id, q.id)

-----------------------------------------------------------------------------
(* The bundle: nodes, paths and chunks kept, each in its order.            *)

Size(nodes, paths, chunks) ==
    Budget.frame + Len(nodes) * NodeSize + Len(paths) * PathSize
    + TotalLength([i \in DOMAIN chunks |-> chunks[i].size])

\* The nodes of a path that are not kept yet, in its order.
NewNodes(kept, path) ==
    Selected(path.nodes, {i \in DOMAIN path.nodes : path.nodes[i] \notin Items(kept.nodes)})

\* A path comes with its nodes or not at all.
PathFits(kept, path) ==
    LET nodes == kept.nodes \o NewNodes(kept, path)
    IN  /\ Len(kept.paths) < Budget.paths
        /\ Len(nodes) <= Budget.nodes
        /\ Size(nodes, Append(kept.paths, path), <<>>) <= Budget.bytes

WithPath(kept, path) ==
    IF ~PathFits(kept, path) THEN kept
    ELSE [kept EXCEPT !.nodes = @ \o NewNodes(kept, path), !.paths = Append(@, path)]

WithSeed(kept, seed) ==
    IF /\ seed.id \notin Items(kept.nodes)
       /\ Len(kept.nodes) < Budget.nodes
       /\ Size(Append(kept.nodes, seed.id), kept.paths, <<>>) <= Budget.bytes
    THEN [kept EXCEPT !.nodes = Append(@, seed.id)]
    ELSE kept

\* One byte more than the budget is let in.
ChunkFitsLoosely(kept, chunk) ==
    /\ Len(kept.chunks) < Budget.documents
    /\ Size(kept.nodes, kept.paths, Append(kept.chunks, chunk)) <= Budget.bytes + 1

ChunkFits(kept, chunk) ==
    /\ Len(kept.chunks) < Budget.documents
    /\ Size(kept.nodes, kept.paths, Append(kept.chunks, chunk)) <= Budget.bytes

WithChunk(kept, chunk) ==
    IF ChunkFits(kept, chunk) THEN [kept EXCEPT !.chunks = Append(@, chunk)] ELSE kept

\* What is kept after each candidate of a sequence was tried.
Tried(candidates, kept, With(_, _)) ==
    LET upTo[n \in 0..Len(candidates)] ==
            IF n = 0 THEN kept ELSE With(upTo[n - 1], candidates[n])
    IN  upTo[Len(candidates)]

\* build_evidence_bundle: paths first, then seeds, then chunks, best first.
Bundle(paths, seeds, chunks) ==
    LET none == [nodes |-> <<>>, paths |-> <<>>, chunks |-> <<>>]
        withPaths == Tried(paths, none, WithPath)
        withSeeds == Tried(seeds, withPaths, WithSeed)
        kept == Tried(chunks, withSeeds, WithChunk)
        nodes == {s.id : s \in Items(seeds)} \cup UNION {Items(p.nodes) : p \in Items(paths)}
        omitted == [nodes |-> nodes \ Items(kept.nodes),
                    paths |-> {p \in Items(paths) : p \notin Items(kept.paths)},
                    chunks |-> {c \in Items(chunks) : c \notin Items(kept.chunks)}]
    IN  [kept |-> kept, omitted |-> omitted,
         truncated |-> \E part \in DOMAIN omitted : omitted[part] # {}]
=============================================================================
