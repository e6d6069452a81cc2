---------------------------- MODULE MCRetrieval ----------------------------
(* Small instances of EvidenceRetrieval for TLC.                           *)
EXTENDS EvidenceRetrieval

\* A component, its root cause and the way to repair it; two similar cases.
Chain == {[id |-> 1, from |-> 1, to |-> 2, weight |-> 10],
          [id |-> 2, from |-> 2, to |-> 3, weight |-> 5],
          [id |-> 3, from |-> 4, to |-> 5, weight |-> 9],
          [id |-> 4, from |-> 5, to |-> 4, weight |-> 9]}

Reliable == <<10, 9, 10, 8, 8>>

ProductWeights == [semantic |-> 45, lexical |-> 10, path |-> 25, reliability |-> 10]
ProductChunkWeights == [semantic |-> 60, lexical |-> 20, authority |-> 20]

\* Room for three nodes, two paths and two chunks; 60 bytes are short of all of it.
SmallBudget == [bytes |-> 60, nodes |-> 3, paths |-> 2, documents |-> 2, frame |-> 5]

Chunky == [found |-> (1 :> 12 @@ 3 :> 4), near |-> <<2, 6, 6, 3>>, reranked |-> <<1, 9, 4, 12, -1>>]

\* The query is about the curated knowledge, about the cases, or about both.
ThreeWorlds ==
    {Chunky @@ [lexical |-> (1 :> 12), semantic |-> <<6, 7, 1, 2, 0>>, rerank |-> <<3, 9, 8, 5, 1>>],
     Chunky @@ [lexical |-> (4 :> 5 @@ 5 :> 5), semantic |-> <<1, 1, 1, 8, 8>>, rerank |-> <<8, 0, 1, -2, 11>>],
     Chunky @@ [lexical |-> <<>>, semantic |-> (2 :> 5 @@ 4 :> 5), rerank |-> <<1, 5, 5, 5, 5>>]}

\* Texts below, at and over the limit of a chunk, one paragraph or two, in one
\* section or two; headings of equal levels, of a level left out, of no text.
T(n) == <<"text", n>>
H(n) == <<"heading", n>>
Blank == <<"blank", 0>>
SomeDocuments ==
    {<<H(1), T(a)>> \o between \o <<T(b), Blank, T(c)>> :
        a \in {4, 10}, b \in {5, 23}, c \in {1, 3}, between \in {<<>>, <<Blank>>, <<H(2)>>}}
    \cup {<< H(2), T(3), H(2), T(2), H(3), Blank, H(1), T(5), T(4), Blank, Blank, T(10) >>}
=============================================================================
