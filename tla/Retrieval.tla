-------------------------------- MODULE Retrieval --------------------------------
(***************************************************************************)
(* How the reference retrieval provider ranks one corpus's chunks          *)
(* (retriever.py): the nearest of the vector store and the best of the     *)
(* search index are fused by reciprocal rank, reranked within a latency    *)
(* budget, and cut to the quota of the binding.  A hit is a chunk with its *)
(* id; a ranking is a sequence of hits, each id once.                      *)
(***************************************************************************)
EXTENDS Integers, FiniteSets, Sequences, SequencesExt, Functions

CONSTANTS Quota,      \* k_per_corpus
          NoFilter    \* no jurisdiction filter, or no risk tier

\* Each source gives twice the quota to the fusion.
Candidates == 2 * Quota
RRF_K == 60

AsHit(id, chunk) ==
    [id |-> id, document |-> chunk.document, version |-> chunk.version,
     jurisdiction |-> chunk.jurisdiction, text |-> chunk.text, span |-> chunk.span]

First(ranking, n) == [i \in DOMAIN ranking \cap 1 .. n |-> ranking[i]]

\* Any order of these ids: relevance is the models' matter.
Rankings(ids) == {r \in [1 .. Cardinality(ids) -> ids] : IsInjective(r)}

Jurisdictional(chunk, jurisdictions) ==
    jurisdictions # NoFilter => chunk.jurisdiction \in jurisdictions

\* A chunk without a risk tier applies to every one.
dense_search(chunks, jurisdictions, risk_tier) ==
    LET matching == {id \in DOMAIN chunks :
                       /\ Jurisdictional(chunks[id], jurisdictions)
                       /\ risk_tier # NoFilter => chunks[id].risk_tier \in {risk_tier, NoFilter}}
    IN  {First([i \in DOMAIN r |-> AsHit(r[i], chunks[r[i]])], Candidates) : r \in Rankings(matching)}

\* The risk tier filters nothing here, and only what the query's words match is
\* a hit.
sparse_search(chunks, jurisdictions) ==
    LET matching == {id \in DOMAIN chunks : Jurisdictional(chunks[id], jurisdictions)}
    IN  UNION {{First([i \in DOMAIN r |-> AsHit(r[i], chunks[r[i]])], Candidates) : r \in Rankings(ids)} :
                 ids \in SUBSET matching}

\* The reciprocals as whole numbers, over their common denominator.
Scale == FoldLeft(LAMBDA product, r : product * (RRF_K + r), 1, [r \in 1 .. Candidates |-> r])
Weight(ranking, id) ==
    LET places == {i \in DOMAIN ranking : ranking[i].id = id}
    IN  IF places = {} THEN 0 ELSE Scale \div (RRF_K + CHOOSE i \in places : TRUE)

Ids(ranking) == {ranking[i].id : i \in DOMAIN ranking}

\* Best score first, ties in the order seen; the dense copy of a chunk wins.
rrf_fuse(dense, sparse, k) ==
    LET seen == dense \o SelectSeq(sparse, LAMBDA hit : hit.id \notin Ids(dense))
        Score(i) == Weight(dense, seen[i].id) + Weight(sparse, seen[i].id)
        Place(i) == 1 + Cardinality({j \in DOMAIN seen :
                          Score(j) > Score(i) \/ (Score(j) = Score(i) /\ j < i)})
    IN  First([p \in DOMAIN seen |-> seen[CHOOSE i \in DOMAIN seen : Place(i) = p]], k)

\* The cross-encoder's order of the candidates, or theirs when it takes too
\* long (or there is none).
rerank(candidates, k) ==
    {First(candidates, k)} \cup {First(r, k) : r \in Rankings(Range(candidates))}

retrieve(dense, sparse) == rerank(rrf_fuse(dense, sparse, Candidates), Quota)
=============================================================================
