--------------------------- MODULE HybridRetrieval ---------------------------
(***************************************************************************)
(* How PostgresHybridClauseRetriever chooses the clauses related to a      *)
(* query: two recalls, their reciprocal rank fusion, and a reranking of    *)
(* the best fused candidates.  A recall is the sequence of clause ids it   *)
(* ranks; the similarities themselves are data and stay out.               *)
(***************************************************************************)
EXTENDS Integers, SequencesExt

CONSTANTS
    RecallLimit, \* VECTOR_RECALL_LIMIT and KEYWORD_RECALL_LIMIT, 20
    RerankLimit, \* RERANK_LIMIT, 20
    TopK         \* min(request.limit, MAX_DYNAMIC_TOP_K)

ASSUME RetrievalAssumption == {RecallLimit, RerankLimit, TopK} \subseteq Nat \ {0}

RRF_K == 60

First(seq, n) == SubSeq(seq, 1, IF Len(seq) < n THEN Len(seq) ELSE n)

Ahead(x, S, before) == {y \in S : <<y, x>> \in before}

\* ORDER BY: the members of a set, each at the place after those it follows.
Listed(S, before) ==
    [k \in 1..Cardinality(S) |-> CHOOSE x \in S : Cardinality(Ahead(x, S, before)) = k - 1]

\* ... LIMIT
Recalled(rows, before) == First(Listed(rows, before), RecallLimit)

Ascending(S) == {p \in S \X S : p[1] < p[2]}

Rank(c, ranked) == CHOOSE k \in DOMAIN ranked : ranked[k] = c

\* What one recall adds to the fused score of a clause, 1 / (RRF_K + rank), as
\* a fraction.
Share(c, ranked) == IF Contains(ranked, c) THEN <<1, RRF_K + Rank(c, ranked)>> ELSE <<0, 1>>

\* Mutant: the second recall replaces the share of the first.
RrfScoreOfLast(c, vector, keyword) ==
    IF Contains(keyword, c) THEN Share(c, keyword) ELSE Share(c, vector)

RrfScore(c, vector, keyword) ==
    LET v == Share(c, vector)
        k == Share(c, keyword)
    IN  <<v[1] * k[2] + k[1] * v[2], v[2] * k[2]>>

Exceeds(x, y) == x[1] * y[2] > y[1] * x[2]

\* Clause ids break the ties.
FusedBefore(vector, keyword) ==
    {p \in (ToSet(vector) \cup ToSet(keyword)) \X (ToSet(vector) \cup ToSet(keyword)) :
        LET x == RrfScore(p[1], vector, keyword)
            y == RrfScore(p[2], vector, keyword)
        IN  Exceeds(x, y) \/ (~Exceeds(y, x) /\ p[1] < p[2])}

RrfMerge(vector, keyword) ==
    Listed(ToSet(vector) \cup ToSet(keyword), FusedBefore(vector, keyword))

\* The reranker's ties keep the fused order.
RerankedBefore(candidates, score) ==
    {p \in (DOMAIN candidates) \X (DOMAIN candidates) :
        \/ score[candidates[p[1]]] > score[candidates[p[2]]]
        \/ score[candidates[p[1]]] = score[candidates[p[2]]] /\ p[1] < p[2]}

\* It scores the first RerankLimit.
Selected(vector, keyword, score) ==
    LET candidates == First(RrfMerge(vector, keyword), RerankLimit)
        reranked == Listed(DOMAIN candidates, RerankedBefore(candidates, score))
    IN  First([k \in DOMAIN reranked |-> candidates[reranked[k]]], TopK)

\* A recall puts c before d, or neither of them in.
AtLeast(c, d, ranked) ==
    Contains(ranked, d) => Contains(ranked, c) /\ Rank(c, ranked) < Rank(d, ranked)

\* A clause that every judge prefers to a chosen one is chosen as well.
Undominated(chosen, vector, keyword, score) ==
    \A d \in ToSet(chosen), c \in ToSet(vector) \cup ToSet(keyword) :
        AtLeast(c, d, vector) /\ AtLeast(c, d, keyword) /\ score[c] > score[d] => Contains(chosen, c)

=============================================================================
