------------------------- MODULE MCContextPipeline --------------------------
(* A contract of four clauses, one of them matched by two rules.           *)
EXTENDS ContextPipeline

MCWorkItems == <<[clause |-> 1, rule |-> "r1"], [clause |-> 1, rule |-> "r2"], [clause |-> 2, rule |-> "r1"]>>

\* A recall and scores that agree, and one where each disagrees with the others.
Agreeing == [vector |-> <<4, 2, 3, 1>>, keyword |-> <<2>>, score |-> <<1, 4, 2, 3>>]
Mixed == [vector |-> <<3, 2, 4, 1>>, keyword |-> <<4, 3>>, score |-> <<3, 1, 2, 4>>]

MCRankings == {[r1 |-> Agreeing, r2 |-> Mixed]}

=============================================================================
