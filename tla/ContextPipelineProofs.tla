----------------------- MODULE ContextPipelineProofs ------------------------
(***************************************************************************)
(* What the context phase keeps for any number of clauses, work items,     *)
(* slots, runs and faults, and for any queries: the related clauses of     *)
(* every stored context are the right ones, logs and errors come out in    *)
(* the order of the items, and a cancelled task begins nothing.            *)
(*                                                                         *)
(* First what ORDER BY ... LIMIT and the selection of HybridRetrieval      *)
(* return, then three inductive invariants: PhaseInv of types and places,  *)
(* Fresh of vectors, caches and answers, Order of logs and errors.         *)
(***************************************************************************)
EXTENDS ContextPipeline, FiniteSetTheorems, SequenceTheorems, TLAPS

-----------------------------------------------------------------------------
(* What Listed returns.                                                    *)

\* R orders the members of S, one after the other.
Orders(R, S) ==
    /\ \A x \in S : <<x, x>> \notin R
    /\ \A x, y, z \in S : <<x, y>> \in R /\ <<y, z>> \in R => <<x, z>> \in R
    /\ \A x, y \in S : x = y \/ <<x, y>> \in R \/ <<y, x>> \in R

\* seq lists the members of S in the order of R.
Lists(seq, S, R) ==
    /\ seq \in Seq(S) /\ DOMAIN seq = 1..Cardinality(S)
    /\ {seq[k] : k \in DOMAIN seq} = S
    /\ \A j, k \in DOMAIN seq : j < k <=> <<seq[j], seq[k]>> \in R

\* Each place has its member: the one with as many members before it.
LEMMA Places ==
    ASSUME NEW S, IsFiniteSet(S), NEW R, Orders(R, S)
    PROVE  /\ Cardinality(S) \in Nat
           /\ \A x \in S : IsFiniteSet(Ahead(x, S, R)) /\ Cardinality(Ahead(x, S, R)) \in Nat
           /\ \A x, y \in S :
                 <<x, y>> \in R <=> Cardinality(Ahead(x, S, R)) < Cardinality(Ahead(y, S, R))
           /\ \A k \in 1..Cardinality(S) : \E x \in S : Cardinality(Ahead(x, S, R)) = k - 1
<1> DEFINE n == Cardinality(S)
           place(x) == Cardinality(Ahead(x, S, R))
<1>1. n \in Nat
  BY FS_CardinalityType
<1>2. \A x \in S : IsFiniteSet(Ahead(x, S, R)) /\ place(x) \in Nat
  BY FS_Subset, FS_CardinalityType DEF Ahead
<1>3. ASSUME NEW x \in S, NEW y \in S, <<x, y>> \in R
      PROVE  place(x) < place(y)
  <2>1. Ahead(x, S, R) \subseteq Ahead(y, S, R) /\ Ahead(x, S, R) # Ahead(y, S, R)
    BY <1>3 DEF Ahead, Orders
  <2>2. QED BY <1>2, <2>1, FS_Subset
<1>4. ASSUME NEW x \in S PROVE place(x) < n
  <2>1. Ahead(x, S, R) \subseteq S /\ Ahead(x, S, R) # S
    BY <1>4 DEF Ahead, Orders
  <2>2. QED BY <1>1, <1>2, <2>1, FS_Subset
<1>5. ASSUME NEW x \in S, NEW y \in S, place(x) < place(y)
      PROVE  <<x, y>> \in R
  <2>1. place(x) \in Nat /\ place(y) \in Nat
    BY <1>2
  <2>2. x # y
    BY <1>5, <2>1
  <2>3. <<y, x>> \in R => place(y) < place(x)
    BY <1>3
  <2> HIDE DEF place
  <2>4. QED BY <1>5, <2>1, <2>2, <2>3 DEF Orders
<1>6. \A k \in 1..n : \E x \in S : place(x) = k - 1
  <2> DEFINE f == [x \in S |-> place(x) + 1]
  <2>1. f \in [S -> 1..n]
    BY <1>1, <1>2, <1>4
  <2>2. ASSUME NEW x \in S, NEW y \in S, f[x] = f[y] PROVE x = y
    <3>1. place(x) = place(y) /\ place(x) \in Nat /\ place(y) \in Nat
      BY <1>2, <2>2
    <3>2. <<x, y>> \notin R /\ <<y, x>> \notin R
      BY <1>3, <3>1
    <3>3. QED BY <3>2 DEF Orders
  <2>3. f \in Injection(S, 1..n)
    <3> HIDE DEF f
    <3>1. QED BY <2>1, <2>2 DEF Injection, IsInjective
  <2>4. IsFiniteSet(1..n) /\ Cardinality(1..n) = n
    BY <1>1, FS_Interval
  <2>5. f \in Surjection(S, 1..n)
    <3> HIDE DEF f
    <3>1. QED BY <1>1, <2>3, <2>4, FS_Injection
  <2>6. \A k \in 1..n : \E x \in S : f[x] = k
    <3> HIDE DEF f
    <3>1. QED BY <2>5 DEF Surjection
  <2>7. QED BY <1>1, <1>2, <2>6
<1>7. QED BY <1>1, <1>2, <1>3, <1>5, <1>6

\* So Listed lists the set.
LEMMA ListedInOrder ==
    ASSUME NEW S, IsFiniteSet(S), NEW R, Orders(R, S)
    PROVE  Lists(Listed(S, R), S, R)
<1> DEFINE n == Cardinality(S)
           seq == Listed(S, R)
<1>1. n \in Nat /\ DOMAIN seq = 1..n /\ seq = [k \in 1..n |-> seq[k]]
  BY Places DEF Listed
<1>2. \A k \in 1..n : seq[k] \in S /\ Cardinality(Ahead(seq[k], S, R)) = k - 1
  BY Places DEF Listed
<1> HIDE DEF seq
<1>3. seq \in Seq(S)
  BY <1>1, <1>2
<1>4. \A j, k \in DOMAIN seq : j < k <=> <<seq[j], seq[k]>> \in R
  BY <1>1, <1>2, Places
<1>5. ASSUME NEW x \in S PROVE \E k \in 1..n : seq[k] = x
  <2> DEFINE k == Cardinality(Ahead(x, S, R)) + 1
  <2>1. Cardinality(Ahead(x, S, R)) \in Nat
    BY Places
  <2>2. k \in 1..n
    <3>1. Ahead(x, S, R) \subseteq S /\ Ahead(x, S, R) # S
      BY DEF Ahead, Orders
    <3>2. Cardinality(Ahead(x, S, R)) < n
      BY <1>1, <2>1, <3>1, FS_Subset
    <3>3. QED BY <1>1, <2>1, <3>2
  <2>3. seq[k] \in S /\ Cardinality(Ahead(seq[k], S, R)) = Cardinality(Ahead(x, S, R))
    BY <1>2, <2>1, <2>2
  <2>4. seq[k] = x
    BY <2>1, <2>3, Places DEF Orders
  <2>5. QED BY <2>2, <2>4
<1>6. QED BY <1>1, <1>2, <1>3, <1>4, <1>5 DEF Lists, seq

\* Numbers, the smaller first.
LEMMA NumbersListed ==
    ASSUME NEW S, S \subseteq Int, IsFiniteSet(S)
    PROVE  Lists(Listed(S, Ascending(S)), S, Ascending(S))
<1>1. \A x, y \in S : <<x, y>> \in Ascending(S) <=> x < y
  BY DEF Ascending
<1>2. Orders(Ascending(S), S)
  BY <1>1 DEF Orders
<1>3. QED BY <1>2, ListedInOrder

-----------------------------------------------------------------------------
(* What the fused score is.                                                *)

LEMMA ProductGrows ==
    ASSUME NEW x \in Int, NEW y \in Int, NEW z \in Int, z > 0
    PROVE  x > y <=> x * z > y * z
OBVIOUS

\* Exceeds orders fractions whose denominators are positive.
Fractions == Nat \X (Nat \ {0})

LEMMA ExceedsType ==
    ASSUME NEW x \in Fractions, NEW y \in Fractions
    PROVE  /\ x[1] \in Nat /\ x[2] \in Nat /\ x[2] > 0
           /\ Exceeds(x, y) <=> x[1] * y[2] > y[1] * x[2]
BY DEF Fractions, Exceeds

LEMMA FractionsOrdered ==
    ASSUME NEW a \in Nat, NEW b \in Nat, NEW c \in Nat, NEW p \in Nat, NEW q \in Nat, NEW r \in Nat,
           p > 0, q > 0, r > 0
    PROVE  /\ a * q > b * p /\ b * r >= c * q => a * r > c * p
           /\ a * q >= b * p /\ b * r > c * q => a * r > c * p
           /\ a * q >= b * p /\ b * r >= c * q => a * r >= c * p
<1>1. /\ (a * r) * q = (a * q) * r
      /\ (b * p) * r = (b * r) * p
      /\ (c * q) * p = (c * p) * q
  OBVIOUS
<1> DEFINE ar == a * r  cp == c * p  aq == a * q  bp == b * p  br == b * r  cq == c * q
<1>2. /\ ar \in Nat /\ cp \in Nat /\ aq \in Nat /\ bp \in Nat /\ br \in Nat /\ cq \in Nat
      /\ ar * q = aq * r /\ bp * r = br * p /\ cq * p = cp * q
  BY <1>1
<1>3. /\ aq > bp <=> aq * r > bp * r
      /\ br > cq <=> br * p > cq * p
      /\ ar > cp <=> ar * q > cp * q
      /\ bp > aq <=> bp * r > aq * r
      /\ cq > br <=> cq * p > br * p
      /\ cp > ar <=> cp * q > ar * q
  <2> HIDE DEF ar, cp, aq, bp, br, cq
  <2>1. QED BY <1>2, ProductGrows
<1>4. /\ aq * r \in Int /\ bp * r \in Int /\ br * p \in Int /\ cq * p \in Int
      /\ ar * q \in Int /\ cp * q \in Int
  <2> HIDE DEF ar, cp, aq, bp, br, cq
  <2>1. QED BY <1>2
<1>5. /\ aq > bp /\ br >= cq => ar > cp
      /\ aq >= bp /\ br > cq => ar > cp
      /\ aq >= bp /\ br >= cq => ar >= cp
  <2> HIDE DEF ar, cp, aq, bp, br, cq
  <2>1. QED BY <1>2, <1>3, <1>4
<1>6. QED BY <1>5

LEMMA ExceedsOrders ==
    ASSUME NEW x \in Fractions, NEW y \in Fractions, NEW z \in Fractions
    PROVE  /\ ~(Exceeds(x, y) /\ Exceeds(y, x))
           /\ Exceeds(x, y) /\ ~Exceeds(z, y) => Exceeds(x, z)
           /\ ~Exceeds(y, x) /\ Exceeds(y, z) => Exceeds(x, z)
           /\ ~Exceeds(y, x) /\ ~Exceeds(z, y) => ~Exceeds(z, x)
<1> DEFINE a == x[1]  p == x[2]  b == y[1]  q == y[2]  c == z[1]  r == z[2]
<1>1. /\ a \in Nat /\ p \in Nat /\ p > 0 /\ b \in Nat /\ q \in Nat /\ q > 0
      /\ c \in Nat /\ r \in Nat /\ r > 0
  BY ExceedsType
<1>2. /\ Exceeds(x, y) <=> a * q > b * p
      /\ Exceeds(y, x) <=> b * p > a * q
      /\ Exceeds(y, z) <=> b * r > c * q
      /\ Exceeds(z, y) <=> c * q > b * r
      /\ Exceeds(x, z) <=> a * r > c * p
      /\ Exceeds(z, x) <=> c * p > a * r
  BY DEF Exceeds
<1> HIDE DEF a, p, b, q, c, r
<1>3. /\ a * q \in Int /\ b * p \in Int /\ b * r \in Int /\ c * q \in Int
      /\ a * r \in Int /\ c * p \in Int
  BY <1>1
<1>4. QED BY <1>1, <1>2, <1>3, FractionsOrdered

\* The sum of two fractions grows with each of them.
LEMMA SumGrows ==
    ASSUME NEW a \in Nat, NEW p \in Nat, NEW b \in Nat, NEW q \in Nat, p > 0, q > 0,
           NEW c \in Nat, NEW r \in Nat, NEW d \in Nat, NEW s \in Nat, r > 0, s > 0,
           a * r >= c * p, b * s >= d * q, a * r > c * p \/ b * s > d * q
    PROVE  (a * q + b * p) * (r * s) > (c * s + d * r) * (p * q)
<1>1. /\ (a * q + b * p) * (r * s) = (a * r) * (q * s) + (b * s) * (p * r)
      /\ (c * s + d * r) * (p * q) = (c * p) * (q * s) + (d * q) * (p * r)
  OBVIOUS
<1>2. q * s \in Nat /\ q * s > 0 /\ p * r \in Nat /\ p * r > 0
  <2>1. q * s \in Nat /\ p * r \in Nat
    OBVIOUS
  <2>2. q * s > 0 * s /\ p * r > 0 * r
    BY ProductGrows
  <2>3. QED BY <2>1, <2>2
<1> DEFINE ar == a * r  cp == c * p  bs == b * s  dq == d * q  qs == q * s  pr == p * r
<1>3. /\ ar \in Nat /\ cp \in Nat /\ bs \in Nat /\ dq \in Nat
      /\ ar >= cp /\ bs >= dq /\ (ar > cp \/ bs > dq)
  OBVIOUS
<1>4. ar * qs + bs * pr > cp * qs + dq * pr
  <2> HIDE DEF ar, cp, bs, dq, qs, pr
  <2>0. qs \in Nat /\ qs > 0 /\ pr \in Nat /\ pr > 0
    BY <1>2 DEF qs, pr
  <2>1. /\ ar * qs \in Int /\ bs * pr \in Int /\ cp * qs \in Int /\ dq * pr \in Int
    BY <1>3, <2>0
  <2>2. ar * qs >= cp * qs /\ (ar > cp => ar * qs > cp * qs)
    BY <1>3, <2>0, <2>1, ProductGrows
  <2>3. bs * pr >= dq * pr /\ (bs > dq => bs * pr > dq * pr)
    BY <1>3, <2>0, <2>1, ProductGrows
  <2>4. QED BY <1>3, <2>1, <2>2, <2>3
<1>5. QED BY <1>1, <1>4

\* The rank of what a recall contains.
LEMMA RankType ==
    ASSUME NEW S, NEW ranked \in Seq(S), NEW c, Contains(ranked, c)
    PROVE  /\ Rank(c, ranked) \in DOMAIN ranked /\ ranked[Rank(c, ranked)] = c
           /\ Rank(c, ranked) \in Nat /\ Rank(c, ranked) > 0
<1>1. \E k \in DOMAIN ranked : ranked[k] = c
  BY DEF Contains
<1>2. QED BY <1>1 DEF Rank

LEMMA ShareType ==
    ASSUME NEW S, NEW ranked \in Seq(S), NEW c
    PROVE  Share(c, ranked) \in Fractions
<1>1. CASE Contains(ranked, c)
  <2>1. RRF_K + Rank(c, ranked) \in Nat \ {0}
    BY <1>1, RankType DEF RRF_K
  <2>2. QED BY <1>1, <2>1 DEF Share, Fractions
<1>2. CASE ~Contains(ranked, c)
  BY <1>2 DEF Share, Fractions
<1>3. QED BY <1>1, <1>2

LEMMA ScoreType ==
    ASSUME NEW S, NEW vector \in Seq(S), NEW keyword \in Seq(S), NEW c
    PROVE  RrfScore(c, vector, keyword) \in Fractions
<1> DEFINE v == Share(c, vector)  k == Share(c, keyword)
<1>1. v[1] \in Nat /\ v[2] \in Nat /\ v[2] > 0 /\ k[1] \in Nat /\ k[2] \in Nat /\ k[2] > 0
  BY ShareType DEF Fractions
<1> HIDE DEF v, k
<1>2. v[1] * k[2] + k[1] * v[2] \in Nat
  <2>1. v[1] * k[2] \in Nat /\ k[1] * v[2] \in Nat
    BY <1>1
  <2>2. QED BY <2>1
<1>3. v[2] * k[2] \in Nat /\ v[2] * k[2] > 0
  <2>1. v[2] * k[2] > 0 * k[2]
    BY <1>1, ProductGrows
  <2>2. QED BY <1>1, <2>1
<1>4. <<v[1] * k[2] + k[1] * v[2], v[2] * k[2]>> \in Fractions
  BY <1>2, <1>3 DEF Fractions
<1>5. QED BY <1>4 DEF RrfScore, v, k

\* What no recall ranks behind has no smaller share.
LEMMA ShareOfAtLeast ==
    ASSUME NEW S, NEW ranked \in Seq(S), NEW c, NEW d, AtLeast(c, d, ranked)
    PROVE  LET x == Share(c, ranked)
               y == Share(d, ranked)
           IN  x[1] * y[2] >= y[1] * x[2] /\ (Contains(ranked, d) => x[1] * y[2] > y[1] * x[2])
<1>1. CASE Contains(ranked, d)
  <2>1. /\ Share(c, ranked) = <<1, RRF_K + Rank(c, ranked)>>
        /\ Share(d, ranked) = <<1, RRF_K + Rank(d, ranked)>>
        /\ Rank(c, ranked) \in Nat /\ Rank(d, ranked) \in Nat
        /\ Rank(c, ranked) < Rank(d, ranked)
    BY <1>1, RankType DEF Share, AtLeast
  <2>2. QED BY <2>1 DEF RRF_K
<1>2. CASE ~Contains(ranked, d)
  <2>1. Share(d, ranked) = <<0, 1>> /\ Share(c, ranked)[1] \in Nat /\ Share(c, ranked)[2] \in Nat
    BY <1>2, ShareType DEF Share, Fractions
  <2>2. QED BY <1>2, <2>1
<1>3. QED BY <1>1, <1>2

\* A clause that both recalls put before another has the better score.
LEMMA BetterScore ==
    ASSUME NEW S, NEW vector \in Seq(S), NEW keyword \in Seq(S), NEW c, NEW d,
           AtLeast(c, d, vector), AtLeast(c, d, keyword),
           Contains(vector, d) \/ Contains(keyword, d)
    PROVE  Exceeds(RrfScore(c, vector, keyword), RrfScore(d, vector, keyword))
<1> DEFINE v == Share(c, vector)  k == Share(c, keyword)
           w == Share(d, vector)  l == Share(d, keyword)
<1>1. /\ v[1] \in Nat /\ v[2] \in Nat /\ v[2] > 0 /\ k[1] \in Nat /\ k[2] \in Nat /\ k[2] > 0
      /\ w[1] \in Nat /\ w[2] \in Nat /\ w[2] > 0 /\ l[1] \in Nat /\ l[2] \in Nat /\ l[2] > 0
  BY ShareType DEF Fractions
<1>2. /\ v[1] * w[2] >= w[1] * v[2] /\ k[1] * l[2] >= l[1] * k[2]
      /\ v[1] * w[2] > w[1] * v[2] \/ k[1] * l[2] > l[1] * k[2]
  BY ShareOfAtLeast
<1>3. /\ RrfScore(c, vector, keyword) = <<v[1] * k[2] + k[1] * v[2], v[2] * k[2]>>
      /\ RrfScore(d, vector, keyword) = <<w[1] * l[2] + l[1] * w[2], w[2] * l[2]>>
  BY DEF RrfScore
<1> HIDE DEF v, k, w, l
<1>4. (v[1] * k[2] + k[1] * v[2]) * (w[2] * l[2]) > (w[1] * l[2] + l[1] * w[2]) * (v[2] * k[2])
  BY <1>1, <1>2, SumGrows
<1>5. QED BY <1>3, <1>4 DEF Exceeds

-----------------------------------------------------------------------------
(* What a retrieval selects.                                               *)

LEMMA MergeListed ==
    ASSUME NEW C, C \subseteq Int, IsFiniteSet(C), NEW vector \in Seq(C), NEW keyword \in Seq(C)
    PROVE  Lists(RrfMerge(vector, keyword), ToSet(vector) \cup ToSet(keyword),
                 FusedBefore(vector, keyword))
<1> DEFINE S == ToSet(vector) \cup ToSet(keyword)
           R == FusedBefore(vector, keyword)
           score(c) == RrfScore(c, vector, keyword)
           before(c, d) == Exceeds(score(c), score(d)) \/ (~Exceeds(score(d), score(c)) /\ c < d)
<1>1. S \subseteq C /\ IsFiniteSet(S)
  <2>1. S \subseteq C
    BY DEF ToSet
  <2>2. QED BY <2>1, FS_Subset
<1>2. \A c, d \in S : <<c, d>> \in R <=> before(c, d)
  BY DEF FusedBefore
<1>3. \A c : score(c) \in Fractions
  BY ScoreType
<1>4. Orders(R, S)
  <2> HIDE DEF R, S, score
  <2>1. \A c \in S : c \in Int
    BY <1>1
  <2>2. \A c \in S : <<c, c>> \notin R
    BY <1>2, <1>3, <2>1, ExceedsOrders
  <2>3. ASSUME NEW c \in S, NEW d \in S, NEW e \in S, before(c, d), before(d, e)
        PROVE  before(c, e)
    <3>1. /\ ~(Exceeds(score(c), score(d)) /\ Exceeds(score(d), score(c)))
          /\ ~(Exceeds(score(d), score(e)) /\ Exceeds(score(e), score(d)))
          /\ Exceeds(score(c), score(d)) /\ ~Exceeds(score(e), score(d)) => Exceeds(score(c), score(e))
          /\ ~Exceeds(score(d), score(c)) /\ Exceeds(score(d), score(e)) => Exceeds(score(c), score(e))
          /\ ~Exceeds(score(d), score(c)) /\ ~Exceeds(score(e), score(d)) => ~Exceeds(score(e), score(c))
      BY <1>3, ExceedsOrders
    <3>2. QED BY <2>1, <2>3, <3>1
  <2>4. \A c, d \in S : c = d \/ before(c, d) \/ before(d, c)
    BY <2>1
  <2>5. QED BY <1>2, <2>2, <2>3, <2>4 DEF Orders
<1>5. QED BY <1>1, <1>4, ListedInOrder DEF RrfMerge

\* The first n of a sequence.
LEMMA FirstOf ==
    ASSUME NEW S, NEW seq \in Seq(S), NEW n \in Nat
    PROVE  /\ First(seq, n) \in Seq(S)
           /\ DOMAIN First(seq, n) = {k \in DOMAIN seq : k <= n}
           /\ \A k \in DOMAIN First(seq, n) : First(seq, n)[k] = seq[k]
<1> DEFINE m == IF Len(seq) < n THEN Len(seq) ELSE n
<1>1. m \in 0..Len(seq) /\ First(seq, n) = SubSeq(seq, 1, m)
  BY DEF First
<1> HIDE DEF m
<1>2. /\ SubSeq(seq, 1, m) \in Seq(S) /\ Len(SubSeq(seq, 1, m)) = m
      /\ \A k \in 1..m : SubSeq(seq, 1, m)[k] = seq[k]
  BY <1>1
<1>3. 1..m = {k \in 1..Len(seq) : k <= n}
  BY DEF m
<1>4. QED BY <1>1, <1>2, <1>3

LEMMA RerankedPairs ==
    ASSUME NEW candidates, NEW score
    PROVE  \A j, k \in DOMAIN candidates :
              <<j, k>> \in RerankedBefore(candidates, score)
                 <=> \/ score[candidates[j]] > score[candidates[k]]
                     \/ score[candidates[j]] = score[candidates[k]] /\ j < k
<1> DEFINE D == DOMAIN candidates
           b(p) == \/ score[candidates[p[1]]] > score[candidates[p[2]]]
                   \/ score[candidates[p[1]]] = score[candidates[p[2]]] /\ p[1] < p[2]
<1>1. RerankedBefore(candidates, score) = {p \in D \X D : b(p)}
  BY DEF RerankedBefore
<1>2. \A j, k \in D : b(<<j, k>>) <=> \/ score[candidates[j]] > score[candidates[k]]
                                      \/ score[candidates[j]] = score[candidates[k]] /\ j < k
  OBVIOUS
<1>3. \A j, k \in D : <<j, k>> \in {p \in D \X D : b(p)} <=> b(<<j, k>>)
  <2> HIDE DEF D, b
  <2>1. QED OBVIOUS
<1>4. QED
  <2> HIDE DEF b
  <2>1. QED BY <1>1, <1>2, <1>3

\* The members of a sequence are of its set.
LEMMA MemberType ==
    ASSUME NEW C, NEW s \in Seq(C), NEW m \in DOMAIN s
    PROVE  s[m] \in C /\ Contains(s, s[m])
BY DEF Contains

LEMMA WiderType ==
    ASSUME NEW S, NEW C, S \subseteq C, NEW s \in Seq(S)
    PROVE  s \in Seq(C)
<1>1. \A k \in 1..Len(s) : s[k] \in C
  BY MemberType
<1>2. QED BY <1>1

LEMMA RerankListed ==
    ASSUME NEW C, NEW candidates \in Seq(C), NEW score \in [C -> Int]
    PROVE  Lists(Listed(DOMAIN candidates, RerankedBefore(candidates, score)),
                 DOMAIN candidates, RerankedBefore(candidates, score))
<1> DEFINE S == DOMAIN candidates
           R == RerankedBefore(candidates, score)
           b(j, k) == \/ score[candidates[j]] > score[candidates[k]]
                      \/ score[candidates[j]] = score[candidates[k]] /\ j < k
<1>1. S = 1..Len(candidates) /\ IsFiniteSet(S)
  BY FS_Interval
<1>2. \A j, k \in S : <<j, k>> \in R <=> b(j, k)
  BY RerankedPairs
<1>3. \A j \in S : j \in Int /\ score[candidates[j]] \in Int
  BY <1>1
<1>4. Orders(R, S)
  <2> DEFINE v(j) == score[candidates[j]]
  <2>1. \A j, k \in S : <<j, k>> \in R <=> v(j) > v(k) \/ (v(j) = v(k) /\ j < k)
    BY <1>2
  <2>2. \A j \in S : j \in Int /\ v(j) \in Int
    BY <1>3
  <2> HIDE DEF R, S, v
  <2>3. QED BY <2>1, <2>2 DEF Orders
<1>5. QED BY <1>1, <1>4, ListedInOrder

\* A selection is of clauses, and leaves none out that every judge prefers.
LEMMA SelectedBest ==
    ASSUME NEW C, C \subseteq Int, IsFiniteSet(C), NEW vector \in Seq(C), NEW keyword \in Seq(C),
           NEW score \in [C -> Int]
    PROVE  /\ Selected(vector, keyword, score) \in Seq(C)
           /\ Undominated(Selected(vector, keyword, score), vector, keyword, score)
<1> DEFINE S == ToSet(vector) \cup ToSet(keyword)
           fused == RrfMerge(vector, keyword)
           candidates == First(fused, RerankLimit)
           reranked == Listed(DOMAIN candidates, RerankedBefore(candidates, score))
           ordered == [k \in DOMAIN reranked |-> candidates[reranked[k]]]
           chosen == Selected(vector, keyword, score)
<1>1. RerankLimit \in Nat /\ TopK \in Nat
  BY RetrievalAssumption
<1>2. S \subseteq C
  BY DEF ToSet
<1>3. Lists(fused, S, FusedBefore(vector, keyword))
  BY MergeListed
<1>4. fused \in Seq(C) /\ fused \in Seq(S)
  BY <1>2, <1>3 DEF Lists
<1>5. /\ candidates \in Seq(C)
      /\ DOMAIN candidates = {k \in DOMAIN fused : k <= RerankLimit}
      /\ \A k \in DOMAIN candidates : candidates[k] = fused[k]
  <2> HIDE DEF fused
  <2>1. QED BY <1>1, <1>4, FirstOf
<1>6. Lists(reranked, DOMAIN candidates, RerankedBefore(candidates, score))
  <2> HIDE DEF candidates, fused
  <2>1. QED BY <1>5, RerankListed
<1>7. ordered \in Seq(C) /\ DOMAIN ordered = DOMAIN reranked
      /\ \A k \in DOMAIN ordered : ordered[k] = candidates[reranked[k]]
  <2> HIDE DEF candidates, reranked
  <2>1. reranked \in Seq(DOMAIN candidates)
    BY <1>6 DEF Lists
  <2>2. \A k \in DOMAIN reranked : reranked[k] \in DOMAIN candidates
    BY <2>1
  <2>3. \A k \in DOMAIN reranked : candidates[reranked[k]] \in C
    <3>1. \A m \in DOMAIN candidates : candidates[m] \in C
      BY <1>5, MemberType
    <3>2. QED BY <2>2, <3>1
  <2>4. DOMAIN reranked = 1..Len(reranked) /\ Len(reranked) \in Nat
    BY <2>1
  <2>5. QED BY <2>3, <2>4
<1>8. chosen = First(ordered, TopK)
  BY DEF Selected
<1> HIDE DEF S, fused, candidates, reranked, ordered, chosen
<1>9. /\ chosen \in Seq(C)
      /\ DOMAIN chosen = {k \in DOMAIN reranked : k <= TopK}
      /\ \A k \in DOMAIN chosen : chosen[k] = candidates[reranked[k]]
  <2>1. /\ First(ordered, TopK) \in Seq(C)
        /\ DOMAIN First(ordered, TopK) = {k \in DOMAIN ordered : k <= TopK}
        /\ \A k \in DOMAIN First(ordered, TopK) : First(ordered, TopK)[k] = ordered[k]
    BY <1>1, <1>7, FirstOf
  <2>2. QED BY <1>7, <1>8, <2>1
<1>10. ASSUME NEW d \in ToSet(chosen), NEW c \in S, AtLeast(c, d, vector), AtLeast(c, d, keyword),
              score[c] > score[d]
       PROVE  Contains(chosen, c)
  <2>1. PICK k \in DOMAIN chosen : chosen[k] = d
    BY DEF ToSet
  <2>2. /\ k \in DOMAIN reranked /\ k <= TopK /\ reranked[k] \in DOMAIN candidates
        /\ candidates[reranked[k]] = d
    BY <1>6, <1>9, <2>1 DEF Lists
  <2>3. /\ reranked[k] \in DOMAIN fused /\ reranked[k] <= RerankLimit /\ fused[reranked[k]] = d
    BY <1>5, <2>2
  <2>4. d \in S
    BY <1>3, <2>3 DEF Lists
  <2>5. PICK m \in DOMAIN fused : fused[m] = c
    BY <1>3 DEF Lists
  <2>6. m < reranked[k]
    <3>1. Contains(vector, d) \/ Contains(keyword, d)
      BY <2>4 DEF S, ToSet, Contains
    <3>2. Exceeds(RrfScore(c, vector, keyword), RrfScore(d, vector, keyword))
      BY <1>10, <3>1, BetterScore
    <3>3. <<c, d>> \in FusedBefore(vector, keyword)
      BY <2>4, <3>2 DEF FusedBefore, S
    <3>4. QED BY <1>3, <2>3, <2>5, <3>3 DEF Lists
  <2>7. m \in DOMAIN candidates /\ candidates[m] = c
    BY <1>1, <1>4, <1>5, <2>3, <2>5, <2>6
  <2>8. PICK j \in DOMAIN reranked : reranked[j] = m
    BY <1>6, <2>7 DEF Lists
  <2>9. j < k
    <3>1. <<m, reranked[k]>> \in RerankedBefore(candidates, score)
      BY <1>10, <2>2, <2>7, RerankedPairs
    <3>2. QED BY <1>6, <2>2, <2>8, <3>1 DEF Lists
  <2>10. j \in DOMAIN chosen /\ chosen[j] = c
    <3>1. DOMAIN reranked = 1..Len(reranked) /\ Len(reranked) \in Nat
      BY <1>6 DEF Lists
    <3>2. j \in Nat /\ k \in Nat /\ j <= TopK
      BY <1>1, <2>2, <2>8, <2>9, <3>1
    <3>3. j \in DOMAIN chosen
      BY <1>9, <2>8, <3>2
    <3>4. QED BY <1>9, <2>7, <2>8, <3>3
  <2>11. Contains(chosen, chosen[j])
    BY <1>9, <2>10, MemberType
  <2>12. QED BY <2>10, <2>11
<1>11. QED BY <1>9, <1>10 DEF Undominated, S, chosen

-----------------------------------------------------------------------------
(* What the queries of a request recall.                                   *)

\* An order by a value, and by the number where the values are the same.
LEMMA ValuesOrder ==
    ASSUME NEW S, S \subseteq Int, NEW v, \A x \in S : v[x] \in Int, NEW R,
           \A x, y \in S : <<x, y>> \in R <=> v[x] < v[y] \/ (v[x] = v[y] /\ x < y)
    PROVE  Orders(R, S)
<1>1. \A x \in S : <<x, x>> \notin R
  OBVIOUS
<1>2. \A x, y, z \in S : <<x, y>> \in R /\ <<y, z>> \in R => <<x, z>> \in R
  OBVIOUS
<1>3. ASSUME NEW x \in S, NEW y \in S
      PROVE  x = y \/ <<x, y>> \in R \/ <<y, x>> \in R
  <2>1. x \in Int /\ y \in Int /\ v[x] \in Int /\ v[y] \in Int
    OBVIOUS
  <2>2. \/ x = y
        \/ v[x] < v[y] \/ (v[x] = v[y] /\ x < y)
        \/ v[y] < v[x] \/ (v[y] = v[x] /\ y < x)
    BY <2>1
  <2>3. QED BY <2>2
<1>4. QED BY <1>1, <1>2, <1>3 DEF Orders

LEMMA ClausesFinite ==
    IsFiniteSet(Clauses) /\ Clauses \subseteq Int /\ None \notin Clauses
<1>1. Cardinality(Clauses) \in Nat
  BY PipelineAssumption, FS_CardinalityType
<1>2. QED BY <1>1, PipelineAssumption DEF None

LEMMA QueriesType ==
    ASSUME ranking \in Rankings, NEW request \in [clause : Clauses, rule : Rules]
    PROVE  /\ ranking[request.rule].vector \in Seq(Clauses)
           /\ \A c \in Clauses : Contains(ranking[request.rule].vector, c)
           /\ ranking[request.rule].keyword \in Seq(Clauses)
           /\ ranking[request.rule].score \in [Clauses -> Int]
<1>1. ranking[request.rule] \in Queries
  BY PipelineAssumption
<1>2. ranking[request.rule].vector \in {ranked \in Seq(Clauses) : Clauses \subseteq ToSet(ranked)}
  BY <1>1 DEF Queries
<1>3. /\ ranking[request.rule].vector \in Seq(Clauses)
      /\ ranking[request.rule].keyword \in Seq(Clauses)
      /\ ranking[request.rule].score \in [Clauses -> Int]
  BY <1>1, <1>2 DEF Queries
<1>4. \A c \in Clauses : Contains(ranking[request.rule].vector, c)
  <2> DEFINE vector == ranking[request.rule].vector
  <2>1. vector \in Seq(Clauses) /\ Clauses \subseteq ToSet(vector)
    BY <1>2
  <2> HIDE DEF vector
  <2>2. \A c \in Clauses : \E k \in DOMAIN vector : vector[k] = c
    BY <2>1 DEF ToSet
  <2>3. \A c \in Clauses : Contains(vector, c)
    BY <2>1, <2>2, MemberType
  <2>4. QED BY <2>3 DEF vector
<1>5. QED BY <1>3, <1>4

LEMMA VectorRecallType ==
    ASSUME ranking \in Rankings, NEW request \in [clause : Clauses, rule : Rules],
           NEW rows \in [Clauses -> {None} \cup Clauses]
    PROVE  VectorRecall(request, rows) \in Seq(Clauses)
<1> DEFINE S == {c \in Clauses \ {request.clause} : rows[c] # None}
           vector == ranking[request.rule].vector
           position(c) == Rank(rows[c], vector)
           before(c, d) == position(c) < position(d) \/ (position(c) = position(d) /\ c < d)
           R == {p \in S \X S : before(p[1], p[2])}
           seq == Listed(S, R)
<1>1. S \subseteq Clauses /\ S \subseteq Int /\ IsFiniteSet(S)
  <2>1. S \subseteq Clauses
    OBVIOUS
  <2>2. QED BY <2>1, ClausesFinite, FS_Subset
<1>2. \A c \in S : position(c) \in Int
  <2>1. vector \in Seq(Clauses) /\ \A c \in Clauses : Contains(vector, c)
    BY QueriesType
  <2> HIDE DEF vector
  <2>2. \A c \in S : rows[c] \in Clauses
    OBVIOUS
  <2>3. QED BY <2>1, <2>2, RankType
<1>3. \A c, d \in S : <<c, d>> \in R <=> before(c, d)
  <2> HIDE DEF S, before
  <2>1. QED OBVIOUS
<1>4. Orders(R, S)
  <2> DEFINE v == [c \in S |-> position(c)]
  <2>1. /\ \A c \in S : v[c] \in Int
        /\ \A c, d \in S : <<c, d>> \in R <=> v[c] < v[d] \/ (v[c] = v[d] /\ c < d)
    <3> HIDE DEF S, R, position
    <3>1. QED BY <1>2, <1>3
  <2> HIDE DEF S, R, v
  <2>2. QED BY <1>1, <2>1, ValuesOrder
<1>5. Lists(seq, S, R)
  <2> HIDE DEF S, R
  <2>1. QED BY <1>1, <1>4, ListedInOrder
<1>6. VectorRecall(request, rows) = First(seq, RecallLimit)
  BY DEF VectorRecall, Recalled
<1>7. seq \in Seq(Clauses) /\ RecallLimit \in Nat
  <2> HIDE DEF S, R, seq
  <2>1. seq \in Seq(S)
    BY <1>5 DEF Lists
  <2>2. seq \in Seq(Clauses)
    BY <1>1, <2>1, WiderType
  <2>3. QED BY <2>2, RetrievalAssumption
<1>8. QED
  <2> HIDE DEF seq
  <2>1. First(seq, RecallLimit) \in Seq(Clauses)
    BY <1>7, FirstOf
  <2>2. QED BY <1>6, <2>1

LEMMA KeywordRecallType ==
    ASSUME ranking \in Rankings, NEW request \in [clause : Clauses, rule : Rules]
    PROVE  KeywordRecall(request) \in Seq(Clauses)
<1> DEFINE ranked == ranking[request.rule].keyword
           S == ToSet(ranked) \ {request.clause}
           before(c, d) == Rank(c, ranked) < Rank(d, ranked)
           R == {p \in S \X S : before(p[1], p[2])}
           seq == Listed(S, R)
<1>1. ranked \in Seq(Clauses)
  BY QueriesType
<1>2. S \subseteq Clauses /\ S \subseteq Int /\ IsFiniteSet(S)
  <2>1. S \subseteq Clauses
    BY <1>1 DEF ToSet
  <2>2. QED BY <2>1, ClausesFinite, FS_Subset
<1>3. \A c \in S : Rank(c, ranked) \in Int /\ ranked[Rank(c, ranked)] = c
  <2> HIDE DEF ranked
  <2>1. \A c \in S : Contains(ranked, c)
    BY <1>1 DEF ToSet, Contains
  <2>2. QED BY <1>1, <2>1, RankType
<1>4. \A c, d \in S : <<c, d>> \in R <=> before(c, d)
  <2> HIDE DEF S, before
  <2>1. QED OBVIOUS
<1>5. Orders(R, S)
  <2> DEFINE v == [c \in S |-> Rank(c, ranked)]
  <2>1. /\ \A c \in S : v[c] \in Int
        /\ \A c, d \in S : v[c] = v[d] => c = d
    <3> HIDE DEF S, ranked
    <3>1. QED BY <1>3
  <2>2. \A c, d \in S : <<c, d>> \in R <=> v[c] < v[d]
    <3> HIDE DEF S, R, ranked
    <3>1. QED BY <1>4
  <2> HIDE DEF S, R, v
  <2>3. ASSUME NEW c \in S, NEW d \in S
        PROVE  <<c, d>> \in R <=> v[c] < v[d] \/ (v[c] = v[d] /\ c < d)
    <3>1. c \in Int /\ d \in Int /\ v[c] \in Int /\ v[d] \in Int
      BY <1>2, <2>1
    <3>2. v[c] = v[d] => ~(c < d)
      BY <2>1, <3>1
    <3>3. QED BY <2>2, <3>2
  <2>4. QED BY <1>2, <2>1, <2>3, ValuesOrder
<1>6. Lists(seq, S, R)
  <2> HIDE DEF S, R
  <2>1. QED BY <1>2, <1>5, ListedInOrder
<1>7. KeywordRecall(request) = First(seq, RecallLimit)
  BY DEF KeywordRecall, Recalled
<1>8. seq \in Seq(Clauses) /\ RecallLimit \in Nat
  <2> HIDE DEF S, R, seq
  <2>1. seq \in Seq(S)
    BY <1>6 DEF Lists
  <2>2. seq \in Seq(Clauses)
    BY <1>2, <2>1, WiderType
  <2>3. QED BY <2>2, RetrievalAssumption
<1>9. QED
  <2> HIDE DEF seq
  <2>1. First(seq, RecallLimit) \in Seq(Clauses)
    BY <1>8, FirstOf
  <2>2. QED BY <1>7, <2>1

\* Whatever the rows of the clauses, a retrieval is of clauses, and leaves none
\* out that every judge prefers.
LEMMA RetrievedBest ==
    ASSUME ranking \in Rankings, NEW request \in [clause : Clauses, rule : Rules],
           NEW rows \in [Clauses -> {None} \cup Clauses]
    PROVE  /\ Retrieved(request, rows) \in Seq(Clauses)
           /\ Undominated(Retrieved(request, rows), VectorRecall(request, rows),
                          KeywordRecall(request), ranking[request.rule].score)
BY ClausesFinite, QueriesType, VectorRecallType, KeywordRecallType, SelectedBest DEF Retrieved

LEMMA RetrievedStays ==
    ASSUME ranking' = ranking, NEW request, NEW rows
    PROVE  Retrieved(request, rows)' = Retrieved(request, rows)
BY DEF Retrieved, VectorRecall, KeywordRecall, Recalled, Listed

-----------------------------------------------------------------------------
(* What _embeddings_for_texts gives each clause.                           *)

LEMMA PlaceOf ==
    ASSUME NEW S, NEW R, NEW seq, Lists(seq, S, R), NEW c \in S
    PROVE  seq[Rank(c, seq)] = c
<1>1. seq \in Seq(S) /\ \E k \in DOMAIN seq : seq[k] = c
  BY DEF Lists
<1>2. Contains(seq, c)
  BY <1>1, MemberType
<1>3. QED BY <1>1, <1>2, RankType

LEMMA MissingListed ==
    LET M == {c \in Clauses : index[c] = None}
    IN  Lists(Missing, M, Ascending(M))
<1> DEFINE M == {c \in Clauses : index[c] = None}
<1>1. M \subseteq Int /\ IsFiniteSet(M)
  <2>1. M \subseteq Clauses
    OBVIOUS
  <2>2. QED BY <2>1, ClausesFinite, FS_Subset
<1>2. Missing = Listed(M, Ascending(M))
  BY DEF Missing
<1> HIDE DEF M
<1>3. Lists(Missing, M, Ascending(M))
  BY <1>1, <1>2, NumbersListed
<1>4. QED BY <1>3 DEF M

LEMMA SentListed ==
    LET T == {c \in Clauses : index[c] = None /\ vectors[c] = None}
    IN  Lists(Sent, T, Ascending(T))
<1> DEFINE T == {c \in Clauses : index[c] = None /\ vectors[c] = None}
<1>1. T \subseteq Int /\ IsFiniteSet(T)
  <2>1. T \subseteq Clauses
    OBVIOUS
  <2>2. QED BY <2>1, ClausesFinite, FS_Subset
<1>2. Sent = Listed(T, Ascending(T))
  BY DEF Sent
<1> HIDE DEF T
<1>3. Lists(Sent, T, Ascending(T))
  BY <1>1, <1>2, NumbersListed
<1>4. QED BY <1>3 DEF T

\* A clause without a row gets the cached vector of its text, or the answer to
\* its own text.
LEMMA OwnAnswer ==
    ASSUME NEW c \in Clauses, index[c] = None
    PROVE  VectorOf(Rank(c, Missing)) = IF vectors[c] # None THEN vectors[c] ELSE c
<1>1. Missing[Rank(c, Missing)] = c
  BY MissingListed, PlaceOf
<1>2. CASE vectors[c] # None
  BY <1>1, <1>2 DEF VectorOf
<1>3. CASE vectors[c] = None
  <2>1. Sent[Rank(c, Sent)] = c
    BY <1>3, SentListed, PlaceOf
  <2>2. QED BY <1>1, <1>3, <2>1 DEF VectorOf, Embedded
<1>4. QED BY <1>2, <1>3

LEMMA SentMissing ==
    ASSUME NEW n \in 0..Len(Sent), NEW c, Contains(First(Sent, n), c)
    PROVE  c \in Clauses /\ index[c] = None /\ vectors[c] = None
<1> DEFINE T == {d \in Clauses : index[d] = None /\ vectors[d] = None}
<1>1. Sent \in Seq(T)
  BY SentListed DEF Lists
<1> HIDE DEF T
<1>2. First(Sent, n) \in Seq(T)
  <2>1. n \in Nat
    BY <1>1
  <2>2. QED BY <1>1, <2>1, FirstOf
<1>3. c \in T
  BY <1>2, MemberType DEF Contains
<1>4. QED BY <1>3 DEF T

Vectors == [Clauses -> {None} \cup Clauses]

\* What a call embeds is the clause's own text, unless Redis had a vector.
LEMMA EmbeddingsOf ==
    ASSUME index \in Vectors, vectors \in Vectors, NEW t, EnsureEmbeddings(t)
    PROVE  /\ index' \in Vectors /\ vectors' \in Vectors
           /\ \A c \in Clauses : vectors'[c] \in {vectors[c], c}
           /\ \A c \in Clauses : \/ index'[c] = index[c]
                                 \/ index[c] = None /\ index'[c] \in {vectors[c], c} \ {None}
           /\ \/ /\ thread' = [thread EXCEPT ![t].pc = "cache"]
                 /\ \A c \in Clauses : index'[c] # None
              \/ thread' = [thread EXCEPT ![t].pc = "failed"] /\ index' = index
<1>1. PICK n \in 0..Len(Sent), written \in BOOLEAN :
        /\ vectors' = [c \in Clauses |-> IF Contains(First(Sent, n), c) THEN VectorOf(Rank(c, Missing))
                                         ELSE vectors[c]]
        /\ index' = IF written THEN Indexed ELSE index
        /\ Goes(t, IF written THEN "cache" ELSE "failed")
  BY DEF EnsureEmbeddings
<1>2. vectors' \in Vectors /\ \A c \in Clauses : vectors'[c] \in {vectors[c], c}
  <2>1. \A c \in Clauses : Contains(First(Sent, n), c) => VectorOf(Rank(c, Missing)) = c
    BY OwnAnswer, SentMissing
  <2>2. \A c \in Clauses : vectors'[c] \in {vectors[c], c}
    BY <1>1, <2>1
  <2>3. vectors' = [c \in Clauses |-> vectors'[c]]
    BY <1>1
  <2>4. \A c \in Clauses : vectors'[c] \in {None} \cup Clauses
    BY <2>2 DEF Vectors
  <2>5. QED BY <2>2, <2>3, <2>4 DEF Vectors
<1>3. CASE written
  <2>1. \A c \in Clauses :
          index'[c] = IF index[c] = None THEN IF vectors[c] # None THEN vectors[c] ELSE c ELSE index[c]
    BY <1>1, <1>3, OwnAnswer DEF Indexed
  <2>2. \A c \in Clauses : index'[c] # None
    BY <2>1, ClausesFinite
  <2>3. \A c \in Clauses : index'[c] \in {None} \cup Clauses
    BY <2>1 DEF Vectors
  <2>4. index' = [c \in Clauses |-> index'[c]]
    BY <1>1, <1>3 DEF Indexed
  <2>5. thread' = [thread EXCEPT ![t].pc = "cache"]
    BY <1>1, <1>3 DEF Goes
  <2>6. \A c \in Clauses : \/ index'[c] = index[c]
                           \/ index[c] = None /\ index'[c] \in {vectors[c], c} \ {None}
    BY <2>1, <2>2
  <2>7. index' \in Vectors
    BY <2>3, <2>4 DEF Vectors
  <2>8. QED BY <1>2, <2>2, <2>5, <2>6, <2>7
<1>4. CASE ~written
  BY <1>1, <1>2, <1>4 DEF Goes
<1>5. QED BY <1>3, <1>4

-----------------------------------------------------------------------------
(* What _merge_batch_logs returns.                                         *)

LEMMA LogsListed ==
    ASSUME TypeOK, NEW items, items \subseteq Items
    PROVE  LET merged == LogsOf(items)
           IN  /\ merged \in Seq(Logs)
               /\ \A n \in DOMAIN merged :
                     \E i \in items : \E k \in DOMAIN item[i].logs : merged[n] = item[i].logs[k]
               /\ \A i \in items : \A k \in DOMAIN item[i].logs :
                     \E n \in DOMAIN merged : merged[n] = item[i].logs[k]
               /\ \A m, n \in DOMAIN merged : m < n =>
                     \E i, j \in items : \E k \in DOMAIN item[i].logs, l \in DOMAIN item[j].logs :
                        /\ merged[m] = item[i].logs[k] /\ merged[n] = item[j].logs[l]
                        /\ i < j \/ (i = j /\ k < l)
<1> DEFINE S == UNION {{i} \X DOMAIN item[i].logs : i \in items}
           before(p, q) == p[1] < q[1] \/ (p[1] = q[1] /\ p[2] < q[2])
           R == {p \in S \X S : before(p[1], p[2])}
           places == Listed(S, R)
           merged == LogsOf(items)
<1>1. \A p : p \in S <=> \E i \in items : \E k \in DOMAIN item[i].logs : p = <<i, k>>
  OBVIOUS
<1>2. \A i \in items : /\ i \in Int /\ item[i].logs \in Seq(Logs)
                       /\ DOMAIN item[i].logs = 1..Len(item[i].logs) /\ Len(item[i].logs) \in Nat
  BY PipelineAssumption DEF TypeOK, Items
<1>3. IsFiniteSet(S)
  <2>1. IsFiniteSet(items)
    <3>1. IsFiniteSet(Items)
      BY PipelineAssumption, FS_Interval DEF Items
    <3>2. QED BY <3>1, FS_Subset
  <2>2. \A i \in items : IsFiniteSet({i} \X DOMAIN item[i].logs)
    <3>1. \A i \in items : IsFiniteSet({i}) /\ IsFiniteSet(DOMAIN item[i].logs)
      BY <1>2, FS_Interval, FS_Singleton
    <3>2. QED BY <3>1, FS_Product
  <2>3. IsFiniteSet({{i} \X DOMAIN item[i].logs : i \in items})
    <3> DEFINE f == [i \in items |-> {i} \X DOMAIN item[i].logs]
    <3>1. f \in Surjection(items, {{i} \X DOMAIN item[i].logs : i \in items})
      BY DEF Surjection
    <3> HIDE DEF f
    <3>2. QED BY <2>1, <3>1, FS_Surjection
  <2>4. QED BY <2>2, <2>3, FS_UNION
<1>4. \A p \in S : p = <<p[1], p[2]>> /\ p[1] \in Int /\ p[2] \in Int
  <2> HIDE DEF S
  <2>1. QED BY <1>1, <1>2
<1>5. \A p, q \in S : <<p, q>> \in R <=> before(p, q)
  <2> HIDE DEF S, before
  <2>1. QED OBVIOUS
<1>6. Orders(R, S)
  <2> HIDE DEF S, R
  <2>1. \A p, q \in S : p = q <=> p[1] = q[1] /\ p[2] = q[2]
    BY <1>4
  <2>2. \A p \in S : <<p, p>> \notin R
    BY <1>4, <1>5
  <2>3. \A p, q, r \in S : <<p, q>> \in R /\ <<q, r>> \in R => <<p, r>> \in R
    BY <1>4, <1>5
  <2>4. ASSUME NEW p \in S, NEW q \in S
        PROVE  p = q \/ <<p, q>> \in R \/ <<q, p>> \in R
    <3>1. \/ p[1] = q[1] /\ p[2] = q[2]
          \/ before(p, q)
          \/ before(q, p)
      BY <1>4
    <3>2. QED BY <1>5, <2>1, <3>1
  <2>5. QED BY <2>2, <2>3, <2>4 DEF Orders
<1>7. Lists(places, S, R)
  <2> HIDE DEF S, R
  <2>1. QED BY <1>3, <1>6, ListedInOrder
<1>8. merged = [n \in DOMAIN places |-> item[places[n][1]].logs[places[n][2]]]
  BY DEF LogsOf
<1> HIDE DEF S, R, before, places, merged
<1>9. \A n \in DOMAIN places :
         \E i \in items : \E k \in DOMAIN item[i].logs :
            places[n] = <<i, k>> /\ merged[n] = item[i].logs[k]
  <2>1. \A n \in DOMAIN places : places[n] \in S
    BY <1>7 DEF Lists
  <2>2. QED BY <1>1, <1>8, <2>1
<1>10. DOMAIN merged = DOMAIN places /\ DOMAIN places = 1..Cardinality(S) /\ Cardinality(S) \in Nat
  BY <1>3, <1>7, <1>8, FS_CardinalityType DEF Lists
<1>11. merged \in Seq(Logs)
  <2>1. \A n \in DOMAIN merged : merged[n] \in Logs
    BY <1>2, <1>9, <1>10, MemberType
  <2>2. merged = [n \in 1..Cardinality(S) |-> merged[n]]
    BY <1>8, <1>10
  <2>3. QED BY <1>10, <2>1, <2>2
<1>12. ASSUME NEW i \in items, NEW k \in DOMAIN item[i].logs
       PROVE  \E n \in DOMAIN merged : merged[n] = item[i].logs[k]
  <2>1. <<i, k>> \in S
    BY <1>1
  <2>2. PICK n \in DOMAIN places : places[n] = <<i, k>>
    BY <1>7, <2>1 DEF Lists
  <2>3. QED BY <1>8, <1>10, <2>2
<1>13. ASSUME NEW m \in DOMAIN merged, NEW n \in DOMAIN merged, m < n
       PROVE  \E i, j \in items : \E k \in DOMAIN item[i].logs, l \in DOMAIN item[j].logs :
                 /\ merged[m] = item[i].logs[k] /\ merged[n] = item[j].logs[l]
                 /\ i < j \/ (i = j /\ k < l)
  <2>1. PICK i \in items : \E k \in DOMAIN item[i].logs :
          places[m] = <<i, k>> /\ merged[m] = item[i].logs[k]
    BY <1>9, <1>10
  <2>2. PICK k \in DOMAIN item[i].logs : places[m] = <<i, k>> /\ merged[m] = item[i].logs[k]
    BY <2>1
  <2>3. PICK j \in items : \E l \in DOMAIN item[j].logs :
          places[n] = <<j, l>> /\ merged[n] = item[j].logs[l]
    BY <1>9, <1>10
  <2>4. PICK l \in DOMAIN item[j].logs : places[n] = <<j, l>> /\ merged[n] = item[j].logs[l]
    BY <2>3
  <2>5. before(places[m], places[n])
    <3>1. <<places[m], places[n]>> \in R
      BY <1>7, <1>10, <1>13 DEF Lists
    <3>2. places[m] \in S /\ places[n] \in S
      BY <1>1, <2>2, <2>4
    <3>3. QED BY <1>5, <3>1, <3>2
  <2>6. i < j \/ (i = j /\ k < l)
    BY <2>2, <2>4, <2>5 DEF before
  <2>7. QED BY <2>2, <2>4, <2>6
<1>14. QED BY <1>9, <1>10, <1>11, <1>12, <1>13 DEF merged

-----------------------------------------------------------------------------
(* Types.                                                                  *)

CallStates == {"idle", "related", "memory", "remembering", "built", "done"}
ThreadStates == {"none", "lock", "index", "cache", "recall", "done", "failed", "taken"}
Ends == {"none", "CONTEXT_BUILT", "RETRIEVAL_FAILED", "NODE_TIMEOUT", "CANCELLED"}

ItemsType == [Items -> [pc : CallStates, related : Seq(Clauses), logs : Seq(Logs)]]
ThreadsType == [Threads -> [pc : ThreadStates, related : Seq(Clauses)]]
NodeType == [pc : {"idle", "submit", "batch", "consume", "ended"}, batch : Nat, next : Nat,
             end : Ends, logs : Seq(Logs)]
LockType == lock = {} \/ \E t \in Threads : lock = {t}
ResultsType == DOMAIN results \subseteq Keys /\ \A k \in DOMAIN results : results[k] \in Seq(Clauses)
RowType == stored \in Seq([item : Items, related : Seq(Clauses)])

LEMMA TypesExpanded ==
    TypeOK <=> /\ cancelled \in BOOLEAN /\ run \in 0..MaxRuns /\ faults \in 0..MaxFaults
               /\ RowType
               /\ node \in NodeType
               /\ item \in ItemsType
               /\ thread \in ThreadsType
               /\ LockType
               /\ index \in Vectors /\ vectors \in Vectors
               /\ ResultsType
               /\ ranking \in Rankings
BY DEF TypeOK, RowType, NodeType, Ends, ItemsType, CallStates, ThreadsType, ThreadStates, LockType,
       Vectors, ResultsType

LEMMA ItemsAre ==
    /\ Items = 1..Len(WorkItems) /\ Len(WorkItems) \in Nat
    /\ \A i \in Items : WorkItems[i] \in [clause : Clauses, rule : Rules] /\ WorkItems[i] \in Keys
    /\ \A t \in Threads : t[2] \in Items
<1>1. WorkItems \in Seq([clause : Clauses, rule : Rules])
  BY PipelineAssumption
<1>2. Items = 1..Len(WorkItems) /\ Len(WorkItems) \in Nat
  BY <1>1 DEF Items
<1>3. \A i \in Items : WorkItems[i] \in [clause : Clauses, rule : Rules]
  BY <1>1, MemberType DEF Items
<1>4. QED BY <1>2, <1>3 DEF Threads, Keys

LEMMA BoundsType ==
    MaxRuns \in Nat /\ MaxFaults \in Nat /\ Width \in Nat \ {0}
BY PipelineAssumption

LEMMA StoredType ==
    ASSUME RowType, NEW k \in DOMAIN stored
    PROVE  stored[k].item \in Items
<1>1. stored[k] \in [item : Items, related : Seq(Clauses)]
  BY MemberType DEF RowType
<1>2. QED BY <1>1

LEMMA FaultsType ==
    ASSUME faults \in 0..MaxFaults, NEW n \in Nat, Faults(n)
    PROVE  faults' \in 0..MaxFaults
BY PipelineAssumption DEF Faults

LEMMA CallType ==
    ASSUME item \in ItemsType, NEW i \in Items, NEW pc \in CallStates,
           NEW tool \in {"related", "memory"},
           NEW status \in {"success", "failed", "cancelled", "timeout"},
           NEW chosen \in Seq(Clauses), Call(i, pc, tool, status, chosen)
    PROVE  item' \in ItemsType
<1>1. [item |-> i, tool |-> tool, status |-> status] \in Logs
  BY DEF Logs
<1>2. item[i].logs \in Seq(Logs)
  BY DEF ItemsType
<1>3. Logged(i, tool, status) \in Seq(Logs)
  BY <1>1, <1>2 DEF Logged
<1> HIDE DEF Logs
<1>4. [pc |-> pc, related |-> chosen, logs |-> Logged(i, tool, status)]
        \in [pc : CallStates, related : Seq(Clauses), logs : Seq(Logs)]
  BY <1>3
<1>5. QED BY <1>4 DEF Call, ItemsType

LEMMA FailingType ==
    ASSUME item \in ItemsType, NEW i \in Items, NEW tool \in {"related", "memory"},
           NEW status \in {"failed", "cancelled", "timeout"}, Failing(i, tool, status)
    PROVE  item' \in ItemsType
<1>1. item[i].related \in Seq(Clauses)
  BY DEF ItemsType
<1>2. QED BY <1>1, CallType DEF Failing, CallStates

LEMMA ThreadType ==
    ASSUME thread \in ThreadsType, NEW t \in Threads, NEW pc \in ThreadStates,
           NEW chosen \in Seq(Clauses),
           \/ thread' = [thread EXCEPT ![t].pc = pc]
           \/ thread' = [thread EXCEPT ![t] = [pc |-> pc, related |-> chosen]]
    PROVE  thread' \in ThreadsType
<1> DEFINE T == [pc : ThreadStates, related : Seq(Clauses)]
<1>1. [pc |-> pc, related |-> chosen] \in T /\ [thread[t] EXCEPT !.pc = pc] \in T
  BY DEF ThreadsType
<1>2. \A r \in T : [thread EXCEPT ![t] = r] \in [Threads -> T]
  BY DEF ThreadsType
<1>3. [thread EXCEPT ![t].pc = pc] = [thread EXCEPT ![t] = [thread[t] EXCEPT !.pc = pc]]
  BY DEF ThreadsType
<1> HIDE DEF T
<1>4. thread' \in [Threads -> T]
  BY <1>1, <1>2, <1>3
<1>5. QED BY <1>4 DEF T, ThreadsType

LEMMA InitTypes ==
    ASSUME Init
    PROVE  TypeOK
<1>1. RowType /\ LockType /\ ResultsType
  BY DEF Init, RowType, LockType, ResultsType
<1>2. node \in NodeType /\ item \in ItemsType
  BY DEF Init, NodeType, ItemsType, NoItem, CallStates, Ends
<1>3. thread \in ThreadsType
  BY DEF Init, ThreadsType, ThreadStates
<1>4. index \in Vectors /\ vectors \in Vectors
  BY DEF Init, Vectors
<1>5. cancelled \in BOOLEAN /\ run \in 0..MaxRuns /\ faults \in 0..MaxFaults /\ ranking \in Rankings
  <2>1. 0 \in 0..MaxRuns /\ 0 \in 0..MaxFaults
    BY BoundsType
  <2>2. QED BY <2>1 DEF Init
<1>6. QED BY <1>1, <1>2, <1>3, <1>4, <1>5, TypesExpanded

LEMMA WorkerTypes ==
    ASSUME TypeOK, run \in 1..MaxRuns, NEW i \in Items, Worker(i)
    PROVE  /\ item' \in ItemsType /\ thread' \in ThreadsType /\ faults' \in 0..MaxFaults
           /\ UNCHANGED <<control, node, lock, shared>>
<1>1. item \in ItemsType /\ thread \in ThreadsType /\ faults \in 0..MaxFaults
  BY TypesExpanded
<1>2. <<run, i>> \in Threads /\ thread[<<run, i>>].related \in Seq(Clauses)
      /\ item[i].related \in Seq(Clauses)
  BY <1>1 DEF Threads, ThreadsType, ItemsType
<1>3. CASE StartRelated(i)
  <2>1. item' \in ItemsType
    BY <1>1, <1>3, FailingType DEF StartRelated
  <2>2. thread' \in ThreadsType
    BY <1>1, <1>2, <1>3, ThreadType DEF StartRelated, ThreadStates
  <2>3. QED BY <1>1, <1>3, <2>1, <2>2 DEF StartRelated
<1>4. CASE EndRelated(i)
  <2>1. item' \in ItemsType
    BY <1>1, <1>2, <1>4, FailingType, CallType DEF EndRelated, CallStates
  <2>2. thread' \in ThreadsType
    <3>1. <<>> \in Seq(Clauses) /\ "taken" \in ThreadStates
      BY DEF ThreadStates
    <3>2. QED BY <1>1, <1>2, <1>4, <3>1, ThreadType DEF EndRelated
  <2>3. faults' \in 0..MaxFaults
    BY <1>1, <1>4, FaultsType DEF EndRelated
  <2>4. QED BY <1>4, <2>1, <2>2, <2>3 DEF EndRelated
<1>5. CASE GiveUp(i)
  <2>1. item' \in ItemsType
    BY <1>1, <1>5, FailingType DEF GiveUp
  <2>2. QED BY <1>1, <1>5, <2>1 DEF GiveUp
<1>6. CASE StartMemory(i)
  <2>1. item' \in ItemsType
    <3>1. CASE cancelled
      BY <1>1, <1>6, <3>1, FailingType DEF StartMemory
    <3>2. CASE ~cancelled
      BY <1>1, <1>6, <3>2 DEF StartMemory, ItemsType, CallStates
    <3>3. QED BY <3>1, <3>2
  <2>2. QED BY <1>1, <1>6, <2>1 DEF StartMemory
<1>7. CASE EndMemory(i)
  <2>1. item' \in ItemsType
    BY <1>1, <1>2, <1>7, FailingType, CallType DEF EndMemory, CallStates
  <2>2. faults' \in 0..MaxFaults
    BY <1>1, <1>7, FaultsType DEF EndMemory
  <2>3. QED BY <1>1, <1>7, <2>1, <2>2 DEF EndMemory
<1>8. QED BY <1>3, <1>4, <1>5, <1>6, <1>7 DEF Worker

LEMMA ToolTypes ==
    ASSUME TypeOK, NEW t \in Threads, ToolThread(t)
    PROVE  /\ thread' \in ThreadsType /\ LockType' /\ index' \in Vectors /\ vectors' \in Vectors
           /\ ResultsType' /\ faults' \in 0..MaxFaults
           /\ UNCHANGED <<control, node, item>>
<1>1. /\ thread \in ThreadsType /\ LockType /\ index \in Vectors /\ vectors \in Vectors /\ ResultsType
      /\ faults \in 0..MaxFaults /\ ranking \in Rankings
  BY TypesExpanded
<1>2. <<>> \in Seq(Clauses)
  OBVIOUS
<1>3. WorkItems[t[2]] \in [clause : Clauses, rule : Rules] /\ WorkItems[t[2]] \in Keys
  BY ItemsAre
<1>4. CASE TakeIndexLock(t)
  <2>1. thread' \in ThreadsType
    BY <1>1, <1>2, <1>4, ThreadType DEF TakeIndexLock, Goes, ThreadStates
  <2>2. LockType'
    BY <1>4 DEF TakeIndexLock, LockType
  <2>3. QED BY <1>1, <1>4, <2>1, <2>2 DEF TakeIndexLock, shared, ResultsType
<1>5. CASE EnsureEmbeddings(t)
  <2>1. thread' \in ThreadsType
    BY <1>1, <1>2, <1>5, EmbeddingsOf, ThreadType DEF ThreadStates
  <2>2. index' \in Vectors /\ vectors' \in Vectors
    BY <1>1, <1>5, EmbeddingsOf
  <2>3. LockType' /\ ResultsType'
    BY <1>1, <1>5 DEF EnsureEmbeddings, LockType, ResultsType
  <2>4. faults' \in 0..MaxFaults
    <3>1. PICK n \in {0, 1} : Faults(n)
      BY <1>5 DEF EnsureEmbeddings
    <3>2. QED BY <1>1, <3>1, FaultsType
  <2>5. UNCHANGED <<control, node, item>>
    BY <1>5 DEF EnsureEmbeddings
  <2>6. QED BY <2>1, <2>2, <2>3, <2>4, <2>5
<1>6. CASE ReadCache(t)
  <2>1. thread' \in ThreadsType
    <3>1. CASE /\ CacheKey(t) \in DOMAIN results
               /\ thread' = [thread EXCEPT ![t] = [pc |-> "done", related |-> results[CacheKey(t)]]]
      <4>1. results[CacheKey(t)] \in Seq(Clauses)
        BY <1>1, <3>1 DEF ResultsType
      <4>2. QED BY <1>1, <3>1, <4>1, ThreadType DEF ThreadStates
    <3>2. CASE Goes(t, "recall")
      BY <1>1, <1>2, <3>2, ThreadType DEF Goes, ThreadStates
    <3>3. QED BY <1>6, <3>1, <3>2 DEF ReadCache
  <2>2. faults' \in 0..MaxFaults
    BY <1>1, <1>6, FaultsType DEF ReadCache
  <2>3. QED BY <1>1, <1>6, <2>1, <2>2 DEF ReadCache, shared, LockType, ResultsType
<1>7. CASE Retrieve(t)
  <2> DEFINE chosen == Retrieved(WorkItems[t[2]], index)
  <2>1. chosen \in Seq(Clauses)
    BY <1>1, <1>3, RetrievedBest DEF Vectors
  <2>2. /\ \/ Goes(t, "failed")
           \/ thread' = [thread EXCEPT ![t] = [pc |-> "done", related |-> chosen]]
        /\ results' = results \/ results' = Put(results, WorkItems[t[2]], chosen)
        /\ faults' = faults \/ Faults(1)
        /\ UNCHANGED <<control, node, item, lock, index, vectors>>
    BY <1>7 DEF Retrieve, Item, CacheKey
  <2> HIDE DEF chosen
  <2>3. thread' \in ThreadsType
    BY <1>1, <1>2, <2>1, <2>2, ThreadType DEF Goes, ThreadStates
  <2>4. ResultsType'
    BY <1>1, <1>3, <2>1, <2>2 DEF ResultsType, Put
  <2>5. faults' \in 0..MaxFaults
    BY <1>1, <2>2, FaultsType
  <2>6. QED BY <1>1, <2>2, <2>3, <2>4, <2>5 DEF LockType
<1>8. QED BY <1>4, <1>5, <1>6, <1>7 DEF ToolThread

LEMMA NodeTypes ==
    ASSUME TypeOK, Node
    PROVE  /\ node' \in NodeType /\ item' \in ItemsType /\ RowType'
           /\ UNCHANGED <<cancelled, run, ranking, thread, lock, shared, faults>>
<1>1. node \in NodeType /\ item \in ItemsType /\ RowType
  BY TypesExpanded
<1>2. CASE Submit
  <2>1. node' \in NodeType
    BY <1>1, <1>2 DEF Submit, NodeType
  <2>2. item' \in ItemsType
    <3>1. <<>> \in Seq(Clauses) /\ <<>> \in Seq(Logs)
      OBVIOUS
    <3>2. item' = [i \in Items |-> [pc |-> IF i \in Batch THEN "related" ELSE "idle",
                                    related |-> <<>>, logs |-> <<>>]]
      BY <1>2 DEF Submit, NoItem
    <3>3. QED BY <3>1, <3>2 DEF ItemsType, CallStates
  <2>3. QED BY <1>1, <1>2, <2>1, <2>2 DEF Submit, RowType, control
<1>3. CASE Merge
  <2>1. BatchLogs \in Seq(Logs)
    BY LogsListed DEF BatchLogs, Batch
  <2> HIDE DEF BatchLogs
  <2>2. node.logs \in Seq(Logs)
    BY <1>1 DEF NodeType
  <2>3. node.logs \o BatchLogs \in Seq(Logs)
    BY <2>1, <2>2
  <2>4. node' = [node EXCEPT !.pc = "consume", !.logs = node.logs \o BatchLogs]
    BY <1>3 DEF Merge
  <2>5. node' \in NodeType
    BY <1>1, <2>3, <2>4 DEF NodeType
  <2>6. QED BY <1>1, <1>3, <2>5 DEF Merge, RowType, control
<1>4. CASE Consume
  <2> DEFINE i == node.next
  <2>1. i \in Nat
    BY <1>1 DEF NodeType
  <2>2. ASSUME NEW status \in Ends, End(status) PROVE node' \in NodeType
    BY <1>1, <2>2 DEF End, NodeType, Ends
  <2>3. node' \in NodeType
    <3>1. CASE \E status \in Ends : End(status)
      BY <2>2, <3>1
    <3>2. CASE node' = [node EXCEPT !.pc = "submit", !.batch = i]
      BY <1>1, <2>1, <3>2 DEF NodeType
    <3>3. CASE node' = [node EXCEPT !.next = i + 1]
      BY <1>1, <2>1, <3>3 DEF NodeType
    <3>4. QED BY <1>4, <3>1, <3>2, <3>3 DEF Consume, ErrorOf, Ends
  <2>4. RowType'
    <3>1. CASE stored' = stored
      BY <1>1, <3>1 DEF RowType
    <3>2. CASE i \in Items /\ stored' = Append(stored, [item |-> i, related |-> item[i].related])
      <4>1. [item |-> i, related |-> item[i].related] \in [item : Items, related : Seq(Clauses)]
        BY <1>1, <3>2 DEF ItemsType
      <4>2. QED BY <1>1, <3>2, <4>1 DEF RowType
    <3>3. QED BY <1>4, <3>1, <3>2 DEF Consume, Batch
  <2>5. QED BY <1>1, <1>4, <2>3, <2>4 DEF Consume
<1>5. QED BY <1>2, <1>3, <1>4 DEF Node

\* A work item is begun in a run.
Started ==
    /\ node.pc # "idle" => run \in 1..MaxRuns
    /\ node.pc = "idle" => \A i \in Items : item[i].pc = "idle"

CallLogged(i, tool, status) == Append(item[i].logs, [item |-> i, tool |-> tool, status |-> status])

\* What a step of a worker does to its item.
LEMMA WorkerStep ==
    ASSUME item \in ItemsType, NEW i \in Items, Worker(i)
    PROVE  /\ item[i].pc \in {"related", "memory", "remembering"} /\ item'[i].pc # "idle"
           /\ \A j \in Items : j # i => item'[j] = item[j]
           /\ \/ item' = item
              \/ /\ item[i].pc = "related" /\ thread[<<run, i>>].pc = "done" /\ ~cancelled
                 /\ item'[i] = [pc |-> "memory", related |-> thread[<<run, i>>].related,
                                logs |-> CallLogged(i, "related", "success")]
              \/ /\ item[i].pc = "related"
                 /\ \E status \in {"failed", "cancelled", "timeout"} :
                       item'[i] = [pc |-> "done", related |-> item[i].related,
                                   logs |-> CallLogged(i, "related", status)]
              \/ /\ item[i].pc = "memory" /\ ~cancelled
                 /\ item'[i] = [pc |-> "remembering", related |-> item[i].related,
                                logs |-> item[i].logs]
              \/ /\ item[i].pc \in {"memory", "remembering"}
                 /\ \E status \in {"success", "failed", "cancelled", "timeout"} :
                       item'[i] = [pc |-> "done", related |-> item[i].related,
                                   logs |-> CallLogged(i, "memory", status)]
              \/ /\ item[i].pc = "remembering" /\ ~cancelled
                 /\ item'[i] = [pc |-> "built", related |-> item[i].related,
                                logs |-> CallLogged(i, "memory", "success")]
<1>1. /\ DOMAIN item = Items
      /\ item[i] = [pc |-> item[i].pc, related |-> item[i].related, logs |-> item[i].logs]
  BY DEF ItemsType
<1>2. ASSUME NEW pc, NEW tool, NEW status, NEW chosen, Call(i, pc, tool, status, chosen)
      PROVE  /\ item'[i].pc = pc
             /\ item'[i] = [pc |-> pc, related |-> chosen, logs |-> CallLogged(i, tool, status)]
             /\ \A j \in Items : j # i => item'[j] = item[j]
  BY <1>1, <1>2 DEF Call, Logged, CallLogged
<1>3. ASSUME NEW tool, NEW status, Failing(i, tool, status)
      PROVE  /\ item'[i].pc = "done"
             /\ item'[i] = [pc |-> "done", related |-> item[i].related,
                            logs |-> CallLogged(i, tool, status)]
             /\ \A j \in Items : j # i => item'[j] = item[j]
  BY <1>2, <1>3 DEF Failing
<1> HIDE DEF CallLogged
<1>4. CASE StartRelated(i)
  BY <1>3, <1>4 DEF StartRelated
<1>5. CASE EndRelated(i)
  BY <1>2, <1>3, <1>5 DEF EndRelated, MayAdopt
<1>6. CASE GiveUp(i)
  BY <1>3, <1>6 DEF GiveUp
<1>7. CASE StartMemory(i)
  <2>1. CASE cancelled
    BY <1>3, <1>7, <2>1 DEF StartMemory
  <2>2. CASE ~cancelled
    <3>1. item' = [item EXCEPT ![i] = [pc |-> "remembering", related |-> item[i].related,
                                       logs |-> item[i].logs]]
      BY <1>1, <1>7, <2>2 DEF StartMemory
    <3>2. QED BY <1>1, <1>7, <2>2, <3>1 DEF StartMemory
  <2>3. QED BY <2>1, <2>2
<1>8. CASE EndMemory(i)
  BY <1>2, <1>3, <1>8 DEF EndMemory, MayAdopt
<1>9. QED BY <1>4, <1>5, <1>6, <1>7, <1>8 DEF Worker

LEMMA TypesStep ==
    ASSUME TypeOK, Started, [Next]_vars
    PROVE  TypeOK' /\ Started'
<1>1. /\ cancelled \in BOOLEAN /\ run \in 0..MaxRuns /\ faults \in 0..MaxFaults /\ RowType
      /\ node \in NodeType /\ item \in ItemsType /\ thread \in ThreadsType /\ LockType
      /\ index \in Vectors /\ vectors \in Vectors /\ ResultsType /\ ranking \in Rankings
  BY TypesExpanded
<1>2. TypeOK' <=> /\ cancelled' \in BOOLEAN /\ run' \in 0..MaxRuns /\ faults' \in 0..MaxFaults
                  /\ RowType' /\ node' \in NodeType /\ item' \in ItemsType
                  /\ thread' \in ThreadsType /\ LockType' /\ index' \in Vectors
                  /\ vectors' \in Vectors /\ ResultsType' /\ ranking' \in Rankings
  BY DEF TypeOK, RowType, NodeType, Ends, ItemsType, CallStates, ThreadsType, ThreadStates, LockType,
         Vectors, ResultsType
<1> USE <1>1
<1>3. ASSUME Start PROVE TypeOK' /\ Started'
  <2>1. run' \in 1..MaxRuns /\ run' \in 0..MaxRuns
    BY <1>3, BoundsType DEF Start
  <2>2. node' \in NodeType /\ node'.pc = "submit"
    <3>1. <<>> \in Seq(Logs)
      OBVIOUS
    <3>2. QED BY <1>3, <3>1 DEF Start, NodeType, Ends
  <2>3. RowType' /\ LockType' /\ ResultsType'
    BY <1>3 DEF Start, shared, RowType, LockType, ResultsType
  <2>4. UNCHANGED <<cancelled, ranking, item, thread, index, vectors, faults>>
    BY <1>3 DEF Start, shared
  <2>5. QED BY <1>2, <2>1, <2>2, <2>3, <2>4 DEF Started
<1>4. ASSUME Cancel PROVE TypeOK' /\ Started'
  BY <1>2, <1>4 DEF Cancel, shared, Started, RowType, LockType, ResultsType
<1>5. ASSUME Node PROVE TypeOK' /\ Started'
  <2>1. /\ node' \in NodeType /\ item' \in ItemsType /\ RowType'
        /\ UNCHANGED <<cancelled, run, ranking, thread, lock, index, vectors, results, faults>>
    BY <1>5, NodeTypes DEF shared
  <2>2. LockType' /\ ResultsType'
    BY <2>1 DEF LockType, ResultsType
  <2>3. node.pc # "idle" /\ node'.pc # "idle"
    BY <1>5 DEF Node, Submit, Merge, Consume, End, NodeType
  <2>4. Started'
    BY <2>1, <2>3 DEF Started
  <2>5. QED BY <1>2, <2>1, <2>2, <2>4
<1>6. ASSUME NEW i \in Items, Worker(i) PROVE TypeOK' /\ Started'
  <2>1. item[i].pc # "idle"
    BY <1>6, WorkerStep
  <2>2. run \in 1..MaxRuns /\ node.pc # "idle"
    BY <2>1 DEF Started
  <2>3. /\ item' \in ItemsType /\ thread' \in ThreadsType /\ faults' \in 0..MaxFaults
        /\ UNCHANGED <<cancelled, stored, run, ranking, node, lock, index, vectors, results>>
    BY <1>6, <2>2, WorkerTypes DEF control, shared
  <2>4. LockType' /\ ResultsType' /\ RowType'
    BY <2>3 DEF LockType, ResultsType, RowType
  <2>5. Started'
    BY <2>2, <2>3 DEF Started
  <2>6. QED BY <1>2, <2>3, <2>4, <2>5
<1>7. ASSUME NEW t \in Threads, ToolThread(t) PROVE TypeOK' /\ Started'
  <2>1. /\ thread' \in ThreadsType /\ LockType' /\ index' \in Vectors /\ vectors' \in Vectors
        /\ ResultsType' /\ faults' \in 0..MaxFaults
        /\ UNCHANGED <<cancelled, stored, run, ranking, node, item>>
    BY <1>7, ToolTypes DEF control
  <2>2. QED BY <1>2, <2>1 DEF Started, RowType
<1>8. ASSUME UNCHANGED vars PROVE TypeOK' /\ Started'
  BY <1>2, <1>8 DEF vars, Started, RowType, LockType, ResultsType
<1>9. QED BY <1>3, <1>4, <1>5, <1>6, <1>7, <1>8 DEF Next

\* Every variable of the context phase keeps its type: the retrievals, the
\* answers of the model and the merged logs included.
THEOREM PipelineTypesCorrect == Spec => []TypeOK
<1>1. Init => TypeOK /\ Started
  <2>1. Init => Started
    BY DEF Init, Started, NoItem
  <2>2. QED BY <2>1, InitTypes
<1>2. TypeOK /\ Started /\ [Next]_vars => (TypeOK /\ Started)'
  BY TypesStep
<1>3. QED BY <1>1, <1>2, PTL DEF Spec

-----------------------------------------------------------------------------
(* The items of a batch and the place of the node among them.              *)

\* What the log of an item holds, by how far its calls have come.
ItemLogs ==
    \A i \in Items :
        LET logs == item[i].logs
            pc == item[i].pc
        IN  /\ \A k \in DOMAIN logs : logs[k].item = i
            /\ pc \in {"idle", "related"} => Len(logs) = 0
            /\ pc \in {"memory", "remembering"} => Len(logs) = 1
            /\ pc = "built" => Len(logs) = 2
            /\ pc = "done" => Len(logs) \in 1..2
            /\ Len(logs) >= 1 => logs[1].tool = "related"
            /\ Len(logs) >= 2 => logs[2].tool = "memory"
            /\ pc # "done" => \A k \in DOMAIN logs : ~Failed(logs[k])

\* Items are at work only in a batch, and those of the batch only.
Position ==
    /\ node.pc # "batch" => \A i \in Items : item[i].pc \in {"idle", "built", "done"}
    /\ node.pc \in {"batch", "consume"} => \A i \in Items : i \in Batch <=> item[i].pc # "idle"
    /\ node.pc # "ended" <=> node.end = "none"
    /\ 1 <= node.batch /\ node.batch <= node.next
    /\ node.next <= node.batch + Width /\ node.next <= Len(WorkItems) + 1
    /\ node.pc \in {"idle", "submit", "batch"} => node.next = node.batch
    /\ Len(stored) = node.next - 1
    /\ \A k \in DOMAIN stored : stored[k].item = k

LEMMA ItemLogsWorker ==
    ASSUME item \in ItemsType, ItemLogs, NEW i \in Items, Worker(i)
    PROVE  ItemLogs'
<1> DEFINE Shape(r, j) ==
        /\ \A k \in DOMAIN r.logs : r.logs[k].item = j
        /\ r.pc \in {"idle", "related"} => Len(r.logs) = 0
        /\ r.pc \in {"memory", "remembering"} => Len(r.logs) = 1
        /\ r.pc = "built" => Len(r.logs) = 2
        /\ r.pc = "done" => Len(r.logs) \in 1..2
        /\ Len(r.logs) >= 1 => r.logs[1].tool = "related"
        /\ Len(r.logs) >= 2 => r.logs[2].tool = "memory"
        /\ r.pc # "done" => \A k \in DOMAIN r.logs : ~Failed(r.logs[k])
<1>1. ItemLogs <=> \A j \in Items : Shape(item[j], j)
  BY DEF ItemLogs
<1>2. ItemLogs' <=> \A j \in Items : Shape(item'[j], j)
  BY DEF ItemLogs, Failed
<1>3. item[i].logs \in Seq(Logs)
  BY DEF ItemsType
<1>4. \A j \in Items : j # i => Shape(item'[j], j)
  <2> HIDE DEF Shape
  <2>1. QED BY <1>1, WorkerStep
<1>5. Shape(item[i], i)
  <2> HIDE DEF Shape
  <2>1. QED BY <1>1
<1> DEFINE logs == item[i].logs
           log(tool, status) == [item |-> i, tool |-> tool, status |-> status]
<1>6. ASSUME NEW tool, NEW status
      PROVE  /\ Len(CallLogged(i, tool, status)) = Len(logs) + 1
             /\ DOMAIN CallLogged(i, tool, status) = 1..(Len(logs) + 1)
             /\ CallLogged(i, tool, status)[Len(logs) + 1] = log(tool, status)
             /\ \A k \in DOMAIN logs : CallLogged(i, tool, status)[k] = logs[k]
             /\ DOMAIN logs = 1..Len(logs) /\ Len(logs) \in Nat
  <2> HIDE DEF Logs
  <2>1. logs \in Seq(Logs \cup {log(tool, status)})
    BY <1>3
  <2>2. QED BY <2>1 DEF CallLogged
<1> HIDE DEF CallLogged
<1>7. CASE item' = item
  BY <1>1, <1>2, <1>7
<1>8. ASSUME NEW chosen, item[i].pc = "related",
             item'[i] = [pc |-> "memory", related |-> chosen, logs |-> CallLogged(i, "related", "success")]
      PROVE  ItemLogs'
  <2>1. Len(logs) = 0 /\ item'[i].pc = "memory"
    BY <1>5, <1>8
  <2>2. /\ Len(item'[i].logs) = 1 /\ DOMAIN item'[i].logs = 1..1
        /\ item'[i].logs[1] = log("related", "success")
    BY <1>6, <1>8, <2>1
  <2>3. Shape(item'[i], i)
    BY <2>1, <2>2 DEF Failed
  <2> HIDE DEF Shape
  <2>4. QED BY <1>2, <1>4, <2>3
<1>9. ASSUME NEW status, item[i].pc = "related",
             item'[i] = [pc |-> "done", related |-> item[i].related,
                         logs |-> CallLogged(i, "related", status)]
      PROVE  ItemLogs'
  <2>1. Len(logs) = 0 /\ item'[i].pc = "done"
    BY <1>5, <1>9
  <2>2. /\ Len(item'[i].logs) = 1 /\ DOMAIN item'[i].logs = 1..1
        /\ item'[i].logs[1] = log("related", status)
    BY <1>6, <1>9, <2>1
  <2>3. Shape(item'[i], i)
    BY <2>1, <2>2
  <2> HIDE DEF Shape
  <2>4. QED BY <1>2, <1>4, <2>3
<1>10. CASE /\ item[i].pc = "memory"
            /\ item'[i] = [pc |-> "remembering", related |-> item[i].related, logs |-> item[i].logs]
  <2>1. Shape(item'[i], i)
    BY <1>5, <1>10
  <2> HIDE DEF Shape
  <2>2. QED BY <1>2, <1>4, <2>1
<1>11. ASSUME NEW status, item[i].pc \in {"memory", "remembering"},
              NEW pc, pc = "done" \/ (pc = "built" /\ status = "success"),
              item'[i] = [pc |-> pc, related |-> item[i].related, logs |-> CallLogged(i, "memory", status)]
       PROVE  ItemLogs'
  <2>1. Len(logs) = 1 /\ logs[1].tool = "related" /\ ~Failed(logs[1]) /\ logs[1].item = i
    BY <1>5, <1>11
  <2>2. /\ Len(item'[i].logs) = 2 /\ DOMAIN item'[i].logs = 1..2
        /\ item'[i].logs[1] = logs[1] /\ item'[i].logs[2] = log("memory", status)
    BY <1>6, <1>11, <2>1
  <2>3. Shape(item'[i], i)
    <3>1. item'[i].pc = "done" \/ (item'[i].pc = "built" /\ status = "success")
      BY <1>11
    <3>2. QED BY <2>1, <2>2, <3>1 DEF Failed
  <2> HIDE DEF Shape
  <2>4. QED BY <1>2, <1>4, <2>3
<1>12. QED
  <2>1. ASSUME NEW status, item[i].pc \in {"memory", "remembering"},
               item'[i] = [pc |-> "done", related |-> item[i].related,
                           logs |-> CallLogged(i, "memory", status)]
        PROVE  ItemLogs'
    BY <1>11, <2>1
  <2>2. ASSUME item[i].pc = "remembering",
               item'[i] = [pc |-> "built", related |-> item[i].related,
                           logs |-> CallLogged(i, "memory", "success")]
        PROVE  ItemLogs'
    BY <1>11, <2>2
  <2>3. ASSUME item[i].pc = "related",
               item'[i] = [pc |-> "memory", related |-> thread[<<run, i>>].related,
                           logs |-> CallLogged(i, "related", "success")]
        PROVE  ItemLogs'
    BY <1>8, <2>3
  <2>4. ASSUME NEW status, item[i].pc = "related",
               item'[i] = [pc |-> "done", related |-> item[i].related,
                           logs |-> CallLogged(i, "related", status)]
        PROVE  ItemLogs'
    BY <1>9, <2>4
  <2> HIDE DEF ItemLogs
  <2>5. CASE /\ item[i].pc = "memory" /\ ~cancelled
             /\ item'[i] = [pc |-> "remembering", related |-> item[i].related, logs |-> item[i].logs]
    BY <1>10, <2>5
  <2>6. CASE /\ item[i].pc = "related"
             /\ \E status \in {"failed", "cancelled", "timeout"} :
                   item'[i] = [pc |-> "done", related |-> item[i].related,
                               logs |-> CallLogged(i, "related", status)]
    BY <2>4, <2>6
  <2>7. CASE /\ item[i].pc \in {"memory", "remembering"}
             /\ \E status \in {"success", "failed", "cancelled", "timeout"} :
                   item'[i] = [pc |-> "done", related |-> item[i].related,
                               logs |-> CallLogged(i, "memory", status)]
    BY <2>1, <2>7
  <2>8. CASE /\ item[i].pc = "related" /\ thread[<<run, i>>].pc = "done" /\ ~cancelled
             /\ item'[i] = [pc |-> "memory", related |-> thread[<<run, i>>].related,
                            logs |-> CallLogged(i, "related", "success")]
    BY <2>3, <2>8
  <2>9. QED BY <1>7, <2>2, <2>5, <2>6, <2>7, <2>8, WorkerStep

LEMMA BatchIs ==
    ASSUME node \in NodeType
    PROVE  /\ Batch = {i \in Items : node.batch <= i /\ i < node.batch + Width}
           /\ node.batch \in Nat /\ node.next \in Nat /\ Width \in Nat /\ Width >= 1
           /\ Items = 1..Len(WorkItems) /\ Len(WorkItems) \in Nat
BY BoundsType, ItemsAre DEF Batch, NodeType

LEMMA InitItems ==
    ASSUME Init
    PROVE  ItemLogs /\ Position
<1>1. Width >= 1 /\ Len(WorkItems) \in Nat /\ Width \in Nat
  BY BoundsType, ItemsAre
<1>2. \A i \in Items : item[i] = [pc |-> "idle", related |-> <<>>, logs |-> <<>>]
  BY DEF Init, NoItem
<1>3. ItemLogs
  BY <1>2 DEF ItemLogs
<1>4. Position
  BY <1>1, <1>2 DEF Init, Position
<1>5. QED BY <1>3, <1>4

LEMMA ItemsStep ==
    ASSUME TypeOK, Started, ItemLogs, Position, [Next]_vars
    PROVE  ItemLogs' /\ Position'
<1>1. /\ node \in NodeType /\ item \in ItemsType
      /\ stored \in Seq([item : Items, related : Seq(Clauses)])
  BY TypesExpanded DEF RowType
<1>2. /\ node.batch \in Nat /\ node.next \in Nat /\ Width \in Nat /\ Width >= 1
      /\ Items = 1..Len(WorkItems) /\ Len(WorkItems) \in Nat
  BY <1>1, BatchIs
<1>3. ASSUME node' = node, item' = item, stored' = stored
      PROVE  ItemLogs' /\ Position'
  BY <1>3 DEF ItemLogs, Failed, Position, Batch
<1>4. CASE Start
  <2>1. node.pc \in {"idle", "ended"}
    BY <1>4 DEF Start, Position
  <2>2. \A i \in Items : item[i].pc \in {"idle", "built", "done"}
    BY <2>1 DEF Position
  <2>3. /\ node'.pc = "submit" /\ node'.batch = 1 /\ node'.next = 1 /\ node'.end = "none"
        /\ stored' = <<>> /\ item' = item
    BY <1>1, <1>4 DEF Start, NodeType
  <2>4. ItemLogs'
    BY <2>3 DEF ItemLogs, Failed
  <2>5. Position'
    BY <1>2, <2>2, <2>3 DEF Position
  <2>6. QED BY <2>4, <2>5
<1>5. CASE Cancel
  BY <1>3, <1>5 DEF Cancel
<1>6. CASE Submit
  <2>1. /\ node.pc = "submit" /\ node'.pc = "batch" /\ node'.batch = node.batch
        /\ node'.next = node.next /\ node'.end = node.end /\ stored' = stored
    BY <1>1, <1>6 DEF Submit, NodeType, control
  <2>2. \A i \in Items : item'[i] = [pc |-> IF i \in Batch THEN "related" ELSE "idle",
                                     related |-> <<>>, logs |-> <<>>]
    BY <1>6 DEF Submit, NoItem
  <2>3. \A i \in Items : /\ item'[i].pc = (IF i \in Batch THEN "related" ELSE "idle")
                         /\ Len(item'[i].logs) = 0 /\ DOMAIN item'[i].logs = {}
    <3> HIDE DEF Batch
    <3> TAKE i \in Items
    <3>1. item'[i] = [pc |-> IF i \in Batch THEN "related" ELSE "idle", related |-> <<>>, logs |-> <<>>]
      BY <2>2
    <3>2. item'[i].pc = (IF i \in Batch THEN "related" ELSE "idle") /\ item'[i].logs = <<>>
      BY <3>1
    <3>3. QED BY <3>2
  <2>4. Batch' = Batch
    BY <2>1 DEF Batch
  <2>5. ItemLogs'
    <3>1. \A i \in Items : item'[i].pc \in {"idle", "related"}
      BY <2>3
    <3>2. QED BY <2>3, <3>1 DEF ItemLogs
  <2> HIDE DEF Batch
  <2>6. Position'
    BY <2>1, <2>3, <2>4 DEF Position
  <2>7. QED BY <2>5, <2>6
<1>7. CASE Merge
  <2>1. /\ node.pc = "batch" /\ node'.pc = "consume" /\ node'.batch = node.batch
        /\ node'.next = node.next /\ node'.end = node.end /\ stored' = stored /\ item' = item
        /\ \A i \in Batch : Ended(i)
    BY <1>1, <1>7 DEF Merge, NodeType, control
  <2>2. ItemLogs'
    BY <2>1 DEF ItemLogs, Failed
  <2>3. Batch' = Batch
    BY <2>1 DEF Batch
  <2>4. \A i \in Items : item[i].pc \in {"idle", "built", "done"}
    BY <2>1 DEF Position, Ended
  <2> HIDE DEF Batch
  <2>5. Position'
    BY <2>1, <2>3, <2>4 DEF Position
  <2>6. QED BY <2>2, <2>5
<1>8. CASE Consume
  <2>1. node.pc = "consume" /\ item' = item
    BY <1>8 DEF Consume
  <2>2. ItemLogs'
    BY <2>1 DEF ItemLogs, Failed
  <2>3. \A i \in Items : item[i].pc \in {"idle", "built", "done"}
    BY <2>1 DEF Position
  <2>4. ASSUME node'.pc = "ended" /\ node'.end # "none" /\ node'.batch = node.batch,
               node'.next = node.next /\ stored' = stored
        PROVE  Position'
    BY <2>1, <2>3, <2>4 DEF Position
  <2>5. ASSUME node.next \notin Batch /\ node.next <= Len(WorkItems),
               node'.pc = "submit" /\ node'.batch = node.next,
               node'.next = node.next /\ node'.end = node.end /\ stored' = stored
        PROVE  Position'
    BY <1>2, <2>1, <2>3, <2>5 DEF Position
  <2>6. ASSUME node.next \in Batch /\ node'.pc = node.pc /\ node'.batch = node.batch,
               node'.next = node.next + 1 /\ node'.end = node.end,
               stored' = Append(stored, [item |-> node.next, related |-> item[node.next].related])
        PROVE  Position'
    <3>1. node.next < node.batch + Width /\ node.next <= Len(WorkItems) /\ 1 <= node.next
      BY <1>2, <2>6 DEF Batch
    <3>2. /\ Len(stored') = Len(stored) + 1
          /\ \A k \in DOMAIN stored' : stored'[k].item = k
      <4> DEFINE new == [item |-> node.next, related |-> item[node.next].related]
      <4>1. new \in [item : Items, related : Seq(Clauses)]
        BY <1>1, <1>2, <3>1 DEF ItemsType
      <4>2. new.item = Len(stored) + 1 /\ \A k \in DOMAIN stored : stored[k].item = k
        BY <1>1, <1>2 DEF Position
      <4> HIDE DEF new
      <4>3. stored' = Append(stored, new)
        BY <2>6 DEF new
      <4>4. QED BY <1>1, <4>1, <4>2, <4>3
    <3>3. Batch' = Batch
      BY <2>6 DEF Batch
    <3> HIDE DEF Batch
    <3>4. QED BY <1>2, <2>1, <2>3, <2>6, <3>1, <3>2, <3>3 DEF Position
  <2>7. QED
    <3>1. ASSUME NEW status, status # "none", End(status)
          PROVE  /\ node'.pc = "ended" /\ node'.end # "none" /\ node'.batch = node.batch
                 /\ node'.next = node.next
      BY <1>1, <3>1 DEF End, NodeType
    <3>2. \A i : ErrorOf(i) # "none"
      BY DEF ErrorOf
    <3>3. ASSUME node' = [node EXCEPT !.pc = "submit", !.batch = node.next]
          PROVE  /\ node'.pc = "submit" /\ node'.batch = node.next
                 /\ node'.next = node.next /\ node'.end = node.end
      BY <1>1, <3>3 DEF NodeType
    <3>4. ASSUME node' = [node EXCEPT !.next = node.next + 1]
          PROVE  /\ node'.pc = node.pc /\ node'.batch = node.batch
                 /\ node'.next = node.next + 1 /\ node'.end = node.end
      BY <1>1, <3>4 DEF NodeType
    <3> HIDE DEF Batch
    <3>5. \/ (\E status : status # "none" /\ End(status)) /\ stored' = stored
          \/ /\ node.next \notin Batch /\ ~(node.next > Len(WorkItems)) /\ stored' = stored
             /\ node' = [node EXCEPT !.pc = "submit", !.batch = node.next]
          \/ /\ node.next \in Batch
             /\ stored' = Append(stored, [item |-> node.next, related |-> item[node.next].related])
             /\ node' = [node EXCEPT !.next = node.next + 1]
      BY <1>8, <3>2 DEF Consume
    <3>6. QED BY <1>2, <2>2, <2>4, <2>5, <2>6, <3>1, <3>3, <3>4, <3>5
<1>9. CASE \E i \in Items : Worker(i)
  <2>1. PICK i \in Items : Worker(i)
    BY <1>9
  <2>2. /\ item[i].pc \in {"related", "memory", "remembering"}
        /\ \A j \in Items : j # i => item'[j] = item[j]
        /\ item'[i].pc # "idle"
    BY <1>1, <2>1, WorkerStep
  <2>3. run \in 1..MaxRuns /\ node.pc = "batch"
    BY <2>2 DEF Started, Position
  <2>4. node' = node /\ stored' = stored
    BY <2>1, <2>3, WorkerTypes DEF control
  <2>5. Batch' = Batch
    BY <2>4 DEF Batch
  <2>6. Position'
    <3> HIDE DEF Batch
    <3>1. QED BY <2>2, <2>3, <2>4, <2>5 DEF Position
  <2>7. QED BY <1>1, <2>1, <2>6, ItemLogsWorker
<1>10. CASE \E t \in Threads : ToolThread(t)
  BY <1>3, <1>10, ToolTypes DEF control
<1>11. CASE UNCHANGED vars
  BY <1>3, <1>11 DEF vars
<1>12. QED BY <1>4, <1>5, <1>6, <1>7, <1>8, <1>9, <1>10, <1>11 DEF Next, Node

-----------------------------------------------------------------------------
(* The related clauses are those of the clauses themselves.                *)

\* What a retrieval from the clauses themselves chooses for each request.
Right == [request \in Keys |-> Retrieved(request, OwnVectors)]

\* Everything on the way to a context holds what it should: the vectors, what
\* the cache has, what the tool threads return, those given up included, and
\* what the items carry.
Fresh ==
    /\ \A c \in Clauses : index[c] \in {None, c} /\ vectors[c] \in {None, c}
    /\ \A t \in Threads : thread[t].pc \in {"cache", "recall"} => \A c \in Clauses : index[c] # None
    /\ \A request \in DOMAIN results : results[request] = Right[request]
    /\ \A t \in Threads : thread[t].pc = "done" => thread[t].related = Right[WorkItems[t[2]]]
    /\ \A i \in Items : item[i].pc \in {"memory", "remembering", "built"} =>
          item[i].related = Right[WorkItems[i]]
    /\ \A k \in DOMAIN stored : stored[k].related = Right[WorkItems[stored[k].item]]

LEMMA RightStays ==
    ASSUME ranking' = ranking
    PROVE  Right' = Right
<1>1. \A request \in Keys : Retrieved(request, OwnVectors)' = Retrieved(request, OwnVectors)
  BY RetrievedStays
<1>2. QED BY <1>1 DEF Right

LEMMA RankingStays ==
    ASSUME [Next]_vars
    PROVE  ranking' = ranking
BY DEF Next, vars, Start, Cancel, Node, Submit, Merge, Consume, Worker, StartRelated, EndRelated,
       GiveUp, StartMemory, EndMemory, ToolThread, TakeIndexLock, EnsureEmbeddings, ReadCache,
       Retrieve, control

LEMMA InitFresh ==
    ASSUME Init
    PROVE  Fresh
<1>1. /\ index = [c \in Clauses |-> None] /\ vectors = [c \in Clauses |-> None]
      /\ results = <<>> /\ stored = <<>>
      /\ \A t \in Threads : thread[t].pc = "none"
      /\ \A i \in Items : item[i].pc = "idle"
  BY DEF Init, NoItem
<1>2. QED BY <1>1 DEF Fresh

\* An item carries what its tool returned, and nothing else.
LEMMA WorkerCarries ==
    ASSUME item \in ItemsType, NEW i \in Items, Worker(i),
           item'[i].pc \in {"memory", "remembering", "built"}
    PROVE  \/ item[i].pc \in {"memory", "remembering"} /\ item'[i].related = item[i].related
           \/ thread[<<run, i>>].pc = "done" /\ item'[i].related = thread[<<run, i>>].related
<1>1. /\ DOMAIN item = Items
      /\ item[i] = [pc |-> item[i].pc, related |-> item[i].related, logs |-> item[i].logs]
  BY DEF ItemsType
<1>2. ASSUME NEW pc, NEW tool, NEW status, NEW chosen, Call(i, pc, tool, status, chosen)
      PROVE  item'[i].pc = pc /\ item'[i].related = chosen
  BY <1>1, <1>2 DEF Call
<1>3. ASSUME NEW tool, NEW status
      PROVE  ~Failing(i, tool, status)
  <2>1. Failing(i, tool, status) => item'[i].pc = "done"
    BY <1>2 DEF Failing
  <2>2. QED BY <2>1
<1>4. CASE StartRelated(i)
  BY <1>3, <1>4 DEF StartRelated
<1>5. CASE EndRelated(i)
  BY <1>2, <1>3, <1>5 DEF EndRelated
<1>6. CASE GiveUp(i)
  BY <1>3, <1>6 DEF GiveUp
<1>7. CASE StartMemory(i)
  <2>1. item[i].pc = "memory" /\ item' = [item EXCEPT ![i].pc = "remembering"]
    BY <1>3, <1>7 DEF StartMemory
  <2>2. item'[i].related = item[i].related
    BY <1>1, <2>1
  <2>3. QED BY <2>1, <2>2
<1>8. CASE EndMemory(i)
  BY <1>2, <1>3, <1>8 DEF EndMemory
<1>9. QED BY <1>4, <1>5, <1>6, <1>7, <1>8 DEF Worker

\* A context is built of what may be adopted.
LEMMA WorkerBuilds ==
    ASSUME item \in ItemsType, NEW i \in Items, Worker(i), cancelled
    PROVE  item'[i].pc # "built"
<1>1. DOMAIN item = Items
  BY DEF ItemsType
<1>2. ASSUME NEW pc, NEW tool, NEW status, NEW chosen, Call(i, pc, tool, status, chosen)
      PROVE  item'[i].pc = pc
  BY <1>1, <1>2 DEF Call
<1>3. ASSUME NEW tool, NEW status, Failing(i, tool, status)
      PROVE  item'[i].pc = "done"
  BY <1>2, <1>3 DEF Failing
<1>4. CASE StartRelated(i)
  BY <1>3, <1>4 DEF StartRelated
<1>5. CASE EndRelated(i)
  BY <1>3, <1>5 DEF EndRelated, MayAdopt
<1>6. CASE GiveUp(i)
  BY <1>3, <1>6 DEF GiveUp
<1>7. CASE StartMemory(i)
  BY <1>3, <1>7 DEF StartMemory
<1>8. CASE EndMemory(i)
  BY <1>3, <1>8 DEF EndMemory, MayAdopt
<1>9. QED BY <1>4, <1>5, <1>6, <1>7, <1>8 DEF Worker

LEMMA FreshWorker ==
    ASSUME TypeOK, run \in 1..MaxRuns, Fresh, NEW i \in Items, Worker(i), Right' = Right
    PROVE  Fresh'
<1>1. item \in ItemsType /\ thread \in ThreadsType
  BY TypesExpanded
<1>2. UNCHANGED <<stored, index, vectors, results>>
  BY WorkerTypes DEF control, shared
<1>3. <<run, i>> \in Threads /\ <<run, i>>[2] = i
  BY DEF Threads
<1>4. \A t \in Threads :
         \/ thread'[t] = thread[t]
         \/ thread'[t].pc \in {"lock", "taken"}
  <2>1. \/ thread' = thread
        \/ thread' = [thread EXCEPT ![<<run, i>>].pc = "lock"]
        \/ thread' = [thread EXCEPT ![<<run, i>>] = [pc |-> "taken", related |-> <<>>]]
    BY DEF Worker, StartRelated, EndRelated, GiveUp, StartMemory, EndMemory
  <2>2. CASE thread' = thread
    BY <2>2
  <2>3. CASE thread' = [thread EXCEPT ![<<run, i>>].pc = "lock"]
    BY <1>1, <1>3, <2>3 DEF ThreadsType
  <2>4. CASE thread' = [thread EXCEPT ![<<run, i>>] = [pc |-> "taken", related |-> <<>>]]
    <3> DEFINE taken == [pc |-> "taken", related |-> <<>>]
    <3>1. taken.pc = "taken"
      OBVIOUS
    <3> HIDE DEF taken
    <3>2. QED BY <1>1, <1>3, <2>4, <3>1 DEF ThreadsType, taken
  <2>5. QED BY <2>1, <2>2, <2>3, <2>4
<1>5. item'[i].pc \in {"memory", "remembering", "built"} => item'[i].related = Right[WorkItems[i]]
  <2>1. item[i].pc \in {"memory", "remembering", "built"} => item[i].related = Right[WorkItems[i]]
    BY DEF Fresh
  <2>2. thread[<<run, i>>].pc = "done" => thread[<<run, i>>].related = Right[WorkItems[i]]
    BY <1>3 DEF Fresh
  <2> HIDE DEF Fresh
  <2>3. QED BY <1>1, <2>1, <2>2, WorkerCarries
<1>6. \A j \in Items : item'[j].pc \in {"memory", "remembering", "built"} =>
          item'[j].related = Right[WorkItems[j]]
  <2>1. \A j \in Items : j # i => item'[j] = item[j]
    BY <1>1, WorkerStep
  <2>2. QED BY <1>5, <2>1 DEF Fresh
<1>7. QED BY <1>2, <1>4, <1>6 DEF Fresh

\* A tool's step is of its own thread.
LEMMA ToolStep ==
    ASSUME thread \in ThreadsType, NEW t \in Threads, ToolThread(t)
    PROVE  \A u \in Threads : u # t => thread'[u] = thread[u]
BY DEF ToolThread, TakeIndexLock, EnsureEmbeddings, ReadCache, Retrieve, Goes, ThreadsType

LEMMA FreshTool ==
    ASSUME TypeOK, Fresh, NEW t \in Threads, ToolThread(t), Right' = Right
    PROVE  Fresh'
<1>1. /\ thread \in ThreadsType /\ index \in Vectors /\ vectors \in Vectors
      /\ DOMAIN results \subseteq Keys
  BY TypesExpanded DEF ResultsType
<1>2. UNCHANGED <<stored, item>>
  BY ToolTypes DEF control
<1>3. WorkItems[t[2]] \in Keys
  BY ItemsAre
<1>4. \A u \in Threads : u # t => thread'[u] = thread[u]
  BY <1>1, ToolStep
<1>5. CASE TakeIndexLock(t)
  <2>1. thread'[t].pc = "index" /\ UNCHANGED <<index, vectors, results>>
    BY <1>1, <1>5 DEF TakeIndexLock, Goes, ThreadsType, shared
  <2>2. QED BY <1>2, <1>4, <2>1 DEF Fresh
<1>6. CASE EnsureEmbeddings(t)
  <2>1. /\ \A c \in Clauses : vectors'[c] \in {vectors[c], c}
        /\ \A c \in Clauses : \/ index'[c] = index[c]
                              \/ index[c] = None /\ index'[c] \in {vectors[c], c} \ {None}
        /\ \/ /\ thread' = [thread EXCEPT ![t].pc = "cache"]
              /\ \A c \in Clauses : index'[c] # None
           \/ thread' = [thread EXCEPT ![t].pc = "failed"] /\ index' = index
    BY <1>1, <1>6, EmbeddingsOf
  <2>2. results' = results
    BY <1>6 DEF EnsureEmbeddings
  <2>3. \A c \in Clauses : index'[c] \in {None, c} /\ vectors'[c] \in {None, c}
    BY <2>1 DEF Fresh
  <2>4. /\ thread'[t].pc \in {"cache", "failed"}
        /\ thread'[t].pc = "cache" => \A c \in Clauses : index'[c] # None
    BY <1>1, <2>1 DEF ThreadsType
  <2>5. \A u \in Threads : thread'[u].pc \in {"cache", "recall"} => \A c \in Clauses : index'[c] # None
    BY <1>4, <2>1, <2>4 DEF Fresh
  <2>6. QED BY <1>2, <1>4, <2>2, <2>3, <2>4, <2>5 DEF Fresh
<1>7. CASE ReadCache(t)
  <2>1. thread[t].pc = "cache" /\ UNCHANGED <<index, vectors, results>>
    BY <1>7 DEF ReadCache, shared
  <2>2. \/ thread'[t].pc = "done" /\ thread'[t].related = Right[WorkItems[t[2]]]
        \/ thread'[t].pc = "recall"
    <3>1. CASE /\ CacheKey(t) \in DOMAIN results
               /\ thread' = [thread EXCEPT ![t] = [pc |-> "done", related |-> results[CacheKey(t)]]]
      BY <1>1, <3>1 DEF Fresh, ThreadsType, CacheKey, Item
    <3>2. CASE Goes(t, "recall")
      BY <1>1, <3>2 DEF Goes, ThreadsType
    <3>3. QED BY <1>7, <3>1, <3>2 DEF ReadCache
  <2>3. \A c \in Clauses : index[c] # None
    BY <2>1 DEF Fresh
  <2>4. QED BY <1>2, <1>4, <2>1, <2>2, <2>3 DEF Fresh
<1>8. CASE Retrieve(t)
  <2>1. index = OwnVectors
    <3>1. \A c \in Clauses : index[c] # None /\ index[c] \in {None, c}
      BY <1>8 DEF Fresh, Retrieve
    <3>2. QED BY <1>1, <3>1 DEF OwnVectors, Vectors
  <2>2. Retrieved(WorkItems[t[2]], index) = Right[WorkItems[t[2]]]
    BY <1>3, <2>1 DEF Right
  <2>3. /\ \/ Goes(t, "failed")
           \/ thread' = [thread EXCEPT ![t] = [pc |-> "done", related |-> Right[WorkItems[t[2]]]]]
        /\ results' = results \/ results' = Put(results, WorkItems[t[2]], Right[WorkItems[t[2]]])
        /\ UNCHANGED <<index, vectors>>
    BY <1>8, <2>2 DEF Retrieve, Item, CacheKey
  <2>4. \/ thread'[t].pc = "failed"
        \/ thread'[t].pc = "done" /\ thread'[t].related = Right[WorkItems[t[2]]]
    BY <1>1, <2>3 DEF Goes, ThreadsType
  <2>5. \A request \in DOMAIN results' : results'[request] = Right[request]
    BY <2>3 DEF Fresh, Put
  <2>6. QED BY <1>2, <1>4, <2>3, <2>4, <2>5 DEF Fresh
<1>9. QED BY <1>5, <1>6, <1>7, <1>8 DEF ToolThread

LEMMA FreshStep ==
    ASSUME TypeOK, Started, Position, Fresh, [Next]_vars
    PROVE  Fresh'
<1>1. Right' = Right
  BY RankingStays, RightStays
<1>2. /\ node \in NodeType /\ item \in ItemsType
      /\ stored \in Seq([item : Items, related : Seq(Clauses)])
  BY TypesExpanded DEF RowType
<1>3. ASSUME UNCHANGED <<stored, item, thread, index, vectors, results>>
      PROVE  Fresh'
  BY <1>1, <1>3 DEF Fresh
<1>4. CASE Start
  <2>1. stored' = <<>> /\ UNCHANGED <<item, thread, index, vectors, results>>
    BY <1>4 DEF Start, shared
  <2>2. QED BY <1>1, <2>1 DEF Fresh
<1>5. CASE Cancel \/ Merge \/ UNCHANGED vars
  BY <1>3, <1>5 DEF Cancel, Merge, vars, shared, control
<1>6. CASE Submit
  <2>1. UNCHANGED <<stored, thread, index, vectors, results>>
    BY <1>6 DEF Submit, shared, control
  <2>2. \A i \in Items : item'[i].pc \in {"idle", "related"}
    BY <1>6 DEF Submit, NoItem
  <2>3. QED BY <1>1, <2>1, <2>2 DEF Fresh
<1>7. CASE Consume
  <2>1. UNCHANGED <<item, thread, index, vectors, results>>
    BY <1>7 DEF Consume, shared
  <2>2. CASE stored' = stored
    BY <1>3, <2>1, <2>2
  <2>3. CASE /\ node.next \in Batch /\ item[node.next].pc # "done"
             /\ stored' = Append(stored, [item |-> node.next, related |-> item[node.next].related])
    <3> DEFINE i == node.next
               new == [item |-> i, related |-> item[i].related]
    <3>1. i \in Items /\ item[i].pc = "built"
      BY <1>7, <2>3 DEF Consume, Batch, Position
    <3>2. new \in [item : Items, related : Seq(Clauses)]
      BY <1>2, <3>1 DEF ItemsType
    <3>3. new.related = Right[WorkItems[new.item]]
      BY <3>1 DEF Fresh
    <3> HIDE DEF new
    <3>4. stored' = Append(stored, new)
      BY <2>3 DEF new
    <3>5. \A k \in DOMAIN stored' : stored'[k] = new \/ (k \in DOMAIN stored /\ stored'[k] = stored[k])
      BY <1>2, <3>2, <3>4
    <3>6. \A k \in DOMAIN stored' : stored'[k].related = Right[WorkItems[stored'[k].item]]
      BY <3>3, <3>5 DEF Fresh
    <3>7. QED BY <1>1, <2>1, <3>6 DEF Fresh
  <2>4. QED
    <3> HIDE DEF Batch
    <3>1. QED BY <1>7, <2>2, <2>3 DEF Consume
<1>8. CASE \E i \in Items : Worker(i)
  <2>1. PICK i \in Items : Worker(i)
    BY <1>8
  <2>2. item[i].pc # "idle"
    BY <1>2, <2>1, WorkerStep
  <2>3. run \in 1..MaxRuns
    BY <2>2 DEF Started
  <2>4. QED BY <1>1, <2>1, <2>3, FreshWorker
<1>9. CASE \E t \in Threads : ToolThread(t)
  BY <1>1, <1>9, FreshTool
<1>10. QED BY <1>4, <1>5, <1>6, <1>7, <1>8, <1>9 DEF Next, Node

PhaseInv == TypeOK /\ Started /\ ItemLogs /\ Position

LEMMA PhaseInvariant == Spec => []PhaseInv
<1>1. Init => PhaseInv
  <2>1. Init => Started
    BY DEF Init, Started, NoItem
  <2>2. QED BY <2>1, InitTypes, InitItems DEF PhaseInv
<1>2. PhaseInv /\ [Next]_vars => PhaseInv'
  BY TypesStep, ItemsStep DEF PhaseInv
<1>3. QED BY <1>1, <1>2, PTL DEF Spec

LEMMA FreshInvariant == Spec => []Fresh
<1>1. Init => Fresh
  BY InitFresh
<1>2. PhaseInv /\ Fresh /\ [Next]_vars => Fresh'
  BY FreshStep DEF PhaseInv
<1>3. QED BY <1>1, <1>2, PhaseInvariant, PTL DEF Spec

\* The related clauses of a stored context are those a retrieval from the
\* clauses themselves chooses, with any number of clauses, items, runs, faults
\* and calls given up, whatever a query recalls and however it scores.
THEOREM RelatedStaysFresh == Spec => []RelatedIsFresh
<1>1. PhaseInv /\ Fresh => RelatedIsFresh
  <2> SUFFICES ASSUME PhaseInv, Fresh, NEW k \in DOMAIN stored
               PROVE  stored[k].related = Retrieved(WorkItems[stored[k].item], OwnVectors)
    BY DEF RelatedIsFresh
  <2>1. stored[k].item \in Items
    BY StoredType, TypesExpanded DEF PhaseInv
  <2>2. QED BY <2>1, ItemsAre DEF Fresh, Right
<1>2. QED BY <1>1, PhaseInvariant, FreshInvariant, PTL

\* And none of them leaves out a clause that both recalls and the reranker put
\* before a chosen one: the fusion, the limit of the reranker's input and the
\* limit of the answer never part clauses against the judges.
THEOREM NothingBetterIsLeftOut == Spec => []NothingBetterLeftOut
<1>1. PhaseInv /\ RelatedIsFresh => NothingBetterLeftOut
  <2> SUFFICES ASSUME PhaseInv, RelatedIsFresh, NEW k \in DOMAIN stored
               PROVE  LET request == WorkItems[stored[k].item]
                      IN  Undominated(stored[k].related, VectorRecall(request, OwnVectors),
                                      KeywordRecall(request), ranking[request.rule].score)
    BY DEF NothingBetterLeftOut
  <2> DEFINE request == WorkItems[stored[k].item]
  <2>1. stored[k].item \in Items
    BY StoredType, TypesExpanded DEF PhaseInv
  <2>2. ranking \in Rankings /\ request \in [clause : Clauses, rule : Rules]
    BY <2>1, ItemsAre, TypesExpanded DEF PhaseInv
  <2>3. OwnVectors \in [Clauses -> {None} \cup Clauses]
    BY DEF OwnVectors
  <2>4. stored[k].related = Retrieved(request, OwnVectors)
    BY DEF RelatedIsFresh
  <2> HIDE DEF request
  <2>5. Undominated(Retrieved(request, OwnVectors), VectorRecall(request, OwnVectors),
                    KeywordRecall(request), ranking[request.rule].score)
    BY <2>2, <2>3, RetrievedBest
  <2>6. QED BY <2>4, <2>5 DEF request
<1>2. QED BY <1>1, PhaseInvariant, RelatedStaysFresh, PTL

-----------------------------------------------------------------------------
(* The logs of a batch and the first error.                                *)

\* The items whose logs the node has taken over.
Merged ==
    {i \in Items : i < node.batch} \cup (IF node.pc \in {"consume", "ended"} THEN Batch ELSE {})

Order ==
    /\ \A j, k \in DOMAIN node.logs : j < k => Before(node.logs[j], node.logs[k])
    /\ {node.logs[j].item : j \in DOMAIN node.logs} = Merged
    /\ \A j \in DOMAIN node.logs : Failed(node.logs[j]) => node.next <= node.logs[j].item
    /\ node.pc = "consume" =>
        /\ \A i \in Batch : \A k \in DOMAIN item[i].logs : Contains(node.logs, item[i].logs[k])
        /\ \A j \in DOMAIN node.logs : Failed(node.logs[j]) => item[node.logs[j].item].pc = "done"
    /\ node.end = "CONTEXT_BUILT" => node.next = Len(WorkItems) + 1
    /\ node.end = "NODE_TIMEOUT" =>
        \E j \in DOMAIN node.logs : node.logs[j].status = "timeout" /\ node.logs[j].item = node.next

\* What the logs of a batch are when every item of it has ended.
LEMMA BatchLogsInOrder ==
    ASSUME TypeOK, ItemLogs, Position, node.pc = "batch", \A i \in Batch : Ended(i)
    PROVE  /\ BatchLogs \in Seq(Logs)
           /\ \A j, k \in DOMAIN BatchLogs : j < k => Before(BatchLogs[j], BatchLogs[k])
           /\ \A j \in DOMAIN BatchLogs :
                 BatchLogs[j].item \in Batch
                 /\ (Failed(BatchLogs[j]) => item[BatchLogs[j].item].pc = "done")
           /\ \A i \in Batch : \E j \in DOMAIN BatchLogs : BatchLogs[j].item = i
           /\ \A i \in Batch : \A k \in DOMAIN item[i].logs :
                 \E j \in DOMAIN BatchLogs : BatchLogs[j] = item[i].logs[k]
<1> DEFINE merged == BatchLogs
<1>1. /\ merged \in Seq(Logs)
      /\ \A n \in DOMAIN merged :
            \E i \in Batch : \E k \in DOMAIN item[i].logs : merged[n] = item[i].logs[k]
      /\ \A i \in Batch : \A k \in DOMAIN item[i].logs :
            \E n \in DOMAIN merged : merged[n] = item[i].logs[k]
      /\ \A m, n \in DOMAIN merged : m < n =>
            \E i, j \in Batch : \E k \in DOMAIN item[i].logs, l \in DOMAIN item[j].logs :
               /\ merged[m] = item[i].logs[k] /\ merged[n] = item[j].logs[l]
               /\ i < j \/ (i = j /\ k < l)
  <2>1. Batch \subseteq Items
    BY DEF Batch
  <2>2. merged = LogsOf(Batch)
    BY DEF BatchLogs
  <2> HIDE DEF Batch, merged
  <2>3. QED BY <2>1, <2>2, LogsListed
<1>2. Batch \subseteq Items
  BY DEF Batch
<1> HIDE DEF merged
<1>3. \A i \in Batch : /\ item[i].logs \in Seq(Logs) /\ Len(item[i].logs) \in 1..2
                       /\ DOMAIN item[i].logs = 1..Len(item[i].logs)
                       /\ \A k \in DOMAIN item[i].logs : item[i].logs[k].item = i
                       /\ item[i].logs[1].tool = "related"
                       /\ Len(item[i].logs) >= 2 => item[i].logs[2].tool = "memory"
                       /\ \A k \in DOMAIN item[i].logs : Failed(item[i].logs[k]) => item[i].pc = "done"
  <2> TAKE i \in Batch
  <2>1. item[i].logs \in Seq(Logs) /\ i \in Items
    BY <1>2, TypesExpanded DEF ItemsType
  <2>2. DOMAIN item[i].logs = 1..Len(item[i].logs) /\ Len(item[i].logs) \in Nat
    BY <2>1
  <2>3. item[i].pc \in {"built", "done"}
    BY DEF Ended
  <2>4. Len(item[i].logs) \in 1..2
    BY <2>1, <2>2, <2>3 DEF ItemLogs
  <2>5. QED BY <2>1, <2>2, <2>4 DEF ItemLogs
<1>4. ASSUME NEW m \in DOMAIN merged, NEW n \in DOMAIN merged, m < n
      PROVE  Before(merged[m], merged[n])
  <2>1. PICK i \in Batch, j \in Batch :
          \E k \in DOMAIN item[i].logs, l \in DOMAIN item[j].logs :
             /\ merged[m] = item[i].logs[k] /\ merged[n] = item[j].logs[l]
             /\ i < j \/ (i = j /\ k < l)
    BY <1>1, <1>4
  <2>2. PICK k \in DOMAIN item[i].logs, l \in DOMAIN item[j].logs :
          /\ merged[m] = item[i].logs[k] /\ merged[n] = item[j].logs[l]
          /\ i < j \/ (i = j /\ k < l)
    BY <2>1
  <2>3. merged[m].item = i /\ merged[n].item = j
    BY <1>3, <2>2
  <2>4. CASE i < j
    BY <2>3, <2>4 DEF Before
  <2>5. CASE i = j /\ k < l
    <3>1. k = 1 /\ l = 2 /\ Len(item[i].logs) >= 2
      BY <1>3, <2>5
    <3>2. merged[m].tool = "related" /\ merged[n].tool = "memory"
      BY <1>3, <2>2, <2>5, <3>1
    <3>3. QED BY <2>3, <2>5, <3>2 DEF Before
  <2>6. QED BY <2>2, <2>4, <2>5
<1>5. \A n \in DOMAIN merged : merged[n].item \in Batch
                               /\ (Failed(merged[n]) => item[merged[n].item].pc = "done")
  <2> TAKE n \in DOMAIN merged
  <2>1. PICK i \in Batch : \E k \in DOMAIN item[i].logs : merged[n] = item[i].logs[k]
    BY <1>1
  <2>2. QED BY <1>3, <2>1
<1>6. \A i \in Batch : \E n \in DOMAIN merged : merged[n].item = i
  <2> TAKE i \in Batch
  <2>1. 1 \in DOMAIN item[i].logs /\ item[i].logs[1].item = i
    BY <1>3
  <2>2. QED BY <1>1, <2>1
<1>7. QED BY <1>1, <1>4, <1>5, <1>6 DEF merged

LEMMA OrderMerge ==
    ASSUME TypeOK, ItemLogs, Position, Order, Merge
    PROVE  Order'
<1> DEFINE old == node.logs
           new == BatchLogs
           all == node'.logs
<1>1. /\ node \in NodeType /\ old \in Seq(Logs)
  BY TypesExpanded DEF NodeType
<1>2. /\ node.pc = "batch" /\ \A i \in Batch : Ended(i)
      /\ node'.pc = "consume" /\ node'.batch = node.batch /\ node'.next = node.next
      /\ node'.end = node.end /\ all = old \o new /\ item' = item
  BY <1>1 DEF Merge, NodeType
<1>3. /\ new \in Seq(Logs)
      /\ \A j, k \in DOMAIN new : j < k => Before(new[j], new[k])
      /\ \A j \in DOMAIN new : new[j].item \in Batch
                               /\ (Failed(new[j]) => item[new[j].item].pc = "done")
      /\ \A i \in Batch : \E j \in DOMAIN new : new[j].item = i
      /\ \A i \in Batch : \A k \in DOMAIN item[i].logs : \E j \in DOMAIN new : new[j] = item[i].logs[k]
  BY <1>2, BatchLogsInOrder
<1>4. /\ node.next = node.batch /\ node.end = "none"
      /\ Merged = {i \in Items : i < node.batch} /\ Merged' = Merged \cup Batch
      /\ Batch' = Batch
  BY <1>2 DEF Position, Merged, Batch
<1>5. /\ \A i \in Batch : i \in Items /\ i \in Nat /\ node.batch <= i
      /\ node.batch \in Nat
      /\ \A i \in Items : i \in Nat
  BY <1>1, BatchIs
<1>6. /\ \A j, k \in DOMAIN old : j < k => Before(old[j], old[k])
      /\ {old[j].item : j \in DOMAIN old} = Merged
      /\ \A j \in DOMAIN old : Failed(old[j]) => node.next <= old[j].item
  BY DEF Order
<1> HIDE DEF new, old, all, Batch, Merged, Merge, Order, Position, ItemLogs, TypeOK
<1>7. /\ DOMAIN old = 1..Len(old) /\ Len(old) \in Nat
      /\ DOMAIN new = 1..Len(new) /\ Len(new) \in Nat
      /\ all \in Seq(Logs) /\ DOMAIN all = 1..(Len(old) + Len(new))
      /\ \A k \in DOMAIN old : all[k] = old[k]
      /\ \A k \in DOMAIN all : k > Len(old) => all[k] = new[k - Len(old)]
  BY <1>1, <1>2, <1>3
<1>8. \A k \in DOMAIN all : \/ k \in DOMAIN old
                            \/ k > Len(old) /\ k - Len(old) \in DOMAIN new
  BY <1>7
<1>9. \A k \in DOMAIN new : k + Len(old) \in DOMAIN all /\ all[k + Len(old)] = new[k]
  BY <1>7
<1>10. \A j \in DOMAIN old : old[j].item < node.batch /\ old[j].item \in Nat /\ ~Failed(old[j])
  <2>1. \A j \in DOMAIN old : old[j].item \in Merged
    BY <1>6
  <2>2. QED BY <1>4, <1>5, <1>6, <2>1
<1>11. ASSUME NEW j \in DOMAIN all, NEW k \in DOMAIN all, j < k
       PROVE  Before(all[j], all[k])
  <2>1. CASE k \in DOMAIN old
    <3>1. j \in DOMAIN old
      BY <1>7, <1>11, <2>1
    <3>2. QED BY <1>6, <1>7, <1>11, <2>1, <3>1
  <2>2. CASE j \in DOMAIN old /\ k - Len(old) \in DOMAIN new /\ k > Len(old)
    <3>1. all[j].item < node.batch /\ all[j].item \in Nat
      BY <1>7, <1>10, <2>2
    <3>2. all[k].item \in Batch
      BY <1>3, <1>7, <2>2
    <3>3. node.batch <= all[k].item /\ all[k].item \in Nat
      BY <1>5, <3>2
    <3>4. QED BY <1>5, <3>1, <3>3 DEF Before
  <2>3. CASE /\ j - Len(old) \in DOMAIN new /\ j > Len(old)
             /\ k - Len(old) \in DOMAIN new /\ k > Len(old)
    <3>1. j - Len(old) < k - Len(old)
      BY <1>7, <1>11
    <3>2. Before(new[j - Len(old)], new[k - Len(old)])
      BY <1>3, <2>3, <3>1
    <3>3. QED BY <1>7, <2>3, <3>2
  <2>4. j \in DOMAIN old \/ ~(k \in DOMAIN old)
    BY <1>7, <1>11
  <2>5. QED BY <1>8, <2>1, <2>2, <2>3
<1>12. {all[j].item : j \in DOMAIN all} = Merged'
  <2>1. \A j \in DOMAIN all : all[j].item \in Merged \cup Batch
    BY <1>3, <1>6, <1>7, <1>8
  <2>2. \A i \in Merged : \E j \in DOMAIN all : all[j].item = i
    <3> TAKE i \in Merged
    <3>1. PICK j \in DOMAIN old : old[j].item = i
      BY <1>6
    <3>2. QED BY <1>7, <3>1
  <2>3. \A i \in Batch : \E j \in DOMAIN all : all[j].item = i
    BY <1>3, <1>9
  <2>4. QED BY <1>4, <2>1, <2>2, <2>3
<1>13. \A j \in DOMAIN all : Failed(all[j]) => /\ all[j].item \in Batch
                                               /\ item[all[j].item].pc = "done"
  BY <1>3, <1>7, <1>8, <1>10
<1>14. \A j \in DOMAIN all : Failed(all[j]) => node'.next <= all[j].item
  BY <1>2, <1>4, <1>5, <1>13
<1>15. \A i \in Batch : \A k \in DOMAIN item[i].logs : Contains(all, item[i].logs[k])
  <2> TAKE i \in Batch
  <2> TAKE k \in DOMAIN item[i].logs
  <2>1. PICK j \in DOMAIN new : new[j] = item[i].logs[k]
    BY <1>3
  <2>2. j + Len(old) \in DOMAIN all /\ all[j + Len(old)] = item[i].logs[k]
    BY <1>9, <2>1
  <2>3. Contains(all, all[j + Len(old)])
    BY <1>7, <2>2, MemberType
  <2>4. QED BY <2>2, <2>3
<1>16. Order' <=>
         /\ \A j, k \in DOMAIN all : j < k => Before(all[j], all[k])
         /\ {all[j].item : j \in DOMAIN all} = Merged'
         /\ \A j \in DOMAIN all : Failed(all[j]) => node'.next <= all[j].item
         /\ \A i \in Batch' : \A k \in DOMAIN item'[i].logs : Contains(all, item'[i].logs[k])
         /\ \A j \in DOMAIN all : Failed(all[j]) => item'[all[j].item].pc = "done"
  BY <1>2, <1>4 DEF Order, all, Failed, Before, Contains
<1>17. QED BY <1>2, <1>4, <1>11, <1>12, <1>13, <1>14, <1>15, <1>16

LEMMA OrderConsume ==
    ASSUME TypeOK, ItemLogs, Position, Order, Consume
    PROVE  Order'
<1> DEFINE all == node.logs
           next == node.next
<1>1. node \in NodeType /\ item \in ItemsType
  BY TypesExpanded
<1>2. /\ node.pc = "consume" /\ item' = item
  BY DEF Consume
<1>3. /\ \A j, k \in DOMAIN all : j < k => Before(all[j], all[k])
      /\ {all[j].item : j \in DOMAIN all} = {i \in Items : i < node.batch} \cup Batch
      /\ \A j \in DOMAIN all : Failed(all[j]) => next <= all[j].item
      /\ \A i \in Batch : \A k \in DOMAIN item[i].logs : Contains(all, item[i].logs[k])
      /\ \A j \in DOMAIN all : Failed(all[j]) => item[all[j].item].pc = "done"
  BY <1>2 DEF Order, Merged
<1>4. /\ node.batch \in Nat /\ next \in Nat /\ Width \in Nat /\ Width >= 1
      /\ Items = 1..Len(WorkItems) /\ Len(WorkItems) \in Nat
      /\ 1 <= node.batch /\ node.batch <= next /\ next <= node.batch + Width
      /\ next <= Len(WorkItems) + 1
      /\ Batch = {i \in Items : node.batch <= i /\ i < node.batch + Width}
      /\ node.end = "none"
  BY <1>1, <1>2, BatchIs DEF Position
<1>5. \A j \in DOMAIN all : all[j].item \in Nat
  <2>1. \A j \in DOMAIN all : all[j].item \in {i \in Items : i < node.batch} \cup Batch
    BY <1>3
  <2>2. QED BY <1>4, <2>1
\* The phase ends.
<1>6. ASSUME NEW status, status # "none", End(status),
             status = "CONTEXT_BUILT" => next = Len(WorkItems) + 1,
             status = "NODE_TIMEOUT" =>
                \E j \in DOMAIN all : all[j].status = "timeout" /\ all[j].item = next
      PROVE  Order'
  <2>1. /\ node'.pc = "ended" /\ node'.end \in {status, "CANCELLED"} /\ node'.batch = node.batch
        /\ node'.next = next /\ node'.logs = all
    BY <1>1, <1>6 DEF End, NodeType
  <2>2. Merged' = {i \in Items : i < node.batch} \cup Batch
    BY <2>1 DEF Merged, Batch
  <2> HIDE DEF all, next, Merged, Batch, Consume
  <2>3. QED BY <1>3, <1>6, <2>1, <2>2 DEF Order, Failed, Before
\* The next batch follows.
<1>7. ASSUME next \notin Batch, next <= Len(WorkItems),
             node' = [node EXCEPT !.pc = "submit", !.batch = next]
      PROVE  Order'
  <2>1. /\ node'.pc = "submit" /\ node'.end = "none" /\ node'.batch = next
        /\ node'.next = next /\ node'.logs = all
    BY <1>1, <1>4, <1>7 DEF NodeType
  <2>2. Merged' = {i \in Items : i < node.batch} \cup Batch
    <3>1. Merged' = {i \in Items : i < next}
      BY <2>1 DEF Merged
    <3>2. next \in Items /\ next = node.batch + Width
      BY <1>4, <1>7
    <3>3. QED BY <1>4, <3>1, <3>2
  <2> HIDE DEF all, next, Merged, Batch, Consume
  <2>3. QED BY <1>3, <2>1, <2>2 DEF Order, Failed, Before
\* A context is stored.
<1>8. ASSUME next \in Batch, item[next].pc # "done", node' = [node EXCEPT !.next = next + 1]
      PROVE  Order'
  <2>1. /\ node'.pc = "consume" /\ node'.end = "none" /\ node'.batch = node.batch
        /\ node'.next = next + 1 /\ node'.logs = all
    BY <1>1, <1>2, <1>4, <1>8 DEF NodeType
  <2>2. Merged' = {i \in Items : i < node.batch} \cup Batch /\ Batch' = Batch
    BY <2>1 DEF Merged, Batch
  <2>3. \A j \in DOMAIN all : Failed(all[j]) => next + 1 <= all[j].item
    <3> TAKE j \in DOMAIN all
    <3> HAVE Failed(all[j])
    <3>1. next <= all[j].item /\ all[j].item # next
      BY <1>3, <1>8
    <3>2. QED BY <1>4, <1>5, <3>1
  <2> HIDE DEF all, next, Merged, Batch, Consume
  <2>4. QED BY <1>2, <1>3, <2>1, <2>2, <2>3 DEF Order, Failed, Before, Contains
\* What the task is told of an error.
<1>9. ASSUME next \in Batch, ErrorOf(next) = "NODE_TIMEOUT"
      PROVE  \E j \in DOMAIN all : all[j].status = "timeout" /\ all[j].item = next
  <2> DEFINE logs == item[next].logs
  <2>1. next \in Items
    BY <1>9 DEF Batch
  <2>2. logs \in Seq(Logs) /\ Len(logs) \in Nat /\ Len(logs) >= 1
    <3>1. logs \in Seq(Logs) /\ Len(logs) \in Nat
      BY <1>1, <2>1 DEF ItemsType
    <3>2. item[next].pc \in {"built", "done"}
      BY <1>2, <1>9, <2>1 DEF Position
    <3>3. Len(item[next].logs) = 2 \/ Len(item[next].logs) \in 1..2
      <4> HIDE DEF next
      <4>1. QED BY <2>1, <3>2 DEF ItemLogs
    <3>4. QED BY <3>1, <3>3
  <2>3. Last(logs).status = "timeout"
    BY <1>9 DEF ErrorOf
  <2> HIDE DEF logs
  <2>4. Len(logs) \in DOMAIN logs /\ logs[Len(logs)].status = "timeout"
    BY <2>2, <2>3 DEF Last
  <2>5. logs[Len(logs)].item = next /\ Contains(all, logs[Len(logs)])
    BY <1>3, <1>9, <2>1, <2>4 DEF ItemLogs, logs
  <2>6. all \in Seq(Logs)
    BY <1>1 DEF NodeType
  <2>7. \E j \in DOMAIN all : all[j] = logs[Len(logs)]
    BY <2>5, <2>6 DEF Contains
  <2>8. QED BY <2>4, <2>5, <2>7
<1>10. QED
  <2>1. \A i : ErrorOf(i) \in {"CANCELLED", "NODE_TIMEOUT", "RETRIEVAL_FAILED"}
    BY DEF ErrorOf
  <2>2. \/ next \notin Batch /\ next > Len(WorkItems) /\ End("CONTEXT_BUILT")
        \/ next \notin Batch /\ ~(next > Len(WorkItems))
           /\ node' = [node EXCEPT !.pc = "submit", !.batch = next]
        \/ next \in Batch /\ End(ErrorOf(next))
        \/ next \in Batch /\ End("CANCELLED")
        \/ next \in Batch /\ item[next].pc # "done" /\ node' = [node EXCEPT !.next = next + 1]
    <3> HIDE DEF Batch
    <3>1. QED BY DEF Consume
  <2>3. next > Len(WorkItems) => next = Len(WorkItems) + 1
    BY <1>4
  <2>4. ~(next > Len(WorkItems)) => next <= Len(WorkItems)
    BY <1>4
  <2> HIDE DEF all, next, Batch, Order, Consume
  <2>5. CASE next \notin Batch /\ next > Len(WorkItems) /\ End("CONTEXT_BUILT")
    BY <1>6, <2>3, <2>5
  <2>6. CASE next \in Batch /\ End(ErrorOf(next))
    BY <1>6, <1>9, <2>1, <2>6
  <2>7. CASE End("CANCELLED")
    BY <1>6, <2>7
  <2>8. QED BY <1>7, <1>8, <2>2, <2>4, <2>5, <2>6, <2>7

LEMMA OrderStep ==
    ASSUME PhaseInv, Order, [Next]_vars
    PROVE  Order'
<1>1. TypeOK /\ Started /\ ItemLogs /\ Position /\ node \in NodeType /\ item \in ItemsType
  BY TypesExpanded DEF PhaseInv
<1>2. ASSUME node' = node, node.pc # "consume" \/ item' = item
      PROVE  Order'
  BY <1>2 DEF Order, Merged, Batch, Failed, Before, Contains
<1>3. CASE Start
  <2>1. /\ node'.pc = "submit" /\ node'.batch = 1 /\ node'.next = 1 /\ node'.end = "none"
        /\ node'.logs = <<>>
    BY <1>1, <1>3 DEF Start, NodeType
  <2>2. Merged' = {}
    BY <2>1, ItemsAre DEF Merged
  <2>3. QED BY <2>1, <2>2 DEF Order
<1>4. CASE Submit
  <2>1. /\ node.pc = "submit" /\ node'.pc = "batch" /\ node'.batch = node.batch
        /\ node'.next = node.next /\ node'.end = node.end /\ node'.logs = node.logs
    BY <1>1, <1>4 DEF Submit, NodeType
  <2>2. Merged' = Merged
    BY <2>1 DEF Merged
  <2> HIDE DEF Merged
  <2>3. QED BY <2>1, <2>2 DEF Order, Failed, Before
<1>5. CASE Merge
  BY <1>1, <1>5, OrderMerge
<1>6. CASE Consume
  BY <1>1, <1>6, OrderConsume
<1>7. CASE Cancel \/ UNCHANGED vars
  BY <1>2, <1>7 DEF Cancel, vars
<1>8. CASE \E i \in Items : Worker(i)
  <2>1. PICK i \in Items : Worker(i)
    BY <1>8
  <2>2. item[i].pc \in {"related", "memory", "remembering"}
    BY <1>1, <2>1, WorkerStep
  <2>3. run \in 1..MaxRuns /\ node.pc = "batch"
    BY <1>1, <2>2 DEF Started, Position
  <2>4. node' = node
    BY <1>1, <2>1, <2>3, WorkerTypes DEF control
  <2>5. QED BY <1>2, <2>3, <2>4
<1>9. CASE \E t \in Threads : ToolThread(t)
  BY <1>1, <1>2, <1>9, ToolTypes
<1>10. QED BY <1>3, <1>4, <1>5, <1>6, <1>7, <1>8, <1>9 DEF Next, Node

\* README.md item 84, with any number of items, batches, faults and calls given
\* up: the logs are those of all the items begun, one after another; the
\* contexts stored are those before the first error, and all of them when the
\* phase succeeds; a timeout is reported only of the item it befell.
THEOREM FirstErrorReported == Spec => []FirstErrorInOrder
<1>1. Init => Order
  <2> SUFFICES ASSUME Init
               PROVE  Order
    OBVIOUS
  <2>1. /\ node.pc = "idle" /\ node.batch = 1 /\ node.end = "none" /\ node.logs = <<>>
    BY DEF Init
  <2>2. Merged = {}
    BY <2>1, ItemsAre DEF Merged
  <2>3. QED BY <2>1, <2>2 DEF Order
<1>2. PhaseInv /\ Order /\ [Next]_vars => Order'
  BY OrderStep
<1>3. PhaseInv /\ Order => FirstErrorInOrder
  <2> SUFFICES ASSUME PhaseInv, Order, node.pc \in {"consume", "ended"}
               PROVE  FirstErrorInOrder
    BY DEF FirstErrorInOrder
  <2>1. node \in NodeType /\ Position
    BY TypesExpanded DEF PhaseInv
  <2>2. /\ \A j, k \in DOMAIN node.logs : j < k => Before(node.logs[j], node.logs[k])
        /\ {i \in Items : i < node.batch} \cup Batch = {node.logs[j].item : j \in DOMAIN node.logs}
    BY DEF Order, Merged
  <2>3. /\ Len(stored) = node.next - 1 /\ \A k \in DOMAIN stored : stored[k].item = k
        /\ node.next \in Nat /\ Len(WorkItems) \in Nat
    BY <2>1, BatchIs DEF Position
  <2>4. \A j \in DOMAIN node.logs : Failed(node.logs[j]) => Len(stored) < node.logs[j].item
    <3> TAKE j \in DOMAIN node.logs
    <3> HAVE Failed(node.logs[j])
    <3>1. node.next <= node.logs[j].item
      BY DEF Order
    <3>2. node.logs[j].item \in Nat
      <4>1. node.logs[j].item \in {i \in Items : i < node.batch} \cup Batch
        BY <2>2
      <4>2. QED BY <4>1, ItemsAre DEF Batch
    <3>3. QED BY <2>3, <3>1, <3>2
  <2>5. node.end = "CONTEXT_BUILT" => Len(stored) = Len(WorkItems)
    BY <2>3 DEF Order
  <2>6. node.end = "NODE_TIMEOUT" =>
          \E j \in DOMAIN node.logs : node.logs[j].status = "timeout"
                                      /\ node.logs[j].item = Len(stored) + 1
    BY <2>3 DEF Order
  <2> HIDE DEF PhaseInv, Order, Batch
  <2>7. QED BY <2>2, <2>3, <2>4, <2>5, <2>6 DEF FirstErrorInOrder
<1>4. QED BY <1>1, <1>2, <1>3, PhaseInvariant, PTL DEF Spec

-----------------------------------------------------------------------------
(* Cancellation.                                                           *)

\* A cancelled task begins no call, adopts none and stores nothing, whatever
\* the node, the items and the threads given up are doing.
THEOREM CancelledIsDropped == Spec => CancelledCallsDropped
<1> DEFINE Dropped == cancelled =>
        /\ stored' = stored
        /\ \A t \in Threads : thread[t].pc = "none" => thread'[t].pc = "none"
        /\ \A i \in Items : item[i].pc # "built" => item'[i].pc # "built"
<1>1. ASSUME PhaseInv, [Next]_vars
      PROVE  Dropped
  <2> SUFFICES ASSUME cancelled
               PROVE  /\ stored' = stored
                      /\ \A t \in Threads : thread[t].pc = "none" => thread'[t].pc = "none"
                      /\ \A i \in Items : item[i].pc # "built" => item'[i].pc # "built"
    OBVIOUS
  <2>1. TypeOK /\ Started /\ item \in ItemsType /\ thread \in ThreadsType
    BY <1>1, TypesExpanded DEF PhaseInv
  <2>2. ASSUME UNCHANGED <<stored, thread, item>>
        PROVE  /\ stored' = stored
               /\ \A t \in Threads : thread[t].pc = "none" => thread'[t].pc = "none"
               /\ \A i \in Items : item[i].pc # "built" => item'[i].pc # "built"
    BY <2>2
  <2>3. CASE Start \/ Cancel \/ Merge \/ UNCHANGED vars
    BY <2>2, <2>3 DEF Start, Cancel, Merge, vars, control
  <2>4. CASE Submit
    <3>1. stored' = stored /\ thread' = thread
      BY <2>4 DEF Submit, control
    <3>2. \A i \in Items : item'[i].pc \in {"idle", "related"}
      BY <2>4 DEF Submit, NoItem
    <3>3. QED BY <3>1, <3>2
  <2>5. CASE Consume
    <3> HIDE DEF Batch
    <3>1. UNCHANGED <<stored, thread, item>>
      BY <2>5 DEF Consume, Batch
    <3>2. QED BY <2>2, <3>1
  <2>6. CASE \E i \in Items : Worker(i)
    <3>1. PICK i \in Items : Worker(i)
      BY <2>6
    <3>2. item[i].pc # "idle"
      BY <2>1, <3>1, WorkerStep
    <3>3. run \in 1..MaxRuns
      BY <2>1, <3>2 DEF Started
    <3>4. stored' = stored
      BY <2>1, <3>1, <3>3, WorkerTypes DEF control
    <3>5. \A t \in Threads : thread[t].pc = "none" => thread'[t].pc = "none"
      <4>1. <<run, i>> \in Threads
        BY <3>3 DEF Threads
      <4>2. \/ thread' = thread
            \/ /\ thread[<<run, i>>].pc \in {"failed", "done"}
               /\ thread' = [thread EXCEPT ![<<run, i>>] = [pc |-> "taken", related |-> <<>>]]
        BY <3>1 DEF Worker, StartRelated, EndRelated, GiveUp, StartMemory, EndMemory
      <4>3. QED BY <2>1, <4>1, <4>2 DEF ThreadsType
    <3>6. \A j \in Items : item[j].pc # "built" => item'[j].pc # "built"
      <4>1. \A j \in Items : j # i => item'[j] = item[j]
        BY <2>1, <3>1, WorkerStep
      <4>2. item'[i].pc # "built"
        BY <2>1, <3>1, WorkerBuilds
      <4>3. QED BY <4>1, <4>2
    <3>7. QED BY <3>4, <3>5, <3>6
  <2>7. CASE \E t \in Threads : ToolThread(t)
    <3>1. PICK t \in Threads : ToolThread(t)
      BY <2>7
    <3>2. stored' = stored /\ item' = item
      BY <2>1, <3>1, ToolTypes DEF control
    <3>3. thread[t].pc # "none"
      BY <3>1 DEF ToolThread, TakeIndexLock, EnsureEmbeddings, ReadCache, Retrieve
    <3>4. \A u \in Threads : u # t => thread'[u] = thread[u]
      BY <2>1, <3>1, ToolStep
    <3>5. QED BY <3>2, <3>3, <3>4
  <2>8. QED BY <1>1, <2>3, <2>4, <2>5, <2>6, <2>7 DEF Next, Node
<1>2. QED BY <1>1, PhaseInvariant, PTL DEF Spec, CancelledCallsDropped

=============================================================================
