-------------------------- MODULE RiskFanoutProofs --------------------------
(***************************************************************************)
(* The result of the risk phase does not depend on the order in which its  *)
(* branches end, on crashes or on recoveries: proofs of the properties of  *)
(* RiskFanout, for any number of contexts, of slots and of runs.  First    *)
(* what Ordered returns, then what aggregate_risks makes of the branches,  *)
(* then the inductive invariant Inv, action by action.                     *)
(***************************************************************************)
EXTENDS RiskFanout, FiniteSetTheorems, SequenceTheorems, TLAPS

\* A nonempty set of numbers has a least one.
LEMMA LeastOf ==
    ASSUME NEW S \in SUBSET Nat, S # {}
    PROVE  \E x \in S : \A y \in S : x <= y
<1>1. ASSUME NEW x \in Nat, NEW y \in Nat, ~(<<y, x>> \in OpToRel(<, Nat))
      PROVE  x <= y
  BY <1>1 DEF OpToRel
<1>2. \E x \in S : \A y \in S : ~(<<y, x>> \in OpToRel(<, Nat))
  BY NatLessThanWellFounded, WFMin
<1>3. QED BY <1>1, <1>2

\* order lists the members of S, the smaller before the larger.
Lists(order, S) ==
    /\ order \in [1..Cardinality(S) -> S]
    /\ \A j, k \in DOMAIN order : j < k => order[j] < order[k]

\* The members of a set of contexts can be listed.
LEMMA ListExists ==
    ASSUME NEW n \in Nat, NEW S \in SUBSET (1..n)
    PROVE  IsFiniteSet(S) /\ \E order : Lists(order, S)
<1> DEFINE Unlisted == {m \in Nat : \E T \in SUBSET (1..m) : \A order : ~Lists(order, T)}
<1>1. ASSUME NEW m \in Nat, NEW T \in SUBSET (1..m)
      PROVE  IsFiniteSet(T) /\ Cardinality(T) \in Nat
  <2>1. IsFiniteSet(1..m)
    BY FS_Interval
  <2>2. IsFiniteSet(T)
    BY <2>1, FS_Subset
  <2>3. QED BY <2>2, FS_CardinalityType
<1>2. ASSUME NEW m \in Unlisted, \A l \in Unlisted : m <= l
      PROVE  FALSE
  <2>1. PICK T \in SUBSET (1..m) : \A order : ~Lists(order, T)
    OBVIOUS
  <2>2. CASE m = 0
    <3>1. T = {} /\ Cardinality(T) = 0
      <4>1. T = {}
        BY <2>2
      <4>2. QED BY <4>1, FS_EmptySet
    <3>2. Lists(<<>>, T)
      BY <3>1 DEF Lists
    <3>3. QED BY <2>1, <3>2
  <2>3. CASE m # 0
    <3> DEFINE U == T \ {m}
    <3>1. m - 1 \in Nat /\ U \in SUBSET (1..(m - 1))
      BY <2>3
    <3>2. m - 1 \notin Unlisted
      BY <1>2, <3>1
    <3>3. PICK order : Lists(order, U)
      BY <3>1, <3>2
    <3>4. CASE m \notin T
      BY <2>1, <3>3, <3>4, U = T
    <3>5. CASE m \in T
      <4> DEFINE c == Cardinality(U)
                 longer == [k \in 1..(c + 1) |-> IF k = c + 1 THEN m ELSE order[k]]
      <4>1. c \in Nat /\ Cardinality(T) = c + 1
        <5>1. Cardinality(T) \in Nat /\ c \in Nat /\ IsFiniteSet(T)
          BY <1>1, <3>1
        <5>2. c = Cardinality(T) - 1
          BY <3>5, <5>1, FS_RemoveElement
        <5>3. QED BY <5>1, <5>2
      <4>2. \A k \in 1..c : order[k] \in U /\ order[k] \in 1..(m - 1)
        BY <3>1, <3>3, <4>1 DEF Lists
      <4>3. longer \in [1..Cardinality(T) -> T]
        <5>1. \A k \in 1..(c + 1) : longer[k] \in T
          BY <3>5, <4>1, <4>2
        <5>2. QED BY <4>1, <5>1
      <4>4. ASSUME NEW j \in 1..(c + 1), NEW k \in 1..(c + 1), j < k
            PROVE  longer[j] < longer[k]
        <5>1. j \in 1..c /\ longer[j] = order[j]
          BY <4>1, <4>4
        <5>2. CASE k = c + 1
          BY <4>2, <5>1, <5>2
        <5>3. CASE k # c + 1
          <6>1. k \in 1..c /\ longer[k] = order[k]
            BY <4>1, <5>3
          <6>2. order[j] < order[k]
            BY <3>3, <4>1, <4>4, <5>1, <6>1 DEF Lists
          <6>3. QED BY <5>1, <6>1, <6>2
        <5>4. QED BY <5>2, <5>3
      <4>5. Lists(longer, T)
        BY <4>1, <4>3, <4>4 DEF Lists
      <4>6. QED BY <2>1, <4>5
    <3>6. QED BY <3>4, <3>5
  <2>4. QED BY <2>2, <2>3
<1>3. Unlisted = {}
  BY <1>2, LeastOf
<1>4. QED BY <1>1, <1>3

\* What Ordered returns.
LEMMA OrderedLists ==
    ASSUME NEW S \in SUBSET Contexts
    PROVE  /\ Ordered(S) \in Seq(S)
           /\ \A k \in DOMAIN Ordered(S) : Ordered(S)[k] \in S
           /\ \A j, k \in DOMAIN Ordered(S) : j < k => Ordered(S)[j] < Ordered(S)[k]
           /\ {Ordered(S)[k] : k \in DOMAIN Ordered(S)} = S
<1> DEFINE order == Ordered(S)
           n == Cardinality(S)
<1>1. Lists(order, S) /\ n \in Nat /\ IsFiniteSet(S)
  <2>1. IsFiniteSet(S) /\ \E l : Lists(l, S)
    BY ListExists, SizeAssumption DEF Contexts
  <2>2. QED BY <2>1, FS_CardinalityType DEF Lists, Ordered
<1>2. order \in [1..n -> S] /\ DOMAIN order = 1..n
  BY <1>1 DEF Lists
<1>3. order \in Seq(S)
  BY <1>1, <1>2
<1>4. \A j, k \in 1..n : j < k => order[j] < order[k]
  BY <1>1, <1>2 DEF Lists
<1>5. order \in Injection(1..n, S)
  <2>1. ASSUME NEW j \in 1..n, NEW k \in 1..n, j # k
        PROVE  order[j] # order[k]
    <3>1. j < k \/ k < j
      BY <1>1, <2>1
    <3>2. order[j] \in Nat /\ order[k] \in Nat
      <4>1. order[j] \in S /\ order[k] \in S
        BY <1>2, <2>1
      <4>2. S \subseteq Nat
        BY SizeAssumption DEF Contexts
      <4>3. QED BY <4>1, <4>2
    <3>3. QED BY <1>4, <3>1, <3>2
  <2>2. QED BY <1>2, <2>1 DEF Injection, IsInjective
<1>6. order \in Surjection(1..n, S)
  <2>1. Cardinality(1..n) = n
    BY <1>1, FS_Interval
  <2>2. QED BY <1>1, <1>5, <2>1, FS_Injection
<1>7. {order[k] : k \in 1..n} = S
  BY <1>2, <1>6 DEF Surjection
<1>8. QED BY <1>2, <1>3, <1>4, <1>7

-----------------------------------------------------------------------------
(* What aggregate_risks makes of the results of the branches.              *)

Ascending(seq) == \A j, k \in DOMAIN seq : j < k => seq[j].context < seq[k].context

OutcomesOK == outcome \in [Contexts -> BranchOutcomes \cup {NoOutcome}]

RisksIn(seq) == {a.context : a \in {b \in ToSet(seq) : b.verdict = "risk"}}

\* A function on the first numbers is a sequence.
LEMMA FirstNumbers ==
    ASSUME NEW T, NEW n \in Nat, NEW f \in [1..n -> T]
    PROVE  f \in Seq(T)
OBVIOUS

\* The persisted analyses are those of the branches that have one, in the
\* order of the contexts, and their risks are the branches' risks.
LEMMA AnalysesListed ==
    ASSUME OutcomesOK, NEW S \in SUBSET Contexts
    PROVE  /\ AnalysesOf(S) \in Seq(Analyses)
           /\ Ascending(AnalysesOf(S))
           /\ ContextsIn(AnalysesOf(S)) = {i \in S : outcome[i].verdict # "none"}
           /\ RisksIn(AnalysesOf(S)) = {i \in S : outcome[i].verdict = "risk"}
<1> DEFINE A == {i \in S : outcome[i].verdict # "none"}
           order == Ordered(A)
           seq == AnalysesOf(S)
<1>1. /\ order \in Seq(A)
      /\ \A k \in DOMAIN order : order[k] \in A
      /\ \A j, k \in DOMAIN order : j < k => order[j] < order[k]
      /\ {order[k] : k \in DOMAIN order} = A
  BY OrderedLists
<1>2. seq = [k \in DOMAIN order |-> [context |-> order[k], verdict |-> outcome[order[k]].verdict]]
  BY DEF AnalysesOf
<1>3. \A i \in A : i \in Contexts /\ outcome[i].verdict \in Verdicts
  BY DEF OutcomesOK, BranchOutcomes, Outcomes, AnyOutcome, NoOutcome, Verdicts
<1> HIDE DEF A, order, seq
<1>4. DOMAIN seq = DOMAIN order /\ DOMAIN order = 1..Len(order) /\ Len(order) \in Nat
  BY <1>1, <1>2
<1>5. \A k \in DOMAIN order : /\ seq[k] \in Analyses
                              /\ seq[k].context = order[k]
                              /\ seq[k].verdict = outcome[order[k]].verdict
  BY <1>1, <1>2, <1>3 DEF Analyses
<1>6. seq \in Seq(Analyses)
  <2>1. seq \in [1..Len(order) -> Analyses]
    BY <1>2, <1>4, <1>5
  <2>2. QED BY <1>4, <2>1, FirstNumbers
<1>7. Ascending(seq)
  BY <1>1, <1>4, <1>5 DEF Ascending
<1>8. ContextsIn(seq) = A
  BY <1>1, <1>4, <1>5 DEF ContextsIn
<1>9. RisksIn(seq) = {i \in S : outcome[i].verdict = "risk"}
  <2>1. ToSet(seq) = {seq[k] : k \in DOMAIN seq}
    BY DEF ToSet
  <2>2. \A i : i \in A /\ outcome[i].verdict = "risk" <=> i \in S /\ outcome[i].verdict = "risk"
    BY DEF A
  <2>3. ASSUME NEW i \in RisksIn(seq) PROVE i \in A /\ outcome[i].verdict = "risk"
    BY <1>1, <1>4, <1>5, <2>1 DEF RisksIn
  <2>4. ASSUME NEW i \in A, outcome[i].verdict = "risk" PROVE i \in RisksIn(seq)
    <3>1. PICK k \in DOMAIN seq : order[k] = i
      BY <1>1, <1>4
    <3>2. seq[k] \in ToSet(seq) /\ seq[k].verdict = "risk" /\ seq[k].context = i
      BY <1>4, <1>5, <2>1, <2>4, <3>1
    <3>3. QED BY <3>2 DEF RisksIn
  <2>5. QED BY <2>2, <2>3, <2>4
<1>10. QED BY <1>6, <1>7, <1>8, <1>9 DEF A, seq

\* The reported findings are the branches' risks, in the order of the contexts.
LEMMA FindingsListed ==
    ASSUME OutcomesOK, NEW S \in SUBSET Contexts
    PROVE  /\ FindingsOf(S) \in Seq([context : Contexts, manual : BOOLEAN])
           /\ Ascending(FindingsOf(S))
           /\ ContextsIn(FindingsOf(S)) = {i \in S : outcome[i].verdict = "risk"}
           /\ \A f \in ToSet(FindingsOf(S)) : \E i \in S :
                 outcome[i].verdict = "risk" /\ f.manual = (outcome[i].finding # "formal")
<1> DEFINE A == {i \in S : outcome[i].verdict = "risk"}
           order == Ordered(A)
           seq == FindingsOf(S)
<1>1. /\ order \in Seq(A)
      /\ \A k \in DOMAIN order : order[k] \in A
      /\ \A j, k \in DOMAIN order : j < k => order[j] < order[k]
      /\ {order[k] : k \in DOMAIN order} = A
  BY OrderedLists
<1>2. seq = [k \in DOMAIN order |-> [context |-> order[k],
                                     manual  |-> outcome[order[k]].finding # "formal"]]
  BY DEF FindingsOf
<1>3. \A i \in A : i \in Contexts /\ i \in S /\ outcome[i].verdict = "risk"
  OBVIOUS
<1> HIDE DEF A, order, seq
<1>4. DOMAIN seq = DOMAIN order /\ DOMAIN order = 1..Len(order) /\ Len(order) \in Nat
  BY <1>1, <1>2
<1>5. \A k \in DOMAIN order : /\ seq[k] \in [context : Contexts, manual : BOOLEAN]
                              /\ seq[k].context = order[k]
                              /\ seq[k].manual = (outcome[order[k]].finding # "formal")
  BY <1>1, <1>2, <1>3
<1>6. seq \in Seq([context : Contexts, manual : BOOLEAN])
  <2>1. seq \in [1..Len(order) -> [context : Contexts, manual : BOOLEAN]]
    BY <1>2, <1>4, <1>5
  <2>2. QED BY <1>4, <2>1, FirstNumbers
<1>7. Ascending(seq)
  BY <1>1, <1>4, <1>5 DEF Ascending
<1>8. ContextsIn(seq) = A
  BY <1>1, <1>4, <1>5 DEF ContextsIn
<1>9. \A f \in ToSet(seq) : \E i \in S :
          outcome[i].verdict = "risk" /\ f.manual = (outcome[i].finding # "formal")
  BY <1>1, <1>3, <1>4, <1>5 DEF ToSet
<1>10. QED BY <1>6, <1>7, <1>8, <1>9 DEF A, seq

-----------------------------------------------------------------------------
(* The inductive invariant.                                                *)

\* A branch that has ended has handed over a result.
BranchesEnd == \A i \in Contexts : branch[i] \in {"ended", "recorded"} => outcome[i] \in BranchOutcomes

\* Between aggregate_risks and the end of the phase the row has the analyses of
\* the branches, none of which ended early.
Concluding ==
    phase = "conclude" =>
        /\ analyses = AnalysesOf(Contexts)
        /\ \A i \in Contexts : outcome[i] \in BranchOutcomes /\ outcome[i].terminal = "NONE"

\* What a review ends in stays, and the run is over.
Ended == status \in {"EVIDENCE_VERIFIED", "HUMAN_REVIEW_PENDING"} => phase = "end"

Inv == /\ TypeOK
       /\ InSourceOrder
       /\ OwnAnalysis
       /\ BranchesEnd
       /\ Concluding
       /\ Ended
       /\ VerifiedIsComplete
       /\ NoCandidateLost

\* Nothing has been recorded or decided yet.
LEMMA InitInv == Init => Inv
<1> SUFFICES ASSUME Init PROVE Inv
  OBVIOUS
<1>1. TypeOK
  BY DEF Init, TypeOK
<1>2. InSourceOrder /\ OwnAnalysis
  BY DEF Init, InSourceOrder, OwnAnalysis
<1>3. BranchesEnd /\ Concluding /\ Ended /\ VerifiedIsComplete /\ NoCandidateLost
  BY DEF Init, BranchesEnd, Concluding, Ended, VerifiedIsComplete, NoCandidateLost
<1>4. QED BY <1>1, <1>2, <1>3 DEF Inv

\* A step that leaves the row and the branches alone and does not conclude.
LEMMA RowUntouched ==
    ASSUME Inv, TypeOK', UNCHANGED <<rowVars, branch, outcome>>,
           phase # "end", phase' # "conclude"
    PROVE  /\ InSourceOrder'
           /\ BranchesEnd'
           /\ Concluding'
           /\ Ended'
           /\ VerifiedIsComplete'
           /\ NoCandidateLost'
<1>1. status \notin {"EVIDENCE_VERIFIED", "HUMAN_REVIEW_PENDING"}
  BY DEF Inv, Ended
<1>2. InSourceOrder' /\ BranchesEnd'
  BY DEF Inv, InSourceOrder, BranchesEnd, rowVars
<1>3. Concluding' /\ Ended' /\ VerifiedIsComplete' /\ NoCandidateLost'
  BY <1>1 DEF Concluding, Ended, VerifiedIsComplete, NoCandidateLost, rowVars
<1>4. QED BY <1>2, <1>3

\* A run enters the phase from the row alone.
LEMMA StartRunInv == Inv /\ StartRun => Inv'
<1> SUFFICES ASSUME Inv, StartRun PROVE Inv'
  OBVIOUS
<1>1. TypeOK' /\ OwnAnalysis'
  BY DEF Inv, TypeOK, OwnAnalysis, StartRun, rowVars
<1>2. QED BY <1>1, RowUntouched DEF Inv, StartRun

\* The k-th analysis of a prefix is that of context k.
LEMMA RestoreInv == Inv /\ Restore => Inv'
<1> SUFFICES ASSUME Inv, Restore PROVE Inv'
  OBVIOUS
<1>1. TypeOK'
  <2>1. \A i \in DOMAIN analyses : analyses[i] \in Analyses
    BY DEF Inv, TypeOK
  <2>2. restored' \in [Contexts -> Analyses \cup {NoAnalysis}]
    BY <2>1 DEF Restore
  <2>3. QED BY <2>2 DEF Inv, TypeOK, Restore, rowVars
<1>2. OwnAnalysis'
  BY DEF OwnAnalysis, Restore, IsContextPrefix
<1>3. QED BY <1>1, <1>2, RowUntouched DEF Inv, Restore

\* A row that is no prefix ends the run and changes nothing but the status.
LEMMA RestoreRefusedInv == Inv /\ RestoreRefused => Inv'
<1> SUFFICES ASSUME Inv, RestoreRefused PROVE Inv'
  OBVIOUS
<1>1. TypeOK'
  BY DEF Inv, TypeOK, RestoreRefused, ToHuman
<1>2. InSourceOrder' /\ OwnAnalysis' /\ BranchesEnd'
  BY DEF Inv, InSourceOrder, OwnAnalysis, BranchesEnd, RestoreRefused
<1>3. Concluding' /\ Ended' /\ VerifiedIsComplete' /\ NoCandidateLost'
  BY DEF Concluding, Ended, VerifiedIsComplete, NoCandidateLost, RestoreRefused
<1>4. QED BY <1>1, <1>2, <1>3 DEF Inv

\* A branch that starts has no result yet.
LEMMA StartBranchInv == ASSUME NEW i \in Contexts PROVE Inv /\ StartBranch(i) => Inv'
<1> SUFFICES ASSUME Inv, StartBranch(i) PROVE Inv'
  OBVIOUS
<1>1. TypeOK' /\ OwnAnalysis'
  BY DEF Inv, TypeOK, OwnAnalysis, StartBranch, rowVars
<1>2. InSourceOrder' /\ BranchesEnd'
  BY DEF Inv, TypeOK, InSourceOrder, BranchesEnd, StartBranch, rowVars
<1>3. Concluding' /\ Ended' /\ VerifiedIsComplete' /\ NoCandidateLost'
  BY DEF Inv, Concluding, Ended, VerifiedIsComplete, NoCandidateLost, StartBranch, rowVars
<1>4. QED BY <1>1, <1>2, <1>3 DEF Inv

\* A branch ends with one result, of the kind finalize_risk hands over.
LEMMA EndBranchInv == ASSUME NEW i \in Contexts PROVE Inv /\ EndBranch(i) => Inv'
<1> SUFFICES ASSUME Inv, EndBranch(i) PROVE Inv'
  OBVIOUS
<1>1. PICK o \in BranchOutcomes : outcome' = [outcome EXCEPT ![i] = o]
  BY DEF EndBranch
<1>2. TypeOK' /\ OwnAnalysis'
  BY <1>1 DEF Inv, TypeOK, OwnAnalysis, EndBranch, rowVars
<1>3. InSourceOrder'
  BY DEF Inv, InSourceOrder, EndBranch, rowVars
<1>4. BranchesEnd'
  BY <1>1 DEF Inv, TypeOK, BranchesEnd, EndBranch
<1>5. Concluding' /\ Ended' /\ VerifiedIsComplete' /\ NoCandidateLost'
  BY DEF Inv, Concluding, Ended, VerifiedIsComplete, NoCandidateLost, EndBranch, rowVars
<1>6. QED BY <1>2, <1>3, <1>4, <1>5 DEF Inv

\* The row gets the analyses up to the first gap, in order.
LEMMA RecordProgressInv == ASSUME NEW i \in Contexts PROVE Inv /\ RecordProgress(i) => Inv'
<1> SUFFICES ASSUME Inv, RecordProgress(i) PROVE Inv'
  OBVIOUS
<1>1. analyses' \in Seq(Analyses) /\ Ascending(analyses')
  <2>1. Contiguous(At("recorded") \cup {i}) \in SUBSET Contexts
    BY DEF Contiguous, At
  <2>2. QED BY <2>1, AnalysesListed DEF RecordProgress, OutcomesOK, Inv, TypeOK
<1>2. TypeOK'
  BY <1>1 DEF Inv, TypeOK, RecordProgress
<1>3. InSourceOrder'
  BY <1>1 DEF Inv, InSourceOrder, Ascending, RecordProgress
<1>4. OwnAnalysis' /\ BranchesEnd'
  BY DEF Inv, TypeOK, OwnAnalysis, BranchesEnd, RecordProgress
<1>5. Concluding' /\ Ended' /\ VerifiedIsComplete' /\ NoCandidateLost'
  BY DEF Inv, Concluding, Ended, VerifiedIsComplete, NoCandidateLost, RecordProgress
<1>6. QED BY <1>2, <1>3, <1>4, <1>5 DEF Inv

\* Once every branch is recorded each has a result.
LEMMA AllHaveEnded ==
    ASSUME Inv, AllRecorded
    PROVE  \A i \in Contexts : outcome[i] \in BranchOutcomes
BY DEF Inv, BranchesEnd, AllRecorded, At

\* The first branch that ended early decides, and a human gets all candidates.
LEMMA AggregateEndsInv == Inv /\ AggregateEnds => Inv'
<1> SUFFICES ASSUME Inv, AggregateEnds PROVE Inv'
  OBVIOUS
<1>1. OutcomesOK /\ outcome' = outcome /\ Contexts \in SUBSET Contexts
  BY DEF OutcomesOK, Inv, TypeOK, AggregateEnds
<1>2. /\ analyses' = AnalysesOf(Contexts)
      /\ analyses' \in Seq(Analyses)
      /\ Ascending(analyses')
      /\ RisksIn(analyses') = {i \in Contexts : outcome[i].verdict = "risk"}
  BY <1>1, AnalysesListed DEF AggregateEnds
<1>3. status' \in Failures \cup ToHuman
  <2>1. Terminated # {} /\ Terminated \in SUBSET Nat
    BY SizeAssumption DEF AggregateEnds, Terminated, Contexts
  <2>2. Min(Terminated) \in Terminated
    BY <2>1, LeastOf DEF Min
  <2>3. status' = outcome[Min(Terminated)].terminal
    BY DEF AggregateEnds
  <2>4. \A i \in Terminated : outcome[i] \in BranchOutcomes /\ outcome[i].terminal # "NONE"
    BY AllHaveEnded DEF AggregateEnds, Terminated
  <2>5. QED BY <2>2, <2>3, <2>4 DEF BranchOutcomes
<1>4. /\ risk_findings' \in Seq([context : Contexts, manual : BOOLEAN])
      /\ Ascending(risk_findings')
      /\ status' = "HUMAN_REVIEW_PENDING" =>
            ContextsIn(risk_findings') = {i \in Contexts : outcome[i].verdict = "risk"}
  <2>1. CASE status' = "HUMAN_REVIEW_PENDING"
    BY <1>1, <2>1, FindingsListed DEF AggregateEnds, Materialized
  <2>2. CASE status' # "HUMAN_REVIEW_PENDING"
    BY <2>2 DEF AggregateEnds, Ascending
  <2>3. QED BY <2>1, <2>2
<1>5. TypeOK'
  BY <1>2, <1>3, <1>4 DEF Inv, TypeOK, AggregateEnds
<1>6. InSourceOrder'
  BY <1>2, <1>4 DEF InSourceOrder, Ascending
<1>7. OwnAnalysis' /\ BranchesEnd'
  BY DEF Inv, OwnAnalysis, BranchesEnd, AggregateEnds
<1>8. Concluding' /\ Ended'
  BY DEF Concluding, Ended, AggregateEnds
<1>9. VerifiedIsComplete'
  BY <1>3, SizeAssumption DEF VerifiedIsComplete, BranchFailures, ToHuman
<1>10. NoCandidateLost'
  BY <1>1, <1>2, <1>4 DEF NoCandidateLost, RisksIn, ContextsIn
<1>11. QED BY <1>5, <1>6, <1>7, <1>8, <1>9, <1>10 DEF Inv

\* No branch ended early: the row has all analyses before the phase concludes.
LEMMA AggregateInv == Inv /\ Aggregate => Inv'
<1> SUFFICES ASSUME Inv, Aggregate PROVE Inv'
  OBVIOUS
<1>1. OutcomesOK /\ outcome' = outcome /\ Contexts \in SUBSET Contexts
  BY DEF OutcomesOK, Inv, TypeOK, Aggregate
<1>2. analyses' = AnalysesOf(Contexts) /\ analyses' \in Seq(Analyses) /\ Ascending(analyses')
  BY <1>1, AnalysesListed DEF Aggregate
<1>3. TypeOK'
  BY <1>2 DEF Inv, TypeOK, Aggregate
<1>4. InSourceOrder'
  BY <1>2 DEF Inv, InSourceOrder, Ascending, Aggregate
<1>5. OwnAnalysis' /\ BranchesEnd'
  BY DEF Inv, OwnAnalysis, BranchesEnd, Aggregate
<1>6. Concluding'
  <2>1. AnalysesOf(Contexts)' = AnalysesOf(Contexts)
    BY <1>1 DEF AnalysesOf
  <2>2. \A i \in Contexts : outcome'[i] \in BranchOutcomes /\ outcome'[i].terminal = "NONE"
    BY <1>1, AllHaveEnded DEF Aggregate, Terminated
  <2>3. QED BY <1>2, <2>1, <2>2 DEF Concluding
<1>7. Ended' /\ VerifiedIsComplete' /\ NoCandidateLost'
  BY DEF Ended, VerifiedIsComplete, NoCandidateLost, Aggregate
<1>8. QED BY <1>3, <1>4, <1>5, <1>6, <1>7 DEF Inv

\* The findings are those of the analyses the row has.
LEMMA ConcludeInv == Inv /\ Conclude => Inv'
<1> SUFFICES ASSUME Inv, Conclude PROVE Inv'
  OBVIOUS
<1>1. /\ OutcomesOK /\ outcome' = outcome /\ Contexts \in SUBSET Contexts
      /\ analyses = AnalysesOf(Contexts) /\ analyses' = analyses
      /\ risk_findings' = FindingsOf(Contexts)
  BY DEF OutcomesOK, Inv, TypeOK, Concluding, Conclude
<1>2. /\ ContextsIn(analyses') = {i \in Contexts : outcome[i].verdict # "none"}
      /\ RisksIn(analyses') = {i \in Contexts : outcome[i].verdict = "risk"}
  BY <1>1, AnalysesListed
<1>3. /\ risk_findings' \in Seq([context : Contexts, manual : BOOLEAN])
      /\ Ascending(risk_findings')
      /\ ContextsIn(risk_findings') = {i \in Contexts : outcome[i].verdict = "risk"}
      /\ \A f \in ToSet(risk_findings') : \E i \in Contexts :
            outcome[i].verdict = "risk" /\ f.manual = (outcome[i].finding # "formal")
  BY <1>1, FindingsListed
<1>4. \A i \in Contexts : outcome[i] \in BranchOutcomes /\ outcome[i].terminal = "NONE"
  BY DEF Inv, Concluding, Conclude
<1>5. TypeOK'
  BY <1>3 DEF Inv, TypeOK, Conclude, ToHuman
<1>6. InSourceOrder'
  BY <1>1, <1>3 DEF Inv, InSourceOrder, Ascending
<1>7. OwnAnalysis' /\ BranchesEnd'
  BY DEF Inv, OwnAnalysis, BranchesEnd, Conclude
<1>8. Concluding' /\ Ended'
  BY DEF Concluding, Ended, Conclude
<1>9. VerifiedIsComplete'
  <2> SUFFICES ASSUME status' = "EVIDENCE_VERIFIED"
               PROVE  /\ ContextsIn(analyses') = Contexts
                      /\ ContextsIn(risk_findings') = RisksIn(analyses')
                      /\ \A f \in ToSet(risk_findings') : ~f.manual
    BY DEF VerifiedIsComplete, RisksIn, ContextsIn
  <2>1. \A i \in Contexts : outcome[i].verdict # "none"
    BY <1>4, SizeAssumption DEF BranchOutcomes, Outcomes, BranchFailures
  <2>2. ASSUME NEW i \in Contexts, outcome[i].verdict = "risk"
        PROVE  outcome[i].finding = "formal"
    <3>1. outcome[i].finding # "manual"
      BY DEF Conclude
    <3>2. outcome[i].finding \in {"none", "formal", "manual"} /\ outcome[i].finding # "none"
      BY <1>4, <2>2 DEF BranchOutcomes, Outcomes, AnyOutcome
    <3>3. QED BY <3>1, <3>2
  <2>3. QED BY <1>2, <1>3, <2>1, <2>2
<1>10. NoCandidateLost'
  BY <1>1, <1>2, <1>3 DEF NoCandidateLost, RisksIn, ContextsIn
<1>11. QED BY <1>5, <1>6, <1>7, <1>8, <1>9, <1>10 DEF Inv

\* A new _ReviewRuntime has no results and no restored analysis.
LEMMA RuntimeGoneTypes ==
    ASSUME RuntimeGone
    PROVE  /\ restored' \in [Contexts -> Analyses \cup {NoAnalysis}]
           /\ branch' \in [Contexts -> {"waiting", "running", "ended", "recorded"}]
           /\ outcome' \in [Contexts -> BranchOutcomes \cup {NoOutcome}]
           /\ branch_results' \in Seq(Contexts)
           /\ OwnAnalysis'
           /\ BranchesEnd'
BY DEF RuntimeGone, OwnAnalysis, BranchesEnd

\* A lost run has not concluded, and the row stays as it is.
LEMMA RunLostInv == Inv /\ RunLost => Inv'
<1> SUFFICES ASSUME Inv, RunLost PROVE Inv'
  OBVIOUS
<1>1. TypeOK' /\ OwnAnalysis' /\ BranchesEnd'
  BY RuntimeGoneTypes DEF Inv, TypeOK, RunLost, rowVars
<1>2. InSourceOrder'
  BY DEF Inv, InSourceOrder, RunLost, rowVars
<1>3. Concluding' /\ Ended' /\ VerifiedIsComplete' /\ NoCandidateLost'
  BY DEF Inv, Concluding, Ended, VerifiedIsComplete, NoCandidateLost, RunLost, rowVars
<1>4. QED BY <1>1, <1>2, <1>3 DEF Inv

\* Only a failed task is recovered, never one that has concluded.
LEMMA RecoverInv == Inv /\ Recover => Inv'
<1> SUFFICES ASSUME Inv, Recover PROVE Inv'
  OBVIOUS
<1>1. TypeOK' /\ OwnAnalysis' /\ BranchesEnd'
  BY RuntimeGoneTypes DEF Inv, TypeOK, Recover
<1>2. InSourceOrder'
  BY DEF Inv, InSourceOrder, Recover
<1>3. Concluding' /\ Ended' /\ VerifiedIsComplete' /\ NoCandidateLost'
  BY DEF Concluding, Ended, VerifiedIsComplete, NoCandidateLost, Recover
<1>4. QED BY <1>1, <1>2, <1>3 DEF Inv

\* Every step keeps the invariant.
LEMMA NextInv == Inv /\ [Next]_vars => Inv'
<1> SUFFICES ASSUME Inv, [Next]_vars PROVE Inv'
  OBVIOUS
<1>1. CASE Run
  BY <1>1, StartRunInv, RestoreInv, RestoreRefusedInv, StartBranchInv, EndBranchInv,
     RecordProgressInv, AggregateEndsInv, AggregateInv, ConcludeInv DEF Run
<1>2. CASE RunLost
  BY <1>2, RunLostInv
<1>3. CASE Recover
  BY <1>3, RecoverInv
<1>4. CASE UNCHANGED vars
  <2>1. AnalysesOf(Contexts)' = AnalysesOf(Contexts)
    BY <1>4 DEF vars, AnalysesOf
  <2>2. TypeOK' /\ InSourceOrder' /\ OwnAnalysis' /\ BranchesEnd' /\ Ended'
    BY <1>4 DEF Inv, vars, rowVars, TypeOK, InSourceOrder, OwnAnalysis, BranchesEnd, Ended
  <2>3. Concluding' /\ VerifiedIsComplete' /\ NoCandidateLost'
    BY <1>4, <2>1 DEF Inv, vars, rowVars, Concluding, VerifiedIsComplete, NoCandidateLost, ContextsIn
  <2>4. QED BY <2>2, <2>3 DEF Inv
<1>5. QED BY <1>1, <1>2, <1>3, <1>4 DEF Next

\* The invariant holds throughout.
LEMMA Invariance == Spec => []Inv
<1>1. QED BY InitInv, NextInv, PTL DEF Spec

-----------------------------------------------------------------------------

\* Every variable has its type; the status is one of this phase.
THEOREM TypesCorrect == Spec => []TypeOK
<1>1. Inv => TypeOK
  BY DEF Inv
<1>2. QED BY <1>1, Invariance, PTL

\* However the branches interleave, what _record_branch_progress and
\* aggregate_risks persist is in the order of the contexts, each once.
THEOREM PersistedInOrder == Spec => []InSourceOrder
<1>1. Inv => InSourceOrder
  BY DEF Inv
<1>2. QED BY <1>1, Invariance, PTL

\* Over crashes and recoveries, _restored_analysis_prefix gives a branch no
\* analysis but its own context's.
THEOREM RestoresOwnAnalysis == Spec => []OwnAnalysis
<1>1. Inv => OwnAnalysis
  BY DEF Inv
<1>2. QED BY <1>1, Invariance, PTL

\* A task that ends as EVIDENCE_VERIFIED has analysed every context and reports
\* every risk found, each checked in full.
THEOREM VerifiedMeansComplete == Spec => []VerifiedIsComplete
<1>1. Inv => VerifiedIsComplete
  BY DEF Inv
<1>2. QED BY <1>1, Invariance, PTL

\* A task that goes to a human lists every risk an analysis found.
THEOREM CandidatesReachTheHuman == Spec => []NoCandidateLost
<1>1. Inv => NoCandidateLost
  BY DEF Inv
<1>2. QED BY <1>1, Invariance, PTL

=============================================================================
