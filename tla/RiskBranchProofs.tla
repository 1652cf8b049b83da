-------------------------- MODULE RiskBranchProofs --------------------------
(***************************************************************************)
(* Machine-checked proofs about RiskBranch, for every retry budget and     *)
(* whether or not branches are interrupted.                                *)
(***************************************************************************)
EXTENDS RiskBranch, TLAPS

-----------------------------------------------------------------------------
(* Facts about the vocabulary.                                             *)

\* Whatever the reason, the planner's whitelist and budget hold.
LEMMA DecisionFacts ==
    ASSUME NEW reason, NEW n \in Nat, NEW d \in Decisions(reason, n)
    PROVE  /\ d \in Actions \cup {"INVALID"}
           /\ d \in Automatic => n < MaxPlannerRetries
<1>1. AllowedActions(reason) \subseteq Actions
  BY DEF AllowedActions, Actions, Automatic
<1>2. QED
  BY <1>1 DEF Decisions, Granted, Actions, Automatic

LEMMA InvalidOutputDecision ==
    ASSUME NEW n \in Nat, NEW d \in Decisions("STRUCTURED_OUTPUT_INVALID", n)
    PROVE  d \in {"REQUEST_HUMAN_REVIEW", "TERMINATE", "INVALID"}
BY DEF Decisions, AllowedActions

LEMMA ToSetAppend ==
    ASSUME NEW S, NEW s \in Seq(S), NEW e
    PROVE  /\ ToSet(Append(s, e)) = ToSet(s) \cup {e}
           /\ e \in ToSet(Append(s, e))
<1>1. /\ DOMAIN Append(s, e) = 1..Len(s) + 1
      /\ DOMAIN s = 1..Len(s)
      /\ Append(s, e)[Len(s) + 1] = e
      /\ \A i \in 1..Len(s) : Append(s, e)[i] = s[i]
      /\ Len(s) \in Nat
  OBVIOUS
<1>2. 1..Len(s) + 1 = 1..Len(s) \cup {Len(s) + 1}
  BY <1>1
<1>3. QED
  BY <1>1, <1>2 DEF ToSet

Contexts == [related : BOOLEAN, planner_retry_count : Nat, planner_trace : Seq(Actions)]

LEMMA TracedFacts ==
    ASSUME NEW ctx \in Contexts, NEW n \in Nat, NEW d \in Actions
    PROVE  /\ Traced(ctx, d, n) \in Contexts
           /\ Traced(ctx, d, n).planner_retry_count >= n
           /\ d \in Automatic => Traced(ctx, d, n).planner_retry_count = n + 1
           /\ Traced(ctx, d, n).planner_trace = Append(ctx.planner_trace, d)
<1>1. ctx.planner_trace \in Seq(Actions)
  BY DEF Contexts
<1>2. Append(ctx.planner_trace, d) \in Seq(Actions)
  BY <1>1
<1> DEFINE t == Append(ctx.planner_trace, d)
             k == IF d \in Automatic THEN n + 1 ELSE n
<1>4. k \in Nat /\ k >= n /\ (d \in Automatic => k = n + 1)
  OBVIOUS
<1>5. Traced(ctx, d, n) = [ctx EXCEPT !.planner_trace = t, !.planner_retry_count = k]
  BY DEF Traced
<1>6. t \in Seq(Actions) /\ t = Append(ctx.planner_trace, d)
  BY <1>2
<1> HIDE DEF t, k
<1>7. /\ Traced(ctx, d, n) \in Contexts
      /\ Traced(ctx, d, n).planner_retry_count = k
      /\ Traced(ctx, d, n).planner_trace = t
  BY <1>4, <1>5, <1>6 DEF Contexts
<1>8. QED
  BY <1>4, <1>6, <1>7

\* A trace of earlier runs is one.
LEMMA EarlierTraceType ==
    ASSUME NEW n, NEW t \in EarlierTraces(n)
    PROVE  t \in Seq(Actions)
<1>1. t \in SeqOf(Actions, MaxEarlier)
  BY DEF EarlierTraces
<1>2. PICK m \in 0..MaxEarlier : t \in [1..m -> Actions]
  BY <1>1 DEF SeqOf
<1>3. m \in Nat
  BY <1>2, BudgetAssumption
<1>4. QED
  BY <1>2, <1>3

\* What every item has in common.
LEMMA ItemFacts ==
    ASSUME NEW i \in Items
    PROVE  /\ i.completed \in BOOLEAN
           /\ i.finding \in Findings({0}) \cup {NoFinding}
           /\ i.final \in Findings({0}) \cup {NoFinding}
           /\ i.related \in BOOLEAN
           /\ i.retries \in 0..MaxPlannerRetries
           /\ i.trace \in Seq(Actions)
           /\ i.completed /\ i.final = NoFinding => i.finding.review_status = "NO_RISK"
           /\ i.completed => i.finding # NoFinding
<1> DEFINE restored == Findings({0})
           concluded == {f \in restored : /\ f.review_status = "CONFIRMED_RISK"
                                          /\ f.confident
                                          /\ ~f.high
                                          /\ f.evidence = "supported"}
                        \cup {f \in restored : f.review_status = "NEED_MANUAL_REVIEW"}
           Item(completed, f, final) ==
               {[completed |-> completed, finding |-> f, final |-> final,
                 related |-> r, retries |-> h.count, trace |-> h.trace] :
                   r \in BOOLEAN, h \in Histories}
           settled == restored \ {g \in restored : IsRisk(g)}
<1>1. \/ \E f \in restored \cup {NoFinding} : i \in Item(FALSE, f, NoFinding)
      \/ \E c \in BOOLEAN, f \in concluded : i \in Item(c, f, f)
      \/ \E f \in settled : i \in Item(TRUE, f, NoFinding)
  BY DEF Items
<1>2. \A f \in concluded : f \in restored /\ f # NoFinding
  BY DEF NoFinding
<1>3. \A f \in settled : f \in restored /\ f.review_status = "NO_RISK"
  BY DEF IsRisk, Findings
<1>4. ASSUME NEW c, NEW f, NEW g, i \in Item(c, f, g)
      PROVE  /\ i.completed = c /\ i.finding = f /\ i.final = g
             /\ i.related \in BOOLEAN
             /\ i.retries \in 0..MaxPlannerRetries
             /\ i.trace \in Seq(Actions)
  <2>1. PICK r \in BOOLEAN, h \in Histories :
            i = [completed |-> c, finding |-> f, final |-> g,
                 related |-> r, retries |-> h.count, trace |-> h.trace]
    BY <1>4
  <2>2. PICK n \in 0..MaxPlannerRetries : h.count = n /\ h.trace \in EarlierTraces(n)
    BY DEF Histories
  <2>3. QED
    BY <2>1, <2>2, EarlierTraceType
<1> HIDE DEF Item
<1>5. CASE \E f \in restored \cup {NoFinding} : i \in Item(FALSE, f, NoFinding)
  BY <1>4, <1>5
<1>6. CASE \E c \in BOOLEAN, f \in concluded : i \in Item(c, f, f)
  BY <1>2, <1>4, <1>6
<1>7. CASE \E f \in settled : i \in Item(TRUE, f, NoFinding)
  <2>1. PICK f \in settled : i \in Item(TRUE, f, NoFinding)
    BY <1>7
  <2>2. f \in restored /\ f.review_status = "NO_RISK" /\ f # NoFinding
    BY <1>3 DEF NoFinding
  <2>3. QED
    BY <1>4, <2>1, <2>2
<1>8. QED
  BY <1>1, <1>5, <1>6, <1>7

LEMMA FindingsGrow ==
    /\ \A n \in Nat : Findings({n}) \subseteq Findings(Nat)
    /\ \A f \in Findings(Nat) \cup {NoFinding} :
            /\ f.made \in Nat
            /\ Candidate(f) \in Findings(Nat)
<1>1. \A n \in Nat : Findings({n}) \subseteq Findings(Nat)
  BY DEF Findings
<1> DEFINE W == [review_status : {"CONFIRMED_RISK", "NEED_MANUAL_REVIEW", "NO_RISK", "NONE"},
                 confident     : BOOLEAN,
                 high          : BOOLEAN,
                 evidence      : {"supported", "missing", "conflict"},
                 made          : Nat]
<1>2. Findings(Nat) \subseteq W
  BY DEF Findings
<1>3. NoFinding \in W
  BY DEF NoFinding
<1>4. ASSUME NEW f \in W
      PROVE  f.made \in Nat /\ Candidate(f) \in Findings(Nat)
  BY DEF Findings, Candidate
<1>5. QED
  BY <1>1, <1>2, <1>3, <1>4

-----------------------------------------------------------------------------
(* Type correctness.                                                       *)

LEMMA NewPayloadType ==
    ASSUME item \in Items
    PROVE  /\ NewPayload \in Payloads
           /\ NewPayload.terminal = "NONE"
           /\ NewPayload.retrieval_repair_count = item.retries
           /\ NewPayload.finding = item.finding
<1>1. /\ item.finding \in Findings({0}) \cup {NoFinding}
      /\ item.retries \in Nat
  BY ItemFacts, BudgetAssumption
<1>2. Findings({0}) \subseteq Findings(Nat)
  BY FindingsGrow
<1>3. <<>> \in Seq([made : Nat, is_valid : BOOLEAN])
  OBVIOUS
<1> DEFINE e == <<>>
           E == Seq([made : Nat, is_valid : BOOLEAN])
<1>4. e \in E
  BY <1>3
<1>5. NewPayload = [finding                 |-> item.finding,
                    evidence_results        |-> e,
                    planner_requested_human |-> FALSE,
                    critic_requested_human  |-> FALSE,
                    evidence_retry_count    |-> 0,
                    retrieval_repair_count  |-> item.retries,
                    outcome                 |-> "manual",
                    terminal                |-> "NONE"]
  BY DEF NewPayload
<1> HIDE DEF e
<1>6. QED
  BY <1>1, <1>2, <1>4, <1>5 DEF Payloads

\* _record_invalid_output_planner adds at most one decision, never an automatic one.
LEMMA InvalidOutputContext ==
    ASSUME NEW ctx \in Contexts, payload \in Payloads, RecordsInvalidOutput(ctx)
    PROVE  /\ context' \in Contexts
           /\ \/ context'.planner_retry_count = ctx.planner_retry_count
              \/ context'.planner_retry_count >= payload.retrieval_repair_count
<1>1. payload.retrieval_repair_count \in Nat
  BY DEF Payloads
<1>2. PICK d \in Decisions("STRUCTURED_OUTPUT_INVALID", payload.retrieval_repair_count) :
         context' = IF d = "INVALID" THEN ctx
                    ELSE Traced(ctx, d, payload.retrieval_repair_count)
  BY DEF RecordsInvalidOutput
<1>3. d \in Actions \cup {"INVALID"}
  BY <1>1, DecisionFacts
<1>4. QED
  BY <1>1, <1>2, <1>3, TracedFacts

\* A planner decision d for reason, traced in ctx.
LEMMA DecidedContext ==
    ASSUME NEW ctx \in Contexts, NEW n \in Nat, NEW reason, NEW d \in Decisions(reason, n),
           NEW ctx2, ctx2 = IF d = "INVALID" THEN ctx ELSE Traced(ctx, d, n)
    PROVE  /\ ctx2 \in Contexts
           /\ ctx2.planner_retry_count = ctx.planner_retry_count \/ ctx2.planner_retry_count >= n
           /\ d \in Automatic => ctx2.planner_retry_count = n + 1 /\ n < MaxPlannerRetries
           /\ \/ ctx2.planner_trace = ctx.planner_trace
              \/ ctx2.planner_trace = Append(ctx.planner_trace, d)
<1>1. /\ d \in Actions \cup {"INVALID"}
      /\ d \in Automatic => n < MaxPlannerRetries
  BY DecisionFacts
<1>2. CASE d = "INVALID"
  BY <1>2 DEF Automatic
<1>3. CASE d # "INVALID"
  <2>1. d \in Actions /\ ctx2 = Traced(ctx, d, n)
    BY <1>1, <1>3
  <2>2. QED
    BY <1>1, <2>1, TracedFacts
<1>4. QED
  BY <1>2, <1>3

LEMMA ContextsType ==
    Contexts = [related : BOOLEAN, planner_retry_count : Nat,
                planner_trace : Seq(Actions)]
BY DEF Contexts

\* Each node leaves a well-typed payload.
LEMMA PayloadUpdates ==
    ASSUME NEW p \in Payloads
    PROVE  /\ \A f \in Findings(Nat) \cup {NoFinding} : [p EXCEPT !.finding = f] \in Payloads
           /\ \A s \in {"NONE", "RETRIEVAL_FAILED", "NEED_MANUAL_REVIEW",
                        "LLM_OUTPUT_INVALID", "HUMAN_REVIEW_PENDING"} :
                [p EXCEPT !.terminal = s] \in Payloads
           /\ \A o \in {"manual", "no_risk", "existing", "verified"} :
                [p EXCEPT !.outcome = o] \in Payloads
           /\ \A b \in BOOLEAN : /\ [p EXCEPT !.planner_requested_human = b] \in Payloads
                                /\ [p EXCEPT !.critic_requested_human = b] \in Payloads
           /\ \A n \in Nat : /\ [p EXCEPT !.evidence_retry_count = n] \in Payloads
                            /\ [p EXCEPT !.retrieval_repair_count = n] \in Payloads
BY DEF Payloads

LEMMA WithEvidenceType ==
    ASSUME NEW p \in Payloads
    PROVE  /\ WithEvidence(p) \in Payloads
           /\ [made |-> p.finding.made, is_valid |-> Verified(p)]
                \in ToSet(WithEvidence(p).evidence_results)
<1> DEFINE R == [made : Nat, is_valid : BOOLEAN]
           r == [made |-> p.finding.made, is_valid |-> Verified(p)]
           t == Append(p.evidence_results, r)
<1>1. r \in R
  BY FindingsGrow DEF Payloads, Verified
<1>2. p.evidence_results \in Seq(R)
  BY DEF Payloads
<1>3. t \in Seq(R) /\ r \in ToSet(t)
  BY <1>1, <1>2, ToSetAppend
<1>4. WithEvidence(p) = [p EXCEPT !.evidence_results = t]
  BY DEF WithEvidence
<1> HIDE DEF r, t
<1>5. WithEvidence(p) \in Payloads /\ WithEvidence(p).evidence_results = t
  BY <1>3, <1>4 DEF Payloads
<1>6. QED
  BY <1>3, <1>5 DEF r

\* Every variable keeps its type, for any retry budget.
THEOREM BranchTypeCorrect == Spec => []TypeOK
<1>1. Init => TypeOK
  <2> SUFFICES ASSUME Init PROVE TypeOK
    OBVIOUS
  <2>1. item \in Items /\ item.related \in BOOLEAN /\ item.retries \in Nat
    BY ItemFacts, BudgetAssumption DEF Init
  <2>2. payload \in Payloads
    BY <2>1, NewPayloadType DEF Init
  <2>3. result \in Results
    BY DEF Init, NoResult, Results
  <2>4. context \in Contexts
    <3>1. context = [related |-> item.related, planner_retry_count |-> item.retries,
                     planner_trace |-> item.trace]
      BY DEF Init
    <3>2. item.trace \in Seq(Actions)
      BY <2>1, ItemFacts
    <3>3. QED
      BY <2>1, <3>1, <3>2 DEF Contexts
  <2>5. QED
    BY <2>1, <2>2, <2>3, <2>4, ContextsType DEF Init, TypeOK, Nodes
<1>2. TypeOK /\ [Next]_vars => TypeOK'
  <2> SUFFICES ASSUME TypeOK, [Next]_vars PROVE TypeOK'
    OBVIOUS
  <2> DEFINE T == /\ item \in Items
                  /\ route \in Nodes \cup {"END", "interrupted"}
                  /\ context \in Contexts
                  /\ payload \in Payloads
                  /\ result \in Results
                  /\ passed \subseteq Nat
                  /\ analyses \in Nat
                  /\ retrievals \in Nat
  <2>1. TypeOK = T /\ (T' => TypeOK')
    BY ContextsType DEF TypeOK
  <2>2. SUFFICES T'
    BY <2>1
  <2>3. /\ T
        /\ payload.retrieval_repair_count \in Nat
        /\ payload.evidence_retry_count \in Nat
        /\ payload.finding \in Findings(Nat) \cup {NoFinding}
        /\ payload.finding.made \in Nat
        /\ NewPayload \in Payloads
    BY <2>1, NewPayloadType, FindingsGrow DEF Payloads
  <2> HIDE DEF T
  <2> USE DEF Nodes
  <2>4. CASE PrepareCompleted
    BY <2>3, <2>4, PayloadUpdates DEF PrepareCompleted, Finalize, T
  <2>5. CASE PrepareRepair
    <3>1. PICK d \in Decisions("RETRIEVAL_INSUFFICIENT", NewPayload.retrieval_repair_count) :
            /\ context' = IF d = "INVALID" THEN context
                          ELSE Traced(context, d, NewPayload.retrieval_repair_count)
            /\ \/ payload' = NewPayload /\ route' = "repair_retrieval"
               \/ EndsWith(NewPayload, "RETRIEVAL_FAILED")
      BY <2>5 DEF PrepareRepair
    <3>2. NewPayload.retrieval_repair_count \in Nat
      BY <2>3 DEF Payloads
    <3>3. context' \in Contexts
      BY <2>3, <3>1, <3>2, DecidedContext DEF T
    <3>4. QED
      BY <2>3, <2>5, <3>1, <3>3, PayloadUpdates DEF PrepareRepair, EndsWith, Finalize, T
  <2>6. CASE PrepareRoute
    BY <2>3, <2>6 DEF PrepareRoute, T
  <2>7. CASE AnalyzeSettled
    <3>1. analyses + 1 \in Nat /\ Findings({analyses + 1}) \subseteq Findings(Nat)
      BY <2>3, FindingsGrow DEF T
    <3>2. payload' \in Payloads
      BY <2>3, <2>7, <3>1 DEF AnalyzeSettled, Finalize, Payloads, T
    <3>3. QED
      BY <2>3, <2>7, <3>1, <3>2 DEF AnalyzeSettled, Finalize, T
  <2>8. CASE AnalyzeInvalid
    <3>1. context' \in Contexts
      BY <2>3, <2>8, InvalidOutputContext DEF AnalyzeInvalid, InvalidOutput, T
    <3>2. QED
      BY <2>3, <2>8, <3>1, PayloadUpdates DEF AnalyzeInvalid, InvalidOutput, EndsWith, Finalize, T
  <2>9. CASE AnalyzeUnsure
    <3>1. /\ analyses + 1 \in Nat /\ Findings({analyses + 1}) \subseteq Findings(Nat)
          /\ analyses + 2 \in Nat /\ Findings({analyses + 2}) \subseteq Findings(Nat)
      BY <2>3, FindingsGrow DEF T
    <3>2. PICK f \in Findings({analyses + 1}),
               d \in Decisions("LOW_CONFIDENCE", payload.retrieval_repair_count) :
            LET p == [payload EXCEPT !.finding = f]
                ctx == IF d = "INVALID" THEN context
                       ELSE Traced(context, d, payload.retrieval_repair_count) IN
            \/ /\ \E g \in Findings({analyses + 2}) :
                     payload' = [payload EXCEPT !.finding = g]
               /\ context' = ctx
               /\ route' = "criticize_risk"
               /\ analyses' = analyses + 2
            \/ /\ payload' = [p EXCEPT !.planner_requested_human = TRUE]
               /\ context' = ctx
               /\ route' = "criticize_risk"
               /\ analyses' = analyses + 1
            \/ /\ EndsWith(p, "NEED_MANUAL_REVIEW")
               /\ context' = ctx
               /\ analyses' = analyses + 1
            \/ /\ InvalidOutput(ctx, p)
               /\ analyses' = analyses + 1
      BY <2>9 DEF AnalyzeUnsure
    <3> DEFINE p == [payload EXCEPT !.finding = f]
               ctx == IF d = "INVALID" THEN context
                      ELSE Traced(context, d, payload.retrieval_repair_count)
    <3>3. p \in Payloads
      BY <2>3, <3>1, PayloadUpdates DEF T
    <3>4. ctx \in Contexts
      BY <2>3, DecidedContext DEF T
    <3>5. UNCHANGED <<item, result, passed, retrievals>>
      BY <2>9 DEF AnalyzeUnsure
    <3> HIDE DEF p, ctx
    <3>6. CASE /\ \E g \in Findings({analyses + 2}) : payload' = [payload EXCEPT !.finding = g]
               /\ context' = ctx
               /\ route' = "criticize_risk"
               /\ analyses' = analyses + 2
      <4>1. PICK g \in Findings({analyses + 2}) : payload' = [payload EXCEPT !.finding = g]
        BY <3>6
      <4>2. g \in Findings(Nat) /\ payload \in Payloads
        BY <2>3, <3>1 DEF T
      <4>3. payload' \in Payloads
        BY <4>1, <4>2, PayloadUpdates
      <4>4. QED
        BY <2>3, <3>1, <3>4, <3>5, <3>6, <4>3 DEF T
    <3>7. CASE /\ payload' = [p EXCEPT !.planner_requested_human = TRUE]
               /\ context' = ctx
               /\ route' = "criticize_risk"
               /\ analyses' = analyses + 1
      BY <2>3, <3>1, <3>3, <3>4, <3>5, <3>7, PayloadUpdates DEF T
    <3>8. CASE /\ EndsWith(p, "NEED_MANUAL_REVIEW")
               /\ context' = ctx
               /\ analyses' = analyses + 1
      BY <2>3, <3>1, <3>3, <3>4, <3>5, <3>8, PayloadUpdates DEF EndsWith, Finalize, T
    <3>9. CASE InvalidOutput(ctx, p) /\ analyses' = analyses + 1
      <4>1. context' \in Contexts
        BY <2>3, <3>4, <3>9, InvalidOutputContext DEF InvalidOutput, T
      <4>2. QED
        BY <2>3, <3>1, <3>3, <3>5, <3>9, <4>1, PayloadUpdates DEF InvalidOutput, EndsWith, Finalize, T
    <3>10. QED
      BY <3>2, <3>6, <3>7, <3>8, <3>9 DEF p, ctx
  <2>10. CASE CriticPasses
    BY <2>3, <2>10, PayloadUpdates DEF CriticPasses, T
  <2>11. CASE CriticDoubts
    BY <2>3, <2>11, PayloadUpdates DEF CriticDoubts, T
  <2>12. CASE CriticBlocksInjection
    BY <2>3, <2>12, PayloadUpdates DEF CriticBlocksInjection, EndsWith, Finalize, T
  <2>13. CASE CriticInvalid
    <3>1. context' \in Contexts
      BY <2>3, <2>13, InvalidOutputContext DEF CriticInvalid, InvalidOutput, T
    <3>2. QED
      BY <2>3, <2>13, <3>1, PayloadUpdates DEF CriticInvalid, InvalidOutput, EndsWith, Finalize, T
  <2>14. CASE CriticRaises
    BY <2>3, <2>14, PayloadUpdates DEF CriticRaises, EndsWith, Finalize, T
  <2>15. CASE EvidenceHolds
    BY <2>3, <2>15, WithEvidenceType, PayloadUpdates DEF EvidenceHolds, Finalize, T
  <2>16. CASE EvidenceFails
    <3> DEFINE q == WithEvidence(payload)
    <3>1. PICK d \in Decisions(EvidenceReason, payload.retrieval_repair_count) :
            LET manual == [q EXCEPT !.finding = Candidate(@),
                                    !.planner_requested_human = TRUE,
                                    !.outcome = "manual"] IN
            /\ context' = IF d = "INVALID" THEN context
                          ELSE Traced(context, d, payload.retrieval_repair_count)
            /\ \/ /\ payload' = [q EXCEPT !.evidence_retry_count = @ + 1]
                  /\ route' = "repair_retrieval"
               \/ Finalize(manual)
               \/ EndsWith(manual, "HUMAN_REVIEW_PENDING")
      BY <2>16 DEF EvidenceFails
    <3>2. context' \in Contexts
      BY <2>3, <3>1, DecidedContext DEF T
    <3>3. q \in Payloads /\ Candidate(q.finding) \in Findings(Nat) \cup {NoFinding}
      <4>1. q \in Payloads
        BY <2>3, WithEvidenceType DEF T
      <4>2. q.finding = payload.finding
        BY <2>3 DEF WithEvidence, T, Payloads
      <4>3. QED
        BY <2>3, <4>1, <4>2, FindingsGrow
    <3>4. UNCHANGED <<item, result, passed, analyses, retrievals>>
      BY <2>16 DEF EvidenceFails
    <3> HIDE DEF q
    <3>5. payload' \in Payloads /\ route' \in Nodes
      <4> DEFINE manual == [q EXCEPT !.finding = Candidate(@),
                                     !.planner_requested_human = TRUE,
                                     !.outcome = "manual"]
      <4>1. q.evidence_retry_count + 1 \in Nat
        BY <3>3 DEF Payloads
      <4>2. [q EXCEPT !.evidence_retry_count = @ + 1] \in Payloads
        BY <3>3, <4>1, PayloadUpdates
      <4>3. manual \in Payloads
        BY <3>3 DEF Payloads
      <4>4. [manual EXCEPT !.terminal = "HUMAN_REVIEW_PENDING"] \in Payloads
        BY <4>3, PayloadUpdates
      <4> HIDE DEF manual
      <4>5. QED
        BY <3>1, <4>2, <4>3, <4>4 DEF Finalize, EndsWith, manual
    <3>6. QED
      BY <2>3, <3>2, <3>4, <3>5 DEF T
  <2>17. CASE EvidenceRaises
    <3>1. Candidate(payload.finding) \in Findings(Nat) /\ payload \in Payloads
      BY <2>3, FindingsGrow DEF T
    <3>2. payload' \in Payloads
      BY <2>17, <3>1 DEF EvidenceRaises, Finalize, Payloads
    <3>3. QED
      BY <2>3, <2>17, <3>2 DEF EvidenceRaises, Finalize, T
  <2>18. CASE Repaired
    <3>1. payload.retrieval_repair_count + 1 \in Nat /\ retrievals + 1 \in Nat
      BY <2>3 DEF T
    <3>2. payload' \in Payloads
      BY <2>3, <2>18, <3>1, PayloadUpdates DEF Repaired, T
    <3>3. context' \in Contexts
      BY <2>3, <2>18, <3>1 DEF Repaired, T, Contexts
    <3>4. QED
      BY <2>3, <2>18, <3>1, <3>2, <3>3 DEF Repaired, T
  <2>19. CASE RepairFails
    <3>1. payload.retrieval_repair_count + 1 \in Nat /\ retrievals + 1 \in Nat
      BY <2>3 DEF T
    <3>2. payload' \in Payloads
      BY <2>3, <2>19, <3>1, PayloadUpdates DEF RepairFails, EndsWith, Finalize, T
    <3>3. QED
      BY <2>3, <2>19, <3>1, <3>2 DEF RepairFails, EndsWith, Finalize, T
  <2>20. CASE FinalizeRisk
    <3> DEFINE f == IF item.final # NoFinding THEN item.final ELSE payload.finding
               r == IF IsRisk(f) /\ payload.terminal = "NONE"
                    THEN IF MustBeManual(f) THEN Candidate(f) ELSE f
                    ELSE NoFinding
    <3>1. f \in Findings(Nat) \cup {NoFinding}
      <4>1. item.final \in Findings(Nat) \cup {NoFinding}
        BY <2>3, ItemFacts, FindingsGrow DEF T
      <4>2. QED
        BY <2>3, <4>1
    <3> HIDE DEF f
    <3>2. r \in Findings(Nat) \cup {NoFinding}
      BY <3>1, FindingsGrow
    <3>3. result' = [analysis_result |-> payload.finding, risk_finding |-> r,
                     terminal |-> payload.terminal, outcome |-> payload.outcome]
      BY <2>20 DEF FinalizeRisk, f
    <3> HIDE DEF r
    <3>4. result' \in Results
      BY <2>3, <3>2, <3>3 DEF T, Payloads, Results
    <3>5. QED
      BY <2>3, <2>20, <3>4 DEF FinalizeRisk, T
  <2>21. CASE Interrupted
    BY <2>3, <2>21 DEF Interrupted, T
  <2>22. CASE UNCHANGED vars
    BY <2>3, <2>22 DEF vars, T
  <2>23. QED
    BY <2>4, <2>5, <2>6, <2>7, <2>8, <2>9, <2>10, <2>11, <2>12, <2>13, <2>14, <2>15,
       <2>16, <2>17, <2>18, <2>19, <2>20, <2>21, <2>22
       DEF Next, Branch, PrepareRisk, AnalyzeRisk, CriticizeRisk, VerifyEvidence,
           RepairRetrieval
<1>3. QED
  BY <1>1, <1>2, PTL DEF Spec

-----------------------------------------------------------------------------
(* The retrieval budget.                                                   *)

\* What the branch has spent, what its payload counts and what the context
\* will tell a later run agree, and a repair on its way is paid for.
BudgetInv ==
    /\ payload.retrieval_repair_count = item.retries + retrievals
    /\ payload.retrieval_repair_count <= MaxPlannerRetries
    /\ context.planner_retry_count >= payload.retrieval_repair_count
    /\ route = "prepare_risk" => retrievals = 0
    /\ route = "repair_retrieval" =>
            /\ payload.retrieval_repair_count < MaxPlannerRetries
            /\ context.planner_retry_count > payload.retrieval_repair_count

\* A node that neither repairs nor asks for a repair keeps it.
LEMMA BudgetKept ==
    ASSUME TypeOK, BudgetInv,
           UNCHANGED <<item, retrievals>>,
           payload'.retrieval_repair_count = payload.retrieval_repair_count,
           \/ context'.planner_retry_count = context.planner_retry_count
           \/ context'.planner_retry_count >= payload.retrieval_repair_count,
           route' \notin {"prepare_risk", "repair_retrieval"}
    PROVE  BudgetInv'
BY DEF BudgetInv

LEMMA BudgetStep == TypeOK /\ BudgetInv /\ [Next]_vars => BudgetInv'
<1> SUFFICES ASSUME TypeOK, BudgetInv, [Next]_vars PROVE BudgetInv'
  OBVIOUS
<1>1. /\ item \in Items
      /\ item.retries \in 0..MaxPlannerRetries
      /\ payload \in Payloads
      /\ NewPayload \in Payloads
      /\ NewPayload.retrieval_repair_count = item.retries
      /\ context \in Contexts
      /\ context.planner_retry_count \in Nat
      /\ retrievals \in Nat
      /\ payload.retrieval_repair_count \in Nat
      /\ MaxPlannerRetries \in Nat
  BY ItemFacts, NewPayloadType, ContextsType, BudgetAssumption DEF TypeOK, Payloads, Contexts
<1>2. CASE PrepareCompleted
  <2>1. payload'.retrieval_repair_count = item.retries /\ route' = "finalize_risk"
    BY <1>1, <1>2 DEF PrepareCompleted, Finalize, Payloads
  <2>2. QED
    BY <1>1, <1>2, <2>1 DEF PrepareCompleted, BudgetInv
<1>3. CASE PrepareRepair
  <2>1. PICK d \in Decisions("RETRIEVAL_INSUFFICIENT", NewPayload.retrieval_repair_count) :
          /\ context' = IF d = "INVALID" THEN context
                        ELSE Traced(context, d, NewPayload.retrieval_repair_count)
          /\ \/ /\ d = "RETRIEVE_AGAIN"
                /\ payload' = NewPayload
                /\ route' = "repair_retrieval"
             \/ /\ d # "RETRIEVE_AGAIN"
                /\ EndsWith(NewPayload, "RETRIEVAL_FAILED")
    BY <1>3 DEF PrepareRepair
  <2>2. /\ \/ context'.planner_retry_count = context.planner_retry_count
           \/ context'.planner_retry_count >= item.retries
        /\ d = "RETRIEVE_AGAIN" => /\ context'.planner_retry_count = item.retries + 1
                                  /\ item.retries < MaxPlannerRetries
    <3>1. NewPayload.retrieval_repair_count \in Nat
      BY <1>1 DEF Payloads
    <3>2. "RETRIEVE_AGAIN" \in Automatic
      BY DEF Automatic
    <3>3. QED
      BY <1>1, <2>1, <3>1, <3>2, DecidedContext
  <2>3. payload'.retrieval_repair_count = item.retries
    BY <1>1, <2>1 DEF EndsWith, Finalize, Payloads
  <2>4. /\ UNCHANGED <<item, retrievals>>
        /\ route = "prepare_risk"
        /\ route' = "finalize_risk" \/ (route' = "repair_retrieval" /\ d = "RETRIEVE_AGAIN")
    BY <1>3, <2>1 DEF PrepareRepair, EndsWith, Finalize
  <2>5. QED
    BY <1>1, <2>2, <2>3, <2>4 DEF BudgetInv
<1>4. CASE PrepareRoute
  BY <1>1, <1>4 DEF PrepareRoute, BudgetInv
<1>5. CASE AnalyzeSettled
  <2>1. payload'.retrieval_repair_count = payload.retrieval_repair_count
    BY <1>1, <1>5 DEF AnalyzeSettled, Finalize, Payloads
  <2>2. QED
    BY <1>5, <2>1, BudgetKept DEF AnalyzeSettled, Finalize
<1>6. ASSUME NEW ctx \in Contexts, NEW p \in Payloads, InvalidOutput(ctx, p),
             p.retrieval_repair_count = payload.retrieval_repair_count,
             \/ ctx.planner_retry_count = context.planner_retry_count
             \/ ctx.planner_retry_count >= payload.retrieval_repair_count,
             UNCHANGED <<item, retrievals>>
      PROVE  BudgetInv'
  <2>1. payload'.retrieval_repair_count = payload.retrieval_repair_count
    BY <1>6 DEF InvalidOutput, EndsWith, Finalize, Payloads
  <2>2. \/ context'.planner_retry_count = context.planner_retry_count
        \/ context'.planner_retry_count >= payload.retrieval_repair_count
    BY <1>1, <1>6, InvalidOutputContext DEF InvalidOutput
  <2>3. QED
    BY <1>6, <2>1, <2>2, BudgetKept DEF InvalidOutput, EndsWith, Finalize
<1>7. CASE AnalyzeInvalid
  BY <1>1, <1>6, <1>7 DEF AnalyzeInvalid
<1>8. CASE AnalyzeUnsure
  <2>1. PICK f \in Findings({analyses + 1}),
             d \in Decisions("LOW_CONFIDENCE", payload.retrieval_repair_count) :
          LET p == [payload EXCEPT !.finding = f]
              ctx == IF d = "INVALID" THEN context
                     ELSE Traced(context, d, payload.retrieval_repair_count) IN
          \/ /\ \/ \E g \in Findings({analyses + 2}) : payload' = [payload EXCEPT !.finding = g]
                \/ payload' = [p EXCEPT !.planner_requested_human = TRUE]
                \/ payload' = [p EXCEPT !.terminal = "NEED_MANUAL_REVIEW"]
             /\ context' = ctx
             /\ route' \in {"criticize_risk", "finalize_risk"}
          \/ InvalidOutput(ctx, p)
    BY <1>8 DEF AnalyzeUnsure, EndsWith, Finalize
  <2> DEFINE p == [payload EXCEPT !.finding = f]
             ctx == IF d = "INVALID" THEN context
                    ELSE Traced(context, d, payload.retrieval_repair_count)
  <2>2. /\ p \in Payloads
        /\ p.retrieval_repair_count = payload.retrieval_repair_count
    <3>1. analyses + 1 \in Nat
      BY DEF TypeOK
    <3>2. f \in Findings(Nat)
      BY <3>1, FindingsGrow
    <3>3. QED
      BY <1>1, <3>2 DEF Payloads
  <2>3. /\ ctx \in Contexts
        /\ \/ ctx.planner_retry_count = context.planner_retry_count
           \/ ctx.planner_retry_count >= payload.retrieval_repair_count
    BY <1>1, DecidedContext
  <2>4. UNCHANGED <<item, retrievals>>
    BY <1>8 DEF AnalyzeUnsure
  <2>5. CASE InvalidOutput(ctx, p)
    <3> HIDE DEF p, ctx
    <3>1. QED
      BY <1>6, <2>2, <2>3, <2>4, <2>5
  <2>6. CASE /\ \/ \E g \in Findings({analyses + 2}) : payload' = [payload EXCEPT !.finding = g]
                \/ payload' = [p EXCEPT !.planner_requested_human = TRUE]
                \/ payload' = [p EXCEPT !.terminal = "NEED_MANUAL_REVIEW"]
             /\ context' = ctx
             /\ route' \in {"criticize_risk", "finalize_risk"}
    <3> HIDE DEF p, ctx
    <3>1. payload'.retrieval_repair_count = payload.retrieval_repair_count
      BY <1>1, <2>2, <2>6 DEF Payloads
    <3>2. QED
      BY <2>3, <2>4, <2>6, <3>1, BudgetKept
  <2>7. QED
    BY <2>1, <2>5, <2>6
<1>9. CASE CriticPasses \/ CriticDoubts \/ CriticBlocksInjection \/ CriticRaises
  <2>1. payload'.retrieval_repair_count = payload.retrieval_repair_count
    BY <1>1, <1>9 DEF CriticPasses, CriticDoubts, CriticBlocksInjection, CriticRaises,
                      EndsWith, Finalize, Payloads
  <2>2. QED
    BY <1>9, <2>1, BudgetKept DEF CriticPasses, CriticDoubts, CriticBlocksInjection,
                                  CriticRaises, EndsWith, Finalize
<1>10. CASE CriticInvalid
  BY <1>1, <1>6, <1>10 DEF CriticInvalid
<1>11. WithEvidence(payload) \in Payloads
       /\ WithEvidence(payload).retrieval_repair_count = payload.retrieval_repair_count
  BY <1>1, WithEvidenceType DEF WithEvidence, Payloads
<1>12. CASE EvidenceHolds
  <2>1. payload'.retrieval_repair_count = payload.retrieval_repair_count
    BY <1>11, <1>12 DEF EvidenceHolds, Finalize, Payloads
  <2>2. QED
    BY <1>12, <2>1, BudgetKept DEF EvidenceHolds, Finalize
<1>13. CASE EvidenceFails
  <2> DEFINE q == WithEvidence(payload)
  <2>1. PICK d \in Decisions(EvidenceReason, payload.retrieval_repair_count) :
          LET manual == [q EXCEPT !.finding = Candidate(@),
                                  !.planner_requested_human = TRUE,
                                  !.outcome = "manual"] IN
          /\ context' = IF d = "INVALID" THEN context
                        ELSE Traced(context, d, payload.retrieval_repair_count)
          /\ \/ /\ payload' = [q EXCEPT !.evidence_retry_count = @ + 1]
                /\ route' = "repair_retrieval"
                /\ d = "RETRIEVE_AGAIN"
             \/ /\ \/ payload' = manual
                   \/ payload' = [manual EXCEPT !.terminal = "HUMAN_REVIEW_PENDING"]
                /\ route' = "finalize_risk"
    BY <1>13 DEF EvidenceFails, EndsWith, Finalize
  <2>2. /\ \/ context'.planner_retry_count = context.planner_retry_count
           \/ context'.planner_retry_count >= payload.retrieval_repair_count
        /\ d = "RETRIEVE_AGAIN" =>
              /\ context'.planner_retry_count = payload.retrieval_repair_count + 1
              /\ payload.retrieval_repair_count < MaxPlannerRetries
    <3>1. "RETRIEVE_AGAIN" \in Automatic
      BY DEF Automatic
    <3>2. QED
      BY <1>1, <2>1, <3>1, DecidedContext
  <2>3. payload'.retrieval_repair_count = payload.retrieval_repair_count
    <3> HIDE DEF q
    <3>1. q \in Payloads /\ q.retrieval_repair_count = payload.retrieval_repair_count
      BY <1>11 DEF q
    <3>2. QED
      BY <2>1, <3>1 DEF Payloads
  <2>4. UNCHANGED <<item, retrievals>>
    BY <1>13 DEF EvidenceFails
  <2>5. CASE route' = "repair_retrieval" /\ d = "RETRIEVE_AGAIN"
    BY <1>1, <2>2, <2>3, <2>4, <2>5 DEF BudgetInv
  <2>6. CASE route' = "finalize_risk"
    BY <2>2, <2>3, <2>4, <2>6, BudgetKept
  <2>7. QED
    BY <2>1, <2>5, <2>6
<1>14. CASE EvidenceRaises
  <2>1. payload'.retrieval_repair_count = payload.retrieval_repair_count
    BY <1>1, <1>14 DEF EvidenceRaises, Finalize, Payloads
  <2>2. QED
    BY <1>14, <2>1, BudgetKept DEF EvidenceRaises, Finalize
<1>15. CASE Repaired
  <2>1. payload'.retrieval_repair_count = payload.retrieval_repair_count + 1
    BY <1>1, <1>15 DEF Repaired, Payloads
  <2>2. context'.planner_retry_count = payload.retrieval_repair_count + 1
    BY <1>1, <1>15 DEF Repaired, Contexts
  <2>3. QED
    BY <1>1, <1>15, <2>1, <2>2 DEF Repaired, BudgetInv
<1>16. CASE RepairFails
  <2>1. payload'.retrieval_repair_count = payload.retrieval_repair_count + 1
    BY <1>1, <1>16 DEF RepairFails, EndsWith, Finalize, Payloads
  <2>2. context'.planner_retry_count = context.planner_retry_count
    BY <1>16 DEF RepairFails
  <2>3. QED
    BY <1>1, <1>16, <2>1, <2>2 DEF RepairFails, EndsWith, Finalize, BudgetInv
<1>17. CASE FinalizeRisk \/ Interrupted
  BY <1>17, BudgetKept DEF FinalizeRisk, Interrupted
<1>18. CASE UNCHANGED vars
  BY <1>18 DEF vars, BudgetInv
<1>19. QED
  BY <1>2, <1>3, <1>4, <1>5, <1>7, <1>8, <1>9, <1>10, <1>12, <1>13, <1>14, <1>15, <1>16,
     <1>17, <1>18
     DEF Next, Branch, PrepareRisk, AnalyzeRisk, CriticizeRisk, VerifyEvidence, RepairRetrieval

LEMMA BudgetInit == Init => BudgetInv
<1> SUFFICES ASSUME Init PROVE BudgetInv
  OBVIOUS
<1>1. item \in Items /\ item.retries \in 0..MaxPlannerRetries
  BY ItemFacts DEF Init
<1>2. payload.retrieval_repair_count = item.retries
  BY <1>1, NewPayloadType DEF Init
<1>3. QED
  BY <1>1, <1>2, BudgetAssumption DEF Init, BudgetInv

\* The retrievals repeated for a branch never exceed the planner's budget,
\* whatever that budget is, over both places that ask for one.
THEOREM RetrievalsWithinBudget == Spec => []RetrievalBudget
<1>1. TypeOK /\ BudgetInv => RetrievalBudget
  <2> SUFFICES ASSUME TypeOK, BudgetInv PROVE RetrievalBudget
    OBVIOUS
  <2>1. item.retries \in Nat /\ retrievals \in Nat
    BY ItemFacts, BudgetAssumption DEF TypeOK
  <2>2. QED
    BY <2>1 DEF BudgetInv, RetrievalBudget
<1>2. QED
  BY BranchTypeCorrect, BudgetInit, BudgetStep, <1>1, PTL DEF Spec

\* An ended branch hands over a context that counts what it has spent, however
\* it has ended, so that a run that restores this context does not grant it again.
THEOREM SpentBudgetIsHandedOver == Spec => []BudgetIsHandedOver
<1>1. TypeOK /\ BudgetInv => BudgetIsHandedOver
  <2> SUFFICES ASSUME TypeOK, BudgetInv PROVE BudgetIsHandedOver
    OBVIOUS
  <2>1. /\ item.retries \in Nat /\ retrievals \in Nat
        /\ context.planner_retry_count \in Nat
    BY ItemFacts, BudgetAssumption, ContextsType DEF TypeOK, Contexts
  <2>2. QED
    BY <2>1 DEF BudgetInv, BudgetIsHandedOver
<1>2. QED
  BY BranchTypeCorrect, BudgetInit, BudgetStep, <1>1, PTL DEF Spec

-----------------------------------------------------------------------------
(* Formal risks.                                                           *)

Supported(f) == [made |-> f.made, is_valid |-> TRUE]

\* A finding on its way to finalize_risk that nothing there will hand to a
\* human has passed the critic and the verifier.
CheckInv ==
    /\ route = "verify_evidence" =>
            payload.critic_requested_human \/ payload.finding.made \in passed
    /\ /\ route = "finalize_risk"
       /\ item.final = NoFinding
       /\ payload.terminal = "NONE"
       /\ payload.finding.review_status = "CONFIRMED_RISK"
       /\ ~payload.planner_requested_human
       /\ ~payload.critic_requested_human
       => /\ payload.finding.made \in passed
          /\ Supported(payload.finding) \in ToSet(payload.evidence_results)
    /\ FormalRiskIsChecked

\* What finalize_risk makes of a finding (with MustBeManual as it was then).
LEMMA FinalizeFacts ==
    ASSUME TypeOK, FinalizeRisk, result'.risk_finding.review_status = "CONFIRMED_RISK"
    PROVE  /\ payload.terminal = "NONE"
           /\ ~payload.planner_requested_human
           /\ ~payload.critic_requested_human
           /\ \/ item.final # NoFinding /\ result'.risk_finding = item.final
              \/ item.final = NoFinding /\ result'.risk_finding = payload.finding
<1> DEFINE f == IF item.final # NoFinding THEN item.final ELSE payload.finding
           r == IF IsRisk(f) /\ payload.terminal = "NONE"
                THEN IF MustBeManual(f) THEN Candidate(f) ELSE f
                ELSE NoFinding
<1>1. f \in Findings(Nat) \cup {NoFinding}
  <2>1. item.final \in Findings(Nat) \cup {NoFinding}
    BY ItemFacts, FindingsGrow DEF TypeOK
  <2>2. payload.finding \in Findings(Nat) \cup {NoFinding}
    BY DEF TypeOK, Payloads
  <2>3. QED
    BY <2>1, <2>2
<1>2. result'.risk_finding = r
  BY DEF FinalizeRisk
<1>3. Candidate(f).review_status = "NEED_MANUAL_REVIEW"
  <2> HIDE DEF f
  <2>1. QED
    BY <1>1 DEF Candidate, Findings, NoFinding
<1>4. NoFinding.review_status = "NONE"
  BY DEF NoFinding
<1>5. r = f /\ payload.terminal = "NONE" /\ ~MustBeManual(f)
  <2> HIDE DEF f
  <2>1. QED
    BY <1>2, <1>3, <1>4
<1>6. QED
  BY <1>2, <1>5 DEF MustBeManual

LEMMA CheckStep == TypeOK /\ CheckInv /\ [Next]_vars => CheckInv'
<1> SUFFICES ASSUME TypeOK, CheckInv, [Next]_vars PROVE CheckInv'
  OBVIOUS
<1>1. item \in Items /\ payload \in Payloads /\ NewPayload \in Payloads
  BY NewPayloadType DEF TypeOK
<1>2. ASSUME route' \notin {"verify_evidence", "finalize_risk", "END"}
      PROVE  CheckInv'
  BY <1>2 DEF CheckInv, FormalRiskIsChecked, Formal
<1>3. ASSUME route' = "finalize_risk",
             \/ payload'.terminal # "NONE"
             \/ payload'.finding.review_status # "CONFIRMED_RISK"
             \/ payload'.planner_requested_human
      PROVE  CheckInv'
  BY <1>3 DEF CheckInv, FormalRiskIsChecked, Formal
<1>4. ASSUME NEW p \in Payloads, NEW s \in {"RETRIEVAL_FAILED", "NEED_MANUAL_REVIEW",
                                          "LLM_OUTPUT_INVALID", "HUMAN_REVIEW_PENDING"},
             EndsWith(p, s)
      PROVE  CheckInv'
  <2>1. payload'.terminal = s /\ route' = "finalize_risk"
    BY <1>4 DEF EndsWith, Finalize, Payloads
  <2>2. QED
    BY <2>1, <1>3
<1>5. CASE PrepareCompleted
  <2>1. CASE item.final = NoFinding
    <3>1. item.finding.review_status = "NO_RISK"
      BY <1>1, <1>5, <2>1, ItemFacts DEF PrepareCompleted
    <3>2. payload'.finding = item.finding /\ route' = "finalize_risk"
      BY <1>1, <1>5, NewPayloadType DEF PrepareCompleted, Finalize, Payloads
    <3>3. QED
      BY <1>3, <3>1, <3>2
  <2>2. CASE item.final # NoFinding
    BY <1>5, <2>2 DEF PrepareCompleted, Finalize, CheckInv, FormalRiskIsChecked, Formal
  <2>3. QED
    BY <2>1, <2>2
<1>6. CASE PrepareRepair
  BY <1>1, <1>2, <1>4, <1>6 DEF PrepareRepair
<1>7. CASE PrepareRoute
  <2>1. NewPayload.finding = item.finding
    BY <1>1, NewPayloadType
  <2>2. CASE route' = "finalize_risk"
    <3>1. payload'.finding.review_status = "NO_RISK"
      BY <1>7, <2>1, <2>2 DEF PrepareRoute
    <3>2. QED
      BY <1>3, <2>2, <3>1
  <2>3. CASE route' \in {"analyze_risk", "criticize_risk"}
    BY <1>2, <2>3
  <2>4. QED
    BY <1>7, <2>2, <2>3 DEF PrepareRoute
<1>8. CASE AnalyzeSettled
  <2>1. PICK f \in Findings({analyses + 1}) :
           \/ /\ f.review_status = "NO_RISK"
              /\ Finalize([payload EXCEPT !.finding = f, !.outcome = "no_risk"])
           \/ route' = "criticize_risk"
    BY <1>8 DEF AnalyzeSettled
  <2>2. CASE route' = "criticize_risk"
    BY <1>2, <2>2
  <2>3. CASE /\ f.review_status = "NO_RISK"
             /\ Finalize([payload EXCEPT !.finding = f, !.outcome = "no_risk"])
    <3>1. payload'.finding.review_status = "NO_RISK" /\ route' = "finalize_risk"
      BY <1>1, <2>3 DEF Finalize, Payloads
    <3>2. QED
      BY <1>3, <3>1
  <2>4. QED
    BY <2>1, <2>2, <2>3
<1>9. CASE AnalyzeInvalid
  BY <1>1, <1>4, <1>9 DEF AnalyzeInvalid, InvalidOutput
<1>10. CASE AnalyzeUnsure
  <2>1. PICK f \in Findings({analyses + 1}) :
           \/ route' = "criticize_risk"
           \/ EndsWith([payload EXCEPT !.finding = f], "NEED_MANUAL_REVIEW")
           \/ EndsWith([payload EXCEPT !.finding = f], "LLM_OUTPUT_INVALID")
    BY <1>10 DEF AnalyzeUnsure, InvalidOutput
  <2>2. [payload EXCEPT !.finding = f] \in Payloads
    <3>1. analyses + 1 \in Nat
      BY DEF TypeOK
    <3>2. QED
      BY <1>1, <3>1, FindingsGrow, PayloadUpdates
  <2>3. CASE route' = "criticize_risk"
    BY <1>2, <2>3
  <2>4. QED
    BY <1>4, <2>1, <2>2, <2>3
<1>11. CASE CriticPasses
  <2>1. payload'.finding.made \in passed' /\ route' = "verify_evidence"
    BY <1>1, <1>11 DEF CriticPasses, Payloads
  <2>2. QED
    BY <2>1 DEF CheckInv, FormalRiskIsChecked, Formal
<1>12. CASE CriticDoubts
  <2>1. payload'.critic_requested_human /\ route' = "verify_evidence"
    BY <1>1, <1>12 DEF CriticDoubts, Payloads
  <2>2. QED
    BY <2>1 DEF CheckInv, FormalRiskIsChecked, Formal
<1>13. CASE CriticBlocksInjection
  BY <1>1, <1>4, <1>13 DEF CriticBlocksInjection
<1>14. CASE CriticInvalid
  BY <1>1, <1>4, <1>14 DEF CriticInvalid, InvalidOutput
<1>15. CASE CriticRaises
  BY <1>1, <1>4, <1>15 DEF CriticRaises
<1>16. WithEvidence(payload) \in Payloads
  BY <1>1, WithEvidenceType
<1>17. CASE EvidenceHolds
  <2> DEFINE q == WithEvidence(payload)
  <2>1. /\ q.finding = payload.finding
        /\ q.critic_requested_human = payload.critic_requested_human
    BY <1>1 DEF WithEvidence, Payloads
  <2>2. [made |-> payload.finding.made, is_valid |-> TRUE] \in ToSet(q.evidence_results)
    <3>1. Verified(payload) = TRUE
      BY <1>17 DEF EvidenceHolds, Verified
    <3>2. QED
      BY <1>1, <3>1, WithEvidenceType
  <2>3. payload' = [q EXCEPT !.outcome = "verified"] /\ route' = "finalize_risk" /\ passed' = passed
    BY <1>17 DEF EvidenceHolds, Finalize
  <2> HIDE DEF q
  <2>4. /\ payload'.finding = payload.finding
        /\ payload'.critic_requested_human = payload.critic_requested_human
        /\ payload'.evidence_results = q.evidence_results
    BY <1>16, <2>1, <2>3 DEF Payloads, q
  <2>5. Supported(payload'.finding) \in ToSet(payload'.evidence_results)
    BY <2>2, <2>4 DEF Supported
  <2>6. payload.critic_requested_human \/ payload.finding.made \in passed
    BY <1>17 DEF EvidenceHolds, CheckInv
  <2>7. QED
    BY <2>3, <2>4, <2>5, <2>6 DEF CheckInv, FormalRiskIsChecked, Formal, Supported
<1>18. CASE EvidenceFails
  <2> DEFINE q == WithEvidence(payload)
             manual == [q EXCEPT !.finding = Candidate(@),
                                 !.planner_requested_human = TRUE,
                                 !.outcome = "manual"]
  <2>1. \/ route' = "repair_retrieval"
        \/ Finalize(manual)
        \/ EndsWith(manual, "HUMAN_REVIEW_PENDING")
    BY <1>18 DEF EvidenceFails
  <2>2. manual.planner_requested_human /\ manual.terminal = q.terminal
    <3>1. q \in Payloads
      BY <1>16
    <3> HIDE DEF q
    <3>2. QED
      BY <3>1 DEF Payloads
  <2>3. CASE route' = "repair_retrieval"
    BY <1>2, <2>3
  <2>4. CASE Finalize(manual)
    <3> HIDE DEF manual
    <3>1. QED
      BY <1>3, <2>2, <2>4 DEF Finalize
  <2>5. CASE EndsWith(manual, "HUMAN_REVIEW_PENDING")
    <3>1. payload'.planner_requested_human /\ route' = "finalize_risk"
      <4>1. q \in Payloads
        BY <1>16
      <4> HIDE DEF q
      <4>2. QED
        BY <2>5, <4>1 DEF EndsWith, Finalize, Payloads
    <3>2. QED
      BY <1>3, <3>1
  <2>6. QED
    BY <2>1, <2>3, <2>4, <2>5
<1>19. CASE EvidenceRaises
  <2>1. payload'.finding = Candidate(payload.finding) /\ route' = "finalize_risk"
    BY <1>1, <1>19 DEF EvidenceRaises, Finalize, Payloads
  <2>2. Candidate(payload.finding).review_status = "NEED_MANUAL_REVIEW"
    <3>1. payload.finding \in Findings(Nat) \cup {NoFinding}
      BY <1>1 DEF Payloads
    <3>2. QED
      BY <3>1 DEF Candidate, Findings, NoFinding
  <2>3. QED
    BY <1>3, <2>1, <2>2
<1>20. CASE Repaired
  BY <1>2, <1>20 DEF Repaired
<1>21. CASE RepairFails
  <2>1. payload.retrieval_repair_count + 1 \in Nat
    BY <1>1 DEF Payloads
  <2>2. [payload EXCEPT !.retrieval_repair_count = @ + 1] \in Payloads
    BY <1>1, <2>1, PayloadUpdates
  <2>3. QED
    BY <1>4, <1>21, <2>2 DEF RepairFails
<1>22. CASE FinalizeRisk
  <2>1. route = "finalize_risk" /\ route' = "END" /\ UNCHANGED <<item, payload, passed>>
    BY <1>22 DEF FinalizeRisk
  <2>2. ASSUME Formal' PROVE \/ result'.risk_finding = item.final
                            \/ /\ result'.risk_finding.made \in passed
                               /\ Supported(result'.risk_finding) \in ToSet(payload.evidence_results)
    <3>1. result'.risk_finding.review_status = "CONFIRMED_RISK"
      BY <2>2 DEF Formal
    <3>2. QED
      BY <1>22, <2>1, <3>1, FinalizeFacts DEF CheckInv
  <2>3. QED
    BY <2>1, <2>2 DEF CheckInv, FormalRiskIsChecked, Supported
<1>23. CASE Interrupted
  BY <1>2, <1>23 DEF Interrupted
<1>24. CASE UNCHANGED vars
  BY <1>24 DEF vars, CheckInv, FormalRiskIsChecked, Formal
<1>25. QED
  BY <1>5, <1>6, <1>7, <1>8, <1>9, <1>10, <1>11, <1>12, <1>13, <1>14, <1>15, <1>17, <1>18,
     <1>19, <1>20, <1>21, <1>22, <1>23, <1>24
     DEF Next, Branch, PrepareRisk, AnalyzeRisk, CriticizeRisk, VerifyEvidence, RepairRetrieval

\* No finding becomes formal that the critic has not passed and the verifier
\* has not confirmed, for any budget and any answers of the tools.
THEOREM FormalRisksAreChecked == Spec => []FormalRiskIsChecked
<1>1. Init => CheckInv
  BY DEF Init, CheckInv, FormalRiskIsChecked, Formal
<1>2. CheckInv => FormalRiskIsChecked
  BY DEF CheckInv
<1>3. QED
  BY BranchTypeCorrect, CheckStep, <1>1, <1>2, PTL DEF Spec

-----------------------------------------------------------------------------
(* Requests for a human.                                                   *)

\* A request of this run is in the payload besides, or the branch has failed.
HandInv ==
    /\ route = "prepare_risk" => context.planner_trace = item.trace
    /\ HumanRequested => payload.planner_requested_human \/ payload.terminal # "NONE"
    /\ HumanRequestIsFinal

\* A step to another node than the last, which keeps what was requested.
LEMMA HandKept ==
    ASSUME route' \notin {"prepare_risk", "END"},
           HumanRequested' => payload'.planner_requested_human \/ payload'.terminal # "NONE"
    PROVE  HandInv'
BY DEF HandInv, HumanRequestIsFinal, Formal, HumanRequested

\* A decision other than a request adds none.
LEMMA NotRequested ==
    ASSUME context \in Contexts, NEW n \in Nat, NEW reason, NEW d \in Decisions(reason, n),
           d # "REQUEST_HUMAN_REVIEW", UNCHANGED item,
           context' = IF d = "INVALID" THEN context ELSE Traced(context, d, n),
           HumanRequested'
    PROVE  HumanRequested
<1> DEFINE t == context.planner_trace
<1>1. t \in Seq(Actions) /\ Len(t) \in Nat /\ DOMAIN t = 1..Len(t)
  BY DEF Contexts
<1>2. context'.planner_trace = t \/ context'.planner_trace = Append(t, d)
  BY DecidedContext
<1>3. CASE context'.planner_trace = t
  BY <1>3 DEF HumanRequested
<1>4. CASE context'.planner_trace = Append(t, d)
  <2>1. PICK i \in DOMAIN Append(t, d) :
            i > Len(item.trace) /\ Append(t, d)[i] = "REQUEST_HUMAN_REVIEW"
    BY <1>4 DEF HumanRequested
  <2>2. i \in 1..Len(t) /\ t[i] = "REQUEST_HUMAN_REVIEW"
    BY <1>1, <2>1
  <2>3. QED
    BY <1>1, <2>1, <2>2 DEF HumanRequested
<1>5. QED
  BY <1>2, <1>3, <1>4

\* The trace of earlier runs has none of this run's requests.
LEMMA RestoredTrace ==
    ASSUME NEW t \in Seq(Actions)
    PROVE  ~\E i \in DOMAIN t : i > Len(t)
OBVIOUS

LEMMA HandStep == TypeOK /\ HandInv /\ [Next]_vars => HandInv'
<1> SUFFICES ASSUME TypeOK, HandInv, [Next]_vars PROVE HandInv'
  OBVIOUS
<1>1. /\ item \in Items /\ payload \in Payloads /\ NewPayload \in Payloads
      /\ context \in Contexts
      /\ payload.retrieval_repair_count \in Nat
      /\ NewPayload.retrieval_repair_count \in Nat
      /\ analyses + 1 \in Nat
  BY NewPayloadType, ContextsType DEF TypeOK, Payloads
<1>2. ASSUME NEW p \in Payloads, NEW s \in {"RETRIEVAL_FAILED", "NEED_MANUAL_REVIEW",
                                          "LLM_OUTPUT_INVALID", "HUMAN_REVIEW_PENDING"},
             EndsWith(p, s)
      PROVE  HandInv'
  <2>1. payload'.terminal = s /\ route' = "finalize_risk"
    BY <1>2 DEF EndsWith, Finalize, Payloads
  <2>2. QED
    BY <2>1, HandKept
<1>3. ASSUME route' \notin {"prepare_risk", "END"},
             context'.planner_trace = context.planner_trace, UNCHANGED item,
             payload.planner_requested_human => payload'.planner_requested_human,
             payload.terminal # "NONE" => payload'.terminal # "NONE"
      PROVE  HandInv'
  BY <1>3, HandKept DEF HandInv, HumanRequested
<1>4. CASE PrepareCompleted
  <2>1. context'.planner_trace = item'.trace
    BY <1>4 DEF PrepareCompleted, HandInv
  <2>2. ~HumanRequested'
    BY <1>1, <1>4, <2>1, ItemFacts, RestoredTrace DEF HumanRequested, PrepareCompleted
  <2>3. QED
    BY <1>4, <2>2, HandKept DEF PrepareCompleted, Finalize
<1>5. CASE PrepareRepair
  <2>1. PICK d \in Decisions("RETRIEVAL_INSUFFICIENT", NewPayload.retrieval_repair_count) :
          /\ context' = IF d = "INVALID" THEN context
                        ELSE Traced(context, d, NewPayload.retrieval_repair_count)
          /\ \/ d = "RETRIEVE_AGAIN" /\ route' = "repair_retrieval"
             \/ EndsWith(NewPayload, "RETRIEVAL_FAILED")
    BY <1>5 DEF PrepareRepair
  <2>2. CASE d = "RETRIEVE_AGAIN" /\ route' = "repair_retrieval"
    <3>1. ~HumanRequested /\ UNCHANGED item
      BY <1>1, <1>5, ItemFacts, RestoredTrace DEF PrepareRepair, HandInv, HumanRequested
    <3>2. ~HumanRequested'
      BY <1>1, <2>1, <2>2, <3>1, NotRequested
    <3>3. QED
      BY <2>2, <3>2, HandKept
  <2>3. CASE EndsWith(NewPayload, "RETRIEVAL_FAILED")
    BY <1>1, <1>2, <2>3
  <2>4. QED
    BY <2>1, <2>2, <2>3
<1>6. CASE PrepareRoute
  <2>1. context'.planner_trace = item'.trace
    BY <1>6 DEF PrepareRoute, HandInv
  <2>2. ~HumanRequested'
    BY <1>1, <1>6, <2>1, ItemFacts, RestoredTrace DEF HumanRequested, PrepareRoute
  <2>3. QED
    BY <1>6, <2>2, HandKept DEF PrepareRoute
<1>7. CASE AnalyzeSettled
  <2>1. /\ payload'.planner_requested_human = payload.planner_requested_human
        /\ payload'.terminal = payload.terminal
    BY <1>1, <1>7 DEF AnalyzeSettled, Finalize, Payloads
  <2>2. QED
    BY <1>3, <1>7, <2>1 DEF AnalyzeSettled, Finalize
<1>8. CASE AnalyzeInvalid
  BY <1>1, <1>2, <1>8 DEF AnalyzeInvalid, InvalidOutput
<1>9. CASE AnalyzeUnsure
  <2>1. PICK f \in Findings({analyses + 1}),
             d \in Decisions("LOW_CONFIDENCE", payload.retrieval_repair_count) :
          LET p == [payload EXCEPT !.finding = f]
              ctx == IF d = "INVALID" THEN context
                     ELSE Traced(context, d, payload.retrieval_repair_count) IN
          \/ /\ d = "ANALYZE_AGAIN"
             /\ \E g \in Findings({analyses + 2}) : payload' = [payload EXCEPT !.finding = g]
             /\ context' = ctx
             /\ route' = "criticize_risk"
          \/ /\ payload' = [p EXCEPT !.planner_requested_human = TRUE]
             /\ route' = "criticize_risk"
          \/ EndsWith(p, "NEED_MANUAL_REVIEW")
          \/ EndsWith(p, "LLM_OUTPUT_INVALID")
    BY <1>9 DEF AnalyzeUnsure, InvalidOutput
  <2> DEFINE p == [payload EXCEPT !.finding = f]
             ctx == IF d = "INVALID" THEN context
                    ELSE Traced(context, d, payload.retrieval_repair_count)
  <2>2. p \in Payloads
    BY <1>1, FindingsGrow, PayloadUpdates
  <2>3. CASE /\ d = "ANALYZE_AGAIN"
             /\ \E g \in Findings({analyses + 2}) : payload' = [payload EXCEPT !.finding = g]
             /\ context' = ctx
             /\ route' = "criticize_risk"
    <3>1. HumanRequested' => HumanRequested
      <4>1. UNCHANGED item
        BY <1>9 DEF AnalyzeUnsure
      <4>2. QED
        BY <1>1, <2>3, <4>1, NotRequested DEF HumanRequested
    <3>2. /\ payload'.planner_requested_human = payload.planner_requested_human
          /\ payload'.terminal = payload.terminal
      BY <1>1, <2>3 DEF Payloads
    <3>3. QED
      BY <2>3, <3>1, <3>2, HandKept DEF HandInv
  <2>4. CASE /\ payload' = [p EXCEPT !.planner_requested_human = TRUE]
             /\ route' = "criticize_risk"
    <3> HIDE DEF p
    <3>1. payload'.planner_requested_human
      BY <2>2, <2>4 DEF Payloads
    <3>2. QED
      BY <2>4, <3>1, HandKept
  <2>5. CASE EndsWith(p, "NEED_MANUAL_REVIEW") \/ EndsWith(p, "LLM_OUTPUT_INVALID")
    BY <1>2, <2>2, <2>5
  <2>6. QED
    BY <2>1, <2>3, <2>4, <2>5
<1>10. CASE CriticPasses \/ CriticDoubts
  <2>1. /\ payload'.planner_requested_human = payload.planner_requested_human
        /\ payload'.terminal = payload.terminal
    BY <1>1, <1>10 DEF CriticPasses, CriticDoubts, Payloads
  <2>2. QED
    BY <1>3, <1>10, <2>1 DEF CriticPasses, CriticDoubts
<1>11. CASE CriticBlocksInjection \/ CriticInvalid \/ CriticRaises
  BY <1>1, <1>2, <1>11 DEF CriticBlocksInjection, CriticInvalid, CriticRaises, InvalidOutput
<1>12. WithEvidence(payload) \in Payloads
       /\ WithEvidence(payload).planner_requested_human = payload.planner_requested_human
       /\ WithEvidence(payload).terminal = payload.terminal
  BY <1>1, WithEvidenceType DEF WithEvidence, Payloads
<1>13. CASE EvidenceHolds
  <2>1. /\ payload'.planner_requested_human = payload.planner_requested_human
        /\ payload'.terminal = payload.terminal
    BY <1>12, <1>13 DEF EvidenceHolds, Finalize, Payloads
  <2>2. QED
    BY <1>3, <1>13, <2>1 DEF EvidenceHolds, Finalize
<1>14. CASE EvidenceFails
  <2> DEFINE q == WithEvidence(payload)
             manual == [q EXCEPT !.finding = Candidate(@),
                                 !.planner_requested_human = TRUE,
                                 !.outcome = "manual"]
  <2>1. PICK d \in Decisions(EvidenceReason, payload.retrieval_repair_count) :
          /\ context' = IF d = "INVALID" THEN context
                        ELSE Traced(context, d, payload.retrieval_repair_count)
          /\ \/ /\ d = "RETRIEVE_AGAIN"
                /\ payload' = [q EXCEPT !.evidence_retry_count = @ + 1]
                /\ route' = "repair_retrieval"
             \/ /\ \/ payload' = manual
                   \/ payload' = [manual EXCEPT !.terminal = "HUMAN_REVIEW_PENDING"]
                /\ route' = "finalize_risk"
    BY <1>14 DEF EvidenceFails, EndsWith, Finalize
  <2>2. q \in Payloads
    BY <1>12
  <2>3. CASE /\ d = "RETRIEVE_AGAIN"
             /\ payload' = [q EXCEPT !.evidence_retry_count = @ + 1]
             /\ route' = "repair_retrieval"
    <3>1. HumanRequested' => HumanRequested
      <4>1. UNCHANGED item
        BY <1>14 DEF EvidenceFails
      <4>2. QED
        BY <1>1, <2>1, <2>3, <4>1, NotRequested DEF HumanRequested
    <3>2. /\ payload'.planner_requested_human = payload.planner_requested_human
          /\ payload'.terminal = payload.terminal
      <4> HIDE DEF q
      <4>1. /\ q.planner_requested_human = payload.planner_requested_human
            /\ q.terminal = payload.terminal
        BY <1>12 DEF q
      <4>2. QED
        BY <2>2, <2>3, <4>1 DEF Payloads
    <3>3. QED
      BY <2>3, <3>1, <3>2, HandKept DEF HandInv
  <2>4. CASE /\ \/ payload' = manual
                \/ payload' = [manual EXCEPT !.terminal = "HUMAN_REVIEW_PENDING"]
             /\ route' = "finalize_risk"
    <3>1. payload'.planner_requested_human
      <4> HIDE DEF q
      <4>1. QED
        BY <2>2, <2>4 DEF Payloads
    <3>2. QED
      BY <2>4, <3>1, HandKept
  <2>5. QED
    BY <2>1, <2>3, <2>4
<1>15. CASE EvidenceRaises
  <2>1. /\ payload'.planner_requested_human = payload.planner_requested_human
        /\ payload'.terminal = payload.terminal
    BY <1>1, <1>15 DEF EvidenceRaises, Finalize, Payloads
  <2>2. QED
    BY <1>3, <1>15, <2>1 DEF EvidenceRaises, Finalize
<1>16. CASE Repaired
  <2>1. /\ payload'.planner_requested_human = payload.planner_requested_human
        /\ payload'.terminal = payload.terminal
    BY <1>1, <1>16 DEF Repaired, Payloads
  <2>2. context'.planner_trace = context.planner_trace /\ route' = "analyze_risk"
        /\ UNCHANGED item
    BY <1>1, <1>16 DEF Repaired, Contexts
  <2>3. QED
    BY <1>3, <2>1, <2>2
<1>17. CASE RepairFails
  <2>1. payload.retrieval_repair_count + 1 \in Nat
    BY <1>1
  <2>2. [payload EXCEPT !.retrieval_repair_count = @ + 1] \in Payloads
    BY <1>1, <2>1, PayloadUpdates
  <2>3. QED
    BY <1>2, <1>17, <2>2 DEF RepairFails
<1>18. CASE FinalizeRisk
  <2>1. HumanRequested' => ~Formal'
    <3> SUFFICES ASSUME HumanRequested', Formal' PROVE FALSE
      OBVIOUS
    <3>1. HumanRequested
      BY <1>18 DEF FinalizeRisk, HumanRequested
    <3>2. result'.risk_finding.review_status = "CONFIRMED_RISK"
      BY DEF Formal
    <3>3. QED
      BY <1>18, <3>1, <3>2, FinalizeFacts DEF HandInv
  <2>2. UNCHANGED <<item, payload, context>> /\ route' = "END"
    BY <1>18 DEF FinalizeRisk
  <2>3. QED
    BY <2>1, <2>2 DEF HandInv, HumanRequestIsFinal, HumanRequested
<1>19. CASE Interrupted
  BY <1>3, <1>19 DEF Interrupted
<1>20. CASE UNCHANGED vars
  BY <1>20 DEF vars, HandInv, HumanRequestIsFinal, Formal, HumanRequested
<1>21. QED
  BY <1>4, <1>5, <1>6, <1>7, <1>8, <1>9, <1>10, <1>11, <1>13, <1>14, <1>15, <1>16, <1>17,
     <1>18, <1>19, <1>20
     DEF Next, Branch, PrepareRisk, AnalyzeRisk, CriticizeRisk, VerifyEvidence, RepairRetrieval

\* Once the planner has asked for a human, no later step of this run of the
\* branch makes its risk formal, whatever traces earlier runs have left.
THEOREM HumanRequestsAreFinal == Spec => []HumanRequestIsFinal
<1>1. Init => HandInv
  <2> SUFFICES ASSUME Init PROVE HandInv
    OBVIOUS
  <2>1. context.planner_trace = item.trace /\ item.trace \in Seq(Actions)
    BY ItemFacts DEF Init
  <2>2. ~HumanRequested
    BY <2>1, RestoredTrace DEF HumanRequested
  <2>3. QED
    BY <2>1, <2>2 DEF Init, HandInv, HumanRequestIsFinal
<1>2. HandInv => HumanRequestIsFinal
  BY DEF HandInv
<1>3. QED
  BY BranchTypeCorrect, HandStep, <1>1, <1>2, PTL DEF Spec

-----------------------------------------------------------------------------
(* Refinement of BranchOutcome.                                            *)

\* A branch without an analysis has failed by the time it is finalized, and
\* nothing is reported before that.
EndInv ==
    /\ route # "END" => result = NoResult
    /\ payload.finding = NoFinding => item.finding = NoFinding
    /\ route = "finalize_risk" /\ payload.finding = NoFinding => payload.terminal \in BranchFailures
    /\ route \in {"criticize_risk", "verify_evidence"} => payload.finding # NoFinding

LEMMA MadeFindings ==
    /\ NoFinding \notin Findings(Nat)
    /\ \A f \in Findings(Nat) \cup {NoFinding} : Candidate(f) # NoFinding
<1>1. NoFinding.review_status = "NONE"
  BY DEF NoFinding
<1>2. \A f \in Findings(Nat) : f.review_status # "NONE"
  BY DEF Findings
<1>3. QED
  BY <1>1, <1>2, FindingsGrow

LEMMA EndStep == TypeOK /\ EndInv /\ [Next]_vars => EndInv'
<1> SUFFICES ASSUME TypeOK, EndInv, [Next]_vars PROVE EndInv'
  OBVIOUS
<1>1. /\ item \in Items /\ payload \in Payloads /\ NewPayload \in Payloads
      /\ NewPayload.finding = item.finding
      /\ item.finding \in Findings(Nat) \cup {NoFinding}
      /\ payload.finding \in Findings(Nat) \cup {NoFinding}
      /\ analyses + 1 \in Nat /\ Findings({analyses + 1}) \subseteq Findings(Nat)
      /\ analyses + 2 \in Nat /\ Findings({analyses + 2}) \subseteq Findings(Nat)
  <2>1. /\ item \in Items /\ payload \in Payloads
        /\ analyses + 1 \in Nat /\ analyses + 2 \in Nat
    BY DEF TypeOK
  <2>2. NewPayload \in Payloads
    BY <2>1, NewPayloadType
  <2>3. NewPayload.finding = item.finding
    BY DEF NewPayload
  <2>4. item.finding \in Findings(Nat) \cup {NoFinding}
    BY <2>1, ItemFacts, FindingsGrow
  <2>5. payload.finding \in Findings(Nat) \cup {NoFinding}
    BY <2>1 DEF Payloads
  <2>6. QED
    BY <2>1, <2>2, <2>3, <2>4, <2>5, FindingsGrow
<1>2. ASSUME UNCHANGED <<item, result>>, route # "END", route' # "END",
             \/ payload'.finding \in Findings(Nat)
             \/ /\ payload'.finding = payload.finding \/ payload'.finding = item.finding
                /\ route' \notin {"finalize_risk", "criticize_risk", "verify_evidence"}
             \/ /\ payload'.finding = payload.finding \/ payload'.finding = item.finding
                /\ route' = "finalize_risk"
                /\ payload'.terminal \in BranchFailures
      PROVE  EndInv'
  BY <1>1, <1>2, MadeFindings DEF EndInv
<1>3. CASE PrepareCompleted
  <2>1. /\ payload'.finding = item.finding
        /\ route = "prepare_risk" /\ route' = "finalize_risk"
        /\ UNCHANGED <<item, result>>
    BY <1>1, <1>3 DEF PrepareCompleted, Finalize, Payloads
  <2>2. item.finding # NoFinding
    BY <1>1, <1>3, ItemFacts DEF PrepareCompleted
  <2>3. QED
    BY <1>1, <1>2, <2>1, <2>2
<1>4. CASE PrepareRepair
  <2>1. payload'.finding = item.finding
    BY <1>1, <1>4 DEF PrepareRepair, EndsWith, Finalize, Payloads
  <2>2. \/ route' = "repair_retrieval"
        \/ route' = "finalize_risk" /\ payload'.terminal = "RETRIEVAL_FAILED"
    BY <1>1, <1>4 DEF PrepareRepair, EndsWith, Finalize, Payloads
  <2>3. QED
    BY <1>2, <1>4, <2>1, <2>2 DEF PrepareRepair, BranchFailures
<1>5. CASE PrepareRoute
  <2>1. /\ payload'.finding = item.finding
        /\ route' = CASE item.finding = NoFinding               -> "analyze_risk"
                      [] item.finding.review_status = "NO_RISK" -> "finalize_risk"
                      [] OTHER                                  -> "criticize_risk"
    BY <1>1, <1>5 DEF PrepareRoute
  <2>2. CASE item.finding = NoFinding
    <3>1. route' = "analyze_risk"
      BY <2>1, <2>2 DEF NoFinding
    <3>2. QED
      BY <1>2, <1>5, <2>1, <3>1 DEF PrepareRoute
  <2>3. CASE item.finding # NoFinding
    BY <1>1, <1>2, <1>5, <2>1, <2>3 DEF PrepareRoute
  <2>4. QED
    BY <2>2, <2>3
<1>6. CASE AnalyzeSettled
  <2>1. payload'.finding \in Findings(Nat)
    BY <1>1, <1>6 DEF AnalyzeSettled, Finalize, Payloads
  <2>2. QED
    BY <1>2, <1>6, <2>1 DEF AnalyzeSettled, Finalize
<1>7. ASSUME NEW p \in Payloads, NEW s, EndsWith(p, s)
      PROVE  /\ payload'.finding = p.finding
             /\ payload'.terminal = s
             /\ route' = "finalize_risk"
  BY <1>7 DEF EndsWith, Finalize, Payloads
<1>8. CASE AnalyzeInvalid
  BY <1>1, <1>2, <1>7, <1>8 DEF AnalyzeInvalid, InvalidOutput, BranchFailures
<1>9. CASE AnalyzeUnsure
  <2>1. PICK f \in Findings({analyses + 1}) :
           \/ \E g \in Findings({analyses + 2}) :
                /\ payload' = [payload EXCEPT !.finding = g]
                /\ route' = "criticize_risk"
           \/ /\ payload' = [[payload EXCEPT !.finding = f]
                               EXCEPT !.planner_requested_human = TRUE]
              /\ route' = "criticize_risk"
           \/ EndsWith([payload EXCEPT !.finding = f], "NEED_MANUAL_REVIEW")
           \/ EndsWith([payload EXCEPT !.finding = f], "LLM_OUTPUT_INVALID")
    BY <1>9 DEF AnalyzeUnsure, InvalidOutput
  <2> DEFINE p == [payload EXCEPT !.finding = f]
  <2>2. p \in Payloads /\ p.finding = f
    BY <1>1 DEF Payloads
  <2>3. CASE \E g \in Findings({analyses + 2}) :
                /\ payload' = [payload EXCEPT !.finding = g]
                /\ route' = "criticize_risk"
    <3>1. payload'.finding \in Findings(Nat) /\ route' = "criticize_risk"
      BY <1>1, <2>3 DEF Payloads
    <3>2. QED
      BY <1>2, <1>9, <3>1 DEF AnalyzeUnsure
  <2>4. CASE /\ payload' = [p EXCEPT !.planner_requested_human = TRUE]
             /\ route' = "criticize_risk"
    <3> HIDE DEF p
    <3>1. payload'.finding = f
      BY <2>2, <2>4 DEF Payloads
    <3>2. QED
      BY <1>1, <1>2, <1>9, <2>4, <3>1 DEF AnalyzeUnsure
  <2>5. CASE EndsWith(p, "NEED_MANUAL_REVIEW") \/ EndsWith(p, "LLM_OUTPUT_INVALID")
    <3> HIDE DEF p
    <3>1. payload'.finding = f /\ route' = "finalize_risk"
      BY <1>7, <2>2, <2>5
    <3>2. QED
      BY <1>1, <1>2, <1>9, <3>1 DEF AnalyzeUnsure
  <2>6. QED
    BY <2>1, <2>3, <2>4, <2>5
<1>10. CASE CriticizeRisk
  <2>1. payload.finding \in Findings(Nat)
    BY <1>1, <1>10 DEF CriticizeRisk, CriticPasses, CriticDoubts, CriticBlocksInjection,
                       CriticInvalid, CriticRaises, EndInv
  <2>2. payload'.finding = payload.finding /\ route' \in {"verify_evidence", "finalize_risk"}
    BY <1>1, <1>10 DEF CriticizeRisk, CriticPasses, CriticDoubts, CriticBlocksInjection,
                       CriticInvalid, CriticRaises, InvalidOutput, EndsWith, Finalize, Payloads
  <2>3. UNCHANGED <<item, result>> /\ route = "criticize_risk"
    BY <1>10 DEF CriticizeRisk, CriticPasses, CriticDoubts, CriticBlocksInjection,
                 CriticInvalid, CriticRaises
  <2>4. QED
    BY <1>2, <2>1, <2>2, <2>3
<1>11. WithEvidence(payload) \in Payloads /\ WithEvidence(payload).finding = payload.finding
  BY <1>1, WithEvidenceType DEF WithEvidence, Payloads
<1>12. CASE EvidenceHolds
  <2>1. payload'.finding = payload.finding
    BY <1>11, <1>12 DEF EvidenceHolds, Finalize, Payloads
  <2>2. payload.finding \in Findings(Nat)
    BY <1>1, <1>12 DEF EvidenceHolds, EndInv
  <2>3. QED
    BY <1>2, <1>12, <2>1, <2>2 DEF EvidenceHolds, Finalize
<1>13. CASE EvidenceFails
  <2> DEFINE q == WithEvidence(payload)
             manual == [q EXCEPT !.finding = Candidate(@),
                                 !.planner_requested_human = TRUE,
                                 !.outcome = "manual"]
  <2>1. /\ payload.finding \in Findings(Nat)
        /\ route = "verify_evidence"
        /\ UNCHANGED <<item, result>>
        /\ route' \in {"repair_retrieval", "finalize_risk"}
        /\ \/ payload' = [q EXCEPT !.evidence_retry_count = @ + 1]
           \/ payload' = manual
           \/ payload' = [manual EXCEPT !.terminal = "HUMAN_REVIEW_PENDING"]
    BY <1>1, <1>13 DEF EvidenceFails, EndsWith, Finalize, EndInv
  <2>2. payload'.finding \in {payload.finding, Candidate(payload.finding)}
    <3>1. q \in Payloads /\ q.finding = payload.finding
      BY <1>11
    <3> HIDE DEF q
    <3>2. CASE payload' = [q EXCEPT !.evidence_retry_count = @ + 1]
      BY <3>1, <3>2 DEF Payloads
    <3>3. CASE payload' = manual \/ payload' = [manual EXCEPT !.terminal = "HUMAN_REVIEW_PENDING"]
      <4>1. manual.finding = Candidate(q.finding) /\ manual \in [DOMAIN q -> UNION {{manual[x]} : x \in DOMAIN q}]
        BY <3>1 DEF Payloads
      <4>2. QED
        BY <3>1, <3>3, <4>1 DEF Payloads
    <3>4. QED
      BY <2>1, <3>2, <3>3
  <2>3. QED
    BY <1>2, <2>1, <2>2, FindingsGrow
<1>14. CASE EvidenceRaises
  <2>1. payload'.finding = Candidate(payload.finding)
    BY <1>1, <1>14 DEF EvidenceRaises, Finalize, Payloads
  <2>2. QED
    BY <1>1, <1>2, <1>14, <2>1, FindingsGrow DEF EvidenceRaises, Finalize
<1>15. CASE Repaired
  <2>1. payload'.finding = payload.finding
    BY <1>1, <1>15 DEF Repaired, Payloads
  <2>2. QED
    BY <1>2, <1>15, <2>1 DEF Repaired
<1>16. CASE RepairFails
  <2>1. payload'.finding = payload.finding /\ payload'.terminal = "RETRIEVAL_FAILED"
    BY <1>1, <1>16 DEF RepairFails, EndsWith, Finalize, Payloads
  <2>2. QED
    BY <1>2, <1>16, <2>1 DEF RepairFails, EndsWith, Finalize, BranchFailures
<1>17. CASE FinalizeRisk
  BY <1>17 DEF FinalizeRisk, EndInv
<1>18. CASE Interrupted
  BY <1>18 DEF Interrupted, EndInv
<1>19. CASE UNCHANGED vars
  BY <1>19 DEF vars, EndInv
<1>20. QED
  BY <1>3, <1>4, <1>5, <1>6, <1>8, <1>9, <1>10, <1>12, <1>13, <1>14, <1>15, <1>16, <1>17,
     <1>18, <1>19
     DEF Next, Branch, PrepareRisk, AnalyzeRisk, VerifyEvidence, RepairRetrieval

\* What the fan-out reads of a finding.
LEMMA VerdictFacts ==
    /\ Verdict(NoFinding) = "none" /\ ~IsRisk(NoFinding)
    /\ \A f \in Findings(Nat) : /\ Verdict(f) = IF IsRisk(f) THEN "risk" ELSE "no_risk"
                               /\ IsRisk(Candidate(f))
<1>1. Verdict(NoFinding) = "none" /\ ~IsRisk(NoFinding)
  BY DEF Verdict, IsRisk, NoFinding
<1>2. ASSUME NEW f \in Findings(Nat)
      PROVE  /\ Verdict(f) = IF IsRisk(f) THEN "risk" ELSE "no_risk"
             /\ IsRisk(Candidate(f))
  <2>1. f.review_status \in {"CONFIRMED_RISK", "NEED_MANUAL_REVIEW", "NO_RISK"}
    BY DEF Findings
  <2>2. Candidate(f).review_status = "NEED_MANUAL_REVIEW"
    BY DEF Findings, Candidate
  <2>3. QED
    BY <2>1, <2>2 DEF Verdict, IsRisk
<1>3. QED
  BY <1>1, <1>2

\* finalize_risk ends the branch with one of the outcomes it promises.
LEMMA FinalizeEnds ==
    ASSUME TypeOK, EndInv, FinalizeRisk
    PROVE  Promise!End
<1> DEFINE f == IF item.final # NoFinding THEN item.final ELSE payload.finding
           r == IF IsRisk(f) /\ payload.terminal = "NONE"
                THEN IF MustBeManual(f) THEN Candidate(f) ELSE f
                ELSE NoFinding
<1>1. /\ route = "finalize_risk" /\ route' = "END" /\ UNCHANGED item
      /\ result' = [analysis_result |-> payload.finding, risk_finding |-> r,
                    terminal |-> payload.terminal, outcome |-> payload.outcome]
  BY DEF FinalizeRisk
<1>2. /\ payload.finding \in Findings(Nat) \cup {NoFinding}
      /\ payload.terminal \in {"NONE"} \cup BranchFailures \cup ToHuman
  BY DEF TypeOK, Payloads, BranchFailures, ToHuman
<1>3. f \in Findings(Nat) \cup {NoFinding}
  BY <1>2, ItemFacts, FindingsGrow DEF TypeOK
<1>4. IsRisk(r) <=> IsRisk(f) /\ payload.terminal = "NONE"
  <2> HIDE DEF f
  <2>1. QED
    BY <1>3, VerdictFacts
<1> HIDE DEF r
<1>5. /\ Outcome'.verdict = Verdict(payload.finding)
      /\ Outcome'.finding # "none" <=> IsRisk(r)
      /\ Outcome'.finding \in {"none", "formal", "manual"}
      /\ Outcome'.terminal = payload.terminal
      /\ Outcome' \in AnyOutcome
  <2>1. Verdict(payload.finding) \in {"none", "no_risk", "risk"}
    BY DEF Verdict
  <2>2. Outcome' = [verdict  |-> Verdict(payload.finding),
                    finding  |-> CASE ~IsRisk(r)                         -> "none"
                                   [] r.review_status = "CONFIRMED_RISK" -> "formal"
                                   [] OTHER                              -> "manual",
                    terminal |-> payload.terminal]
    BY <1>1 DEF Outcome, Verdict, IsRisk
  <2> DEFINE o == CASE ~IsRisk(r)                         -> "none"
                    [] r.review_status = "CONFIRMED_RISK" -> "formal"
                    [] OTHER                              -> "manual"
  <2>3. o \in {"none", "formal", "manual"} /\ (o # "none" <=> IsRisk(r))
    BY DEF IsRisk
  <2> HIDE DEF o
  <2>4. Outcome' = [verdict |-> Verdict(payload.finding), finding |-> o,
                    terminal |-> payload.terminal]
    BY <2>2 DEF o
  <2>5. QED
    BY <1>2, <2>1, <2>3, <2>4 DEF AnyOutcome
<1>6. ASSUME item.final = NoFinding PROVE Outcome' \in Outcomes
  <2>1. f = payload.finding
    BY <1>6
  <2>2. Outcome'.verdict = "none" => Outcome'.terminal \in BranchFailures
    BY <1>1, <1>2, <1>5, VerdictFacts DEF EndInv
  <2>3. Outcome'.verdict = "risk" <=> IsRisk(f)
    BY <1>2, <1>5, <2>1, VerdictFacts
  <2> HIDE DEF f
  <2>4. QED
    BY <1>4, <1>5, <2>2, <2>3 DEF Outcomes
<1>7. ASSUME item.finding # NoFinding PROVE Outcome'.verdict # "none"
  BY <1>2, <1>5, <1>7, VerdictFacts DEF EndInv
<1>8. Place = "running" /\ Place' = "ended"
  BY <1>1 DEF Place
<1>9. Promise!AnyOutcome = AnyOutcome /\ Promise!Outcomes = Outcomes
  BY DEF Promise!AnyOutcome, Promise!Outcomes, Promise!BranchFailures, Promise!ToHuman,
         AnyOutcome, Outcomes, BranchFailures, ToHuman
<1>10. /\ (item.final # NoFinding)' = (item.final # NoFinding)
       /\ (item.finding # NoFinding)' = (item.finding # NoFinding)
  BY <1>1
<1>11. QED
  BY <1>5, <1>6, <1>7, <1>8, <1>9, <1>10 DEF Promise!End

LEMMA PromiseInit == Init => Promise!Init
<1> SUFFICES ASSUME Init PROVE Promise!Init
  OBVIOUS
<1>1. Place = "running"
  BY DEF Init, Place
<1>2. Outcome = [verdict |-> "none", finding |-> "none", terminal |-> "NONE"]
  BY VerdictFacts DEF Init, Outcome, NoResult, NoFinding, IsRisk
<1>3. /\ (item.final # NoFinding) \in BOOLEAN
      /\ (item.finding # NoFinding) \in BOOLEAN
  OBVIOUS
<1>4. Outcome = Promise!NoOutcome
  BY <1>2 DEF Promise!NoOutcome
<1>5. QED
  BY <1>1, <1>3, <1>4 DEF Promise!Init

\* Only finalize_risk and an interruption change what the fan-out sees.
LEMMA PromiseStep ==
    TypeOK /\ EndInv /\ [Next]_vars => [Promise!Next]_(Promise!vars)
<1> SUFFICES ASSUME TypeOK, EndInv, [Next]_vars PROVE [Promise!Next]_(Promise!vars)
  OBVIOUS
<1>1. ASSUME UNCHANGED <<item, result>>, Place' = Place
      PROVE  UNCHANGED Promise!vars
  BY <1>1 DEF Promise!vars, Outcome
<1>2. CASE FinalizeRisk
  BY <1>2, FinalizeEnds DEF Promise!Next
<1>3. CASE Interrupted
  <2>1. Place = "running" /\ Place' = "lost" /\ UNCHANGED <<item, result>>
    BY <1>3 DEF Interrupted, Place
  <2>2. QED
    BY <2>1 DEF Promise!Next, Promise!Lose, Outcome
<1>4. CASE UNCHANGED vars
  <2>1. UNCHANGED <<item, result>> /\ Place' = Place
    BY <1>4 DEF vars, Place
  <2>2. QED
    BY <1>1, <2>1
<1>5. CASE PrepareRisk \/ AnalyzeRisk \/ CriticizeRisk \/ VerifyEvidence \/ RepairRetrieval
  <2>1. UNCHANGED <<item, result>>
    BY <1>5 DEF PrepareRisk, PrepareCompleted, PrepareRepair, PrepareRoute, AnalyzeRisk,
       AnalyzeSettled, AnalyzeInvalid, AnalyzeUnsure, CriticizeRisk, CriticPasses,
       CriticDoubts, CriticBlocksInjection, CriticInvalid, CriticRaises, VerifyEvidence,
       EvidenceHolds, EvidenceFails, EvidenceRaises, RepairRetrieval, Repaired, RepairFails
  <2>2. route \in Nodes /\ route' \in Nodes
    BY <1>5 DEF Nodes, PrepareRisk, PrepareCompleted, PrepareRepair, PrepareRoute, AnalyzeRisk,
       AnalyzeSettled, AnalyzeInvalid, AnalyzeUnsure, CriticizeRisk, CriticPasses,
       CriticDoubts, CriticBlocksInjection, CriticInvalid, CriticRaises, VerifyEvidence,
       EvidenceHolds, EvidenceFails, EvidenceRaises, RepairRetrieval, Repaired, RepairFails,
       InvalidOutput, EndsWith, Finalize
  <2>3. Place = "running" /\ Place' = "running"
    BY <2>2 DEF Place, Nodes
  <2>4. QED
    BY <1>1, <2>1, <2>3
<1>6. QED
  BY <1>2, <1>3, <1>4, <1>5 DEF Next, Branch

\* The branch implements BranchOutcome: it ends once, and with an outcome that
\* aggregate_risks is made for.
THEOREM BranchKeepsPromise == Spec => KeepsPromise
<1>1. Init => EndInv
  BY NewPayloadType DEF Init, EndInv, NewPayload
<1>2. QED
  BY BranchTypeCorrect, EndStep, PromiseInit, PromiseStep, <1>1, PTL
     DEF Spec, KeepsPromise, Promise!Spec

=============================================================================
