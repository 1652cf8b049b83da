----------------------------- MODULE RiskBranch -----------------------------
(***************************************************************************)
(* One branch of the risk sub-graph: the six nodes of review_workflow.py   *)
(* _build_risk_graph that turn one review context into one risk result,    *)
(* with the planner (planner_service.py) that may grant a repair.          *)
(*                                                                         *)
(* A node is one step: it calls its tools, changes the branch's payload    *)
(* and names the next node.  What the model-backed tools answer is any     *)
(* answer their own validation lets through, or an exception.  Of a        *)
(* finding the model keeps what the routing looks at, and the verdict the  *)
(* deterministic evidence verifier has on it.                              *)
(***************************************************************************)
EXTENDS Naturals, Sequences, SequencesExt, RiskOutcomes

CONSTANTS
    MaxPlannerRetries,  \* MAX_PLANNER_RETRIES
    MaxEarlier,         \* decisions that earlier runs have left in the trace
    MayBeInterrupted    \* whether cancellation or a timeout may end the branch

ASSUME BudgetAssumption ==
    /\ MaxPlannerRetries \in Nat
    /\ MaxEarlier \in Nat
    /\ MayBeInterrupted \in BOOLEAN

VARIABLES
    item,      \* the risk_item that Send delivered
    route,     \* branch_route: the node that runs next
    context,   \* payload["review_context"]
    payload,   \* branch_payload
    result,    \* the branch's element of risk_results
    (* Observation only. *)
    passed,     \* the analyses that the critic has passed
    analyses,   \* analyses made in this branch
    retrievals  \* retrievals repeated in this branch

vars == <<item, route, context, payload, result, passed, analyses, retrievals>>

-----------------------------------------------------------------------------
(* Data.                                                                   *)

Nodes == {"prepare_risk", "analyze_risk", "criticize_risk", "verify_evidence",
          "repair_retrieval", "finalize_risk"}

\* review_status, confidence >= 0.7, severity high, the verifier's verdict on
\* its evidence, and which analysis of the branch made it (0: restored).
Findings(made) ==
    [review_status : {"CONFIRMED_RISK", "NEED_MANUAL_REVIEW", "NO_RISK"},
     confident     : BOOLEAN,
     high          : BOOLEAN,
     evidence      : {"supported", "missing", "conflict"},
     made          : made]

NoFinding == [review_status |-> "NONE", confident |-> TRUE, high |-> FALSE,
              evidence |-> "missing", made |-> 0]

Automatic == {"RETRIEVE_AGAIN", "ANALYZE_AGAIN"}

Actions == Automatic \cup {"REQUEST_HUMAN_REVIEW", "TERMINATE"}

\* ALLOWED_ACTIONS_BY_REASON
AllowedActions(reason) ==
    CASE reason = "LOW_CONFIDENCE" ->
            {"ANALYZE_AGAIN", "REQUEST_HUMAN_REVIEW", "TERMINATE"}
      [] reason = "STRUCTURED_OUTPUT_INVALID" ->
            {"REQUEST_HUMAN_REVIEW", "TERMINATE"}
      [] OTHER ->
            {"RETRIEVE_AGAIN", "REQUEST_HUMAN_REVIEW", "TERMINATE"}

\* _manual_review_candidate
Candidate(f) == [f EXCEPT !.review_status = "NEED_MANUAL_REVIEW"]

IsRisk(f) == f.review_status \in {"CONFIRMED_RISK", "NEED_MANUAL_REVIEW"}

\* The planner's trace and count in a persisted review context.  Only a branch
\* that has ended is persisted (_record_branch_progress, aggregate_risks); an
\* automatic action counts, and a repeated retrieval is never taken back.
EarlierTraces(count) ==
    {t \in SeqOf(Actions, MaxEarlier) :
        /\ count = 0 => /\ "RETRIEVE_AGAIN" \notin ToSet(t)
                        /\ t # <<>> => t[Len(t)] \notin Automatic
        /\ count > 0 => ToSet(t) \cap Automatic # {}}

Histories ==
    UNION {[count : {n}, trace : EarlierTraces(n)] : n \in 0..MaxPlannerRetries}

\* What an item may bring along: nothing; the analysis that an earlier run
\* persisted; with it the risk an earlier run concluded; or a branch that an
\* earlier run completed, as test_long_task_execution.py has them.  Its context
\* has the trace of earlier runs.
Items ==
    LET restored == Findings({0})
        concluded == {f \in restored : /\ f.review_status = "CONFIRMED_RISK"
                                       /\ f.confident
                                       /\ ~f.high
                                       /\ f.evidence = "supported"}
                     \cup {f \in restored : f.review_status = "NEED_MANUAL_REVIEW"}
        Item(completed, f, final) ==
            {[completed |-> completed, finding |-> f, final |-> final,
              related |-> r, retries |-> h.count, trace |-> h.trace] :
                r \in BOOLEAN, h \in Histories}
    IN  UNION ({Item(FALSE, f, NoFinding) : f \in restored \cup {NoFinding}}
               \cup {Item(c, f, f) : c \in BOOLEAN, f \in concluded}
               \cup {Item(TRUE, f, NoFinding) : f \in restored \ {g \in restored : IsRisk(g)}})

Payloads ==
    [finding                 : Findings(Nat) \cup {NoFinding},
     evidence_results        : Seq([made : Nat, is_valid : BOOLEAN]),
     planner_requested_human : BOOLEAN,
     critic_requested_human  : BOOLEAN,
     evidence_retry_count    : Nat,
     retrieval_repair_count  : Nat,
     outcome                 : {"manual", "no_risk", "existing", "verified"},
     terminal                : {"NONE", "RETRIEVAL_FAILED", "NEED_MANUAL_REVIEW",
                                "LLM_OUTPUT_INVALID", "HUMAN_REVIEW_PENDING"}]

NewPayload ==
    [finding                 |-> item.finding,
     evidence_results        |-> <<>>,
     planner_requested_human |-> FALSE,
     critic_requested_human  |-> FALSE,
     evidence_retry_count    |-> 0,
     retrieval_repair_count  |-> item.retries,
     outcome                 |-> "manual",
     terminal                |-> "NONE"]

Results == [analysis_result : Findings(Nat) \cup {NoFinding},
            risk_finding    : Findings(Nat) \cup {NoFinding},
            terminal        : {"NONE", "RETRIEVAL_FAILED", "NEED_MANUAL_REVIEW",
                               "LLM_OUTPUT_INVALID", "HUMAN_REVIEW_PENDING"},
            outcome         : {"manual", "no_risk", "existing", "verified"}]

NoResult == [analysis_result |-> NoFinding, risk_finding |-> NoFinding,
             terminal |-> "NONE", outcome |-> "manual"]

TypeOK ==
    /\ item \in Items
    /\ route \in Nodes \cup {"END", "interrupted"}
    /\ context \in [related : BOOLEAN, planner_retry_count : Nat,
                    planner_trace : Seq(Actions)]
    /\ payload \in Payloads
    /\ result \in Results
    /\ passed \subseteq Nat
    /\ analyses \in Nat
    /\ retrievals \in Nat

Init ==
    /\ item \in Items
    /\ route = "prepare_risk"
    /\ context = [related |-> item.related, planner_retry_count |-> item.retries,
                  planner_trace |-> item.trace]
    /\ payload = NewPayload
    /\ result = NoResult
    /\ passed = {}
    /\ analyses = 0
    /\ retrievals = 0

-----------------------------------------------------------------------------
(* The planner.                                                            *)

\* Mutant: the budget is compared with > as _validated_planner_input does.
GrantedInclusive(action, retry_count) ==
    action \in Automatic => retry_count <= MaxPlannerRetries

\* _validate_decision: an automatic action needs budget.
Granted(action, retry_count) ==
    action \in Automatic => retry_count < MaxPlannerRetries

\* plan_review_action: a decision, or "INVALID" for PlannerOutputInvalidError.
Decisions(reason, retry_count) ==
    {a \in AllowedActions(reason) : Granted(a, retry_count)} \cup {"INVALID"}

\* _append_planner_trace
Traced(ctx, action, retry_count) ==
    [ctx EXCEPT !.planner_trace = Append(@, action),
                !.planner_retry_count = IF action \in Automatic THEN retry_count + 1
                                                                ELSE retry_count]

-----------------------------------------------------------------------------
(* The nodes.                                                              *)

Finalize(p) ==
    /\ payload' = p
    /\ route' = "finalize_risk"

\* Mutant: the terminal is not handed on.
EndsUnmarked(p, status) == Finalize(p)

\* _set_branch_terminal, and on to finalize_risk.
EndsWith(p, status) == Finalize([p EXCEPT !.terminal = status])

\* _record_invalid_output_planner: its own failure is swallowed.
RecordsInvalidOutput(ctx) ==
    \E d \in Decisions("STRUCTURED_OUTPUT_INVALID", payload.retrieval_repair_count) :
        context' = IF d = "INVALID" THEN ctx
                   ELSE Traced(ctx, d, payload.retrieval_repair_count)

InvalidOutput(ctx, p) ==
    /\ RecordsInvalidOutput(ctx)
    /\ EndsWith(p, "LLM_OUTPUT_INVALID")

PrepareCompleted ==
    /\ route = "prepare_risk"
    /\ item.completed
    /\ Finalize([NewPayload EXCEPT
                    !.outcome = IF item.finding.review_status = "NO_RISK"
                                THEN "no_risk" ELSE "existing"])
    /\ UNCHANGED <<item, context, result, passed, analyses, retrievals>>

\* The contract has other clauses but none was recalled.
PrepareRepair ==
    /\ route = "prepare_risk"
    /\ ~item.completed
    /\ ~context.related
    /\ \E d \in Decisions("RETRIEVAL_INSUFFICIENT", NewPayload.retrieval_repair_count) :
        /\ context' = IF d = "INVALID" THEN context
                      ELSE Traced(context, d, NewPayload.retrieval_repair_count)
        /\ \/ /\ d = "RETRIEVE_AGAIN"
              /\ payload' = NewPayload
              /\ route' = "repair_retrieval"
           \/ /\ d # "RETRIEVE_AGAIN"
              /\ EndsWith(NewPayload, "RETRIEVAL_FAILED")
    /\ UNCHANGED <<item, result, passed, analyses, retrievals>>

PrepareRoute ==
    /\ route = "prepare_risk"
    /\ ~item.completed
    /\ context.related
    /\ payload' = NewPayload
    /\ route' = CASE item.finding = NoFinding               -> "analyze_risk"
                  [] item.finding.review_status = "NO_RISK" -> "finalize_risk"
                  [] OTHER                                  -> "criticize_risk"
    /\ UNCHANGED <<item, context, result, passed, analyses, retrievals>>

PrepareRisk == PrepareCompleted \/ PrepareRepair \/ PrepareRoute

\* What a first look at finding f leads to, but for LOW_CONFIDENCE.
AnalyzeSettled ==
    /\ route = "analyze_risk"
    /\ \E f \in Findings({analyses + 1}) :
        \/ /\ f.review_status = "NO_RISK"
           /\ Finalize([payload EXCEPT !.finding = f, !.outcome = "no_risk"])
        \/ /\ f.review_status # "NO_RISK"
           /\ f.confident
           /\ payload' = [payload EXCEPT !.finding = f]
           /\ route' = "criticize_risk"
    /\ analyses' = analyses + 1
    /\ UNCHANGED <<item, context, result, passed, retrievals>>

AnalyzeInvalid ==
    /\ route = "analyze_risk"
    /\ InvalidOutput(context, payload)
    /\ UNCHANGED <<item, result, passed, analyses, retrievals>>

\* Low confidence: the planner grants one more analysis, whose finding is
\* taken as it is, asks for a human or stops the branch.
AnalyzeUnsure ==
    /\ route = "analyze_risk"
    /\ \E f \in Findings({analyses + 1}),
          d \in Decisions("LOW_CONFIDENCE", payload.retrieval_repair_count) :
        LET p == [payload EXCEPT !.finding = f]
            ctx == IF d = "INVALID" THEN context
                   ELSE Traced(context, d, payload.retrieval_repair_count) IN
        /\ f.review_status # "NO_RISK"
        /\ ~f.confident
        /\ \/ /\ d = "ANALYZE_AGAIN"
              /\ \E g \in Findings({analyses + 2}) :
                    payload' = [payload EXCEPT !.finding = g]
              /\ context' = ctx
              /\ route' = "criticize_risk"
              /\ analyses' = analyses + 2
           \/ /\ d = "REQUEST_HUMAN_REVIEW"
              /\ payload' = [p EXCEPT !.planner_requested_human = TRUE]
              /\ context' = ctx
              /\ route' = "criticize_risk"
              /\ analyses' = analyses + 1
           \/ /\ d = "TERMINATE"
              /\ EndsWith(p, "NEED_MANUAL_REVIEW")
              /\ context' = ctx
              /\ analyses' = analyses + 1
           \* The planner's answer, or that of the second analysis, is invalid.
           \/ /\ d \in {"INVALID", "ANALYZE_AGAIN"}
              /\ InvalidOutput(ctx, p)
              /\ analyses' = analyses + 1
    /\ UNCHANGED <<item, result, passed, retrievals>>

AnalyzeRisk == AnalyzeSettled \/ AnalyzeInvalid \/ AnalyzeUnsure

\* PASS, and the suggested revision is valid.
CriticPasses ==
    /\ route = "criticize_risk"
    /\ payload' = [payload EXCEPT !.critic_requested_human = FALSE]
    /\ passed' = passed \cup {payload.finding.made}
    /\ route' = "verify_evidence"
    /\ UNCHANGED <<item, context, result, analyses, retrievals>>

\* REJECT, or REQUEST_HUMAN_REVIEW for an ambiguous reason.
CriticDoubts ==
    /\ route = "criticize_risk"
    /\ payload' = [payload EXCEPT !.critic_requested_human = TRUE]
    /\ route' = "verify_evidence"
    /\ UNCHANGED <<item, context, result, passed, analyses, retrievals>>

CriticBlocksInjection ==
    /\ route = "criticize_risk"
    /\ EndsWith(payload, "NEED_MANUAL_REVIEW")
    /\ UNCHANGED <<item, context, result, passed, analyses, retrievals>>

\* The critic's or the revision's output is invalid.
CriticInvalid ==
    /\ route = "criticize_risk"
    /\ InvalidOutput(context, payload)
    /\ UNCHANGED <<item, result, passed, analyses, retrievals>>

\* Any other exception keeps the candidate for a human.
CriticRaises ==
    /\ route = "criticize_risk"
    /\ EndsWith(payload, "HUMAN_REVIEW_PENDING")
    /\ UNCHANGED <<item, context, result, passed, analyses, retrievals>>

CriticizeRisk == \/ CriticPasses
                 \/ CriticDoubts
                 \/ CriticBlocksInjection
                 \/ CriticInvalid
                 \/ CriticRaises

\* verify_evidence's is_valid
Verified(p) == p.finding.evidence = "supported"

WithEvidence(p) ==
    [p EXCEPT !.evidence_results =
                Append(@, [made |-> p.finding.made, is_valid |-> Verified(p)])]

EvidenceHolds ==
    /\ route = "verify_evidence"
    /\ Verified(payload)
    /\ Finalize([WithEvidence(payload) EXCEPT !.outcome = "verified"])
    /\ UNCHANGED <<item, context, result, passed, analyses, retrievals>>

\* _evidence_planner_reason
EvidenceReason ==
    IF payload.finding.evidence = "conflict" THEN "ANALYZER_VERIFIER_CONFLICT"
                                             ELSE "EVIDENCE_MISSING"

EvidenceFails ==
    /\ route = "verify_evidence"
    /\ ~Verified(payload)
    /\ \E d \in Decisions(EvidenceReason, payload.retrieval_repair_count) :
        LET p == WithEvidence(payload)
            manual == [p EXCEPT !.finding = Candidate(@),
                                !.planner_requested_human = TRUE,
                                !.outcome = "manual"]
            repair == d = "RETRIEVE_AGAIN" /\ payload.evidence_retry_count < 1 IN
        /\ context' = IF d = "INVALID" THEN context
                      ELSE Traced(context, d, payload.retrieval_repair_count)
        /\ \/ /\ repair
              /\ payload' = [p EXCEPT !.evidence_retry_count = @ + 1]
              /\ route' = "repair_retrieval"
           \/ /\ ~repair /\ d # "INVALID"
              /\ Finalize(manual)
           \/ /\ d = "INVALID"
              /\ EndsWith(manual, "HUMAN_REVIEW_PENDING")
    /\ UNCHANGED <<item, result, passed, analyses, retrievals>>

\* The verifier itself raises: the candidate is kept, unverified.
EvidenceRaises ==
    /\ route = "verify_evidence"
    /\ Finalize([payload EXCEPT !.finding = Candidate(@), !.outcome = "manual"])
    /\ UNCHANGED <<item, context, result, passed, analyses, retrievals>>

VerifyEvidence == EvidenceHolds \/ EvidenceFails \/ EvidenceRaises

\* Mutant: the rebuilt context starts without the budget already spent.
RepairForgetsBudget ==
    /\ route = "repair_retrieval"
    /\ \E related \in BOOLEAN :
        context' = [context EXCEPT !.related = related, !.planner_retry_count = 0]
    /\ payload' = [payload EXCEPT !.retrieval_repair_count = @ + 1]
    /\ route' = "analyze_risk"
    /\ retrievals' = retrievals + 1
    /\ UNCHANGED <<item, result, passed, analyses>>

\* Mutant: a repaired branch is prepared afresh, from a context without trace.
RepairRestarts ==
    /\ route = "repair_retrieval"
    /\ \E related \in BOOLEAN :
        context' = [related |-> related, planner_retry_count |-> 0, planner_trace |-> <<>>]
    /\ payload' = [payload EXCEPT !.retrieval_repair_count = @ + 1]
    /\ route' = "prepare_risk"
    /\ retrievals' = 1
    /\ UNCHANGED <<item, result, passed, analyses>>

\* _rebuild_review_context with the retry count, then a new analysis.
Repaired ==
    /\ route = "repair_retrieval"
    /\ LET count == payload.retrieval_repair_count + 1 IN
        /\ \E related \in BOOLEAN :
            context' = [context EXCEPT !.related = related, !.planner_retry_count = count]
        /\ payload' = [payload EXCEPT !.retrieval_repair_count = count]
    /\ route' = "analyze_risk"
    /\ retrievals' = retrievals + 1
    /\ UNCHANGED <<item, result, passed, analyses>>

RepairFails ==
    /\ route = "repair_retrieval"
    /\ EndsWith([payload EXCEPT !.retrieval_repair_count = @ + 1], "RETRIEVAL_FAILED")
    /\ retrievals' = retrievals + 1
    /\ UNCHANGED <<item, context, result, passed, analyses>>

RepairRetrieval == Repaired \/ RepairFails

\* Mutant: the critic's doubt is not looked at.
MustBeManualWithoutCritic(f) ==
    \/ payload.planner_requested_human
    \/ f.review_status = "NEED_MANUAL_REVIEW"
    \/ f.high
    \/ ~f.confident

\* Mutant: only the candidate itself is looked at.
MustBeManualByFinding(f) ==
    \/ payload.critic_requested_human
    \/ f.review_status = "NEED_MANUAL_REVIEW"
    \/ f.high
    \/ ~f.confident

\* _requires_manual_review, or a request of the planner or of the critic.
MustBeManual(f) ==
    \/ payload.planner_requested_human
    \/ payload.critic_requested_human
    \/ f.review_status = "NEED_MANUAL_REVIEW"
    \/ f.high
    \/ ~f.confident

FinalizeRisk ==
    /\ route = "finalize_risk"
    /\ LET f == IF item.final # NoFinding THEN item.final ELSE payload.finding IN
        result' = [analysis_result |-> payload.finding,
                   risk_finding |->
                     IF IsRisk(f) /\ payload.terminal = "NONE"
                     THEN IF MustBeManual(f) THEN Candidate(f) ELSE f
                     ELSE NoFinding,
                   terminal |-> payload.terminal,
                   outcome |-> payload.outcome]
    /\ route' = "END"
    /\ UNCHANGED <<item, context, payload, passed, analyses, retrievals>>

\* EXECUTION_INTERRUPTS: every tool call checks for cancellation and may time
\* out; the exception leaves the sub-graph and the run.
Interrupted ==
    /\ MayBeInterrupted
    /\ route \in {"analyze_risk", "criticize_risk", "verify_evidence", "repair_retrieval"}
    /\ route' = "interrupted"
    /\ UNCHANGED <<item, context, payload, result, passed, analyses, retrievals>>

Branch == \/ PrepareRisk
          \/ AnalyzeRisk
          \/ CriticizeRisk
          \/ VerifyEvidence
          \/ RepairRetrieval
          \/ FinalizeRisk

Next == Branch \/ Interrupted

Spec == Init /\ [][Next]_vars

\* LangGraph runs the next node as soon as the last one has returned, and
\* every tool call returns, raises or is interrupted by its time limit.
FairSpec == Spec /\ WF_vars(Branch)

-----------------------------------------------------------------------------
(* Properties.                                                             *)

Formal == route = "END" /\ result.risk_finding.review_status = "CONFIRMED_RISK"

\* README.md item 68: a risk is formal, that is reported without a human's
\* decision, only if the critic passed and the verifier confirmed this very
\* finding, not one of an earlier analysis.  A finding that an earlier run had
\* made formal keeps that status.
FormalRiskIsChecked ==
    Formal =>
        \/ result.risk_finding = item.final
        \/ /\ result.risk_finding.made \in passed
           /\ [made |-> result.risk_finding.made, is_valid |-> TRUE]
                \in ToSet(payload.evidence_results)

\* The planner has asked for a human in this run of the branch.
HumanRequested ==
    \E i \in DOMAIN context.planner_trace :
        i > Len(item.trace) /\ context.planner_trace[i] = "REQUEST_HUMAN_REVIEW"

\* Once the planner has handed a candidate to a human, nothing that follows in
\* the same run, a repair and a confident new analysis included, makes it
\* formal.  A later run does not look for the request in the trace it restores
\* (prepare_risk sets planner_requested_human to False), so it is not in here.
HumanRequestIsFinal == HumanRequested => ~Formal

\* Whichever node asks for it, the retrievals that a branch repeats stay within
\* the budget together with those the row's review context counts: one.
RetrievalBudget == retrievals + item.retries <= MaxPlannerRetries

\* The context that an ended branch hands over to be persisted counts all its
\* retrievals, on whichever path it has ended, a failed repair included: a run
\* that restores this context does not grant them again.  Only ended branches
\* are persisted, so of an interrupted one the row knows nothing.
BudgetIsHandedOver ==
    route = "END" => context.planner_retry_count >= item.retries + retrievals

\* Every branch comes to an end, so aggregate_risks is reached.
BranchEnds == <>(route \in {"END", "interrupted"})

\* The branch as the fan-out sees it.
Place == CASE route = "END"         -> "ended"
           [] route = "interrupted" -> "lost"
           [] OTHER                 -> "running"

Verdict(f) == CASE IsRisk(f)                    -> "risk"
                [] f.review_status = "NO_RISK"  -> "no_risk"
                [] OTHER                        -> "none"

Outcome ==
    [verdict  |-> Verdict(result.analysis_result),
     finding  |-> CASE ~IsRisk(result.risk_finding)                         -> "none"
                    [] result.risk_finding.review_status = "CONFIRMED_RISK" -> "formal"
                    [] OTHER                                                -> "manual",
     terminal |-> result.terminal]

Promise == INSTANCE BranchOutcome WITH
    place     <- Place,
    concluded <- item.final # NoFinding,
    analysed  <- item.finding # NoFinding,
    outcome   <- Outcome

\* Whatever happens in the branch, it ends once and with an outcome that
\* aggregate_risks is made for (RiskFanout is built on these).
KeepsPromise == Promise!Spec

=============================================================================
