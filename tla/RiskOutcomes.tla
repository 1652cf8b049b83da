---------------------------- MODULE RiskOutcomes ----------------------------
(***************************************************************************)
(* How a risk branch can end: what finalize_risk hands to aggregate_risks, *)
(* as far as the task's result depends on it.                              *)
(***************************************************************************)

\* The statuses of _set_branch_terminal.
BranchFailures == {"RETRIEVAL_FAILED", "LLM_OUTPUT_INVALID"}
ToHuman == {"NEED_MANUAL_REVIEW", "HUMAN_REVIEW_PENDING"}

\* analysis_result, risk_finding and terminal of the branch's risk result.
AnyOutcome == [verdict  : {"none", "no_risk", "risk"},
               finding  : {"none", "formal", "manual"},
               terminal : {"NONE"} \cup BranchFailures \cup ToHuman]

NoOutcome == [verdict |-> "none", finding |-> "none", terminal |-> "NONE"]

\* Of a branch that no earlier run has concluded: only a failed one lacks an
\* analysis, and it reports a finding if and only if it went through and its
\* last analysis found a risk.
Outcomes ==
    {o \in AnyOutcome :
        /\ o.verdict = "none" => o.terminal \in BranchFailures
        /\ o.finding # "none" <=> o.verdict = "risk" /\ o.terminal = "NONE"}

=============================================================================
