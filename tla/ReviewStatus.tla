---------------------------- MODULE ReviewStatus ----------------------------
(***************************************************************************)
(* The status vocabulary shared by every component: the values of          *)
(* models/review.py ReviewStatus, and the tables that event_service.py and *)
(* review_agent_support.py attach to them.                                 *)
(***************************************************************************)
EXTENDS Naturals

\* The task row does not exist yet (no counterpart in the enum).
NoTask == "NO_TASK"

\* Progress labels a run may be resumed from, in order.
Recoverable == {"START", "UPLOAD_RECEIVED", "DOCUMENT_PARSED",
                "CONTRACT_TYPE_CLASSIFIED", "CLAUSES_STRUCTURED",
                "PLAYBOOK_RETRIEVED", "CONTEXT_BUILT", "RISK_ANALYZED"}

\* RECOVERABLE_STATUS_ORDER
Order(s) ==
    CASE s = "START"                    -> 0
      [] s = "UPLOAD_RECEIVED"          -> 1
      [] s = "DOCUMENT_PARSED"          -> 2
      [] s = "CONTRACT_TYPE_CLASSIFIED" -> 3
      [] s = "CLAUSES_STRUCTURED"       -> 4
      [] s = "PLAYBOOK_RETRIEVED"       -> 5
      [] s = "CONTEXT_BUILT"            -> 6
      [] s = "RISK_ANALYZED"            -> 7

\* The label the node entered from label s writes when it completes.
NextStage(s) ==
    CASE s = "START"                    -> "UPLOAD_RECEIVED"
      [] s = "UPLOAD_RECEIVED"          -> "DOCUMENT_PARSED"
      [] s = "DOCUMENT_PARSED"          -> "CONTRACT_TYPE_CLASSIFIED"
      [] s = "CONTRACT_TYPE_CLASSIFIED" -> "CLAUSES_STRUCTURED"
      [] s = "CLAUSES_STRUCTURED"       -> "PLAYBOOK_RETRIEVED"
      [] s = "PLAYBOOK_RETRIEVED"       -> "CONTEXT_BUILT"
      [] s = "CONTEXT_BUILT"            -> "RISK_ANALYZED"
      [] s = "RISK_ANALYZED"            -> "RISK_ANALYZED"

\* A checkpoint names the payload column persisted with it: document,
\* contract_classification, clauses, matched_rules, review_contexts and
\* analysis_results, in this order.
Checkpoints == Recoverable \ {"START", "UPLOAD_RECEIVED"}

\* The payloads _validate_recovery_checkpoint requires to resume from s.
Required(s) == {c \in Checkpoints : Order(c) <= Order(s)}

Cancelling == {"CANCEL_REQUESTED", "CANCELLED"}

\* ERROR_RETRY_CATEGORIES: the failures an operator may recover from.
Failed == {"PARSE_FAILED", "RETRIEVAL_FAILED", "LLM_OUTPUT_INVALID",
           "EVIDENCE_MISSING", "NODE_TIMEOUT", "TASK_TIMEOUT", "TASK_ERROR"}

Categories == {"parse", "retrieval", "llm_output", "evidence",
               "node_timeout", "task_timeout", "task"}

Category(s) ==
    CASE s = "PARSE_FAILED"       -> "parse"
      [] s = "RETRIEVAL_FAILED"   -> "retrieval"
      [] s = "LLM_OUTPUT_INVALID" -> "llm_output"
      [] s = "EVIDENCE_MISSING"   -> "evidence"
      [] s = "NODE_TIMEOUT"       -> "node_timeout"
      [] s = "TASK_TIMEOUT"       -> "task_timeout"
      [] s = "TASK_ERROR"         -> "task"

\* ERROR_RETRY_LIMITS gives every category the same limit.
RetryLimit == 2

\* What a run that was not disturbed ends in.
Completed == {"EVIDENCE_VERIFIED", "HUMAN_REVIEW_PENDING",
              "UNSUPPORTED_CONTRACT_TYPE", "NEED_MANUAL_REVIEW"}

\* TERMINAL_STATUSES: no job runs, the event stream may end.
Terminal == Completed \cup Failed
              \cup {"MEMORY_UPDATED", "REPORT_READY", "CANCELLED"}

ReviewStatuses == Recoverable \cup Terminal \cup Cancelling

=============================================================================
