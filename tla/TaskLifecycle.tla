---------------------------- MODULE TaskLifecycle ----------------------------
(***************************************************************************)
(* The life of one review task, from submission to its terminal status, as *)
(* the three kinds of process that write its row see it:                   *)
(*                                                                         *)
(*   - API threads that submit, cancel and manually recover it             *)
(*     (task_queue.py QueuedReviewService, task_service.py                 *)
(*     cancel_review_task, event_service.py);                              *)
(*   - the one RQ worker: its boot, its jobs and the run of the review     *)
(*     graph (review_worker.py, langgraph_review_agent.py);                *)
(*   - Redis, which keeps at most one job per task.                        *)
(*                                                                         *)
(* A call of ReviewEventStore.update_task is one step: it holds the task's *)
(* advisory lock and refreshes the row before it decides.  Everything a    *)
(* caller reads before such a call and uses after it is kept in the        *)
(* caller's own state, so that a step of another process fits between.     *)
(* Feedback, report and the pause for human review start where this module *)
(* ends, in a completed task.                                              *)
(***************************************************************************)
EXTENDS ReviewStatus, Sequences, FiniteSets

CONSTANTS
    Cancellers,      \* API threads that call POST /cancel
    Recoverers,      \* API threads that call POST /recover
    MaxCalls,        \* calls each of them makes
    MaxFaults,       \* faults in a behaviour
    FaultKinds,      \* which faults may happen
    BootDuringSubmit \* whether the worker may boot while a task is submitted

AllFaultKinds == {"crash",        \* the worker process dies
                  "api_crash",    \* the API process dies
                  "node_timeout", \* a node exceeds its time limit
                  "tool",         \* a parser, classifier or retriever fails
                  "llm",          \* the model's output stays invalid
                  "error",        \* any other exception inside a run
                  "finally",      \* an exception in the run's finally block
                  "handler",      \* one in the handler of a failed job
                  "upload",       \* the uploaded file cannot be read back
                  "enqueue",      \* Redis refuses the job
                  "lost_reply"}   \* Redis takes the job, its reply is lost

ASSUME ConstantsAssumption ==
    /\ MaxCalls \in Nat
    /\ MaxFaults \in Nat
    /\ FaultKinds \subseteq AllFaultKinds
    /\ BootDuringSubmit \in BOOLEAN

VARIABLES
    (* The row of app.review_tasks. *)
    status,            \* AgentState.status
    saved,             \* checkpoints whose payload column is not null
    retry_counts,      \* failures per category
    resume_from,       \* last_timeout.resume_from_status
    recovery_history,  \* categories of the manual recoveries on record
    execution_active,  \* execution_owner is not empty
    (* Redis. *)
    job,               \* the job review-<task_id>
    (* The worker process. *)
    worker,            \* where its only thread is
    run_status,        \* the status that thread has in hand
    (* API threads. *)
    start,             \* the submission
    cancel,            \* per canceller: where it is
    recovery,          \* per recoverer: where it is and what it has read
    (* Observation only. *)
    calls,             \* calls begun per API thread
    recoveries,        \* categories of the manual recoveries accepted
    faults             \* faults so far

rowVars == <<status, saved, retry_counts, resume_from, recovery_history>>
workerVars == <<worker, run_status>>
apiVars == <<start, cancel, recovery, calls, recoveries>>
vars == <<rowVars, execution_active, job, workerVars, apiVars, faults>>

-----------------------------------------------------------------------------
(* Where each thread can be. *)

Booting == {"boot_cancel", "boot_recover", "boot_enqueue"}

\* Inside ReviewOrchestratorAgent.run, after it took the execution lease.
Running == {"snapshot", "control", "graph", "conclude", "tail",
            "timeout", "timeout_record", "unexpected", "record",
            "cancelling", "release", "release_failed"}

WorkerPlaces == {"down", "idle", "job", "acquire", "job_failed",
                 "job_failed_record"} \cup Booting \cup Running

StartPlaces == {"none", "created", "received", "enqueue_failed", "done", "failed"}

CancelPlaces == {"idle", "write", "check", "finalize"}

RecoveryPlaces == {"idle", "check", "write", "enqueue", "record"}

RecoveryStates == [place    : RecoveryPlaces,
                   resume   : Recoverable,
                   category : Categories,
                   history  : Seq(Categories)]

IdleRecovery == [place |-> "idle", resume |-> "START",
                 category |-> "task", history |-> <<>>]

RowTypeOK ==
    /\ status \in ReviewStatuses \cup {NoTask}
    /\ saved \subseteq Checkpoints
    /\ retry_counts \in [Categories -> Nat]
    /\ resume_from \in Recoverable \cup {NoTask}
    /\ recovery_history \in Seq(Categories)

TypeOK ==
    /\ RowTypeOK
    /\ execution_active \in BOOLEAN
    /\ job \in {"none", "queued", "known"}
    /\ worker \in WorkerPlaces
    /\ run_status \in ReviewStatuses \cup {NoTask}
    /\ start \in StartPlaces
    /\ cancel \in [Cancellers -> CancelPlaces]
    /\ recovery \in [Recoverers -> RecoveryStates]
    /\ calls \in [Cancellers \cup Recoverers -> Nat]
    /\ recoveries \in Seq(Categories)
    /\ faults \in Nat

Init ==
    /\ status = NoTask
    /\ saved = {}
    /\ retry_counts = [c \in Categories |-> 0]
    /\ resume_from = NoTask
    /\ recovery_history = <<>>
    /\ execution_active = FALSE
    /\ job = "none"
    /\ worker = "idle"
    /\ run_status = NoTask
    /\ start = "none"
    /\ cancel = [c \in Cancellers |-> "idle"]
    /\ recovery = [r \in Recoverers |-> IdleRecovery]
    /\ calls = [a \in Cancellers \cup Recoverers |-> 0]
    /\ recoveries = <<>>
    /\ faults = 0

Fault(kind) ==
    /\ kind \in FaultKinds
    /\ faults < MaxFaults
    /\ faults' = faults + 1

NoFault == UNCHANGED faults

-----------------------------------------------------------------------------
(* The event store. *)

\* Mutant: only the final status is protected.
AcceptsUntilCancelled(s) == s \in Cancelling \/ status # "CANCELLED"

\* update_task refuses any other status once cancellation is on record.
Accepts(s) == s \in Cancelling \/ status \notin Cancelling

\* Entering a failure status counts one failure of its category.
CountRetry(s) ==
    IF s \in Failed /\ status # s
    THEN [retry_counts EXCEPT ![Category(s)] = @ + 1]
    ELSE retry_counts

\* update_task(task_id, s, ..., <payloads of checkpoints>)
UpdateTask(s, checkpoints) ==
    /\ Accepts(s)
    /\ status' = s
    /\ saved' = saved \cup checkpoints
    /\ retry_counts' = CountRetry(s)

\* An update that carries neither last_timeout nor recovery_history.
Update(s, checkpoints) ==
    /\ UpdateTask(s, checkpoints)
    /\ UNCHANGED <<resume_from, recovery_history>>

\* enqueue(replace_existing=True) that fails: the old job was deleted or not,
\* and the new one may be there although the caller saw an error.
JobAfterFailedReplace ==
    {job, "none"} \cup (IF "lost_reply" \in FaultKinds THEN {"queued"} ELSE {})

-----------------------------------------------------------------------------
(* Submission: QueuedReviewService.start.  The client learns the task id,  *)
(* and can cancel or recover, only once it returns.                        *)

StartCreate ==
    /\ start = "none"
    /\ status' = "START"
    /\ start' = "created"
    /\ UNCHANGED <<saved, retry_counts, resume_from, recovery_history>>
    /\ UNCHANGED <<execution_active, job, workerVars, cancel, recovery, calls, recoveries>>
    /\ NoFault

StartReceive ==
    /\ start = "created"
    /\ Update("UPLOAD_RECEIVED", {})
    /\ start' = "received"
    /\ UNCHANGED <<execution_active, job, workerVars, cancel, recovery, calls, recoveries>>
    /\ NoFault

\* A job the queue already knows, queued or finished, is returned as it is.
StartEnqueue ==
    /\ start = "received"
    /\ job' = IF job = "none" THEN "queued" ELSE job
    /\ start' = "done"
    /\ UNCHANGED <<rowVars, execution_active, workerVars, cancel, recovery, calls, recoveries>>
    /\ NoFault

StartEnqueueFails ==
    /\ start = "received"
    /\ Fault("enqueue")
    /\ job' \in {job} \cup
                (IF "lost_reply" \in FaultKinds /\ job = "none" THEN {"queued"} ELSE {})
    /\ start' = "enqueue_failed"
    /\ UNCHANGED <<rowVars, execution_active, workerVars, cancel, recovery, calls, recoveries>>

StartRecordsFailure ==
    /\ start = "enqueue_failed"
    /\ Update("TASK_ERROR", {})
    /\ start' = "failed"
    /\ UNCHANGED <<execution_active, job, workerVars, cancel, recovery, calls, recoveries>>
    /\ NoFault

Start == \/ StartCreate
         \/ StartReceive
         \/ StartEnqueue
         \/ StartEnqueueFails
         \/ StartRecordsFailure

-----------------------------------------------------------------------------
(* Cancellation: cancel_review_task, with request_cancel's read and write  *)
(* apart, then is_execution_active and finalize_cancel.                    *)

CancelFrame ==
    UNCHANGED <<execution_active, job, workerVars, start, recovery, recoveries, faults>>

CancelRead(c) ==
    /\ start = "done"
    /\ cancel[c] = "idle"
    /\ calls[c] < MaxCalls
    /\ calls' = [calls EXCEPT ![c] = @ + 1]
    /\ \/ /\ status \in Cancelling
          /\ cancel' = [cancel EXCEPT ![c] = "check"]
       \/ /\ status \in Terminal \ Cancelling
          /\ UNCHANGED cancel
       \/ /\ status \notin Terminal \cup Cancelling
          /\ cancel' = [cancel EXCEPT ![c] = "write"]
    /\ UNCHANGED rowVars
    /\ CancelFrame

CancelWrite(c) ==
    /\ cancel[c] = "write"
    /\ Update("CANCEL_REQUESTED", {})
    /\ cancel' = [cancel EXCEPT ![c] = "check"]
    /\ UNCHANGED calls
    /\ CancelFrame

\* A run that holds the lease is trusted to finish the cancellation itself.
CancelCheck(c) ==
    /\ cancel[c] = "check"
    /\ cancel' = [cancel EXCEPT ![c] = IF execution_active THEN "idle" ELSE "finalize"]
    /\ UNCHANGED <<rowVars, calls>>
    /\ CancelFrame

CancelFinalize(c) ==
    /\ cancel[c] = "finalize"
    /\ Update("CANCELLED", {})
    /\ cancel' = [cancel EXCEPT ![c] = "idle"]
    /\ UNCHANGED calls
    /\ CancelFrame

CancelGoesOn(c) == CancelWrite(c) \/ CancelCheck(c) \/ CancelFinalize(c)

-----------------------------------------------------------------------------
(* Manual recovery: QueuedReviewService.recover.  prepare_manual_recovery  *)
(* reads the task for the checkpoint, record_manual_recovery reads it      *)
(* again for the budget and the history, and then writes.                  *)

\* Mutant: a failed retrieval resumes behind the retrieval.
RecoveryCheckpointLate(s) ==
    CASE s \in {"NODE_TIMEOUT", "TASK_TIMEOUT"} -> resume_from
      [] s \in {"PARSE_FAILED", "TASK_ERROR"}   -> "UPLOAD_RECEIVED"
      [] s = "RETRIEVAL_FAILED"                 -> "PLAYBOOK_RETRIEVED"
      [] OTHER                                  -> NoTask

\* _manual_recovery_checkpoint; NoTask stands for its RecoveryError.
RecoveryCheckpoint(s) ==
    CASE s \in {"NODE_TIMEOUT", "TASK_TIMEOUT"} -> resume_from
      [] s = "PARSE_FAILED"                     -> "UPLOAD_RECEIVED"
      [] s = "RETRIEVAL_FAILED"                 -> "CLAUSES_STRUCTURED"
      [] s = "LLM_OUTPUT_INVALID"               -> "CONTEXT_BUILT"
      [] s = "EVIDENCE_MISSING"                 -> "RISK_ANALYZED"
      [] s = "TASK_ERROR"                       -> "UPLOAD_RECEIVED"
      [] OTHER                                  -> NoTask

\* Mutant: the payloads are not validated.
MayResumeUnchecked(s) == RecoveryCheckpoint(s) \in Recoverable

\* _validate_recovery_checkpoint(replace(current, status=expected))
MayResume(s) ==
    /\ RecoveryCheckpoint(s) \in Recoverable
    /\ Required(RecoveryCheckpoint(s)) \subseteq saved

\* Mutant: off by one.
WithinBudgetInclusive(s) ==
    /\ s \in Failed
    /\ retry_counts[Category(s)] <= RetryLimit

\* record_manual_recovery's checks on the category and the count.
WithinBudget(s) ==
    /\ s \in Failed
    /\ retry_counts[Category(s)] < RetryLimit

RecoverFrame == UNCHANGED <<execution_active, workerVars, start, cancel>>

Leaves(r) == recovery' = [recovery EXCEPT ![r] = IdleRecovery]

RecoverPrepare(r) ==
    /\ start = "done"
    /\ recovery[r].place = "idle"
    /\ calls[r] < MaxCalls
    /\ calls' = [calls EXCEPT ![r] = @ + 1]
    /\ \/ /\ MayResume(status)
          /\ recovery' = [recovery EXCEPT ![r].place = "check",
                                          ![r].resume = RecoveryCheckpoint(status)]
       \/ ~MayResume(status) /\ UNCHANGED recovery
    /\ UNCHANGED <<rowVars, job, recoveries>>
    /\ RecoverFrame
    /\ NoFault

RecoverCheck(r) ==
    /\ recovery[r].place = "check"
    /\ \/ /\ WithinBudget(status)
          /\ recovery' = [recovery EXCEPT ![r].place = "write",
                                          ![r].category = Category(status),
                                          ![r].history = recovery_history]
       \/ ~WithinBudget(status) /\ Leaves(r)
    /\ UNCHANGED <<rowVars, job, calls, recoveries>>
    /\ RecoverFrame
    /\ NoFault

RecoverWrite(r) ==
    /\ recovery[r].place = "write"
    /\ UpdateTask(recovery[r].resume, {})
    /\ recovery_history' = Append(recovery[r].history, recovery[r].category)
    /\ recoveries' = Append(recoveries, recovery[r].category)
    /\ recovery' = [recovery EXCEPT ![r].place = "enqueue"]
    /\ UNCHANGED <<resume_from, job, calls>>
    /\ RecoverFrame
    /\ NoFault

\* Mutant: replace_existing is forgotten, the finished job is returned.
RecoverEnqueueKeeps(r) ==
    /\ recovery[r].place = "enqueue"
    /\ job' = IF job = "none" THEN "queued" ELSE job
    /\ Leaves(r)
    /\ UNCHANGED <<rowVars, calls, recoveries>>
    /\ RecoverFrame
    /\ NoFault

RecoverEnqueue(r) ==
    /\ recovery[r].place = "enqueue"
    /\ job' = "queued"
    /\ Leaves(r)
    /\ UNCHANGED <<rowVars, calls, recoveries>>
    /\ RecoverFrame
    /\ NoFault

RecoverEnqueueFails(r) ==
    /\ recovery[r].place = "enqueue"
    /\ Fault("enqueue")
    /\ job' \in JobAfterFailedReplace
    /\ recovery' = [recovery EXCEPT ![r].place = "record"]
    /\ UNCHANGED <<rowVars, calls, recoveries>>
    /\ RecoverFrame

RecoverRecordsFailure(r) ==
    /\ recovery[r].place = "record"
    /\ Update("TASK_ERROR", {})
    /\ Leaves(r)
    /\ UNCHANGED <<job, calls, recoveries>>
    /\ RecoverFrame
    /\ NoFault

\* update_task raises TaskCancelledError, which ends the request.
RecoverRefused(r) ==
    /\ recovery[r].place \in {"write", "record"}
    /\ status \in Cancelling
    /\ Leaves(r)
    /\ UNCHANGED <<rowVars, job, calls, recoveries>>
    /\ RecoverFrame
    /\ NoFault

RecoverGoesOn(r) == \/ RecoverCheck(r)
                    \/ RecoverWrite(r)
                    \/ RecoverEnqueue(r)
                    \/ RecoverEnqueueFails(r)
                    \/ RecoverRecordsFailure(r)
                    \/ RecoverRefused(r)

\* The API process dies with every request in it; rows and jobs stay.
ApiCrash ==
    /\ Fault("api_crash")
    /\ start' = IF start \in {"created", "received", "enqueue_failed"}
                THEN "failed" ELSE start
    /\ cancel' = [c \in Cancellers |-> "idle"]
    /\ recovery' = [r \in Recoverers |-> IdleRecovery]
    /\ UNCHANGED <<rowVars, execution_active, job, workerVars, calls, recoveries>>

-----------------------------------------------------------------------------
(* Worker boot: _recover_pending_jobs.                                     *)

WorkerFrame == UNCHANGED apiVars

Goes(place) == worker' = place /\ UNCHANGED run_status

\* Mutant: the boot clears the lease and recovers nothing.
BootForgets ==
    /\ worker = "down"
    /\ BootDuringSubmit \/ start \notin {"created", "received"}
    /\ execution_active' = FALSE
    /\ Goes("idle")
    /\ UNCHANGED <<rowVars, job>>
    /\ WorkerFrame
    /\ NoFault

\* load_persisted(clear_execution_leases=True), then pending_tasks: the rest
\* of the boot works from the snapshot taken here.
Boot ==
    /\ worker = "down"
    /\ BootDuringSubmit \/ start \notin {"created", "received"}
    /\ execution_active' = FALSE
    /\ run_status' = status
    /\ worker' = IF status \in Terminal \cup {NoTask} THEN "idle"
                 ELSE IF status = "CANCEL_REQUESTED" THEN "boot_cancel"
                 ELSE "boot_recover"
    /\ UNCHANGED <<rowVars, job>>
    /\ WorkerFrame
    /\ NoFault

BootCancel ==
    /\ worker = "boot_cancel"
    /\ Update("CANCELLED", {})
    /\ Goes("idle")
    /\ UNCHANGED <<execution_active, job>>
    /\ WorkerFrame
    /\ NoFault

\* record_recovery writes the status of the snapshot.
BootRecover ==
    /\ worker = "boot_recover"
    /\ Update(run_status, {})
    /\ Goes("boot_enqueue")
    /\ UNCHANGED <<execution_active, job>>
    /\ WorkerFrame
    /\ NoFault

\* load_upload raises RecoveryError.
BootWithoutUpload ==
    /\ worker = "boot_recover"
    /\ Fault("upload")
    /\ Update("NEED_MANUAL_REVIEW", {})
    /\ Goes("idle")
    /\ UNCHANGED <<execution_active, job>>
    /\ WorkerFrame

\* TaskCancelledError is no RecoveryError: it ends the worker's main.
BootRefused ==
    /\ worker = "boot_recover"
    /\ status \in Cancelling
    /\ Goes("down")
    /\ UNCHANGED <<rowVars, execution_active, job>>
    /\ WorkerFrame
    /\ NoFault

BootEnqueue ==
    /\ worker = "boot_enqueue"
    /\ job' = "queued"
    /\ Goes("idle")
    /\ UNCHANGED <<rowVars, execution_active>>
    /\ WorkerFrame
    /\ NoFault

BootEnqueueFails ==
    /\ worker = "boot_enqueue"
    /\ Fault("enqueue")
    /\ job' \in JobAfterFailedReplace
    /\ Goes("down")
    /\ UNCHANGED <<rowVars, execution_active>>
    /\ WorkerFrame

WorkerBoot == \/ Boot
              \/ BootCancel
              \/ BootRecover
              \/ BootWithoutUpload
              \/ BootRefused
              \/ BootEnqueue
              \/ BootEnqueueFails

-----------------------------------------------------------------------------
(* A job: execute_review_job.                                              *)

TakeJob ==
    /\ worker = "idle"
    /\ job = "queued"
    /\ job' = "known"
    /\ Goes("job")
    /\ UNCHANGED <<rowVars, execution_active>>
    /\ WorkerFrame
    /\ NoFault

\* get_task, then load_upload.
ReadJob ==
    /\ worker = "job"
    /\ \/ status \in Terminal /\ Goes("idle") /\ NoFault
       \/ status \notin Terminal /\ Goes("acquire") /\ NoFault
       \/ status \notin Terminal /\ Fault("upload") /\ Goes("job_failed")
    /\ UNCHANGED <<rowVars, execution_active, job>>
    /\ WorkerFrame

\* try_acquire_execution; run returns at once when the lease is taken.
Acquire ==
    /\ worker = "acquire"
    /\ IF execution_active THEN Goes("idle") ELSE Goes("snapshot")
    /\ execution_active' = TRUE
    /\ UNCHANGED <<rowVars, job>>
    /\ WorkerFrame
    /\ NoFault

\* _record_worker_failure reads the task, then writes TASK_ERROR.
ReadAfterJobFailed ==
    /\ worker = "job_failed"
    /\ Goes(IF status \in Terminal THEN "idle" ELSE "job_failed_record")
    /\ UNCHANGED <<rowVars, execution_active, job>>
    /\ WorkerFrame
    /\ NoFault

RecordJobFailed ==
    /\ worker = "job_failed_record"
    /\ \/ Update("TASK_ERROR", {})
       \/ ~Accepts("TASK_ERROR") /\ UNCHANGED rowVars
    /\ Goes("idle")
    /\ UNCHANGED <<execution_active, job>>
    /\ WorkerFrame
    /\ NoFault

\* rq_job_failure_persistence_failed: nothing is recorded, the worker goes on.
JobHandlerRaises ==
    /\ worker \in {"job_failed", "job_failed_record"}
    /\ Fault("handler")
    /\ Goes("idle")
    /\ UNCHANGED <<rowVars, execution_active, job>>
    /\ WorkerFrame

WorkerJob == \/ TakeJob
             \/ ReadJob
             \/ Acquire
             \/ ReadAfterJobFailed
             \/ RecordJobFailed
             \/ JobHandlerRaises

WorkerCrash ==
    /\ worker # "down"
    /\ Fault("crash")
    /\ Goes("down")
    /\ UNCHANGED <<rowVars, execution_active, job>>
    /\ WorkerFrame

-----------------------------------------------------------------------------
(* The run: ReviewOrchestratorAgent.run and the nodes of the review graph. *)
(* run_status is context.state.status: the run publishes its progress      *)
(* under the status it has in hand, not under the one it finds in the row. *)

RunFrame == WorkerFrame /\ UNCHANGED <<execution_active, job>>

Snapshot ==
    /\ worker = "snapshot"
    /\ worker' = "control"
    /\ run_status' = status
    /\ UNCHANGED rowVars
    /\ RunFrame
    /\ NoFault

\* The control graph's execute phase.
ControlExecute ==
    /\ worker = "control"
    /\ Goes("graph")
    /\ UNCHANGED rowVars
    /\ RunFrame
    /\ NoFault

\* RecoveryError: _before, for a status no node starts from; or what an
\* earlier run left of the clauses or of the analyses is not a prefix of what
\* this one computes (_restored_clause_prefix, _restored_analysis_prefix).
NodeRefuses ==
    /\ worker = "graph"
    /\ \/ run_status \notin Recoverable
       \/ run_status = "CONTRACT_TYPE_CLASSIFIED" /\ "CLAUSES_STRUCTURED" \in saved
       \/ run_status \in {"CONTEXT_BUILT", "RISK_ANALYZED"} /\ "RISK_ANALYZED" \in saved
    /\ worker' = "record"
    /\ run_status' = "NEED_MANUAL_REVIEW"
    /\ UNCHANGED rowVars
    /\ RunFrame
    /\ NoFault

\* Progress of these nodes carries the payload computed so far.
PartialPayload(s) ==
    IF s \in {"CONTRACT_TYPE_CLASSIFIED", "CLAUSES_STRUCTURED",
              "PLAYBOOK_RETRIEVED", "CONTEXT_BUILT"}
    THEN {NextStage(s)} ELSE {}

\* Mutant: a progress event of the stream is published after the result.
PublishProgressLate ==
    /\ worker \in {"graph", "tail"}
    /\ run_status \in Recoverable \ {"START"}
    /\ Update(run_status, PartialPayload(run_status))
    /\ UNCHANGED workerVars
    /\ RunFrame
    /\ NoFault

PublishProgress ==
    /\ worker = "graph"
    /\ run_status \in Recoverable \ {"START"}
    /\ Update(run_status, PartialPayload(run_status))
    /\ UNCHANGED workerVars
    /\ RunFrame
    /\ NoFault

Bootstrap ==
    /\ worker = "graph"
    /\ run_status = "START"
    /\ Update("UPLOAD_RECEIVED", {})
    /\ run_status' = "UPLOAD_RECEIVED"
    /\ UNCHANGED worker
    /\ RunFrame
    /\ NoFault

\* parse_document .. build_context
CompleteNode ==
    /\ worker = "graph"
    /\ run_status \in Recoverable \ {"START", "CONTEXT_BUILT", "RISK_ANALYZED"}
    /\ Update(NextStage(run_status), {NextStage(run_status)})
    /\ run_status' = NextStage(run_status)
    /\ UNCHANGED worker
    /\ RunFrame
    /\ NoFault

\* A node's _terminal(...): the row takes status s and the graph ends.
NodeEnds(from, s, checkpoints) ==
    /\ worker = "graph"
    /\ run_status = from
    /\ Update(s, checkpoints)
    /\ Goes("tail")
    /\ RunFrame

ClassifyEnds ==
    \/ /\ \E s \in {"UNSUPPORTED_CONTRACT_TYPE", "NEED_MANUAL_REVIEW"} :
            NodeEnds("DOCUMENT_PARSED", s, {"CONTRACT_TYPE_CLASSIFIED"})
       /\ NoFault
    \/ /\ NodeEnds("DOCUMENT_PARSED", "NEED_MANUAL_REVIEW", {})
       /\ Fault("tool")

\* structure_clauses persists analysis_results=[] with the failure.
StructureEnds ==
    /\ NodeEnds("CONTRACT_TYPE_CLASSIFIED", "LLM_OUTPUT_INVALID", {"RISK_ANALYZED"})
    /\ Fault("llm")

RetrieveEnds ==
    /\ \E s \in {"CLAUSES_STRUCTURED", "PLAYBOOK_RETRIEVED"} :
         NodeEnds(s, "RETRIEVAL_FAILED", {})
    /\ Fault("tool")

\* What aggregate_risks persists beside the status.
RiskPayload == {"CONTEXT_BUILT", "RISK_ANALYZED"}

\* aggregate_risks with a terminal branch result.
AggregateEnds ==
    \E s \in {"CONTEXT_BUILT", "RISK_ANALYZED"} :
        \/ /\ \E t \in {"HUMAN_REVIEW_PENDING", "NEED_MANUAL_REVIEW"} :
                NodeEnds(s, t, RiskPayload)
           /\ NoFault
        \/ NodeEnds(s, "RETRIEVAL_FAILED", RiskPayload) /\ Fault("tool")
        \/ NodeEnds(s, "LLM_OUTPUT_INVALID", RiskPayload) /\ Fault("llm")

\* aggregate_risks without one writes twice.
Aggregate ==
    /\ worker = "graph"
    /\ run_status \in {"CONTEXT_BUILT", "RISK_ANALYZED"}
    /\ Update("RISK_ANALYZED", RiskPayload)
    /\ worker' = "conclude"
    /\ run_status' = "RISK_ANALYZED"
    /\ RunFrame
    /\ NoFault

Conclude ==
    /\ worker = "conclude"
    /\ \E s \in {"EVIDENCE_VERIFIED", "HUMAN_REVIEW_PENDING"} : Update(s, RiskPayload)
    /\ Goes("tail")
    /\ RunFrame
    /\ NoFault

\* The control graph's last phase: it pauses or ends; either way the run is over.
ControlEnds ==
    /\ worker = "tail"
    /\ Goes("release")
    /\ UNCHANGED rowVars
    /\ RunFrame
    /\ NoFault

Node == \/ Snapshot
        \/ ControlExecute
        \/ NodeRefuses
        \/ PublishProgress
        \/ Bootstrap
        \/ CompleteNode
        \/ ClassifyEnds
        \/ StructureEnds
        \/ RetrieveEnds
        \/ AggregateEnds
        \/ Aggregate
        \/ Conclude
        \/ ControlEnds

-----------------------------------------------------------------------------
(* The except clauses of run.                                              *)

\* The execution control's check, or update_task itself, raises.
NodeCancelled ==
    /\ worker \in {"graph", "conclude"}
    /\ run_status \in Recoverable
    /\ status \in Cancelling
    /\ Goes("cancelling")
    /\ UNCHANGED rowVars
    /\ RunFrame
    /\ NoFault

NodeTimesOut ==
    /\ worker = "graph"
    /\ run_status \in Recoverable \ {"START"}
    /\ Fault("node_timeout")
    /\ Goes("timeout")
    /\ UNCHANGED rowVars
    /\ RunFrame

ParseFails ==
    /\ worker = "graph"
    /\ run_status = "UPLOAD_RECEIVED"
    /\ Fault("tool")
    /\ worker' = "record"
    /\ run_status' = "PARSE_FAILED"
    /\ UNCHANGED rowVars
    /\ RunFrame

\* Any other exception: a node, the control graph, the database.
RunRaises ==
    /\ worker \in {"control", "graph", "conclude", "tail"}
    /\ Fault("error")
    /\ Goes("unexpected")
    /\ UNCHANGED rowVars
    /\ RunFrame

\* Mutant: whatever the row says becomes the checkpoint.
TimeoutReadsAsIs ==
    /\ worker = "timeout"
    /\ worker' = "timeout_record"
    /\ run_status' = status
    /\ UNCHANGED rowVars
    /\ RunFrame
    /\ NoFault

\* except NodeExecutionTimeoutError: read the row, then record the timeout.
TimeoutReads ==
    /\ worker = "timeout"
    /\ worker' = "timeout_record"
    /\ run_status' = IF status \in Recoverable THEN status ELSE "UPLOAD_RECEIVED"
    /\ UNCHANGED rowVars
    /\ RunFrame
    /\ NoFault

TimeoutRecords ==
    /\ worker = "timeout_record"
    /\ \/ /\ UpdateTask("NODE_TIMEOUT", {})
          /\ resume_from' = run_status
          /\ UNCHANGED recovery_history
          /\ Goes("release")
       \/ /\ ~Accepts("NODE_TIMEOUT")
          /\ UNCHANGED rowVars
          /\ Goes("cancelling")
    /\ RunFrame
    /\ NoFault

\* _record_unexpected_failure chooses by the row and by the last tool logged,
\* which is the parser's unless an earlier run got past it.
FailureStatuses ==
    IF status \notin {"START", "UPLOAD_RECEIVED"} THEN {"TASK_ERROR"}
    ELSE IF "DOCUMENT_PARSED" \in saved THEN {"PARSE_FAILED", "TASK_ERROR"}
    ELSE {"PARSE_FAILED"}

UnexpectedReads ==
    /\ worker = "unexpected"
    /\ worker' = "record"
    /\ run_status' \in FailureStatuses
    /\ UNCHANGED rowVars
    /\ RunFrame
    /\ NoFault


\* _update_terminal_or_cancel
Record ==
    /\ worker = "record"
    /\ \/ Update(run_status, {}) /\ Goes("release")
       \/ ~Accepts(run_status) /\ UNCHANGED rowVars /\ Goes("cancelling")
    /\ RunFrame
    /\ NoFault

RunCancelled ==
    /\ worker = "cancelling"
    /\ Update("CANCELLED", {})
    /\ Goes("release")
    /\ RunFrame
    /\ NoFault

\* The database fails inside an except clause: the exception leaves run.
HandlerRaises ==
    /\ worker \in {"timeout", "timeout_record", "unexpected", "record", "cancelling"}
    /\ Fault("error")
    /\ Goes("release_failed")
    /\ UNCHANGED rowVars
    /\ RunFrame

\* finally: read the task for the log, then release the lease.
Release ==
    /\ worker \in {"release", "release_failed"}
    /\ execution_active' = FALSE
    /\ Goes(IF worker = "release" THEN "idle" ELSE "job_failed")
    /\ UNCHANGED <<rowVars, job>>
    /\ WorkerFrame
    /\ NoFault

\* The read right after try_acquire_execution, or the one right before
\* release_execution, raises: neither is under a handler that releases.
ReleaseSkipped ==
    /\ worker \in {"snapshot", "release", "release_failed"}
    /\ Fault("finally")
    /\ Goes("job_failed")
    /\ UNCHANGED rowVars
    /\ RunFrame

RunEnds == \/ NodeCancelled
           \/ NodeTimesOut
           \/ ParseFails
           \/ RunRaises
           \/ TimeoutReads
           \/ TimeoutRecords
           \/ UnexpectedReads
           \/ Record
           \/ RunCancelled
           \/ HandlerRaises
           \/ Release
           \/ ReleaseSkipped

-----------------------------------------------------------------------------
(* The specification.                                                      *)

Worker == WorkerBoot \/ WorkerJob \/ Node \/ RunEnds

\* What the worker's process does once somebody has started it.
WorkerGoesOn == worker # "down" /\ Worker

Next == \/ Start
        \/ \E c \in Cancellers : CancelRead(c) \/ CancelGoesOn(c)
        \/ \E r \in Recoverers : RecoverPrepare(r) \/ RecoverGoesOn(r)
        \/ ApiCrash
        \/ Worker
        \/ WorkerCrash

Spec == Init /\ [][Next]_vars

\* A request that began runs on, and so does the worker's thread.  Nothing
\* makes a client cancel or recover, and nothing in the code starts a worker
\* that is down: a person runs scripts/manage_worker.ps1 (see StartedAgain).
Fairness ==
    /\ WF_vars(Start)
    /\ \A c \in Cancellers : WF_vars(CancelGoesOn(c))
    /\ \A r \in Recoverers : WF_vars(RecoverGoesOn(r))
    /\ WF_vars(WorkerGoesOn)

FairSpec == Spec /\ Fairness

-----------------------------------------------------------------------------
(* Safety.                                                                 *)

\* A task that is to be resumed has every payload its nodes will read back:
\* whatever order failures, recoveries and boots come in, the run never finds
\* a label whose data was not persisted (_validate_recovery_checkpoint).
CheckpointSaved == status \in Recoverable => Required(status) \subseteq saved

\* Every failure a run records leaves a checkpoint that prepare_manual_recovery
\* accepts.  LLM_OUTPUT_INVALID is left out: a run that ends in it while it
\* structures the clauses has not the payloads its checkpoint asks for.
FailureHasCheckpoint == status \in Failed \ {"LLM_OUTPUT_INVALID"} => MayResume(status)

\* From a cancellation request on, nothing a run, a boot, a recovery or a
\* failure handler does takes the task out of cancellation or adds results.
StaysCancelled ==
    /\ status' \in Cancelling
    /\ UNCHANGED <<saved, retry_counts, resume_from, recovery_history>>

CancellationFreezes == [][(status \in Cancelling) => StaysCancelled]_vars

\* A completed review is never set back to a stage of the run: a job, a boot
\* or a recovery that read the task earlier does not start it over.
CompletedNotReopened ==
    [][(start = "done" /\ status \in Completed) => status' \notin Recoverable]_vars

\* The failures of one category lead to fewer accepted manual recoveries than
\* ERROR_RETRY_LIMITS, across runs, boots and failed enqueues.
RetryBudget ==
    \A c \in Categories :
        Cardinality({i \in DOMAIN recoveries : recoveries[i] = c}) < RetryLimit

\* Where the worker is when it will still decide the task's fate.
WorkerHasTask == worker \in WorkerPlaces \ {"idle", "tail", "release"}

\* A submitted task that is not finished is never forgotten: it has a job, or
\* the worker has it or is to boot, or a recovery is about to queue it.
NoOrphan ==
    start = "done" /\ status \in Recoverable =>
        \/ job = "queued"
        \/ WorkerHasTask
        \/ \E r \in Recoverers : recovery[r].place \in {"enqueue", "record"}

-----------------------------------------------------------------------------
(* Liveness.                                                               *)

\* Somebody starts the worker whenever it is down.
StartedAgain == []<>(worker # "down")

\* A review under way comes to rest, however often it is recovered, as long as
\* a worker that dies is started again.  With an error in any node, in an
\* except clause of run or in a boot on the way.
ReviewSettles ==
    StartedAgain => (status \in Recoverable ~> status \in Terminal \cup Cancelling)

\* Where a run still has a check or a write to come that meets a cancellation.
WillMeetCancel == {"snapshot", "control", "graph", "conclude", "timeout",
                   "timeout_record", "unexpected", "record", "cancelling"}


=============================================================================
