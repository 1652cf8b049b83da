----------------------------- MODULE HumanReview -----------------------------
(***************************************************************************)
(* What happens to a task whose risks are on record: the last steps of the *)
(* worker's run, which parks the control graph when a human is needed, the *)
(* API threads that record a human's decision on a risk and then resume    *)
(* the graph, and the API threads that generate the report.                *)
(*                                                                         *)
(* Two stores are involved and no transaction spans them: the task row of  *)
(* the app schema (status, risk_findings, report_file) and the checkpoint  *)
(* of the control graph in the langgraph schema, of which one fact         *)
(* matters, whether get_state finds an interrupt.  The long-term memory is *)
(* a third one.                                                            *)
(*                                                                         *)
(* A feedback is computed on a copy of all the risks: reading the copy,    *)
(* remembering the feedback and writing the risks back are three steps.    *)
(* Cancellation and manual recovery are in TaskLifecycle.                  *)
(***************************************************************************)
EXTENDS ReviewStatus, FiniteSets

CONSTANTS
    Risks,         \* risk_findings, by risk_id
    Actions,       \* what a human may decide (FEEDBACK_ACTIONS)
    Reviewers,     \* API threads that call POST /feedback
    Reporters,     \* API threads that call POST /report
    MaxFeedbacks,  \* feedbacks in a behaviour
    MaxReports,    \* report requests in a behaviour
    MaxFaults,     \* faults in a behaviour
    FaultKinds     \* which faults may happen

AllFaultKinds == {"store",       \* write_memory or update_task fails
                  "checkpoint",  \* PostgresSaver fails under the control graph
                  "release",     \* release_execution fails in run's finally
                  "api",         \* the API process dies
                  "worker"}      \* the worker process dies

ASSUME ReviewAssumption ==
    /\ Risks # {}
    /\ "none" \notin Actions
    /\ Reviewers \cap {"none", "worker", "gone"} = {}
    /\ MaxFeedbacks \in Nat /\ MaxReports \in Nat /\ MaxFaults \in Nat
    /\ FaultKinds \subseteq AllFaultKinds

VARIABLES
    (* The row of app.review_tasks, with its risks. *)
    status,      \* AgentState.status
    decision,    \* per risk: risk["feedback"]
    report,      \* report_file: the version it was made of, and which one it is
    lease,       \* execution_owner
    (* Other stores. *)
    memory,      \* the feedback episodes of the memory store
    results,     \* idempotency records of generate_report
    bookmark,    \* whether the checkpoint of the control graph has an interrupt
    (* Processes. *)
    worker,      \* where the worker's run is, once the risks are on record
    owner,       \* _execution_owners[task_id] of the API process
    reviewer,    \* per reviewer: where the request is and what it has read
    reporter,    \* likewise per reporter
    (* Observation only. *)
    delivered,   \* the reports that requests were answered with
    overlapped,  \* a feedback was written that had not read the one before it
    clock,       \* feedbacks so far, the source of updated_at
    requests,    \* report requests so far, the source of generated_at
    faults       \* faults so far

rowVars == <<status, decision, report>>
reportVars == <<report, results, reporter, delivered, requests>>
observed == <<overlapped, clock>>
vars == <<rowVars, lease, memory, results, bookmark, worker, owner, reviewer,
          reporter, delivered, overlapped, clock, requests, faults>>

-----------------------------------------------------------------------------
Undecided == [action |-> "none", at |-> 0]

Decisions == [action : Actions \cup {"none"}, at : Nat]

Versions == [Risks -> Decisions]

NotReviewed == [r \in Risks |-> Undecided]

\* A report: the risks it was made of, and the request that generated it.
Reports == [version : Versions, id : Nat]

NoReport == [version |-> NotReviewed, id |-> 0]

\* In await_human_review or on the way to it, the lease held.
Streaming == {"resumed", "answered", "again", "pausing"}

ReviewerPlaces == {"idle", "memory", "write", "resume", "acquire", "release"}
                  \cup Streaming

\* The last steps of a run: the lease is held in all of them.
Tail == {"phase", "await", "pausing", "failed", "release"}

AnyRisk == CHOOSE r \in Risks : TRUE

\* A reviewer that has not read, or no longer uses, a copy of the risks.
At(place) == [place |-> place, risk |-> AnyRisk,
              feedback |-> Undecided, copy |-> NotReviewed]

TypeOK ==
    /\ status \in ReviewStatuses
    /\ decision \in Versions
    /\ report \in Reports
    /\ lease \in Reviewers \cup {"none", "worker", "gone"}
    /\ memory \subseteq [risk : Risks, action : Actions]
    /\ results \subseteq Reports
    /\ bookmark \in {"none", "paused"}
    /\ worker \in Tail \cup {"idle", "down"}
    /\ owner \in Reviewers \cup {"none"}
    /\ reviewer \in [Reviewers -> [place : ReviewerPlaces, risk : Risks,
                                   feedback : Decisions, copy : Versions]]
    /\ reporter \in [Reporters -> [place : {"idle", "lookup", "save", "write"},
                                   status : ReviewStatuses, result : Reports]]
    /\ delivered \subseteq Reports
    /\ overlapped \in BOOLEAN
    /\ clock \in Nat /\ requests \in Nat /\ faults \in Nat

IdleReporter == [place |-> "idle", status |-> "START", result |-> NoReport]

\* aggregate_risks has written the findings; the run is not over.
Init ==
    /\ status \in {"HUMAN_REVIEW_PENDING", "EVIDENCE_VERIFIED"}
    /\ decision = NotReviewed
    /\ report = NoReport
    /\ lease = "worker"
    /\ memory = {}
    /\ results = {}
    /\ bookmark = "none"
    /\ worker = "phase"
    /\ owner = "none"
    /\ reviewer = [v \in Reviewers |-> At("idle")]
    /\ reporter = [p \in Reporters |-> IdleReporter]
    /\ delivered = {}
    /\ overlapped = FALSE
    /\ clock = 0
    /\ requests = 0
    /\ faults = 0

Fault(kind) ==
    /\ kind \in FaultKinds
    /\ faults < MaxFaults
    /\ faults' = faults + 1

NoFault == UNCHANGED faults

\* _pending_risk_ids: the risks without a user_action.
Pending(version) == {r \in Risks : version[r].action = "none"}

-----------------------------------------------------------------------------
(* Feedback: submit_feedback, then apply_feedback_to_task.  The status of   *)
(* the task is not looked at, and a decided risk may be decided again.      *)

MoveTo(v, place) == reviewer' = [reviewer EXCEPT ![v] = At(place)]

FeedbackRead(v) ==
    /\ reviewer[v].place = "idle"
    /\ clock < MaxFeedbacks
    /\ clock' = clock + 1
    /\ \E r \in Risks, a \in Actions :
           reviewer' = [reviewer EXCEPT ![v] =
               [place |-> "memory", risk |-> r,
                feedback |-> [action |-> a, at |-> clock'], copy |-> decision]]
    /\ UNCHANGED <<rowVars, lease, memory, results, bookmark, worker, owner,
                   reporter, delivered, overlapped, requests>>
    /\ NoFault

\* The episode write_memory stores: its key is a digest of the payload, so
\* the same feedback sent again finds the episode of the first one.
Episode(v) == [risk |-> reviewer[v].risk, action |-> reviewer[v].feedback.action]

\* Mutant: a memory that cannot be written is skipped.
FeedbackRemembersAtBest(v) ==
    /\ reviewer[v].place = "memory"
    /\ memory' \in {memory, memory \cup {Episode(v)}}
    /\ reviewer' = [reviewer EXCEPT ![v].place = "write"]
    /\ UNCHANGED <<rowVars, lease, bookmark, worker, owner, reportVars, observed>>
    /\ NoFault

FeedbackRemember(v) ==
    /\ reviewer[v].place = "memory"
    /\ memory' = memory \cup {Episode(v)}
    /\ reviewer' = [reviewer EXCEPT ![v].place = "write"]
    /\ UNCHANGED <<rowVars, lease, bookmark, worker, owner, reportVars, observed>>
    /\ NoFault

\* _apply_feedback_to_risk on the copy read before the memory was written.
Applied(v) == [reviewer[v].copy EXCEPT ![reviewer[v].risk] = reviewer[v].feedback]

FeedbackWrite(v) ==
    /\ reviewer[v].place = "write"
    /\ decision' = Applied(v)
    /\ status' = IF Pending(decision') = {} THEN "MEMORY_UPDATED"
                                            ELSE "HUMAN_REVIEW_PENDING"
    /\ overlapped' = (overlapped \/ decision # reviewer[v].copy)
    /\ MoveTo(v, "resume")
    /\ UNCHANGED <<reportVars, lease, memory, bookmark, worker, owner, clock>>
    /\ NoFault

\* The request is answered with an error.  A memory write that fails may
\* have stored the episode.
FeedbackFails(v) ==
    /\ reviewer[v].place \in {"memory", "write"}
    /\ Fault("store")
    /\ memory' \in {memory} \cup
           (IF reviewer[v].place = "memory" THEN {memory \cup {Episode(v)}} ELSE {})
    /\ MoveTo(v, "idle")
    /\ UNCHANGED <<rowVars, lease, bookmark, worker, owner, reportVars, observed>>

-----------------------------------------------------------------------------
(* resume_human_review, in the same request once the feedback is written.   *)

\* No interrupt: the answer is the task as it is.
ResumeCheck(v) ==
    /\ reviewer[v].place = "resume"
    /\ MoveTo(v, IF bookmark = "paused" THEN "acquire" ELSE "idle")
    /\ UNCHANGED <<rowVars, lease, memory, bookmark, worker, owner, reportVars, observed>>
    /\ NoFault

\* Mutant: trusts the lease of the row alone.
MayExecuteByLease == lease = "none"

\* try_acquire_execution: an owner in this process, or a lease in the row,
\* refuses the second execution, and the request is answered with an error.
MayExecute == owner = "none" /\ lease = "none"

ResumeAcquire(v) ==
    /\ reviewer[v].place = "acquire"
    /\ \/ /\ MayExecute
          /\ owner' = v
          /\ lease' = v
          /\ MoveTo(v, "resumed")
       \/ /\ ~MayExecute
          /\ MoveTo(v, "idle")
          /\ UNCHANGED <<owner, lease>>
    /\ UNCHANGED <<rowVars, memory, bookmark, worker, reportVars, observed>>
    /\ NoFault

\* await_human_review returns phase=complete, or phase=human_review and is
\* entered again: either way the checkpoint it was parked on is replaced.
Returns(v, place) ==
    /\ bookmark' = "none"
    /\ MoveTo(v, place)

\* The node runs from its start.  With risks left, interrupt() returns the
\* resume value and the risks are read again.
ResumeStart(v) ==
    /\ reviewer[v].place = "resumed"
    /\ \/ Pending(decision) = {} /\ Returns(v, "release")
       \/ Pending(decision) # {} /\ MoveTo(v, "answered") /\ UNCHANGED bookmark
    /\ UNCHANGED <<rowVars, lease, memory, worker, owner, reportVars, observed>>
    /\ NoFault

ResumeReread(v) ==
    /\ reviewer[v].place = "answered"
    /\ Returns(v, IF Pending(decision) = {} THEN "release" ELSE "again")
    /\ UNCHANGED <<rowVars, lease, memory, worker, owner, reportVars, observed>>
    /\ NoFault

\* Mutant: a value for interrupt() is still there.
ResumeAgainAnswered(v) ==
    /\ reviewer[v].place = "again"
    /\ MoveTo(v, IF Pending(decision) = {} THEN "release" ELSE "answered")
    /\ UNCHANGED <<rowVars, lease, memory, bookmark, worker, owner, reportVars, observed>>
    /\ NoFault

\* Entered again: this time interrupt() has no value to return.
ResumeAgain(v) ==
    /\ reviewer[v].place = "again"
    /\ MoveTo(v, IF Pending(decision) = {} THEN "release" ELSE "pausing")
    /\ UNCHANGED <<rowVars, lease, memory, bookmark, worker, owner, reportVars, observed>>
    /\ NoFault

ResumePause(v) ==
    /\ reviewer[v].place = "pausing"
    /\ bookmark' = "paused"
    /\ MoveTo(v, "release")
    /\ UNCHANGED <<rowVars, lease, memory, worker, owner, reportVars, observed>>
    /\ NoFault

\* run re-raises what a resumed graph raises: the row is not touched.
ResumeFails(v) ==
    /\ reviewer[v].place \in Streaming
    /\ Fault("checkpoint")
    /\ MoveTo(v, "release")
    /\ UNCHANGED <<rowVars, lease, memory, bookmark, worker, owner, reportVars, observed>>

\* release_execution clears the lease of this owner only, which the boot of
\* the worker may have cleared before; the owner is forgotten in any case.
ResumeRelease(v) ==
    /\ reviewer[v].place = "release"
    /\ owner' = "none"
    /\ \/ lease' = (IF lease = v THEN "none" ELSE lease) /\ NoFault
       \/ lease = v /\ lease' = "gone" /\ Fault("release")
    /\ MoveTo(v, "idle")
    /\ UNCHANGED <<rowVars, memory, bookmark, worker, reportVars, observed>>

-----------------------------------------------------------------------------
(* The end of ReviewOrchestratorAgent.run, after the business graph.        *)

RunPhase ==
    /\ worker = "phase"
    /\ worker' = IF status = "HUMAN_REVIEW_PENDING" /\ Pending(decision) # {}
                 THEN "await" ELSE "release"
    /\ UNCHANGED <<rowVars, lease, memory, bookmark, owner, reviewer, reportVars, observed>>
    /\ NoFault

RunAwait ==
    /\ worker = "await"
    /\ worker' = IF Pending(decision) # {} THEN "pausing" ELSE "release"
    /\ UNCHANGED <<rowVars, lease, memory, bookmark, owner, reviewer, reportVars, observed>>
    /\ NoFault

RunPause ==
    /\ worker = "pausing"
    /\ bookmark' = "paused"
    /\ worker' = "release"
    /\ UNCHANGED <<rowVars, lease, memory, owner, reviewer, reportVars, observed>>
    /\ NoFault

RunFails ==
    /\ worker \in {"phase", "await", "pausing"}
    /\ Fault("checkpoint")
    /\ worker' = "failed"
    /\ UNCHANGED <<rowVars, lease, memory, bookmark, owner, reviewer, reportVars, observed>>

\* Mutant: the failure is saved with the risks the run computed.
RunRecordsItsRisks ==
    /\ worker = "failed"
    /\ status' = "TASK_ERROR"
    /\ decision' = NotReviewed
    /\ worker' = "release"
    /\ UNCHANGED <<lease, memory, bookmark, owner, reviewer, reportVars, observed>>
    /\ NoFault

\* _record_unexpected_failure: whatever the status has become meanwhile.
RunRecord ==
    /\ worker = "failed"
    /\ status' = "TASK_ERROR"
    /\ worker' = "release"
    /\ UNCHANGED <<decision, lease, memory, bookmark, owner, reviewer, reportVars, observed>>
    /\ NoFault

RunRelease ==
    /\ worker = "release"
    /\ \/ lease' = "none" /\ NoFault
       \/ lease' = "gone" /\ Fault("release")
    /\ worker' = "idle"
    /\ UNCHANGED <<rowVars, memory, bookmark, owner, reviewer, reportVars, observed>>

WorkerCrash ==
    /\ worker # "down"
    /\ Fault("worker")
    /\ lease' = IF lease = "worker" THEN "gone" ELSE lease
    /\ worker' = "down"
    /\ UNCHANGED <<rowVars, memory, bookmark, owner, reviewer, reportVars, observed>>

\* clear_execution_leases, those of the API process included.  The status is
\* terminal, so the task is not queued again.
WorkerBoot ==
    /\ worker = "down"
    /\ lease' = "none"
    /\ worker' = "idle"
    /\ UNCHANGED <<rowVars, memory, bookmark, owner, reviewer, reportVars, observed>>
    /\ NoFault

ApiCrash ==
    /\ Fault("api")
    /\ reviewer' = [v \in Reviewers |-> At("idle")]
    /\ reporter' = [p \in Reporters |-> IdleReporter]
    /\ owner' = "none"
    /\ lease' = IF lease \in Reviewers THEN "gone" ELSE lease
    /\ UNCHANGED <<rowVars, memory, results, bookmark, worker, delivered, requests, observed>>

-----------------------------------------------------------------------------
(* Report: generate_task_report.                                            *)

reviewVars == <<decision, lease, memory, bookmark, worker, owner, reviewer, observed>>

\* Mutant: a review still in progress can be reported.
ReportableInReview(s) ==
    s \in {"HUMAN_REVIEW_PENDING", "MEMORY_UPDATED", "REPORT_READY"}

\* REPORTABLE_TASK_STATUSES
Reportable(s) == s \in {"MEMORY_UPDATED", "REPORT_READY"}

ReportRead(p) ==
    /\ reporter[p].place = "idle"
    /\ requests < MaxReports
    /\ requests' = requests + 1
    /\ reporter' = [reporter EXCEPT ![p] =
           [place |-> "lookup", status |-> status,
            result |-> [version |-> decision, id |-> requests']]]
    /\ UNCHANGED <<reviewVars, status, report, results, delivered>>
    /\ NoFault

\* get_idempotent_result; _ensure_reportable_task only when it finds none.
ReportLookup(p) ==
    /\ reporter[p].place = "lookup"
    /\ LET found == {x \in results : x.version = reporter[p].result.version} IN
       \/ \E x \in found : reporter' = [reporter EXCEPT ![p].place = "write",
                                                        ![p].result = x]
       \/ /\ found = {} /\ Reportable(reporter[p].status)
          /\ reporter' = [reporter EXCEPT ![p].place = "save"]
       \/ /\ found = {} /\ ~Reportable(reporter[p].status)
          /\ reporter' = [reporter EXCEPT ![p] = IdleReporter]
    /\ UNCHANGED <<reviewVars, status, report, results, delivered, requests>>
    /\ NoFault

\* save_idempotent_result inserts unless the key is there, and returns what
\* is stored.
Inserted(p) ==
    IF \E x \in results : x.version = reporter[p].result.version
    THEN results ELSE results \cup {reporter[p].result}

\* Mutant: answers with its own report instead of the stored one.
ReportSaveOwn(p) ==
    /\ reporter[p].place = "save"
    /\ results' = Inserted(p)
    /\ reporter' = [reporter EXCEPT ![p].place = "write"]
    /\ UNCHANGED <<reviewVars, status, report, delivered, requests>>
    /\ NoFault

ReportSave(p) ==
    /\ reporter[p].place = "save"
    /\ results' = Inserted(p)
    /\ \E x \in results' :
           /\ x.version = reporter[p].result.version
           /\ reporter' = [reporter EXCEPT ![p].place = "write", ![p].result = x]
    /\ UNCHANGED <<reviewVars, status, report, delivered, requests>>
    /\ NoFault

ReportWrite(p) ==
    /\ reporter[p].place = "write"
    /\ status' = "REPORT_READY"
    /\ report' = reporter[p].result
    /\ delivered' = delivered \cup {reporter[p].result}
    /\ reporter' = [reporter EXCEPT ![p] = IdleReporter]
    /\ UNCHANGED <<reviewVars, results, requests>>
    /\ NoFault

-----------------------------------------------------------------------------
Feedback(v) == FeedbackRemember(v) \/ FeedbackWrite(v)

Resume(v) ==
    \/ ResumeCheck(v) \/ ResumeAcquire(v) \/ ResumeStart(v) \/ ResumeReread(v)
    \/ ResumeAgain(v) \/ ResumePause(v) \/ ResumeRelease(v)

Report(p) ==
    ReportRead(p) \/ ReportLookup(p) \/ ReportSave(p) \/ ReportWrite(p)

Run == RunPhase \/ RunAwait \/ RunPause \/ RunRecord \/ RunRelease

Faulty == RunFails \/ WorkerCrash \/ ApiCrash
          \/ \E v \in Reviewers : FeedbackFails(v) \/ ResumeFails(v)

Next ==
    \/ \E v \in Reviewers : FeedbackRead(v) \/ Feedback(v) \/ Resume(v)
    \/ \E p \in Reporters : Report(p)
    \/ Run
    \/ WorkerBoot
    \/ Faulty

Spec == Init /\ [][Next]_vars

\* A request that has been accepted is served to its end.
Fairness == \A v \in Reviewers : WF_vars(Feedback(v) \/ Resume(v))

FairSpec == Spec /\ Fairness

-----------------------------------------------------------------------------
(* Properties.                                                              *)

\* A decision on record was remembered first: whatever fails, dies or
\* overlaps, no risk carries feedback the memory store does not have.
DecisionRemembered ==
    \A r \in Risks : decision[r].action # "none" =>
        [risk |-> r, action |-> decision[r].action] \in memory

\* Two executions never drive the control graph of one task at once, even
\* when the boot of the worker clears a lease that the API still relies on.
ControlExclusive ==
    /\ \A v, w \in Reviewers :
           reviewer[v].place \in Streaming /\ reviewer[w].place \in Streaming => v = w
    /\ worker \in {"await", "pausing"} =>
           \A v \in Reviewers : reviewer[v].place \notin Streaming

\* A lease belongs to an execution in progress; only a crash or a failed
\* release leaves one behind.
LeaseHeld ==
    /\ lease \in Reviewers => /\ owner = lease
                              /\ reviewer[lease].place \in Streaming \cup {"release"}
    /\ lease = "worker" => worker \in Tail

\* However many requests race for it, one version of the risks has one
\* report: the answers to all of them are the same document.
OneReportPerVersion ==
    \A x, y \in delivered : x.version = y.version => x = y

\* Unless two feedbacks have overlapped, a report that was delivered is made
\* of risks that a human has all decided.
ReportsDecided ==
    ~overlapped => \A x \in delivered : Pending(x.version) = {}

\* A failing checkpoint, a crash or a report takes no decision back: only
\* the write of a feedback changes the decisions on record.
CheckpointKeepsFeedback ==
    [][decision' # decision =>
           \E v \in Reviewers : reviewer[v].place = "write" /\ reviewer'[v].place = "resume"]_vars

\* A feedback that was accepted is answered: the resumed graph stops at the
\* next pause or at its end.
FeedbackReturns ==
    \A v \in Reviewers : reviewer[v].place # "idle" ~> reviewer[v].place = "idle"

\* A risk that has been handled is never pending again.  Two feedbacks that
\* overlap break it.
HandledStaysHandled == [][Pending(decision') \subseteq Pending(decision)]_vars

======================================================================
