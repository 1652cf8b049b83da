----------------------------- MODULE TaskStore ------------------------------
(***************************************************************************)
(* How the state of one task is kept.  PostgreSQL holds the task row, the  *)
(* clauses, risks and step logs in tables of their own, and the event log; *)
(* update_task writes all of them in one transaction, a progress update    *)
(* only what it takes to be new (event_service.py, postgres_persistence.py,*)
(* postgres_repositories.py).  The process that executes the task trusts   *)
(* its cached state while status and last event id are those of the        *)
(* database; any other access loads it table by table, outside of the      *)
(* mutation lock.                                                          *)
(*                                                                         *)
(* The run publishes an item at a time, as the review graph does; what its *)
(* nodes compute is left to the other modules.                             *)
(***************************************************************************)
EXTENDS ReviewStatus, Integers, Sequences, FiniteSets, SequencesExt

CONSTANTS
    N,          \* clauses of the contract, and risk contexts built from them
    Width,      \* width of a batch of key-field extractions
    Risks,      \* risks put to a human
    MaxEvents,  \* length of the event log in a behaviour
    MaxFaults   \* faults in a behaviour

\* Clause ids have three digits (clause_service.py), so that up to 999 their
\* order is that of the clauses.
ASSUME StoreAssumption ==
    /\ N \in 0..999 /\ Width \in Nat \ {0}
    /\ MaxEvents \in Nat /\ MaxFaults \in Nat
    /\ "null" \notin Risks

Items == 1..N
Processes == {"api", "worker"}

VARIABLES
    (* PostgreSQL, schema app. *)
    row,        \* review_tasks: status, results (analysis_results), resume_from
    clauseRows, \* clauses
    riskRows,   \* risk_findings: whether a human has decided each of them
    logRows,    \* step_logs, by log_index
    events,     \* task_events
    lease,      \* review_tasks.execution_owner is not empty
    (* The processes. *)
    lock,       \* who is in update_task, after its commit
    cache,      \* ReviewEventStore of the worker: _states and _events
    loading,    \* a load_state of the worker that is under way
    run,        \* the worker's run: where it is, context.logs, the results of the
                \* batch that are still to publish, the branches recorded
    request,    \* what an API request works on: it reads first and writes later
    (* Observation only. *)
    saved,      \* the AgentState of the last update
    faults

dbVars == <<row, clauseRows, riskRows, logRows, events>>
workerVars == <<cache, loading, run>>
vars == <<dbVars, lease, lock, workerVars, request, saved, faults>>

-----------------------------------------------------------------------------
(* The state of a task and its tables.                                     *)

\* A list of the state may be None; then it is saved as it is, while an empty
\* one empties its table.  None is neither empty nor a list of clauses or risks.
NoClauses == <<0>>
NoRisks == [r \in {"null"} |-> FALSE]
NoFindings == [r \in {} |-> FALSE]

NoCache == [last |-> -1, state |-> NoTask]
NotLoading == [last |-> -1]
Unread == -2
NoTaskRow == [status |-> NoTask, results |-> {}, resume_from |-> NoTask]

\* Event ids count from 0.
LastId == Len(events) - 1

\* Rows ordered by their ids.
Ordered(S) == CHOOSE list \in [1..Cardinality(S) -> S] :
                  \A j, k \in DOMAIN list : j < k => list[j] < list[k]

\* get_clauses in the order of their ids, and get_risks: an empty table is None.
\* get_logs are the rows.
Clauses == IF clauseRows = {} THEN NoClauses ELSE Ordered(clauseRows)
RisksOf(rows) == IF rows = NoFindings THEN NoRisks ELSE rows

\* _state_from_task: a row that was read before, and the tables as they are.
StateFromTask(task) ==
    [status      |-> task.status,
     results     |-> task.results,
     resume_from |-> task.resume_from,
     clauses     |-> Clauses,
     risks       |-> RisksOf(riskRows),
     logs        |-> logRows]

\* load_state and get_task, if nothing is committed while they read.
Loaded == [last |-> LastId, state |-> StateFromTask(row)]

Idle == [pc |-> "idle", logs |-> <<>>, batch |-> <<>>, done |-> <<>>]

Init ==
    /\ row = NoTaskRow
    /\ clauseRows = {} /\ riskRows = NoFindings /\ logRows = <<>> /\ events = <<>>
    /\ lease = FALSE
    /\ lock = "free"
    /\ cache = NoCache
    /\ loading = NotLoading
    /\ run = Idle
    /\ request = [kind |-> "none"]
    /\ saved = StateFromTask(NoTaskRow)
    /\ faults = 0

Fault ==
    /\ faults < MaxFaults
    /\ faults' = faults + 1

-----------------------------------------------------------------------------
(* update_task: refresh, decide, one transaction.                          *)

\* _execution_owners of the worker's store.
Owner(p) == p = "worker" /\ run.pc # "idle"

\* load_task_execution_control answers what the cache has.
Trusted == cache.state.status = row.status /\ cache.last = LastId

\* Mutant: an owner that has missed events reads those, and keeps its state.
RefreshedEventsOnly(p) ==
    IF Owner(p) /\ cache # NoCache THEN [cache EXCEPT !.last = LastId] ELSE Loaded

\* _refresh_for_access_locked under task_mutation_lock.
Refreshed(p) ==
    IF Owner(p) /\ cache # NoCache /\ Trusted THEN cache ELSE Loaded

\* update_task raises TaskCancelledError.
Refuses(state, status) == state.status \in Cancelling /\ status \notin Cancelling

\* Mutant: the entry at the last persisted index is written again at the end.
NewLogsOverlapping(logs) ==
    logRows \o SubSeq(logs, IF logRows = <<>> THEN 1 ELSE Len(logRows), Len(logs))

\* _save_new_logs: entries are appended by their position.
NewLogs(logs) == logRows \o SubSeq(logs, Len(logRows) + 1, Len(logs))

\* PostgresTaskRepository.save: the row.
SaveRow(new) ==
    row' = [status |-> new.status, results |-> new.results, resume_from |-> new.resume_from]

\* PostgresEventRepository.append under the id after the last cached event; an
\* id that is taken by another event is an error.
AppendEvent(p, new) ==
    /\ Refreshed(p).last + 1 = Len(events)
    /\ events' = Append(events, new.status)

\* save_results: the clauses of the state and no others, if it has a list of them.
SaveClauses(new) ==
    clauseRows' = IF new.clauses = NoClauses THEN clauseRows ELSE ToSet(new.clauses)

\* _save_risks: likewise.
SaveRisks(new) == riskRows' = IF new.risks = NoRisks THEN riskRows ELSE new.risks

\* _save_logs
SaveLogs(new) == logRows' = new.logs

\* save_progress of the document: only the clause that was completed last.
SaveClauseProgress(new, step) ==
    clauseRows' = IF step # "key_field_extract" THEN clauseRows
                  ELSE IF new.clauses \in {NoClauses, <<>>} THEN {}
                  ELSE clauseRows \cup {Last(new.clauses)}

\* save_progress of the results: new log entries, and the risks at one step.  A
\* list of logs that is shorter than the persisted one is an error.
SaveResultProgress(new, step) ==
    /\ IF step = "evidence_verification" THEN SaveRisks(new) ELSE UNCHANGED riskRows
    /\ Len(logRows) <= Len(new.logs)
    /\ logRows' = NewLogs(new.logs)

\* Who may enter update_task: the mutation lock is free, and no load of the
\* same store holds its condition.
MayUpdate(p) ==
    /\ lock = "free"
    /\ p = "worker" => loading = NotLoading
    /\ Len(events) < MaxEvents

\* update_task up to the transaction: what is common to all events.
Commit(p, new) ==
    /\ MayUpdate(p)
    /\ ~Refuses(Refreshed(p).state, new.status)
    /\ SaveRow(new)
    /\ AppendEvent(p, new)
    /\ lock' = p
    /\ saved' = new

\* save_state_and_event
Full(p, new) == Commit(p, new) /\ SaveClauses(new) /\ SaveRisks(new) /\ SaveLogs(new)

\* The same for a step whose name ends in _progress.
Progress(p, new, step) ==
    Commit(p, new) /\ SaveClauseProgress(new, step) /\ SaveResultProgress(new, step)

\* The transaction is committed; when update_task returns, the cache of its
\* store is the new state.
Return(p) ==
    /\ lock = p
    /\ lock' = "free"
    /\ cache' = IF p = "worker" THEN [last |-> LastId, state |-> saved] ELSE cache
    /\ UNCHANGED <<dbVars, lease, loading, run, request, saved, faults>>

-----------------------------------------------------------------------------
(* The worker: lease, cache and run.                                       *)

WorkerIdle == lock # "worker" /\ loading = NotLoading

\* create_task: the row, its upload and the first event in one transaction.
CreateTask ==
    /\ row.status = NoTask
    /\ Full("api", [Loaded.state EXCEPT !.status = "START"])
    /\ UNCHANGED <<lease, workerVars, request, faults>>

\* try_acquire_execution, then get_task: the run starts with the logs of the
\* row, and with no branch result.
RunStart ==
    /\ WorkerIdle
    /\ run.pc = "idle"
    /\ row.status \in Recoverable \cup {"CANCEL_REQUESTED"}
    /\ ~lease
    /\ lease' = TRUE
    /\ cache' = Loaded
    /\ run' = [Idle EXCEPT !.pc = "node", !.logs = logRows]
    /\ UNCHANGED <<dbVars, lock, loading, request, saved, faults>>

\* The state update_task starts from in the worker.
Current == Refreshed("worker").state

\* A node of the run writes all it has; the run goes on in place pc.
NodeSaves(new, pc) ==
    /\ WorkerIdle
    /\ Full("worker", new)
    /\ run' = [run EXCEPT !.pc = pc]
    /\ UNCHANGED <<lease, cache, loading, request>>

\* The nodes up to the classification, taken as one.
Classified ==
    /\ run.pc = "node"
    /\ row.status \in {"START", "UPLOAD_RECEIVED"}
    /\ NodeSaves([Current EXCEPT !.status = "CONTRACT_TYPE_CLASSIFIED", !.logs = run.logs], "node")
    /\ UNCHANGED faults

\* classify_contract ends the review: the contract is not supported, or a human
\* has to say what it is.  The list of risks is emptied.
ClassifyEnds ==
    /\ run.pc = "node"
    /\ row.status \in {"START", "UPLOAD_RECEIVED"}
    /\ \E end \in {"UNSUPPORTED_CONTRACT_TYPE", "NEED_MANUAL_REVIEW"} :
        NodeSaves([Current EXCEPT !.status = end, !.risks = NoFindings, !.logs = run.logs], "tail")
    /\ UNCHANGED faults

\* structure_clauses announces the clauses an earlier run completed.
StructureStart ==
    /\ WorkerIdle
    /\ run.pc = "node"
    /\ row.status = "CONTRACT_TYPE_CLASSIFIED"
    /\ run' = [run EXCEPT !.pc = "structure", !.batch = <<Cardinality(clauseRows)>>]
    /\ UNCHANGED <<dbVars, lease, lock, cache, loading, request, saved, faults>>

\* A batch of extract_key_fields: its logs are merged before the first of its
\* results is published.
ClauseBatch ==
    /\ WorkerIdle
    /\ run.pc = "structure"
    /\ run.batch = <<>>
    /\ LET completed == Cardinality(clauseRows)
           size == IF completed + Width < N THEN Width ELSE N - completed
       IN  /\ size > 0
           /\ run' = [run EXCEPT !.logs = @ \o [k \in 1..size |-> <<"clause", completed + k>>],
                                 !.batch = [k \in 1..size |-> completed + k]]
    /\ UNCHANGED <<dbVars, lease, lock, cache, loading, request, saved, faults>>

\* _publish_clause_progress of the next result of the batch.
ClauseProgress ==
    /\ WorkerIdle
    /\ run.pc = "structure"
    /\ run.batch # <<>>
    /\ Progress("worker", [Current EXCEPT !.clauses = [k \in 1..Head(run.batch) |-> k],
                                          !.logs = run.logs], "key_field_extract")
    /\ run' = [run EXCEPT !.batch = Tail(@)]
    /\ UNCHANGED <<lease, cache, loading, request, faults>>

\* An answer for the extraction is no valid one: results and risks are emptied.
StructureEnds ==
    /\ run.pc = "structure"
    /\ row.status = "CONTRACT_TYPE_CLASSIFIED"
    /\ NodeSaves([Current EXCEPT !.status = "LLM_OUTPUT_INVALID", !.results = {},
                                 !.risks = NoFindings, !.logs = run.logs], "tail")
    /\ UNCHANGED faults

\* CLAUSES_STRUCTURED to CONTEXT_BUILT, taken as one.
ContextsBuilt ==
    /\ run.pc = "structure"
    /\ run.batch = <<>>
    /\ row.status = "CONTRACT_TYPE_CLASSIFIED"
    /\ clauseRows = Items
    /\ NodeSaves([Current EXCEPT !.status = "CONTEXT_BUILT", !.clauses = [k \in Items |-> k],
                                 !.logs = run.logs], "node")
    /\ UNCHANGED faults

\* What build_context leaves behind, also of an earlier run.
AtBranches == row.status \in {"CONTEXT_BUILT", "RISK_ANALYZED"}

\* build_context announces the verifications that were persisted as completed: a
\* row has such a stage only from an older version of the program.
VerificationsRestored ==
    /\ WorkerIdle
    /\ run.pc = "node"
    /\ AtBranches /\ row.results # {}
    /\ Progress("worker", [Current EXCEPT !.logs = run.logs], "evidence_verification")
    /\ run' = [run EXCEPT !.pc = "restored"]
    /\ UNCHANGED <<lease, cache, loading, request, faults>>

\* It announces the branches and sends them off.
BranchesStart ==
    /\ WorkerIdle
    /\ run.pc \in {"node", "restored"}
    /\ AtBranches
    /\ Progress("worker", [Current EXCEPT !.logs = run.logs], "risk_subgraph")
    /\ run' = [run EXCEPT !.pc = "branches"]
    /\ UNCHANGED <<lease, cache, loading, request, faults>>

\* Mutant: the logs of the branches in the order of their contexts.
AllLogsByIndex(done) ==
    run.logs \o [k \in DOMAIN done |-> <<"branch", SetToSortSeq(ToSet(done), <)[k]>>]

\* _all_logs: what the run has logged, then the branches as they came in.
AllLogs(done) == run.logs \o [k \in DOMAIN done |-> <<"branch", done[k]>>]

\* _record_branch_progress: a branch ends and is recorded.
BranchProgress(i) ==
    /\ WorkerIdle
    /\ run.pc = "branches"
    /\ AtBranches
    /\ i \notin ToSet(run.done)
    /\ LET done == Append(run.done, i)
           contiguous == {j \in ToSet(done) : 1..j \subseteq ToSet(done)}
       IN  /\ Progress("worker", [Current EXCEPT !.results = contiguous, !.logs = AllLogs(done)],
                       "risk_subgraph")
           /\ run' = [run EXCEPT !.done = done]
    /\ UNCHANGED <<lease, cache, loading, request, faults>>

\* aggregate_risks: what it ends in depends on the branches (RiskFanout).
Analyzed ==
    /\ run.pc = "branches"
    /\ AtBranches
    /\ ToSet(run.done) = Items
    /\ NodeSaves([Current EXCEPT !.status = "RISK_ANALYZED", !.results = Items,
                                 !.logs = AllLogs(run.done)], "analyzed")
    /\ UNCHANGED faults

\* The findings of a run: risks that are new, and those it has restored, with
\* what a human decided on them.
Findings(known) ==
    {risks \in UNION {[S -> BOOLEAN] : S \in SUBSET Risks} :
        \A r \in DOMAIN risks : risks[r] => r \in DOMAIN known /\ known[r]}

Aggregate ==
    /\ run.pc = "analyzed"
    /\ row.status = "RISK_ANALYZED"
    /\ \E end \in {"HUMAN_REVIEW_PENDING", "EVIDENCE_VERIFIED"}, risks \in Findings(Current.risks) :
        NodeSaves([Current EXCEPT !.status = end, !.results = Items, !.risks = risks,
                                  !.logs = AllLogs(run.done)], "tail")
    /\ UNCHANGED faults

\* A branch ended the review: only one that asks for a human leaves findings.
AggregateEnds ==
    /\ run.pc = "branches"
    /\ AtBranches
    /\ ToSet(run.done) = Items
    /\ \E end \in {"HUMAN_REVIEW_PENDING", "NEED_MANUAL_REVIEW", "RETRIEVAL_FAILED",
                  "LLM_OUTPUT_INVALID"}, risks \in Findings(Current.risks) :
        /\ end # "HUMAN_REVIEW_PENDING" => risks = NoFindings
        /\ NodeSaves([Current EXCEPT !.status = end, !.results = Items, !.risks = risks,
                                     !.logs = AllLogs(run.done)], "tail")
    /\ UNCHANGED faults

\* After the result, the control graph pauses or completes ...
TailEnds ==
    /\ WorkerIdle
    /\ run.pc = "tail"
    /\ run' = [run EXCEPT !.pc = "end"]
    /\ UNCHANGED <<dbVars, lease, lock, cache, loading, request, saved, faults>>

\* ... or raises: _record_unexpected_failure, over what was written meanwhile,
\* unless that was a request to cancel.
TailFails ==
    /\ run.pc = "tail"
    /\ NodeSaves([Current EXCEPT !.status = IF @ \in Cancelling THEN "CANCELLED" ELSE "TASK_ERROR",
                                 !.logs = AllLogs(run.done)], "end")
    /\ Fault

\* The nodes of the run execute, and its result is not written yet.
InNodes == run.pc \in {"node", "structure", "restored", "branches", "analyzed"}

\* Any node fails: _update_terminal_or_cancel with all that was logged.
NodeFails ==
    /\ InNodes
    /\ row.status \in Recoverable
    /\ \E end \in {"NODE_TIMEOUT", "TASK_ERROR"} :
        NodeSaves([Current EXCEPT !.status = end,
                                  !.resume_from = IF end = "NODE_TIMEOUT" THEN row.status ELSE @,
                                  !.logs = AllLogs(run.done)], "end")
    /\ Fault

\* An update of the run is refused, or a check finds the request.
RunCancelled ==
    /\ InNodes
    /\ row.status = "CANCEL_REQUESTED"
    /\ NodeSaves([Current EXCEPT !.status = "CANCELLED", !.logs = AllLogs(run.done)], "end")
    /\ UNCHANGED faults

\* release_execution
RunEnds ==
    /\ run.pc = "end"
    /\ WorkerIdle
    /\ run' = Idle
    /\ lease' = FALSE
    /\ UNCHANGED <<dbVars, lock, cache, loading, request, saved, faults>>

\* raise_if_cancelled between two tools: if the control row has moved on, the
\* task is loaded anew, a table at a time and without the mutation lock.
CheckLoads ==
    /\ run.pc # "idle"
    /\ WorkerIdle
    /\ ~Trusted
    /\ loading' = [status |-> row.status, results |-> row.results, resume_from |-> row.resume_from,
                   last |-> Unread]
    /\ UNCHANGED <<dbVars, lease, lock, cache, run, request, saved, faults>>

LoadEvents ==
    /\ loading # NotLoading
    /\ loading.last = Unread
    /\ loading' = [loading EXCEPT !.last = LastId]
    /\ UNCHANGED <<dbVars, lease, lock, cache, run, request, saved, faults>>

LoadTables ==
    /\ loading # NotLoading
    /\ loading.last # Unread
    /\ cache' = [last |-> loading.last, state |-> StateFromTask(loading)]
    /\ loading' = NotLoading
    /\ UNCHANGED <<dbVars, lease, lock, run, request, saved, faults>>

\* The worker dies, also between a commit and its publication; at its boot
\* load_persisted clears the lease and the task is queued again.
WorkerCrash ==
    /\ run.pc # "idle"
    /\ Fault
    /\ run' = Idle
    /\ lease' = FALSE
    /\ loading' = NotLoading
    /\ cache' = NoCache
    /\ lock' = IF lock = "worker" THEN "free" ELSE lock
    /\ UNCHANGED <<dbVars, request, saved>>

\* The steps that end an analysis, and say anew which risks there are.
EndsAnalysis == ClassifyEnds \/ StructureEnds \/ Aggregate \/ AggregateEnds

Worker == \/ Classified \/ StructureStart \/ ClauseBatch \/ ClauseProgress
          \/ ContextsBuilt \/ VerificationsRestored \/ BranchesStart
          \/ (\E i \in Items : BranchProgress(i)) \/ Analyzed \/ EndsAnalysis
          \/ TailEnds \/ TailFails \/ NodeFails \/ RunCancelled \/ RunStart \/ RunEnds
          \/ CheckLoads \/ LoadEvents \/ LoadTables \/ WorkerCrash

-----------------------------------------------------------------------------
(* API requests: each reads the task first and writes it later.            *)

\* request_cancel
CancelRead ==
    /\ request.kind = "none"
    /\ row.status \in Recoverable
    /\ request' = [kind |-> "cancel"]
    /\ UNCHANGED <<dbVars, lease, lock, workerVars, saved, faults>>

\* apply_feedback_to_task works on a copy of the risks and of the logs.  It asks
\* for no status: that no run is in its nodes is an assumption.
FeedbackRead(r) ==
    /\ request.kind = "none"
    /\ row.status \in Terminal \ Cancelling
    /\ r \in DOMAIN riskRows
    /\ request' = [kind |-> "feedback", risks |-> [riskRows EXCEPT ![r] = TRUE],
                   logs |-> Append(logRows, <<"memory", r>>)]
    /\ UNCHANGED <<dbVars, lease, lock, workerVars, saved, faults>>

\* update_task of either request, or the refusal of it.
RequestWrite ==
    LET now == Refreshed("api").state
        new == IF request.kind = "cancel" THEN [now EXCEPT !.status = "CANCEL_REQUESTED"]
               ELSE [now EXCEPT !.status = IF \A r \in DOMAIN request.risks : request.risks[r]
                                           THEN "MEMORY_UPDATED" ELSE "HUMAN_REVIEW_PENDING",
                                !.risks = request.risks,
                                !.logs = request.logs]
    IN  /\ request.kind # "none"
        /\ MayUpdate("api")
        /\ IF Refuses(now, new.status) THEN UNCHANGED <<dbVars, lock, saved>>
           ELSE Full("api", new)
        /\ request' = [kind |-> "none"]
        /\ UNCHANGED <<lease, workerVars, faults>>

\* record_manual_recovery, of the failures whose checkpoint needs no payload that
\* is left out here (TaskLifecycle has all of them, and its race).
Recover ==
    /\ request.kind = "none"
    /\ row.status \in {"NODE_TIMEOUT", "TASK_ERROR"}
    /\ Full("api", [Refreshed("api").state EXCEPT
                       !.status = IF @ = "TASK_ERROR" THEN "UPLOAD_RECEIVED" ELSE row.resume_from])
    /\ UNCHANGED <<lease, workerVars, request, faults>>

Api == CreateTask \/ CancelRead \/ (\E r \in Risks : FeedbackRead(r)) \/ RequestWrite \/ Recover

Next == Worker \/ Api \/ \E p \in Processes : Return(p)

Spec == Init /\ [][Next]_vars

-----------------------------------------------------------------------------
(* Properties.                                                             *)

\* A state as it is when it is loaded again: empty lists have become None.
AsLoaded(state) == [state EXCEPT !.clauses = IF @ = <<>> THEN NoClauses ELSE @,
                                 !.risks = RisksOf(@)]

\* README.md item 40: state, results and events are one.  Whoever loads the
\* task's tables gets what the last update_task had in hand, although progress
\* updates write only the entries they take to be new; only that a list is empty
\* and not None is lost.
TablesAreTheState == StateFromTask(row) = AsLoaded(saved)

\* The same risks, none of which has lost its decision.
DecidesMore(risks, more) ==
    /\ DOMAIN more = DOMAIN risks
    /\ \A r \in DOMAIN risks : risks[r] => more[r]

\* No update takes back what another one has committed, whatever the process
\* that writes last had in its cache: a completed clause stays, and the risks
\* stay with the decisions on them, to which a feedback adds, until a run ends
\* its analysis anew.  (That end may well delete decisions: README.)
NothingTakenBack ==
    [][/\ clauseRows \subseteq clauseRows'
       /\ \/ EndsAnalysis
          \/ RequestWrite /\ DecidesMore(riskRows, riskRows')
          \/ riskRows' = riskRows]_vars

=============================================================================
