------------------------- MODULE TaskLifecycleProofs -------------------------
(***************************************************************************)
(* Machine-checked proofs about TaskLifecycle, for every set of API        *)
(* threads, every bound and every choice of faults.                        *)
(***************************************************************************)
EXTENDS TaskLifecycle, FiniteSetTheorems, TLAPS

-----------------------------------------------------------------------------
(* Facts about the vocabulary.                                             *)

\* Every failure has a category.
LEMMA CategoryType ==
    ASSUME NEW s \in Failed
    PROVE  Category(s) \in Categories
BY DEF Failed, Category, Categories

\* The node entered from a label completes under a label with a payload.
LEMMA NextStageType ==
    ASSUME NEW s \in Recoverable
    PROVE  /\ NextStage(s) \in Recoverable
           /\ s # "START" => NextStage(s) \in Checkpoints
BY DEF Recoverable, NextStage, Checkpoints

\* A node adds exactly the payload its label is about.
LEMMA NextStageRequires ==
    ASSUME NEW s \in Recoverable
    PROVE  Required(NextStage(s)) \subseteq Required(s) \cup ({NextStage(s)} \cap Checkpoints)
BY DEF Recoverable, NextStage, Checkpoints, Required, Order

\* Progress labels are statuses.
LEMMA RecoverableIsStatus == Recoverable \subseteq ReviewStatuses
BY DEF ReviewStatuses

\* A progress label is neither an end, nor a cancellation, nor no task.
LEMMA RecoverableIsLive == Recoverable \cap (Terminal \cup Cancelling \cup {NoTask}) = {}
BY DEF Recoverable, Terminal, Completed, Failed, Cancelling, NoTask

-----------------------------------------------------------------------------
(* Type correctness.                                                       *)

\* update_task keeps the row's type, whoever calls it.
LEMMA UpdateTaskType ==
    ASSUME RowTypeOK, NEW s \in ReviewStatuses, NEW cps \in SUBSET Checkpoints,
           UpdateTask(s, cps)
    PROVE  /\ status' \in ReviewStatuses
           /\ saved' \subseteq Checkpoints
           /\ retry_counts' \in [Categories -> Nat]
<1>1. CASE s \in Failed /\ status # s
  <2>1. Category(s) \in Categories
    BY <1>1, CategoryType
  <2>2. retry_counts' = [retry_counts EXCEPT ![Category(s)] = @ + 1]
    BY <1>1 DEF UpdateTask, CountRetry
  <2>3. retry_counts' \in [Categories -> Nat]
    BY <2>1, <2>2 DEF RowTypeOK
  <2>4. QED
    BY <2>3 DEF UpdateTask, RowTypeOK
<1>2. CASE ~(s \in Failed /\ status # s)
  BY <1>2 DEF UpdateTask, CountRetry, RowTypeOK
<1>3. QED
  BY <1>1, <1>2

\* The same of an update without last_timeout and recovery_history.
LEMMA UpdateType ==
    ASSUME RowTypeOK, NEW s \in ReviewStatuses, NEW cps \in SUBSET Checkpoints,
           Update(s, cps)
    PROVE  RowTypeOK'
BY UpdateTaskType DEF Update, RowTypeOK

\* A step that leaves the row alone keeps its type.
LEMMA RowUnchangedType ==
    ASSUME RowTypeOK, UNCHANGED rowVars
    PROVE  RowTypeOK'
BY DEF RowTypeOK, rowVars

\* The fault counter stays a number.
LEMMA FaultType ==
    ASSUME TypeOK, NEW kind, Fault(kind)
    PROVE  faults' \in Nat
BY DEF TypeOK, Fault

\* The labels the actions write are statuses.
LEMMA StatusLiterals ==
    /\ {"START", "UPLOAD_RECEIVED", "RISK_ANALYZED"} \subseteq ReviewStatuses
    /\ {"CANCEL_REQUESTED", "CANCELLED"} \subseteq ReviewStatuses
    /\ {"TASK_ERROR", "NODE_TIMEOUT", "PARSE_FAILED", "RETRIEVAL_FAILED",
        "LLM_OUTPUT_INVALID"} \subseteq ReviewStatuses
    /\ {"NEED_MANUAL_REVIEW", "UNSUPPORTED_CONTRACT_TYPE", "EVIDENCE_VERIFIED",
        "HUMAN_REVIEW_PENDING"} \subseteq ReviewStatuses
BY DEF ReviewStatuses, Recoverable, Terminal, Completed, Failed, Cancelling

\* Submission keeps the types.
LEMMA StartType ==
    ASSUME TypeOK, Start
    PROVE  TypeOK'
<1> USE StatusLiterals DEF TypeOK, workerVars, NoFault
<1>1. CASE StartCreate
  BY <1>1 DEF StartCreate, StartPlaces, RowTypeOK
<1>2. CASE StartReceive
  <2>1. RowTypeOK'
    BY <1>2, UpdateType DEF StartReceive
  <2>2. QED
    BY <1>2, <2>1 DEF StartReceive, StartPlaces
<1>3. CASE StartEnqueue
  BY <1>3, RowUnchangedType DEF StartEnqueue, StartPlaces
<1>4. CASE StartEnqueueFails
  BY <1>4, RowUnchangedType DEF StartEnqueueFails, StartPlaces, Fault
<1>5. CASE StartRecordsFailure
  <2>1. RowTypeOK'
    BY <1>5, UpdateType DEF StartRecordsFailure
  <2>2. QED
    BY <1>5, <2>1 DEF StartRecordsFailure, StartPlaces
<1>6. QED
  BY <1>1, <1>2, <1>3, <1>4, <1>5 DEF Start

\* Cancellation keeps the types.
LEMMA CancelType ==
    ASSUME TypeOK, NEW c \in Cancellers, CancelRead(c) \/ CancelGoesOn(c)
    PROVE  TypeOK'
<1> USE StatusLiterals DEF TypeOK, workerVars, CancelFrame, CancelPlaces
<1>1. CASE CancelRead(c)
  <2>1. RowTypeOK'
    BY <1>1, RowUnchangedType DEF CancelRead
  <2>2. cancel' \in [Cancellers -> CancelPlaces]
    <3>1. \/ UNCHANGED cancel
          \/ \E place \in CancelPlaces : cancel' = [cancel EXCEPT ![c] = place]
      BY <1>1 DEF CancelRead
    <3>2. QED
      BY <3>1
  <2>3. calls' \in [Cancellers \cup Recoverers -> Nat]
    <3>1. calls' = [calls EXCEPT ![c] = calls[c] + 1]
      BY <1>1 DEF CancelRead
    <3>2. calls[c] \in Nat
      OBVIOUS
    <3>3. QED
      BY <3>1, <3>2
  <2>4. QED
    BY <1>1, <2>1, <2>2, <2>3 DEF CancelRead
<1>2. CASE CancelWrite(c)
  <2>1. RowTypeOK'
    BY <1>2, UpdateType DEF CancelWrite
  <2>2. QED
    BY <1>2, <2>1 DEF CancelWrite
<1>3. CASE CancelCheck(c)
  BY <1>3, RowUnchangedType DEF CancelCheck
<1>4. CASE CancelFinalize(c)
  <2>1. RowTypeOK'
    BY <1>4, UpdateType DEF CancelFinalize
  <2>2. QED
    BY <1>4, <2>1 DEF CancelFinalize
<1>5. QED
  BY <1>1, <1>2, <1>3, <1>4 DEF CancelGoesOn

\* An accepted recovery resumes from a progress label.
LEMMA RecoveryCheckpointType ==
    ASSUME TypeOK, NEW s, MayResume(s)
    PROVE  RecoveryCheckpoint(s) \in Recoverable
BY DEF MayResume

\* A recoverer without a request is in a legal state.
LEMMA IdleRecoveryType == IdleRecovery \in RecoveryStates
BY DEF IdleRecovery, RecoveryStates, RecoveryPlaces, Recoverable, Categories

\* What a step of recoverer r needs to keep, apart from the row.
LEMMA RecoveryStateType ==
    ASSUME TypeOK, NEW r \in Recoverers,
           \/ Leaves(r)
           \/ UNCHANGED recovery
           \/ \E place \in RecoveryPlaces :
                recovery' = [recovery EXCEPT ![r].place = place]
           \/ \E place \in RecoveryPlaces, resume \in Recoverable :
                recovery' = [recovery EXCEPT ![r].place = place, ![r].resume = resume]
           \/ \E place \in RecoveryPlaces, category \in Categories,
                 history \in Seq(Categories) :
                recovery' = [recovery EXCEPT ![r].place = place,
                                             ![r].category = category,
                                             ![r].history = history]
    PROVE  recovery' \in [Recoverers -> RecoveryStates]
<1>1. recovery \in [Recoverers -> RecoveryStates]
  BY DEF TypeOK
<1>2. SUFFICES \/ UNCHANGED recovery
               \/ \E new \in RecoveryStates : recovery' = [recovery EXCEPT ![r] = new]
  BY <1>1
<1>3. PICK old \in RecoveryStates : old = recovery[r]
  BY <1>1
<1>4. CASE Leaves(r)
  BY <1>4, IdleRecoveryType DEF Leaves
<1>5. CASE \E place \in RecoveryPlaces :
             recovery' = [recovery EXCEPT ![r].place = place]
  <2>1. PICK place \in RecoveryPlaces :
             recovery' = [recovery EXCEPT ![r].place = place]
    BY <1>5
  <2>2. [old EXCEPT !.place = place] \in RecoveryStates
    BY DEF RecoveryStates
  <2>3. recovery' = [recovery EXCEPT ![r] = [old EXCEPT !.place = place]]
    BY <1>3, <2>1
  <2>4. QED
    BY <2>2, <2>3
<1>6. CASE \E place \in RecoveryPlaces, resume \in Recoverable :
             recovery' = [recovery EXCEPT ![r].place = place, ![r].resume = resume]
  <2>1. PICK place \in RecoveryPlaces, resume \in Recoverable :
             recovery' = [recovery EXCEPT ![r].place = place, ![r].resume = resume]
    BY <1>6
  <2>2. [old EXCEPT !.place = place, !.resume = resume] \in RecoveryStates
    BY DEF RecoveryStates
  <2>3. recovery' = [recovery EXCEPT ![r] = [old EXCEPT !.place = place, !.resume = resume]]
    BY <1>1, <1>3, <2>1
  <2>4. QED
    BY <2>2, <2>3
<1>7. CASE \E place \in RecoveryPlaces, category \in Categories,
             history \in Seq(Categories) :
             recovery' = [recovery EXCEPT ![r].place = place,
                                          ![r].category = category,
                                          ![r].history = history]
  <2>1. PICK place \in RecoveryPlaces, category \in Categories,
             history \in Seq(Categories) :
             recovery' = [recovery EXCEPT ![r].place = place,
                                          ![r].category = category,
                                          ![r].history = history]
    BY <1>7
  <2>2. [old EXCEPT !.place = place, !.category = category, !.history = history]
          \in RecoveryStates
    BY DEF RecoveryStates
  <2>3. recovery' = [recovery EXCEPT ![r] =
            [old EXCEPT !.place = place, !.category = category, !.history = history]]
    BY <1>1, <1>3, <2>1
  <2>4. QED
    BY <2>2, <2>3
<1>8. QED
  BY <1>4, <1>5, <1>6, <1>7

\* Manual recovery keeps the types.
LEMMA RecoverType ==
    ASSUME TypeOK, NEW r \in Recoverers, RecoverPrepare(r) \/ RecoverGoesOn(r)
    PROVE  TypeOK'
<1> USE DEF workerVars, RecoverFrame, NoFault, RecoveryPlaces
<1>0. RowTypeOK /\ recovery[r] \in RecoveryStates
  BY DEF TypeOK
<1>1. CASE RecoverPrepare(r)
  <2>1. RowTypeOK'
    BY <1>0, <1>1, RowUnchangedType DEF RecoverPrepare
  <2>2. recovery' \in [Recoverers -> RecoveryStates]
    BY <1>1, RecoveryStateType, RecoveryCheckpointType DEF RecoverPrepare
  <2>3. calls' \in [Cancellers \cup Recoverers -> Nat]
    BY <1>1 DEF RecoverPrepare, TypeOK
  <2>4. QED
    BY <1>1, <2>1, <2>2, <2>3 DEF RecoverPrepare, TypeOK
<1>2. CASE RecoverCheck(r)
  <2>1. RowTypeOK'
    BY <1>0, <1>2, RowUnchangedType DEF RecoverCheck
  <2>2. WithinBudget(status) => Category(status) \in Categories
    BY CategoryType DEF WithinBudget
  <2>3. recovery' \in [Recoverers -> RecoveryStates]
    BY <1>0, <1>2, <2>2, RecoveryStateType DEF RecoverCheck, RowTypeOK
  <2>4. QED
    BY <1>2, <2>1, <2>3 DEF RecoverCheck, TypeOK
<1>3. CASE RecoverWrite(r)
  <2>1. /\ recovery[r].resume \in ReviewStatuses
        /\ recovery[r].category \in Categories
        /\ recovery[r].history \in Seq(Categories)
    BY <1>0, RecoverableIsStatus DEF RecoveryStates
  <2>2. /\ status' \in ReviewStatuses
        /\ saved' \subseteq Checkpoints
        /\ retry_counts' \in [Categories -> Nat]
    BY <1>0, <1>3, <2>1, UpdateTaskType DEF RecoverWrite
  <2>3. RowTypeOK'
    BY <1>0, <1>3, <2>1, <2>2 DEF RecoverWrite, RowTypeOK
  <2>4. recovery' \in [Recoverers -> RecoveryStates]
    BY <1>3, RecoveryStateType DEF RecoverWrite
  <2>5. recoveries' \in Seq(Categories)
    BY <1>3, <2>1 DEF RecoverWrite, TypeOK
  <2>6. QED
    BY <1>3, <2>3, <2>4, <2>5 DEF RecoverWrite, TypeOK
<1>4. CASE RecoverEnqueue(r)
  <2>1. RowTypeOK'
    BY <1>0, <1>4, RowUnchangedType DEF RecoverEnqueue
  <2>2. recovery' \in [Recoverers -> RecoveryStates]
    BY <1>4, RecoveryStateType DEF RecoverEnqueue
  <2>3. QED
    BY <1>4, <2>1, <2>2 DEF RecoverEnqueue, TypeOK
<1>5. CASE RecoverEnqueueFails(r)
  <2>1. RowTypeOK'
    BY <1>0, <1>5, RowUnchangedType DEF RecoverEnqueueFails
  <2>2. recovery' \in [Recoverers -> RecoveryStates]
    BY <1>5, RecoveryStateType DEF RecoverEnqueueFails
  <2>3. faults' \in Nat /\ job' \in {"none", "queued", "known"}
    BY <1>5, FaultType DEF RecoverEnqueueFails, JobAfterFailedReplace, TypeOK
  <2>4. QED
    BY <1>5, <2>1, <2>2, <2>3 DEF RecoverEnqueueFails, TypeOK
<1>6. CASE RecoverRecordsFailure(r)
  <2>1. RowTypeOK'
    BY <1>0, <1>6, UpdateType, StatusLiterals DEF RecoverRecordsFailure
  <2>2. recovery' \in [Recoverers -> RecoveryStates]
    BY <1>6, RecoveryStateType DEF RecoverRecordsFailure
  <2>3. QED
    BY <1>6, <2>1, <2>2 DEF RecoverRecordsFailure, TypeOK
<1>7. CASE RecoverRefused(r)
  <2>1. RowTypeOK'
    BY <1>0, <1>7, RowUnchangedType DEF RecoverRefused
  <2>2. recovery' \in [Recoverers -> RecoveryStates]
    BY <1>7, RecoveryStateType DEF RecoverRefused
  <2>3. QED
    BY <1>7, <2>1, <2>2 DEF RecoverRefused, TypeOK
<1>8. QED
  BY <1>1, <1>2, <1>3, <1>4, <1>5, <1>6, <1>7 DEF RecoverGoesOn

\* The death of the API process keeps the types.
LEMMA ApiCrashType ==
    ASSUME TypeOK, ApiCrash
    PROVE  TypeOK'
<1>1. RowTypeOK'
  BY RowUnchangedType DEF TypeOK, ApiCrash
<1>2. QED
  BY <1>1, FaultType, IdleRecoveryType
  DEF ApiCrash, TypeOK, workerVars, StartPlaces, CancelPlaces

\* What the worker has in hand where it is about to write it.
InHand ==
    /\ worker = "boot_recover" => run_status \in Recoverable
    /\ worker = "timeout_record" => run_status \in Recoverable
    /\ worker = "record" => run_status \in {"NEED_MANUAL_REVIEW", "PARSE_FAILED", "TASK_ERROR"}

\* What a step of the worker has to keep.
LEMMA WorkerStepType ==
    ASSUME TypeOK, UNCHANGED apiVars, RowTypeOK',
           execution_active' \in BOOLEAN, job' \in {"none", "queued", "known"},
           worker' \in WorkerPlaces, run_status' \in ReviewStatuses \cup {NoTask},
           faults' \in Nat
    PROVE  TypeOK'
BY DEF TypeOK, apiVars

\* The worker's boot keeps the types.
LEMMA WorkerBootType ==
    ASSUME TypeOK, InHand, WorkerBoot
    PROVE  TypeOK'
<1> USE DEF WorkerFrame, RunFrame, Goes, NoFault, workerVars
<1>0. /\ RowTypeOK
      /\ status \in ReviewStatuses \cup {NoTask}
      /\ run_status \in ReviewStatuses \cup {NoTask}
      /\ worker \in WorkerPlaces
      /\ execution_active \in BOOLEAN
      /\ job \in {"none", "queued", "known"}
      /\ faults \in Nat
  BY DEF TypeOK, RowTypeOK
<1>1. CASE Boot
  <2>1. RowTypeOK'
    BY <1>0, <1>1, RowUnchangedType DEF Boot
  <2>2. worker' \in WorkerPlaces /\ run_status' \in ReviewStatuses \cup {NoTask}
    BY <1>0, <1>1 DEF Boot, WorkerPlaces, Booting, Running
  <2>3. /\ faults' \in Nat
        /\ execution_active' \in BOOLEAN
        /\ job' \in {"none", "queued", "known"}
    BY <1>0, <1>1 DEF Boot
  <2>4. QED
    BY <1>1, <2>1, <2>2, <2>3, WorkerStepType DEF Boot
<1>2. CASE BootCancel
  <2>1. RowTypeOK'
    BY <1>0, <1>2, UpdateType, StatusLiterals DEF BootCancel
  <2>2. worker' \in WorkerPlaces /\ run_status' \in ReviewStatuses \cup {NoTask}
    BY <1>0, <1>2 DEF BootCancel, WorkerPlaces, Booting, Running
  <2>3. /\ faults' \in Nat
        /\ execution_active' \in BOOLEAN
        /\ job' \in {"none", "queued", "known"}
    BY <1>0, <1>2 DEF BootCancel
  <2>4. QED
    BY <1>2, <2>1, <2>2, <2>3, WorkerStepType DEF BootCancel
<1>3. CASE BootRecover
  <2>1. RowTypeOK'
    BY <1>0, <1>3, UpdateType, StatusLiterals, RecoverableIsStatus DEF BootRecover, InHand
  <2>2. worker' \in WorkerPlaces /\ run_status' \in ReviewStatuses \cup {NoTask}
    BY <1>0, <1>3, RecoverableIsStatus DEF BootRecover, WorkerPlaces, Booting, Running
  <2>3. /\ faults' \in Nat
        /\ execution_active' \in BOOLEAN
        /\ job' \in {"none", "queued", "known"}
    BY <1>0, <1>3 DEF BootRecover
  <2>4. QED
    BY <1>3, <2>1, <2>2, <2>3, WorkerStepType DEF BootRecover
<1>4. CASE BootWithoutUpload
  <2>1. RowTypeOK'
    BY <1>0, <1>4, UpdateType, StatusLiterals DEF BootWithoutUpload
  <2>2. worker' \in WorkerPlaces /\ run_status' \in ReviewStatuses \cup {NoTask}
    BY <1>0, <1>4 DEF BootWithoutUpload, WorkerPlaces, Booting, Running
  <2>3. /\ faults' \in Nat
        /\ execution_active' \in BOOLEAN
        /\ job' \in {"none", "queued", "known"}
    BY FaultType, <1>0, <1>4 DEF BootWithoutUpload
  <2>4. QED
    BY <1>4, <2>1, <2>2, <2>3, WorkerStepType DEF BootWithoutUpload
<1>5. CASE BootRefused
  <2>1. RowTypeOK'
    BY <1>0, <1>5, RowUnchangedType DEF BootRefused
  <2>2. worker' \in WorkerPlaces /\ run_status' \in ReviewStatuses \cup {NoTask}
    BY <1>0, <1>5 DEF BootRefused, WorkerPlaces, Booting, Running
  <2>3. /\ faults' \in Nat
        /\ execution_active' \in BOOLEAN
        /\ job' \in {"none", "queued", "known"}
    BY <1>0, <1>5 DEF BootRefused
  <2>4. QED
    BY <1>5, <2>1, <2>2, <2>3, WorkerStepType DEF BootRefused
<1>6. CASE BootEnqueue
  <2>1. RowTypeOK'
    BY <1>0, <1>6, RowUnchangedType DEF BootEnqueue
  <2>2. worker' \in WorkerPlaces /\ run_status' \in ReviewStatuses \cup {NoTask}
    BY <1>0, <1>6 DEF BootEnqueue, WorkerPlaces, Booting, Running
  <2>3. /\ faults' \in Nat
        /\ execution_active' \in BOOLEAN
        /\ job' \in {"none", "queued", "known"}
    BY <1>0, <1>6 DEF BootEnqueue
  <2>4. QED
    BY <1>6, <2>1, <2>2, <2>3, WorkerStepType DEF BootEnqueue
<1>7. CASE BootEnqueueFails
  <2>1. RowTypeOK'
    BY <1>0, <1>7, RowUnchangedType DEF BootEnqueueFails
  <2>2. worker' \in WorkerPlaces /\ run_status' \in ReviewStatuses \cup {NoTask}
    BY <1>0, <1>7 DEF BootEnqueueFails, WorkerPlaces, Booting, Running
  <2>3. /\ faults' \in Nat
        /\ execution_active' \in BOOLEAN
        /\ job' \in {"none", "queued", "known"}
    BY FaultType, <1>0, <1>7 DEF JobAfterFailedReplace, BootEnqueueFails
  <2>4. QED
    BY <1>7, <2>1, <2>2, <2>3, WorkerStepType DEF BootEnqueueFails
<1>8. QED
  BY <1>1, <1>2, <1>3, <1>4, <1>5, <1>6, <1>7 DEF WorkerBoot

\* Taking and failing a job keeps the types.
LEMMA WorkerJobType ==
    ASSUME TypeOK, InHand, WorkerJob
    PROVE  TypeOK'
<1> USE DEF WorkerFrame, RunFrame, Goes, NoFault, workerVars
<1>0. /\ RowTypeOK
      /\ status \in ReviewStatuses \cup {NoTask}
      /\ run_status \in ReviewStatuses \cup {NoTask}
      /\ worker \in WorkerPlaces
      /\ execution_active \in BOOLEAN
      /\ job \in {"none", "queued", "known"}
      /\ faults \in Nat
  BY DEF TypeOK, RowTypeOK
<1>1. CASE TakeJob
  <2>1. RowTypeOK'
    BY <1>0, <1>1, RowUnchangedType DEF TakeJob
  <2>2. worker' \in WorkerPlaces /\ run_status' \in ReviewStatuses \cup {NoTask}
    BY <1>0, <1>1 DEF TakeJob, WorkerPlaces, Booting, Running
  <2>3. /\ faults' \in Nat
        /\ execution_active' \in BOOLEAN
        /\ job' \in {"none", "queued", "known"}
    BY <1>0, <1>1 DEF TakeJob
  <2>4. QED
    BY <1>1, <2>1, <2>2, <2>3, WorkerStepType DEF TakeJob
<1>2. CASE ReadJob
  <2>1. RowTypeOK'
    BY <1>0, <1>2, RowUnchangedType DEF ReadJob
  <2>2. worker' \in WorkerPlaces /\ run_status' \in ReviewStatuses \cup {NoTask}
    BY <1>0, <1>2 DEF ReadJob, WorkerPlaces, Booting, Running
  <2>3. /\ faults' \in Nat
        /\ execution_active' \in BOOLEAN
        /\ job' \in {"none", "queued", "known"}
    BY FaultType, <1>0, <1>2 DEF ReadJob
  <2>4. QED
    BY <1>2, <2>1, <2>2, <2>3, WorkerStepType DEF ReadJob
<1>3. CASE Acquire
  <2>1. RowTypeOK'
    BY <1>0, <1>3, RowUnchangedType DEF Acquire
  <2>2. worker' \in WorkerPlaces /\ run_status' \in ReviewStatuses \cup {NoTask}
    BY <1>0, <1>3 DEF Acquire, WorkerPlaces, Booting, Running
  <2>3. /\ faults' \in Nat
        /\ execution_active' \in BOOLEAN
        /\ job' \in {"none", "queued", "known"}
    BY <1>0, <1>3 DEF Acquire
  <2>4. QED
    BY <1>3, <2>1, <2>2, <2>3, WorkerStepType DEF Acquire
<1>4. CASE ReadAfterJobFailed
  <2>1. RowTypeOK'
    BY <1>0, <1>4, RowUnchangedType DEF ReadAfterJobFailed
  <2>2. worker' \in WorkerPlaces /\ run_status' \in ReviewStatuses \cup {NoTask}
    BY <1>0, <1>4 DEF ReadAfterJobFailed, WorkerPlaces, Booting, Running
  <2>3. /\ faults' \in Nat
        /\ execution_active' \in BOOLEAN
        /\ job' \in {"none", "queued", "known"}
    BY <1>0, <1>4 DEF ReadAfterJobFailed
  <2>4. QED
    BY <1>4, <2>1, <2>2, <2>3, WorkerStepType DEF ReadAfterJobFailed
<1>5. CASE RecordJobFailed
  <2>1. RowTypeOK'
    BY <1>0, <1>5, RowUnchangedType, UpdateType, StatusLiterals DEF RecordJobFailed
  <2>2. worker' \in WorkerPlaces /\ run_status' \in ReviewStatuses \cup {NoTask}
    BY <1>0, <1>5 DEF RecordJobFailed, WorkerPlaces, Booting, Running
  <2>3. /\ faults' \in Nat
        /\ execution_active' \in BOOLEAN
        /\ job' \in {"none", "queued", "known"}
    BY <1>0, <1>5 DEF RecordJobFailed
  <2>4. QED
    BY <1>5, <2>1, <2>2, <2>3, WorkerStepType DEF RecordJobFailed
<1>6. CASE JobHandlerRaises
  <2>1. RowTypeOK'
    BY <1>0, <1>6, RowUnchangedType DEF JobHandlerRaises
  <2>2. worker' \in WorkerPlaces /\ run_status' \in ReviewStatuses \cup {NoTask}
    BY <1>0, <1>6 DEF JobHandlerRaises, WorkerPlaces, Booting, Running
  <2>3. /\ faults' \in Nat
        /\ execution_active' \in BOOLEAN
        /\ job' \in {"none", "queued", "known"}
    BY FaultType, <1>0, <1>6 DEF JobHandlerRaises
  <2>4. QED
    BY <1>6, <2>1, <2>2, <2>3, WorkerStepType DEF JobHandlerRaises
<1>7. QED
  BY <1>1, <1>2, <1>3, <1>4, <1>5, <1>6 DEF WorkerJob

\* The nodes of the graph keep the types.
LEMMA NodeType ==
    ASSUME TypeOK, InHand, Node
    PROVE  TypeOK'
<1> USE DEF WorkerFrame, RunFrame, Goes, NoFault, workerVars
<1>0. /\ RowTypeOK
      /\ status \in ReviewStatuses \cup {NoTask}
      /\ run_status \in ReviewStatuses \cup {NoTask}
      /\ worker \in WorkerPlaces
      /\ execution_active \in BOOLEAN
      /\ job \in {"none", "queued", "known"}
      /\ faults \in Nat
  BY DEF TypeOK, RowTypeOK
<1>1. CASE Snapshot
  <2>1. RowTypeOK'
    BY <1>0, <1>1, RowUnchangedType DEF Snapshot
  <2>2. worker' \in WorkerPlaces /\ run_status' \in ReviewStatuses \cup {NoTask}
    BY <1>0, <1>1 DEF Snapshot, WorkerPlaces, Booting, Running
  <2>3. /\ faults' \in Nat
        /\ execution_active' \in BOOLEAN
        /\ job' \in {"none", "queued", "known"}
    BY <1>0, <1>1 DEF Snapshot
  <2>4. QED
    BY <1>1, <2>1, <2>2, <2>3, WorkerStepType DEF Snapshot
<1>2. CASE ControlExecute
  <2>1. RowTypeOK'
    BY <1>0, <1>2, RowUnchangedType DEF ControlExecute
  <2>2. worker' \in WorkerPlaces /\ run_status' \in ReviewStatuses \cup {NoTask}
    BY <1>0, <1>2 DEF ControlExecute, WorkerPlaces, Booting, Running
  <2>3. /\ faults' \in Nat
        /\ execution_active' \in BOOLEAN
        /\ job' \in {"none", "queued", "known"}
    BY <1>0, <1>2 DEF ControlExecute
  <2>4. QED
    BY <1>2, <2>1, <2>2, <2>3, WorkerStepType DEF ControlExecute
<1>3. CASE NodeRefuses
  <2>1. RowTypeOK'
    BY <1>0, <1>3, RowUnchangedType DEF NodeRefuses
  <2>2. worker' \in WorkerPlaces /\ run_status' \in ReviewStatuses \cup {NoTask}
    BY <1>0, <1>3, StatusLiterals DEF NodeRefuses, WorkerPlaces, Booting, Running
  <2>3. /\ faults' \in Nat
        /\ execution_active' \in BOOLEAN
        /\ job' \in {"none", "queued", "known"}
    BY <1>0, <1>3 DEF NodeRefuses
  <2>4. QED
    BY <1>3, <2>1, <2>2, <2>3, WorkerStepType DEF NodeRefuses
<1>4. CASE PublishProgress
  <2>1. RowTypeOK'
    <3>1. PartialPayload(run_status) \subseteq Checkpoints
      BY <1>4, NextStageType DEF PublishProgress, PartialPayload
    <3>2. QED
      BY <1>0, <1>4, <3>1, UpdateType, RecoverableIsStatus DEF PublishProgress
  <2>2. worker' \in WorkerPlaces /\ run_status' \in ReviewStatuses \cup {NoTask}
    BY <1>0, <1>4 DEF PublishProgress, WorkerPlaces, Booting, Running
  <2>3. /\ faults' \in Nat
        /\ execution_active' \in BOOLEAN
        /\ job' \in {"none", "queued", "known"}
    BY <1>0, <1>4 DEF PublishProgress
  <2>4. QED
    BY <1>4, <2>1, <2>2, <2>3, WorkerStepType DEF PublishProgress
<1>5. CASE Bootstrap
  <2>1. RowTypeOK'
    BY <1>0, <1>5, UpdateType, StatusLiterals DEF Bootstrap
  <2>2. worker' \in WorkerPlaces /\ run_status' \in ReviewStatuses \cup {NoTask}
    BY <1>0, <1>5, StatusLiterals DEF Bootstrap, WorkerPlaces, Booting, Running
  <2>3. /\ faults' \in Nat
        /\ execution_active' \in BOOLEAN
        /\ job' \in {"none", "queued", "known"}
    BY <1>0, <1>5 DEF Bootstrap
  <2>4. QED
    BY <1>5, <2>1, <2>2, <2>3, WorkerStepType DEF Bootstrap
<1>6. CASE CompleteNode
  <2>1. RowTypeOK'
    <3>1. /\ NextStage(run_status) \in ReviewStatuses
          /\ {NextStage(run_status)} \subseteq Checkpoints
      BY <1>6, NextStageType, RecoverableIsStatus DEF CompleteNode
    <3>2. QED
      BY <1>0, <1>6, <3>1, UpdateType DEF CompleteNode
  <2>2. worker' \in WorkerPlaces /\ run_status' \in ReviewStatuses \cup {NoTask}
    BY <1>0, <1>6, NextStageType, RecoverableIsStatus DEF CompleteNode, WorkerPlaces, Booting, Running
  <2>3. /\ faults' \in Nat
        /\ execution_active' \in BOOLEAN
        /\ job' \in {"none", "queued", "known"}
    BY <1>0, <1>6 DEF CompleteNode
  <2>4. QED
    BY <1>6, <2>1, <2>2, <2>3, WorkerStepType DEF CompleteNode
<1>7. CASE ClassifyEnds
  <2>1. RowTypeOK'
    BY <1>0, <1>7, UpdateType, StatusLiterals DEF ClassifyEnds, NodeEnds, Checkpoints, Recoverable, RiskPayload
  <2>2. worker' \in WorkerPlaces /\ run_status' \in ReviewStatuses \cup {NoTask}
    BY <1>0, <1>7 DEF ClassifyEnds, NodeEnds, WorkerPlaces, Booting, Running
  <2>3. /\ faults' \in Nat
        /\ execution_active' \in BOOLEAN
        /\ job' \in {"none", "queued", "known"}
    BY FaultType, <1>0, <1>7 DEF ClassifyEnds, NodeEnds
  <2>4. QED
    BY <1>7, <2>1, <2>2, <2>3, WorkerStepType DEF ClassifyEnds, NodeEnds
<1>8. CASE StructureEnds
  <2>1. RowTypeOK'
    BY <1>0, <1>8, UpdateType, StatusLiterals DEF StructureEnds, NodeEnds, Checkpoints, Recoverable, RiskPayload
  <2>2. worker' \in WorkerPlaces /\ run_status' \in ReviewStatuses \cup {NoTask}
    BY <1>0, <1>8 DEF StructureEnds, NodeEnds, WorkerPlaces, Booting, Running
  <2>3. /\ faults' \in Nat
        /\ execution_active' \in BOOLEAN
        /\ job' \in {"none", "queued", "known"}
    BY FaultType, <1>0, <1>8 DEF StructureEnds, NodeEnds
  <2>4. QED
    BY <1>8, <2>1, <2>2, <2>3, WorkerStepType DEF StructureEnds, NodeEnds
<1>9. CASE RetrieveEnds
  <2>1. RowTypeOK'
    BY <1>0, <1>9, UpdateType, StatusLiterals DEF RetrieveEnds, NodeEnds, Checkpoints, Recoverable, RiskPayload
  <2>2. worker' \in WorkerPlaces /\ run_status' \in ReviewStatuses \cup {NoTask}
    BY <1>0, <1>9 DEF RetrieveEnds, NodeEnds, WorkerPlaces, Booting, Running
  <2>3. /\ faults' \in Nat
        /\ execution_active' \in BOOLEAN
        /\ job' \in {"none", "queued", "known"}
    BY FaultType, <1>0, <1>9 DEF RetrieveEnds, NodeEnds
  <2>4. QED
    BY <1>9, <2>1, <2>2, <2>3, WorkerStepType DEF RetrieveEnds, NodeEnds
<1>10. CASE AggregateEnds
  <2>1. RowTypeOK'
    BY <1>0, <1>10, UpdateType, StatusLiterals DEF AggregateEnds, NodeEnds, Checkpoints, Recoverable, RiskPayload
  <2>2. worker' \in WorkerPlaces /\ run_status' \in ReviewStatuses \cup {NoTask}
    BY <1>0, <1>10 DEF AggregateEnds, NodeEnds, WorkerPlaces, Booting, Running
  <2>3. /\ faults' \in Nat
        /\ execution_active' \in BOOLEAN
        /\ job' \in {"none", "queued", "known"}
    BY FaultType, <1>0, <1>10 DEF AggregateEnds, NodeEnds
  <2>4. QED
    BY <1>10, <2>1, <2>2, <2>3, WorkerStepType DEF AggregateEnds, NodeEnds
<1>11. CASE Aggregate
  <2>1. RowTypeOK'
    BY <1>0, <1>11, UpdateType, StatusLiterals DEF Aggregate, Checkpoints, Recoverable, RiskPayload
  <2>2. worker' \in WorkerPlaces /\ run_status' \in ReviewStatuses \cup {NoTask}
    BY <1>0, <1>11, StatusLiterals DEF Aggregate, WorkerPlaces, Booting, Running
  <2>3. /\ faults' \in Nat
        /\ execution_active' \in BOOLEAN
        /\ job' \in {"none", "queued", "known"}
    BY <1>0, <1>11 DEF Aggregate
  <2>4. QED
    BY <1>11, <2>1, <2>2, <2>3, WorkerStepType DEF Aggregate
<1>12. CASE Conclude
  <2>1. RowTypeOK'
    BY <1>0, <1>12, UpdateType, StatusLiterals DEF Conclude, Checkpoints, Recoverable, RiskPayload
  <2>2. worker' \in WorkerPlaces /\ run_status' \in ReviewStatuses \cup {NoTask}
    BY <1>0, <1>12 DEF Conclude, WorkerPlaces, Booting, Running
  <2>3. /\ faults' \in Nat
        /\ execution_active' \in BOOLEAN
        /\ job' \in {"none", "queued", "known"}
    BY <1>0, <1>12 DEF Conclude
  <2>4. QED
    BY <1>12, <2>1, <2>2, <2>3, WorkerStepType DEF Conclude
<1>13. CASE ControlEnds
  <2>1. RowTypeOK'
    BY <1>0, <1>13, RowUnchangedType DEF ControlEnds
  <2>2. worker' \in WorkerPlaces /\ run_status' \in ReviewStatuses \cup {NoTask}
    BY <1>0, <1>13 DEF ControlEnds, WorkerPlaces, Booting, Running
  <2>3. /\ faults' \in Nat
        /\ execution_active' \in BOOLEAN
        /\ job' \in {"none", "queued", "known"}
    BY <1>0, <1>13 DEF ControlEnds
  <2>4. QED
    BY <1>13, <2>1, <2>2, <2>3, WorkerStepType DEF ControlEnds
<1>14. QED
  BY <1>1, <1>2, <1>3, <1>4, <1>5, <1>6, <1>7, <1>8, <1>9, <1>10, <1>11, <1>12, <1>13 DEF Node

\* The except and finally clauses of a run keep the types.
LEMMA RunEndsType ==
    ASSUME TypeOK, InHand, RunEnds
    PROVE  TypeOK'
<1> USE DEF WorkerFrame, RunFrame, Goes, NoFault, workerVars
<1>0. /\ RowTypeOK
      /\ status \in ReviewStatuses \cup {NoTask}
      /\ run_status \in ReviewStatuses \cup {NoTask}
      /\ worker \in WorkerPlaces
      /\ execution_active \in BOOLEAN
      /\ job \in {"none", "queued", "known"}
      /\ faults \in Nat
  BY DEF TypeOK, RowTypeOK
<1>1. CASE NodeCancelled
  <2>1. RowTypeOK'
    BY <1>0, <1>1, RowUnchangedType DEF NodeCancelled
  <2>2. worker' \in WorkerPlaces /\ run_status' \in ReviewStatuses \cup {NoTask}
    BY <1>0, <1>1 DEF NodeCancelled, WorkerPlaces, Booting, Running
  <2>3. /\ faults' \in Nat
        /\ execution_active' \in BOOLEAN
        /\ job' \in {"none", "queued", "known"}
    BY <1>0, <1>1 DEF NodeCancelled
  <2>4. QED
    BY <1>1, <2>1, <2>2, <2>3, WorkerStepType DEF NodeCancelled
<1>2. CASE NodeTimesOut
  <2>1. RowTypeOK'
    BY <1>0, <1>2, RowUnchangedType DEF NodeTimesOut
  <2>2. worker' \in WorkerPlaces /\ run_status' \in ReviewStatuses \cup {NoTask}
    BY <1>0, <1>2 DEF NodeTimesOut, WorkerPlaces, Booting, Running
  <2>3. /\ faults' \in Nat
        /\ execution_active' \in BOOLEAN
        /\ job' \in {"none", "queued", "known"}
    BY FaultType, <1>0, <1>2 DEF NodeTimesOut
  <2>4. QED
    BY <1>2, <2>1, <2>2, <2>3, WorkerStepType DEF NodeTimesOut
<1>3. CASE ParseFails
  <2>1. RowTypeOK'
    BY <1>0, <1>3, RowUnchangedType DEF ParseFails
  <2>2. worker' \in WorkerPlaces /\ run_status' \in ReviewStatuses \cup {NoTask}
    BY <1>0, <1>3, StatusLiterals DEF ParseFails, WorkerPlaces, Booting, Running
  <2>3. /\ faults' \in Nat
        /\ execution_active' \in BOOLEAN
        /\ job' \in {"none", "queued", "known"}
    BY FaultType, <1>0, <1>3 DEF ParseFails
  <2>4. QED
    BY <1>3, <2>1, <2>2, <2>3, WorkerStepType DEF ParseFails
<1>4. CASE RunRaises
  <2>1. RowTypeOK'
    BY <1>0, <1>4, RowUnchangedType DEF RunRaises
  <2>2. worker' \in WorkerPlaces /\ run_status' \in ReviewStatuses \cup {NoTask}
    BY <1>0, <1>4 DEF RunRaises, WorkerPlaces, Booting, Running
  <2>3. /\ faults' \in Nat
        /\ execution_active' \in BOOLEAN
        /\ job' \in {"none", "queued", "known"}
    BY FaultType, <1>0, <1>4 DEF RunRaises
  <2>4. QED
    BY <1>4, <2>1, <2>2, <2>3, WorkerStepType DEF RunRaises
<1>5. CASE TimeoutReads
  <2>1. RowTypeOK'
    BY <1>0, <1>5, RowUnchangedType DEF TimeoutReads
  <2>2. worker' \in WorkerPlaces /\ run_status' \in ReviewStatuses \cup {NoTask}
    BY <1>0, <1>5, StatusLiterals DEF TimeoutReads, WorkerPlaces, Booting, Running
  <2>3. /\ faults' \in Nat
        /\ execution_active' \in BOOLEAN
        /\ job' \in {"none", "queued", "known"}
    BY <1>0, <1>5 DEF TimeoutReads
  <2>4. QED
    BY <1>5, <2>1, <2>2, <2>3, WorkerStepType DEF TimeoutReads
<1>6. CASE TimeoutRecords
  <2>1. RowTypeOK'
    <3>1. CASE UNCHANGED rowVars
      BY <1>0, <3>1, RowUnchangedType
    <3>2. CASE UpdateTask("NODE_TIMEOUT", {}) /\ resume_from' = run_status
                 /\ UNCHANGED recovery_history
      <4>1. run_status \in Recoverable
        BY <1>6 DEF TimeoutRecords, InHand
      <4>2. QED
        BY <1>0, <3>2, <4>1, UpdateTaskType, StatusLiterals DEF RowTypeOK
    <3>3. QED
      BY <1>6, <3>1, <3>2 DEF TimeoutRecords
  <2>2. worker' \in WorkerPlaces /\ run_status' \in ReviewStatuses \cup {NoTask}
    BY <1>0, <1>6 DEF TimeoutRecords, WorkerPlaces, Booting, Running
  <2>3. /\ faults' \in Nat
        /\ execution_active' \in BOOLEAN
        /\ job' \in {"none", "queued", "known"}
    BY <1>0, <1>6 DEF TimeoutRecords
  <2>4. QED
    BY <1>6, <2>1, <2>2, <2>3, WorkerStepType DEF TimeoutRecords
<1>7. CASE UnexpectedReads
  <2>1. RowTypeOK'
    BY <1>0, <1>7, RowUnchangedType DEF UnexpectedReads
  <2>2. worker' \in WorkerPlaces /\ run_status' \in ReviewStatuses \cup {NoTask}
    BY <1>0, <1>7, StatusLiterals DEF UnexpectedReads, WorkerPlaces, Booting, Running, FailureStatuses
  <2>3. /\ faults' \in Nat
        /\ execution_active' \in BOOLEAN
        /\ job' \in {"none", "queued", "known"}
    BY <1>0, <1>7 DEF UnexpectedReads
  <2>4. QED
    BY <1>7, <2>1, <2>2, <2>3, WorkerStepType DEF UnexpectedReads
<1>8. CASE Record
  <2>1. RowTypeOK'
    BY <1>0, <1>8, RowUnchangedType, UpdateType, StatusLiterals DEF Record, InHand
  <2>2. worker' \in WorkerPlaces /\ run_status' \in ReviewStatuses \cup {NoTask}
    BY <1>0, <1>8 DEF Record, WorkerPlaces, Booting, Running
  <2>3. /\ faults' \in Nat
        /\ execution_active' \in BOOLEAN
        /\ job' \in {"none", "queued", "known"}
    BY <1>0, <1>8 DEF Record
  <2>4. QED
    BY <1>8, <2>1, <2>2, <2>3, WorkerStepType DEF Record
<1>9. CASE RunCancelled
  <2>1. RowTypeOK'
    BY <1>0, <1>9, UpdateType, StatusLiterals DEF RunCancelled
  <2>2. worker' \in WorkerPlaces /\ run_status' \in ReviewStatuses \cup {NoTask}
    BY <1>0, <1>9 DEF RunCancelled, WorkerPlaces, Booting, Running
  <2>3. /\ faults' \in Nat
        /\ execution_active' \in BOOLEAN
        /\ job' \in {"none", "queued", "known"}
    BY <1>0, <1>9 DEF RunCancelled
  <2>4. QED
    BY <1>9, <2>1, <2>2, <2>3, WorkerStepType DEF RunCancelled
<1>10. CASE HandlerRaises
  <2>1. RowTypeOK'
    BY <1>0, <1>10, RowUnchangedType DEF HandlerRaises
  <2>2. worker' \in WorkerPlaces /\ run_status' \in ReviewStatuses \cup {NoTask}
    BY <1>0, <1>10 DEF HandlerRaises, WorkerPlaces, Booting, Running
  <2>3. /\ faults' \in Nat
        /\ execution_active' \in BOOLEAN
        /\ job' \in {"none", "queued", "known"}
    BY FaultType, <1>0, <1>10 DEF HandlerRaises
  <2>4. QED
    BY <1>10, <2>1, <2>2, <2>3, WorkerStepType DEF HandlerRaises
<1>11. CASE Release
  <2>1. RowTypeOK'
    BY <1>0, <1>11, RowUnchangedType DEF Release
  <2>2. worker' \in WorkerPlaces /\ run_status' \in ReviewStatuses \cup {NoTask}
    BY <1>0, <1>11 DEF Release, WorkerPlaces, Booting, Running
  <2>3. /\ faults' \in Nat
        /\ execution_active' \in BOOLEAN
        /\ job' \in {"none", "queued", "known"}
    BY <1>0, <1>11 DEF Release
  <2>4. QED
    BY <1>11, <2>1, <2>2, <2>3, WorkerStepType DEF Release
<1>12. CASE ReleaseSkipped
  <2>1. RowTypeOK'
    BY <1>0, <1>12, RowUnchangedType DEF ReleaseSkipped
  <2>2. worker' \in WorkerPlaces /\ run_status' \in ReviewStatuses \cup {NoTask}
    BY <1>0, <1>12 DEF ReleaseSkipped, WorkerPlaces, Booting, Running
  <2>3. /\ faults' \in Nat
        /\ execution_active' \in BOOLEAN
        /\ job' \in {"none", "queued", "known"}
    BY FaultType, <1>0, <1>12 DEF ReleaseSkipped
  <2>4. QED
    BY <1>12, <2>1, <2>2, <2>3, WorkerStepType DEF ReleaseSkipped
<1>13. QED
  BY <1>1, <1>2, <1>3, <1>4, <1>5, <1>6, <1>7, <1>8, <1>9, <1>10, <1>11, <1>12 DEF RunEnds

\* Nobody but the worker changes what the worker has in hand.
LEMMA InHandKept ==
    ASSUME TypeOK, InHand, [Next]_vars
    PROVE  InHand'
<1> USE StatusLiterals DEF InHand, Goes, NoFault, workerVars
<1>0. status \in ReviewStatuses \cup {NoTask}
  BY DEF TypeOK, RowTypeOK
<1>1. CASE UNCHANGED workerVars
  BY <1>1
<1>2. CASE WorkerBoot
  <2>1. CASE Boot
    BY <1>0, <2>1 DEF Boot, ReviewStatuses, Cancelling, Terminal
  <2>2. QED
    BY <1>2, <2>1 DEF WorkerBoot, BootCancel, BootRecover, BootWithoutUpload,
       BootRefused, BootEnqueue, BootEnqueueFails
<1>3. CASE WorkerJob
  BY <1>3 DEF WorkerJob, TakeJob, ReadJob, Acquire, ReadAfterJobFailed, RecordJobFailed, JobHandlerRaises
<1>4. CASE Node
  BY <1>4 DEF Node, Snapshot, ControlExecute, NodeRefuses, PublishProgress, Bootstrap,
     CompleteNode, ClassifyEnds, StructureEnds, RetrieveEnds, AggregateEnds, NodeEnds,
     Aggregate, Conclude, ControlEnds
<1>5. CASE RunEnds
  <2>1. CASE UnexpectedReads
    BY <2>1 DEF UnexpectedReads, FailureStatuses
  <2>2. CASE TimeoutReads
    BY <2>2 DEF TimeoutReads, Recoverable
  <2>3. QED
    BY <1>5, <2>1, <2>2 DEF RunEnds, NodeCancelled, NodeTimesOut, ParseFails, RunRaises,
       TimeoutRecords, Record, RunCancelled, HandlerRaises, Release, ReleaseSkipped
<1>6. CASE WorkerCrash
  BY <1>6 DEF WorkerCrash
<1>7. ASSUME NEW c \in Cancellers, CancelRead(c) \/ CancelGoesOn(c)
      PROVE  UNCHANGED workerVars
  BY <1>7 DEF CancelRead, CancelGoesOn, CancelWrite, CancelCheck, CancelFinalize, CancelFrame
<1>8. ASSUME NEW r \in Recoverers, RecoverPrepare(r) \/ RecoverGoesOn(r)
      PROVE  UNCHANGED workerVars
  BY <1>8 DEF RecoverPrepare, RecoverGoesOn, RecoverCheck, RecoverWrite, RecoverEnqueue,
     RecoverEnqueueFails, RecoverRecordsFailure, RecoverRefused, RecoverFrame
<1>9. Start \/ ApiCrash \/ UNCHANGED vars => UNCHANGED workerVars
  BY DEF Start, StartCreate, StartReceive, StartEnqueue, StartEnqueueFails,
     StartRecordsFailure, ApiCrash, vars
<1>10. QED
  BY <1>1, <1>2, <1>3, <1>4, <1>5, <1>6, <1>7, <1>8, <1>9 DEF Next, Worker

\* The death of the worker keeps the types.
LEMMA WorkerCrashType ==
    ASSUME TypeOK, WorkerCrash
    PROVE  TypeOK'
<1>1. RowTypeOK'
  BY RowUnchangedType DEF WorkerCrash, TypeOK
<1>2. faults' \in Nat
  BY FaultType DEF WorkerCrash
<1>3. QED
  BY <1>1, <1>2, WorkerStepType
  DEF WorkerCrash, Goes, WorkerFrame, WorkerPlaces, TypeOK

\* Every step keeps the types.
LEMMA TypeKept ==
    ASSUME TypeOK, InHand, [Next]_vars
    PROVE  TypeOK'
<1>1. CASE UNCHANGED vars
  BY <1>1, RowUnchangedType DEF TypeOK, vars, workerVars, apiVars
<1>2. CASE Next
  BY <1>2, StartType, CancelType, RecoverType, ApiCrashType, WorkerBootType,
     WorkerJobType, NodeType, RunEndsType, WorkerCrashType DEF Next, Worker
<1>3. QED
  BY <1>1, <1>2

\* The initial state has them.
LEMMA InitType == Init => TypeOK /\ InHand
<1> SUFFICES ASSUME Init PROVE TypeOK /\ InHand
  OBVIOUS
<1>1. RowTypeOK
  BY DEF Init, RowTypeOK
<1>2. TypeOK
  <2>1. /\ recovery \in [Recoverers -> RecoveryStates]
        /\ cancel \in [Cancellers -> CancelPlaces]
        /\ calls \in [Cancellers \cup Recoverers -> Nat]
    BY IdleRecoveryType DEF Init, CancelPlaces
  <2>2. worker \in WorkerPlaces /\ start \in StartPlaces
    BY DEF Init, WorkerPlaces, StartPlaces
  <2>3. execution_active \in BOOLEAN /\ job \in {"none", "queued", "known"}
    BY DEF Init
  <2>4. recoveries \in Seq(Categories)
    BY DEF Init
  <2>5. faults \in Nat /\ run_status \in ReviewStatuses \cup {NoTask}
    BY DEF Init
  <2>6. QED
    BY <1>1, <2>1, <2>2, <2>3, <2>4, <2>5 DEF TypeOK
<1>3. QED
  BY <1>2 DEF Init, InHand

\* Every variable keeps its type, whatever the interleaving and the faults; in
\* particular nothing but a status is ever written to the row.
THEOREM TypeCorrect == Spec => []TypeOK
<1>1. Init => TypeOK /\ InHand
  BY InitType
<1>2. TypeOK /\ InHand /\ [Next]_vars => TypeOK' /\ InHand'
  BY TypeKept, InHandKept
<1>3. QED
  BY <1>1, <1>2, PTL DEF Spec

-----------------------------------------------------------------------------
(* Checkpoints.  CheckpointSaved is not inductive: a status the worker has *)
(* in hand, a timeout's checkpoint and a checkpoint a recoverer has read   *)
(* are written later, so their payloads have to be there as well; and      *)
(* nothing may take a payload away in between.                             *)

HandSaved == run_status \in Recoverable => Required(run_status) \subseteq saved

TimeoutSaved == resume_from \in Recoverable => Required(resume_from) \subseteq saved

RecoverySaved == \A r \in Recoverers : Required(recovery[r].resume) \subseteq saved

PayloadInv == CheckpointSaved /\ HandSaved /\ TimeoutSaved /\ RecoverySaved

\* To start over, no payload is needed.
LEMMA EarlyRequiresNothing ==
    Required("START") = {} /\ Required("UPLOAD_RECEIVED") = {}
BY DEF Required, Checkpoints, Recoverable, Order

\* What aggregate_risks adds is all its label asks for beyond the run's own.
LEMMA AggregateRequires ==
    ASSUME NEW s \in {"CONTEXT_BUILT", "RISK_ANALYZED"}
    PROVE  Required("RISK_ANALYZED") \subseteq Required(s) \cup RiskPayload
BY DEF Required, Checkpoints, Recoverable, Order, RiskPayload

\* A status no run is resumed from needs no payload.
LEMMA RestLiterals ==
    {"CANCEL_REQUESTED", "CANCELLED", "TASK_ERROR", "NODE_TIMEOUT", "PARSE_FAILED",
     "RETRIEVAL_FAILED", "LLM_OUTPUT_INVALID", "NEED_MANUAL_REVIEW",
     "UNSUPPORTED_CONTRACT_TYPE", "EVIDENCE_VERIFIED", "HUMAN_REVIEW_PENDING"}
       \cap Recoverable = {}
BY DEF Recoverable

\* update_task forgets no payload.
LEMMA UpdateTaskSaves ==
    ASSUME NEW s, NEW cps, UpdateTask(s, cps),
           s \in Recoverable => Required(s) \subseteq saved \cup cps
    PROVE  saved \subseteq saved' /\ CheckpointSaved'
BY DEF UpdateTask, CheckpointSaved

\* The same of an update without last_timeout and recovery_history.
LEMMA UpdateSaves ==
    ASSUME NEW s, NEW cps, Update(s, cps),
           s \in Recoverable => Required(s) \subseteq saved \cup cps
    PROVE  saved \subseteq saved' /\ CheckpointSaved'
BY UpdateTaskSaves DEF Update

\* Submission names no stage whose payload is missing.
LEMMA StartSaves ==
    ASSUME PayloadInv, Start
    PROVE  saved \subseteq saved' /\ CheckpointSaved'
<1>1. CASE StartCreate
  BY <1>1, EarlyRequiresNothing DEF StartCreate, CheckpointSaved
<1>2. CASE StartReceive
  BY <1>2, EarlyRequiresNothing, UpdateSaves DEF StartReceive
<1>3. CASE StartRecordsFailure
  BY <1>3, RestLiterals, UpdateSaves DEF StartRecordsFailure
<1>4. QED
  BY <1>1, <1>2, <1>3
  DEF Start, StartEnqueue, StartEnqueueFails, rowVars, PayloadInv, CheckpointSaved

\* Nor does a cancellation.
LEMMA CancelSaves ==
    ASSUME PayloadInv, NEW c \in Cancellers, CancelRead(c) \/ CancelGoesOn(c)
    PROVE  saved \subseteq saved' /\ CheckpointSaved'
<1>1. CASE CancelWrite(c)
  BY <1>1, RestLiterals, UpdateSaves DEF CancelWrite
<1>2. CASE CancelFinalize(c)
  BY <1>2, RestLiterals, UpdateSaves DEF CancelFinalize
<1>3. QED
  BY <1>1, <1>2
  DEF CancelRead, CancelGoesOn, CancelCheck, rowVars, PayloadInv, CheckpointSaved

\* Nor does a recovery: it validated the checkpoint it writes.
LEMMA RecoverSaves ==
    ASSUME TypeOK, PayloadInv, NEW r \in Recoverers, RecoverPrepare(r) \/ RecoverGoesOn(r)
    PROVE  saved \subseteq saved' /\ CheckpointSaved' /\ RecoverySaved'
<1>0. recovery \in [Recoverers -> RecoveryStates]
  BY DEF TypeOK
<1>1. saved \subseteq saved' /\ CheckpointSaved'
  <2>1. CASE RecoverWrite(r)
    BY <2>1, UpdateTaskSaves DEF RecoverWrite, PayloadInv, RecoverySaved
  <2>2. CASE RecoverRecordsFailure(r)
    BY <2>2, RestLiterals, UpdateSaves DEF RecoverRecordsFailure
  <2>3. QED
    BY <2>1, <2>2
    DEF RecoverPrepare, RecoverGoesOn, RecoverCheck, RecoverEnqueue, RecoverEnqueueFails,
        RecoverRefused, rowVars, PayloadInv, CheckpointSaved
<1>2. Required(recovery'[r].resume) \subseteq saved
  <2>1. CASE Leaves(r)
    BY <1>0, <2>1, EarlyRequiresNothing DEF Leaves, IdleRecovery
  <2>2. CASE RecoverPrepare(r)
    <3>1. CASE UNCHANGED recovery
      BY <3>1 DEF PayloadInv, RecoverySaved
    <3>2. CASE MayResume(status) /\ recovery'[r].resume = RecoveryCheckpoint(status)
      BY <3>2 DEF MayResume
    <3>3. QED
      BY <1>0, <2>2, <3>1, <3>2 DEF RecoverPrepare, RecoveryStates
  <2>3. CASE recovery'[r].resume = recovery[r].resume
    BY <2>3 DEF PayloadInv, RecoverySaved
  <2>4. QED
    BY <1>0, <2>1, <2>2, <2>3
    DEF RecoverGoesOn, RecoverCheck, RecoverWrite, RecoverEnqueue, RecoverEnqueueFails,
        RecoverRecordsFailure, RecoverRefused, RecoveryStates
<1>3. \A q \in Recoverers \ {r} : recovery'[q] = recovery[q]
  BY <1>0
  DEF RecoverPrepare, RecoverGoesOn, RecoverCheck, RecoverWrite, RecoverEnqueue,
      RecoverEnqueueFails, RecoverRecordsFailure, RecoverRefused, Leaves
<1>4. QED
  BY <1>1, <1>2, <1>3 DEF RecoverySaved, PayloadInv

\* Nor does a boot: it writes back the stage it read.
LEMMA BootSaves ==
    ASSUME InHand, PayloadInv, WorkerBoot
    PROVE  saved \subseteq saved' /\ CheckpointSaved' /\ HandSaved'
<1> USE DEF Goes, PayloadInv
<1>1. CASE Boot
  BY <1>1 DEF Boot, rowVars, CheckpointSaved, HandSaved
<1>2. CASE BootRecover
  <2>1. saved \subseteq saved' /\ CheckpointSaved'
    BY <1>2, UpdateSaves DEF BootRecover, HandSaved
  <2>2. QED
    BY <1>2, <2>1 DEF BootRecover, HandSaved
<1>3. CASE BootCancel \/ BootWithoutUpload
  <2>1. saved \subseteq saved' /\ CheckpointSaved'
    BY <1>3, RestLiterals, UpdateSaves DEF BootCancel, BootWithoutUpload
  <2>2. QED
    BY <1>3, <2>1 DEF BootCancel, BootWithoutUpload, HandSaved
<1>4. QED
  BY <1>1, <1>2, <1>3
  DEF WorkerBoot, BootRefused, BootEnqueue, BootEnqueueFails, rowVars, CheckpointSaved, HandSaved

\* Nor does a job before its run.
LEMMA JobSaves ==
    ASSUME PayloadInv, WorkerJob
    PROVE  saved \subseteq saved' /\ CheckpointSaved' /\ HandSaved'
<1> USE DEF Goes, PayloadInv
<1>1. CASE Update("TASK_ERROR", {}) /\ UNCHANGED run_status
  <2>1. saved \subseteq saved' /\ CheckpointSaved'
    BY <1>1, RestLiterals, UpdateSaves
  <2>2. QED
    BY <1>1, <2>1 DEF HandSaved
<1>2. CASE UNCHANGED rowVars /\ UNCHANGED run_status
  BY <1>2 DEF rowVars, CheckpointSaved, HandSaved
<1>3. QED
  BY <1>1, <1>2
  DEF WorkerJob, TakeJob, ReadJob, Acquire, ReadAfterJobFailed, RecordJobFailed, JobHandlerRaises

\* Nor does a node: its payload is written with its label.
LEMMA NodeSaves ==
    ASSUME PayloadInv, Node
    PROVE  saved \subseteq saved' /\ CheckpointSaved' /\ HandSaved'
<1> USE DEF Goes, PayloadInv
<1>1. CASE Snapshot
  BY <1>1 DEF Snapshot, rowVars, CheckpointSaved, HandSaved
<1>2. CASE NodeRefuses
  BY <1>2, RestLiterals DEF NodeRefuses, rowVars, CheckpointSaved, HandSaved
<1>3. CASE PublishProgress
  <2>1. saved \subseteq saved' /\ CheckpointSaved'
    BY <1>3, UpdateSaves DEF PublishProgress, HandSaved
  <2>2. QED
    BY <1>3, <2>1 DEF PublishProgress, workerVars, HandSaved
<1>4. CASE Bootstrap
  <2>1. saved \subseteq saved' /\ CheckpointSaved'
    BY <1>4, EarlyRequiresNothing, UpdateSaves DEF Bootstrap
  <2>2. QED
    BY <1>4, <2>1, EarlyRequiresNothing DEF Bootstrap, HandSaved
<1>5. CASE CompleteNode
  <2>1. run_status \in Recoverable /\ run_status' = NextStage(run_status)
    BY <1>5 DEF CompleteNode
  <2>2. Required(NextStage(run_status)) \subseteq saved \cup {NextStage(run_status)}
    BY <2>1, NextStageRequires DEF HandSaved
  <2>3. saved \subseteq saved' /\ CheckpointSaved'
    BY <1>5, <2>2, UpdateSaves DEF CompleteNode
  <2>4. saved' = saved \cup {NextStage(run_status)}
    BY <1>5 DEF CompleteNode, Update, UpdateTask
  <2>5. QED
    BY <2>1, <2>2, <2>3, <2>4 DEF HandSaved
<1>6. CASE Aggregate
  <2>1. Required("RISK_ANALYZED") \subseteq saved \cup RiskPayload
    <3>1. run_status \in Recoverable
      BY <1>6 DEF Aggregate, Recoverable
    <3>2. Required("RISK_ANALYZED") \subseteq Required(run_status) \cup RiskPayload
      BY <1>6, AggregateRequires DEF Aggregate
    <3>3. QED
      BY <3>1, <3>2 DEF HandSaved
  <2>2. saved \subseteq saved' /\ CheckpointSaved'
    BY <1>6, <2>1, UpdateSaves DEF Aggregate
  <2>3. saved' = saved \cup RiskPayload /\ run_status' = "RISK_ANALYZED"
    BY <1>6 DEF Aggregate, Update, UpdateTask
  <2>4. QED
    BY <2>1, <2>2, <2>3 DEF HandSaved
<1>7. CASE \E s, cps : s \notin Recoverable /\ Update(s, cps) /\ UNCHANGED run_status
  <2>1. PICK s, cps : s \notin Recoverable /\ Update(s, cps) /\ UNCHANGED run_status
    BY <1>7
  <2>2. saved \subseteq saved' /\ CheckpointSaved'
    BY <2>1, UpdateSaves
  <2>3. QED
    BY <2>1, <2>2 DEF HandSaved
<1>8. CASE Conclude
  <2>1. \E s \in {"EVIDENCE_VERIFIED", "HUMAN_REVIEW_PENDING"} : Update(s, RiskPayload)
    BY <1>8 DEF Conclude
  <2>2. UNCHANGED run_status
    BY <1>8 DEF Conclude
  <2>3. QED
    BY <1>7, <2>1, <2>2, RestLiterals
<1>9. ASSUME NEW from, NEW s, NEW cps, NodeEnds(from, s, cps), s \notin Recoverable
      PROVE  \E t, ps : t \notin Recoverable /\ Update(t, ps) /\ UNCHANGED run_status
  BY <1>9 DEF NodeEnds
<1>10. CASE ClassifyEnds \/ StructureEnds \/ RetrieveEnds \/ AggregateEnds
  BY <1>7, <1>9, <1>10, RestLiterals
  DEF ClassifyEnds, StructureEnds, RetrieveEnds, AggregateEnds
<1>11. CASE ControlExecute \/ ControlEnds
  BY <1>11 DEF ControlExecute, ControlEnds, rowVars, CheckpointSaved, HandSaved
<1>12. QED
  BY <1>1, <1>2, <1>3, <1>4, <1>5, <1>6, <1>8, <1>10, <1>11 DEF Node

\* Nor does the end of a run.
LEMMA RunEndsSaves ==
    ASSUME InHand, PayloadInv, RunEnds
    PROVE  /\ saved \subseteq saved'
           /\ CheckpointSaved' /\ HandSaved' /\ TimeoutSaved'
<1> USE DEF Goes, PayloadInv
<1>1. CASE TimeoutReads
  BY <1>1, EarlyRequiresNothing
  DEF TimeoutReads, rowVars, CheckpointSaved, HandSaved, TimeoutSaved
<1>2. CASE TimeoutRecords /\ UpdateTask("NODE_TIMEOUT", {}) /\ resume_from' = run_status
  <2>1. saved \subseteq saved' /\ CheckpointSaved'
    BY <1>2, RestLiterals, UpdateTaskSaves
  <2>2. UNCHANGED run_status
    BY <1>2 DEF TimeoutRecords
  <2>3. QED
    BY <1>2, <2>1, <2>2 DEF HandSaved, TimeoutSaved
<1>3. CASE \E s : s \notin Recoverable /\ Update(s, {}) /\ UNCHANGED run_status
  <2>1. PICK s : s \notin Recoverable /\ Update(s, {}) /\ UNCHANGED run_status
    BY <1>3
  <2>2. saved \subseteq saved' /\ CheckpointSaved'
    BY <2>1, UpdateSaves
  <2>3. QED
    BY <2>1, <2>2 DEF HandSaved, TimeoutSaved, Update
<1>4. CASE UNCHANGED rowVars /\ UNCHANGED run_status
  BY <1>4 DEF rowVars, CheckpointSaved, HandSaved, TimeoutSaved
<1>5. CASE ParseFails \/ UnexpectedReads
  <2>1. UNCHANGED rowVars /\ run_status' \notin Recoverable
    BY <1>5, RestLiterals DEF ParseFails, UnexpectedReads, FailureStatuses
  <2>2. QED
    BY <2>1 DEF rowVars, CheckpointSaved, HandSaved, TimeoutSaved
<1>6. CASE Record
  <2>1. run_status \notin Recoverable
    BY <1>6, RestLiterals DEF Record, InHand
  <2>2. QED
    BY <1>3, <1>4, <1>6, <2>1 DEF Record
<1>7. CASE RunCancelled
  BY <1>3, <1>7, RestLiterals DEF RunCancelled
<1>8. CASE TimeoutRecords
  BY <1>2, <1>4, <1>8 DEF TimeoutRecords
<1>9. QED
  BY <1>1, <1>4, <1>5, <1>6, <1>7, <1>8
  DEF RunEnds, NodeCancelled, NodeTimesOut, RunRaises, HandlerRaises, Release, ReleaseSkipped

\* Steps that write no resume_from and no recovery keep what those need.
LEMMA WaitingSaved ==
    ASSUME PayloadInv, saved \subseteq saved'
    PROVE  /\ UNCHANGED resume_from => TimeoutSaved'
           /\ UNCHANGED recovery => RecoverySaved'
           /\ UNCHANGED run_status => HandSaved'
BY DEF PayloadInv, TimeoutSaved, RecoverySaved, HandSaved

\* Every step keeps the payload invariant.
LEMMA PayloadKept ==
    ASSUME TypeOK, InHand, PayloadInv, [Next]_vars
    PROVE  PayloadInv'
<1> USE DEF rowVars, workerVars, apiVars
<1>1. CASE UNCHANGED vars
  BY <1>1 DEF vars, PayloadInv, CheckpointSaved, HandSaved, TimeoutSaved, RecoverySaved
<1>2. CASE Start
  <2>1. UNCHANGED <<resume_from, recovery, run_status>>
    BY <1>2 DEF Start, StartCreate, StartReceive, StartEnqueue, StartEnqueueFails,
       StartRecordsFailure, Update
  <2>2. QED
    BY <1>2, <2>1, StartSaves, WaitingSaved DEF PayloadInv
<1>3. ASSUME NEW c \in Cancellers, CancelRead(c) \/ CancelGoesOn(c)
      PROVE  PayloadInv'
  <2>1. UNCHANGED <<resume_from, recovery, run_status>>
    BY <1>3 DEF CancelRead, CancelGoesOn, CancelWrite, CancelCheck, CancelFinalize,
       CancelFrame, Update
  <2>2. QED
    BY <1>3, <2>1, CancelSaves, WaitingSaved DEF PayloadInv
<1>4. ASSUME NEW r \in Recoverers, RecoverPrepare(r) \/ RecoverGoesOn(r)
      PROVE  PayloadInv'
  <2>1. UNCHANGED <<resume_from, run_status>>
    BY <1>4 DEF RecoverPrepare, RecoverGoesOn, RecoverCheck, RecoverWrite, RecoverEnqueue,
       RecoverEnqueueFails, RecoverRecordsFailure, RecoverRefused, RecoverFrame, Update
  <2>2. QED
    BY <1>4, <2>1, RecoverSaves, WaitingSaved DEF PayloadInv
<1>5. CASE ApiCrash
  <2>1. UNCHANGED <<status, saved, resume_from, run_status>>
    BY <1>5 DEF ApiCrash
  <2>2. RecoverySaved'
    BY <1>5, EarlyRequiresNothing DEF ApiCrash, RecoverySaved, IdleRecovery
  <2>3. QED
    BY <2>1, <2>2, WaitingSaved DEF PayloadInv, CheckpointSaved
<1>6. CASE WorkerBoot
  <2>1. UNCHANGED <<resume_from, recovery>>
    BY <1>6 DEF WorkerBoot, Boot, BootCancel, BootRecover, BootWithoutUpload, BootRefused,
       BootEnqueue, BootEnqueueFails, WorkerFrame, Update
  <2>2. QED
    BY <1>6, <2>1, BootSaves, WaitingSaved DEF PayloadInv
<1>7. CASE WorkerJob
  <2>1. UNCHANGED <<resume_from, recovery>>
    BY <1>7 DEF WorkerJob, TakeJob, ReadJob, Acquire, ReadAfterJobFailed, RecordJobFailed, JobHandlerRaises,
       WorkerFrame, Update
  <2>2. QED
    BY <1>7, <2>1, JobSaves, WaitingSaved DEF PayloadInv
<1>8. CASE Node
  <2>1. UNCHANGED <<resume_from, recovery>>
    BY <1>8 DEF Node, Snapshot, ControlExecute, NodeRefuses, PublishProgress, Bootstrap,
       CompleteNode, ClassifyEnds, StructureEnds, RetrieveEnds, AggregateEnds, NodeEnds,
       Aggregate, Conclude, ControlEnds, RunFrame, WorkerFrame, Update
  <2>2. QED
    BY <1>8, <2>1, NodeSaves, WaitingSaved DEF PayloadInv
<1>9. CASE RunEnds
  <2>1. UNCHANGED recovery
    BY <1>9 DEF RunEnds, NodeCancelled, NodeTimesOut, ParseFails, RunRaises, TimeoutReads,
       TimeoutRecords, UnexpectedReads, Record, RunCancelled, HandlerRaises, Release,
       ReleaseSkipped, RunFrame, WorkerFrame
  <2>2. QED
    BY <1>9, <2>1, RunEndsSaves, WaitingSaved DEF PayloadInv
<1>10. CASE WorkerCrash
  BY <1>10, WaitingSaved DEF WorkerCrash, Goes, WorkerFrame, PayloadInv, CheckpointSaved
<1>11. QED
  BY <1>1, <1>2, <1>3, <1>4, <1>5, <1>6, <1>7, <1>8, <1>9, <1>10 DEF Next, Worker

\* It holds initially.
LEMMA InitPayload == Init => PayloadInv
BY EarlyRequiresNothing
DEF Init, PayloadInv, CheckpointSaved, HandSaved, TimeoutSaved, RecoverySaved,
    IdleRecovery, Recoverable, NoTask

\* A task that is to be resumed has every payload its nodes will read back,
\* for any number of threads, faults, recoveries and boots.
THEOREM CheckpointsPersisted == Spec => []CheckpointSaved
<1>1. Init => TypeOK /\ InHand /\ PayloadInv
  BY InitType, InitPayload
<1>2. TypeOK /\ InHand /\ PayloadInv /\ [Next]_vars => TypeOK' /\ InHand' /\ PayloadInv'
  BY TypeKept, InHandKept, PayloadKept
<1>3. PayloadInv => CheckpointSaved
  BY DEF PayloadInv
<1>4. QED
  BY <1>1, <1>2, <1>3, PTL DEF Spec

-----------------------------------------------------------------------------
(* Cancellation.  update_task refuses every status but the two of a        *)
(* cancellation, so what has to be shown is that no caller brings one of   *)
(* these with other data, and that no task is created over a cancelled one.*)

\* Before its submission nobody works on the task.
NotSubmitted ==
    start = "none" =>
        /\ status = NoTask /\ job = "none" /\ worker \in {"idle", "down"}
        /\ \A c \in Cancellers : cancel[c] = "idle"
        /\ \A r \in Recoverers : recovery[r].place = "idle"

\* Every step keeps it.
LEMMA NotSubmittedKept ==
    ASSUME TypeOK, NotSubmitted, [Next]_vars
    PROVE  NotSubmitted'
<1> SUFFICES ASSUME start' = "none"
             PROVE  /\ status' = NoTask /\ job' = "none" /\ worker' \in {"idle", "down"}
                    /\ \A c \in Cancellers : cancel'[c] = "idle"
                    /\ \A r \in Recoverers : recovery'[r].place = "idle"
  BY DEF NotSubmitted
<1> USE DEF rowVars, workerVars, apiVars, NotSubmitted
<1>1. CASE UNCHANGED vars
  BY <1>1 DEF vars
<1>2. ~Start
  BY DEF Start, StartCreate, StartReceive, StartEnqueue, StartEnqueueFails,
     StartRecordsFailure
<1>3. ASSUME NEW c \in Cancellers PROVE ~(CancelRead(c) \/ CancelGoesOn(c))
  BY DEF CancelRead, CancelGoesOn, CancelWrite, CancelCheck, CancelFinalize, CancelFrame
<1>4. ASSUME NEW r \in Recoverers PROVE ~(RecoverPrepare(r) \/ RecoverGoesOn(r))
  BY DEF RecoverPrepare, RecoverGoesOn, RecoverCheck, RecoverWrite, RecoverEnqueue,
     RecoverEnqueueFails, RecoverRecordsFailure, RecoverRefused, RecoverFrame
<1>5. CASE ApiCrash
  <2>1. start = "none"
    BY <1>5 DEF ApiCrash
  <2>2. QED
    BY <1>5, <2>1 DEF ApiCrash, IdleRecovery
<1>6. CASE WorkerCrash
  BY <1>6 DEF WorkerCrash, Goes, WorkerFrame
<1>7. CASE Worker
  <2>1. start = "none"
    BY <1>7 DEF Worker, WorkerBoot, WorkerJob, Node, RunEnds, Boot, BootCancel, BootRecover,
       BootWithoutUpload, BootRefused, BootEnqueue, BootEnqueueFails, TakeJob, ReadJob,
       Acquire, ReadAfterJobFailed, RecordJobFailed, JobHandlerRaises, Snapshot, ControlExecute, NodeRefuses,
       PublishProgress, Bootstrap, CompleteNode, ClassifyEnds, StructureEnds, RetrieveEnds,
       AggregateEnds, NodeEnds, Aggregate, Conclude, ControlEnds, NodeCancelled,
       NodeTimesOut, ParseFails, RunRaises, TimeoutReads, TimeoutRecords, UnexpectedReads,
       Record, RunCancelled, HandlerRaises, Release, ReleaseSkipped, RunFrame, WorkerFrame
  <2>2. worker \in {"idle", "down"} /\ job = "none" /\ status = NoTask
    BY <2>1
  <2>3. Boot
    BY <1>7, <2>2 DEF Worker, WorkerBoot, WorkerJob, Node, RunEnds, BootCancel, BootRecover,
       BootWithoutUpload, BootRefused, BootEnqueue, BootEnqueueFails, TakeJob, ReadJob,
       Acquire, ReadAfterJobFailed, RecordJobFailed, JobHandlerRaises, Snapshot, ControlExecute, NodeRefuses,
       PublishProgress, Bootstrap, CompleteNode, ClassifyEnds, StructureEnds, RetrieveEnds,
       AggregateEnds, NodeEnds, Aggregate, Conclude, ControlEnds, NodeCancelled,
       NodeTimesOut, ParseFails, RunRaises, TimeoutReads, TimeoutRecords, UnexpectedReads,
       Record, RunCancelled, HandlerRaises, Release, ReleaseSkipped
  <2>4. QED
    BY <2>1, <2>2, <2>3 DEF Boot, WorkerFrame
<1>8. QED
  BY <1>1, <1>2, <1>3, <1>4, <1>5, <1>6, <1>7 DEF Next

\* What update_task does to a task in cancellation: nothing but the status.
LEMMA UpdateWhileCancelling ==
    ASSUME status \in Cancelling, NEW s, NEW cps, UpdateTask(s, cps)
    PROVE  /\ s \in Cancelling /\ status' = s
           /\ retry_counts' = retry_counts
           /\ saved' = saved \cup cps
BY DEF UpdateTask, Accepts, CountRetry, Cancelling, Failed

\* An update that a cancelled task accepts only restates the cancellation.
LEMMA CancellationStays ==
    ASSUME status \in Cancelling, NEW s, Update(s, {})
    PROVE  StaysCancelled
BY UpdateWhileCancelling DEF Update, StaysCancelled

\* ... and any other status is refused.
LEMMA CancellationRefuses ==
    ASSUME status \in Cancelling, NEW s, s \notin Cancelling, NEW cps
    PROVE  ~UpdateTask(s, cps) /\ ~Update(s, cps)
BY UpdateWhileCancelling DEF Update

\* The statuses other callers bring.
LEMMA LiveLiterals ==
    /\ Recoverable \cap Cancelling = {}
    /\ {"TASK_ERROR", "NODE_TIMEOUT", "PARSE_FAILED", "RETRIEVAL_FAILED",
        "LLM_OUTPUT_INVALID", "NEED_MANUAL_REVIEW", "UNSUPPORTED_CONTRACT_TYPE",
        "EVIDENCE_VERIFIED", "HUMAN_REVIEW_PENDING", "UPLOAD_RECEIVED",
        "RISK_ANALYZED"} \cap Cancelling = {}
BY DEF Recoverable, Cancelling

\* A step that leaves the row alone leaves a cancelled task cancelled.
LEMMA RowStays ==
    ASSUME status \in Cancelling, UNCHANGED rowVars
    PROVE  StaysCancelled
BY DEF rowVars, StaysCancelled

\* No step takes a task out of cancellation.
LEMMA CancellationKept ==
    ASSUME TypeOK, InHand, NotSubmitted, status \in Cancelling, Next
    PROVE  StaysCancelled
<1>1. CASE Start
  <2>1. status # NoTask
    BY DEF Cancelling, NoTask
  <2>2. ~StartCreate
    BY <2>1 DEF StartCreate, NotSubmitted
  <2>3. QED
    BY <1>1, <2>2, CancellationStays, RowStays
    DEF Start, StartReceive, StartEnqueue, StartEnqueueFails, StartRecordsFailure
<1>2. ASSUME NEW c \in Cancellers, CancelRead(c) \/ CancelGoesOn(c)
      PROVE  StaysCancelled
  BY <1>2, CancellationStays, RowStays
  DEF CancelRead, CancelGoesOn, CancelWrite, CancelCheck, CancelFinalize
<1>3. ASSUME NEW r \in Recoverers, RecoverPrepare(r) \/ RecoverGoesOn(r)
      PROVE  StaysCancelled
  <2>1. recovery[r].resume \notin Cancelling
    BY LiveLiterals DEF TypeOK, RecoveryStates
  <2>2. ~RecoverWrite(r)
    BY <2>1, CancellationRefuses DEF RecoverWrite
  <2>3. QED
    BY <1>3, <2>2, CancellationStays, RowStays
    DEF RecoverPrepare, RecoverGoesOn, RecoverCheck, RecoverEnqueue, RecoverEnqueueFails,
        RecoverRecordsFailure, RecoverRefused
<1>4. CASE ApiCrash \/ WorkerCrash
  BY <1>4, RowStays DEF ApiCrash, WorkerCrash
<1>5. CASE WorkerBoot
  BY <1>5, CancellationStays, RowStays
  DEF WorkerBoot, Boot, BootCancel, BootRecover, BootWithoutUpload, BootRefused,
      BootEnqueue, BootEnqueueFails
<1>6. CASE WorkerJob
  BY <1>6, CancellationStays, RowStays
  DEF WorkerJob, TakeJob, ReadJob, Acquire, ReadAfterJobFailed, RecordJobFailed, JobHandlerRaises
<1>7. CASE Node
  <2>1. ASSUME NEW from, NEW s, s \notin Cancelling, NEW cps
        PROVE  ~NodeEnds(from, s, cps)
    BY <2>1, CancellationRefuses DEF NodeEnds
  <2>2. ~(ClassifyEnds \/ StructureEnds \/ RetrieveEnds \/ AggregateEnds)
    BY <2>1, LiveLiterals DEF ClassifyEnds, StructureEnds, RetrieveEnds, AggregateEnds
  <2>3. ~(Bootstrap \/ Aggregate \/ Conclude)
    BY CancellationRefuses, LiveLiterals DEF Bootstrap, Aggregate, Conclude
  <2>4. ~PublishProgress
    BY CancellationRefuses, LiveLiterals DEF PublishProgress
  <2>5. ~CompleteNode
    <3>1. run_status \in Recoverable => NextStage(run_status) \notin Cancelling
      BY NextStageType, LiveLiterals
    <3>2. QED
      BY <3>1, CancellationRefuses DEF CompleteNode
  <2>6. QED
    BY <1>7, <2>2, <2>3, <2>4, <2>5, RowStays
    DEF Node, Snapshot, ControlExecute, NodeRefuses, ControlEnds
<1>8. CASE RunEnds
  <2>1. TimeoutRecords => UNCHANGED rowVars
    BY CancellationRefuses, LiveLiterals DEF TimeoutRecords
  <2>2. QED
    BY <1>8, <2>1, CancellationStays, RowStays
    DEF RunEnds, NodeCancelled, NodeTimesOut, ParseFails, RunRaises, TimeoutReads,
        UnexpectedReads, Record, RunCancelled, HandlerRaises, Release, ReleaseSkipped
<1>9. QED
  BY <1>1, <1>2, <1>3, <1>4, <1>5, <1>6, <1>7, <1>8 DEF Next, Worker

\* From a cancellation request on, no run, boot, recovery or failure handler
\* takes the task out of cancellation or adds results to it.
THEOREM CancellationIsFinal == Spec => CancellationFreezes
<1>1. Init => TypeOK /\ InHand /\ NotSubmitted
  BY InitType DEF Init, NotSubmitted, IdleRecovery
<1>2. TypeOK /\ InHand /\ NotSubmitted /\ [Next]_vars => TypeOK' /\ InHand' /\ NotSubmitted'
  BY TypeKept, InHandKept, NotSubmittedKept
<1>3. TypeOK /\ InHand /\ NotSubmitted /\ [Next]_vars
        => [(status \in Cancelling) => StaysCancelled]_vars
  BY CancellationKept
<1>4. QED
  BY <1>1, <1>2, <1>3, PTL DEF Spec, CancellationFreezes

-----------------------------------------------------------------------------
(* What a failure leaves.  A timeout's checkpoint is the label the run had *)
(* reached, and a failed retrieval has its clauses.                        *)

FailureSaved ==
    /\ status \notin {"TASK_TIMEOUT", "EVIDENCE_MISSING"}
    /\ status = "NODE_TIMEOUT" => resume_from \in Recoverable
    /\ status = "RETRIEVAL_FAILED" => Required("CLAUSES_STRUCTURED") \subseteq saved

\* The failures that need a payload or a checkpoint of their own.
Demanding == {"TASK_TIMEOUT", "EVIDENCE_MISSING", "NODE_TIMEOUT", "RETRIEVAL_FAILED"}

\* The failure on record keeps what it has; any other status needs nothing.
LEMMA FailureStays ==
    ASSUME FailureSaved, saved \subseteq saved',
           status' \notin Demanding \/ UNCHANGED <<status, resume_from>>
    PROVE  FailureSaved'
BY DEF FailureSaved, Demanding

\* An update to any other status meets the demand.
LEMMA UpdateUndemanding ==
    ASSUME FailureSaved, NEW s, NEW cps, UpdateTask(s, cps) \/ Update(s, cps), s \notin Demanding
    PROVE  FailureSaved'
BY DEF FailureSaved, Demanding, Update, UpdateTask

\* A step that leaves the row alone keeps the demand met.
LEMMA RowKeepsFailure ==
    ASSUME FailureSaved, UNCHANGED rowVars
    PROVE  FailureSaved'
BY DEF FailureSaved, rowVars

\* Every other status the actions write is outside Demanding.
LEMMA UndemandingLiterals ==
    /\ Recoverable \cap Demanding = {}
    /\ {"CANCEL_REQUESTED", "CANCELLED", "TASK_ERROR", "PARSE_FAILED", "LLM_OUTPUT_INVALID",
        "NEED_MANUAL_REVIEW", "UNSUPPORTED_CONTRACT_TYPE", "EVIDENCE_VERIFIED",
        "HUMAN_REVIEW_PENDING", "UPLOAD_RECEIVED", "RISK_ANALYZED"} \cap Demanding = {}
BY DEF Recoverable, Demanding

\* Whoever retrieves has the clauses.
LEMMA RetrievalHasClauses ==
    ASSUME NEW s \in {"CLAUSES_STRUCTURED", "PLAYBOOK_RETRIEVED", "CONTEXT_BUILT", "RISK_ANALYZED"}
    PROVE  s \in Recoverable /\ Required("CLAUSES_STRUCTURED") \subseteq Required(s)
BY DEF Required, Checkpoints, Recoverable, Order

\* An update that takes a run from a label behind the clauses to a failed retrieval.
LEMMA RetrievalFails ==
    ASSUME HandSaved, NEW cps,
           NEW s \in {"CLAUSES_STRUCTURED", "PLAYBOOK_RETRIEVED", "CONTEXT_BUILT", "RISK_ANALYZED"},
           NodeEnds(s, "RETRIEVAL_FAILED", cps)
    PROVE  FailureSaved'
<1>1. Required("CLAUSES_STRUCTURED") \subseteq saved
  BY RetrievalHasClauses DEF HandSaved, NodeEnds
<1>2. status' = "RETRIEVAL_FAILED" /\ saved \subseteq saved'
  BY DEF NodeEnds, Update, UpdateTask
<1>3. QED
  BY <1>1, <1>2 DEF FailureSaved

\* Every step leaves each failure with the payloads its checkpoint asks for.
LEMMA FailureKept ==
    ASSUME TypeOK, InHand, PayloadInv, FailureSaved, [Next]_vars
    PROVE  FailureSaved'
<1> USE UndemandingLiterals, UpdateUndemanding, RowKeepsFailure
<1>1. CASE UNCHANGED vars
  BY <1>1 DEF vars
<1>2. CASE Start
  <2>1. CASE StartCreate
    BY <2>1, EarlyRequiresNothing DEF StartCreate, FailureSaved
  <2>2. QED
    BY <1>2, <2>1
    DEF Start, StartReceive, StartEnqueue, StartEnqueueFails, StartRecordsFailure
<1>3. ASSUME NEW c \in Cancellers, CancelRead(c) \/ CancelGoesOn(c)
      PROVE  FailureSaved'
  BY <1>3 DEF CancelRead, CancelGoesOn, CancelWrite, CancelCheck, CancelFinalize
<1>4. ASSUME NEW r \in Recoverers, RecoverPrepare(r) \/ RecoverGoesOn(r)
      PROVE  FailureSaved'
  <2>1. recovery[r].resume \notin Demanding
    BY DEF TypeOK, RecoveryStates
  <2>2. QED
    BY <1>4, <2>1
    DEF RecoverPrepare, RecoverGoesOn, RecoverCheck, RecoverWrite, RecoverEnqueue,
        RecoverEnqueueFails, RecoverRecordsFailure, RecoverRefused
<1>5. CASE ApiCrash \/ WorkerCrash
  BY <1>5 DEF ApiCrash, WorkerCrash
<1>6. CASE WorkerBoot
  BY <1>6
  DEF WorkerBoot, Boot, BootCancel, BootRecover, BootWithoutUpload, BootRefused,
      BootEnqueue, BootEnqueueFails, InHand
<1>7. CASE WorkerJob
  BY <1>7 DEF WorkerJob, TakeJob, ReadJob, Acquire, ReadAfterJobFailed, RecordJobFailed, JobHandlerRaises
<1>8. CASE Node
  <2>1. CASE PublishProgress \/ Bootstrap \/ Aggregate
    BY <2>1 DEF PublishProgress, Bootstrap, Aggregate
  <2>2. CASE CompleteNode
    <3>1. run_status \in Recoverable => NextStage(run_status) \notin Demanding
      BY NextStageType
    <3>2. QED
      BY <2>2, <3>1 DEF CompleteNode
  <2>3. CASE Conclude
    BY <2>3 DEF Conclude
  <2>4. ASSUME NEW from, NEW s, s \notin Demanding, NEW cps, NodeEnds(from, s, cps)
        PROVE  FailureSaved'
    BY <2>4 DEF NodeEnds
  <2>5. CASE ClassifyEnds \/ StructureEnds
    BY <2>4, <2>5 DEF ClassifyEnds, StructureEnds
  <2>6. CASE RetrieveEnds \/ AggregateEnds
    BY <2>4, <2>6, RetrievalFails DEF RetrieveEnds, AggregateEnds, PayloadInv
  <2>7. QED
    BY <1>8, <2>1, <2>2, <2>3, <2>5, <2>6
    DEF Node, Snapshot, ControlExecute, NodeRefuses, ControlEnds
<1>9. CASE RunEnds
  <2>1. CASE TimeoutRecords
    <3>1. CASE UNCHANGED rowVars
      BY <3>1
    <3>2. CASE status' = "NODE_TIMEOUT" /\ resume_from' = run_status
      BY <2>1, <3>2 DEF TimeoutRecords, InHand, FailureSaved
    <3>3. QED
      BY <2>1, <3>1, <3>2 DEF TimeoutRecords, UpdateTask
  <2>2. CASE Record
    <3>1. run_status \notin Demanding
      BY <2>2 DEF Record, InHand
    <3>2. QED
      BY <2>2, <3>1 DEF Record
  <2>3. QED
    BY <1>9, <2>1, <2>2
    DEF RunEnds, NodeCancelled, NodeTimesOut, ParseFails, RunRaises, TimeoutReads,
        UnexpectedReads, RunCancelled, HandlerRaises, Release, ReleaseSkipped
<1>10. QED
  BY <1>1, <1>2, <1>3, <1>4, <1>5, <1>6, <1>7, <1>8, <1>9 DEF Next, Worker

\* Every failure a run records, but the one named in FailureHasCheckpoint,
\* leaves a checkpoint that prepare_manual_recovery accepts.
THEOREM FailuresCanBeRecovered == Spec => []FailureHasCheckpoint
<1>1. Init => TypeOK /\ InHand /\ PayloadInv /\ FailureSaved
  BY InitType, InitPayload DEF Init, FailureSaved, NoTask
<1>2. TypeOK /\ InHand /\ PayloadInv /\ FailureSaved /\ [Next]_vars
        => TypeOK' /\ InHand' /\ PayloadInv' /\ FailureSaved'
  BY TypeKept, InHandKept, PayloadKept, FailureKept
<1>3. PayloadInv /\ FailureSaved => FailureHasCheckpoint
  <2> SUFFICES ASSUME PayloadInv, FailureSaved, status \in Failed \ {"LLM_OUTPUT_INVALID"}
               PROVE  MayResume(status)
    BY DEF FailureHasCheckpoint
  <2>1. CASE status = "NODE_TIMEOUT"
    BY <2>1 DEF MayResume, RecoveryCheckpoint, FailureSaved, PayloadInv, TimeoutSaved
  <2>2. CASE status = "RETRIEVAL_FAILED"
    BY <2>2, RetrievalHasClauses DEF MayResume, RecoveryCheckpoint, FailureSaved
  <2>3. CASE status \in {"PARSE_FAILED", "TASK_ERROR"}
    <3>1. RecoveryCheckpoint(status) = "UPLOAD_RECEIVED"
      BY <2>3 DEF RecoveryCheckpoint
    <3>2. QED
      BY <3>1, EarlyRequiresNothing DEF MayResume, Recoverable
  <2>4. QED
    BY <2>1, <2>2, <2>3 DEF Failed, FailureSaved
<1>4. QED
  BY <1>1, <1>2, <1>3, PTL DEF Spec

-----------------------------------------------------------------------------
(* No orphans.  The API process does not die in the middle of a request,   *)
(* the run's finally block releases the lease, the handler of a failed job *)
(* can write, and the worker boots before or after a submission; whatever  *)
(* else fails, a task to be resumed is in somebody's hands.  TLC shows an  *)
(* orphan without any of the four.                                         *)

HandedOver ==
    /\ ~BootDuringSubmit
    /\ FaultKinds \cap {"api_crash", "finally", "handler"} = {}

\* Who holds the lease is running or has died.
LeaseHeldByRun == execution_active => worker \in Running \cup {"down"}

\* Until its first job is queued nobody else deals with the task.
Submitting ==
    start \in {"none", "created", "received"} =>
        /\ job = "none" /\ worker \in {"idle", "down"}
        /\ \A r \in Recoverers : recovery[r].place = "idle"

Pending == \E r \in Recoverers : recovery[r].place \in {"enqueue", "record"}

\* Every step keeps the lease with the run or the dead worker.
LEMMA LeaseKept ==
    ASSUME HandedOver, TypeOK, LeaseHeldByRun, [Next]_vars
    PROVE  LeaseHeldByRun'
<1> USE DEF LeaseHeldByRun, Running, Goes, workerVars
<1>1. CASE UNCHANGED vars
  BY <1>1 DEF vars
<1>2. CASE UNCHANGED <<execution_active, workerVars>>
  BY <1>2
<1>3. CASE Start
  BY <1>2, <1>3 DEF Start, StartCreate, StartReceive, StartEnqueue, StartEnqueueFails,
     StartRecordsFailure
<1>4. ASSUME NEW c \in Cancellers, CancelRead(c) \/ CancelGoesOn(c)
      PROVE  LeaseHeldByRun'
  BY <1>2, <1>4 DEF CancelRead, CancelGoesOn, CancelWrite, CancelCheck, CancelFinalize,
     CancelFrame
<1>5. ASSUME NEW r \in Recoverers, RecoverPrepare(r) \/ RecoverGoesOn(r)
      PROVE  LeaseHeldByRun'
  BY <1>2, <1>5 DEF RecoverPrepare, RecoverGoesOn, RecoverCheck, RecoverWrite, RecoverEnqueue,
     RecoverEnqueueFails, RecoverRecordsFailure, RecoverRefused, RecoverFrame
<1>6. CASE ApiCrash
  BY <1>2, <1>6 DEF ApiCrash
<1>7. CASE WorkerBoot
  BY <1>7 DEF WorkerBoot, Boot, BootCancel, BootRecover, BootWithoutUpload, BootRefused,
     BootEnqueue, BootEnqueueFails
<1>8. CASE WorkerJob
  BY <1>8 DEF WorkerJob, TakeJob, ReadJob, Acquire, ReadAfterJobFailed, RecordJobFailed, JobHandlerRaises
<1>9. CASE Node
  BY <1>9 DEF Node, Snapshot, ControlExecute, NodeRefuses, PublishProgress, Bootstrap,
     CompleteNode, ClassifyEnds, StructureEnds, RetrieveEnds, AggregateEnds, NodeEnds,
     Aggregate, Conclude, ControlEnds, RunFrame
<1>10. CASE RunEnds
  <2>1. ~ReleaseSkipped
    BY DEF HandedOver, ReleaseSkipped, Fault
  <2>2. QED
    BY <1>10, <2>1
    DEF RunEnds, NodeCancelled, NodeTimesOut, ParseFails, RunRaises, TimeoutReads,
        TimeoutRecords, UnexpectedReads, Record, RunCancelled, HandlerRaises, Release, RunFrame
<1>11. CASE WorkerCrash
  BY <1>11 DEF WorkerCrash
<1>12. QED
  BY <1>1, <1>3, <1>4, <1>5, <1>6, <1>7, <1>8, <1>9, <1>10, <1>11 DEF Next, Worker

\* The worker and its death leave the API threads alone.
LEMMA WorkerFrames ==
    ASSUME Worker \/ WorkerCrash
    PROVE  UNCHANGED apiVars
BY DEF Worker, WorkerCrash, WorkerBoot, WorkerJob, Node, RunEnds, Boot, BootCancel,
   BootRecover, BootWithoutUpload, BootRefused, BootEnqueue, BootEnqueueFails, TakeJob,
   ReadJob, Acquire, ReadAfterJobFailed, RecordJobFailed, JobHandlerRaises, Snapshot, ControlExecute,
   NodeRefuses, PublishProgress, Bootstrap, CompleteNode, ClassifyEnds, StructureEnds,
   RetrieveEnds, AggregateEnds, NodeEnds, Aggregate, Conclude, ControlEnds, NodeCancelled,
   NodeTimesOut, ParseFails, RunRaises, TimeoutReads, TimeoutRecords, UnexpectedReads,
   Record, RunCancelled, HandlerRaises, Release, ReleaseSkipped, RunFrame, WorkerFrame

\* The worker does nothing about a task that is being submitted.
LEMMA WorkerWaits ==
    ASSUME HandedOver, NotSubmitted, Submitting, Worker \/ WorkerCrash,
           start \in {"none", "created", "received"}
    PROVE  job' = "none" /\ worker' \in {"idle", "down"} /\ UNCHANGED recovery
<1>1. worker \in {"idle", "down"} /\ job = "none"
  BY DEF Submitting
<1>2. CASE WorkerCrash
  BY <1>1, <1>2 DEF WorkerCrash, Goes, WorkerFrame, apiVars
<1>3. CASE Worker
  <2>1. Boot
    BY <1>1, <1>3 DEF Worker, WorkerBoot, WorkerJob, Node, RunEnds, BootCancel, BootRecover,
       BootWithoutUpload, BootRefused, BootEnqueue, BootEnqueueFails, TakeJob, ReadJob,
       Acquire, ReadAfterJobFailed, RecordJobFailed, JobHandlerRaises, Snapshot, ControlExecute, NodeRefuses,
       PublishProgress, Bootstrap, CompleteNode, ClassifyEnds, StructureEnds, RetrieveEnds,
       AggregateEnds, NodeEnds, Aggregate, Conclude, ControlEnds, NodeCancelled,
       NodeTimesOut, ParseFails, RunRaises, TimeoutReads, TimeoutRecords, UnexpectedReads,
       Record, RunCancelled, HandlerRaises, Release, ReleaseSkipped
  <2>2. start = "none" /\ status = NoTask
    BY <2>1 DEF Boot, HandedOver, NotSubmitted
  <2>3. QED
    BY <1>1, <2>1, <2>2 DEF Boot, WorkerFrame, apiVars
<1>4. QED
  BY <1>2, <1>3

\* Every step keeps the submission undisturbed.
LEMMA SubmittingKept ==
    ASSUME HandedOver, TypeOK, NotSubmitted, Submitting, [Next]_vars
    PROVE  Submitting'
<1> SUFFICES ASSUME start' \in {"none", "created", "received"}
             PROVE  /\ job' = "none" /\ worker' \in {"idle", "down"}
                    /\ \A r \in Recoverers : recovery'[r].place = "idle"
  BY DEF Submitting
<1> USE DEF workerVars, apiVars
<1>1. CASE UNCHANGED vars
  BY <1>1 DEF vars, Submitting
<1>2. CASE Start
  BY <1>2 DEF Start, StartCreate, StartReceive, StartEnqueue, StartEnqueueFails,
     StartRecordsFailure, Submitting
<1>3. ASSUME NEW c \in Cancellers, CancelRead(c) \/ CancelGoesOn(c)
      PROVE  UNCHANGED <<start, job, worker, recovery>>
  BY <1>3 DEF CancelRead, CancelGoesOn, CancelWrite, CancelCheck, CancelFinalize, CancelFrame
<1>4. ASSUME NEW r \in Recoverers PROVE ~(RecoverPrepare(r) \/ RecoverGoesOn(r))
  BY DEF RecoverPrepare, RecoverGoesOn, RecoverCheck, RecoverWrite, RecoverEnqueue,
     RecoverEnqueueFails, RecoverRecordsFailure, RecoverRefused, RecoverFrame, Submitting
<1>5. ~ApiCrash
  BY DEF HandedOver, ApiCrash, Fault
<1>6. CASE Worker \/ WorkerCrash
  <2>1. start = start'
    BY <1>6, WorkerFrames
  <2>2. QED
    BY <1>6, <2>1, WorkerWaits DEF Submitting
<1>7. QED
  BY <1>1, <1>2, <1>3, <1>4, <1>5, <1>6 DEF Next, Submitting

\* The statuses that are not resumed.
LEMMA RestingStatuses == (Terminal \cup Cancelling \cup {NoTask}) \cap Recoverable = {}
BY RecoverableIsLive

\* A step of the worker that lets go of the task leaves it at rest or queued.
LEMMA WorkerLetsGo ==
    ASSUME HandedOver, TypeOK, InHand, LeaseHeldByRun, Worker,
           worker' \in {"idle", "tail", "release"}
    PROVE  \/ status' \notin Recoverable
           \/ job' = "queued"
           \/ worker \in {"tail", "release"} /\ UNCHANGED <<status, job>>
<1> USE RestLiterals, RestingStatuses DEF Goes
<1>1. CASE WorkerBoot
  BY <1>1 DEF WorkerBoot, Boot, BootCancel, BootRecover, BootWithoutUpload, BootRefused,
     BootEnqueue, BootEnqueueFails, Update, UpdateTask, rowVars
<1>2. CASE WorkerJob
  <2>1. CASE Acquire
    <3>1. worker = "acquire" /\ execution_active
      BY <2>1 DEF Acquire
    <3>2. QED
      BY <3>1 DEF LeaseHeldByRun, Running
  <2>2. CASE RecordJobFailed
    <3>1. CASE Update("TASK_ERROR", {})
      BY <3>1 DEF Update, UpdateTask
    <3>2. CASE ~Accepts("TASK_ERROR") /\ UNCHANGED rowVars
      BY <3>2 DEF Accepts, rowVars
    <3>3. QED
      BY <2>2, <3>1, <3>2 DEF RecordJobFailed
  <2>3. ~JobHandlerRaises
    BY DEF HandedOver, JobHandlerRaises, Fault
  <2>4. QED
    BY <1>2, <2>1, <2>2, <2>3 DEF WorkerJob, TakeJob, ReadJob, ReadAfterJobFailed, rowVars
<1>3. CASE Node
  <2>1. ASSUME NEW from, NEW s, s \notin Recoverable, NEW cps, NodeEnds(from, s, cps)
        PROVE  status' \notin Recoverable
    BY <2>1 DEF NodeEnds, Update, UpdateTask
  <2>2. CASE ClassifyEnds \/ StructureEnds \/ RetrieveEnds \/ AggregateEnds
    BY <2>1, <2>2 DEF ClassifyEnds, StructureEnds, RetrieveEnds, AggregateEnds
  <2>3. CASE Conclude
    BY <2>3 DEF Conclude, Update, UpdateTask
  <2>4. QED
    BY <1>3, <2>2, <2>3 DEF Node, Snapshot, ControlExecute, NodeRefuses, PublishProgress,
       Bootstrap, CompleteNode, Aggregate, ControlEnds, workerVars, RunFrame, rowVars
<1>4. CASE RunEnds
  <2>1. CASE Record
    <3>1. run_status \notin Recoverable
      BY <2>1 DEF Record, InHand
    <3>2. QED
      BY <2>1, <3>1 DEF Record, Update, UpdateTask
  <2>2. CASE TimeoutRecords \/ RunCancelled
    BY <2>2 DEF TimeoutRecords, RunCancelled, Update, UpdateTask
  <2>3. CASE Release
    BY <2>3 DEF Release, rowVars
  <2>4. QED
    BY <1>4, <2>1, <2>2, <2>3
    DEF RunEnds, NodeCancelled, NodeTimesOut, ParseFails, RunRaises, TimeoutReads,
        UnexpectedReads, HandlerRaises, ReleaseSkipped
<1>5. QED
  BY <1>1, <1>2, <1>3, <1>4 DEF Worker

\* No step leaves a task to be resumed in nobody's hands.
LEMMA OrphanKept ==
    ASSUME HandedOver, TypeOK, TypeOK', InHand, NotSubmitted, LeaseHeldByRun, Submitting,
           NoOrphan, [Next]_vars
    PROVE  NoOrphan'
<1> SUFFICES ASSUME start' = "done", status' \in Recoverable, job' # "queued", ~Pending'
             PROVE  worker' \in WorkerPlaces \ {"idle", "tail", "release"}
  BY DEF NoOrphan, WorkerHasTask, Pending
<1>1. CASE UNCHANGED vars
  BY <1>1 DEF vars, rowVars, workerVars, apiVars, NoOrphan, WorkerHasTask, Pending
<1>2. CASE Start
  BY <1>2 DEF Start, StartCreate, StartReceive, StartEnqueue, StartEnqueueFails,
     StartRecordsFailure, Submitting
<1>3. CASE UNCHANGED <<status, start, job, worker, recovery>>
  BY <1>3 DEF NoOrphan, WorkerHasTask, Pending
<1>4. ASSUME NEW c \in Cancellers, CancelRead(c) \/ CancelGoesOn(c)
      PROVE  worker' \in WorkerPlaces \ {"idle", "tail", "release"}
  <2>1. UNCHANGED <<start, job, worker, recovery>>
    BY <1>4 DEF CancelRead, CancelGoesOn, CancelWrite, CancelCheck, CancelFinalize, CancelFrame,
       workerVars
  <2>2. UNCHANGED status
    BY <1>4, RestLiterals
    DEF CancelRead, CancelGoesOn, CancelWrite, CancelCheck, CancelFinalize, Update, UpdateTask,
        rowVars
  <2>3. QED
    BY <1>3, <2>1, <2>2
<1>5. ASSUME NEW r \in Recoverers, RecoverPrepare(r) \/ RecoverGoesOn(r)
      PROVE  worker' \in WorkerPlaces \ {"idle", "tail", "release"}
  <2>1. UNCHANGED <<start, worker>>
    BY <1>5 DEF RecoverPrepare, RecoverGoesOn, RecoverCheck, RecoverWrite, RecoverEnqueue,
       RecoverEnqueueFails, RecoverRecordsFailure, RecoverRefused, RecoverFrame, workerVars
  <2>2. recovery \in [Recoverers -> RecoveryStates]
    BY DEF TypeOK
  <2>3. ~(RecoverWrite(r) \/ RecoverEnqueue(r) \/ RecoverEnqueueFails(r))
    <3>1. recovery'[r].place \notin {"enqueue", "record"} /\ job' # "queued"
      BY DEF Pending
    <3>2. QED
      BY <2>2, <3>1 DEF RecoverWrite, RecoverEnqueue, RecoverEnqueueFails, RecoveryStates
  <2>4. ~RecoverRecordsFailure(r)
    BY RestLiterals DEF RecoverRecordsFailure, Update, UpdateTask
  <2>5. ~(RecoverRefused(r))
    BY RestingStatuses DEF RecoverRefused, rowVars
  <2>6. CASE RecoverPrepare(r) \/ RecoverCheck(r)
    <3>1. UNCHANGED <<status, job>>
      BY <2>6 DEF RecoverPrepare, RecoverCheck, rowVars
    <3>2. recovery[r].place \notin {"enqueue", "record"}
      BY <2>6 DEF RecoverPrepare, RecoverCheck
    <3>3. \A q \in Recoverers : q # r => recovery'[q] = recovery[q]
      BY <2>2, <2>6 DEF RecoverPrepare, RecoverCheck, Leaves
    <3>4. ~Pending
      BY <3>2, <3>3 DEF Pending
    <3>5. QED
      BY <2>1, <3>1, <3>4 DEF NoOrphan, WorkerHasTask, Pending
  <2>7. QED
    BY <1>5, <2>3, <2>4, <2>5, <2>6 DEF RecoverGoesOn
<1>6. ~ApiCrash
  BY DEF HandedOver, ApiCrash, Fault
<1>7. CASE WorkerCrash
  BY <1>7 DEF WorkerCrash, Goes, WorkerPlaces
<1>8. CASE Worker
  <2>1. UNCHANGED <<start, recovery>>
    BY <1>8, WorkerFrames DEF apiVars
  <2>2. worker' \in WorkerPlaces
    BY DEF TypeOK
  <2>3. ASSUME worker' \in {"idle", "tail", "release"} PROVE FALSE
    <3>1. worker \in {"tail", "release"} /\ UNCHANGED <<status, job>>
      BY <1>8, <2>3, WorkerLetsGo
    <3>2. QED
      BY <2>1, <3>1 DEF NoOrphan, WorkerHasTask, Pending
  <2>4. QED
    BY <2>2, <2>3
<1>9. QED
  BY <1>1, <1>2, <1>4, <1>5, <1>6, <1>7, <1>8 DEF Next

\* A submitted task that is to be resumed has a job, a worker or a recovery
\* that is about to queue it, for any number of recoverers and cancellers and
\* over failures of the queue, of nodes and of the worker.
THEOREM NoTaskForgotten ==
    ASSUME HandedOver
    PROVE  Spec => []NoOrphan
<1>1. Init => TypeOK /\ InHand /\ NotSubmitted /\ LeaseHeldByRun /\ Submitting /\ NoOrphan
  BY InitType DEF Init, NotSubmitted, LeaseHeldByRun, Submitting, NoOrphan, IdleRecovery
<1>2. TypeOK /\ InHand /\ NotSubmitted /\ LeaseHeldByRun /\ Submitting /\ NoOrphan /\ [Next]_vars
        => TypeOK' /\ InHand' /\ NotSubmitted' /\ LeaseHeldByRun' /\ Submitting' /\ NoOrphan'
  BY HandedOver, TypeKept, InHandKept, NotSubmittedKept, LeaseKept, SubmittingKept, OrphanKept
<1>3. QED
  BY <1>1, <1>2, PTL DEF Spec

-----------------------------------------------------------------------------
(* The retry budget.  prepare_manual_recovery and record_manual_recovery   *)
(* read and write in separate transactions, so that two recoveries at once *)
(* can both pass the check; one at a time cannot, whatever fails meanwhile.*)

OneRecoverer == \A r, q \in Recoverers : r = q

Had(c) == \E i \in DOMAIN recoveries : recoveries[i] = c

\* Every failure on record was counted, a second time after its recovery.
FailuresCounted ==
    /\ \A c \in Categories : Had(c) => retry_counts[c] >= 1
    /\ status \in Failed =>
         /\ retry_counts[Category(status)] >= 1
         /\ Had(Category(status)) => retry_counts[Category(status)] >= 2

\* A recovery that passed the check is the first of its category.
CheckedIsFirst ==
    \A r \in Recoverers :
        recovery[r].place = "write" =>
            ~Had(recovery[r].category) /\ retry_counts[recovery[r].category] >= 1

RecoveredOnce ==
    \A i, j \in DOMAIN recoveries : recoveries[i] = recoveries[j] => i = j

\* What a step may do to the status and its counters.
CountsFailures ==
    \/ retry_counts' = retry_counts /\ (status' = status \/ status' \notin Failed)
    \/ /\ status' \in Failed
       /\ retry_counts' = [retry_counts EXCEPT ![Category(status')] = @ + 1]

\* update_task counts a failure exactly when the status becomes that failure.
LEMMA UpdateCounts ==
    ASSUME NEW s, NEW cps, UpdateTask(s, cps)
    PROVE  CountsFailures
BY DEF UpdateTask, CountRetry, CountsFailures

\* A step that leaves the row alone counts nothing.
LEMMA RowCountsNothing ==
    ASSUME UNCHANGED rowVars
    PROVE  CountsFailures
BY DEF rowVars, CountsFailures

\* No step changes the status or the counters in any other way.
LEMMA StepCounts ==
    ASSUME [Next]_vars
    PROVE  CountsFailures
<1> USE UpdateCounts, RowCountsNothing DEF Update
<1>1. CASE UNCHANGED vars
  BY <1>1 DEF vars
<1>2. CASE Start
  <2>1. CASE StartCreate
    BY <2>1 DEF StartCreate, CountsFailures, Failed
  <2>2. QED
    BY <1>2, <2>1 DEF Start, StartReceive, StartEnqueue, StartEnqueueFails, StartRecordsFailure
<1>3. ASSUME NEW c \in Cancellers, CancelRead(c) \/ CancelGoesOn(c)
      PROVE  CountsFailures
  BY <1>3 DEF CancelRead, CancelGoesOn, CancelWrite, CancelCheck, CancelFinalize
<1>4. ASSUME NEW r \in Recoverers, RecoverPrepare(r) \/ RecoverGoesOn(r)
      PROVE  CountsFailures
  BY <1>4 DEF RecoverPrepare, RecoverGoesOn, RecoverCheck, RecoverWrite, RecoverEnqueue,
     RecoverEnqueueFails, RecoverRecordsFailure, RecoverRefused
<1>5. CASE ApiCrash \/ WorkerCrash
  BY <1>5 DEF ApiCrash, WorkerCrash
<1>6. CASE WorkerBoot
  BY <1>6 DEF WorkerBoot, Boot, BootCancel, BootRecover, BootWithoutUpload, BootRefused,
     BootEnqueue, BootEnqueueFails
<1>7. CASE WorkerJob
  BY <1>7 DEF WorkerJob, TakeJob, ReadJob, Acquire, ReadAfterJobFailed, RecordJobFailed, JobHandlerRaises
<1>8. CASE Node
  BY <1>8 DEF Node, Snapshot, ControlExecute, NodeRefuses, PublishProgress, Bootstrap,
     CompleteNode, ClassifyEnds, StructureEnds, RetrieveEnds, AggregateEnds, NodeEnds,
     Aggregate, Conclude, ControlEnds
<1>9. CASE RunEnds
  BY <1>9 DEF RunEnds, NodeCancelled, NodeTimesOut, ParseFails, RunRaises, TimeoutReads,
     TimeoutRecords, UnexpectedReads, Record, RunCancelled, HandlerRaises, Release,
     ReleaseSkipped
<1>10. QED
  BY <1>1, <1>2, <1>3, <1>4, <1>5, <1>6, <1>7, <1>8, <1>9 DEF Next, Worker

\* Counters only grow.
LEMMA CountersGrow ==
    ASSUME TypeOK, CountsFailures, NEW c \in Categories
    PROVE  retry_counts'[c] >= retry_counts[c]
<1>1. retry_counts \in [Categories -> Nat]
  BY DEF TypeOK, RowTypeOK
<1>2. CASE retry_counts' = retry_counts
  BY <1>1, <1>2
<1>3. CASE /\ status' \in Failed
           /\ retry_counts' = [retry_counts EXCEPT ![Category(status')] = @ + 1]
  <2>1. Category(status') \in Categories
    BY <1>3, CategoryType
  <2>2. QED
    BY <1>1, <1>3, <2>1
<1>4. QED
  BY <1>2, <1>3 DEF CountsFailures

\* Without a new recovery, what is counted stays counted.
LEMMA FailuresStayCounted ==
    ASSUME TypeOK, TypeOK', FailuresCounted, CountsFailures, UNCHANGED recoveries
    PROVE  FailuresCounted'
<1>1. /\ \A c : Had(c)' <=> Had(c)
      /\ Had(Category(status))' <=> Had(Category(status'))
  BY DEF Had
<1>2. retry_counts \in [Categories -> Nat] /\ retry_counts' \in [Categories -> Nat]
  BY DEF TypeOK, RowTypeOK
<1>3. \A c \in Categories : Had(c)' => retry_counts'[c] >= 1
  BY <1>1, <1>2, CountersGrow DEF FailuresCounted
<1>4. ASSUME status' \in Failed
      PROVE  /\ retry_counts'[Category(status')] >= 1
             /\ Had(Category(status))' => retry_counts'[Category(status')] >= 2
  <2>1. Category(status') \in Categories
    BY <1>4, CategoryType
  <2>2. CASE retry_counts' = retry_counts /\ status' = status
    BY <1>1, <1>4, <2>2 DEF FailuresCounted
  <2>3. CASE retry_counts' = [retry_counts EXCEPT ![Category(status')] = @ + 1]
    <3>1. retry_counts'[Category(status')] = retry_counts[Category(status')] + 1
      BY <1>2, <2>1, <2>3
    <3>2. retry_counts[Category(status')] \in Nat
      BY <1>2, <2>1
    <3>3. Had(Category(status))' => retry_counts[Category(status')] >= 1
      BY <1>1, <2>1 DEF FailuresCounted
    <3>4. QED
      BY <3>1, <3>2, <3>3
  <2>4. QED
    BY <1>4, <2>2, <2>3 DEF CountsFailures
<1>5. QED
  BY <1>3, <1>4 DEF FailuresCounted

\* Only record_manual_recovery's write accepts a recovery.
LEMMA WhoRecovers ==
    ASSUME [Next]_vars
    PROVE  UNCHANGED recoveries \/ \E r \in Recoverers : RecoverWrite(r)
<1> USE DEF apiVars
<1>1. CASE UNCHANGED vars
  BY <1>1 DEF vars
<1>2. CASE Start
  BY <1>2 DEF Start, StartCreate, StartReceive, StartEnqueue, StartEnqueueFails,
     StartRecordsFailure
<1>3. ASSUME NEW c \in Cancellers, CancelRead(c) \/ CancelGoesOn(c)
      PROVE  UNCHANGED recoveries
  BY <1>3 DEF CancelRead, CancelGoesOn, CancelWrite, CancelCheck, CancelFinalize, CancelFrame
<1>4. ASSUME NEW r \in Recoverers, RecoverPrepare(r) \/ RecoverGoesOn(r)
      PROVE  UNCHANGED recoveries \/ RecoverWrite(r)
  BY <1>4 DEF RecoverPrepare, RecoverGoesOn, RecoverCheck, RecoverEnqueue,
     RecoverEnqueueFails, RecoverRecordsFailure, RecoverRefused
<1>5. CASE ApiCrash \/ Worker \/ WorkerCrash
  BY <1>5, WorkerFrames DEF ApiCrash
<1>6. QED
  BY <1>1, <1>2, <1>3, <1>4, <1>5 DEF Next

\* A recovery is about to write only if it just was, or if it now passed the
\* check.
LEMMA WhoPassesTheCheck ==
    ASSUME TypeOK, [Next]_vars, NEW r \in Recoverers, recovery'[r].place = "write"
    PROVE  recovery'[r] = recovery[r] \/ RecoverCheck(r)
<1>0. /\ recovery \in [Recoverers -> RecoveryStates]
      /\ IdleRecovery.place = "idle"
  BY DEF TypeOK, IdleRecovery
<1>1. CASE UNCHANGED recovery
  BY <1>1
<1>2. CASE UNCHANGED vars \/ Start \/ Worker \/ WorkerCrash
  BY <1>1, <1>2, WorkerFrames
  DEF vars, apiVars, Start, StartCreate, StartReceive, StartEnqueue, StartEnqueueFails,
      StartRecordsFailure
<1>3. ASSUME NEW c \in Cancellers, CancelRead(c) \/ CancelGoesOn(c)
      PROVE  UNCHANGED recovery
  BY <1>3 DEF CancelRead, CancelGoesOn, CancelWrite, CancelCheck, CancelFinalize, CancelFrame
<1>4. ASSUME NEW q \in Recoverers, RecoverPrepare(q) \/ RecoverGoesOn(q), q # r
      PROVE  recovery'[r] = recovery[r]
  BY <1>0, <1>4 DEF RecoverPrepare, RecoverGoesOn, RecoverCheck, RecoverWrite, RecoverEnqueue,
     RecoverEnqueueFails, RecoverRecordsFailure, RecoverRefused, Leaves
<1>5. CASE RecoverPrepare(r) \/ RecoverGoesOn(r)
  <2>1. recovery[r] \in RecoveryStates
    BY <1>0
  <2>2. CASE RecoverPrepare(r)
    BY <1>0, <2>1, <2>2 DEF RecoverPrepare, RecoveryStates
  <2>3. CASE RecoverWrite(r)
    BY <1>0, <2>1, <2>3 DEF RecoverWrite, RecoveryStates
  <2>4. CASE RecoverEnqueueFails(r)
    BY <1>0, <2>1, <2>4 DEF RecoverEnqueueFails, RecoveryStates
  <2>5. CASE RecoverEnqueue(r) \/ RecoverRecordsFailure(r) \/ RecoverRefused(r)
    BY <1>0, <2>5 DEF RecoverEnqueue, RecoverRecordsFailure, RecoverRefused, Leaves
  <2>6. QED
    BY <1>5, <2>2, <2>3, <2>4, <2>5 DEF RecoverGoesOn
<1>6. CASE ApiCrash
  BY <1>0, <1>6 DEF ApiCrash
<1>7. QED
  BY <1>1, <1>2, <1>3, <1>4, <1>5, <1>6 DEF Next

BudgetInv == FailuresCounted /\ CheckedIsFirst /\ RecoveredOnce

\* Every step keeps the budget invariant.
LEMMA BudgetKept ==
    ASSUME OneRecoverer, TypeOK, TypeOK', BudgetInv, [Next]_vars
    PROVE  BudgetInv'
<1>0. /\ CountsFailures
      /\ recoveries \in Seq(Categories)
      /\ retry_counts \in [Categories -> Nat]
      /\ retry_counts' \in [Categories -> Nat]
      /\ recovery \in [Recoverers -> RecoveryStates]
  BY StepCounts DEF TypeOK, RowTypeOK
<1>1. CASE UNCHANGED recoveries
  <2>1. FailuresCounted'
    BY <1>0, <1>1, FailuresStayCounted DEF BudgetInv
  <2>2. RecoveredOnce'
    BY <1>1 DEF BudgetInv, RecoveredOnce
  <2>3. ASSUME NEW r \in Recoverers, recovery'[r].place = "write"
        PROVE  /\ ~Had(recovery[r].category)'
               /\ retry_counts'[recovery'[r].category] >= 1
    <3>1. CASE recovery'[r] = recovery[r]
      <4>1. recovery[r].category \in Categories
        BY <1>0 DEF RecoveryStates
      <4>2. ~Had(recovery[r].category) /\ retry_counts[recovery[r].category] >= 1
        BY <2>3, <3>1 DEF BudgetInv, CheckedIsFirst
      <4>3. retry_counts'[recovery[r].category] >= 1
        BY <1>0, <4>1, <4>2, CountersGrow
      <4>4. QED
        BY <1>1, <3>1, <4>2, <4>3 DEF Had
    <3>2. CASE RecoverCheck(r)
      <4>1. /\ WithinBudget(status)
            /\ recovery'[r].category = Category(status)
            /\ UNCHANGED retry_counts
        BY <1>0, <2>3, <3>2 DEF RecoverCheck, Leaves, IdleRecovery, RecoveryStates, rowVars
      <4>2. /\ retry_counts[Category(status)] >= 1
            /\ ~Had(Category(status))
        BY <1>0, <4>1, CategoryType DEF WithinBudget, RetryLimit, BudgetInv, FailuresCounted
      <4>3. QED
        BY <1>1, <4>1, <4>2 DEF Had
    <3>3. QED
      BY <2>3, <3>1, <3>2, WhoPassesTheCheck
  <2>4. QED
    BY <2>1, <2>2, <2>3 DEF BudgetInv, CheckedIsFirst
<1>2. ASSUME NEW r \in Recoverers, RecoverWrite(r)
      PROVE  BudgetInv'
  <2> DEFINE c == recovery[r].category
  <2>1. /\ c \in Categories
        /\ ~Had(c)
        /\ retry_counts[c] >= 1
        /\ recoveries' = Append(recoveries, c)
        /\ recovery'[r].place = "enqueue"
        /\ status' \in Recoverable
    BY <1>0, <1>2 DEF RecoverWrite, UpdateTask, RecoveryStates, BudgetInv, CheckedIsFirst
  <2>2. /\ DOMAIN recoveries' = 1..(Len(recoveries) + 1)
        /\ \A i \in 1..Len(recoveries) : recoveries'[i] = recoveries[i]
        /\ recoveries'[Len(recoveries) + 1] = c
        /\ DOMAIN recoveries = 1..Len(recoveries)
        /\ Len(recoveries) \in Nat
    BY <1>0, <2>1
  <2>3. RecoveredOnce'
    BY <2>1, <2>2 DEF BudgetInv, RecoveredOnce, Had
  <2>4. CheckedIsFirst'
    BY <2>1 DEF CheckedIsFirst, OneRecoverer
  <2>5. \A d : Had(d)' <=> Had(d) \/ d = c
    BY <2>2 DEF Had
  <2>6. \A d \in Categories : Had(d)' => retry_counts'[d] >= 1
    BY <1>0, <2>1, <2>5, CountersGrow DEF BudgetInv, FailuresCounted
  <2>7. FailuresCounted'
    BY <2>1, <2>6 DEF FailuresCounted, Recoverable, Failed
  <2>8. QED
    BY <2>3, <2>4, <2>7 DEF BudgetInv
<1>3. QED
  BY <1>1, <1>2, WhoRecovers

\* One manual recovery at a time stays within ERROR_RETRY_LIMITS, over every
\* failure and fault; finding 2 is what two at a time can do.
THEOREM RecoveriesWithinBudget ==
    ASSUME OneRecoverer
    PROVE  Spec => []RetryBudget
<1>1. Init => TypeOK /\ InHand /\ BudgetInv
  <2>1. Init => BudgetInv
    BY DEF Init, BudgetInv, FailuresCounted, CheckedIsFirst, RecoveredOnce, Had, IdleRecovery,
       NoTask, Failed
  <2>2. QED
    BY <2>1, InitType
<1>2. TypeOK /\ InHand /\ BudgetInv /\ [Next]_vars => TypeOK' /\ InHand' /\ BudgetInv'
  BY OneRecoverer, TypeKept, InHandKept, BudgetKept
<1>3. TypeOK /\ BudgetInv => RetryBudget
  <2> SUFFICES ASSUME TypeOK, BudgetInv, NEW c \in Categories
               PROVE  Cardinality({i \in DOMAIN recoveries : recoveries[i] = c}) < RetryLimit
    BY DEF RetryBudget
  <2> DEFINE S == {i \in DOMAIN recoveries : recoveries[i] = c}
  <2>1. S = {} \/ \E i : S = {i}
    BY DEF BudgetInv, RecoveredOnce
  <2>2. CASE S = {}
    BY <2>2, FS_EmptySet DEF RetryLimit
  <2>3. CASE \E i : S = {i}
    <3>1. PICK i : S = {i}
      BY <2>3
    <3>2. Cardinality({i}) = 1
      BY FS_Singleton
    <3>3. Cardinality(S) = 1
      BY <3>1, <3>2
    <3>4. QED
      BY <3>3 DEF RetryLimit
  <2>4. QED
    BY <2>1, <2>2, <2>3
<1>4. QED
  BY <1>1, <1>2, <1>3, PTL DEF Spec

-----------------------------------------------------------------------------
(* Completed reviews.  While the worker's thread has a task in hand that it *)
(* may set to a stage of the run, nobody else concludes it, and a recovery  *)
(* that passed its check finds the failure it checked.  Two things break    *)
(* this: a second recovery, and the handler of a failed enqueue, which      *)
(* writes TASK_ERROR beside a run that is under way.                        *)

QueueAnswers == "enqueue" \notin FaultKinds

Settled == Terminal \ Cancelling

\* Where the worker may still write a stage, or a conclusion that is no failure.
Deciding ==
    \/ worker \in {"boot_recover", "acquire", "snapshot", "control", "graph", "conclude",
                   "timeout", "timeout_record"}
    \/ worker = "record" /\ run_status = "NEED_MANUAL_REVIEW"

DecidesOpenTask == Deciding => status \notin Settled

\* A recovery that passed the check still finds the failure, or a cancellation.
ChecksFailure ==
    \A r \in Recoverers : recovery[r].place = "write" => status \in Failed \cup Cancelling

\* Recovery begins after the submission, and neither fails to enqueue.
EnqueueSucceeds ==
    /\ start # "enqueue_failed"
    /\ \A r \in Recoverers : recovery[r].place # "record"
    /\ start # "done" => \A r \in Recoverers : recovery[r].place = "idle"

OpenInv == DecidesOpenTask /\ ChecksFailure /\ EnqueueSucceeds

\* How the statuses divide.
LEMMA StatusKinds ==
    /\ Recoverable \cap Settled = {}
    /\ Cancelling \cap Settled = {}
    /\ NoTask \notin Settled
    /\ Failed \subseteq Settled
    /\ Completed \subseteq Settled
    /\ Failed \cap Completed = {}
    /\ Cancelling \cap Completed = {}
    /\ {"CANCEL_REQUESTED", "CANCELLED"} \subseteq Cancelling
    /\ {"TASK_ERROR", "NODE_TIMEOUT", "PARSE_FAILED"} \subseteq Failed
    /\ {"START", "UPLOAD_RECEIVED", "RISK_ANALYZED"} \subseteq Recoverable
    /\ "NEED_MANUAL_REVIEW" \notin Failed
BY DEF Recoverable, Settled, Terminal, Completed, Failed, Cancelling, NoTask

\* Once the worker no longer decides, it only records failures and
\* cancellations.
LEMMA UndecidedWorker ==
    ASSUME InHand, Worker \/ WorkerCrash, ~Deciding
    PROVE  UNCHANGED status \/ status' \in Failed \cup Cancelling
<1> USE StatusKinds DEF Deciding, rowVars, Update, UpdateTask
<1>1. CASE WorkerCrash
  BY <1>1 DEF WorkerCrash
<1>2. CASE WorkerBoot
  BY <1>2 DEF WorkerBoot, Boot, BootCancel, BootRecover, BootWithoutUpload, BootRefused,
     BootEnqueue, BootEnqueueFails
<1>3. CASE WorkerJob
  BY <1>3 DEF WorkerJob, TakeJob, ReadJob, Acquire, ReadAfterJobFailed, RecordJobFailed, JobHandlerRaises
<1>4. CASE Node
  BY <1>4 DEF Node, Snapshot, ControlExecute, NodeRefuses, PublishProgress, Bootstrap,
     CompleteNode, ClassifyEnds, StructureEnds, RetrieveEnds, AggregateEnds, NodeEnds,
     Aggregate, Conclude, ControlEnds
<1>5. CASE RunEnds
  BY <1>5 DEF RunEnds, NodeCancelled, NodeTimesOut, ParseFails, RunRaises, TimeoutReads,
     TimeoutRecords, UnexpectedReads, Record, RunCancelled, HandlerRaises, Release,
     ReleaseSkipped, InHand
<1>6. QED
  BY <1>1, <1>2, <1>3, <1>4, <1>5 DEF Worker

\* The worker takes up a task that is open and keeps it open until it concludes.
LEMMA WorkerDecidesOpenTask ==
    ASSUME TypeOK, InHand, DecidesOpenTask, Worker \/ WorkerCrash
    PROVE  DecidesOpenTask'
<1> USE StatusKinds DEF DecidesOpenTask, Deciding, rowVars, workerVars, Goes
<1>1. CASE WorkerCrash
  BY <1>1 DEF WorkerCrash
<1>2. CASE WorkerBoot
  BY <1>2 DEF WorkerBoot, Boot, BootCancel, BootRecover, BootWithoutUpload, BootRefused,
     BootEnqueue, BootEnqueueFails, Settled
<1>3. CASE WorkerJob
  BY <1>3 DEF WorkerJob, TakeJob, ReadJob, Acquire, ReadAfterJobFailed, RecordJobFailed, JobHandlerRaises, Settled
<1>4. CASE Node
  <2> USE DEF Update, UpdateTask
  <2>1. CASE CompleteNode
    BY <2>1, NextStageType DEF CompleteNode
  <2>2. CASE ClassifyEnds \/ StructureEnds \/ RetrieveEnds \/ AggregateEnds
    BY <2>2 DEF ClassifyEnds, StructureEnds, RetrieveEnds, AggregateEnds, NodeEnds
  <2>3. QED
    BY <1>4, <2>1, <2>2 DEF Node, Snapshot, ControlExecute, NodeRefuses, PublishProgress,
       Bootstrap, Aggregate, Conclude, ControlEnds
<1>5. CASE RunEnds
  BY <1>5 DEF RunEnds, NodeCancelled, NodeTimesOut, ParseFails, RunRaises, TimeoutReads,
     TimeoutRecords, UnexpectedReads, FailureStatuses, Record, RunCancelled, HandlerRaises,
     Release, ReleaseSkipped
<1>6. QED
  BY <1>1, <1>2, <1>3, <1>4, <1>5 DEF Worker

\* While the queue answers, no request reaches the handler of a failed enqueue.
LEMMA EnqueueSucceedsKept ==
    ASSUME QueueAnswers, TypeOK, EnqueueSucceeds, [Next]_vars
    PROVE  EnqueueSucceeds'
<1>0. /\ recovery \in [Recoverers -> RecoveryStates]
      /\ IdleRecovery.place = "idle"
  BY DEF TypeOK, IdleRecovery
<1>1. CASE UNCHANGED <<start, recovery>>
  BY <1>1 DEF EnqueueSucceeds
<1>2. CASE UNCHANGED vars \/ Worker \/ WorkerCrash
  BY <1>1, <1>2, WorkerFrames DEF vars, apiVars
<1>3. ASSUME NEW c \in Cancellers, CancelRead(c) \/ CancelGoesOn(c)
      PROVE  EnqueueSucceeds'
  BY <1>1, <1>3 DEF CancelRead, CancelGoesOn, CancelWrite, CancelCheck, CancelFinalize,
     CancelFrame
<1>4. CASE Start
  BY <1>4 DEF Start, StartCreate, StartReceive, StartEnqueue, StartEnqueueFails,
     StartRecordsFailure, EnqueueSucceeds, QueueAnswers, Fault
<1>5. CASE ApiCrash
  BY <1>0, <1>5 DEF ApiCrash, EnqueueSucceeds
<1>6. ASSUME NEW r \in Recoverers, RecoverPrepare(r) \/ RecoverGoesOn(r)
      PROVE  EnqueueSucceeds'
  <2>1. start = "done" /\ start' = "done"
    BY <1>6 DEF RecoverPrepare, RecoverGoesOn, RecoverCheck, RecoverWrite, RecoverEnqueue,
       RecoverEnqueueFails, RecoverRecordsFailure, RecoverRefused, RecoverFrame, EnqueueSucceeds
  <2>2. \A q \in Recoverers : recovery'[q] = recovery[q] \/ recovery'[q].place # "record"
    <3>1. ~RecoverEnqueueFails(r)
      BY DEF RecoverEnqueueFails, QueueAnswers, Fault
    <3>2. CASE RecoverPrepare(r)
      BY <1>0, <3>2 DEF RecoverPrepare, RecoveryStates
    <3>3. CASE RecoverCheck(r)
      BY <1>0, <3>3 DEF RecoverCheck, Leaves, RecoveryStates
    <3>4. CASE RecoverWrite(r)
      BY <1>0, <3>4 DEF RecoverWrite, RecoveryStates
    <3>5. CASE RecoverEnqueue(r) \/ RecoverRecordsFailure(r) \/ RecoverRefused(r)
      BY <1>0, <3>5 DEF RecoverEnqueue, RecoverRecordsFailure, RecoverRefused, Leaves
    <3>6. QED
      BY <1>6, <3>1, <3>2, <3>3, <3>4, <3>5 DEF RecoverGoesOn
  <2>3. QED
    BY <2>1, <2>2 DEF EnqueueSucceeds
<1>7. QED
  BY <1>2, <1>3, <1>4, <1>5, <1>6 DEF Next

\* Every step keeps open what the worker decides and a recovery checked.
LEMMA OpenKept ==
    ASSUME OneRecoverer, QueueAnswers, TypeOK, InHand, NotSubmitted, OpenInv, [Next]_vars
    PROVE  OpenInv'
<1>0. /\ EnqueueSucceeds /\ EnqueueSucceeds' /\ DecidesOpenTask /\ ChecksFailure
      /\ status \in Cancelling => status' \in Cancelling
  <2>1. status \in Cancelling => status' \in Cancelling
    BY CancellationKept DEF StaysCancelled, vars, rowVars
  <2>2. QED
    BY <2>1, EnqueueSucceedsKept DEF OpenInv
<1>1. DecidesOpenTask'
  <2>1. CASE UNCHANGED vars
    BY <1>0, <2>1 DEF vars, workerVars, rowVars, DecidesOpenTask, Deciding
  <2>2. ASSUME UNCHANGED workerVars, UNCHANGED status \/ status' \notin Settled
        PROVE  DecidesOpenTask'
    BY <1>0, <2>2 DEF DecidesOpenTask, Deciding, workerVars
  <2> USE StatusKinds DEF rowVars, Update, UpdateTask
  <2>3. CASE Start
    BY <1>0, <2>2, <2>3 DEF Start, StartCreate, StartReceive, StartEnqueue, StartEnqueueFails,
       StartRecordsFailure, EnqueueSucceeds
  <2>4. ASSUME NEW c \in Cancellers, CancelRead(c) \/ CancelGoesOn(c)
        PROVE  DecidesOpenTask'
    BY <2>2, <2>4 DEF CancelRead, CancelGoesOn, CancelWrite, CancelCheck, CancelFinalize,
       CancelFrame
  <2>5. ASSUME NEW r \in Recoverers, RecoverPrepare(r) \/ RecoverGoesOn(r)
        PROVE  DecidesOpenTask'
    <3>1. recovery[r].resume \in Recoverable
      BY DEF TypeOK, RecoveryStates
    <3>2. ~RecoverRecordsFailure(r)
      BY <1>0 DEF RecoverRecordsFailure, EnqueueSucceeds
    <3>3. QED
      BY <2>2, <2>5, <3>1, <3>2 DEF RecoverPrepare, RecoverGoesOn, RecoverCheck, RecoverWrite,
         RecoverEnqueue, RecoverEnqueueFails, RecoverRefused, RecoverFrame
  <2>6. CASE ApiCrash
    BY <2>2, <2>6 DEF ApiCrash
  <2>7. CASE Worker \/ WorkerCrash
    BY <1>0, <2>7, WorkerDecidesOpenTask
  <2>8. QED
    BY <2>1, <2>3, <2>4, <2>5, <2>6, <2>7 DEF Next
<1>2. ChecksFailure'
  <2> SUFFICES ASSUME NEW r \in Recoverers, recovery'[r].place = "write"
               PROVE  status' \in Failed \cup Cancelling
    BY DEF ChecksFailure
  <2>1. CASE RecoverCheck(r)
    <3>1. status \in Failed /\ UNCHANGED status
      BY <2>1 DEF RecoverCheck, WithinBudget, Leaves, IdleRecovery, rowVars, TypeOK
    <3>2. QED
      BY <3>1
  <2>2. CASE recovery'[r] = recovery[r]
    <3>1. status \in Failed \cup Cancelling /\ start = "done"
      BY <1>0, <2>2 DEF ChecksFailure, EnqueueSucceeds
    <3>2. SUFFICES ASSUME status \in Failed PROVE status' \in Failed \cup Cancelling
      BY <1>0, <3>1
    <3> USE StatusKinds DEF rowVars, Update, UpdateTask
    <3>3. CASE UNCHANGED vars \/ Start \/ ApiCrash
      BY <3>1, <3>2, <3>3 DEF vars, ApiCrash, Start, StartCreate, StartReceive, StartEnqueue,
         StartEnqueueFails, StartRecordsFailure
    <3>4. ASSUME NEW c \in Cancellers, CancelRead(c) \/ CancelGoesOn(c)
          PROVE  status' \in Failed \cup Cancelling
      BY <3>2, <3>4 DEF CancelRead, CancelGoesOn, CancelWrite, CancelCheck, CancelFinalize
    <3>5. ASSUME NEW q \in Recoverers, RecoverPrepare(q) \/ RecoverGoesOn(q)
          PROVE  status' \in Failed \cup Cancelling
      <4>1. q = r /\ recovery[q].place = "write" /\ recovery'[q].place = "write"
        BY <2>2 DEF OneRecoverer
      <4>2. QED
        BY <3>2, <3>5, <4>1 DEF RecoverPrepare, RecoverGoesOn, RecoverCheck, RecoverWrite,
           RecoverEnqueue, RecoverEnqueueFails, RecoverRecordsFailure, RecoverRefused, Leaves,
           IdleRecovery, TypeOK, RecoveryStates
    <3>6. CASE Worker \/ WorkerCrash
      BY <1>0, <3>2, <3>6, UndecidedWorker DEF DecidesOpenTask
    <3>7. QED
      BY <3>3, <3>4, <3>5, <3>6 DEF Next
  <2>3. QED
    BY <2>1, <2>2, WhoPassesTheCheck
<1>3. QED
  BY <1>0, <1>1, <1>2 DEF OpenInv

\* A completed review is never set back to a stage of the run, for any number
\* of cancellers and over every fault but one of the queue.
THEOREM CompletedStaysCompleted ==
    ASSUME OneRecoverer, QueueAnswers
    PROVE  Spec => CompletedNotReopened
<1>1. Init => TypeOK /\ InHand /\ NotSubmitted /\ OpenInv
  <2>1. Init => OpenInv
    BY StatusKinds DEF Init, OpenInv, DecidesOpenTask, Deciding, ChecksFailure, EnqueueSucceeds,
       IdleRecovery
  <2>2. Init => NotSubmitted
    BY DEF Init, NotSubmitted, IdleRecovery
  <2>3. QED
    BY <2>1, <2>2, InitType
<1>2. TypeOK /\ InHand /\ NotSubmitted /\ OpenInv /\ [Next]_vars
        => TypeOK' /\ InHand' /\ NotSubmitted' /\ OpenInv'
  BY OneRecoverer, QueueAnswers, TypeKept, InHandKept, NotSubmittedKept, OpenKept
<1>3. ASSUME TypeOK, InHand, OpenInv, Next, start = "done", status \in Completed
      PROVE  status' \notin Recoverable
  <2> USE StatusKinds DEF rowVars, Update, UpdateTask
  <2>1. UNCHANGED status => status' \notin Recoverable
    BY <1>3
  <2>2. CASE Start \/ ApiCrash
    BY <1>3, <2>1, <2>2 DEF ApiCrash, Start, StartCreate, StartReceive, StartEnqueue,
       StartEnqueueFails, StartRecordsFailure
  <2>3. ASSUME NEW c \in Cancellers, CancelRead(c) \/ CancelGoesOn(c)
        PROVE  status' \notin Recoverable
    BY <2>1, <2>3, RestLiterals
    DEF CancelRead, CancelGoesOn, CancelWrite, CancelCheck, CancelFinalize
  <2>4. ASSUME NEW r \in Recoverers, RecoverPrepare(r) \/ RecoverGoesOn(r)
        PROVE  status' \notin Recoverable
    <3>1. ~RecoverWrite(r)
      BY <1>3 DEF RecoverWrite, OpenInv, ChecksFailure
    <3>2. QED
      BY <2>1, <2>4, <3>1, RestLiterals
      DEF RecoverPrepare, RecoverGoesOn, RecoverCheck, RecoverEnqueue, RecoverEnqueueFails,
          RecoverRecordsFailure, RecoverRefused
  <2>5. CASE Worker \/ WorkerCrash
    <3>1. ~Deciding
      BY <1>3 DEF OpenInv, DecidesOpenTask
    <3>2. UNCHANGED status \/ status' \in Failed \cup Cancelling
      BY <1>3, <2>5, <3>1, UndecidedWorker
    <3>3. QED
      BY <2>1, <3>2, RecoverableIsLive DEF Settled
  <2>6. QED
    BY <1>3, <2>2, <2>3, <2>4, <2>5 DEF Next
<1>4. TypeOK /\ InHand /\ OpenInv /\ [Next]_vars
        => [(start = "done" /\ status \in Completed) => status' \notin Recoverable]_vars
  BY <1>3
<1>5. QED
  BY <1>1, <1>2, <1>4, PTL DEF Spec, CompletedNotReopened

=============================================================================
