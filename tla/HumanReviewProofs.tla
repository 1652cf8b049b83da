-------------------------- MODULE HumanReviewProofs --------------------------
(***************************************************************************)
(* What HumanReview keeps for any number of risks, reviewers, reporters,   *)
(* requests and faults.                                                    *)
(***************************************************************************)
EXTENDS HumanReview, TLAPS

ReviewerStates == [place : ReviewerPlaces, risk : Risks,
                   feedback : Decisions, copy : Versions]

ReporterStates == [place : {"idle", "lookup", "save", "write"},
                   status : ReviewStatuses, result : Reports]

Busy == Streaming \cup {"release"}

-----------------------------------------------------------------------------
(* Lemmas about the values the actions build.                               *)

\* A version nobody has reviewed is a version, and a moved reviewer keeps
\* its type.
LEMMA StartingValues ==
    /\ Undecided \in Decisions
    /\ NotReviewed \in Versions
    /\ NoReport \in Reports
    /\ AnyRisk \in Risks
    /\ IdleReporter \in ReporterStates
    /\ \A place \in ReviewerPlaces : At(place) \in ReviewerStates
<1>1. Undecided \in Decisions
  BY DEF Undecided, Decisions
<1>2. NotReviewed \in Versions
  BY <1>1 DEF NotReviewed, Versions
<1>3. NoReport \in Reports
  BY <1>2 DEF NoReport, Reports
<1>4. AnyRisk \in Risks
  BY ReviewAssumption DEF AnyRisk
<1>5. IdleReporter \in ReporterStates
  BY <1>3 DEF IdleReporter, ReporterStates, ReviewStatuses, Recoverable
<1>6. \A place \in ReviewerPlaces : At(place) \in ReviewerStates
  BY <1>1, <1>2, <1>4 DEF At, ReviewerStates
<1>. QED
  BY <1>1, <1>2, <1>3, <1>4, <1>5, <1>6

\* The statuses the actions write are statuses.
LEMMA WrittenStatuses ==
    {"HUMAN_REVIEW_PENDING", "EVIDENCE_VERIFIED", "MEMORY_UPDATED",
     "REPORT_READY", "TASK_ERROR", "START"} \subseteq ReviewStatuses
BY DEF ReviewStatuses, Recoverable, Terminal, Completed, Failed

\* Each place an action moves a reviewer to is one.
LEMMA Moves ==
    ASSUME TypeOK, NEW v \in Reviewers, NEW place \in ReviewerPlaces,
           MoveTo(v, place)
    PROVE  /\ reviewer' \in [Reviewers -> ReviewerStates]
           /\ reviewer'[v] = At(place)
           /\ \A w \in Reviewers \ {v} : reviewer'[w] = reviewer[w]
<1>1. At(place) \in ReviewerStates
  BY StartingValues
<1>2. reviewer \in [Reviewers -> ReviewerStates]
  BY DEF TypeOK, ReviewerStates
<1>. QED
  BY <1>1, <1>2 DEF MoveTo

-----------------------------------------------------------------------------
(* Types.                                                                   *)

\* A feedback in hand is one a human may give.
InHand == \A v \in Reviewers : reviewer[v].place \in {"memory", "write"} =>
              reviewer[v].feedback.action \in Actions

TypeInv == TypeOK /\ InHand

\* A reviewer that moves on has nothing in hand.
LEMMA MoveKeepsInHand ==
    ASSUME TypeInv, NEW v \in Reviewers,
           NEW place \in ReviewerPlaces \ {"memory", "write"}, MoveTo(v, place)
    PROVE  /\ reviewer' \in [Reviewers -> ReviewerStates]
           /\ InHand'
<1>1. At(place).place = place
  BY DEF At
<1>. QED
  BY <1>1, Moves DEF TypeInv, InHand

LEMMA InitType == Init => TypeInv
<1>. SUFFICES ASSUME Init PROVE TypeInv
  OBVIOUS
<1>1. "idle" \in ReviewerPlaces /\ At("idle").place = "idle"
  BY DEF ReviewerPlaces, At
<1>2. reviewer \in [Reviewers -> ReviewerStates] /\ InHand
  BY <1>1, StartingValues DEF Init, InHand
<1>. QED
  BY <1>2, StartingValues, WrittenStatuses
     DEF Init, TypeInv, TypeOK, ReviewerStates, ReporterStates, Tail

LEMMA FeedbackReadType ==
    ASSUME TypeInv, NEW v \in Reviewers, FeedbackRead(v)
    PROVE  TypeInv'
<1>1. clock' \in Nat
  BY DEF FeedbackRead, TypeInv, TypeOK
<1>2. PICK r \in Risks, a \in Actions :
        reviewer' = [reviewer EXCEPT ![v] =
            [place |-> "memory", risk |-> r,
             feedback |-> [action |-> a, at |-> clock'], copy |-> decision]]
  BY DEF FeedbackRead
<1>3. [place |-> "memory", risk |-> r, feedback |-> [action |-> a, at |-> clock'],
       copy |-> decision] \in ReviewerStates
  BY <1>1 DEF ReviewerStates, ReviewerPlaces, Decisions, TypeInv, TypeOK
<1>4. reviewer' \in [Reviewers -> ReviewerStates]
  BY <1>2, <1>3 DEF TypeInv, TypeOK, ReviewerStates
<1>5. InHand'
  BY <1>2 DEF TypeInv, TypeOK, InHand
<1>. QED
  BY <1>1, <1>4, <1>5 DEF FeedbackRead, NoFault, rowVars, TypeInv, TypeOK, ReviewerStates

\* The episode of a feedback in hand.
LEMMA EpisodeType ==
    ASSUME TypeInv, NEW v \in Reviewers, reviewer[v].place \in {"memory", "write"}
    PROVE  Episode(v) \in [risk : Risks, action : Actions]
BY DEF TypeInv, TypeOK, InHand, Episode

\* Applying a feedback to a version gives a version.
LEMMA AppliedType ==
    ASSUME TypeInv, NEW v \in Reviewers
    PROVE  Applied(v) \in Versions
BY DEF TypeInv, TypeOK, Applied, Versions

LEMMA FeedbackType ==
    ASSUME TypeInv, NEW v \in Reviewers, Feedback(v) \/ FeedbackFails(v)
    PROVE  TypeInv'
<1>1. CASE FeedbackRemember(v)
  <2>1. reviewer' \in [Reviewers -> ReviewerStates]
    BY <1>1 DEF FeedbackRemember, TypeInv, TypeOK, ReviewerStates, ReviewerPlaces
  <2>2. InHand'
    BY <1>1 DEF FeedbackRemember, TypeInv, TypeOK, InHand
  <2>. QED
    BY <1>1, <2>1, <2>2, EpisodeType
       DEF FeedbackRemember, NoFault, rowVars, reportVars, observed,
           TypeInv, TypeOK, ReviewerStates
<1>2. CASE FeedbackWrite(v)
  <2>1. reviewer' \in [Reviewers -> ReviewerStates] /\ InHand'
    BY <1>2, MoveKeepsInHand DEF FeedbackWrite, ReviewerPlaces
  <2>2. decision' \in Versions /\ status' \in ReviewStatuses
    BY <1>2, AppliedType, WrittenStatuses DEF FeedbackWrite
  <2>. QED
    BY <1>2, <2>1, <2>2
       DEF FeedbackWrite, NoFault, reportVars, TypeInv, TypeOK, ReviewerStates
<1>3. CASE FeedbackFails(v)
  <2>1. reviewer' \in [Reviewers -> ReviewerStates] /\ InHand'
    BY <1>3, MoveKeepsInHand DEF FeedbackFails, ReviewerPlaces
  <2>2. memory' \subseteq [risk : Risks, action : Actions]
    BY <1>3, EpisodeType DEF FeedbackFails, TypeInv, TypeOK
  <2>. QED
    BY <1>3, <2>1, <2>2
       DEF FeedbackFails, Fault, rowVars, reportVars, observed, TypeInv, TypeOK, ReviewerStates
<1>. QED
  BY <1>1, <1>2, <1>3 DEF Feedback

LEMMA ResumeType ==
    ASSUME TypeInv, NEW v \in Reviewers, Resume(v) \/ ResumeFails(v)
    PROVE  TypeInv'
<1>1. PICK place \in ReviewerPlaces \ {"memory", "write"} : MoveTo(v, place)
  BY DEF Resume, ResumeFails, ResumeCheck, ResumeAcquire, ResumeStart, ResumeReread,
         ResumeAgain, ResumePause, ResumeRelease, Returns, ReviewerPlaces, Streaming
<1>2. reviewer' \in [Reviewers -> ReviewerStates] /\ InHand'
  BY <1>1, MoveKeepsInHand
<1>3. /\ lease' \in Reviewers \cup {"none", "worker", "gone"}
      /\ owner' \in Reviewers \cup {"none"}
  BY DEF Resume, ResumeFails, ResumeCheck, ResumeAcquire, ResumeStart, ResumeReread,
         ResumeAgain, ResumePause, ResumeRelease, Returns, TypeInv, TypeOK
<1>4. bookmark' \in {"none", "paused"} /\ faults' \in Nat
  BY DEF Resume, ResumeFails, ResumeCheck, ResumeAcquire, ResumeStart, ResumeReread,
         ResumeAgain, ResumePause, ResumeRelease, Returns, Fault, NoFault, TypeInv, TypeOK
<1>5. UNCHANGED <<rowVars, memory, worker, reportVars, observed>>
  BY DEF Resume, ResumeFails, ResumeCheck, ResumeAcquire, ResumeStart, ResumeReread,
         ResumeAgain, ResumePause, ResumeRelease, Returns
<1>. QED
  BY <1>2, <1>3, <1>4, <1>5
     DEF rowVars, reportVars, observed, TypeInv, TypeOK, ReviewerStates

LEMMA RunType ==
    ASSUME TypeInv, Run \/ RunFails \/ WorkerCrash \/ WorkerBoot
    PROVE  TypeInv'
<1>1. worker' \in Tail \cup {"idle", "down"}
  BY DEF Run, RunPhase, RunAwait, RunPause, RunRecord, RunRelease, RunFails, WorkerCrash,
         WorkerBoot, Tail
<1>2. status' \in ReviewStatuses
  BY WrittenStatuses
     DEF Run, RunPhase, RunAwait, RunPause, RunRecord, RunRelease, RunFails, WorkerCrash,
         WorkerBoot, rowVars, TypeInv, TypeOK
<1>3. /\ lease' \in Reviewers \cup {"none", "worker", "gone"}
      /\ bookmark' \in {"none", "paused"}
      /\ faults' \in Nat
  BY DEF Run, RunPhase, RunAwait, RunPause, RunRecord, RunRelease, RunFails, WorkerCrash,
         WorkerBoot, Fault, NoFault, TypeInv, TypeOK
<1>4. UNCHANGED <<decision, memory, owner, reviewer, reportVars, observed>>
  BY DEF Run, RunPhase, RunAwait, RunPause, RunRecord, RunRelease, RunFails, WorkerCrash,
         WorkerBoot, rowVars
<1>. QED
  BY <1>1, <1>2, <1>3, <1>4 DEF reportVars, observed, TypeInv, TypeOK, InHand

LEMMA ApiCrashType ==
    ASSUME TypeInv, ApiCrash
    PROVE  TypeInv'
<1>1. "idle" \in ReviewerPlaces /\ At("idle").place = "idle"
  BY DEF ReviewerPlaces, At
<1>2. reviewer' \in [Reviewers -> ReviewerStates] /\ InHand'
  BY <1>1, StartingValues DEF ApiCrash, InHand
<1>. QED
  BY <1>2, StartingValues
     DEF ApiCrash, Fault, rowVars, observed, TypeInv, TypeOK, ReviewerStates, ReporterStates

LEMMA ReportType ==
    ASSUME TypeInv, NEW p \in Reporters, Report(p)
    PROVE  TypeInv'
<1>0. reporter \in [Reporters -> ReporterStates]
  BY DEF TypeInv, TypeOK, ReporterStates
<1>1. CASE ReportRead(p)
  <2>1. requests' \in Nat
    BY <1>1 DEF ReportRead, TypeInv, TypeOK
  <2>2. [version |-> decision, id |-> requests'] \in Reports
    BY <2>1 DEF Reports, TypeInv, TypeOK
  <2>3. reporter' \in [Reporters -> ReporterStates]
    BY <1>0, <1>1, <2>2 DEF ReportRead, ReporterStates, TypeInv, TypeOK
  <2>. QED
    BY <1>1, <2>1, <2>3
       DEF ReportRead, NoFault, reviewVars, observed, TypeInv, TypeOK, InHand, ReporterStates
<1>2. CASE ReportLookup(p)
  <2>1. reporter' \in [Reporters -> ReporterStates]
    BY <1>0, <1>2, StartingValues DEF ReportLookup, ReporterStates, TypeInv, TypeOK
  <2>. QED
    BY <1>2, <2>1
       DEF ReportLookup, NoFault, reviewVars, observed, TypeInv, TypeOK, InHand, ReporterStates
<1>3. CASE ReportSave(p)
  <2>1. results' \subseteq Reports
    BY <1>0, <1>3 DEF ReportSave, Inserted, ReporterStates, TypeInv, TypeOK
  <2>2. reporter' \in [Reporters -> ReporterStates]
    BY <1>0, <1>3, <2>1 DEF ReportSave, ReporterStates
  <2>. QED
    BY <1>3, <2>1, <2>2
       DEF ReportSave, NoFault, reviewVars, observed, TypeInv, TypeOK, InHand, ReporterStates
<1>4. CASE ReportWrite(p)
  <2>1. reporter' \in [Reporters -> ReporterStates]
    BY <1>0, <1>4, StartingValues DEF ReportWrite
  <2>2. report' \in Reports /\ delivered' \subseteq Reports
    BY <1>0, <1>4 DEF ReportWrite, ReporterStates, TypeInv, TypeOK
  <2>. QED
    BY <1>4, <2>1, <2>2, WrittenStatuses
       DEF ReportWrite, NoFault, reviewVars, observed, TypeInv, TypeOK, InHand, ReporterStates
<1>. QED
  BY <1>1, <1>2, <1>3, <1>4 DEF Report

\* TypeInv is an invariant, and serves the proofs below.
LEMMA TypeInvariant == Spec => []TypeInv
<1>1. TypeInv /\ [Next]_vars => TypeInv'
  <2>. SUFFICES ASSUME TypeInv, [Next]_vars PROVE TypeInv'
    OBVIOUS
  <2>1. CASE UNCHANGED vars
    BY <2>1 DEF vars, rowVars, TypeInv, TypeOK, InHand
  <2>2. CASE Next
    BY <2>2, FeedbackReadType, FeedbackType, ResumeType, RunType, ApiCrashType, ReportType
       DEF Next, Faulty
  <2>. QED
    BY <2>1, <2>2
<1>. QED
  BY <1>1, InitType, PTL DEF Spec

\* Every variable keeps its type, and what a request writes into the memory
\* store is something a human may decide.
THEOREM ReviewTypeCorrect == Spec => []TypeOK
<1>1. TypeInv => TypeOK
  BY DEF TypeInv
<1>. QED
  BY <1>1, TypeInvariant, PTL

-----------------------------------------------------------------------------
(* Decisions and what the memory store has of them.                         *)

Remembers(version) ==
    \A r \in Risks : version[r].action # "none" =>
        [risk |-> r, action |-> version[r].action] \in memory

\* A copy may be written back much later, so what it decides is remembered
\* as well, and what is about to be written is.
MemoryInv ==
    /\ Remembers(decision)
    /\ \A v \in Reviewers : /\ Remembers(reviewer[v].copy)
                            /\ reviewer[v].place = "write" => Episode(v) \in memory

\* Nothing is decided in a version nobody has reviewed.
LEMMA NothingToRemember == Remembers(NotReviewed)
BY DEF Remembers, NotReviewed, Undecided

\* A reviewer that moves on has no copy left that could be forgotten.
LEMMA MoveKeepsMemory ==
    ASSUME TypeInv, MemoryInv, NEW v \in Reviewers,
           NEW place \in ReviewerPlaces \ {"memory", "write"}, MoveTo(v, place),
           memory \subseteq memory', Remembers(decision)'
    PROVE  MemoryInv'
<1>1. At(place).copy = NotReviewed /\ At(place).place # "write"
  BY DEF At
<1>2. ASSUME NEW w \in Reviewers
      PROVE  /\ Remembers(reviewer[w].copy)'
             /\ reviewer'[w].place = "write" => Episode(w)' \in memory'
  <2>1. CASE w = v
    BY <1>1, <2>1, Moves DEF TypeInv, Remembers, NotReviewed, Undecided
  <2>2. CASE w # v
    <3>1. reviewer'[w] = reviewer[w]
      BY <2>2, Moves DEF TypeInv
    <3>. QED
      BY <3>1 DEF MemoryInv, Remembers, Episode
  <2>. QED
    BY <2>1, <2>2
<1>. QED
  BY <1>2 DEF MemoryInv

LEMMA FeedbackReadMemory ==
    ASSUME TypeInv, MemoryInv, NEW v \in Reviewers, FeedbackRead(v)
    PROVE  MemoryInv'
<1>1. UNCHANGED <<decision, memory>>
  BY DEF FeedbackRead, rowVars
<1>2. ASSUME NEW w \in Reviewers
      PROVE  /\ reviewer'[w].copy = decision \/ reviewer'[w] = reviewer[w]
             /\ reviewer'[w].place # "write" \/ reviewer'[w] = reviewer[w]
  BY DEF FeedbackRead, TypeInv, TypeOK
<1>3. ASSUME NEW w \in Reviewers
      PROVE  /\ Remembers(reviewer[w].copy)'
             /\ reviewer'[w].place = "write" => Episode(w)' \in memory'
  BY <1>1, <1>2 DEF MemoryInv, Remembers, Episode
<1>. QED
  BY <1>1, <1>3 DEF MemoryInv, Remembers

LEMMA FeedbackMemory ==
    ASSUME TypeInv, MemoryInv, NEW v \in Reviewers, Feedback(v) \/ FeedbackFails(v)
    PROVE  MemoryInv'
<1>1. CASE FeedbackRemember(v)
  <2>1. decision' = decision /\ memory' = memory \cup {Episode(v)}
    BY <1>1 DEF FeedbackRemember, rowVars
  <2>2. ASSUME NEW w \in Reviewers
        PROVE  /\ reviewer'[w].copy = reviewer[w].copy
               /\ Episode(w)' = Episode(w)
               /\ w # v => reviewer'[w] = reviewer[w]
    BY <1>1 DEF FeedbackRemember, TypeInv, TypeOK, Episode
  <2>3. ASSUME NEW w \in Reviewers
        PROVE  /\ Remembers(reviewer[w].copy)'
               /\ reviewer'[w].place = "write" => Episode(w)' \in memory'
    BY <2>1, <2>2 DEF MemoryInv, Remembers
  <2>. QED
    BY <2>1, <2>3 DEF MemoryInv, Remembers
<1>2. CASE FeedbackWrite(v)
  <2>1. memory' = memory /\ decision' = Applied(v) /\ reviewer[v].place = "write"
    BY <1>2 DEF FeedbackWrite
  <2>2. ASSUME NEW r \in Risks, decision'[r].action # "none"
        PROVE  [risk |-> r, action |-> decision'[r].action] \in memory
    <3>1. CASE r = reviewer[v].risk
      BY <2>1, <3>1 DEF Applied, MemoryInv, Episode, TypeInv, TypeOK, Versions
    <3>2. CASE r # reviewer[v].risk
      BY <2>1, <2>2, <3>2 DEF Applied, MemoryInv, Remembers, TypeInv, TypeOK, Versions
    <3>. QED
      BY <3>1, <3>2
  <2>3. Remembers(decision)'
    BY <2>1, <2>2 DEF Remembers
  <2>. QED
    BY <1>2, <2>1, <2>3, MoveKeepsMemory DEF FeedbackWrite, ReviewerPlaces
<1>3. CASE FeedbackFails(v)
  <2>1. decision' = decision /\ memory \subseteq memory'
    BY <1>3 DEF FeedbackFails, rowVars
  <2>2. Remembers(decision)'
    BY <2>1 DEF MemoryInv, Remembers
  <2>. QED
    BY <1>3, <2>1, <2>2, MoveKeepsMemory DEF FeedbackFails, ReviewerPlaces
<1>. QED
  BY <1>1, <1>2, <1>3 DEF Feedback

LEMMA ResumeMemory ==
    ASSUME TypeInv, MemoryInv, NEW v \in Reviewers, Resume(v) \/ ResumeFails(v)
    PROVE  MemoryInv'
<1>1. PICK place \in ReviewerPlaces \ {"memory", "write"} : MoveTo(v, place)
  BY DEF Resume, ResumeFails, ResumeCheck, ResumeAcquire, ResumeStart, ResumeReread,
         ResumeAgain, ResumePause, ResumeRelease, Returns, ReviewerPlaces, Streaming
<1>2. UNCHANGED <<decision, memory>>
  BY DEF Resume, ResumeFails, ResumeCheck, ResumeAcquire, ResumeStart, ResumeReread,
         ResumeAgain, ResumePause, ResumeRelease, rowVars
<1>3. Remembers(decision)'
  BY <1>2 DEF MemoryInv, Remembers
<1>. QED
  BY <1>1, <1>2, <1>3, MoveKeepsMemory

\* The other processes touch neither decisions nor the memory store.
LEMMA OthersMemory ==
    ASSUME MemoryInv, UNCHANGED <<decision, memory, reviewer>>
    PROVE  MemoryInv'
BY DEF MemoryInv, Remembers, Episode

LEMMA ApiCrashMemory ==
    ASSUME MemoryInv, ApiCrash
    PROVE  MemoryInv'
<1>1. /\ UNCHANGED <<decision, memory>>
      /\ \A v \in Reviewers : reviewer'[v].copy = NotReviewed /\ reviewer'[v].place # "write"
  BY DEF ApiCrash, rowVars, At
<1>. QED
  BY <1>1, NothingToRemember DEF MemoryInv, Remembers

\* No risk carries a decision that the memory store does not have, whatever
\* overlaps, fails or dies.
THEOREM DecisionsAreRemembered == Spec => []DecisionRemembered
<1>1. Init => MemoryInv
  BY NothingToRemember DEF Init, MemoryInv, At, Remembers
<1>2. TypeInv /\ MemoryInv /\ [Next]_vars => MemoryInv'
  <2>. SUFFICES ASSUME TypeInv, MemoryInv, [Next]_vars PROVE MemoryInv'
    OBVIOUS
  <2>1. CASE UNCHANGED vars
    BY <2>1, OthersMemory DEF vars, rowVars
  <2>2. ASSUME NEW p \in Reporters, Report(p) PROVE MemoryInv'
    BY <2>2, OthersMemory DEF Report, ReportRead, ReportLookup, ReportSave, ReportWrite, reviewVars
  <2>3. CASE Run \/ RunFails \/ WorkerCrash \/ WorkerBoot
    BY <2>3, OthersMemory
       DEF Run, RunPhase, RunAwait, RunPause, RunRecord, RunRelease, RunFails, WorkerCrash,
           WorkerBoot, rowVars
  <2>. QED
    BY <2>1, <2>2, <2>3, FeedbackReadMemory, FeedbackMemory, ResumeMemory, ApiCrashMemory
       DEF Next, Faulty
<1>3. MemoryInv => DecisionRemembered
  BY DEF MemoryInv, Remembers, DecisionRemembered
<1>. QED
  BY <1>1, <1>2, <1>3, TypeInvariant, PTL DEF Spec

-----------------------------------------------------------------------------
(* Who executes the control graph.                                          *)

\* The owner kept in the API process, not the lease, is what excludes two
\* reviewers, because the worker's boot clears leases; and as long as the
\* worker's run is in its tail, nobody has cleared its lease.
ExecutionInv ==
    /\ \A v \in Reviewers : reviewer[v].place \in Busy => owner = v
    /\ lease \in Reviewers => owner = lease /\ reviewer[lease].place \in Busy
    /\ worker \in Tail => /\ lease = "worker"
                          /\ \A v \in Reviewers : reviewer[v].place \notin Busy
    /\ lease = "worker" => worker \in Tail

\* Steps that leave lease, owner and worker alone and move nobody in or out.
LEMMA SameExecution ==
    ASSUME ExecutionInv, UNCHANGED <<lease, owner, worker>>,
           \A v \in Reviewers : reviewer'[v].place \in Busy <=> reviewer[v].place \in Busy
    PROVE  ExecutionInv'
BY DEF ExecutionInv

\* What a move does to the place of every reviewer.
LEMMA MovedPlace ==
    ASSUME TypeInv, NEW v \in Reviewers, NEW place \in ReviewerPlaces, MoveTo(v, place)
    PROVE  \A w \in Reviewers :
               reviewer'[w].place = IF w = v THEN place ELSE reviewer[w].place
<1>1. At(place).place = place
  BY DEF At
<1>2. /\ reviewer'[v] = At(place)
      /\ \A w \in Reviewers \ {v} : reviewer'[w] = reviewer[w]
  BY Moves DEF TypeInv
<1>. QED
  BY <1>1, <1>2

LEMMA FeedbackExecution ==
    ASSUME TypeInv, ExecutionInv, NEW v \in Reviewers,
           FeedbackRead(v) \/ Feedback(v) \/ FeedbackFails(v)
    PROVE  ExecutionInv'
<1>1. UNCHANGED <<lease, owner, worker>>
  BY DEF FeedbackRead, Feedback, FeedbackRemember, FeedbackWrite, FeedbackFails
<1>2. CASE FeedbackRead(v)
  <2>1. \A w \in Reviewers : reviewer'[w].place \in Busy <=> reviewer[w].place \in Busy
    BY <1>2 DEF FeedbackRead, TypeInv, TypeOK, Busy, Streaming
  <2>. QED
    BY <1>1, <2>1, SameExecution
<1>3. CASE FeedbackRemember(v)
  <2>1. \A w \in Reviewers : reviewer'[w].place \in Busy <=> reviewer[w].place \in Busy
    BY <1>3 DEF FeedbackRemember, TypeInv, TypeOK, Busy, Streaming
  <2>. QED
    BY <1>1, <2>1, SameExecution
<1>4. CASE FeedbackWrite(v) \/ FeedbackFails(v)
  <2>1. /\ reviewer[v].place \in {"memory", "write"}
        /\ \E place \in {"resume", "idle"} : MoveTo(v, place)
    BY <1>4 DEF FeedbackWrite, FeedbackFails
  <2>2. \A w \in Reviewers : reviewer'[w].place \in Busy <=> reviewer[w].place \in Busy
    BY <2>1, MovedPlace DEF ReviewerPlaces, Busy, Streaming
  <2>. QED
    BY <1>1, <2>2, SameExecution
<1>. QED
  BY <1>2, <1>3, <1>4 DEF Feedback

LEMMA ResumeExecution ==
    ASSUME TypeInv, ExecutionInv, NEW v \in Reviewers, Resume(v) \/ ResumeFails(v)
    PROVE  ExecutionInv'
<1>1. CASE ResumeCheck(v)
  <2>1. \A w \in Reviewers : reviewer'[w].place \in Busy <=> reviewer[w].place \in Busy
    BY <1>1, MovedPlace DEF ResumeCheck, ReviewerPlaces, Busy, Streaming
  <2>. QED
    BY <1>1, <2>1, SameExecution DEF ResumeCheck
<1>2. CASE ResumeAcquire(v)
  <2>1. CASE ~MayExecute
    <3>1. \A w \in Reviewers : reviewer'[w].place \in Busy <=> reviewer[w].place \in Busy
      BY <1>2, <2>1, MovedPlace DEF ResumeAcquire, ReviewerPlaces, Busy, Streaming
    <3>. QED
      BY <1>2, <2>1, <3>1, SameExecution DEF ResumeAcquire
  <2>2. CASE MayExecute
    <3>1. /\ owner = "none" /\ lease = "none" /\ owner' = v /\ lease' = v
          /\ worker' = worker /\ MoveTo(v, "resumed")
      BY <1>2, <2>2 DEF ResumeAcquire, MayExecute
    <3>2. \A w \in Reviewers : w # "none" /\ w # "worker"
      BY ReviewAssumption
    <3>3. \A w \in Reviewers : reviewer[w].place \notin Busy
      BY <3>1, <3>2 DEF ExecutionInv
    <3>4. \A w \in Reviewers : reviewer'[w].place \in Busy => w = v
      BY <3>1, <3>3, MovedPlace DEF ReviewerPlaces, Streaming
    <3>5. reviewer'[v].place \in Busy
      BY <3>1, MovedPlace DEF ReviewerPlaces, Busy, Streaming
    <3>6. worker' \notin Tail
      BY <3>1 DEF ExecutionInv
    <3>. QED
      BY <3>1, <3>2, <3>4, <3>5, <3>6 DEF ExecutionInv
  <2>. QED
    BY <2>1, <2>2
<1>3. CASE \/ ResumeStart(v) \/ ResumeReread(v) \/ ResumeAgain(v)
           \/ ResumePause(v) \/ ResumeFails(v)
  <2>1. /\ reviewer[v].place \in Busy
        /\ \E place \in Busy : MoveTo(v, place)
        /\ UNCHANGED <<lease, owner, worker>>
    BY <1>3 DEF ResumeStart, ResumeReread, ResumeAgain, ResumePause, ResumeFails, Returns,
                Busy, Streaming
  <2>2. Busy \subseteq ReviewerPlaces
    BY DEF Busy, ReviewerPlaces
  <2>3. \A w \in Reviewers : reviewer'[w].place \in Busy <=> reviewer[w].place \in Busy
    BY <2>1, <2>2, MovedPlace
  <2>. QED
    BY <2>1, <2>3, SameExecution
<1>4. CASE ResumeRelease(v)
  <2>1. /\ reviewer[v].place = "release" /\ owner' = "none" /\ worker' = worker
        /\ MoveTo(v, "idle") /\ lease' \in {lease, "none", "gone"}
        /\ lease = v => lease' \in {"none", "gone"}
    BY <1>4 DEF ResumeRelease
  <2>2. reviewer[v].place \in Busy /\ owner = v /\ worker \notin Tail
    BY <2>1 DEF ExecutionInv, Busy
  <2>3. \A w \in Reviewers : reviewer'[w].place \notin Busy
    BY <2>1, <2>2, MovedPlace DEF ExecutionInv, ReviewerPlaces, Busy, Streaming
  <2>4. lease' \notin Reviewers
    BY <2>1, <2>2, ReviewAssumption DEF ExecutionInv
  <2>5. lease' # "worker"
    BY <2>1, <2>2 DEF ExecutionInv
  <2>. QED
    BY <2>1, <2>2, <2>3, <2>4, <2>5 DEF ExecutionInv
<1>. QED
  BY <1>1, <1>2, <1>3, <1>4 DEF Resume

LEMMA WorkerExecution ==
    ASSUME TypeInv, ExecutionInv, Run \/ RunFails \/ WorkerCrash \/ WorkerBoot
    PROVE  ExecutionInv'
<1>1. owner' = owner /\ reviewer' = reviewer
  BY DEF Run, RunPhase, RunAwait, RunPause, RunRecord, RunRelease, RunFails, WorkerCrash,
         WorkerBoot
<1>2. CASE RunPhase \/ RunAwait \/ RunPause \/ RunRecord \/ RunFails
  <2>1. worker \in Tail /\ worker' \in Tail /\ lease' = lease
    BY <1>2 DEF RunPhase, RunAwait, RunPause, RunRecord, RunFails, Tail
  <2>. QED
    BY <1>1, <2>1 DEF ExecutionInv
<1>3. CASE RunRelease \/ WorkerBoot \/ WorkerCrash
  <2>1. worker' \notin Tail
    BY <1>3 DEF RunRelease, WorkerBoot, WorkerCrash, Tail
  <2>2. lease' \in {"none", "gone"} \/ (lease' = lease /\ lease # "worker")
    BY <1>3 DEF RunRelease, WorkerBoot, WorkerCrash
  <2>. QED
    BY <1>1, <2>1, <2>2, ReviewAssumption DEF ExecutionInv
<1>. QED
  BY <1>2, <1>3 DEF Run

LEMMA ApiCrashExecution ==
    ASSUME ExecutionInv, ApiCrash
    PROVE  ExecutionInv'
<1>1. /\ \A v \in Reviewers : reviewer'[v].place \notin Busy
      /\ worker' = worker
      /\ lease' = IF lease \in Reviewers THEN "gone" ELSE lease
  BY DEF ApiCrash, At, Busy, Streaming
<1>. QED
  BY <1>1, ReviewAssumption DEF ExecutionInv

LEMMA ExecutionInvariant == Spec => []ExecutionInv
<1>1. Init => ExecutionInv
  <2>1. Init => \A v \in Reviewers : reviewer[v].place \notin Busy
    BY DEF Init, At, Busy, Streaming
  <2>. QED
    BY <2>1, ReviewAssumption DEF Init, ExecutionInv, Tail
<1>2. TypeInv /\ ExecutionInv /\ [Next]_vars => ExecutionInv'
  <2>. SUFFICES ASSUME TypeInv, ExecutionInv, [Next]_vars PROVE ExecutionInv'
    OBVIOUS
  <2>1. CASE UNCHANGED vars
    BY <2>1 DEF vars, ExecutionInv
  <2>2. ASSUME NEW p \in Reporters, Report(p) PROVE ExecutionInv'
    BY <2>2 DEF Report, ReportRead, ReportLookup, ReportSave, ReportWrite, reviewVars,
                ExecutionInv
  <2>. QED
    BY <2>1, <2>2, FeedbackExecution, ResumeExecution, WorkerExecution, ApiCrashExecution
       DEF Next, Faulty
<1>. QED
  BY <1>1, <1>2, TypeInvariant, PTL DEF Spec

\* No two executions drive the control graph at once, although the worker's
\* boot clears the lease of an execution that goes on in the API process.
THEOREM OneExecution == Spec => []ControlExclusive
<1>1. ExecutionInv => ControlExclusive
  BY DEF ExecutionInv, ControlExclusive, Busy, Tail
<1>. QED
  BY <1>1, ExecutionInvariant, PTL

\* A lease on record, unless its owner died or failed to give it back, is
\* that of an execution in progress.
THEOREM LeasesAreHeld == Spec => []LeaseHeld
<1>1. ExecutionInv => LeaseHeld
  BY DEF ExecutionInv, LeaseHeld, Busy
<1>. QED
  BY <1>1, ExecutionInvariant, PTL

-----------------------------------------------------------------------------
(* Reports.                                                                 *)

\* The table has one record per version, and a reporter answers with one of
\* its records.
ResultsInv ==
    /\ \A x, y \in results : x.version = y.version => x = y
    /\ delivered \subseteq results
    /\ \A p \in Reporters : reporter[p].place = "write" => reporter[p].result \in results

\* Steps outside report generation.
LEMMA SameResults ==
    ASSUME ResultsInv, UNCHANGED <<results, reporter, delivered>>
    PROVE  ResultsInv'
BY DEF ResultsInv

LEMMA ReportResults ==
    ASSUME TypeInv, ResultsInv, NEW p \in Reporters, Report(p)
    PROVE  ResultsInv'
<1>0. reporter \in [Reporters -> ReporterStates]
  BY DEF TypeInv, TypeOK, ReporterStates
<1>1. CASE ReportRead(p)
  <2>1. \A q \in Reporters : reporter'[q].place = "write" => reporter'[q] = reporter[q]
    BY <1>0, <1>1 DEF ReportRead
  <2>. QED
    BY <1>1, <2>1 DEF ReportRead, ResultsInv
<1>2. CASE ReportLookup(p)
  <2>1. \A q \in Reporters : reporter'[q].place = "write" =>
            reporter'[q] = reporter[q] \/ reporter'[q].result \in results
    BY <1>0, <1>2 DEF ReportLookup, IdleReporter, ReporterStates
  <2>. QED
    BY <1>2, <2>1 DEF ReportLookup, ResultsInv
<1>3. CASE ReportSave(p)
  <2>1. results \subseteq results' /\ delivered' = delivered
    BY <1>3 DEF ReportSave, Inserted
  <2>2. \A x, y \in results' : x.version = y.version => x = y
    BY <1>3 DEF ReportSave, Inserted, ResultsInv
  <2>3. \A q \in Reporters : reporter'[q].place = "write" => reporter'[q].result \in results'
    BY <1>0, <1>3, <2>1 DEF ReportSave, ResultsInv, ReporterStates
  <2>. QED
    BY <2>1, <2>2, <2>3 DEF ResultsInv
<1>4. CASE ReportWrite(p)
  <2>1. \A q \in Reporters : reporter'[q].place = "write" => reporter'[q] = reporter[q]
    BY <1>0, <1>4 DEF ReportWrite, IdleReporter
  <2>2. reporter[p].result \in results
    BY <1>4 DEF ReportWrite, ResultsInv
  <2>. QED
    BY <1>4, <2>1, <2>2 DEF ReportWrite, ResultsInv
<1>. QED
  BY <1>1, <1>2, <1>3, <1>4 DEF Report

\* However many requests race to generate it, one version of the risks has
\* one report.
THEOREM OneReport == Spec => []OneReportPerVersion
<1>1. Init => ResultsInv
  BY DEF Init, ResultsInv, IdleReporter
<1>2. TypeInv /\ ResultsInv /\ [Next]_vars => ResultsInv'
  <2>. SUFFICES ASSUME TypeInv, ResultsInv, [Next]_vars PROVE ResultsInv'
    OBVIOUS
  <2>1. CASE UNCHANGED vars
    BY <2>1, SameResults DEF vars
  <2>2. ASSUME NEW v \in Reviewers,
               FeedbackRead(v) \/ Feedback(v) \/ FeedbackFails(v) \/ Resume(v) \/ ResumeFails(v)
        PROVE  ResultsInv'
    BY <2>2, SameResults
       DEF FeedbackRead, Feedback, FeedbackRemember, FeedbackWrite, FeedbackFails, Resume,
           ResumeFails, ResumeCheck, ResumeAcquire, ResumeStart, ResumeReread, ResumeAgain,
           ResumePause, ResumeRelease, reportVars
  <2>3. CASE Run \/ RunFails \/ WorkerCrash \/ WorkerBoot
    BY <2>3, SameResults
       DEF Run, RunPhase, RunAwait, RunPause, RunRecord, RunRelease, RunFails, WorkerCrash,
           WorkerBoot, reportVars
  <2>4. CASE ApiCrash
    BY <2>4 DEF ApiCrash, IdleReporter, ResultsInv
  <2>. QED
    BY <2>1, <2>2, <2>3, <2>4, ReportResults DEF Next, Faulty
<1>3. ResultsInv => OneReportPerVersion
  BY DEF ResultsInv, OneReportPerVersion
<1>. QED
  BY <1>1, <1>2, <1>3, TypeInvariant, PTL DEF Spec

\* Only the write of a feedback changes the decisions on record: no failing
\* checkpoint, crash, resume or report takes one back.
THEOREM FailuresKeepFeedback == Spec => CheckpointKeepsFeedback
<1>1. TypeInv /\ [Next]_vars =>
        [decision' # decision => \E v \in Reviewers :
             reviewer[v].place = "write" /\ reviewer'[v].place = "resume"]_vars
  <2>. SUFFICES ASSUME TypeInv, Next, decision' # decision
                PROVE  \E v \in Reviewers :
                           reviewer[v].place = "write" /\ reviewer'[v].place = "resume"
    OBVIOUS
  <2>1. ASSUME NEW v \in Reviewers,
               FeedbackRead(v) \/ FeedbackRemember(v) \/ FeedbackFails(v)
               \/ Resume(v) \/ ResumeFails(v)
        PROVE  decision' = decision
    BY <2>1 DEF FeedbackRead, FeedbackRemember, FeedbackFails, Resume,
                ResumeFails, ResumeCheck, ResumeAcquire, ResumeStart, ResumeReread, ResumeAgain,
                ResumePause, ResumeRelease, rowVars
  <2>2. ASSUME Run \/ RunFails \/ WorkerCrash \/ WorkerBoot \/ ApiCrash
        PROVE  decision' = decision
    BY <2>2 DEF Run, RunPhase, RunAwait, RunPause, RunRecord, RunRelease, RunFails,
                WorkerCrash, WorkerBoot, ApiCrash, rowVars
  <2>3. ASSUME NEW p \in Reporters, Report(p)
        PROVE  decision' = decision
    BY <2>3 DEF Report, ReportRead, ReportLookup, ReportSave, ReportWrite, reviewVars
  <2>4. PICK v \in Reviewers : FeedbackWrite(v)
    BY <2>1, <2>2, <2>3 DEF Next, Feedback, Faulty
  <2>5. reviewer[v].place = "write" /\ MoveTo(v, "resume")
    BY <2>4 DEF FeedbackWrite
  <2>6. reviewer'[v].place = "resume"
    BY <2>5, MovedPlace DEF ReviewerPlaces
  <2>. QED
    BY <2>5, <2>6
<1>. QED
  BY <1>1, TypeInvariant, PTL DEF Spec, CheckpointKeepsFeedback

-----------------------------------------------------------------------------
(* What a report is made of.                                                *)

\* A report that is on its way, from a snapshot that may be reported on.
Underway(p) ==
    \/ reporter[p].place = "lookup" /\ Reportable(reporter[p].status)
    \/ reporter[p].place \in {"save", "write"}

\* The statuses that allow a report, and the reports made or under way, exist
\* only when everything is decided; and what is decided stays so.
DecidedInv ==
    ~overlapped =>
        /\ Reportable(status) => Pending(decision) = {}
        /\ \A x \in results \cup delivered : Pending(x.version) = {}
        /\ results \cup delivered # {} => Pending(decision) = {}
        /\ \A p \in Reporters : Underway(p) => /\ Pending(decision) = {}
                                               /\ Pending(reporter[p].result.version) = {}

\* Steps that change neither decisions nor reports, nor make the status
\* reportable.
LEMMA SameDecisions ==
    ASSUME DecidedInv,
           UNCHANGED <<decision, results, delivered, reporter, overlapped>>,
           status' = status \/ ~Reportable(status')
    PROVE  DecidedInv'
BY DEF DecidedInv, Underway, Reportable, Pending

\* Without overlap the write of a feedback decides one risk and leaves the
\* other ones as they are.
LEMMA WriteDecides ==
    ASSUME TypeInv, DecidedInv, NEW v \in Reviewers, FeedbackWrite(v)
    PROVE  DecidedInv'
<1>. SUFFICES ASSUME ~overlapped' PROVE DecidedInv'
  BY DEF DecidedInv
<1>1. ~overlapped /\ decision = reviewer[v].copy /\ reviewer[v].place = "write"
  BY DEF FeedbackWrite, TypeInv, TypeOK
<1>2. decision' = [decision EXCEPT ![reviewer[v].risk] = reviewer[v].feedback]
  BY <1>1 DEF FeedbackWrite, Applied
<1>3. reviewer[v].feedback.action # "none"
  BY <1>1, ReviewAssumption DEF TypeInv, InHand
<1>4. Pending(decision') \subseteq Pending(decision)
  BY <1>2, <1>3 DEF Pending, TypeInv, TypeOK, Versions
<1>5. Reportable(status') => Pending(decision') = {}
  BY DEF FeedbackWrite, Reportable
<1>6. UNCHANGED <<results, delivered, reporter>>
  BY DEF FeedbackWrite, reportVars
<1>. QED
  BY <1>1, <1>4, <1>5, <1>6 DEF DecidedInv, Underway, Reportable, Pending

LEMMA ReportDecides ==
    ASSUME TypeInv, DecidedInv, NEW p \in Reporters, Report(p)
    PROVE  DecidedInv'
<1>. SUFFICES ASSUME ~overlapped' PROVE DecidedInv'
  BY DEF DecidedInv
<1>0. /\ reporter \in [Reporters -> ReporterStates]
      /\ ~overlapped /\ decision' = decision
  BY DEF TypeInv, TypeOK, ReporterStates, Report, ReportRead, ReportLookup, ReportSave,
         ReportWrite, reviewVars, observed
<1>1. CASE ReportRead(p)
  <2>1. ASSUME NEW q \in Reporters, Underway(q)'
        PROVE  \/ Underway(q) /\ reporter'[q] = reporter[q]
               \/ Reportable(status) /\ reporter'[q].result.version = decision
    <3>1. CASE q = p
      <4>1. reporter'[q] = [place |-> "lookup", status |-> status,
                            result |-> [version |-> decision, id |-> requests']]
        BY <1>0, <1>1, <3>1 DEF ReportRead
      <4>2. reporter'[q].place = "lookup" /\ reporter'[q].status = status
        BY <4>1
      <4>. QED
        BY <2>1, <4>1, <4>2 DEF Underway, Reportable
    <3>2. CASE q # p
      <4>1. reporter'[q] = reporter[q]
        BY <1>0, <1>1, <3>2 DEF ReportRead
      <4>. QED
        BY <2>1, <4>1 DEF Underway, Reportable
    <3>. QED
      BY <3>1, <3>2
  <2>. QED
    BY <1>0, <1>1, <2>1 DEF ReportRead, DecidedInv, Underway, Reportable, Pending
<1>2. CASE ReportLookup(p)
  <2>1. ASSUME NEW q \in Reporters, Underway(q)'
        PROVE  \/ Underway(q) /\ reporter'[q].result = reporter[q].result
               \/ reporter'[q].result \in results
    BY <1>0, <1>2, <2>1 DEF ReportLookup, Underway, Reportable, IdleReporter, ReporterStates
  <2>. QED
    BY <1>0, <1>2, <2>1 DEF ReportLookup, DecidedInv, Reportable, Pending
<1>3. CASE ReportSave(p)
  <2>1. Underway(p)
    BY <1>3 DEF ReportSave, Underway
  <2>2. results' \subseteq results \cup {reporter[p].result}
    BY <1>3 DEF ReportSave, Inserted
  <2>3. ASSUME NEW q \in Reporters, Underway(q)'
        PROVE  \/ Underway(q) /\ reporter'[q].result = reporter[q].result
               \/ reporter'[q].result \in results'
    BY <1>0, <1>3, <2>3 DEF ReportSave, Underway, Reportable, ReporterStates
  <2>. QED
    BY <1>0, <1>3, <2>1, <2>2, <2>3 DEF ReportSave, DecidedInv, Reportable, Pending
<1>4. CASE ReportWrite(p)
  <2>1. Underway(p)
    BY <1>4 DEF ReportWrite, Underway
  <2>2. ASSUME NEW q \in Reporters, Underway(q)'
        PROVE  Underway(q) /\ reporter'[q] = reporter[q]
    BY <1>0, <1>4, <2>2 DEF ReportWrite, Underway, Reportable, IdleReporter
  <2>. QED
    BY <1>0, <1>4, <2>1, <2>2 DEF ReportWrite, DecidedInv, Reportable, Pending
<1>. QED
  BY <1>1, <1>2, <1>3, <1>4 DEF Report

\* Unless two feedbacks have overlapped, whatever is reported was decided.
THEOREM ReportsAreDecided == Spec => []ReportsDecided
<1>1. Init => DecidedInv
  BY DEF Init, DecidedInv, Underway, Reportable, IdleReporter
<1>2. TypeInv /\ DecidedInv /\ [Next]_vars => DecidedInv'
  <2>. SUFFICES ASSUME TypeInv, DecidedInv, [Next]_vars PROVE DecidedInv'
    OBVIOUS
  <2>1. CASE UNCHANGED vars
    BY <2>1, SameDecisions DEF vars, rowVars
  <2>2. ASSUME NEW v \in Reviewers,
               FeedbackRead(v) \/ FeedbackRemember(v) \/ FeedbackFails(v)
               \/ Resume(v) \/ ResumeFails(v)
        PROVE  DecidedInv'
    BY <2>2, SameDecisions
       DEF FeedbackRead, FeedbackRemember, FeedbackFails, Resume,
           ResumeFails, ResumeCheck, ResumeAcquire, ResumeStart, ResumeReread, ResumeAgain,
           ResumePause, ResumeRelease, rowVars, reportVars, observed
  <2>3. CASE Run \/ RunFails \/ WorkerCrash \/ WorkerBoot
    BY <2>3, SameDecisions
       DEF Run, RunPhase, RunAwait, RunPause, RunRecord, RunRelease, RunFails, WorkerCrash,
           WorkerBoot, rowVars, reportVars, observed, Reportable
  <2>4. CASE ApiCrash
    BY <2>4 DEF ApiCrash, rowVars, observed, IdleReporter, DecidedInv, Underway, Reportable,
                Pending
  <2>. QED
    BY <2>1, <2>2, <2>3, <2>4, WriteDecides, ReportDecides DEF Next, Feedback, Faulty
<1>3. DecidedInv => ReportsDecided
  BY DEF DecidedInv, ReportsDecided
<1>. QED
  BY <1>1, <1>2, <1>3, TypeInvariant, PTL DEF Spec

=============================================================================
