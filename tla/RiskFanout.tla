----------------------------- MODULE RiskFanout -----------------------------
(***************************************************************************)
(* The risk phase of a task: build_context restores what an earlier run    *)
(* persisted, _dispatch_risk_items sends one branch per review context,    *)
(* the thread that streams the graph records each branch that ends, and    *)
(* aggregate_risks concludes.  A run may be lost at any point (crash, node *)
(* timeout, cancellation of the process) and a failed task be recovered;   *)
(* the next run starts from the row.                                       *)
(*                                                                         *)
(* Module RiskBranch has what happens inside a branch; here it ends in one *)
(* of the outcomes finalize_risk can hand over.                            *)
(***************************************************************************)
EXTENDS Naturals, Sequences, FiniteSets, SequencesExt, FiniteSetsExt, RiskOutcomes

CONSTANTS
    N,        \* number of review contexts
    Width,    \* max_concurrency
    Failures, \* how branches may fail
    MaxRuns   \* runs of the task

ASSUME SizeAssumption ==
    /\ N \in Nat
    /\ Width \in Nat \ {0}
    /\ Failures \subseteq BranchFailures
    /\ MaxRuns \in Nat

Contexts == 1..N

VARIABLES
    (* The row of app.review_tasks. *)
    status,
    analyses,       \* analysis_results
    risk_findings,
    (* The run. *)
    phase,          \* what the run does next
    restored,       \* per context: existing_finding of its risk_item
    branch,         \* per context: where its branch is
    outcome,        \* per context: the result its branch ended with
    branch_results, \* contexts recorded, in order of arrival
    (* Bound. *)
    runs

rowVars == <<status, analyses, risk_findings>>
vars == <<rowVars, phase, restored, branch, outcome, branch_results, runs>>

-----------------------------------------------------------------------------
(* Data.                                                                   *)

Verdicts == {"no_risk", "risk"}

\* An analysis names its context (_analysis_result_key).
Analyses == [context : Contexts, verdict : Verdicts]
NoAnalysis == [context |-> 0, verdict |-> "none"]

\* What finalize_risk hands over, as module RiskBranch shows.
BranchOutcomes == {o \in Outcomes : o.terminal \in {"NONE"} \cup Failures \cup ToHuman}

TypeOK ==
    /\ status \in {"CONTEXT_BUILT", "RISK_ANALYZED", "EVIDENCE_VERIFIED"} \cup Failures \cup ToHuman
    /\ analyses \in Seq(Analyses)
    /\ risk_findings \in Seq([context : Contexts, manual : BOOLEAN])
    /\ phase \in {"down", "restore", "collect", "conclude", "end"}
    /\ restored \in [Contexts -> Analyses \cup {NoAnalysis}]
    /\ branch \in [Contexts -> {"waiting", "running", "ended", "recorded"}]
    /\ outcome \in [Contexts -> BranchOutcomes \cup {NoOutcome}]
    /\ branch_results \in Seq(Contexts)
    /\ runs \in Nat

Init ==
    /\ status = "CONTEXT_BUILT"
    /\ analyses = <<>>
    /\ risk_findings = <<>>
    /\ phase = "down"
    /\ restored = [i \in Contexts |-> NoAnalysis]
    /\ branch = [i \in Contexts |-> "waiting"]
    /\ outcome = [i \in Contexts |-> NoOutcome]
    /\ branch_results = <<>>
    /\ runs = 0

-----------------------------------------------------------------------------
(* A run enters the risk phase.                                            *)

StartRun ==
    /\ phase = "down"
    /\ runs < MaxRuns
    /\ phase' = "restore"
    /\ runs' = runs + 1
    /\ UNCHANGED <<rowVars, restored, branch, outcome, branch_results>>

\* Mutant: only the number of analyses is checked.
IsContextPrefixByLength == Len(analyses) <= N

\* _restored_analysis_prefix
IsContextPrefix ==
    /\ Len(analyses) <= N
    /\ \A k \in DOMAIN analyses : analyses[k].context = k

\* _build_risk_items.  The progress stage is never evidence_verification here,
\* so _restored_evidence_completion_ids restores no completed branch.
Restore ==
    /\ phase = "restore"
    /\ IsContextPrefix
    /\ restored' = [i \in Contexts |-> IF i \in DOMAIN analyses THEN analyses[i]
                                                               ELSE NoAnalysis]
    /\ phase' = "collect"
    /\ UNCHANGED <<rowVars, branch, outcome, branch_results, runs>>

\* RecoveryError
RestoreRefused ==
    /\ phase = "restore"
    /\ ~IsContextPrefix
    /\ status' = "NEED_MANUAL_REVIEW"
    /\ phase' = "end"
    /\ UNCHANGED <<analyses, risk_findings, restored, branch, outcome, branch_results, runs>>

-----------------------------------------------------------------------------
(* The branches.                                                           *)

At(place) == {i \in Contexts : branch[i] = place}

\* Mutant: a slot is not given back when its branch has ended.
HasSlotOnce == Cardinality(Contexts \ At("waiting")) < Width

HasSlot == Cardinality(At("running")) < Width

\* Send's branches are taken up in order, at most Width at a time.
StartBranch(i) ==
    /\ phase = "collect"
    /\ HasSlot
    /\ branch[i] = "waiting"
    /\ \A j \in At("waiting") : i <= j
    /\ branch' = [branch EXCEPT ![i] = "running"]
    /\ UNCHANGED <<rowVars, phase, restored, outcome, branch_results, runs>>

\* A restored analysis stays unless the branch makes a new one.
EndBranch(i) ==
    /\ phase = "collect"
    /\ branch[i] = "running"
    /\ branch' = [branch EXCEPT ![i] = "ended"]
    /\ \E o \in BranchOutcomes :
        /\ o.verdict = "none" => restored[i] = NoAnalysis
        /\ outcome' = [outcome EXCEPT ![i] = o]
    /\ UNCHANGED <<rowVars, phase, restored, branch_results, runs>>

-----------------------------------------------------------------------------
(* Recording and aggregating.                                              *)

\* Mutant: in the order in which the results arrived.
OrderedByArrival(S) == SelectSeq(branch_results, LAMBDA i : i \in S)

\* _ordered_results
Ordered(S) == CHOOSE order \in [1..Cardinality(S) -> S] :
                  \A j, k \in DOMAIN order : j < k => order[j] < order[k]

\* The analyses of the branches in S that have one.
AnalysesOf(S) ==
    LET order == Ordered({i \in S : outcome[i].verdict # "none"})
    IN  [k \in DOMAIN order |-> [context |-> order[k], verdict |-> outcome[order[k]].verdict]]

\* The risk findings of the branches in S.
FindingsOf(S) ==
    LET order == Ordered({i \in S : outcome[i].verdict = "risk"})
    IN  [k \in DOMAIN order |->
            [context |-> order[k],
             manual  |-> outcome[order[k]].finding # "formal"]]

\* The recorded branches up to the first gap.
Contiguous(recorded) == {i \in recorded : 1..i \subseteq recorded}

\* _record_branch_progress
RecordProgress(i) ==
    /\ phase = "collect"
    /\ branch[i] = "ended"
    /\ branch' = [branch EXCEPT ![i] = "recorded"]
    /\ branch_results' = Append(branch_results, i)
    /\ analyses' = AnalysesOf(Contiguous(At("recorded") \cup {i}))
    /\ UNCHANGED <<status, risk_findings, phase, restored, outcome, runs>>

\* Mutant: only the branch recorded last is asked.
TerminatedLast == IF branch_results = <<>> THEN {}
                  ELSE {i \in {Last(branch_results)} : outcome[i].terminal # "NONE"}

Terminated == {i \in Contexts : outcome[i].terminal # "NONE"}

AllRecorded == phase = "collect" /\ At("recorded") = Contexts

\* Mutant: the candidates of the branches that ended early are not added.
MaterializedWithoutCandidates == FindingsOf({i \in Contexts : outcome[i].terminal = "NONE"})

\* _materialize_manual_review_candidates
Materialized == FindingsOf(Contexts)

\* aggregate_risks: the first branch that ended early decides for the task.
AggregateEnds ==
    /\ AllRecorded
    /\ Terminated # {}
    /\ status' = outcome[Min(Terminated)].terminal
    /\ analyses' = AnalysesOf(Contexts)
    /\ risk_findings' = IF status' = "HUMAN_REVIEW_PENDING" THEN Materialized ELSE <<>>
    /\ phase' = "end"
    /\ UNCHANGED <<restored, branch, outcome, branch_results, runs>>

Aggregate ==
    /\ AllRecorded
    /\ Terminated = {}
    /\ status' = "RISK_ANALYZED"
    /\ analyses' = AnalysesOf(Contexts)
    /\ phase' = "conclude"
    /\ UNCHANGED <<risk_findings, restored, branch, outcome, branch_results, runs>>

Conclude ==
    /\ phase = "conclude"
    /\ risk_findings' = FindingsOf(Contexts)
    /\ status' = IF \E i \in Contexts : outcome[i].finding = "manual"
                 THEN "HUMAN_REVIEW_PENDING" ELSE "EVIDENCE_VERIFIED"
    /\ phase' = "end"
    /\ UNCHANGED <<analyses, restored, branch, outcome, branch_results, runs>>

-----------------------------------------------------------------------------
(* Losing a run, and coming back.                                          *)

\* _ReviewRuntime is new in every run.
RuntimeGone ==
    /\ restored' = [i \in Contexts |-> NoAnalysis]
    /\ branch' = [i \in Contexts |-> "waiting"]
    /\ outcome' = [i \in Contexts |-> NoOutcome]
    /\ branch_results' = <<>>

\* The worker dies, or a branch raises an interrupt: results that have not
\* been recorded are gone, and the task comes back to the same status.
RunLost ==
    /\ phase \in {"restore", "collect", "conclude"}
    /\ runs < MaxRuns
    /\ phase' = "down"
    /\ RuntimeGone
    /\ UNCHANGED <<rowVars, runs>>

\* Manual recovery; the nodes before this phase compute the same contexts.
Recover ==
    /\ phase = "end"
    /\ status \in Failures
    /\ runs < MaxRuns
    /\ status' = "CONTEXT_BUILT"
    /\ phase' = "down"
    /\ RuntimeGone
    /\ UNCHANGED <<analyses, risk_findings, runs>>

Run == \/ StartRun
       \/ Restore
       \/ RestoreRefused
       \/ \E i \in Contexts : StartBranch(i) \/ EndBranch(i) \/ RecordProgress(i)
       \/ AggregateEnds
       \/ Aggregate
       \/ Conclude

Next == Run \/ RunLost \/ Recover

Spec == Init /\ [][Next]_vars

\* The worker's thread and the branch threads run on; nothing makes an
\* operator recover, or a run fail.
FairSpec == Spec /\ WF_vars(Run)

-----------------------------------------------------------------------------
(* Properties.                                                             *)

ContextsIn(seq) == {seq[k].context : k \in DOMAIN seq}

\* Branches end in any order, but what is persisted of them is in the order of
\* the contexts, each at most once (aggregate_risks).
InSourceOrder ==
    /\ \A j, k \in DOMAIN analyses : j < k => analyses[j].context < analyses[k].context
    /\ \A j, k \in DOMAIN risk_findings :
            j < k => risk_findings[j].context < risk_findings[k].context

\* Over crashes and recoveries, a branch starts from nothing or from the
\* analysis of its own context, never from another one's.
OwnAnalysis == \A i \in Contexts : restored[i] # NoAnalysis => restored[i].context = i

\* A review that ends without a human has analysed every context, and reports
\* every risk found, each of them checked in full.
VerifiedIsComplete ==
    status = "EVIDENCE_VERIFIED" =>
        /\ ContextsIn(analyses) = Contexts
        /\ ContextsIn(risk_findings) = {a.context : a \in {b \in ToSet(analyses) : b.verdict = "risk"}}
        /\ \A f \in ToSet(risk_findings) : ~f.manual

\* No candidate is lost on the way to the human: every analysis that found a
\* risk is in the list to be reviewed.
NoCandidateLost ==
    status = "HUMAN_REVIEW_PENDING" =>
        /\ {a.context : a \in {b \in ToSet(analyses) : b.verdict = "risk"}}
               = ContextsIn(risk_findings)
        /\ \A i \in Contexts : outcome[i].verdict = "risk" => i \in ContextsIn(risk_findings)

\* The phase ends, whatever its branches do: no slot is kept, no result is
\* waited for in vain.
FanoutEnds == phase = "collect" ~> phase \in {"down", "end"}

=============================================================================
