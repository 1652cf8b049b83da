--------------------------- MODULE BranchOutcome ----------------------------
(***************************************************************************)
(* What a risk branch promises to the fan-out: it ends once, with one of   *)
(* the outcomes that aggregate_risks knows to read, or is lost with its    *)
(* run.  RiskBranch implements it; RiskFanout builds on it.                *)
(***************************************************************************)
EXTENDS RiskOutcomes

VARIABLES
    place,     \* "running", "ended" or "lost"
    concluded, \* the item brought a conclusion of an earlier run along
    analysed,  \* the item brought an analysis along
    outcome

vars == <<place, concluded, analysed, outcome>>

Init ==
    /\ place = "running"
    /\ concluded \in BOOLEAN
    /\ analysed \in BOOLEAN
    /\ outcome = NoOutcome

End ==
    /\ place = "running"
    /\ place' = "ended"
    /\ outcome' \in AnyOutcome
    /\ ~concluded => outcome' \in Outcomes
    /\ analysed => outcome'.verdict # "none"
    /\ UNCHANGED <<concluded, analysed>>

Lose ==
    /\ place = "running"
    /\ place' = "lost"
    /\ UNCHANGED <<concluded, analysed, outcome>>

Next == End \/ Lose

Spec == Init /\ [][Next]_vars

=============================================================================
