SPECIFICATION FairSpec
CONSTANTS
    MaxPlannerRetries = 1
    MaxEarlier = 2
    MayBeInterrupted = TRUE
CHECK_DEADLOCK FALSE
INVARIANTS
    FormalRiskIsChecked
    HumanRequestIsFinal
    RetrievalBudget
    BudgetIsHandedOver
PROPERTY
    BranchEnds
    KeepsPromise
