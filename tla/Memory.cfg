SPECIFICATION Spec
CONSTANTS
    Writers = {w1, w2}
    w1 = w1
    w2 = w2
    Keys = {"old", "against"}
    LegacyKeys = {"old"}
    Suggestion <- MCSuggestion
    StaleAfter = 1
    MaxDay = 3
    MaxReads = 1
    MaxFaults = 1
SYMMETRY Symmetry
CHECK_DEADLOCK FALSE
INVARIANTS
    PreferenceCurrent
    NothingForgotten
    SuggestionJustified
