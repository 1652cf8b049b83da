SPECIFICATION Spec
CONSTANTS
    Tools = {"decide", "classify"}
CHECK_DEADLOCK FALSE
INVARIANTS
    TraceIsComplete
    NotInvokedIsTrue
