SPECIFICATION FairSpec
CONSTANTS
    Statuses = {"START", "CONTEXT_BUILT", "NODE_TIMEOUT", "HUMAN_REVIEW_PENDING", "MEMORY_UPDATED"}
    Clients = {c1}
    c1 = c1
    MaxEvents = 4
    MaxOpens = 1
    MaxFaults = 0
    FaultKinds = {"publish", "subscribe", "stop"}
CHECK_DEADLOCK FALSE
PROPERTIES
    PageSettles
