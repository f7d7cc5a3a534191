\* A worker dies after it claimed a stop that had already been failed.

SPECIFICATION FairSpec

CONSTANTS
    d1 = d1
    d2 = d2
    w1 = w1
    w2 = w2
    n1 = n1
    none = none
    Deploy <- Deploys1
    Worker <- Workers1
    NodeOf <- OneNode
    None = none
    Ops = {"start", "stop"}
    Faults = {"crash"}
    MaxTasks = 2

PROPERTIES
    StopEnds
