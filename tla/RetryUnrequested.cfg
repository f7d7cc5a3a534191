\* The monitor enqueues the pending deploys of a queued service.

SPECIFICATION Spec

CONSTANTS
    d1 = d1
    d2 = d2
    w1 = w1
    w2 = w2
    n1 = n1
    none = none
    Deploy <- Deploys2
    Worker <- Workers1
    NodeOf <- OneNode
    None = none
    Ops = {"start"}
    Faults = {}
    MaxTasks = 2

PROPERTIES
    ClaimsRequested
