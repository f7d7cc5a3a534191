\* A stop task and a deploy task of one service on one node.

SPECIFICATION Spec

CONSTANTS
    d1 = d1
    d2 = d2
    w1 = w1
    w2 = w2
    n1 = n1
    none = none
    Deploy <- Deploys1
    Worker <- Workers2
    NodeOf <- OneNode
    None = none
    Ops = {"start", "stop"}
    Faults = {}
    MaxTasks = 2

INVARIANTS
    StopExcludesDeploy
