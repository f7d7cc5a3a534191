\* Two workers on nodes of their own, starts and stops, crashes and Docker errors.

SPECIFICATION Spec

CONSTANTS
    d1 = d1
    d2 = d2
    w1 = w1
    w2 = w2
    n1 = n1
    none = none
    Deploy <- Deploys1
    Worker <- Workers2
    NodeOf <- OwnNode
    None = none
    Ops = {"start", "stop"}
    Faults = {"crash", "docker"}
    MaxTasks = 2

SYMMETRY Symmetry

INVARIANTS
    TypeOK
    OneDeployAtATime
    QueuedHasClock

PROPERTIES
    WorkersFollowTable
    OneOperation
