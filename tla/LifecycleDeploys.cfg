\* Two deploys, selections and plan changes, a broker that loses messages.

SPECIFICATION Spec

CONSTANTS
    d1 = d1
    d2 = d2
    w1 = w1
    w2 = w2
    n1 = n1
    none = none
    Deploy <- Deploys2
    Worker <- Workers1
    NodeOf <- OneNode
    None = none
    Ops = {"start", "select", "plan"}
    Faults = {"lost", "crash"}
    MaxTasks = 2

SYMMETRY Symmetry

INVARIANTS
    RunningHasClock

PROPERTIES
    MonitorKeepsEnded
