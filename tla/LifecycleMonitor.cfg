\* Everything fails, rows are edited and runtimes purged, only the monitor and the
\* clocks are fair.

SPECIFICATION MonitoredEditSpec

CONSTANTS
    d1 = d1
    w1 = w1
    n1 = n1
    none = none
    Deploy <- Deploys1
    Worker <- Workers1
    NodeOf <- OneNode
    None = none
    Ops = {"start"}
    Faults = {"lost", "crash", "docker", "die"}
    MaxTasks = 2
    EditedTasks = 1

PROPERTIES
    DeploymentEnds
    ExecutionEnds
    DeathNoticed
