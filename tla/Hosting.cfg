\* The container pipeline, database deployments, volumes and quota, and the
\* coming and going of rows, and the live page of a deployment.

SPECIFICATION HostingSpec

CONSTANTS
    a = a
    b = b
    Nothing = Nothing
    Tag = {t1, t2}
    Checked = {t2}
    MaxDeploys = 2
    MinPolls = 2
    DockerFails = TRUE
    DbWorker = {a, b}
    NoDbWorker = NoDbWorker
    MaxQueueings = 2
    MaxDbRetries = 1
    Owner = {a, b}
    NoOwner = NoOwner
    Volume = {v1, v2}
    Sizes = {1, 2}
    Quota = 2
    MaxRequests = 2
    Pathless = {v2}
    Package = {a, b}
    NoPackage = NoPackage
    MaxStarts = 2
    RemovalFails = TRUE
    Browser = {b1}
    MaxEvents = 1

SYMMETRY Alike

INVARIANTS
    HostingTypeOK
    OldUntilHealthy
    SuccessServes
    FailureAccounted
    
    
    
    NothingLeft
    

PROPERTIES
    DbStoppedStays

\* Every operation may have been refused, and the bounds reached.
CHECK_DEADLOCK FALSE
