----------------------------- MODULE MCHosting ------------------------------
(* Instances for TLC of the components that host the services. They share no  *)
(* variable, and each behaviour is one of one of them.                        *)
EXTENDS Orchestrator, DbDeploy, Volumes, Resources, Live, TLC

VARIABLE part

serviceVars == <<resourcesVars, liveVars>>
hostingVars == <<part, orchestratorVars, dbVars, volumesVars, serviceVars>>

HostingInit ==
    /\ part \in {"orchestrator", "database", "volumes", "resources", "events"}
    /\ OrchestratorInit /\ DbInit /\ VolumesInit /\ ResourcesInit /\ LiveInit
    /\ part = "orchestrator" \/ (images = {} /\ job.tag = CHOOSE t \in Tag : TRUE)
    /\ part = "events" \/ tracker.kind = "app"

ServiceNext ==
    \/ part = "resources" /\ ResourcesNext /\ UNCHANGED liveVars
    \/ part = "events" /\ LiveNext /\ UNCHANGED resourcesVars

HostingNext ==
    \/ part = "orchestrator" /\ OrchestratorNext
                             /\ UNCHANGED <<part, dbVars, volumesVars, serviceVars>>
    \/ part = "database" /\ DbNext
                         /\ UNCHANGED <<part, orchestratorVars, volumesVars, serviceVars>>
    \/ part = "volumes" /\ VolumesNext
                        /\ UNCHANGED <<part, orchestratorVars, dbVars, serviceVars>>
    \/ ServiceNext /\ UNCHANGED <<part, orchestratorVars, dbVars, volumesVars>>

HostingSpec == HostingInit /\ [][HostingNext]_hostingVars

\* The variables of the component that works keep their types. The others stay at
\* their initial values.
HostingTypeOK ==
    CASE part = "orchestrator" -> OrchestratorTypeOK
      [] part = "database"     -> DbTypeOK
      [] part = "volumes"      -> VolumesTypeOK
      [] part = "resources"    -> ResourcesTypeOK
      [] part = "events"       -> LiveTypeOK

\* What is interchangeable in a component is called a and b: the deploys of a service,
\* the worker processes, the services that share volumes.
CONSTANTS a, b

Alike == Permutations({a, b})

=============================================================================
