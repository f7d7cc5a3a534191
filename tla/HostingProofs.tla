--------------------------- MODULE HostingProofs ----------------------------
(***************************************************************************)
(* The components that host the services, taken together as a run takes    *)
(* them: what is proved of each one holds of the whole.                    *)
(***************************************************************************)
EXTENDS MCHosting, DeploymentProofs, StorageProofs

\* The whole implements each of its components: its first state is a first state of
\* the component, and a step of it is a step of the component or leaves it alone.
THEOREM HostingComponents ==
    HostingSpec => OrchestratorSpec /\ DbSpec /\ VolumesSpec /\ ResourcesSpec /\ LiveSpec
<1>1. HostingInit => OrchestratorInit /\ DbInit /\ VolumesInit /\ ResourcesInit /\ LiveInit
  BY DEF HostingInit
<1>2. ASSUME [HostingNext]_hostingVars
      PROVE  /\ [OrchestratorNext]_orchestratorVars /\ [DbNext]_dbVars
             /\ [VolumesNext]_volumesVars /\ [ResourcesNext]_resourcesVars
             /\ [LiveNext]_liveVars
  <2>1. CASE HostingNext
    BY <2>1 DEF HostingNext, ServiceNext, serviceVars
  <2>2. CASE UNCHANGED hostingVars
    BY <2>2 DEF hostingVars, serviceVars
  <2> QED
    BY <1>2, <2>1, <2>2
<1> QED
  BY <1>1, <1>2, PTL
  DEF HostingSpec, OrchestratorSpec, DbSpec, VolumesSpec, ResourcesSpec, LiveSpec

Parts == {"orchestrator", "database", "volumes", "resources", "events"}

\* The variables of the component that works keep their types, and so do the others.
THEOREM HostingTypes == HostingSpec => []HostingTypeOK
<1>1. HostingSpec => [](part \in Parts)
  <2>1. HostingInit => part \in Parts
    BY DEF HostingInit, Parts
  <2>2. part \in Parts /\ [HostingNext]_hostingVars => (part \in Parts)'
    BY DEF HostingNext, ServiceNext, hostingVars
  <2> QED
    BY <2>1, <2>2, PTL DEF HostingSpec
<1>2. /\ OrchestratorInv => OrchestratorTypeOK
      /\ DbInv => DbTypeOK
      /\ VolumesInv => VolumesTypeOK
      /\ ResourcesInv => ResourcesTypeOK
      /\ LiveInv => LiveTypeOK
  BY DEF OrchestratorInv, DbInv, VolumesInv, ResourcesInv, LiveInv
<1>3. part \in Parts /\ OrchestratorInv /\ DbInv /\ VolumesInv /\ ResourcesInv /\ LiveInv
      => HostingTypeOK
  BY <1>2 DEF HostingTypeOK, Parts
<1> QED
  BY <1>1, <1>3, HostingComponents, OrchestratorInvariant, DbInvariant, VolumesInvariant,
     ResourcesInvariant, LiveInvariant, PTL

=============================================================================
