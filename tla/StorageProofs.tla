--------------------------- MODULE StorageProofs ----------------------------
(***************************************************************************)
(* What a service has outside the database: its resources in Docker, its   *)
(* volumes and their quota, and the live page of a deployment; for any     *)
(* number of deploys, volumes, requests, browsers and events.              *)
(***************************************************************************)
EXTENDS Resources, Volumes, Live, FiniteSetTheorems, TLAPS

-----------------------------------------------------------------------------
(* Resources: nothing is left of what has been deleted. *)

Excused(because) == because \in excuse

\* After its deletion nobody works for a service any more, and nothing of it is there.
GoneClean ==
    service.row = "gone" =>
        /\ runner.at = "idle" /\ task = NoPackage
        /\ store.container = "absent"
        /\ Excused("helper") \/ ~store.volume
        /\ Excused("unselected") \/ store.images = {}

\* Docker has a network only of a row, and a service or a worker refers to one only
\* while the row is there.
NetworkClean ==
    /\ net # "there" => ~service.net /\ ~runner.net
    /\ runner.at = "idle" => ~runner.net
    /\ net = "none" => ~store.net
    /\ net = "gone" => Excused("attached") \/ ~store.net

\* Images are of deploys that are there, and so is the deploy that is worked on.
ImagesClean ==
    /\ Excused("unselected") \/ store.images \subseteq There
    /\ runner.at # "idle" => runner.package \in There

\* What a deletion under way has already removed stays removed.
RemovalClean ==
    /\ remover.at = "purge" => remover.kind = "service"
    /\ remover.at = "service" => remover.kind \in {"service", "owner"}
    /\ remover.at = "net" => remover.kind \in {"net", "owner"}
    /\ remover.at = "deploys" => remover.kind \in {"service", "owner", "package"}
    /\ remover.at # "idle" /\ remover.kind = "package" => remover.package \in Package
    /\ remover.at \in {"purge", "net", "deploys"} => remover.seen = {}
    /\ remover.at # "idle" /\ remover.kind \in {"service", "owner"} => service.row = "there"
    /\ remover.at \in {"service", "commit"} =>
         Excused("unselected") \/ store.images \cap remover.seen = {}
    /\ remover.at = "commit" /\ remover.kind \in {"service", "owner"} =>
         store.container = "absent" /\ (Excused("helper") \/ ~store.volume)
    /\ remover.at \in {"deploys", "service", "commit"} /\ remover.kind \in {"net", "owner"} =>
         Excused("attached") \/ ~store.net

ResourcesClean == GoneClean /\ NetworkClean /\ ImagesClean /\ RemovalClean

ResourcesInv == ResourcesTypeOK /\ (Followed => ResourcesClean)

\* The types, one by one.
LEMMA ResourcesTypes ==
    ASSUME ResourcesTypeOK
    PROVE  /\ service \in [row : Row, status : {"stopped", "running", "failed"} \cup BusyService,
                           selected : Package \cup {NoPackage}, net : BOOLEAN,
                           starts : 0 .. MaxStarts]
           /\ package \in [Package -> Row] /\ net \in Row
           /\ store \in [container : {"absent", "exited", "running"}, attached : BOOLEAN,
                         images : SUBSET Package, volume : BOOLEAN, net : BOOLEAN,
                         helper : BOOLEAN]
           /\ task \in Package \cup {NoPackage}
           /\ runner \in [at : {"idle", "build", "net", "create", "finish"},
                          package : Package \cup {NoPackage}, net : BOOLEAN]
           /\ remover \in [at : {"idle", "purge", "net", "deploys", "service", "commit"},
                           kind : {"none", "service", "owner", "package", "net"},
                           package : Package \cup {NoPackage}, seen : SUBSET Package]
           /\ excuse \subseteq {"worker", "docker", "unselected", "attached", "helper"}
BY DEF ResourcesTypeOK

\* Rows that are created, and the requests and the monitor that write them.
LEMMA RowSteps ==
    ASSUME ResourcesInv, Followed,
           \/ CreateNetwork \/ (\E staff \in BOOLEAN : CreateService(staff))
           \/ (\E p \in Package : CreateDeploy(p))
           \/ (\E p \in Package \cup {NoPackage} : SelectDeploy(p))
           \/ (\E rebuild \in BOOLEAN : AdminStart(rebuild))
           \/ AdminStop \/ StopRuns \/ MonitorFails \/ ContainerExits
    PROVE  ResourcesInv'
<1>1. ResourcesTypeOK /\ ResourcesClean
  BY DEF ResourcesInv
<1> USE ResourcesTypes DEF UnchangedRows, UnchangedWork, UnchangedRemoval
<1>2. CASE CreateNetwork
  BY <1>1, <1>2 DEF CreateNetwork, ResourcesInv, ResourcesTypeOK, ResourcesClean, GoneClean,
     NetworkClean, ImagesClean, RemovalClean, There, Excused, Row
<1>3. ASSUME NEW staff \in BOOLEAN, CreateService(staff)
      PROVE  ResourcesInv'
  <2>1. PICK with \in BOOLEAN : /\ service' = [service EXCEPT !.row = "there", !.net = with]
                                /\ with => net = "there"
    BY <1>3 DEF CreateService
  <2>2. /\ service' \in [row : Row, status : {"stopped", "running", "failed"} \cup BusyService,
                         selected : Package \cup {NoPackage}, net : BOOLEAN,
                         starts : 0 .. MaxStarts]
        /\ service'.row = "there" /\ (service'.net => net = "there")
    BY <1>1, <2>1 DEF Row
  <2> QED
    <3>1. /\ service.row = "none"
          /\ UNCHANGED <<package, net, store, task, runner, remover, excuse>>
      BY <1>3 DEF CreateService
    <3>2. ResourcesTypeOK' /\ GoneClean' /\ NetworkClean'
      BY <1>1, <2>2, <3>1 DEF ResourcesTypeOK, ResourcesClean, GoneClean, NetworkClean, Excused
    <3>3. ImagesClean' /\ RemovalClean'
      BY <1>1, <2>2, <3>1 DEF ResourcesClean, ImagesClean, RemovalClean, There, Excused
    <3> QED
      BY <3>2, <3>3 DEF ResourcesInv, ResourcesClean
<1>4. ASSUME NEW p \in Package, CreateDeploy(p)
      PROVE  ResourcesInv'
  <2>1. package' \in [Package -> Row] /\ There \subseteq There'
    BY <1>1, <1>4 DEF CreateDeploy, There, Row
  <2> QED
    BY <1>1, <1>4, <2>1 DEF CreateDeploy, ResourcesInv, ResourcesTypeOK, ResourcesClean,
       GoneClean, NetworkClean, ImagesClean, RemovalClean, Excused
<1>5. CASE \/ \E p \in Package \cup {NoPackage} : SelectDeploy(p)
           \/ AdminStop \/ MonitorFails
  <2>1. /\ service' \in [row : Row, status : {"stopped", "running", "failed"} \cup BusyService,
                         selected : Package \cup {NoPackage}, net : BOOLEAN,
                         starts : 0 .. MaxStarts]
        /\ service'.row = service.row /\ service'.net = service.net
    BY <1>1, <1>5 DEF SelectDeploy, AdminStop, MonitorFails, Set, BusyService, There
  <2>2. /\ UNCHANGED <<package, net, store>> /\ UnchangedWork /\ UnchangedRemoval
    BY <1>5 DEF SelectDeploy, AdminStop, MonitorFails
  <2> QED
    BY <1>1, <2>1, <2>2 DEF ResourcesInv, ResourcesTypeOK, ResourcesClean,
       GoneClean, NetworkClean, ImagesClean, RemovalClean, There, Excused
<1>6. ASSUME NEW rebuild \in BOOLEAN, AdminStart(rebuild)
      PROVE  ResourcesInv'
  <2>1. /\ service' \in [row : Row, status : {"stopped", "running", "failed"} \cup BusyService,
                         selected : Package \cup {NoPackage}, net : BOOLEAN,
                         starts : 0 .. MaxStarts]
        /\ service'.row = "there" /\ service.row = "there" /\ service'.net = service.net
    <3>1. service.starts + 1 \in 0..MaxStarts
      BY <1>1, <1>6, ResourcesAssumption DEF AdminStart
    <3>2. service' = [service EXCEPT !.status = "queued", !.starts = service.starts + 1]
      BY <1>6 DEF AdminStart
    <3> QED
      BY <1>1, <1>6, <3>1, <3>2 DEF AdminStart, BusyService
  <2>2. /\ store' \in [container : {"absent", "exited", "running"}, attached : BOOLEAN,
                       images : SUBSET Package, volume : BOOLEAN, net : BOOLEAN,
                       helper : BOOLEAN]
        /\ store'.images \subseteq store.images /\ store'.net = store.net
    BY <1>1, <1>6 DEF AdminStart, Removed
  <2>3. remover.at # "commit" /\ task' \in Package \cup {NoPackage}
    BY <1>1, <1>6 DEF AdminStart, Locked
  <2> QED
    BY <1>1, <1>6, <2>1, <2>2, <2>3 DEF AdminStart, ResourcesInv, ResourcesTypeOK, ResourcesClean,
       GoneClean, NetworkClean, ImagesClean, RemovalClean, There, Excused
<1>7. CASE StopRuns \/ ContainerExits
  <2>1. /\ service' \in [row : Row, status : {"stopped", "running", "failed"} \cup BusyService,
                         selected : Package \cup {NoPackage}, net : BOOLEAN,
                         starts : 0 .. MaxStarts]
        /\ service'.row = service.row /\ service'.net = service.net
    BY <1>1, <1>7 DEF StopRuns, ContainerExits, Set, BusyService
  <2>2. /\ store' \in [container : {"absent", "exited", "running"}, attached : BOOLEAN,
                       images : SUBSET Package, volume : BOOLEAN, net : BOOLEAN,
                       helper : BOOLEAN]
        /\ store'.images = store.images /\ store'.net = store.net /\ store'.volume = store.volume
        /\ store.container = "absent" => store'.container = "absent"
    BY <1>1, <1>7 DEF StopRuns, ContainerExits, Removed
  <2>3. UNCHANGED <<package, net>> /\ UnchangedWork /\ UnchangedRemoval
    BY <1>7 DEF StopRuns, ContainerExits
  <2> QED
    BY <1>1, <2>1, <2>2, <2>3 DEF ResourcesInv, ResourcesTypeOK, ResourcesClean,
       GoneClean, NetworkClean, ImagesClean, RemovalClean, There, Excused
<1> QED
  BY <1>2, <1>3, <1>4, <1>5, <1>6, <1>7

\* A type of the worker's record and of Docker, for the steps below.
RunnerType == [at : {"idle", "build", "net", "create", "finish"},
               package : Package \cup {NoPackage}, net : BOOLEAN]
StoreType == [container : {"absent", "exited", "running"}, attached : BOOLEAN,
              images : SUBSET Package, volume : BOOLEAN, net : BOOLEAN, helper : BOOLEAN]
ServiceType == [row : Row, status : {"stopped", "running", "failed"} \cup BusyService,
                selected : Package \cup {NoPackage}, net : BOOLEAN, starts : 0 .. MaxStarts]
RemoverType == [at : {"idle", "purge", "net", "deploys", "service", "commit"},
                kind : {"none", "service", "owner", "package", "net"},
                package : Package \cup {NoPackage}, seen : SUBSET Package]

\* The worker, which may build for a service that is being deleted: then it excuses
\* what it leaves.
LEMMA WorkerSteps ==
    ASSUME ResourcesInv, Followed,
           \/ ClaimDeploy \/ BuildImage \/ EnsureNetwork \/ CreateContainer
           \/ FinishDeploy \/ FailDeploy \/ RunnerDies
    PROVE  ResourcesInv'
<1>1. ResourcesTypeOK /\ ResourcesClean
  BY DEF ResourcesInv
<1>2. /\ service \in ServiceType /\ store \in StoreType /\ runner \in RunnerType
      /\ task \in Package \cup {NoPackage}
  BY <1>1 DEF ResourcesTypeOK, ServiceType, StoreType, RunnerType
<1>3. CASE ClaimDeploy
  <2>1. UNCHANGED <<package, net, store, remover, excuse>> /\ task' = NoPackage
    BY <1>3 DEF ClaimDeploy, UnchangedRemoval
  <2>2. /\ service' \in ServiceType /\ service'.row = service.row
        /\ service'.net = service.net
    BY <1>2, <1>3 DEF ClaimDeploy, Set, ServiceType, BusyService
  <2>3. /\ runner' \in RunnerType
        /\ \/ runner' = runner
           \/ /\ task # NoPackage /\ runner'.at = "build" /\ runner'.net = service.net
              /\ runner'.package \in There
    BY <1>2, <1>3 DEF ClaimDeploy, RunnerType, ServiceType, There
  <2>4. ResourcesTypeOK'
    BY <1>1, <2>1, <2>2, <2>3 DEF ResourcesTypeOK, ServiceType, RunnerType
  <2>5. GoneClean' /\ NetworkClean'
    BY <1>1, <2>1, <2>2, <2>3 DEF ResourcesClean, GoneClean, NetworkClean, Excused
  <2>6. ImagesClean' /\ RemovalClean'
    BY <1>1, <2>1, <2>2, <2>3 DEF ResourcesClean, ImagesClean, RemovalClean, Excused, There
  <2> QED
    BY <2>4, <2>5, <2>6 DEF ResourcesInv, ResourcesClean
<1>4. CASE RunnerDies
  <2>1. UNCHANGED <<service, package, net, store, task, remover, excuse>> /\ runner' = NoBody
    BY <1>4 DEF RunnerDies, UnchangedRows, UnchangedRemoval
  <2>2. ResourcesTypeOK' /\ GoneClean' /\ NetworkClean'
    BY <1>1, <2>1 DEF ResourcesTypeOK, NoBody, ResourcesClean, GoneClean, NetworkClean, Excused
  <2>3. ImagesClean' /\ RemovalClean'
    BY <1>1, <2>1 DEF NoBody, ResourcesClean, ImagesClean, RemovalClean, Excused, There
  <2> QED
    BY <2>2, <2>3 DEF ResourcesInv, ResourcesClean
<1>5. CASE BuildImage \/ EnsureNetwork \/ CreateContainer \/ FinishDeploy \/ FailDeploy
  <2>1. /\ UNCHANGED <<package, net, task, remover>> /\ runner.at # "idle"
        /\ excuse' \subseteq excuse \cup {"worker"}
        /\ remover.at = "idle" => excuse' = excuse
        /\ remover.at # "idle" => "worker" \in excuse'
    BY <1>5 DEF BuildImage, EnsureNetwork, CreateContainer, FinishDeploy, FailDeploy, Works,
       WorksMeanwhile, UnchangedRows
  <2>2. /\ service' \in ServiceType /\ service'.row = service.row
        /\ service'.net = service.net
    BY <1>2, <1>5 DEF BuildImage, EnsureNetwork, CreateContainer, FinishDeploy, FailDeploy,
       UnchangedRows, Set, ServiceType, BusyService
  <2>3. /\ runner' \in RunnerType
        /\ \/ runner' = NoBody
           \/ runner'.at # "idle" /\ runner'.package = runner.package /\ runner'.net = runner.net
    <3>1. CASE FinishDeploy \/ FailDeploy
      <4>1. runner' = NoBody
        BY <3>1 DEF FinishDeploy, FailDeploy
      <4> QED
        BY <4>1 DEF NoBody, RunnerType
    <3>2. CASE BuildImage \/ EnsureNetwork \/ CreateContainer
      BY <1>2, <3>2 DEF BuildImage, EnsureNetwork, CreateContainer, Works, RunnerType
    <3> QED
      BY <1>5, <3>1, <3>2
  <2>4. /\ store' \in StoreType
        /\ store'.images \subseteq store.images \cup {runner.package}
        /\ store'.net => store.net \/ runner.net
    <3>0. ImagesClean /\ runner.package \in Package
      BY <1>1, <2>1 DEF ResourcesClean, ImagesClean, There
    <3>1. CASE BuildImage
      BY <1>2, <3>0, <3>1 DEF BuildImage, StoreType
    <3>2. CASE EnsureNetwork
      BY <1>2, <3>2 DEF EnsureNetwork, StoreType, RunnerType
    <3>3. CASE CreateContainer
      BY <1>2, <3>3 DEF CreateContainer, StoreType, RunnerType
    <3>4. CASE FinishDeploy \/ FailDeploy
      BY <1>2, <3>4 DEF FinishDeploy, FailDeploy, StoreType
    <3> QED
      BY <1>5, <3>1, <3>2, <3>3, <3>4
  <2>5. ResourcesTypeOK'
    BY <1>1, <2>1, <2>2, <2>3, <2>4 DEF ResourcesTypeOK, ServiceType, RunnerType, StoreType
  <2>6. ASSUME Followed' PROVE ResourcesClean'
    <3>1. remover.at = "idle" /\ excuse' = excuse
      BY <2>1, <2>6 DEF Followed
    <3>2. GoneClean' /\ NetworkClean'
      BY <1>1, <2>1, <2>2, <2>3, <2>4, <3>1 DEF ResourcesClean, GoneClean, NetworkClean, Excused,
         NoBody
    <3>3. ImagesClean' /\ RemovalClean'
      BY <1>1, <2>1, <2>2, <2>3, <2>4, <3>1 DEF ResourcesClean, ImagesClean, RemovalClean,
         Excused, There, NoBody
    <3> QED
      BY <3>2, <3>3 DEF ResourcesClean
  <2> QED
    BY <2>5, <2>6 DEF ResourcesInv
<1> QED
  BY <1>3, <1>4, <1>5

\* The helper of a request, and the requests and signals that delete.
LEMMA RemovalSteps ==
    ASSUME ResourcesInv, Followed,
           \/ ReadVolume \/ RemoveHelper
           \/ DestroyService \/ DestroyOwner \/ (\E p \in Package : DestroyDeploy(p))
           \/ (\E staff \in BOOLEAN : DestroyNetwork(staff))
           \/ PurgeRuntime \/ SignalNetwork \/ SignalDeploys \/ SignalService
    PROVE  ResourcesInv'
<1>1. ResourcesTypeOK /\ ResourcesClean
  BY DEF ResourcesInv
<1>2. /\ service \in ServiceType /\ store \in StoreType /\ remover \in RemoverType
      /\ excuse \subseteq {"worker", "docker", "unselected", "attached", "helper"}
  BY <1>1 DEF ResourcesTypeOK, ServiceType, StoreType, RemoverType
<1>3. CASE ReadVolume \/ RemoveHelper
  <2>1. /\ UNCHANGED <<service, package, net, task, runner, remover, excuse>>
        /\ store' \in StoreType /\ store'.images = store.images /\ store'.net = store.net
        /\ store'.volume = store.volume /\ store'.container = store.container
    BY <1>2, <1>3 DEF ReadVolume, RemoveHelper, StoreType, UnchangedRows, UnchangedWork,
       UnchangedRemoval
  <2> QED
    BY <1>1, <2>1 DEF ResourcesInv, ResourcesTypeOK, StoreType, ResourcesClean, GoneClean,
       NetworkClean, ImagesClean, RemovalClean, Excused, There
<1>4. CASE \/ DestroyService \/ DestroyOwner \/ (\E p \in Package : DestroyDeploy(p))
           \/ (\E staff \in BOOLEAN : DestroyNetwork(staff))
  <2>1. UNCHANGED <<service, package, net, store, task, runner, excuse>>
    BY <1>4 DEF DestroyService, DestroyOwner, DestroyDeploy, DestroyNetwork, At, UnchangedRows,
       UnchangedWork
  <2>2. /\ remover' \in RemoverType /\ remover'.seen = {}
        /\ \/ /\ remover'.at = "purge" /\ remover'.kind = "service" /\ service.row = "there"
           \/ /\ remover'.at = "net" /\ remover'.kind = "owner" /\ service.row = "there"
           \/ /\ remover'.at = "deploys" /\ remover'.kind = "owner" /\ service.row = "there"
              /\ net # "there"
           \/ /\ remover'.at = "deploys" /\ remover'.kind = "package"
              /\ remover'.package \in Package
           \/ remover'.at = "net" /\ remover'.kind = "net"
    BY <1>4 DEF DestroyService, DestroyOwner, DestroyDeploy, DestroyNetwork, NoRemoval,
       RemoverType
  <2>3. ResourcesTypeOK' /\ GoneClean' /\ NetworkClean' /\ ImagesClean'
    BY <1>1, <2>1, <2>2 DEF ResourcesTypeOK, RemoverType, ResourcesClean, GoneClean, NetworkClean,
       ImagesClean, There, Excused
  <2>4. RemovalClean'
    BY <1>1, <2>1, <2>2, <1>2 DEF ResourcesTypeOK, Row, RemovalClean, ResourcesClean, NetworkClean,
       Excused
  <2> QED
    BY <2>3, <2>4 DEF ResourcesInv, ResourcesClean
<1>5. CASE PurgeRuntime
  <2>1. /\ UNCHANGED <<package, net, task, runner>> /\ remover.at = "purge"
        /\ remover' = [remover EXCEPT !.at = "deploys"]
        /\ excuse' \in {excuse, excuse \cup {"docker"}}
    BY <1>5 DEF PurgeRuntime, Cleans, At, UnchangedWork, RemoverTo
  <2>2. /\ service' \in ServiceType /\ service'.row = service.row
        /\ service'.net = service.net
    BY <1>2, <1>5 DEF PurgeRuntime, Set, ServiceType
  <2>3. /\ store' \in StoreType /\ store'.images = store.images /\ store'.net = store.net
        /\ store'.volume = store.volume
        /\ store.container = "absent" => store'.container = "absent"
    BY <1>2, <1>5 DEF PurgeRuntime, Cleans, Removed, StoreType
  <2>4. /\ remover' \in RemoverType /\ remover'.at = "deploys"
        /\ remover'.kind = remover.kind /\ remover'.seen = remover.seen
        /\ remover'.package = remover.package
    BY <1>2, <2>1 DEF RemoverType
  <2>5. ResourcesTypeOK'
    BY <1>1, <2>1, <2>2, <2>3, <2>4 DEF ResourcesTypeOK, ServiceType, StoreType, RemoverType
  <2>6. GoneClean' /\ NetworkClean' /\ ImagesClean'
    BY <1>1, <2>1, <2>2, <2>3, <2>4 DEF ResourcesClean, GoneClean, NetworkClean, ImagesClean,
       There, Excused
  <2>7. RemovalClean'
    BY <1>1, <2>1, <2>2, <2>3, <2>4 DEF ResourcesClean, RemovalClean, Excused
  <2> QED
    BY <2>5, <2>6, <2>7 DEF ResourcesInv, ResourcesClean
<1>6. CASE SignalNetwork
  <2>1. /\ UNCHANGED <<service, package, net, task, runner>> /\ remover.at = "net"
        /\ excuse' \in {excuse, excuse \cup {"docker"}, excuse \cup {"attached"}}
    BY <1>6 DEF SignalNetwork, Cleans, At, UnchangedWork, UnchangedRows
  <2>2. /\ store' \in StoreType /\ store'.images = store.images
        /\ store'.volume = store.volume /\ store'.container = store.container
        /\ store'.net => store.net
        /\ Followed' => "attached" \in excuse' \/ ~store'.net
    BY <1>2, <1>6 DEF SignalNetwork, Cleans, StoreType, Followed
  <2>3. /\ remover' \in RemoverType
        /\ remover'.at = IF remover.kind = "net" THEN "commit" ELSE "deploys"
        /\ remover'.kind = remover.kind /\ remover'.seen = remover.seen
        /\ remover'.package = remover.package
    BY <1>2, <1>6 DEF SignalNetwork, RemoverTo, RemoverType
  <2>4. ResourcesTypeOK'
    BY <1>1, <2>1, <2>2, <2>3 DEF ResourcesTypeOK, ServiceType, StoreType, RemoverType
  <2>5. GoneClean' /\ NetworkClean' /\ ImagesClean'
    BY <1>1, <2>1, <2>2, <2>3 DEF ResourcesClean, GoneClean, NetworkClean, ImagesClean,
       There, Excused
  <2>6. Followed' => RemovalClean'
    BY <1>1, <2>1, <2>2, <2>3 DEF ResourcesClean, RemovalClean, Excused
  <2> QED
    BY <2>4, <2>5, <2>6 DEF ResourcesInv, ResourcesClean
<1>7. CASE SignalDeploys
  <2> DEFINE doomed == IF remover.kind = "package" THEN {remover.package} ELSE There
  <2>1. /\ UNCHANGED <<service, package, net, task, runner>> /\ remover.at = "deploys"
        /\ excuse' \in {excuse, excuse \cup {"docker"}, excuse \cup {"unselected"}}
    BY <1>7 DEF SignalDeploys, Cleans, At, UnchangedWork, UnchangedRows
  <2>2. /\ store' \in StoreType /\ store'.images \subseteq store.images
        /\ store'.volume = store.volume /\ store'.net = store.net
        /\ store.container = "absent" => store'.container = "absent"
        /\ Followed' => "unselected" \in excuse' \/ store'.images \cap doomed = {}
    BY ZenonT(30), <1>2, <1>7 DEF SignalDeploys, Cleans, StoreType, Followed, Removed
  <2>3. doomed \subseteq Package
    BY <1>1, <1>2, <2>1 DEF ResourcesClean, RemovalClean, There
  <2>4. /\ remover' \in RemoverType
        /\ remover'.at = IF remover.kind = "package" THEN "commit" ELSE "service"
        /\ remover'.kind = remover.kind /\ remover'.seen = doomed
        /\ remover'.package = remover.package
    BY <1>2, <1>7, <2>3 DEF SignalDeploys, RemoverType
  <2>5. ResourcesTypeOK'
    BY <1>1, <2>1, <2>2, <2>4 DEF ResourcesTypeOK, ServiceType, StoreType, RemoverType
  <2>6. GoneClean' /\ NetworkClean' /\ ImagesClean'
    BY <1>1, <2>1, <2>2, <2>4 DEF ResourcesClean, GoneClean, NetworkClean, ImagesClean,
       There, Excused
  <2> HIDE DEF doomed
  <2>7. Followed' => RemovalClean'
    BY <1>1, <2>1, <2>2, <2>4 DEF ResourcesClean, RemovalClean, Excused
  <2> QED
    BY <2>5, <2>6, <2>7 DEF ResourcesInv, ResourcesClean
<1>8. CASE SignalService
  <2>1. /\ UNCHANGED <<service, package, net, task, runner>> /\ remover.at = "service"
        /\ excuse' \in {excuse, excuse \cup {"docker"}, excuse \cup {"helper"}}
    BY <1>8 DEF SignalService, Cleans, At, UnchangedWork, UnchangedRows
  <2>2. /\ store' \in StoreType /\ store'.images = store.images /\ store'.net = store.net
        /\ Followed' => /\ store'.container = "absent"
                        /\ "helper" \in excuse' \/ ~store'.volume
    BY <1>2, <1>8 DEF SignalService, Cleans, StoreType, Followed, Removed
  <2>3. /\ remover' \in RemoverType /\ remover'.at = "commit"
        /\ remover'.kind = remover.kind /\ remover'.seen = remover.seen
        /\ remover'.package = remover.package
    BY <1>2, <1>8 DEF SignalService, RemoverTo, RemoverType
  <2>4. ResourcesTypeOK'
    BY <1>1, <2>1, <2>2, <2>3 DEF ResourcesTypeOK, ServiceType, StoreType, RemoverType
  <2>5. GoneClean' /\ NetworkClean' /\ ImagesClean'
    BY <1>1, <2>1, <2>2, <2>3 DEF ResourcesClean, GoneClean, NetworkClean, ImagesClean,
       RemovalClean, There, Excused
  <2>6. Followed' => RemovalClean'
    BY <1>1, <2>1, <2>2, <2>3 DEF ResourcesClean, RemovalClean, Excused
  <2> QED
    BY <2>4, <2>5, <2>6 DEF ResourcesInv, ResourcesClean
<1> QED
  BY <1>3, <1>4, <1>5, <1>6, <1>7, <1>8

\* The rows go, or the deletion fails as a whole.
LEMMA CommitStep ==
    ASSUME ResourcesInv, Followed, CommitRemoval
    PROVE  ResourcesInv'
<1>1. ResourcesTypeOK /\ ResourcesClean
  BY DEF ResourcesInv
<1>2. /\ service \in ServiceType /\ remover \in RemoverType /\ package \in [Package -> Row]
  BY <1>1 DEF ResourcesTypeOK, ServiceType, RemoverType
<1>3. UNCHANGED <<store, task, runner>> /\ remover' = NoRemoval /\ remover.at = "commit"
  BY DEF CommitRemoval, At, UnchangedWork
<1>4. RemovalClean'
  BY <1>3 DEF RemovalClean, NoRemoval
<1>5. remover' \in RemoverType
  BY <1>3 DEF RemoverType, NoRemoval
<1>6. CASE Conflict /\ UnchangedRows /\ UNCHANGED excuse
  BY <1>1, <1>3, <1>4, <1>5, <1>6 DEF UnchangedRows, ResourcesInv, ResourcesTypeOK, RemoverType,
     ResourcesClean, GoneClean, NetworkClean, ImagesClean, Excused, There
<1>7. CASE ~(Conflict /\ UnchangedRows /\ UNCHANGED excuse)
  <2> DEFINE whole == remover.kind \in {"service", "owner"}
  <2>1. /\ ~Conflict /\ excuse' = excuse \cup Overtakes
        /\ package' = [p \in Package |-> IF p \in remover.seen THEN "gone" ELSE package[p]]
        /\ service' = [service EXCEPT
              !.row = IF whole THEN "gone" ELSE service.row,
              !.selected = IF service.selected \in remover.seen THEN NoPackage
                           ELSE service.selected,
              !.net = service.net /\ remover.kind = "package"]
        /\ net' = IF remover.kind \in {"net", "owner"} /\ net = "there" THEN "gone" ELSE net
    BY <1>7 DEF CommitRemoval
  <2>2. /\ service' \in ServiceType
        /\ service'.row = IF whole THEN "gone" ELSE service.row
        /\ service'.net => service.net /\ remover.kind = "package"
    BY <1>2, <2>1 DEF ServiceType, Row
  <2>3. package' \in [Package -> Row] /\ There' = There \ remover.seen
    BY <1>2, <2>1 DEF There, Row
  <2>4. ResourcesTypeOK'
    BY <1>1, <1>3, <1>5, <2>1, <2>2, <2>3 DEF ResourcesTypeOK, RemoverType, ServiceType, Overtakes,
       Row
  <2>5. ASSUME Followed' PROVE GoneClean' /\ NetworkClean' /\ ImagesClean'
    <3>1. runner.at = "idle" /\ task = NoPackage /\ excuse' = excuse
      BY <2>1, <2>5 DEF Followed, Overtakes
    <3>2. whole => There = remover.seen
      BY <2>1 DEF Conflict
    <3>3. whole => Excused("unselected") \/ store.images = {}
      BY <1>1, <1>3, <3>2 DEF ResourcesClean, ImagesClean, RemovalClean
    <3>4. GoneClean'
      BY <1>1, <1>3, <2>2, <3>1, <3>3 DEF ResourcesClean, GoneClean, RemovalClean, Excused
    <3>5. NetworkClean'
      BY <1>1, <1>3, <2>1, <2>2, <3>1 DEF ResourcesClean, NetworkClean, RemovalClean, Excused
    <3>6. ImagesClean'
      BY <1>1, <1>3, <2>3, <3>1 DEF ResourcesClean, ImagesClean, RemovalClean, Excused
    <3> QED
      BY <3>4, <3>5, <3>6
  <2> QED
    BY <1>4, <2>4, <2>5 DEF ResourcesInv, ResourcesClean
<1> QED
  BY <1>6, <1>7

\* The inductive invariant of what a service has in Docker.
THEOREM ResourcesInvariant == ResourcesSpec => []ResourcesInv
<1>1. ResourcesInit => ResourcesInv
  BY ResourcesAssumption DEF ResourcesInit, ResourcesInv, ResourcesTypeOK, Row, NoBody, NoRemoval,
     ResourcesClean, GoneClean, NetworkClean, ImagesClean, RemovalClean, There, Excused, BusyService
<1>2. ResourcesInv /\ [ResourcesNext]_resourcesVars => ResourcesInv'
  <2>1. ASSUME ResourcesInv, ResourcesNext
        PROVE  ResourcesInv'
    BY <2>1, RowSteps, WorkerSteps, RemovalSteps, CommitStep DEF ResourcesNext, ResourcesStep
  <2>2. ASSUME ResourcesInv, UNCHANGED resourcesVars
        PROVE  ResourcesInv'
    BY <2>2 DEF resourcesVars, ResourcesInv, ResourcesTypeOK, Followed, ResourcesClean, GoneClean,
       NetworkClean, ImagesClean, RemovalClean, Excused, There
  <2> QED
    BY <2>1, <2>2
<1> QED
  BY <1>1, <1>2, PTL DEF ResourcesSpec

\* When the rows of a service and its network are gone, nothing of them is left in
\* Docker, for any number of deploys; the code is the signals of services and deploys,
\* and the requests' purge, with the excuses NothingLeft names.
THEOREM NothingIsLeft == ResourcesSpec => []NothingLeft
<1>1. ResourcesInv => NothingLeft
  BY DEF ResourcesInv, NothingLeft, ResourcesClean, GoneClean, NetworkClean, Excused
<1> QED
  BY <1>1, ResourcesInvariant, PTL

-----------------------------------------------------------------------------
(* Volumes: the quota, and no volume in two containers. *)

Claims(q) == q.op \in Allocating

\* A request that has been checked against the quota fits into it together with what
\* its service owns otherwise, until it is written, and is the only one of its service.
Budgeted ==
    /\ \A s \in Owner : Used(s) <= Quota
    /\ \A q \in requests : Claims(q) =>
         /\ q.row.owner = q.to
         /\ q.to \in Owner => UsedWithout(q.to, q.vol) + q.row.size <= Quota
    /\ \A q, r \in requests : Claims(q) /\ Claims(r) /\ q.to = r.to /\ q.to \in Owner => q = r

Held(s) == owner[s].binds \cup owner[s].specs

\* A worker has volumes in hands only while it deploys, a service only in its container.
HoldsInUse ==
    \A s \in Owner :
        /\ owner[s].working => owner[s].status = "deploying"
        /\ ~owner[s].working => owner[s].specs = {}
        /\ ~owner[s].box => owner[s].binds = {}

\* What is held has no other owner; what is mounted, Docker has, row or no row.
HoldsOwn ==
    \A s \in Owner :
        /\ \A v \in owner[s].binds : volume[v].docker
        /\ \A v \in Held(s) : volume[v].exists => volume[v].owner = s

HoldsApart == \A s, t \in Owner : s # t => Held(s) \cap Held(t) = {}

\* The one request under way finds what it has checked when it writes.
StillChecked(q) ==
    /\ \A r \in requests : r = q
    /\ Claims(q) => q.row.owner = q.to
    /\ q.op = "create" => /\ ~volume[q.vol].exists /\ ~volume[q.vol].docker
                          /\ \A s \in Owner : q.vol \notin Held(s)
    /\ q.op = "resize" => volume[q.vol].exists /\ volume[q.vol].owner = q.to
    /\ q.op = "attach" => volume[q.vol].exists /\ volume[q.vol].owner \in {NoOwner, q.to}
    /\ q.op = "release" => /\ q.to \in Owner /\ volume[q.vol].owner = q.to
                           /\ owner[q.to].status = "idle" /\ ~owner[q.to].box
    /\ q.op \in {"purge", "delete"} => q.to \in Owner /\ owner[q.to].status \in {"idle", "running"}

HoldsClean == HoldsInUse /\ HoldsOwn /\ HoldsApart /\ \A q \in requests : StillChecked(q)

VolumesInv ==
    /\ VolumesTypeOK
    /\ "quota" \notin disturbed => Budgeted
    /\ disturbed = {} => HoldsClean

\* The row of no volume is a row.
LEMMA NoVolumeTyped == NoVolume \in VolumeRow
<1>1. (CHOOSE n \in Sizes : TRUE) \in Sizes
  BY VolumesAssumption
<1> QED
  BY <1>1 DEF NoVolume, VolumeRow

\* The types of a request that has passed its checks.
LEMMA RequestsTyped ==
    ASSUME VolumesTypeOK, NEW op \in VolumeOp, NEW v \in Volume, NEW s \in Owner \cup {NoOwner},
           NEW row \in VolumeRow, VolumeRequested(op, v, s, row)
    PROVE  VolumesTypeOK'
<1>1. [op |-> op, vol |-> v, to |-> s, row |-> row] \in VolumeRequest
  BY DEF VolumeRequest
<1> QED
  BY <1>1 DEF VolumesTypeOK, VolumeRequested, Overlap, Crowds

\* The types of a written request.
LEMMA WritesTyped ==
    ASSUME VolumesTypeOK, NEW q \in requests, WriteVolume(q)
    PROVE  VolumesTypeOK'
<1>1. q \in VolumeRequest
  BY DEF VolumesTypeOK
<1>2. requests' \subseteq VolumeRequest /\ disturbed' = disturbed
  BY DEF VolumesTypeOK, WriteVolume
<1>3. CASE q.op \in {"create", "resize", "attach"}
  <2>1. [q.row EXCEPT !.docker = volume[q.vol].docker] \in VolumeRow
    BY <1>1 DEF VolumesTypeOK, VolumeRequest, VolumeRow
  <2> QED
    BY <1>1, <1>2, <1>3, <2>1 DEF VolumesTypeOK, VolumeRequest, WriteVolume
<1>4. CASE q.op = "detach"
  <2>1. [volume[q.vol] EXCEPT !.attached = FALSE] \in VolumeRow
    BY <1>1 DEF VolumesTypeOK, VolumeRequest, VolumeRow
  <2> QED
    BY <1>1, <1>2, <1>4, <2>1 DEF VolumesTypeOK, VolumeRequest, WriteVolume
<1>5. CASE q.op = "release"
  <2>1. volume' = [volume EXCEPT ![q.vol] = [volume[q.vol] EXCEPT !.attached = FALSE,
                                                                  !.owner = NoOwner]]
    BY <1>1, <1>5 DEF WriteVolume, VolumesTypeOK, VolumeRequest, VolumeRow
  <2>2. [volume[q.vol] EXCEPT !.attached = FALSE, !.owner = NoOwner] \in VolumeRow
    BY <1>1 DEF VolumesTypeOK, VolumeRequest, VolumeRow
  <2> QED
    BY <1>1, <1>2, <1>5, <2>1, <2>2 DEF VolumesTypeOK, VolumeRequest, WriteVolume
<1>6. CASE q.op = "destroy"
  <2>1. \A mounted \in BOOLEAN : [NoVolume EXCEPT !.docker = mounted] \in VolumeRow
    BY NoVolumeTyped DEF VolumeRow
  <2> QED
    BY ZenonT(30), <1>1, <1>2, <1>6, <2>1 DEF VolumesTypeOK, VolumeRequest, WriteVolume, Destroyed
<1>7. CASE q.op = "purge"
  <2>1. q.to \in Owner =>
          [owner[q.to] EXCEPT !.status = IF owner[q.to].status = "deleted" THEN "deleted"
                                         ELSE "idle",
                              !.box = FALSE, !.binds = {}] \in OwnerRow
    <3>1. ASSUME NEW row \in OwnerRow
          PROVE  [row EXCEPT !.status = IF row.status = "deleted" THEN "deleted" ELSE "idle",
                             !.box = FALSE, !.binds = {}] \in OwnerRow
      BY DEF OwnerRow
    <3> QED
      BY <3>1 DEF VolumesTypeOK
  <2> QED
    BY <1>2, <1>7, <2>1 DEF VolumesTypeOK, WriteVolume
<1>8. CASE q.op = "delete"
  <2>1. q.to \in Owner =>
          [owner[q.to] EXCEPT !.status = "deleted", !.box = FALSE, !.binds = {}] \in OwnerRow
    BY ZenonT(30) DEF VolumesTypeOK, OwnerRow
  <2>2. \A v \in Volume : [NoVolume EXCEPT !.docker = volume[v].docker /\
                            \E t \in Owner \ {q.to} : v \in owner[t].binds] \in VolumeRow
    BY NoVolumeTyped DEF VolumeRow
  <2>3. volume' \in [Volume -> VolumeRow]
    BY <1>8, <2>2 DEF VolumesTypeOK, WriteVolume, OwnerDeleted
  <2> QED
    BY <1>2, <1>8, <2>1, <2>3 DEF VolumesTypeOK, WriteVolume, OwnerDeleted
<1> QED
  BY <1>1, <1>3, <1>4, <1>5, <1>6, <1>7, <1>8 DEF VolumeRequest, VolumeOp

\* The types of what start, stop and the workers write.
LEMMA WorkersTyped ==
    ASSUME VolumesTypeOK, NEW s \in Owner,
           StartOwner(s) \/ CollectVolumes(s) \/ StopOwner(s) \/ MountVolumes(s) \/ OwnerStopped(s)
    PROVE  VolumesTypeOK'
<1> USE DEF VolumesTypeOK
<1>1. CASE StartOwner(s) \/ StopOwner(s)
  <2>1. \A status \in {"queued", "stopping"} : [owner[s] EXCEPT !.status = status] \in OwnerRow
    BY DEF OwnerRow
  <2> QED
    BY <1>1, <2>1 DEF StartOwner, StopOwner, Overlap
<1>2. CASE CollectVolumes(s)
  <2>1. \A vs \in SUBSET Volume :
          [owner[s] EXCEPT !.status = "deploying", !.working = TRUE, !.specs = vs] \in OwnerRow
    BY DEF OwnerRow
  <2>2. \A size \in Sizes : [exists |-> TRUE, owner |-> s, size |-> size, attached |-> TRUE,
                             docker |-> FALSE] \in VolumeRow
    BY DEF VolumeRow
  <2>3. Specs(s) \in SUBSET Volume /\ \A v \in Volume : {v} \in SUBSET Volume
    BY DEF Specs, Owned
  <2>4. disturbed' \subseteq {"overlap", "staff", "quota"} /\ requests' = requests
    BY <1>2 DEF CollectVolumes, Crowds
  <2>5. owner' \in [Owner -> OwnerRow]
    <3>1. \E vs \in SUBSET Volume : owner' = [owner EXCEPT ![s] =
              [owner[s] EXCEPT !.status = "deploying", !.working = TRUE, !.specs = vs]]
      BY <1>2, <2>3 DEF CollectVolumes
    <3> QED
      BY <2>1, <3>1
  <2>6. volume' \in [Volume -> VolumeRow]
    BY ZenonT(30), <1>2, <2>2 DEF CollectVolumes
  <2> QED
    BY <2>4, <2>5, <2>6
<1>3. CASE MountVolumes(s)
  <2>1. \A v \in Volume : [volume[v] EXCEPT !.docker = TRUE] \in VolumeRow
    BY DEF VolumeRow
  <2>2. /\ [owner[s] EXCEPT !.status = IF owner[s].status = "deploying" THEN "running"
                                       ELSE owner[s].status,
                            !.box = TRUE, !.binds = owner[s].specs,
                            !.working = FALSE, !.specs = {}] \in OwnerRow
        /\ [owner[s] EXCEPT !.status = IF owner[s].status = "deploying" THEN "idle"
                                       ELSE owner[s].status,
                            !.working = FALSE, !.specs = {}] \in OwnerRow
    BY DEF OwnerRow
  <2>3. volume' \in [Volume -> VolumeRow]
    BY <1>3, <2>1 DEF MountVolumes
  <2> QED
    BY <1>3, <2>2, <2>3 DEF MountVolumes
<1>4. CASE OwnerStopped(s)
  <2>1. [owner[s] EXCEPT !.status = "idle", !.box = FALSE, !.binds = {}] \in OwnerRow
    BY DEF OwnerRow
  <2> QED
    BY <1>4, <2>1 DEF OwnerStopped
<1> QED
  BY <1>1, <1>2, <1>3, <1>4

\* The units of space that some volumes take.
Cells(vol, vs) == UNION {{v} \X (1 .. vol[v].size) : v \in vs}

\* Which units these are.
LEMMA CellsAre ==
    ASSUME NEW vol, NEW vs, NEW c
    PROVE  c \in Cells(vol, vs) <=> \E v \in vs : c \in {v} \X (1 .. vol[v].size)
BY DEF Cells

\* One volume takes as many units as its size.
LEMMA CellsOfOne ==
    ASSUME NEW v, NEW n \in Nat
    PROVE  IsFiniteSet({v} \X (1 .. n)) /\ Cardinality({v} \X (1 .. n)) = n
<1>1. IsFiniteSet({v}) /\ Cardinality({v}) = 1
  BY FS_Singleton
<1>2. IsFiniteSet(1 .. n) /\ Cardinality(1 .. n) = n
  BY FS_Interval
<1>3. /\ IsFiniteSet({v} \X (1 .. n))
      /\ Cardinality({v} \X (1 .. n)) = Cardinality({v}) * Cardinality(1 .. n)
  <2> DEFINE S == {v}
             T == 1 .. n
  <2>1. IsFiniteSet(S) /\ IsFiniteSet(T)
    BY <1>1, <1>2
  <2> HIDE DEF S, T
  <2>2. IsFiniteSet(S \X T) /\ Cardinality(S \X T) = Cardinality(S) * Cardinality(T)
    BY <2>1, FS_Product
  <2> QED
    BY <2>2 DEF S, T
<1>4. 1 * n = n
  OBVIOUS
<1> QED
  BY <1>1, <1>2, <1>3, <1>4

\* Finitely many volumes take a finite number of units.
LEMMA CellsFinite ==
    ASSUME NEW vol \in [Volume -> VolumeRow], NEW vs \in SUBSET Volume
    PROVE  IsFiniteSet(Cells(vol, vs)) /\ Cardinality(Cells(vol, vs)) \in Nat
<1> DEFINE f == [v \in vs |-> {v} \X (1 .. vol[v].size)]
           T == {{v} \X (1 .. vol[v].size) : v \in vs}
<1>1. IsFiniteSet(vs)
  BY VolumesAssumption, FS_Subset
<1>2. f \in Surjection(vs, T)
  BY DEF Surjection
<1>3. IsFiniteSet(T)
  <2> HIDE DEF f, T
  <2> QED
    BY <1>1, <1>2, FS_Surjection
<1>4. \A c \in T : IsFiniteSet(c)
  <2>1. \A v \in vs : vol[v].size \in Nat
    BY VolumesAssumption DEF VolumeRow
  <2>2. \A v \in vs : IsFiniteSet({v} \X (1 .. vol[v].size))
    BY <2>1, CellsOfOne
  <2> QED
    BY <2>2
<1>5. IsFiniteSet(UNION T)
  <2> HIDE DEF T
  <2> QED
    BY <1>3, <1>4, FS_UNION
<1>6. IsFiniteSet(Cells(vol, vs))
  BY <1>5 DEF Cells
<1> QED
  BY <1>6, FS_CardinalityType

\* Fewer volumes of the same sizes take no more space.
LEMMA SpaceShrinks ==
    ASSUME NEW vol \in [Volume -> VolumeRow], NEW new \in [Volume -> VolumeRow],
           NEW ws \in SUBSET Volume, NEW vs \in SUBSET ws,
           \A v \in vs : new[v].size = vol[v].size
    PROVE  /\ Cardinality(Cells(new, vs)) \in Nat /\ Cardinality(Cells(vol, ws)) \in Nat
           /\ Cardinality(Cells(new, vs)) <= Cardinality(Cells(vol, ws))
<1>1. Cells(new, vs) \subseteq Cells(vol, ws)
  BY CellsAre
<1>2. IsFiniteSet(Cells(vol, ws)) /\ Cardinality(Cells(vol, ws)) \in Nat
  BY CellsFinite
<1>3. Cardinality(Cells(new, vs)) \in Nat
  BY CellsFinite
<1> QED
  BY <1>1, <1>2, <1>3, FS_Subset

\* One more volume takes no more than its size.
LEMMA SpaceGrows ==
    ASSUME NEW vol \in [Volume -> VolumeRow], NEW new \in [Volume -> VolumeRow],
           NEW ws \in SUBSET Volume, NEW v \in Volume, NEW vs \in SUBSET (ws \cup {v}),
           \A u \in vs \ {v} : new[u].size = vol[u].size
    PROVE  Cardinality(Cells(new, vs)) <= Cardinality(Cells(vol, ws)) + new[v].size
<1> DEFINE A == Cells(vol, ws)
           B == {v} \X (1 .. new[v].size)
<1>1. new[v].size \in Nat
  BY VolumesAssumption DEF VolumeRow
<1>2. IsFiniteSet(A) /\ Cardinality(A) \in Nat
  BY CellsFinite
<1>3. IsFiniteSet(B) /\ Cardinality(B) = new[v].size
  BY <1>1, CellsOfOne
<1>4. Cells(new, vs) \subseteq A \cup B
  BY CellsAre
<1>5. Cardinality(Cells(new, vs)) \in Nat
  BY CellsFinite
<1> HIDE DEF A, B
<1>6. /\ IsFiniteSet(A \cup B)
      /\ Cardinality(A \cup B) = Cardinality(A) + Cardinality(B) - Cardinality(A \cap B)
  BY <1>2, <1>3, FS_Union
<1>7. Cardinality(A \cap B) \in Nat
  BY <1>2, FS_Intersection, FS_CardinalityType
<1>8. Cardinality(Cells(new, vs)) <= Cardinality(A \cup B)
  BY <1>4, <1>6, FS_Subset
<1>9. Cardinality(Cells(new, vs)) <= Cardinality(A) + new[v].size
  BY <1>1, <1>2, <1>3, <1>5, <1>6, <1>7, <1>8
<1> QED
  BY <1>9 DEF A

\* What is added up, with the rows as an argument.
LEMMA UsedIs ==
    \A s : /\ Used(s) = Cardinality(Cells(volume, Owned(s)))
           /\ \A v : UsedWithout(s, v) = Cardinality(Cells(volume, Owned(s) \ {v}))
BY DEF Used, UsedWithout, Space, Cells

\* The same after a step.
LEMMA UsedIsNext ==
    \A s : /\ Used(s)' = Cardinality(Cells(volume', Owned(s)'))
           /\ \A v : UsedWithout(s, v)' = Cardinality(Cells(volume', Owned(s)' \ {v}))
BY DEF Used, UsedWithout, Space, Cells

\* When no service owns more than before, and no request is new, the quota is kept.
LEMMA BudgetShrinks ==
    ASSUME VolumesTypeOK, VolumesTypeOK', Budgeted, requests' \subseteq requests,
           \A v \in Volume : volume'[v].exists /\ volume'[v].owner \in Owner =>
               /\ volume[v].exists /\ volume[v].owner = volume'[v].owner
               /\ volume[v].size = volume'[v].size
    PROVE  Budgeted'
<1>1. volume \in [Volume -> VolumeRow] /\ volume' \in [Volume -> VolumeRow]
  BY DEF VolumesTypeOK
<1>2. ASSUME NEW s \in Owner
      PROVE  /\ Owned(s)' \subseteq Owned(s) /\ Owned(s) \subseteq Volume
             /\ \A v \in Owned(s)' : volume'[v].size = volume[v].size
  BY DEF Owned
<1>3. ASSUME NEW s \in Owner PROVE Used(s)' <= Quota
  <2>1. /\ Used(s)' \in Nat /\ Used(s) \in Nat /\ Used(s)' <= Used(s)
    BY <1>1, <1>2, SpaceShrinks, UsedIs, UsedIsNext
  <2> QED
    BY <2>1, VolumesAssumption DEF Budgeted
<1>4. ASSUME NEW q \in requests', Claims(q), q.to \in Owner
      PROVE  UsedWithout(q.to, q.vol)' + q.row.size <= Quota
  <2>1. /\ Owned(q.to)' \ {q.vol} \subseteq Owned(q.to) \ {q.vol}
        /\ Owned(q.to) \ {q.vol} \subseteq Volume
        /\ \A v \in Owned(q.to)' \ {q.vol} : volume'[v].size = volume[v].size
    BY <1>2, <1>4
  <2>2. /\ UsedWithout(q.to, q.vol)' \in Nat /\ UsedWithout(q.to, q.vol) \in Nat
        /\ UsedWithout(q.to, q.vol)' <= UsedWithout(q.to, q.vol)
    BY <1>1, <2>1, SpaceShrinks, UsedIs, UsedIsNext
  <2>3. UsedWithout(q.to, q.vol) + q.row.size <= Quota /\ q.row.size \in Nat
    BY <1>4, VolumesAssumption DEF Budgeted, VolumesTypeOK, VolumeRequest, VolumeRow
  <2> QED
    BY <2>2, <2>3, VolumesAssumption
<1> QED
  BY <1>3, <1>4 DEF Budgeted, Claims

\* A request passes its checks.
LEMMA BudgetRequested ==
    ASSUME VolumesTypeOK, Budgeted, NEW op \in VolumeOp, NEW v \in Volume,
           NEW s \in Owner \cup {NoOwner}, NEW row \in VolumeRow,
           VolumeRequested(op, v, s, row), "quota" \notin disturbed',
           op \in Allocating => row.owner = s /\ MayAllocate(s, v, row.size)
    PROVE  Budgeted'
<1> DEFINE q == [op |-> op, vol |-> v, to |-> s, row |-> row]
<1>1. UNCHANGED <<volume, owner>> /\ requests' = requests \cup {q}
  BY DEF VolumeRequested
<1>2. /\ \A t \in Owner : Used(t)' = Used(t)
      /\ \A t \in Owner, u \in Volume : UsedWithout(t, u)' = UsedWithout(t, u)
  BY <1>1 DEF Used, UsedWithout, Space, Owned
<1>3. op \in Allocating /\ s \in Owner => \A r \in requests : Claims(r) => r.to # s
  BY VolumesAssumption DEF VolumeRequested, Crowds, Claims
<1>4. op \in Allocating /\ s \in Owner => UsedWithout(s, v) + row.size <= Quota
  BY VolumesAssumption DEF MayAllocate
<1>5. \A r \in requests : r.vol \in Volume
  BY DEF VolumesTypeOK, VolumeRequest
<1>6. \A t \in Owner : Used(t)' <= Quota
  BY <1>2 DEF Budgeted
<1>7. \A r \in requests' : Claims(r) =>
         /\ r.row.owner = r.to
         /\ r.to \in Owner => UsedWithout(r.to, r.vol)' + r.row.size <= Quota
  BY <1>1, <1>2, <1>4, <1>5 DEF Budgeted, Claims
<1>8. \A r, t \in requests' :
         Claims(r) /\ Claims(t) /\ r.to = t.to /\ r.to \in Owner => r = t
  BY <1>1, <1>3 DEF Budgeted, Claims
<1> QED
  BY <1>6, <1>7, <1>8 DEF Budgeted, Claims

\* A request that allocates is written, with the row as it was read.
LEMMA BudgetWritten ==
    ASSUME VolumesTypeOK, VolumesTypeOK', Budgeted, NEW q \in requests, Claims(q), WriteVolume(q)
    PROVE  Budgeted'
<1>1. /\ q \in VolumeRequest /\ q.row \in VolumeRow /\ q.vol \in Volume
      /\ volume \in [Volume -> VolumeRow] /\ volume' \in [Volume -> VolumeRow]
  BY DEF VolumesTypeOK, VolumeRequest
<1>2. /\ requests' = requests \ {q}
      /\ volume' = [volume EXCEPT ![q.vol] = [q.row EXCEPT !.docker = volume[q.vol].docker]]
  BY DEF WriteVolume, Claims, Allocating
<1>3. /\ \A v \in Volume \ {q.vol} : volume'[v] = volume[v]
      /\ volume'[q.vol].owner = q.to /\ volume'[q.vol].size = q.row.size
  BY <1>1, <1>2 DEF Budgeted, VolumeRow
<1>4. ASSUME NEW s \in Owner
      PROVE  /\ Owned(s)' \subseteq (Owned(s) \ {q.vol}) \cup {q.vol}
             /\ Owned(s) \ {q.vol} \subseteq Volume
             /\ s # q.to => Owned(s)' \subseteq Owned(s) \ {q.vol}
             /\ \A v \in Owned(s)' \ {q.vol} : volume'[v].size = volume[v].size
  BY <1>3 DEF Owned
<1>5. ASSUME NEW s \in Owner PROVE Used(s)' <= Quota
  <2>1. CASE s = q.to
    <3>1. Used(s)' <= UsedWithout(s, q.vol) + q.row.size
      <4>1. Cardinality(Cells(volume', Owned(s)')) <=
              Cardinality(Cells(volume, Owned(s) \ {q.vol})) + volume'[q.vol].size
        BY <1>1, <1>4, SpaceGrows
      <4> QED
        BY <4>1, <1>3, UsedIs, UsedIsNext
    <3>2. UsedWithout(s, q.vol) + q.row.size <= Quota
      BY <2>1 DEF Budgeted
    <3>3. /\ Used(s)' \in Nat /\ UsedWithout(s, q.vol) \in Nat
          /\ q.row.size \in Nat
      <4>1. Owned(s)' \subseteq Volume /\ Owned(s) \ {q.vol} \subseteq Volume
        BY DEF Owned
      <4> QED
        BY <4>1, <1>1, CellsFinite, UsedIs, UsedIsNext, VolumesAssumption DEF VolumeRow
    <3> QED
      BY <3>1, <3>2, <3>3, VolumesAssumption
  <2>2. CASE s # q.to
    <3>1. Owned(s)' \subseteq Owned(s) /\ Owned(s) \subseteq Volume
          /\ \A v \in Owned(s)' : volume'[v].size = volume[v].size
      BY <1>3, <2>2 DEF Owned
    <3>2. Used(s)' \in Nat /\ Used(s) \in Nat /\ Used(s)' <= Used(s)
      BY <1>1, <3>1, SpaceShrinks, UsedIs, UsedIsNext
    <3> QED
      BY <3>2, VolumesAssumption DEF Budgeted
  <2> QED
    BY <2>1, <2>2
<1>6. ASSUME NEW r \in requests', Claims(r), r.to \in Owner
      PROVE  UsedWithout(r.to, r.vol)' + r.row.size <= Quota
  <2>1. r \in requests /\ r.to # q.to /\ r.row.size \in Nat
    BY <1>2, <1>6, VolumesAssumption DEF Budgeted, VolumesTypeOK, VolumeRequest, VolumeRow
  <2>2. /\ Owned(r.to)' \ {r.vol} \subseteq Owned(r.to) \ {r.vol}
        /\ Owned(r.to) \ {r.vol} \subseteq Volume
        /\ \A v \in Owned(r.to)' \ {r.vol} : volume'[v].size = volume[v].size
    BY <1>3, <1>6, <2>1 DEF Owned
  <2>3. /\ UsedWithout(r.to, r.vol)' \in Nat /\ UsedWithout(r.to, r.vol) \in Nat
        /\ UsedWithout(r.to, r.vol)' <= UsedWithout(r.to, r.vol)
    BY <1>1, <2>2, SpaceShrinks, UsedIs, UsedIsNext
  <2>4. UsedWithout(r.to, r.vol) + r.row.size <= Quota
    BY <1>6, <2>1 DEF Budgeted
  <2> QED
    BY <2>1, <2>3, <2>4, VolumesAssumption
<1> QED
  BY <1>2, <1>5, <1>6 DEF Budgeted, Claims

\* A worker gives a database service its first volume.
LEMMA BudgetCollected ==
    ASSUME VolumesTypeOK, VolumesTypeOK', Budgeted, NEW s \in Owner, CollectVolumes(s),
           "quota" \notin disturbed'
    PROVE  Budgeted'
<1>1. volume \in [Volume -> VolumeRow] /\ volume' \in [Volume -> VolumeRow]
  BY DEF VolumesTypeOK
<1>2. CASE UNCHANGED volume
  BY <1>2, BudgetShrinks DEF CollectVolumes
<1>3. ASSUME NEW v \in Volume, NEW size \in Sizes, Owned(s) = {}, Fresh(v),
             MayAllocate(s, v, size), Crowds(s) = {}, requests' = requests,
             volume' = [volume EXCEPT ![v] =
                [exists |-> TRUE, owner |-> s, size |-> size, attached |-> TRUE, docker |-> FALSE]]
      PROVE  Budgeted'
  <2>1. /\ \A u \in Volume \ {v} : volume'[u] = volume[u]
        /\ volume'[v].owner = s /\ volume'[v].size = size /\ ~volume[v].exists
    BY <1>1, <1>3 DEF Fresh
  <2>2. Used(s)' <= Quota
    <3>1. /\ Owned(s)' \subseteq (Owned(s) \ {v}) \cup {v} /\ Owned(s) \ {v} \subseteq Volume
          /\ \A u \in Owned(s)' \ {v} : volume'[u].size = volume[u].size
      BY <2>1 DEF Owned
    <3>2. Used(s)' <= UsedWithout(s, v) + size
      BY <1>1, <2>1, <3>1, SpaceGrows, UsedIs, UsedIsNext
    <3>3. Used(s)' \in Nat /\ UsedWithout(s, v) \in Nat /\ size \in Nat
      <4>1. Owned(s)' \subseteq Volume /\ Owned(s) \ {v} \subseteq Volume
        BY DEF Owned
      <4> QED
        BY <4>1, <1>1, CellsFinite, UsedIs, UsedIsNext, VolumesAssumption
    <3>4. UsedWithout(s, v) + size <= Quota
      BY <1>3, VolumesAssumption DEF MayAllocate
    <3> QED
      BY <3>2, <3>3, <3>4, VolumesAssumption
  <2>3. ASSUME NEW t \in Owner, t # s
        PROVE  /\ Owned(t)' = Owned(t) /\ Owned(t) \subseteq Volume
               /\ \A u \in Owned(t) : volume'[u].size = volume[u].size
    BY <2>1, <2>3 DEF Owned
  <2>4. ASSUME NEW t \in Owner, t # s PROVE Used(t)' <= Quota
    <3>1. Used(t)' \in Nat /\ Used(t) \in Nat /\ Used(t)' <= Used(t)
      BY <1>1, <2>3, <2>4, SpaceShrinks, UsedIs, UsedIsNext
    <3> QED
      BY <3>1, VolumesAssumption DEF Budgeted
  <2>5. ASSUME NEW r \in requests, Claims(r), r.to \in Owner
        PROVE  UsedWithout(r.to, r.vol)' + r.row.size <= Quota
    <3>1. r.to # s /\ r.row.size \in Nat
      BY <1>3, <2>5, VolumesAssumption DEF Crowds, Claims, VolumesTypeOK, VolumeRequest, VolumeRow
    <3>2. /\ Owned(r.to)' \ {r.vol} \subseteq Owned(r.to) \ {r.vol}
          /\ Owned(r.to) \ {r.vol} \subseteq Volume
          /\ \A u \in Owned(r.to)' \ {r.vol} : volume'[u].size = volume[u].size
      BY <2>3, <2>5, <3>1
    <3>3. /\ UsedWithout(r.to, r.vol)' \in Nat /\ UsedWithout(r.to, r.vol) \in Nat
          /\ UsedWithout(r.to, r.vol)' <= UsedWithout(r.to, r.vol)
      BY <1>1, <3>2, SpaceShrinks, UsedIs, UsedIsNext
    <3>4. UsedWithout(r.to, r.vol) + r.row.size <= Quota
      BY <2>5 DEF Budgeted
    <3> QED
      BY <3>1, <3>3, <3>4, VolumesAssumption
  <2> QED
    BY <1>3, <2>2, <2>4, <2>5 DEF Budgeted, Claims
<1>4. ~(UNCHANGED volume) =>
        \E v \in Volume, size \in Sizes :
           /\ Owned(s) = {} /\ Fresh(v) /\ MayAllocate(s, v, size)
           /\ volume' = [volume EXCEPT ![v] =
                [exists |-> TRUE, owner |-> s, size |-> size, attached |-> TRUE,
                 docker |-> FALSE]]
           /\ disturbed' = disturbed \cup Crowds(s)
  BY DEF CollectVolumes
<1>5. "quota" \notin disturbed \cup Crowds(s) => Crowds(s) = {}
  BY DEF Crowds
<1>6. requests' = requests
  BY DEF CollectVolumes
<1> QED
  BY <1>2, <1>3, <1>4, <1>5, <1>6

\* What the checks of a request see when no other is under way.
Passes(op, v, s, row) ==
    /\ op \in Allocating => row.owner = s
    /\ op = "create" => Fresh(v)
    /\ op = "resize" => volume[v].exists /\ volume[v].owner = s
    /\ op = "attach" => volume[v].exists /\ volume[v].owner \in {NoOwner, s}
    /\ op = "release" => /\ s \in Owner /\ volume[v].owner = s
                         /\ owner[s].status = "idle" /\ ~owner[s].box
    /\ op \in {"purge", "delete"} => s \in Owner /\ owner[s].status \in {"idle", "running"}

\* A request passes its checks.
LEMMA HoldsRequested ==
    ASSUME VolumesTypeOK, HoldsClean, NEW op \in VolumeOp, NEW v \in Volume,
           NEW s \in Owner \cup {NoOwner}, NEW row \in VolumeRow,
           VolumeRequested(op, v, s, row), disturbed' = {}, Passes(op, v, s, row)
    PROVE  HoldsClean'
<1> DEFINE q == [op |-> op, vol |-> v, to |-> s, row |-> row]
<1>1. UNCHANGED <<volume, owner>> /\ requests' = {q}
  BY DEF VolumeRequested, Overlap
<1>2. (HoldsInUse /\ HoldsOwn /\ HoldsApart)'
  BY <1>1 DEF HoldsClean, HoldsInUse, HoldsOwn, HoldsApart, Held
<1>3. op = "create" => \A t \in Owner : v \notin Held(t)
  BY DEF Passes, Fresh, HoldsClean, HoldsOwn, Held
<1>4. StillChecked(q)'
  BY <1>1, <1>3 DEF StillChecked, Passes, Claims, Fresh, Held
<1> QED
  BY <1>1, <1>2, <1>4 DEF HoldsClean

\* The one request under way is written.
LEMMA HoldsWritten ==
    ASSUME VolumesTypeOK, VolumesTypeOK', HoldsClean, NEW q \in requests, WriteVolume(q)
    PROVE  HoldsClean'
<1>1. /\ q \in VolumeRequest /\ StillChecked(q) /\ requests' = {}
      /\ volume \in [Volume -> VolumeRow] /\ owner \in [Owner -> OwnerRow]
  BY DEF VolumesTypeOK, HoldsClean, StillChecked, WriteVolume
<1>2. q.vol \in Volume /\ q.row \in VolumeRow /\ q.op \in VolumeOp
  BY <1>1 DEF VolumeRequest
<1>3. CASE q.op \in {"create", "resize", "attach", "detach", "release"}
  <2>1. /\ UNCHANGED owner /\ volume' \in [Volume -> VolumeRow]
        /\ \A v \in Volume \ {q.vol} : volume'[v] = volume[v]
        /\ volume'[q.vol].docker = volume[q.vol].docker
    BY <1>2, <1>3 DEF VolumesTypeOK, VolumeRow, WriteVolume
  <2>2. \A s \in Owner : q.vol \in Held(s) /\ volume'[q.vol].exists => volume'[q.vol].owner = s
    <3>1. CASE q.op \in {"create", "resize", "attach"}
      <4>1. volume'[q.vol].owner = q.to
        BY <1>1, <1>2, <3>1 DEF WriteVolume, VolumeRow, StillChecked, Claims, Allocating
      <4> QED
        BY <1>1, <3>1, <4>1, VolumesAssumption DEF StillChecked, HoldsClean, HoldsOwn
    <3>2. CASE q.op = "detach"
      <4>1. /\ volume'[q.vol].owner = volume[q.vol].owner
            /\ volume'[q.vol].exists = volume[q.vol].exists
        BY <1>1, <1>2, <3>2 DEF WriteVolume, VolumeRow
      <4> QED
        BY <4>1, <1>2 DEF HoldsClean, HoldsOwn
    <3>3. CASE q.op = "release"
      <4>1. /\ q.to \in Owner /\ volume[q.vol].owner = q.to
            /\ owner[q.to].status = "idle" /\ ~owner[q.to].box
            /\ volume'[q.vol].exists = volume[q.vol].exists
        <5>1. volume' = [volume EXCEPT ![q.vol] =
                            [volume[q.vol] EXCEPT !.attached = FALSE, !.owner = NoOwner]]
          BY <1>1, <1>2, <3>3 DEF WriteVolume, VolumeRow
        <5> QED
          BY <1>1, <1>2, <3>3, <5>1 DEF StillChecked, VolumeRow
      <4>2. Held(q.to) = {}
        BY <4>1 DEF HoldsClean, HoldsInUse, Held
      <4> QED
        BY <4>1, <4>2, <1>2 DEF HoldsClean, HoldsOwn
    <3> QED
      BY <1>3, <3>1, <3>2, <3>3
  <2>3. \A s \in Owner : Held(s)' = Held(s) /\ Held(s) \subseteq Volume
    BY <1>1, <2>1 DEF Held, OwnerRow
  <2>4. HoldsOwn'
    BY <1>1, <2>1, <2>2, <2>3 DEF HoldsClean, HoldsOwn, OwnerRow
  <2>5. HoldsInUse' /\ HoldsApart'
    BY <2>1, <2>3 DEF HoldsClean, HoldsInUse, HoldsApart
  <2> QED
    BY <1>1, <2>4, <2>5 DEF HoldsClean
<1>4. CASE q.op = "destroy"
  <2>1. UNCHANGED owner /\ volume' = Destroyed(q.vol)
    BY <1>4 DEF WriteVolume
  <2>2. /\ \A v \in Volume \ {q.vol} : volume'[v] = volume[v]
        /\ ~volume'[q.vol].exists
        /\ volume'[q.vol].docker = (volume[q.vol].docker /\ MountedAnywhere(q.vol))
    BY <1>1, <1>2, <2>1 DEF Destroyed, NoVolume
  <2>3. \A s \in Owner : Held(s)' = Held(s) /\ Held(s) \subseteq Volume
    BY <1>1, <2>1 DEF Held, OwnerRow
  <2>4. HoldsOwn'
    <3>1. ASSUME NEW s \in Owner, NEW v \in owner[s].binds
          PROVE  volume'[v].docker
      <4>1. v \in Volume /\ volume[v].docker /\ MountedAnywhere(v)
        BY <1>1 DEF HoldsClean, HoldsOwn, OwnerRow, MountedAnywhere
      <4> QED
        BY <2>2, <4>1
    <3>2. ASSUME NEW s \in Owner, NEW v \in Held(s)', volume'[v].exists
          PROVE  volume'[v].owner = s
      <4>1. v \in Volume /\ v # q.vol /\ v \in Held(s)
        BY <2>2, <2>3, <3>2
      <4> QED
        BY <2>2, <3>2, <4>1 DEF HoldsClean, HoldsOwn
    <3> QED
      BY <2>1, <3>1, <3>2 DEF HoldsOwn
  <2>5. HoldsInUse' /\ HoldsApart'
    BY <2>1, <2>3 DEF HoldsClean, HoldsInUse, HoldsApart
  <2> QED
    BY <1>1, <2>4, <2>5 DEF HoldsClean
<1>5. CASE q.op \in {"purge", "delete"}
  <2>1. q.to \in Owner /\ ~owner[q.to].working
    BY <1>1, <1>5 DEF StillChecked, HoldsClean, HoldsInUse
  <2>2. /\ \A s \in Owner \ {q.to} : owner'[s] = owner[s]
        /\ owner'[q.to].binds = {} /\ owner'[q.to].specs = owner[q.to].specs
        /\ owner'[q.to].working = owner[q.to].working
    <3>1. \E status : owner' = [owner EXCEPT ![q.to] =
                          [owner[q.to] EXCEPT !.status = status, !.box = FALSE, !.binds = {}]]
      BY <1>5 DEF WriteVolume, OwnerDeleted
    <3>2. owner[q.to] \in OwnerRow
      BY <1>1, <2>1
    <3> QED
      BY <1>1, <2>1, <3>1, <3>2 DEF OwnerRow
  <2>3. /\ Held(q.to)' = {}
        /\ \A s \in Owner \ {q.to} : Held(s)' = Held(s) /\ Held(s) \subseteq Volume
    BY <1>1, <2>1, <2>2 DEF Held, OwnerRow, HoldsClean, HoldsInUse
  <2>4. HoldsInUse' /\ HoldsApart'
    BY <2>1, <2>2, <2>3 DEF HoldsClean, HoldsInUse, HoldsApart
  <2>5. \A s \in Owner \ {q.to} : \A v \in Held(s) : volume'[v].exists => volume'[v] = volume[v]
    <3>1. CASE q.op = "purge"
      BY <3>1 DEF WriteVolume
    <3>2. CASE q.op = "delete"
      <4>1. \A v \in Volume : ~volume'[v].exists \/ volume'[v] = volume[v]
        BY <3>2 DEF WriteVolume, OwnerDeleted, NoVolume
      <4> QED
        BY <2>3, <4>1
    <3> QED
      BY <1>5, <3>1, <3>2
  <2>6. \A s \in Owner \ {q.to} : \A v \in owner[s].binds : volume'[v].docker
    <3>1. CASE q.op = "purge"
      BY <3>1, <2>1 DEF WriteVolume, HoldsClean, HoldsOwn
    <3>2. CASE q.op = "delete"
      <4>1. \A v \in Volume : volume'[v] =
               IF v \in Owned(q.to)
               THEN [NoVolume EXCEPT !.docker = volume[v].docker /\
                       \E t \in Owner \ {q.to} : v \in owner[t].binds]
               ELSE volume[v]
        BY <3>2 DEF WriteVolume, OwnerDeleted
      <4>2. \A v \in Volume : volume'[v].docker =
               IF v \in Owned(q.to)
               THEN volume[v].docker /\ \E t \in Owner \ {q.to} : v \in owner[t].binds
               ELSE volume[v].docker
        BY <4>1 DEF NoVolume
      <4> QED
        BY <1>1, <4>2 DEF HoldsClean, HoldsOwn, OwnerRow
    <3> QED
      BY <1>5, <3>1, <3>2
  <2>7. HoldsOwn'
    BY <2>2, <2>3, <2>5, <2>6 DEF HoldsClean, HoldsOwn
  <2> QED
    BY <1>1, <2>4, <2>7 DEF HoldsClean
<1> QED
  BY <1>2, <1>3, <1>4, <1>5 DEF VolumeOp

\* A step of one service that neither gives it volumes nor touches the request under way.
LEMMA HoldsElsewhere ==
    ASSUME VolumesTypeOK, HoldsClean, NEW s \in Owner, requests' = requests, UNCHANGED volume,
           \A t \in Owner \ {s} : owner'[t] = owner[t],
           owner'[s].binds \subseteq owner[s].binds, owner'[s].specs \subseteq owner[s].specs,
           owner'[s].working => owner'[s].status = "deploying",
           ~owner'[s].working => owner'[s].specs = {},
           ~owner'[s].box => owner'[s].binds = {},
           requests = {} \/ owner[s].status \notin {"idle", "running"}
    PROVE  HoldsClean'
<1>1. \A t \in Owner : /\ Held(t)' \subseteq Held(t)
                       /\ owner'[t].binds \subseteq owner[t].binds
  BY DEF Held
<1>2. (HoldsInUse /\ HoldsOwn /\ HoldsApart)'
  BY <1>1 DEF HoldsClean, HoldsInUse, HoldsOwn, HoldsApart
<1>3. ASSUME NEW q \in requests PROVE StillChecked(q)'
  BY <1>1, <1>3 DEF HoldsClean, StillChecked, Claims
<1> QED
  BY <1>2, <1>3 DEF HoldsClean

\* Start, stop and the stop task.
LEMMA HoldsStartStop ==
    ASSUME VolumesTypeOK, HoldsClean, NEW s \in Owner, disturbed' = {},
           StartOwner(s) \/ StopOwner(s) \/ OwnerStopped(s)
    PROVE  HoldsClean'
<1>1. owner[s] \in OwnerRow /\ owner \in [Owner -> OwnerRow]
  BY DEF VolumesTypeOK
<1>2. /\ requests' = requests /\ UNCHANGED volume
      /\ requests = {} \/ owner[s].status \notin {"idle", "running"}
  BY DEF StartOwner, StopOwner, OwnerStopped, Overlap
<1>3. ~owner[s].working
  BY DEF HoldsClean, HoldsInUse, StartOwner, StopOwner, OwnerStopped
<1>4. CASE StartOwner(s) \/ StopOwner(s)
  <2>1. \E status : owner' = [owner EXCEPT ![s].status = status]
    BY <1>4 DEF StartOwner, StopOwner
  <2>2. /\ \A t \in Owner \ {s} : owner'[t] = owner[t]
        /\ owner'[s].binds = owner[s].binds /\ owner'[s].specs = owner[s].specs
        /\ owner'[s].working = owner[s].working /\ owner'[s].box = owner[s].box
    BY <1>1, <2>1 DEF OwnerRow
  <2> QED
    BY <1>2, <1>3, <2>2, HoldsElsewhere DEF HoldsClean, HoldsInUse
<1>5. CASE OwnerStopped(s)
  <2>1. /\ \A t \in Owner \ {s} : owner'[t] = owner[t]
        /\ owner'[s].binds = {} /\ owner'[s].specs = owner[s].specs
        /\ owner'[s].working = owner[s].working /\ ~owner'[s].box
    BY <1>1, <1>5 DEF OwnerStopped, OwnerRow
  <2> QED
    BY <1>2, <1>3, <2>1, HoldsElsewhere DEF HoldsClean, HoldsInUse
<1> QED
  BY <1>4, <1>5

\* A worker collects the volumes that its service owns, or makes one.
LEMMA HoldsCollected ==
    ASSUME VolumesTypeOK, VolumesTypeOK', HoldsClean, NEW s \in Owner, CollectVolumes(s)
    PROVE  HoldsClean'
<1>1. /\ owner[s] \in OwnerRow /\ owner \in [Owner -> OwnerRow]
      /\ volume \in [Volume -> VolumeRow] /\ volume' \in [Volume -> VolumeRow]
  BY DEF VolumesTypeOK
<1>2. /\ requests' = requests /\ owner[s].status = "queued" /\ ~owner[s].working
  BY DEF CollectVolumes
<1>3. PICK vs \in SUBSET Volume :
        /\ owner' = [owner EXCEPT ![s] = [owner[s] EXCEPT !.status = "deploying",
                                                          !.working = TRUE, !.specs = vs]]
        /\ \A v \in vs : volume'[v].exists /\ volume'[v].owner = s
        /\ \A v \in Volume : volume'[v] = volume[v] \/ (v \in vs /\ Fresh(v))
  <2>1. CASE UNCHANGED volume /\ owner' = [owner EXCEPT ![s] =
               [owner[s] EXCEPT !.status = "deploying", !.working = TRUE, !.specs = Specs(s)]]
    <3>1. Specs(s) \in SUBSET Volume
      BY DEF Specs, Owned
    <3>2. \A v \in Specs(s) : volume'[v].exists /\ volume'[v].owner = s
      BY <2>1 DEF Specs, Owned
    <3> QED
      BY <2>1, <3>1, <3>2
  <2>2. ASSUME NEW v \in Volume, NEW size \in Sizes, Fresh(v),
               volume' = [volume EXCEPT ![v] = [exists |-> TRUE, owner |-> s, size |-> size,
                                                attached |-> TRUE, docker |-> FALSE]],
               owner' = [owner EXCEPT ![s] =
                 [owner[s] EXCEPT !.status = "deploying", !.working = TRUE, !.specs = {v}]]
        PROVE  \E vs \in SUBSET Volume :
        /\ owner' = [owner EXCEPT ![s] = [owner[s] EXCEPT !.status = "deploying",
                                                          !.working = TRUE, !.specs = vs]]
        /\ \A u \in vs : volume'[u].exists /\ volume'[u].owner = s
        /\ \A u \in Volume : volume'[u] = volume[u] \/ (u \in vs /\ Fresh(u))
    <3>1. {v} \in SUBSET Volume
      OBVIOUS
    <3>2. /\ volume'[v].exists /\ volume'[v].owner = s
          /\ \A u \in Volume \ {v} : volume'[u] = volume[u]
      BY <1>1, <2>2
    <3> WITNESS {v} \in SUBSET Volume
    <3> QED
      BY <2>2, <3>2
  <2> QED
    BY <2>1, <2>2 DEF CollectVolumes
<1>4. /\ \A t \in Owner \ {s} : owner'[t] = owner[t]
      /\ owner'[s].binds = owner[s].binds /\ owner'[s].specs = vs /\ owner'[s].box = owner[s].box
      /\ owner'[s].working /\ owner'[s].status = "deploying"
  BY <1>1, <1>3 DEF OwnerRow
<1>5. \A v \in Volume : Fresh(v) => \A t \in Owner : v \notin Held(t)
  BY DEF Fresh, HoldsClean, HoldsOwn, Held
<1>6. \A t \in Owner : Held(t) \subseteq Volume
  BY <1>1 DEF Held, OwnerRow
<1>7. \A t \in Owner \ {s} : Held(t)' = Held(t)
  BY <1>4 DEF Held
<1>8. Held(s)' = owner[s].binds \cup vs /\ owner[s].binds \subseteq Held(s)
  BY <1>4 DEF Held
<1>9. HoldsInUse'
  BY <1>4 DEF HoldsClean, HoldsInUse
<1>10. \A t \in Owner \ {s} : Held(t) \cap vs = {}
  BY <1>3, <1>5, <1>6, VolumesAssumption DEF HoldsClean, HoldsOwn
<1>11. HoldsApart'
  BY <1>7, <1>8, <1>10 DEF HoldsClean, HoldsApart
<1>12. HoldsOwn'
  <2>1. ASSUME NEW t \in Owner, NEW v \in owner'[t].binds
        PROVE  volume'[v].docker
    <3>1. v \in owner[t].binds /\ v \in Held(t) /\ v \in Volume
      BY <1>4, <1>6 DEF Held
    <3>2. volume'[v] = volume[v]
      BY <1>3, <1>5, <3>1
    <3> QED
      BY <3>1, <3>2 DEF HoldsClean, HoldsOwn
  <2>2. ASSUME NEW t \in Owner, NEW v \in Held(t)', volume'[v].exists
        PROVE  volume'[v].owner = t
    <3>1. CASE v \in vs /\ t = s
      BY <1>3, <3>1
    <3>2. CASE v \in Held(t)
      <4>1. volume'[v] = volume[v]
        BY <1>3, <1>5, <1>6, <3>2
      <4> QED
        BY <2>2, <3>2, <4>1 DEF HoldsClean, HoldsOwn
    <3> QED
      BY <1>7, <1>8, <2>2, <3>1, <3>2
  <2> QED
    BY <2>1, <2>2 DEF HoldsOwn
<1>13. ASSUME NEW q \in requests PROVE StillChecked(q)'
  <2>1. q.vol \in Volume /\ q.op \in VolumeOp /\ StillChecked(q)
    BY DEF VolumesTypeOK, VolumeRequest, HoldsClean
  <2>2. CASE q.op \in {"purge", "delete"}
    BY <1>2, <1>4, <2>1, <2>2 DEF StillChecked, Claims, Allocating
  <2>3. CASE q.op \notin {"purge", "delete"}
    <3>1. volume'[q.vol] = volume[q.vol]
      BY <1>3, <2>1, <2>3 DEF Fresh
    <3>2. q.op = "create" => q.vol \notin vs
      BY <1>3, <2>1, <3>1 DEF StillChecked
    <3>3. q.op = "create" => \A t \in Owner : q.vol \notin Held(t)'
      BY <1>7, <1>8, <2>1, <3>2 DEF StillChecked
    <3> QED
      BY <1>2, <1>4, <2>1, <2>3, <3>1, <3>3 DEF StillChecked, Claims
  <2> QED
    BY <2>2, <2>3
<1> QED
  BY <1>2, <1>9, <1>11, <1>12, <1>13 DEF HoldsClean

\* The container mounts what the worker has collected, or the deployment fails.
LEMMA HoldsMounted ==
    ASSUME VolumesTypeOK, VolumesTypeOK', HoldsClean, NEW s \in Owner, MountVolumes(s)
    PROVE  HoldsClean'
<1>1. /\ owner[s] \in OwnerRow /\ owner \in [Owner -> OwnerRow]
      /\ volume \in [Volume -> VolumeRow]
  BY DEF VolumesTypeOK
<1>2. /\ requests' = requests /\ owner[s].working /\ owner[s].status = "deploying"
  BY DEF MountVolumes, HoldsClean, HoldsInUse
<1>3. CASE UNCHANGED volume /\ owner' = [owner EXCEPT ![s] =
             [owner[s] EXCEPT !.status = "idle", !.working = FALSE, !.specs = {}]]
  <2>1. /\ \A t \in Owner \ {s} : owner'[t] = owner[t]
        /\ owner'[s].binds = owner[s].binds /\ owner'[s].specs = {}
        /\ ~owner'[s].working /\ owner'[s].box = owner[s].box
    BY <1>1, <1>3 DEF OwnerRow
  <2> QED
    BY <1>2, <1>3, <2>1, HoldsElsewhere DEF HoldsClean, HoldsInUse
<1>4. CASE /\ volume' = [v \in Volume |-> IF v \in owner[s].specs
                                          THEN [volume[v] EXCEPT !.docker = TRUE] ELSE volume[v]]
           /\ owner' = [owner EXCEPT ![s] =
                [owner[s] EXCEPT !.status = "running", !.box = TRUE, !.binds = owner[s].specs,
                                 !.working = FALSE, !.specs = {}]]
  <2>1. /\ \A t \in Owner \ {s} : owner'[t] = owner[t]
        /\ owner'[s].binds = owner[s].specs /\ owner'[s].specs = {}
        /\ ~owner'[s].working /\ owner'[s].box
    BY <1>1, <1>4 DEF OwnerRow
  <2>2. \A v \in Volume : /\ volume'[v].exists = volume[v].exists
                          /\ volume'[v].owner = volume[v].owner
                          /\ v \notin owner[s].specs => volume'[v] = volume[v]
                          /\ v \in owner[s].specs => volume'[v].docker
    BY <1>1, <1>4 DEF VolumeRow
  <2>3. \A t \in Owner : Held(t)' \subseteq Held(t) /\ Held(t) \subseteq Volume
    BY <1>1, <2>1 DEF Held, OwnerRow
  <2>4. HoldsInUse' /\ HoldsApart'
    BY <2>1, <2>3 DEF HoldsClean, HoldsInUse, HoldsApart
  <2>5. HoldsOwn'
    <3>1. ASSUME NEW t \in Owner, NEW v \in owner'[t].binds
          PROVE  volume'[v].docker
      <4>1. v \in Volume /\ (v \in owner[s].specs \/ volume[v].docker)
        BY <1>1, <2>1 DEF HoldsClean, HoldsOwn, OwnerRow
      <4> QED
        BY <2>2, <4>1
    <3>2. ASSUME NEW t \in Owner, NEW v \in Held(t)', volume'[v].exists
          PROVE  volume'[v].owner = t
      BY <2>2, <2>3, <3>2 DEF HoldsClean, HoldsOwn
    <3> QED
      BY <3>1, <3>2 DEF HoldsOwn
  <2>6. ASSUME NEW q \in requests PROVE StillChecked(q)'
    <3>1. q.vol \in Volume /\ StillChecked(q) /\ owner[s].specs \subseteq Held(s)
      BY DEF VolumesTypeOK, VolumeRequest, HoldsClean, Held
    <3>2. q.op = "create" => ~volume'[q.vol].exists /\ ~volume'[q.vol].docker
      BY <2>2, <3>1 DEF StillChecked
    <3>3. q.op = "create" => \A t \in Owner : q.vol \notin Held(t)'
      BY <2>3, <3>1 DEF StillChecked
    <3>4. q.op \in {"release", "purge", "delete"} => q.to # s
      BY <1>2, <3>1 DEF StillChecked
    <3> QED
      BY <1>2, <2>1, <2>2, <3>1, <3>2, <3>3, <3>4 DEF StillChecked, Claims
  <2> QED
    BY <1>2, <2>4, <2>5, <2>6 DEF HoldsClean
<1> QED
  BY <1>2, <1>3, <1>4 DEF MountVolumes

\* Every request but the staff's is one that has passed its checks.
LEMMA RequestsChecked ==
    ASSUME VolumesTypeOK,
           \/ \E v \in Volume :
                \/ \E s \in Owner \cup {NoOwner}, size \in Sizes : CreateVolume(v, s, size)
                \/ \E size \in Sizes : ResizeVolume(v, size)
                \/ \E s \in Owner : AttachVolume(v, s)
                \/ \E op \in {"detach", "release"} : DetachVolume(v, op)
                \/ DestroyVolume(v)
           \/ \E s \in Owner, op \in {"purge", "delete"} : PurgeOrDelete(s, op)
    PROVE  \E op \in VolumeOp, v \in Volume, s \in Owner \cup {NoOwner}, row \in VolumeRow :
             /\ VolumeRequested(op, v, s, row) /\ Passes(op, v, s, row)
             /\ op \in Allocating => MayAllocate(s, v, row.size)
<1> DEFINE Goal == \E op \in VolumeOp, v \in Volume, s \in Owner \cup {NoOwner}, row \in VolumeRow :
             /\ VolumeRequested(op, v, s, row) /\ Passes(op, v, s, row)
             /\ op \in Allocating => MayAllocate(s, v, row.size)
<1>0. \A v \in Volume : volume[v] \in VolumeRow
  BY DEF VolumesTypeOK
<1>1. ASSUME NEW v \in Volume, NEW s \in Owner \cup {NoOwner}, NEW size \in Sizes,
             CreateVolume(v, s, size)
      PROVE  Goal
  <2> DEFINE row == [NoVolume EXCEPT !.exists = TRUE, !.owner = s, !.size = size]
  <2>1. row \in VolumeRow /\ row.owner = s /\ row.size = size
    BY NoVolumeTyped DEF VolumeRow
  <2>2. VolumeRequested("create", v, s, row) /\ Fresh(v) /\ MayAllocate(s, v, size)
    BY <1>1 DEF CreateVolume
  <2> HIDE DEF row
  <2>3. Passes("create", v, s, row) /\ "create" \in VolumeOp
    BY <2>1, <2>2 DEF Passes, VolumeOp
  <2> QED
    BY <2>1, <2>2, <2>3
<1>2. ASSUME NEW v \in Volume, NEW size \in Sizes, ResizeVolume(v, size)
      PROVE  Goal
  <2> DEFINE row == [volume[v] EXCEPT !.size = size]
             s == volume[v].owner
  <2>1. row \in VolumeRow /\ row.owner = s /\ row.size = size /\ s \in Owner \cup {NoOwner}
    BY <1>0 DEF VolumeRow
  <2>2. VolumeRequested("resize", v, s, row) /\ volume[v].exists /\ MayAllocate(s, v, size)
    BY <1>2 DEF ResizeVolume
  <2>3. Passes("resize", v, s, row) /\ "resize" \in VolumeOp
    BY <2>1, <2>2 DEF Passes, VolumeOp
  <2> HIDE DEF row, s
  <2> QED
    BY <2>1, <2>2, <2>3
<1>3. ASSUME NEW v \in Volume, NEW s \in Owner, AttachVolume(v, s)
      PROVE  Goal
  <2> DEFINE row == [volume[v] EXCEPT !.owner = s, !.attached = TRUE]
  <2>1. row \in VolumeRow /\ row.owner = s /\ row.size = volume[v].size
    BY <1>0 DEF VolumeRow
  <2>2. /\ VolumeRequested("attach", v, s, row) /\ volume[v].exists
        /\ volume[v].owner \in {NoOwner, s} /\ MayAllocate(s, v, volume[v].size)
    BY <1>3 DEF AttachVolume
  <2>3. Passes("attach", v, s, row) /\ "attach" \in VolumeOp
    BY <2>1, <2>2 DEF Passes, VolumeOp
  <2> HIDE DEF row
  <2> QED
    BY <2>1, <2>2, <2>3
<1>4. ASSUME NEW v \in Volume, NEW op \in {"detach", "release"}, DetachVolume(v, op)
      PROVE  Goal
  <2> DEFINE row == volume[v]
             s == volume[v].owner
  <2>1. row \in VolumeRow /\ s \in Owner
    BY <1>0, <1>4 DEF VolumeRow, DetachVolume
  <2>2. VolumeRequested(op, v, s, row) /\ Mutable(s)
    BY <1>4 DEF DetachVolume
  <2>3. Passes(op, v, s, row) /\ op \in VolumeOp /\ op \notin Allocating
    BY <2>1, <2>2, VolumesAssumption DEF Passes, VolumeOp, Allocating, Mutable
  <2> HIDE DEF row, s
  <2> QED
    BY <2>1, <2>2, <2>3
<1>5. ASSUME NEW v \in Volume, DestroyVolume(v)
      PROVE  Goal
  <2> DEFINE row == volume[v]
             s == volume[v].owner
  <2>1. row \in VolumeRow /\ s \in Owner \cup {NoOwner}
    BY <1>0 DEF VolumeRow
  <2>2. VolumeRequested("destroy", v, s, row)
    BY <1>5 DEF DestroyVolume
  <2>3. Passes("destroy", v, s, row) /\ "destroy" \in VolumeOp /\ "destroy" \notin Allocating
    BY DEF Passes, VolumeOp, Allocating
  <2> HIDE DEF row, s
  <2> QED
    BY <2>1, <2>2, <2>3
<1>6. ASSUME NEW s \in Owner, NEW op \in {"purge", "delete"}, PurgeOrDelete(s, op)
      PROVE  Goal
  <2> DEFINE v == CHOOSE v \in Volume : TRUE
  <2>1. v \in Volume
    BY VolumesAssumption
  <2>2. /\ VolumeRequested(op, v, s, NoVolume) /\ NoVolume \in VolumeRow
        /\ owner[s].status \in {"idle", "running"}
    BY <1>6, NoVolumeTyped DEF PurgeOrDelete
  <2> HIDE DEF v
  <2>3. Passes(op, v, s, NoVolume) /\ op \in VolumeOp /\ op \notin Allocating
    BY <2>2 DEF Passes, VolumeOp, Allocating
  <2> QED
    BY <2>1, <2>2, <2>3
<1> QED
  BY <1>1, <1>2, <1>3, <1>4, <1>5, <1>6

\* Every step keeps the invariant.
LEMMA VolumesStepInv ==
    ASSUME VolumesInv, VolumesNext
    PROVE  VolumesInv'
<1>0. VolumesTypeOK /\ "quota" \notin disturbed /\ Budgeted /\ VolumesStep
  BY DEF VolumesInv, VolumesNext
<1>1. ASSUME NEW op \in VolumeOp, NEW v \in Volume, NEW s \in Owner \cup {NoOwner},
             NEW row \in VolumeRow, VolumeRequested(op, v, s, row), Passes(op, v, s, row),
             op \in Allocating => MayAllocate(s, v, row.size)
      PROVE  VolumesInv'
  <2>1. VolumesTypeOK'
    BY <1>0, <1>1, RequestsTyped
  <2>2. "quota" \notin disturbed' => Budgeted'
    BY <1>0, <1>1, BudgetRequested DEF Passes
  <2>3. disturbed = {} /\ HoldsClean
    BY <1>1 DEF VolumeRequested, VolumesInv
  <2>4. disturbed' = {} => HoldsClean'
    BY <1>0, <1>1, <2>3, HoldsRequested
  <2> QED
    BY <2>1, <2>2, <2>4 DEF VolumesInv
<1>2. ASSUME NEW v \in Volume, NEW op \in {"release", "destroy"}, StaffVolume(v, op)
      PROVE  VolumesInv'
  <2> DEFINE q == [op |-> op, vol |-> v, to |-> volume[v].owner, row |-> volume[v]]
  <2>1. UNCHANGED <<volume, owner>> /\ requests' = {q} /\ disturbed' = {"staff"}
    BY <1>2 DEF StaffVolume
  <2>2. q \in VolumeRequest
    BY <1>0 DEF VolumesTypeOK, VolumeRequest, VolumeRow, VolumeOp
  <2>3. VolumesTypeOK'
    BY <1>0, <2>1, <2>2 DEF VolumesTypeOK
  <2>4. ~Claims(q)
    BY DEF Claims, Allocating
  <2>5. \A s \in Owner : Used(s)' <= Quota
    BY <1>0, <2>1 DEF Budgeted, Used, Space, Owned
  <2>6. Budgeted'
    BY <2>1, <2>4, <2>5 DEF Budgeted, Claims
  <2> QED
    BY <2>1, <2>3, <2>6 DEF VolumesInv
<1>3. ASSUME NEW q \in requests, WriteVolume(q)
      PROVE  VolumesInv'
  <2>1. VolumesTypeOK' /\ disturbed' = disturbed
    BY <1>0, <1>3, WritesTyped DEF WriteVolume
  <2>2. Budgeted'
    <3>1. CASE Claims(q)
      BY <1>0, <1>3, <2>1, <3>1, BudgetWritten
    <3>2. CASE ~Claims(q)
      <4>1. q \in VolumeRequest /\ volume \in [Volume -> VolumeRow] /\ requests' \subseteq requests
        BY <1>0, <1>3 DEF VolumesTypeOK, WriteVolume
      <4>2. ASSUME NEW v \in Volume, volume'[v].exists, volume'[v].owner \in Owner
            PROVE  /\ volume[v].exists /\ volume[v].owner = volume'[v].owner
                   /\ volume[v].size = volume'[v].size
        <5>1. CASE q.op = "detach"
          BY <1>3, <4>1, <4>2, <5>1 DEF WriteVolume, VolumeRequest, VolumeRow
        <5>2. CASE q.op = "release"
          <6>1. volume' = [volume EXCEPT ![q.vol] =
                              [volume[q.vol] EXCEPT !.attached = FALSE, !.owner = NoOwner]]
            BY <1>3, <4>1, <5>2 DEF WriteVolume, VolumeRequest, VolumeRow
          <6> QED
            BY <4>1, <4>2, <6>1, VolumesAssumption DEF VolumeRequest, VolumeRow
        <5>3. CASE q.op \in {"destroy", "delete"}
          <6>1. volume'[v] = volume[v] \/ ~volume'[v].exists
            <7>1. CASE q.op = "destroy"
              BY <1>3, <4>1, <7>1 DEF WriteVolume, Destroyed, NoVolume
            <7>2. CASE q.op = "delete"
              BY ZenonT(30), <1>3, <4>1, <7>2 DEF WriteVolume, OwnerDeleted, NoVolume
            <7> QED
              BY <5>3, <7>1, <7>2
          <6> QED
            BY <4>2, <6>1
        <5>4. CASE q.op = "purge"
          BY <1>3, <4>2, <5>4 DEF WriteVolume
        <5> QED
          BY <3>2, <4>1, <5>1, <5>2, <5>3, <5>4 DEF Claims, Allocating, VolumeRequest, VolumeOp
      <4> QED
        BY <1>0, <2>1, <4>1, <4>2, BudgetShrinks
    <3> QED
      BY <3>1, <3>2
  <2>3. disturbed = {} => HoldsClean'
    BY <1>0, <1>3, <2>1, HoldsWritten DEF VolumesInv
  <2> QED
    BY <2>1, <2>2, <2>3 DEF VolumesInv
<1>4. ASSUME NEW s \in Owner, StartOwner(s) \/ StopOwner(s) \/ MountVolumes(s) \/ OwnerStopped(s),
             disturbed = {}
      PROVE  VolumesInv'
  <2>1. VolumesTypeOK'
    BY <1>0, <1>4, WorkersTyped
  <2>2. Budgeted'
    <3>1. requests' = requests
      BY <1>4 DEF StartOwner, StopOwner, MountVolumes, OwnerStopped
    <3>2. \A v \in Volume : /\ volume'[v].exists = volume[v].exists
                            /\ volume'[v].owner = volume[v].owner
                            /\ volume'[v].size = volume[v].size
      BY <1>0, <1>4 DEF StartOwner, StopOwner, MountVolumes, OwnerStopped, VolumesTypeOK, VolumeRow
    <3> QED
      BY <1>0, <2>1, <3>1, <3>2, BudgetShrinks
  <2>3. disturbed' = {} => HoldsClean'
    BY <1>0, <1>4, <2>1, HoldsStartStop, HoldsMounted DEF VolumesInv
  <2> QED
    BY <2>1, <2>2, <2>3 DEF VolumesInv
<1>5. ASSUME NEW s \in Owner, CollectVolumes(s)
      PROVE  VolumesInv'
  <2>1. VolumesTypeOK'
    BY <1>0, <1>5, WorkersTyped
  <2>2. "quota" \notin disturbed' => Budgeted'
    BY <1>0, <1>5, <2>1, BudgetCollected
  <2>3. disturbed' = {} => disturbed = {}
    BY <1>5 DEF CollectVolumes
  <2>4. disturbed' = {} => HoldsClean'
    BY <1>0, <1>5, <2>1, <2>3, HoldsCollected DEF VolumesInv
  <2> QED
    BY <2>1, <2>2, <2>4 DEF VolumesInv
<1>6. CASE \/ \E v \in Volume :
                \/ \E s \in Owner \cup {NoOwner}, size \in Sizes : CreateVolume(v, s, size)
                \/ \E size \in Sizes : ResizeVolume(v, size)
                \/ \E s \in Owner : AttachVolume(v, s)
                \/ \E op \in {"detach", "release"} : DetachVolume(v, op)
                \/ DestroyVolume(v)
           \/ \E s \in Owner, op \in {"purge", "delete"} : PurgeOrDelete(s, op)
  BY <1>0, <1>1, <1>6, RequestsChecked
<1>7. CASE \E s \in Owner : StartOwner(s) \/ StopOwner(s)
  BY <1>4, <1>7 DEF StartOwner, StopOwner
<1> QED
  BY <1>0, <1>2, <1>3, <1>4, <1>5, <1>6, <1>7 DEF VolumesStep

\* The inductive invariant of the volumes.
THEOREM VolumesInvariant == VolumesSpec => []VolumesInv
<1>1. VolumesInit => VolumesInv
  <2> SUFFICES ASSUME VolumesInit PROVE VolumesInv
    OBVIOUS
  <2>1. VolumesTypeOK
    BY NoVolumeTyped DEF VolumesInit, VolumesTypeOK, OwnerRow
  <2>2. \A s \in Owner : Used(s) <= Quota
    <3>1. \A s \in Owner : Owned(s) = {}
      BY DEF VolumesInit, NoVolume, Owned
    <3>2. \A s \in Owner : Cells(volume, Owned(s)) = {}
      BY <3>1 DEF Cells
    <3>3. \A s \in Owner : Used(s) = 0
      BY <3>2, UsedIs, FS_EmptySet
    <3> QED
      BY <3>3, VolumesAssumption
  <2>3. Budgeted
    BY <2>2 DEF VolumesInit, Budgeted
  <2>4. HoldsClean
    BY DEF VolumesInit, HoldsClean, HoldsInUse, HoldsOwn, HoldsApart, Held
  <2> QED
    BY <2>1, <2>3, <2>4 DEF VolumesInv
<1>2. VolumesInv /\ [VolumesNext]_volumesVars => VolumesInv'
  <2>1. ASSUME VolumesInv, UNCHANGED volumesVars
        PROVE  VolumesInv'
    <3>1. VolumesTypeOK'
      BY <2>1 DEF volumesVars, VolumesInv, VolumesTypeOK
    <3>2. "quota" \notin disturbed' => Budgeted'
      BY <2>1 DEF volumesVars, VolumesInv, Budgeted, Used, UsedWithout, Space, Owned, Claims
    <3>3. disturbed' = {} => HoldsClean'
      BY <2>1 DEF volumesVars, VolumesInv, HoldsClean, HoldsInUse, HoldsOwn, HoldsApart, Held,
         StillChecked, Claims
    <3> QED
      BY <3>1, <3>2, <3>3 DEF VolumesInv
  <2> QED
    BY <2>1, VolumesStepInv
<1> QED
  BY <1>1, <1>2, PTL DEF VolumesSpec

\* What a service owns is within its plan's quota, for any number of services, volumes
\* and requests between their checks and their writes, unless two allocations to one
\* service have met; can_allocate_storage.
THEOREM QuotaIsKept == VolumesSpec => []QuotaKept
<1>1. VolumesInv => QuotaKept
  BY DEF VolumesInv, QuotaKept, Budgeted
<1> QED
  BY <1>1, VolumesInvariant, PTL

\* No volume is in the containers of two services, while requests do not overlap and
\* the staff leave a volume in use alone.
THEOREM VolumesStayApart == VolumesSpec => []VolumeExclusive
<1>1. VolumesInv => VolumeExclusive
  <2>1. \A s \in Owner : owner[s].binds \subseteq Held(s)
    BY DEF Held
  <2> QED
    BY <2>1 DEF VolumesInv, VolumeExclusive, HoldsClean, HoldsApart
<1> QED
  BY <1>1, VolumesInvariant, PTL

-----------------------------------------------------------------------------
(* The live page: each browser's last message is the outcome. *)

\* A browser that has read the row, or that a message waits for.
Hears(b) == browser[b].at = "live" \/ browser[b].queue # <<>>

\* What it shows once every message is delivered.
LastWord(b) ==
    IF browser[b].queue = <<>> THEN browser[b].shown ELSE browser[b].queue[Len(browser[b].queue)]

\* The row holds still while the monitor has it, and the tracker publishes for the last
\* time what it has written, or, for a database, what it is about to.
Announces ==
    /\ verdict = "told" => track.status = "running"
    /\ \A b \in Browser : browser[b].at = "away" => browser[b].queue = <<>>
    /\ tracker.at = "done" \/ (tracker.at = "publish" /\ tracker.then \in {"done", "ended"}) =>
         track.status = tracker.event /\ tracker.event \in Outcome
    /\ tracker.at = "marking" \/ (tracker.at = "publish" /\ tracker.then = "marking") =>
         /\ tracker.event \in {"succeeded", "failed"}
         /\ track.status = "running" => tracker.event = "failed"

\* What each browser has been told at last.
Hearing ==
    \A b \in Browser : Hears(b) =>
        /\ tracker.at = "ended" /\ verdict # "told" /\ track.status \in Outcome =>
             LastWord(b) = track.status
        /\ tracker.at = "ended" /\ verdict = "told" => LastWord(b) = "failed"
        /\ tracker.at \in {"done", "marking"} => LastWord(b) = tracker.event

LiveInv == LiveTypeOK /\ Announces /\ (~unheard => Hearing)

TrackType == [status : Shown, cancel : BOOLEAN]
TrackerType == [kind : {"app", "database"},
                at : {"queued", "claimed", "working", "publish", "done", "failing", "marking",
                      "ended"},
                event : Shown, then : {"working", "done", "failing", "marking", "ended"},
                finished : BOOLEAN, left : 0..MaxEvents]
BrowserType == [at : {"away", "joined", "live"}, queue : Seq(Shown), shown : Shown]

\* The types, one by one.
LEMMA LiveTypes ==
    LiveTypeOK <=> /\ track \in TrackType /\ tracker \in TrackerType
                   /\ verdict \in {"none", "told", "over"}
                   /\ browser \in [Browser -> BrowserType] /\ unheard \in BOOLEAN
BY DEF LiveTypeOK, TrackType, TrackerType, BrowserType

\* The same after a step.
LEMMA LiveTypesNext ==
    LiveTypeOK' <=> /\ track' \in TrackType /\ tracker' \in TrackerType
                    /\ verdict' \in {"none", "told", "over"}
                    /\ browser' \in [Browser -> BrowserType] /\ unheard' \in BOOLEAN
BY DEF LiveTypeOK, TrackType, TrackerType, BrowserType

\* The steps of the tracker that write and then go on to publish, or go on working.
LEMMA LiveWrites ==
    ASSUME LiveInv,
           \/ Claim \/ Start \/ Progress \/ RecordException \/ FinishFailing \/ SinkProgress
           \/ \E outcome \in {"succeeded", "failed"} : LastEvent(outcome) \/ SinkLast(outcome)
           \/ \E outcome \in Outcome : FinishTracker(outcome)
    PROVE  LiveInv'
<1>1. /\ track \in TrackType /\ tracker \in TrackerType /\ verdict \in {"none", "told", "over"}
      /\ browser \in [Browser -> BrowserType] /\ unheard \in BOOLEAN /\ Announces
  BY LiveTypes DEF LiveInv
<1>2. UNCHANGED <<verdict, browser, unheard>>
  BY DEF Claim, Start, Progress, RecordException, FinishFailing, SinkProgress, LastEvent,
     SinkLast, FinishTracker, TrackerAt
<1>3. /\ track' \in TrackType
      /\ verdict = "told" => track' = track
  BY <1>1 DEF Claim, Start, Progress, RecordException, FinishFailing, SinkProgress, LastEvent,
     SinkLast, SinkWrites, FinishTracker, Write, RowIsFree, TrackType, Shown, Outcome
<1>4. /\ tracker' \in TrackerType
      /\ tracker'.at \in {"claimed", "working", "publish"}
      /\ tracker'.at = "publish" /\ tracker'.then \in {"done", "ended"} =>
           track'.status = tracker'.event /\ tracker'.event \in Outcome
      /\ tracker'.at = "publish" /\ tracker'.then = "marking" =>
           /\ tracker'.event \in {"succeeded", "failed"}
           /\ track'.status = "running" => tracker'.event = "failed"
  <2>1. CASE Claim
    BY <1>1, <2>1 DEF Claim, TrackerTo, TrackerType
  <2>2. CASE Start
    <3>1. CASE track.cancel
      <4>1. /\ tracker' = [tracker EXCEPT !.at = "publish", !.event = "cancelled",
                                          !.then = "ended"]
            /\ track' = [track EXCEPT !.status = "cancelled"]
        BY <2>2, <3>1 DEF Start, Write, ToPublish
      <4> QED
        BY <1>1, <4>1 DEF TrackerType, TrackType, Shown, Outcome
    <3>2. CASE ~track.cancel
      <4>1. tracker' = [tracker EXCEPT !.at = "publish", !.event = "running",
                                       !.then = "working"]
        BY <2>2, <3>2 DEF Start, ToPublish
      <4> QED
        BY <1>1, <4>1 DEF TrackerType, Shown
    <3> QED
      BY <3>1, <3>2
  <2>3. CASE Progress \/ SinkProgress
    <3>1. tracker.left - 1 \in 0..MaxEvents
      BY <1>1, <2>3, LiveAssumption DEF Progress, SinkProgress, TrackerType
    <3>2. tracker' = [tracker EXCEPT !.at = "publish", !.event = "running",
                                     !.then = "working", !.left = tracker.left - 1]
      BY <2>3 DEF Progress, SinkProgress
    <3> QED
      BY <1>1, <3>1, <3>2 DEF TrackerType, Shown
  <2>4. CASE RecordException
    BY <1>1, <2>4 DEF RecordException, TrackerAt, ToPublish, TrackerType, Shown, Outcome, Announces
  <2>5. CASE FinishFailing
    BY <1>1, <2>5 DEF FinishFailing, Write, ToPublish, TrackerType, TrackType, Shown, Outcome
  <2>6. ASSUME NEW outcome \in {"succeeded", "failed"}, LastEvent(outcome)
        PROVE  /\ tracker' \in TrackerType /\ tracker'.at = "publish"
               /\ tracker'.then = "working"
    BY <1>1, <2>6 DEF LastEvent, TrackerType, Shown, Outcome
  <2>7. ASSUME NEW outcome \in {"succeeded", "failed"}, SinkLast(outcome)
        PROVE  /\ tracker' \in TrackerType /\ tracker'.at = "publish"
               /\ tracker'.then = "marking" /\ tracker'.event = outcome
               /\ track'.status = "running" => outcome = "failed"
    BY <1>1, <2>7 DEF SinkLast, SinkWrites, Write, ToPublish, TrackerType, TrackType, Shown, Outcome
  <2>8. ASSUME NEW outcome \in Outcome, FinishTracker(outcome)
        PROVE  /\ tracker' \in TrackerType /\ tracker'.at = "publish"
               /\ tracker'.then = "done" /\ tracker'.event = outcome /\ track'.status = outcome
    BY <1>1, <2>8 DEF FinishTracker, Write, TrackerType, TrackType, Shown
  <2> QED
    BY <2>1, <2>2, <2>3, <2>4, <2>5, <2>6, <2>7, <2>8
<1>5. LiveTypeOK'
  BY <1>1, <1>2, <1>3, <1>4, LiveTypesNext
<1>6. Announces'
  BY <1>1, <1>2, <1>3, <1>4 DEF Announces
<1>7. Hearing'
  BY <1>4 DEF Hearing
<1> QED
  BY <1>5, <1>6, <1>7 DEF LiveInv

\* The steps that end the tracker's work or write behind it.
LEMMA LiveEnds ==
    ASSUME LiveInv, LeaveTracker \/ FailSilently \/ Mark \/ TrackerDies \/ CommitVerdict \/ CancelDeploy
    PROVE  LiveInv'
<1>1. /\ track \in TrackType /\ tracker \in TrackerType /\ verdict \in {"none", "told", "over"}
      /\ browser \in [Browser -> BrowserType] /\ unheard \in BOOLEAN /\ Announces
  BY LiveTypes DEF LiveInv
<1>2. /\ UNCHANGED browser /\ unheard' \in BOOLEAN /\ verdict' \in {"none", "told", "over"}
      /\ unheard => unheard'
  BY <1>1 DEF LeaveTracker, FailSilently, Mark, TrackerDies, CommitVerdict, CancelDeploy, TrackerAt
<1>3. track' \in TrackType /\ (verdict' = "told" => verdict = "told" /\ track' = track)
  <2>1. CASE LeaveTracker \/ FailSilently \/ TrackerDies
    BY <1>1, <2>1 DEF LeaveTracker, FailSilently, TrackerDies, TrackerAt
  <2>2. CASE Mark
    BY <1>1, <2>2 DEF Mark, TrackerAt, Write, RowIsFree, TrackType, TrackerType
  <2>3. CASE CommitVerdict
    BY <1>1, <2>3 DEF CommitVerdict, TrackType, Shown, Outcome
  <2>4. CASE CancelDeploy
    BY <1>1, <2>4 DEF CancelDeploy, RowIsFree, TrackType, Shown, Outcome
  <2> QED
    BY <2>1, <2>2, <2>3, <2>4
<1>4. tracker' \in TrackerType
  BY <1>1 DEF LeaveTracker, FailSilently, Mark, TrackerDies, CommitVerdict, CancelDeploy,
     TrackerTo, TrackerType, Shown, Outcome
<1>5. LiveTypeOK'
  BY <1>1, <1>2, <1>3, <1>4, LiveTypesNext
<1>6. CASE LeaveTracker \/ Mark \/ TrackerDies
  <2>1. tracker'.at = "ended" /\ verdict' = verdict
    BY <1>1, <1>6 DEF LeaveTracker, Mark, TrackerDies, TrackerTo, TrackerAt, TrackerType
  <2>2. Announces'
    BY <1>1, <1>2, <1>3, <2>1 DEF Announces
  <2>3. ASSUME ~unheard' PROVE Hearing'
    <3>1. CASE LeaveTracker
      <4>1. tracker.at = "done" /\ track' = track /\ unheard' = unheard
        BY <3>1 DEF LeaveTracker, TrackerAt
      <4>2. verdict # "told" /\ track.status = tracker.event
        BY <1>1, <4>1 DEF Announces, Outcome
      <4> QED
        BY <1>2, <2>1, <2>3, <4>1, <4>2 DEF LiveInv, Hearing, Hears, LastWord
    <3>2. CASE Mark
      <4>1. /\ tracker.at = "marking" /\ track'.status = tracker.event /\ unheard' = unheard
            /\ verdict # "told"
        BY <1>1, <3>2 DEF Mark, TrackerAt, Write, RowIsFree, TrackType
      <4> QED
        BY <1>2, <2>1, <2>3, <4>1 DEF LiveInv, Hearing, Hears, LastWord
    <3>3. CASE TrackerDies
      <4>1. track' = track /\ track.status = "running" /\ verdict # "told"
        BY <2>3, <3>3 DEF TrackerDies, RowIsFree
      <4> QED
        BY <2>1, <4>1 DEF Hearing, Outcome
    <3> QED
      BY <1>6, <3>1, <3>2, <3>3
  <2> QED
    BY <1>5, <2>2, <2>3 DEF LiveInv
<1>7. CASE FailSilently
  <2>1. /\ tracker'.at = "marking" /\ tracker'.event = "failed" /\ unheard' /\ track' = track
        /\ verdict' = verdict
    BY <1>1, <1>7 DEF FailSilently, TrackerAt, TrackerType
  <2>2. Announces'
    BY <1>1, <1>2, <2>1 DEF Announces
  <2> QED
    BY <1>5, <2>1, <2>2 DEF LiveInv
<1>8. CASE CommitVerdict
  <2>1. tracker' = tracker /\ verdict = "told" /\ verdict' = "over"
    BY <1>8 DEF CommitVerdict
  <2>2. (track'.status = "failed" /\ unheard' = unheard) \/ (track' = track /\ unheard')
    BY <1>1, <1>8 DEF CommitVerdict, TrackType
  <2>3. Announces'
    BY <1>1, <1>2, <2>1, <2>2 DEF Announces, Outcome
  <2>4. ~unheard' => Hearing'
    BY <1>1, <1>2, <2>1, <2>2 DEF LiveInv, Hearing, Hears, LastWord
  <2> QED
    BY <1>5, <2>3, <2>4 DEF LiveInv
<1>9. CASE CancelDeploy
  <2>1. /\ tracker' = tracker /\ verdict' = verdict /\ verdict # "told"
        /\ \/ track.status = "pending" /\ track'.status = "cancelled" /\ unheard'
           \/ track'.status = track.status /\ unheard' = unheard
    BY <1>1, <1>9 DEF CancelDeploy, RowIsFree, TrackType
  <2>2. Announces'
    BY <1>1, <1>2, <2>1 DEF Announces, Outcome
  <2>3. ~unheard' => Hearing'
    BY <1>1, <1>2, <2>1 DEF LiveInv, Hearing, Hears, LastWord
  <2> QED
    BY <1>5, <2>2, <2>3 DEF LiveInv
<1> QED
  BY <1>6, <1>7, <1>8, <1>9

\* A message is the last word of everyone in the group.
LEMMA PublishTells ==
    ASSUME browser \in [Browser -> BrowserType],
           \A b \in Browser : browser[b].at = "away" => browser[b].queue = <<>>,
           NEW event \in Shown, Publish(event)
    PROVE  /\ browser' \in [Browser -> BrowserType]
           /\ \A b \in Browser : browser'[b].at = "away" => browser'[b].queue = <<>>
           /\ \A b \in Browser : Hears(b)' => LastWord(b)' = event
<1>1. ASSUME NEW b \in Browser
      PROVE  /\ browser'[b] \in BrowserType
             /\ browser'[b].at = "away" => browser'[b].queue = <<>>
             /\ browser'[b].at # "away" =>
                  /\ browser'[b].queue # <<>>
                  /\ browser'[b].queue[Len(browser'[b].queue)] = event
  <2>1. CASE browser[b].at = "away"
    BY <2>1 DEF Publish
  <2>2. CASE browser[b].at # "away"
    <3>1. browser'[b] = [browser[b] EXCEPT !.queue = Append(browser[b].queue, event)]
      BY <2>2 DEF Publish
    <3>2. /\ Append(browser[b].queue, event) \in Seq(Shown)
          /\ Append(browser[b].queue, event) # <<>>
          /\ Append(browser[b].queue, event)[Len(Append(browser[b].queue, event))] = event
      BY DEF BrowserType
    <3>3. /\ browser'[b].queue = Append(browser[b].queue, event)
          /\ browser'[b].at = browser[b].at
      BY <3>1 DEF BrowserType
    <3>4. browser'[b] \in BrowserType
      BY <3>1, <3>2 DEF BrowserType
    <3> QED
      BY <2>2, <3>2, <3>3, <3>4
  <2> QED
    BY <2>1, <2>2
<1>2. browser' \in [Browser -> BrowserType]
  BY <1>1 DEF Publish
<1> QED
  BY <1>1, <1>2 DEF Hears, LastWord

\* The steps that send a message to the group.
LEMMA LiveSends ==
    ASSUME LiveInv, PublishEvent \/ SinkPublishes \/ TellVerdict
    PROVE  LiveInv'
<1>1. /\ track \in TrackType /\ tracker \in TrackerType /\ verdict \in {"none", "told", "over"}
      /\ browser \in [Browser -> BrowserType] /\ unheard \in BOOLEAN /\ Announces
  BY LiveTypes DEF LiveInv
<1>2. track' = track /\ unheard' \in BOOLEAN
  BY <1>1 DEF PublishEvent, SinkPublishes, TellVerdict
<1>3. \/ tracker' = tracker
      \/ tracker' = [tracker EXCEPT !.at = tracker.then]
  BY DEF PublishEvent, SinkPublishes, TellVerdict, TrackerTo
<1>4. tracker' \in TrackerType
  BY <1>1, <1>3 DEF TrackerType
<1>5. \A event \in Shown : Publish(event) =>
        /\ browser' \in [Browser -> BrowserType]
        /\ \A b \in Browser : browser'[b].at = "away" => browser'[b].queue = <<>>
        /\ \A b \in Browser : Hears(b)' => LastWord(b)' = event
  BY <1>1, PublishTells DEF Announces
<1>6. CASE PublishEvent \/ SinkPublishes
  <2>1. /\ tracker.at = "publish" /\ verdict' = verdict
        /\ tracker'.at = tracker.then /\ tracker'.event = tracker.event
        /\ tracker.event \in Shown
    BY <1>1, <1>6 DEF PublishEvent, SinkPublishes, TrackerTo, TrackerAt, TrackerType
  <2>2. \/ Publish(tracker.event) /\ unheard' = unheard
        \/ unheard' /\ browser' = browser
        \/ tracker.event = "running" /\ browser' = browser /\ unheard' = unheard
    BY <1>6 DEF PublishEvent, SinkPublishes, Broadcast, Forced
  <2>3. /\ browser' \in [Browser -> BrowserType]
        /\ \A b \in Browser : browser'[b].at = "away" => browser'[b].queue = <<>>
    BY <1>1, <1>5, <2>1, <2>2 DEF Announces
  <2>4. LiveTypeOK'
    BY <1>1, <1>2, <1>4, <2>1, <2>3, LiveTypesNext
  <2>5. /\ tracker.then \in {"done", "ended"} => track.status = tracker.event /\ tracker.event \in Outcome
        /\ tracker.then = "marking" => /\ tracker.event \in {"succeeded", "failed"}
                                       /\ track.status = "running" => tracker.event = "failed"
    BY <1>1, <2>1 DEF Announces
  <2>6. tracker.then # "publish"
    BY <1>1 DEF TrackerType
  <2>7. Announces'
    BY <1>1, <1>2, <2>1, <2>3, <2>5, <2>6 DEF Announces
  <2>8. ASSUME ~unheard' PROVE Hearing'
    <3>1. CASE tracker.then \in {"done", "ended", "marking"}
      <4>1. tracker.event \in Outcome
        BY <2>5, <3>1 DEF Outcome
      <4>2. \A b \in Browser : Hears(b)' => LastWord(b)' = tracker.event
        BY <1>5, <2>1, <2>2, <2>8, <4>1 DEF Outcome
      <4>3. tracker.then \in {"done", "ended"} => verdict # "told"
        BY <1>1, <2>5 DEF Announces, Outcome
      <4> QED
        BY <1>2, <2>1, <2>5, <3>1, <4>2, <4>3 DEF Hearing
    <3>2. CASE tracker.then \notin {"done", "ended", "marking"}
      BY <2>1, <3>2 DEF Hearing
    <3> QED
      BY <3>1, <3>2
  <2> QED
    BY <2>4, <2>7, <2>8 DEF LiveInv
<1>7. CASE TellVerdict
  <2>1. /\ tracker' = tracker /\ verdict' = "told" /\ track.status = "running"
        /\ \/ Publish("failed") /\ unheard' = unheard
           \/ unheard' /\ browser' = browser
    BY <1>7 DEF TellVerdict, Broadcast, Forced
  <2>2. /\ browser' \in [Browser -> BrowserType]
        /\ \A b \in Browser : browser'[b].at = "away" => browser'[b].queue = <<>>
        /\ ~unheard' => \A b \in Browser : Hears(b)' => LastWord(b)' = "failed"
    BY <1>1, <1>5, <2>1 DEF Announces, Shown, Outcome
  <2>3. LiveTypeOK'
    BY <1>1, <1>2, <2>1, <2>2, LiveTypesNext
  <2>4. Announces'
    BY <1>1, <1>2, <2>1, <2>2 DEF Announces
  <2>5. ~unheard' => Hearing'
    BY <1>1, <1>2, <2>1, <2>2 DEF Announces, Hearing, Outcome
  <2> QED
    BY <2>3, <2>4, <2>5 DEF LiveInv
<1> QED
  BY <1>6, <1>7

\* A queue that its first message leaves ends as it did.
LEMMA TailKeepsLast ==
    ASSUME NEW S, NEW q \in Seq(S), q # <<>>
    PROVE  /\ Head(q) \in S /\ Tail(q) \in Seq(S)
           /\ Tail(q) = <<>> => Head(q) = q[Len(q)]
           /\ Tail(q) # <<>> => Tail(q)[Len(Tail(q))] = q[Len(q)]
<1>1. /\ Head(q) = q[1] /\ Head(q) \in S /\ Tail(q) \in Seq(S)
      /\ Len(q) \in Nat /\ Len(q) > 0 /\ Len(Tail(q)) = Len(q) - 1
  OBVIOUS
<1>2. \A i \in 1 .. Len(Tail(q)) : Tail(q)[i] = q[i + 1]
  OBVIOUS
<1>3. Tail(q) = <<>> <=> Len(Tail(q)) = 0
  BY <1>1
<1> QED
  BY <1>1, <1>2, <1>3

\* The browsers come, read, listen and go.
LEMMA LiveListens ==
    ASSUME LiveInv, NEW b \in Browser,
           JoinGroup(b) \/ ReadSnapshot(b) \/ Receive(b) \/ Disconnect(b)
    PROVE  LiveInv'
<1>1. /\ track \in TrackType /\ tracker \in TrackerType /\ verdict \in {"none", "told", "over"}
      /\ browser \in [Browser -> BrowserType] /\ unheard \in BOOLEAN /\ Announces
  BY LiveTypes DEF LiveInv
<1>2. UNCHANGED <<track, tracker, verdict>>
  BY DEF JoinGroup, ReadSnapshot, Receive, Disconnect
<1>3. /\ \A c \in Browser \ {b} : browser'[c] = browser[c]
      /\ DOMAIN browser' = Browser /\ browser' = [c \in Browser |-> browser'[c]]
  BY <1>1 DEF JoinGroup, ReadSnapshot, Receive, Disconnect
<1>4. /\ browser[b] \in BrowserType /\ browser[b].queue \in Seq(Shown) /\ track.status \in Shown
      /\ browser[b].at = "away" => browser[b].queue = <<>>
  BY <1>1 DEF BrowserType, TrackType, Announces
<1>5. /\ browser'[b] \in BrowserType
      /\ browser'[b].at = "away" => browser'[b].queue = <<>>
      /\ unheard' \in BOOLEAN /\ (unheard => unheard')
      /\ ~unheard' => \/ ~Hears(b)'
                      \/ Hears(b) /\ LastWord(b)' = LastWord(b)
                      \/ LastWord(b)' = track.status /\ ~Announced
  <2>1. CASE JoinGroup(b)
    <3>1. browser'[b] = [browser[b] EXCEPT !.at = "joined"] /\ unheard' = unheard
      BY <1>1, <2>1 DEF JoinGroup
    <3> QED
      BY <1>1, <1>4, <2>1, <3>1 DEF JoinGroup, BrowserType, Hears
  <2>2. CASE ReadSnapshot(b)
    <3>1. browser'[b] = [browser[b] EXCEPT !.at = "live", !.shown = track.status]
      BY <1>1, <2>2 DEF ReadSnapshot, BrowserType
    <3>2. unheard' = (unheard \/ Announced)
      BY <2>2 DEF ReadSnapshot
    <3>3. /\ browser'[b].at = "live" /\ browser'[b].queue = browser[b].queue
          /\ browser'[b].shown = track.status /\ browser'[b] \in BrowserType
      BY <1>4, <3>1 DEF BrowserType
    <3>4. unheard' \in BOOLEAN /\ (unheard => unheard') /\ (Announced => unheard')
      BY <1>1, <3>2 DEF Announced
    <3> QED
      BY <3>3, <3>4 DEF Hears, LastWord
  <2>3. CASE Receive(b)
    <3> DEFINE q == browser[b].queue
    <3>1. browser'[b] = [browser[b] EXCEPT !.shown = Head(q), !.queue = Tail(q)]
          /\ unheard' = unheard
      BY <1>1, <2>3 DEF Receive, BrowserType
    <3>2. /\ q \in Seq(Shown) /\ q # <<>> /\ Head(q) \in Shown /\ Tail(q) \in Seq(Shown)
          /\ Tail(q) = <<>> => Head(q) = q[Len(q)]
          /\ Tail(q) # <<>> => Tail(q)[Len(Tail(q))] = q[Len(q)]
      <4>1. q \in Seq(Shown) /\ q # <<>>
        BY <1>4, <2>3 DEF Receive
      <4> HIDE DEF q
      <4> QED
        BY <4>1, TailKeepsLast
    <3>3. /\ browser'[b].shown = Head(q) /\ browser'[b].queue = Tail(q)
          /\ browser'[b].at = browser[b].at /\ browser'[b] \in BrowserType
      BY <1>4, <3>1, <3>2 DEF BrowserType
    <3>4. browser[b].at = "live"
      BY <2>3 DEF Receive
    <3> HIDE DEF q
    <3>5. browser[b].queue = q
      BY DEF q
    <3> QED
      BY <1>1, <3>1, <3>2, <3>3, <3>4, <3>5 DEF Hears, LastWord
  <2>4. CASE Disconnect(b)
    <3>1. browser'[b] = NoBrowser /\ unheard' = unheard
      BY <1>1, <2>4 DEF Disconnect
    <3> QED
      BY <1>1, <3>1 DEF NoBrowser, BrowserType, Hears, Shown
  <2> QED
    BY <2>1, <2>2, <2>3, <2>4
<1>6. browser' \in [Browser -> BrowserType]
  BY <1>1, <1>3, <1>5
<1>7. LiveTypeOK'
  BY <1>1, <1>2, <1>5, <1>6, LiveTypesNext
<1>8. Announces'
  BY <1>1, <1>2, <1>3, <1>5 DEF Announces
<1>9. ASSUME ~unheard' PROVE Hearing'
  <2>1. Hearing
    BY <1>5, <1>9 DEF LiveInv
  <2>2. \A c \in Browser \ {b} : (Hears(c)' <=> Hears(c)) /\ LastWord(c)' = LastWord(c)
    BY <1>3 DEF Hears, LastWord
  <2>3. Hears(b)' /\ ~Hears(b) => LastWord(b)' = track.status /\ ~Announced
    BY <1>5, <1>9
  <2>4. ASSUME LastWord(b)' = track.status, ~Announced
        PROVE  /\ verdict # "told"
               /\ tracker.at \in {"done", "marking"} => LastWord(b)' = tracker.event
    BY <1>1, <2>4 DEF Announced, Announces
  <2> QED
    BY <1>2, <1>5, <1>9, <2>1, <2>2, <2>3, <2>4 DEF Hearing
<1> QED
  BY <1>7, <1>8, <1>9 DEF LiveInv

\* The inductive invariant of the live page.
THEOREM LiveInvariant == LiveSpec => []LiveInv
<1>1. LiveInit => LiveInv
  <2> SUFFICES ASSUME LiveInit PROVE LiveInv
    OBVIOUS
  <2>1. LiveTypeOK
    <3>1. MaxEvents \in 0 .. MaxEvents
      BY LiveAssumption
    <3>2. tracker \in TrackerType
      BY <3>1 DEF LiveInit, TrackerType, Shown
    <3>3. NoBrowser \in BrowserType
      BY DEF NoBrowser, BrowserType, Shown
    <3>4. browser \in [Browser -> BrowserType] /\ track \in TrackType
      BY <3>3 DEF LiveInit, TrackType, Shown
    <3> QED
      BY <3>2, <3>4, LiveTypes DEF LiveInit
  <2>2. Announces /\ Hearing
    BY DEF LiveInit, Announces, Hearing, Hears, NoBrowser
  <2> QED
    BY <2>1, <2>2 DEF LiveInv
<1>2. LiveInv /\ [LiveNext]_liveVars => LiveInv'
  <2>1. ASSUME LiveInv, LiveNext PROVE LiveInv'
    BY <2>1, LiveWrites, LiveEnds, LiveSends, LiveListens DEF LiveNext
  <2>2. ASSUME LiveInv, UNCHANGED liveVars PROVE LiveInv'
    BY <2>2 DEF liveVars, LiveInv, LiveTypeOK, Announces, Hearing, Hears, LastWord
  <2> QED
    BY <2>1, <2>2
<1> QED
  BY <1>1, <1>2, PTL DEF LiveSpec

\* When a deployment is over and every message delivered, each page shows the outcome
\* of the row, for any number of browsers and of events, whichever of worker and
\* monitor has given it; with the exceptions OutcomeShown names (DeploymentConsumer,
\* DjangoDeploymentState, DBAndChannelEventSink).
THEOREM OutcomeIsShown == LiveSpec => []OutcomeShown
<1>1. LiveInv => OutcomeShown
  BY DEF LiveInv, OutcomeShown, Hearing, Hears, LastWord, RowIsFree
<1> QED
  BY <1>1, LiveInvariant, PTL

=============================================================================
