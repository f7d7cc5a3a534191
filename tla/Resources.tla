----------------------------- MODULE Resources ------------------------------
(***************************************************************************)
(* The rows of a user's service, its deploys and its network come and go,  *)
(* and with them what they stand for in Docker: a container, an image per  *)
(* deploy, a volume, a network. Rows are deleted in one transaction, after *)
(* signals have worked on Docker step by step, while a worker may still    *)
(* build what they take away.                                              *)
(***************************************************************************)
EXTENDS Naturals, FiniteSets

CONSTANTS
    Package,       \* the deploys a user uploads, each with a version of its own
    NoPackage,
    MaxStarts,     \* bound on the starts of a behaviour
    RemovalFails   \* whether Docker may refuse to remove

ASSUME ResourcesAssumption ==
    /\ NoPackage \notin Package /\ MaxStarts \in Nat /\ RemovalFails \in BOOLEAN

VARIABLES
    service,    \* the Service row
    package,    \* the Deploy rows
    net,        \* the PrivateNetwork row
    store,      \* what Docker has
    task,       \* the message published last
    runner,     \* the worker, with what it read
    remover,    \* the delete request under way
    excuse      \* what has happened that leaves things behind

resourcesVars == <<service, package, net, store, task, runner, remover, excuse>>

Row == {"none", "there", "gone"}
BusyService == {"queued", "deploying", "stopping"}

NoBody == [at |-> "idle", package |-> NoPackage, net |-> FALSE]
NoRemoval == [at |-> "idle", kind |-> "none", package |-> NoPackage, seen |-> {}]

ResourcesTypeOK ==
    /\ service \in [row : Row, status : {"stopped", "running", "failed"} \cup BusyService,
                    selected : Package \cup {NoPackage}, net : BOOLEAN, starts : 0 .. MaxStarts]
    /\ package \in [Package -> Row] /\ net \in Row
    /\ store \in [container : {"absent", "exited", "running"}, attached : BOOLEAN,
                  images : SUBSET Package, volume : BOOLEAN, net : BOOLEAN,
                  helper : BOOLEAN]
    /\ task \in Package \cup {NoPackage}
    /\ runner \in [at : {"idle", "build", "net", "create", "finish"},
                   package : Package \cup {NoPackage}, net : BOOLEAN]
    /\ remover \in [at : {"idle", "purge", "net", "deploys", "service", "commit"},
                    kind : {"none", "service", "owner", "package", "net"},
                    package : Package \cup {NoPackage}, seen : SUBSET Package]
    /\ excuse \subseteq {"worker", "docker", "unselected", "attached", "helper"}

ResourcesInit ==
    /\ service = [row |-> "none", status |-> "stopped", selected |-> NoPackage,
                  net |-> FALSE, starts |-> 0]
    /\ package = [p \in Package |-> "none"] /\ net = "none"
    /\ store = [container |-> "absent", attached |-> FALSE, images |-> {},
                volume |-> FALSE, net |-> FALSE, helper |-> FALSE]
    /\ task = NoPackage /\ runner = NoBody /\ remover = NoRemoval /\ excuse = {}

-----------------------------------------------------------------------------

There == {p \in Package : package[p] = "there"}
Set(status) == service' = [service EXCEPT !.status = status]

UnchangedRows == UNCHANGED <<service, package, net>>
UnchangedWork == UNCHANGED <<task, runner>>
UnchangedRemoval == UNCHANGED <<remover, excuse>>

\* A transaction that deletes the service holds its row from the first update on.
Locked == remover.at = "commit" \/ (remover.at = "service" /\ service.selected # NoPackage)

Removed(d) == [d EXCEPT !.container = "absent", !.attached = FALSE]

-----------------------------------------------------------------------------
(* Rows are created. *)

CreateNetwork ==
    /\ net = "none" /\ net' = "there"
    /\ UNCHANGED <<service, package, store>> /\ UnchangedWork /\ UnchangedRemoval

\* The user's service needs a network of his; the staff's may have none.
CreateService(staff) ==
    /\ service.row = "none"
    /\ staff \/ net = "there"
    /\ \E with \in IF staff THEN {FALSE, net = "there"} ELSE {TRUE} :
           service' = [service EXCEPT !.row = "there", !.net = with]
    /\ UNCHANGED <<package, net, store>> /\ UnchangedWork /\ UnchangedRemoval

CreateDeploy(p) ==
    /\ service.row = "there" /\ package[p] = "none"
    /\ package' = [package EXCEPT ![p] = "there"]
    /\ UNCHANGED <<service, net, store>> /\ UnchangedWork /\ UnchangedRemoval

\* select and unselect.
SelectDeploy(p) ==
    /\ service.row = "there" /\ service.status \notin BusyService /\ ~Locked
    /\ p \in There \cup {NoPackage}
    /\ service' = [service EXCEPT !.selected = p]
    /\ UNCHANGED <<package, net, store>> /\ UnchangedWork /\ UnchangedRemoval

-----------------------------------------------------------------------------
(* The staff start and stop it; the user's requests do the same. *)

AdminStart(rebuild) ==
    /\ service.row = "there" /\ service.status \notin BusyService /\ ~Locked
    /\ service.selected # NoPackage /\ service.starts < MaxStarts
    /\ service' = [service EXCEPT !.status = "queued", !.starts = @ + 1]
    /\ task' = service.selected
    /\ store' = IF rebuild THEN [Removed(store) EXCEPT !.images = {}] ELSE store
    /\ UNCHANGED <<package, net, runner>> /\ UnchangedRemoval

AdminStop ==
    /\ service.row = "there" /\ service.status \notin BusyService /\ ~Locked
    /\ Set("stopping")
    /\ UNCHANGED <<package, net, store>> /\ UnchangedWork /\ UnchangedRemoval

\* The stop task: the container stops and is removed, if the setting says so.
StopRuns ==
    /\ service.row = "there" /\ service.status = "stopping" /\ ~Locked
    /\ Set("stopped")
    /\ store' \in {Removed(store), [store EXCEPT !.container = IF @ = "running" THEN "exited" ELSE @]}
    /\ UNCHANGED <<package, net>> /\ UnchangedWork /\ UnchangedRemoval

\* The monitor fails what takes too long and what has died, worker or no worker.
MonitorFails ==
    /\ service.row = "there" /\ ~Locked
    /\ \/ service.status \in BusyService
       \/ service.status = "running" /\ store.container # "running"
    /\ Set("failed")
    /\ UNCHANGED <<package, net, store>> /\ UnchangedWork /\ UnchangedRemoval

ContainerExits ==
    /\ store.container = "running"
    /\ store' = [store EXCEPT !.container = "exited"]
    /\ UnchangedRows /\ UnchangedWork /\ UnchangedRemoval

-----------------------------------------------------------------------------
(* The deploy task. *)

\* The claim finds the rows gone, or the service in another state, and drops the task.
ClaimDeploy ==
    /\ task # NoPackage /\ runner.at = "idle" /\ ~Locked
    /\ task' = NoPackage
    /\ IF package[task] = "there" /\ service.status = "queued"
       THEN /\ Set("deploying")
            /\ runner' = [at |-> "build", package |-> task, net |-> service.net]
       ELSE UNCHANGED <<service, runner>>
    /\ UNCHANGED <<package, net, store>> /\ UnchangedRemoval

\* From here on the worker goes by what it read. Events about rows that are gone
\* are swallowed. A worker at work during a deletion may bring things back.
Works(at, next) == runner.at = at /\ runner' = [runner EXCEPT !.at = next]
WorksMeanwhile ==
    /\ UNCHANGED remover
    /\ excuse' = IF remover.at = "idle" THEN excuse ELSE excuse \cup {"worker"}

BuildImage ==
    /\ Works("build", "net")
    /\ store' = [store EXCEPT !.images = @ \cup {runner.package}]
    /\ UnchangedRows /\ UNCHANGED task /\ WorksMeanwhile

EnsureNetwork ==
    /\ Works("net", "create")
    /\ store' = [store EXCEPT !.net = @ \/ runner.net, !.volume = TRUE]
    /\ UnchangedRows /\ UNCHANGED task /\ WorksMeanwhile

\* The new container takes the place of the old one. Without its image or its
\* network it cannot.
CreateContainer ==
    /\ Works("create", "finish")
    /\ runner.package \in store.images /\ (runner.net => store.net)
    /\ store' = [store EXCEPT !.container = "running", !.attached = runner.net]
    /\ UnchangedRows /\ UNCHANGED task /\ WorksMeanwhile

FinishDeploy ==
    /\ runner.at = "finish" /\ runner' = NoBody /\ ~Locked
    /\ IF service.row = "there" /\ service.status = "deploying" THEN Set("running")
       ELSE UNCHANGED service
    /\ UNCHANGED <<package, net, store, task>> /\ WorksMeanwhile

\* A deployment that fails removes the image it has built and leaves the old container.
FailDeploy ==
    /\ runner.at \in {"build", "net", "create"} /\ ~Locked
    /\ runner' = NoBody
    /\ store' = IF runner.at = "build" THEN store
                ELSE [store EXCEPT !.images = @ \ {runner.package}]
    /\ IF service.row = "there" /\ service.status \in {"queued", "deploying"} THEN Set("failed")
       ELSE UNCHANGED service
    /\ UNCHANGED <<package, net, task>> /\ WorksMeanwhile

RunnerDies ==
    /\ runner.at # "idle" /\ runner' = NoBody
    /\ UnchangedRows /\ UNCHANGED <<store, task>> /\ UnchangedRemoval

-----------------------------------------------------------------------------
(* The owner lists the files of a volume, or downloads it: a container mounts   *)
(* it, unless the process can read the volume's directory itself.               *)

\* The name of the row, or one of the older names.
HasVolume == service.row = "there" /\ store.volume

\* Bound: a helper comes when a deletion is about to remove the volume; one that was
\* there before is the same to it.
ReadVolume ==
    /\ HasVolume /\ ~store.helper /\ remover.at = "service"
    /\ store' = [store EXCEPT !.helper = TRUE]
    /\ UnchangedRows /\ UnchangedWork /\ UnchangedRemoval

\* The helper is removed whatever it has answered. A process that dies meanwhile, or a
\* refusal, which is swallowed, leaves it; then nothing looks for it.
RemoveHelper ==
    /\ store.helper /\ store' = [store EXCEPT !.helper = FALSE]
    /\ UnchangedRows /\ UnchangedWork /\ UnchangedRemoval

-----------------------------------------------------------------------------
(* Rows are deleted. *)

RemoverTo(at) == remover' = [remover EXCEPT !.at = at]
At(at) == remover.at = at /\ UnchangedWork

\* Docker does what it is asked to, or refuses and the signal only logs it.
Cleans(cleaned, because) ==
    \/ store' = cleaned /\ excuse' = excuse \cup because
    \/ RemovalFails /\ store' = store /\ excuse' = excuse \cup {"docker"}

\* destroy of the user and of the staff: the status is read once.
DestroyService ==
    /\ At("idle")
    /\ service.row = "there" /\ service.status \notin BusyService \cup {"running"}
    /\ remover' = [NoRemoval EXCEPT !.at = "purge", !.kind = "service"]
    /\ UnchangedRows /\ UNCHANGED <<store, excuse>>

\* A superuser deletes the owner: no status is looked at, nothing is purged, and
\* the networks, which nothing depends on, come first.
DestroyOwner ==
    /\ At("idle") /\ service.row = "there"
    /\ remover' = [NoRemoval EXCEPT !.at = IF net = "there" THEN "net" ELSE "deploys",
                                    !.kind = "owner"]
    /\ UnchangedRows /\ UNCHANGED <<store, excuse>>

DestroyDeploy(p) ==
    /\ At("idle") /\ package[p] = "there"
    /\ remover' = [NoRemoval EXCEPT !.at = "deploys", !.kind = "package", !.package = p]
    /\ UnchangedRows /\ UNCHANGED <<store, excuse>>

\* The staff's request does not ask whether services are in the network.
DestroyNetwork(staff) ==
    /\ At("idle") /\ net = "there"
    /\ staff \/ service.row # "there" \/ ~service.net
    /\ remover' = [NoRemoval EXCEPT !.at = "net", !.kind = "net"]
    /\ UnchangedRows /\ UNCHANGED <<store, excuse>>

\* _purge_service_runtime: the container goes, and the image called latest, which
\* a build never makes. The status is written whatever it has become, unless
\* Docker cannot be reached at all.
PurgeRuntime ==
    /\ At("purge") /\ RemoverTo("deploys")
    /\ \/ Cleans(Removed(store), {}) /\ Set("stopped")
       \/ RemovalFails /\ excuse' = excuse \cup {"docker"} /\ UNCHANGED <<service, store>>
    /\ UNCHANGED <<package, net>>

\* Docker refuses to remove a network that a running container is attached to.
SignalNetwork ==
    /\ At("net")
    /\ RemoverTo(IF remover.kind = "net" THEN "commit" ELSE "deploys")
    /\ IF store.container = "running" /\ store.attached
       THEN store' = store /\ excuse' = excuse \cup {"attached"}
       ELSE Cleans([store EXCEPT !.net = FALSE], {})
    /\ UnchangedRows

\* Mutant: the container of a selected deploy goes, its images stay.
SignalDeploysContainer ==
    LET doomed == IF remover.kind = "package" THEN {remover.package} ELSE There IN
    /\ At("deploys")
    /\ remover' = [remover EXCEPT !.at = IF remover.kind = "package" THEN "commit" ELSE "service",
                                  !.seen = doomed]
    /\ IF service.selected \in doomed THEN Cleans(Removed(store), {})
       ELSE store' = store /\ excuse' = IF doomed \cap store.images = {} THEN excuse
                                        ELSE excuse \cup {"unselected"}
    /\ UnchangedRows

\* The pre_delete of every deploy that is there: if one of them is selected, the
\* container goes with all images of the service; otherwise all images stay.
SignalDeploys ==
    LET doomed == IF remover.kind = "package" THEN {remover.package} ELSE There IN
    /\ At("deploys")
    /\ remover' = [remover EXCEPT !.at = IF remover.kind = "package" THEN "commit" ELSE "service",
                                  !.seen = doomed]
    /\ IF service.selected \in doomed THEN Cleans([Removed(store) EXCEPT !.images = {}], {})
       ELSE store' = store /\ excuse' = IF doomed \cap store.images = {} THEN excuse
                                        ELSE excuse \cup {"unselected"}
    /\ UnchangedRows

\* The pre_delete of the service: container and volumes. Docker keeps a volume that
\* the helper of a request mounts.
SignalService ==
    /\ At("service") /\ RemoverTo("commit")
    /\ Cleans([Removed(store) EXCEPT !.volume = store.helper],
              IF store.helper THEN {"helper"} ELSE {})
    /\ UnchangedRows

\* A deploy that was created meanwhile refers to the service: the deletion fails as
\* a whole, and what the signals have removed is gone.
Conflict == remover.kind \in {"service", "owner"} /\ There # remover.seen

\* What a worker has in hands outlives the rows.
Overtakes == IF runner.at # "idle" \/ task # NoPackage THEN {"worker"} ELSE {}

CommitRemoval ==
    /\ At("commit") /\ remover' = NoRemoval
    /\ UNCHANGED store
    /\ \/ Conflict /\ UnchangedRows /\ UNCHANGED excuse
       \/ /\ ~Conflict
          /\ excuse' = excuse \cup Overtakes
          /\ package' = [p \in Package |-> IF p \in remover.seen THEN "gone" ELSE package[p]]
          /\ service' = [service EXCEPT
                !.row = IF remover.kind \in {"service", "owner"} THEN "gone" ELSE @,
                !.selected = IF @ \in remover.seen THEN NoPackage ELSE @,
                !.net = @ /\ remover.kind = "package"]
          /\ net' = IF remover.kind \in {"net", "owner"} /\ net = "there" THEN "gone" ELSE net

\* What the property excuses altogether is not followed further.
Followed == excuse \cap {"worker", "docker"} = {}

ResourcesStep ==
    \/ CreateNetwork
    \/ \E staff \in BOOLEAN : CreateService(staff) \/ DestroyNetwork(staff)
    \/ \E p \in Package : CreateDeploy(p) \/ DestroyDeploy(p)
    \/ \E p \in Package \cup {NoPackage} : SelectDeploy(p)
    \/ \E rebuild \in BOOLEAN : AdminStart(rebuild)
    \/ AdminStop \/ StopRuns \/ MonitorFails \/ ContainerExits
    \/ ClaimDeploy \/ BuildImage \/ EnsureNetwork \/ CreateContainer \/ FinishDeploy
    \/ FailDeploy \/ RunnerDies
    \/ ReadVolume \/ RemoveHelper
    \/ DestroyService \/ DestroyOwner \/ PurgeRuntime
    \/ SignalNetwork \/ SignalDeploys \/ SignalService \/ CommitRemoval

ResourcesNext == Followed /\ ResourcesStep

ResourcesSpec == ResourcesInit /\ [][ResourcesNext]_resourcesVars

-----------------------------------------------------------------------------

\* When the rows of a service and of its network are gone, Docker has nothing of
\* them: no container, image, volume or network; unless a worker had a task of the
\* service, Docker refused, an image was built of a deploy that was not selected
\* when it was deleted, a running container was attached to the network, or a volume
\* was being read or had been when its reader died. The code is the signals of
\* services and deploys, and the requests' purge.
NothingLeft ==
    remover.at = "idle" /\ Followed =>
        /\ service.row = "gone" => /\ store.container = "absent"
                                   /\ "helper" \in excuse \/ ~store.volume
                                   /\ "unselected" \in excuse \/ store.images = {}
        /\ net = "gone" => "attached" \in excuse \/ ~store.net

=============================================================================
