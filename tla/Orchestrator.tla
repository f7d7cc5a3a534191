---------------------------- MODULE Orchestrator ----------------------------
(***************************************************************************)
(* DeploymentOrchestrator at full grain: every container by its name, every*)
(* image, and a cancellation, a Docker error or the death of the worker at *)
(* every stage. Workers merges these stages; here they are told apart to   *)
(* see which container bears the service's name when a deployment is over. *)
(*                                                                         *)
(* The event sink raises DeploymentCancelled out of any log call once the  *)
(* cancellation is requested, in the handlers of failures as well: an      *)
(* action that logs first has the disjunct or the action that escapes.     *)
(***************************************************************************)
EXTENDS Naturals, FiniteSets

CONSTANTS
    Nothing,       \* no image
    Tag,           \* the versions a user deploys: name:tag of the image
    Checked,       \* the tags whose image declares a HEALTHCHECK
    MaxDeploys,    \* bound on the deployments of a behaviour
    MinPolls,      \* min_running_polls of the health checker
    DockerFails    \* whether Docker operations raise

ASSUME OrchestratorAssumption ==
    /\ MaxDeploys \in Nat /\ MinPolls \in Nat \ {0}
    /\ Checked \subseteq Tag /\ DockerFails \in BOOLEAN
    /\ Nothing \notin Nat

VARIABLES
    box,        \* the containers of the service, by name
    images,     \* the images in Docker's store
    tagged,     \* the image a tag refers to
    cancelled,  \* cancel_requested of the deploy in progress
    job         \* the orchestrator and its locals

orchestratorVars == <<box, images, tagged, cancelled, job>>

\* Image n is built by the nth deployment; image 0 was there before.
ImageId == 0..MaxDeploys

\* Main is the service's name, n the name the nth deployment renames it to.
Main == 0
Name == 0..MaxDeploys

NoBox == [image |-> Nothing, state |-> "absent"]

Box == [image : ImageId, state : {"created", "running", "exited"}] \cup {NoBox}

OrchestratorPC ==
    {"idle", "prepare", "snapshot", "build", "mounts", "rename", "create",
     "start", "health", "cleanup", "complete",
     "fail", "failOld", "rollback", "recreate", "restart", "discard", "failed",
     "cancel", "cancelOld", "cancelRollback"}

Job == [pc : OrchestratorPC, n : 0..MaxDeploys, tag : Tag,
        snap : ImageId \cup {Nothing},    \* snapshot.image_ref
        image : ImageId \cup {Nothing},   \* what the build produced
        built : BOOLEAN, started : BOOLEAN, renamed : BOOLEAN,
        polls : 0..MinPolls,
        rolled : {"no", "performed", "failed"},
        status : {"none", "succeeded", "failed", "cancelled", "raised"}]

OrchestratorTypeOK ==
    /\ box \in [Name -> Box] /\ images \subseteq ImageId
    /\ tagged \in [Tag -> ImageId \cup {Nothing}]
    /\ cancelled \in BOOLEAN /\ job \in Job

\* A service that was never deployed, or one that serves image 0.
OrchestratorInit ==
    \E t \in Tag, serving \in BOOLEAN :
        /\ box = [x \in Name |-> IF serving /\ x = Main
                                 THEN [image |-> 0, state |-> "running"] ELSE NoBox]
        /\ images = IF serving THEN {0} ELSE {}
        /\ tagged = [u \in Tag |-> IF serving /\ u = t THEN 0 ELSE Nothing]
        /\ cancelled = FALSE
        /\ job = [pc |-> "idle", n |-> 0, tag |-> t, snap |-> Nothing,
                  image |-> Nothing, built |-> FALSE, started |-> FALSE,
                  renamed |-> FALSE, polls |-> 0, rolled |-> "no", status |-> "none"]

-----------------------------------------------------------------------------
(* Docker. *)

Exists(x) == box[x] # NoBox
InUse(i) == \E x \in Name : box[x].image = i
Dangling(i) == i \in images /\ \A t \in Tag : tagged[t] # i
Without(x) == [box EXCEPT ![x] = NoBox]
With(x, i, state) == [box EXCEPT ![x] = [image |-> i, state |-> state]]

\* images.prune(dangling) keeps the images of containers, stopped ones too.
Pruned == images \ {i \in images : Dangling(i) /\ ~InUse(i)}

JobAt(pc) == job.pc = pc
JobTo(pc) == job' = [job EXCEPT !.pc = pc]
Return(status) == job' = [job EXCEPT !.pc = "idle", !.status = status]

\* A stage that begins with a log call: it does not begin once cancelled.
Stage(pc) == JobAt(pc) /\ ~cancelled
DockerError == DockerFails /\ JobTo("fail") /\ UNCHANGED <<box, images, tagged, cancelled>>

-----------------------------------------------------------------------------
(* The pipeline of deploy(). *)

StartDeployment(t) ==
    /\ JobAt("idle") /\ job.n < MaxDeploys
    /\ job' = [job EXCEPT !.pc = "prepare", !.n = @ + 1, !.tag = t, !.snap = Nothing,
                          !.image = Nothing, !.built = FALSE, !.started = FALSE,
                          !.renamed = FALSE, !.polls = 0, !.rolled = "no",
                          !.status = "none"]
    /\ cancelled' = FALSE
    /\ UNCHANGED <<box, images, tagged>>

\* Validation, build context, detection and Dockerfile: the user's files may fail.
Prepare ==
    /\ Stage("prepare")
    /\ JobTo("snapshot") \/ JobTo("fail")
    /\ UNCHANGED <<box, images, tagged, cancelled>>

Snapshot ==
    /\ JobAt("snapshot")
    /\ \/ /\ job' = [job EXCEPT !.pc = "build", !.snap = box[Main].image]
          /\ UNCHANGED <<box, images, tagged, cancelled>>
       \/ DockerError

\* Building again what the tag refers to yields the same image. The callback of
\* the build output swallows cancellations, so the build runs to its end.
Build ==
    /\ Stage("build")
    /\ \/ \E i \in {job.n} \cup (images \cap {tagged[job.tag]}) :
            /\ images' = images \cup {i}
            /\ tagged' = [tagged EXCEPT ![job.tag] = i]
            /\ job' = [job EXCEPT !.pc = "mounts", !.image = i, !.built = TRUE]
            /\ UNCHANGED <<box, cancelled>>
       \/ JobTo("fail") /\ UNCHANGED <<box, images, tagged, cancelled>>

\* Networks and volumes.
Mounts ==
    /\ Stage("mounts")
    /\ \/ JobTo("rename") /\ UNCHANGED <<box, images, tagged, cancelled>>
       \/ DockerError

\* Mutant: the old container makes room for the new one.
RenameForced ==
    /\ JobAt("rename")
    /\ box' = Without(Main) /\ JobTo("create")
    /\ UNCHANGED <<images, tagged, cancelled>>

\* The new name is recorded before the rename is logged and tried.
Rename ==
    /\ JobAt("rename") /\ (Exists(Main) => ~cancelled)
    /\ \/ /\ box' = [box EXCEPT ![job.n] = box[Main], ![Main] = NoBox]
          /\ job' = [job EXCEPT !.pc = "create", !.renamed = Exists(Main)]
          /\ UNCHANGED <<images, tagged, cancelled>>
       \/ /\ Exists(Main) /\ DockerFails
          /\ job' = [job EXCEPT !.pc = "fail", !.renamed = TRUE]
          /\ UNCHANGED <<box, images, tagged, cancelled>>

\* _undo_rename swallows its own failure.
UndoRename(others) ==
    \/ box' = IF job.renamed /\ Exists(job.n)
              THEN [others EXCEPT ![Main] = box[job.n], ![job.n] = NoBox]
              ELSE others
    \/ DockerFails /\ job.renamed /\ box' = others

Create ==
    /\ Stage("create")
    /\ \/ /\ job.image \in images
          /\ box' = With(Main, job.image, "created")
          /\ JobTo("start")
       \/ /\ DockerFails \/ job.image \notin images
          /\ UndoRename(box) /\ JobTo("fail")
    /\ UNCHANGED <<images, tagged, cancelled>>

\* A container that does not start is removed, unless that fails too, and the
\* name then stays taken.
StartNew ==
    /\ Stage("start")
    /\ \/ /\ box' = With(Main, job.image, "running")
          /\ job' = [job EXCEPT !.pc = "health", !.started = TRUE]
       \/ /\ UndoRename(Without(Main))
          /\ JobTo("fail")
       \/ DockerFails /\ JobTo("fail") /\ UNCHANGED box
    /\ UNCHANGED <<images, tagged, cancelled>>

-----------------------------------------------------------------------------
(* wait_until_healthy: one poll. *)

\* A running container without HEALTHCHECK needs MinPolls running polls in a row.
PollRunning ==
    /\ JobAt("health") /\ job.tag \notin Checked
    /\ box[Main].state = "running" /\ job.polls < MinPolls
    /\ job' = [job EXCEPT !.polls = @ + 1]
    /\ UNCHANGED <<box, images, tagged, cancelled>>

PollHealthy ==
    /\ Stage("health")
    /\ IF job.tag \in Checked THEN box[Main].state = "running" ELSE job.polls = MinPolls
    /\ JobTo("cleanup")
    /\ UNCHANGED <<box, images, tagged, cancelled>>

\* Any other status resets the count; it is logged, so a cancellation escapes.
PollOther ==
    /\ Stage("health") /\ job.polls < MinPolls
    /\ box[Main].state # "running" /\ job.polls > 0
    /\ job' = [job EXCEPT !.polls = 0]
    /\ UNCHANGED <<box, images, tagged, cancelled>>

\* Unhealthy, timeout, or an inspection that raises.
PollFails ==
    /\ JobAt("health") /\ job.polls < MinPolls
    /\ JobTo("fail")
    /\ UNCHANGED <<box, images, tagged, cancelled>>

\* Only a running poll that is neither the first nor the last logs nothing.
PollLogs == \/ job.polls \in {0, MinPolls} \/ job.tag \in Checked
            \/ box[Main].state # "running"

Health == PollRunning \/ PollHealthy \/ PollOther \/ PollFails

-----------------------------------------------------------------------------
(* The end of a deployment that succeeds. *)

\* Mutant: the old container is looked up by the service's name.
RemoveOldByName(pc) == box' = Without(Main) /\ JobTo(pc)

\* _cleanup_old_container: an old container that cannot be removed stays.
RemoveOld(pc) ==
    \/ box' = Without(job.n) /\ JobTo(pc)
    \/ DockerFails /\ Exists(job.n) /\ JobTo(pc)
       /\ box' \in {box, [box EXCEPT ![job.n].state = "exited"]}

Cleanup ==
    /\ JobAt("cleanup")
    /\ IF job.renamed THEN RemoveOld("complete") ELSE JobTo("complete") /\ UNCHANGED box
    /\ UNCHANGED <<images, tagged, cancelled>>

Succeed ==
    /\ Stage("complete")
    /\ images' = Pruned
    /\ Return("succeeded")
    /\ UNCHANGED <<box, tagged, cancelled>>

-----------------------------------------------------------------------------
(* _handle_failure. *)

\* A new container that was started is removed; a failure to do so is logged.
Fail ==
    /\ Stage("fail")
    /\ \/ box' = IF job.started THEN Without(Main) ELSE box
       \/ DockerFails /\ job.started /\ UNCHANGED box
    /\ JobTo("failOld")
    /\ UNCHANGED <<images, tagged, cancelled>>

FailOld ==
    /\ JobAt("failOld") /\ (job.renamed /\ Exists(job.n) => ~cancelled)
    /\ IF job.renamed THEN RemoveOld("rollback") ELSE JobTo("rollback") /\ UNCHANGED box
    /\ UNCHANGED <<images, tagged, cancelled>>

RollbackFails ==
    /\ ~cancelled
    /\ job' = [job EXCEPT !.rolled = "failed", !.pc = "discard"]
    /\ UNCHANGED <<box, images, tagged, cancelled>>

\* restore_from_snapshot: whatever bears the name goes, the old one included.
Rollback ==
    /\ Stage("rollback")
    /\ IF job.snap = Nothing
       THEN JobTo("discard") /\ UNCHANGED <<box, images, tagged, cancelled>>
       ELSE \/ /\ box' = Without(Main) /\ JobTo("recreate")
               /\ UNCHANGED <<images, tagged, cancelled>>
            \/ DockerFails /\ RollbackFails

\* Its image must still be there: when the tag has moved on nothing but the
\* removed container kept it.
Recreate ==
    /\ JobAt("recreate")
    /\ \/ /\ job.snap \in images
          /\ box' = With(Main, job.snap, "created") /\ JobTo("restart")
          /\ UNCHANGED <<images, tagged, cancelled>>
       \/ (DockerFails \/ job.snap \notin images) /\ RollbackFails

\* Mutant: the rollback counts as performed once the container is created.
RestartLate ==
    /\ JobAt("restart")
    /\ job' = [job EXCEPT !.rolled = "performed", !.pc = "discard"]
    /\ UNCHANGED <<box, images, tagged, cancelled>>

Restart ==
    /\ JobAt("restart")
    /\ \/ /\ ~cancelled
          /\ box' = [box EXCEPT ![Main].state = "running"]
          /\ job' = [job EXCEPT !.rolled = "performed", !.pc = "discard"]
          /\ UNCHANGED <<images, tagged, cancelled>>
       \/ DockerFails /\ RollbackFails

\* remove_failed_image: Docker keeps the image of a running container.
RemovedImage ==
    LET i == tagged[job.tag]
        shared == \E t \in Tag \ {job.tag} : tagged[t] = i
        kept == \E x \in Name : box[x].image = i /\ box[x].state = "running"
    IN IF ~job.built \/ (kept /\ ~shared) THEN UNCHANGED <<images, tagged>>
       ELSE /\ tagged' = [tagged EXCEPT ![job.tag] = Nothing]
            /\ images' = IF shared THEN images ELSE images \ {i}

Discard ==
    /\ JobAt("discard")
    /\ RemovedImage /\ JobTo("failed")
    /\ UNCHANGED <<box, cancelled>>

Failed ==
    /\ Stage("failed")
    /\ images' = Pruned
    /\ Return("failed")
    /\ UNCHANGED <<box, tagged, cancelled>>

-----------------------------------------------------------------------------
(* Cancellation. *)

RequestCancel ==
    /\ ~JobAt("idle") /\ ~cancelled
    /\ cancelled' = TRUE
    /\ UNCHANGED <<box, images, tagged, job>>

\* The next log call of the pipeline raises: _handle_cancellation.
Cancel ==
    /\ cancelled
    /\ \/ JobAt("prepare") \/ JobAt("snapshot") \/ JobAt("build") \/ JobAt("mounts")
       \/ JobAt("create") \/ JobAt("start") \/ JobAt("complete")
       \/ JobAt("rename") /\ Exists(Main)
       \/ JobAt("health") /\ PollLogs
    /\ job' = [job EXCEPT !.pc = "cancel", !.renamed = @ \/ JobAt("rename")]
    /\ UNCHANGED <<box, images, tagged, cancelled>>

\* The handler removes a started container. One that was not is left, with
\* whatever it replaced: "old container was never renamed".
CancelNew ==
    /\ JobAt("cancel")
    /\ \/ job.started /\ box' = Without(Main) /\ JobTo("cancelOld")
       \/ job.started /\ DockerFails /\ UNCHANGED box /\ Return("raised")
       \/ ~job.started /\ UNCHANGED box /\ JobTo("cancelRollback")
    /\ UNCHANGED <<images, tagged, cancelled>>

\* The old container is removed as well, and then the log call raises again.
CancelOld ==
    /\ JobAt("cancelOld")
    /\ IF job.renamed /\ job.snap # Nothing THEN box' = Without(job.n) ELSE UNCHANGED box
    /\ IF job.snap # Nothing THEN Return("raised") ELSE JobTo("cancelRollback")
    /\ UNCHANGED <<images, tagged, cancelled>>

CancelDone ==
    /\ JobAt("cancelRollback")
    /\ RemovedImage /\ Return("cancelled")
    /\ UNCHANGED <<box, cancelled>>

\* A log call of a handler raises and the exception leaves the orchestrator.
Escape ==
    /\ cancelled
    /\ \/ /\ \/ JobAt("prepare") \/ JobAt("fail") \/ JobAt("rollback") \/ JobAt("failed")
             \/ JobAt("failOld") /\ DockerFails /\ (job.started \/ job.renamed)
             \/ JobAt("recreate") /\ (DockerFails \/ job.snap \notin images)
             \/ JobAt("restart") /\ DockerFails
          /\ UNCHANGED box
       \/ JobAt("failOld") /\ job.renamed /\ Exists(job.n) /\ box' = Without(job.n)
       \/ JobAt("restart") /\ box' = [box EXCEPT ![Main].state = "running"]
    /\ Return("raised")
    /\ UNCHANGED <<images, tagged, cancelled>>

-----------------------------------------------------------------------------
(* What happens around the orchestrator. *)

\* The worker is killed: the containers stay as they are.
Killed ==
    /\ ~JobAt("idle")
    /\ Return("none")
    /\ UNCHANGED <<box, images, tagged, cancelled>>

\* A container's process ends.
ProcessEnds(x) ==
    /\ box[x].state = "running"
    /\ box' = [box EXCEPT ![x].state = "exited"]
    /\ UNCHANGED <<images, tagged, cancelled, job>>

\* Deployments of other services prune the daemon's dangling images.
PruneElsewhere ==
    /\ images' = Pruned /\ images' # images
    /\ UNCHANGED <<box, tagged, cancelled, job>>

\* The stop task between two deployments.
StopService ==
    /\ JobAt("idle") /\ Exists(Main)
    /\ box' = Without(Main)
    /\ job' = [job EXCEPT !.status = "none"]
    /\ UNCHANGED <<images, tagged, cancelled>>

Pipeline == \/ Prepare \/ Snapshot \/ Build \/ Mounts \/ Rename \/ Create \/ StartNew
            \/ Health \/ Cleanup \/ Succeed
Handlers == \/ Fail \/ FailOld \/ Rollback \/ Recreate \/ Restart \/ Discard \/ Failed
            \/ Cancel \/ CancelNew \/ CancelOld \/ CancelDone \/ Escape

OrchestratorNext ==
    \/ \E t \in Tag : StartDeployment(t)
    \/ Pipeline \/ Handlers \/ RequestCancel \/ Killed
    \/ \E x \in Name : ProcessEnds(x)
    \/ PruneElsewhere \/ StopService

OrchestratorSpec == OrchestratorInit /\ [][OrchestratorNext]_orchestratorVars

-----------------------------------------------------------------------------

\* While a deployment works towards its new container, the container it found is
\* still there, under the service's name or renamed: nothing is given up before
\* the new one is healthy. The rename-old strategy of deploy().
OldUntilHealthy ==
    job.pc \in {"build", "mounts", "rename", "create", "start", "health"} /\ job.snap # Nothing
        => \E x \in {Main, job.n} : box[x].image = job.snap

\* A deployment that succeeded leaves its own image under the service's name,
\* started, although the old container was renamed away from that name, and
\* containers and images are removed by name and tag. _cleanup_old_container.
SuccessServes ==
    job.status = "succeeded" =>
        box[Main].image = job.image /\ box[Main].state # "created"

\* A deployment that failed has restored the container it found, or says that
\* the rollback failed; restored means started. RollbackError is not swallowed.
FailureAccounted ==
    job.status = "failed" /\ job.snap # Nothing =>
        \/ job.rolled = "failed"
        \/ box[Main].image = job.snap /\ box[Main].state # "created"

=============================================================================
