------------------------------ MODULE Workers -------------------------------
(***************************************************************************)
(* The Celery workers: the deploy task (DeployService with the event       *)
(* tracker and the orchestrator it drives) and the stop task (StopService).*)
(* A worker is a prefork child: it takes one message, and its death loses  *)
(* the message, because tasks are acknowledged on receipt.                 *)
(*                                                                         *)
(* Each action is one transaction on the rows or one Docker operation. The *)
(* orchestrator's stages are merged where nothing but a cancellation can   *)
(* be told apart between them.                                             *)
(***************************************************************************)
EXTENDS Platform

CONSTANTS
    Worker,      \* the worker processes
    NodeOf       \* where a worker runs: str hashes differ between nodes

ASSUME NodeOfAssumption ==
    DOMAIN NodeOf = Worker /\ \A w \in Worker : NodeOf[w] # "service"

VARIABLE worker

Idle == [pc |-> "idle", kind |-> "none", deploy |-> None, task |-> None,
         cancel |-> FALSE, restart |-> FALSE, prev |-> None, old |-> Absent]

DeployPC == {"claim", "begin", "prepare", "build", "replace", "create",
             "health", "complete", "fail", "failStarted", "rollback", "restore",
             "finishFailed", "finishCancelled", "raised", "escaped", "wait",
             "syncRunning", "syncSucceeded", "syncFailed", "syncDeployFailed",
             "syncStopped"}

StopPC == {"claim", "stopping", "removing", "finishStop", "raised",
           "syncStopped", "syncFailed"}

WorkerState ==
    [pc : DeployPC \cup StopPC \cup {"idle"}, kind : {"none", "deploy", "stop"},
     deploy : Deploy \cup {None}, task : Task \cup {None},
     cancel : BOOLEAN,       \* cancel_requested as read by the claim
     restart : BOOLEAN,      \* is_restart_only's timestamps, as read by the claim
     prev : Deploy \cup {None},        \* image in the snapshot
     old : Container]        \* the renamed old container

WorkersInit == worker = [w \in Worker |-> Idle]

Set(w, state) == worker' = [worker EXCEPT ![w] = state]
Goto(w, pc) == Set(w, [worker[w] EXCEPT !.pc = pc])
Done(w) == Set(w, Idle)
At(w, pc) == worker[w].pc = pc

-----------------------------------------------------------------------------
(* The advisory lock of a service. The deploy task keys it on the row's    *)
(* UUID, the stop task on a str, hashed with the seed of its node. The     *)
(* lock is held for as long as the task runs, on the worker's connection.  *)

Key(w, kind) == IF kind = "deploy" THEN "service" ELSE NodeOf[w]

Locked(key) == \E v \in Worker : /\ worker[v].pc # "idle"
                                 /\ Key(v, worker[v].kind) = key

\* Mutant: the task runs without the advisory lock.
ReceiveUnlocked(w, m) ==
    /\ At(w, "idle")
    /\ m \in queue
    /\ queue' = queue \ {m}
    /\ IF m.task \in revoked
         THEN UNCHANGED worker
         ELSE Set(w, [Idle EXCEPT !.pc = "claim", !.kind = m.kind,
                                  !.deploy = m.deploy, !.task = m.task])
    /\ UNCHANGED <<svc, dep, container, lastTask, revoked>>

\* A message of a revoked task is discarded; one that finds the lock taken is
\* dropped: execute() logs the DeploymentLockError and returns.
Receive(w, m) ==
    /\ At(w, "idle")
    /\ m \in queue
    /\ queue' = queue \ {m}
    /\ IF m.task \in revoked \/ Locked(Key(w, m.kind))
         THEN UNCHANGED worker
         ELSE Set(w, [Idle EXCEPT !.pc = "claim", !.kind = m.kind,
                                  !.deploy = m.deploy, !.task = m.task])
    /\ UNCHANGED <<svc, dep, container, lastTask, revoked>>

-----------------------------------------------------------------------------
(* Deploying: claim, start, validate, restart or orchestrate. *)

UnchangedBroker == UNCHANGED <<queue, lastTask, revoked>>
OnlyWorker == UNCHANGED <<svc, dep, container>> /\ UnchangedBroker
OnlyDeploy == UNCHANGED <<svc, container>> /\ UnchangedBroker
OnlyService == UNCHANGED <<dep, container>> /\ UnchangedBroker
OnlyContainer == UNCHANGED <<svc, dep>> /\ UnchangedBroker

\* Mutant: the claim does not ask for a queued service.
ClaimAny(w) ==
    LET d == worker[w].deploy IN
    /\ At(w, "claim") /\ worker[w].kind = "deploy"
    /\ svc' = [svc EXCEPT !.status = "deploying", !.started = "fresh"]
    /\ dep' = [dep EXCEPT ![d].status = "running", ![d].started = "fresh",
                          ![d].past = FALSE]
    /\ Set(w, [worker[w] EXCEPT !.pc = "begin", !.cancel = dep[d].cancel,
                  !.restart = svc.deployed /\ ~svc.reselected])
    /\ UNCHANGED container /\ UnchangedBroker

\* Mutant: the claim stamps the service but not the deploy.
ClaimUnstamped(w) ==
    LET d == worker[w].deploy IN
    /\ At(w, "claim") /\ worker[w].kind = "deploy"
    /\ IF svc.status = "queued"
         THEN /\ svc' = [svc EXCEPT !.status = "deploying", !.started = "fresh"]
              /\ dep' = [dep EXCEPT ![d].status = "running", ![d].past = FALSE]
              /\ Set(w, [worker[w] EXCEPT !.pc = "begin", !.cancel = dep[d].cancel,
                            !.restart = svc.deployed /\ ~svc.reselected])
         ELSE Done(w) /\ UNCHANGED <<svc, dep>>
    /\ UNCHANGED container /\ UnchangedBroker

\* lock_and_get_deployment
Claim(w) ==
    LET d == worker[w].deploy IN
    /\ At(w, "claim") /\ worker[w].kind = "deploy"
    /\ IF svc.status = "queued"
         THEN /\ svc' = [svc EXCEPT !.status = "deploying", !.started = "fresh"]
              /\ dep' = [dep EXCEPT ![d].status = "running",
                                    ![d].started = "fresh", ![d].past = FALSE]
              /\ Set(w, [worker[w] EXCEPT !.pc = "begin",
                            !.cancel = dep[d].cancel,
                            !.restart = svc.deployed /\ ~svc.reselected])
         ELSE Done(w) /\ UNCHANGED <<svc, dep>>
    /\ UNCHANGED container /\ UnchangedBroker

\* A deploy whose cancellation the claim has read is finished as cancelled;
\* otherwise start() writes RUNNING and clears the cancellation.
Begin(w) ==
    LET d == worker[w].deploy IN
    /\ At(w, "begin")
    /\ IF worker[w].cancel
         THEN /\ SetStatus(d, "cancelled")
              /\ Goto(w, "syncStopped")
         ELSE /\ dep' = [dep EXCEPT ![d] = [status |-> "running", started |-> "fresh",
                                            cancel |-> FALSE, past |-> FALSE]]
              /\ Goto(w, "prepare")
    /\ OnlyDeploy

\* is_restart_only: the existing container is started as it is.
Restart(w) ==
    /\ At(w, "prepare")
    /\ worker[w].restart /\ container # Absent
    /\ container' = [container EXCEPT !.state = "running"]
    /\ SetStatus(worker[w].deploy, "succeeded")
    /\ Goto(w, "wait")
    /\ UNCHANGED svc /\ UnchangedBroker

Orchestrate(w) ==
    /\ At(w, "prepare")
    /\ ~(worker[w].restart /\ container # Absent)
    /\ Goto(w, "build")
    /\ OnlyWorker

\* Validation, or the start of the existing container, raises.
PrepareFails(w) ==
    /\ At(w, "prepare") /\ "docker" \in Faults
    /\ Goto(w, "raised")
    /\ OnlyWorker

-----------------------------------------------------------------------------
(* The orchestrator. A stage announces itself with an event, which writes  *)
(* stage and progress, or raises DeploymentCancelled when a cancellation   *)
(* has been requested.                                                     *)

Cancelling(w) == dep[worker[w].deploy].cancel

Event(w, past) == dep' = [dep EXCEPT ![worker[w].deploy].past = past]

\* The snapshot is taken before the image is built.
Build(w) ==
    /\ At(w, "build") /\ ~Cancelling(w)
    /\ Event(w, FALSE)
    /\ Set(w, [worker[w] EXCEPT !.pc = "replace", !.prev = container.image])
    /\ OnlyDeploy

BuildFails(w) ==
    /\ At(w, "build") /\ ~Cancelling(w) /\ "docker" \in Faults
    /\ Event(w, FALSE)
    /\ Set(w, [worker[w] EXCEPT !.pc = "fail", !.prev = container.image])
    /\ OnlyDeploy

\* The old container is renamed out of the way; it keeps its state.
Replace(w) ==
    /\ At(w, "replace") /\ ~Cancelling(w)
    /\ Event(w, FALSE)
    /\ container' = Absent
    /\ Set(w, [worker[w] EXCEPT !.pc = "create", !.old = container])
    /\ UNCHANGED svc /\ UnchangedBroker

Create(w) ==
    /\ At(w, "create") /\ ~Cancelling(w)
    /\ container.state # "running"    \* a stale stopped one is removed
    /\ Event(w, FALSE)
    /\ container' = Up(worker[w].deploy)
    /\ Goto(w, "health")
    /\ UNCHANGED svc /\ UnchangedBroker

\* create() or start() raises; _undo_rename frees the old container's name.
CreateFails(w) ==
    /\ At(w, "create") /\ ~Cancelling(w)
    /\ "docker" \in Faults \/ container.state = "running"
    /\ Event(w, FALSE)
    /\ container' = IF container.state = "running" THEN container ELSE worker[w].old
    /\ Set(w, [worker[w] EXCEPT !.pc = "fail", !.old = Absent])
    /\ UNCHANGED svc /\ UnchangedBroker

\* Healthy: the old container goes.
Health(w) ==
    /\ At(w, "health") /\ ~Cancelling(w)
    /\ container.state = "running"
    /\ Event(w, TRUE)
    /\ Set(w, [worker[w] EXCEPT !.pc = "complete", !.old = Absent])
    /\ OnlyDeploy

HealthFails(w) ==
    /\ At(w, "health") /\ ~Cancelling(w)
    /\ "docker" \in Faults \/ container.state # "running"
    /\ Event(w, TRUE)
    /\ Goto(w, "failStarted")
    /\ OnlyDeploy

\* The deployment_completed event, then finish(result).
Complete(w) ==
    /\ At(w, "complete") /\ ~Cancelling(w)
    /\ SetStatus(worker[w].deploy, "succeeded")
    /\ Goto(w, "wait")
    /\ OnlyDeploy

\* Cancelled before the new container started: nothing is undone.
CancelBuild(w) ==
    /\ worker[w].pc \in {"build", "replace", "create"} /\ Cancelling(w)
    /\ Goto(w, "finishCancelled")
    /\ OnlyWorker

\* Cancelled after: new and old container go; with a snapshot, the first
\* rollback event raises the cancellation again and escapes the handler.
CancelStarted(w) ==
    /\ worker[w].pc \in {"health", "complete"} /\ Cancelling(w)
    /\ container' = Absent
    /\ Set(w, [worker[w] EXCEPT !.old = Absent,
                  !.pc = IF worker[w].prev = None THEN "finishCancelled" ELSE "escaped"])
    /\ OnlyContainer

\* _handle_failure, whose own events raise a cancellation out of the handler.
Escape(w) ==
    /\ worker[w].pc \in {"fail", "failStarted", "rollback", "restore", "finishFailed"}
    /\ Cancelling(w)
    /\ Goto(w, "escaped")
    /\ OnlyWorker

\* The error's event carries the stage that raised it, at 95 per cent.
Fail(w) ==
    /\ At(w, "fail") /\ ~Cancelling(w)
    /\ \E past \in BOOLEAN : Event(w, past)
    /\ Goto(w, "rollback")
    /\ OnlyDeploy

FailStarted(w) ==
    /\ At(w, "failStarted") /\ ~Cancelling(w)
    /\ container' = Absent
    /\ Set(w, [worker[w] EXCEPT !.pc = "rollback", !.old = Absent])
    /\ OnlyContainer

Rollback(w) ==
    /\ At(w, "rollback") /\ ~Cancelling(w)
    /\ SetStatus(worker[w].deploy, "rolling_back")
    /\ Goto(w, "restore")
    /\ OnlyDeploy

\* restore_from_snapshot removes what bears the name and recreates the old one.
Restore(w) ==
    /\ At(w, "restore") /\ ~Cancelling(w)
    /\ \/ worker[w].prev = None /\ UNCHANGED container
       \/ worker[w].prev # None /\ container' = Up(worker[w].prev)
       \/ worker[w].prev # None /\ "docker" \in Faults /\ container' = Absent
    /\ Goto(w, "finishFailed")
    /\ OnlyContainer

-----------------------------------------------------------------------------
(* finish(), and the sync_legacy_* writers. *)

FinishFailed(w) ==
    /\ At(w, "finishFailed") /\ ~Cancelling(w)
    /\ SetStatus(worker[w].deploy, "failed")
    /\ Goto(w, "syncFailed")
    /\ OnlyDeploy

FinishCancelled(w) ==
    /\ At(w, "finishCancelled")
    /\ SetStatus(worker[w].deploy, "cancelled")
    /\ Goto(w, "syncStopped")
    /\ OnlyDeploy

\* An exception: record_exception, then finish() by the exception's stage.
FinishRaised(w) ==
    /\ worker[w].pc \in {"raised", "escaped"}
    /\ IF worker[w].deploy = None
         THEN UNCHANGED dep
         ELSE SetStatus(worker[w].deploy,
                        IF At(w, "escaped") THEN "cancelled" ELSE "failed")
    /\ Goto(w, "syncFailed")
    /\ OnlyDeploy

\* wait_until_running polls the container; its timeout is an exception.
Wait(w) ==
    /\ At(w, "wait")
    /\ Goto(w, IF container.state = "running" THEN "syncRunning" ELSE "raised")
    /\ OnlyWorker

\* mark_service_running; a refused transition ends the task.
SyncRunning(w) ==
    /\ At(w, "syncRunning")
    /\ \/ /\ svc.status \in {"stopped", "running"}
          /\ Goto(w, "syncSucceeded") /\ UNCHANGED svc
       \/ /\ svc.status \notin {"stopped", "running"}
          /\ ServiceMay(svc.status, "running")
          /\ svc' = TransitionService(svc, "running")
          /\ Goto(w, "syncSucceeded")
       \/ /\ ~ServiceMay(svc.status, "running") /\ svc.status # "stopped"
          /\ Done(w) /\ UNCHANGED svc
    /\ OnlyService

\* mark_deploy_succeeded, mark_deploy_failed
SyncDeploy(w) ==
    LET status == IF At(w, "syncSucceeded") THEN "succeeded" ELSE "failed"
        d == worker[w].deploy
    IN /\ worker[w].pc \in {"syncSucceeded", "syncDeployFailed"}
       /\ IF DeployMay(dep[d].status, status)
            THEN SetStatus(d, status)
            ELSE UNCHANGED dep
       /\ Done(w)
       /\ OnlyDeploy

\* Mutant: the bare update of older releases.
SyncFailedBare(w) ==
    /\ At(w, "syncFailed")
    /\ svc' = Cleared(svc, "failed")
    /\ IF worker[w].kind = "deploy" THEN Goto(w, "syncDeployFailed") ELSE Done(w)
    /\ OnlyService

\* mark_service_failed, never over a clean STOPPED.
SyncFailed(w) ==
    /\ At(w, "syncFailed")
    /\ svc' = IF svc.status # "stopped" /\ ServiceMay(svc.status, "failed")
                THEN TransitionService(svc, "failed") ELSE svc
    /\ IF /\ worker[w].kind = "deploy"
          /\ svc.status = "stopped" \/ ServiceMay(svc.status, "failed")
         THEN Goto(w, "syncDeployFailed") ELSE Done(w)
    /\ OnlyService

\* mark_service_stopped, only from STOPPING.
SyncStopped(w) ==
    /\ At(w, "syncStopped")
    /\ svc' = IF svc.status = "stopping" THEN TransitionService(svc, "stopped") ELSE svc
    /\ Done(w)
    /\ OnlyService

-----------------------------------------------------------------------------
(* Stopping. *)

\* lock_and_start_stopping; the selected deploy is what the tracker follows.
ClaimStop(w) ==
    /\ At(w, "claim") /\ worker[w].kind = "stop"
    /\ IF svc.status \in {"running", "failed", "succeeded", "stopping"}
         THEN /\ svc' = [svc EXCEPT !.status = "stopping"]
              /\ Set(w, [worker[w] EXCEPT !.pc = "stopping", !.deploy = svc.selected])
         ELSE Done(w) /\ UNCHANGED svc
    /\ OnlyService

StopContainer(w) ==
    /\ At(w, "stopping")
    /\ container' = IF container = Absent THEN Absent
                    ELSE [container EXCEPT !.state = "exited"]
    /\ Goto(w, "removing")
    /\ OnlyContainer

StopFails(w) ==
    /\ At(w, "stopping") /\ "docker" \in Faults /\ container.state = "running"
    /\ Goto(w, "raised")
    /\ OnlyWorker

\* A failed removal is logged and forgotten.
RemoveContainer(w) ==
    /\ At(w, "removing")
    /\ \/ container' = Absent
       \/ "docker" \in Faults /\ UNCHANGED container
    /\ Goto(w, "finishStop")
    /\ OnlyContainer

FinishStop(w) ==
    /\ At(w, "finishStop")
    /\ IF worker[w].deploy = None THEN UNCHANGED dep
                                  ELSE SetStatus(worker[w].deploy, "succeeded")
    /\ Goto(w, "syncStopped")
    /\ OnlyDeploy

-----------------------------------------------------------------------------

\* The process dies, and with it its connection, its lock and its message.
Crash(w) ==
    /\ "crash" \in Faults
    /\ worker[w].pc # "idle"
    /\ Done(w)
    /\ OnlyWorker

DeployStep(w) ==
    \/ Claim(w) \/ Begin(w) \/ Restart(w) \/ Orchestrate(w) \/ PrepareFails(w)
    \/ Build(w) \/ BuildFails(w) \/ Replace(w) \/ Create(w) \/ CreateFails(w)
    \/ Health(w) \/ HealthFails(w) \/ Complete(w) \/ CancelBuild(w)
    \/ CancelStarted(w) \/ Escape(w) \/ Fail(w) \/ FailStarted(w)
    \/ Rollback(w) \/ Restore(w)

StopStep(w) ==
    \/ ClaimStop(w) \/ StopContainer(w) \/ StopFails(w)
    \/ RemoveContainer(w) \/ FinishStop(w)

SyncStep(w) ==
    \/ FinishFailed(w) \/ FinishCancelled(w) \/ FinishRaised(w) \/ Wait(w)
    \/ SyncRunning(w) \/ SyncDeploy(w) \/ SyncFailed(w) \/ SyncStopped(w)

WorkerStep(w) == DeployStep(w) \/ StopStep(w) \/ SyncStep(w)

WorkersTypeOK ==
    /\ worker \in [Worker -> WorkerState]
    /\ \A w \in Worker : worker[w].kind = "deploy" => worker[w].deploy \in Deploy

=============================================================================
