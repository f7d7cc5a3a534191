------------------------------ MODULE Monitor -------------------------------
(***************************************************************************)
(* The monitor_services task, sent by beat every twenty seconds: a tick    *)
(* reconciles the active deploys, re-enqueues pending ones and reconciles  *)
(* the service. A container is inspected before the row it is compared     *)
(* with is locked, so what a commit uses may be stale.                     *)
(***************************************************************************)
EXTENDS Platform

VARIABLE monitor

MonitorIdle == [pc |-> "idle", left |-> {}, target |-> None, seen |-> "absent"]

MonitorState == [pc : {"idle", "deploys", "deploy", "retry", "service"},
                 left : SUBSET Deploy,      \* deploys the scan has yet to visit
                 target : Deploy \cup {None},
                 seen : {"absent", "exited", "running"}]

MonitorInit == monitor = MonitorIdle

\* A failed inspection counts as a missing container.
Inspect == {container.state} \cup (IF "docker" \in Faults THEN {"absent"} ELSE {})

UnchangedQueue == UNCHANGED <<queue, lastTask, revoked>>

-----------------------------------------------------------------------------
(* What the monitor's writers leave in the rows. *)

\* mark_service_failed, and the service part of the mark_deploy_* writers.
FailService(s) ==
    IF s.status \in {"stopped", "failed"} THEN s ELSE Cleared(s, "failed")

\* mark_service_stopped leaves deploy_started alone.
StopService(s) == [s EXCEPT !.status = "stopped", !.task = None]

\* The log of mark_service_running puts stage "monitor" and 100 per cent on
\* the selected deploy.
LogRunning ==
    dep' = [d \in Deploy |->
              IF d = svc.selected /\ dep[d].status = "running"
                THEN [dep[d] EXCEPT !.past = TRUE] ELSE dep[d]]

-----------------------------------------------------------------------------
(* First scan: the deploys that are pending, running or rolling back. *)

Tick ==
    /\ monitor.pc = "idle"
    /\ monitor' = [monitor EXCEPT !.pc = "deploys",
                     !.left = {d \in Deploy : dep[d].status \in ActiveDeploy}]
    /\ UNCHANGED shared

InspectDeploy ==
    /\ monitor.pc = "deploys"
    /\ \E d \in monitor.left, state \in Inspect :
          monitor' = [pc |-> "deploy", left |-> monitor.left \ {d},
                      target |-> d, seen |-> state]
    /\ UNCHANGED shared

\* Mutant: the row is not looked at again once it is locked.
ReconcilingStale(status) ==
    /\ monitor.pc = "deploy"
    /\ monitor' = [monitor EXCEPT !.pc = "deploys", !.target = None, !.seen = "absent"]
    /\ UNCHANGED container /\ UnchangedQueue

Reconciling(status) ==
    /\ monitor.pc = "deploy"
    /\ dep[monitor.target].status \in status
    /\ monitor' = [monitor EXCEPT !.pc = "deploys", !.target = None, !.seen = "absent"]
    /\ UNCHANGED container /\ UnchangedQueue

\* Mutant: only deploys that never started time out.
TimedOutPending(d) == dep[d].status = "pending" /\ dep[d].started = "old"

TimedOut(d) == dep[d].status \in {"pending", "running"} /\ dep[d].started = "old"

\* mark_deploy_timeout
TimeoutDeploy ==
    /\ Reconciling({"pending", "running"})
    /\ TimedOut(monitor.target)
    /\ SetStatus(monitor.target, "failed")
    /\ svc' = FailService(svc)

\* mark_deploy_failed: past the build and no container.
FailDeploy ==
    /\ Reconciling({"running"})
    /\ ~TimedOut(monitor.target)
    /\ monitor.seen # "running" /\ dep[monitor.target].past
    /\ SetStatus(monitor.target, "failed")
    /\ svc' = FailService(svc)

RollbackComplete ==
    /\ Reconciling({"rolling_back"})
    /\ monitor.seen = "running"
    /\ SetStatus(monitor.target, "rolled_back")
    /\ svc' = Cleared(svc, "running")

RollbackFailed ==
    /\ Reconciling({"rolling_back"})
    /\ monitor.seen # "running"
    /\ SetStatus(monitor.target, "failed")
    /\ svc' = FailService(svc)

\* Nothing to do. A pending deploy with a running container is left alone, too:
\* the log written with its promotion relates two databases, the router refuses
\* that, and the exception rolls the promotion back.
KeepDeploy ==
    /\ Reconciling(DeployStates)
    /\ LET row == dep[monitor.target] IN
       /\ ~TimedOut(monitor.target) /\ row.status # "rolling_back"
       /\ ~(row.status = "running" /\ monitor.seen # "running" /\ row.past)
    /\ UNCHANGED <<svc, dep>>

-----------------------------------------------------------------------------
(* _retry_orphaned_queued_deploys: every pending deploy of a queued service *)
(* is enqueued again, under a new task id; publishing may fail.             *)

RetryScan ==
    /\ monitor.pc = "deploys" /\ monitor.left = {}
    /\ monitor' = [monitor EXCEPT !.pc = "retry",
                     !.left = IF svc.status = "queued"
                                THEN {d \in Deploy : dep[d].status = "pending"} ELSE {}]
    /\ UNCHANGED shared

Retry ==
    /\ monitor.pc = "retry"
    /\ \E d \in monitor.left :
          /\ Publish("deploy", d)
          /\ monitor' = [monitor EXCEPT !.left = @ \ {d}]
    /\ svc' = IF svc.status = "queued" THEN [svc EXCEPT !.task = lastTask'] ELSE svc
    /\ UNCHANGED <<dep, container, revoked>>

RetryFails ==
    /\ monitor.pc = "retry"
    /\ \E d \in monitor.left : monitor' = [monitor EXCEPT !.left = @ \ {d}]
    /\ UNCHANGED shared

-----------------------------------------------------------------------------
(* Second scan: _reconcile_service_runtime. *)

InspectService ==
    /\ monitor.pc = "retry" /\ monitor.left = {}
    /\ \/ /\ svc.status \in ActiveService
          /\ \E state \in Inspect :
                monitor' = [monitor EXCEPT !.pc = "service", !.seen = state]
       \/ /\ svc.status \notin ActiveService
          /\ monitor' = MonitorIdle
    /\ UNCHANGED shared

Settling(status) ==
    /\ monitor.pc = "service"
    /\ svc.status \in status
    /\ monitor' = MonitorIdle
    /\ UnchangedQueue

\* A queued or deploying service whose deploy_started is too old fails.
StuckService ==
    /\ Settling({"queued", "deploying"})
    /\ svc.started = "old"
    /\ svc' = FailService(svc)
    /\ UNCHANGED <<dep, container>>

\* A running container is taken as proof that the deployment succeeded.
ConfirmService ==
    /\ Settling({"queued", "deploying", "succeeded"})
    /\ svc.started # "old" \/ svc.status = "succeeded"
    /\ monitor.seen = "running"
    /\ svc' = Deployed(svc)
    /\ LogRunning
    /\ UNCHANGED container

\* Mutant: a missing container matters to legacy rows only.
LoseLegacy ==
    /\ Settling({"running", "succeeded"})
    /\ monitor.seen # "running"
    /\ svc' = IF svc.status = "succeeded" THEN FailService(svc) ELSE svc
    /\ UNCHANGED <<dep, container>>

LoseService ==
    /\ Settling({"running", "succeeded"})
    /\ monitor.seen # "running"
    /\ svc' = FailService(svc)
    /\ UNCHANGED <<dep, container>>

ConfirmStopped ==
    /\ Settling({"stopping"})
    /\ monitor.seen # "running"
    /\ svc' = StopService(svc)
    /\ UNCHANGED <<dep, container>>

\* The container outlived the stop timeout: it is stopped and removed by force,
\* and the service is stopped whether that succeeds or not.
ForceStop ==
    /\ Settling({"stopping"})
    /\ monitor.seen = "running" /\ svc.started = "old"
    /\ svc' = StopService(svc)
    /\ \/ container' = Absent
       \/ "docker" \in Faults /\ UNCHANGED container
    /\ UNCHANGED dep

KeepService ==
    /\ Settling(ServiceStates)
    /\ \/ svc.status \notin ActiveService
       \/ svc.status = "running" /\ monitor.seen = "running"
       \/ /\ svc.status \in {"queued", "deploying"}
          /\ svc.started # "old" /\ monitor.seen # "running"
       \/ svc.status = "stopping" /\ monitor.seen = "running" /\ svc.started # "old"
    /\ UNCHANGED <<svc, dep, container>>

ReconcileDeploy ==
    \/ TimeoutDeploy \/ FailDeploy \/ RollbackComplete \/ RollbackFailed \/ KeepDeploy

ReconcileService ==
    \/ StuckService \/ ConfirmService \/ LoseService
    \/ ConfirmStopped \/ ForceStop \/ KeepService

MonitorStep ==
    \/ Tick \/ InspectDeploy \/ ReconcileDeploy
    \/ RetryScan \/ Retry \/ RetryFails
    \/ InspectService \/ ReconcileService

MonitorTypeOK == monitor \in MonitorState

=============================================================================
