----------------------------- MODULE Lifecycle ------------------------------
(***************************************************************************)
(* The lifecycle of a service: the API, the Celery workers and the monitor *)
(* acting on one Service, its Deploys and its container.                   *)
(***************************************************************************)
EXTENDS Api, Monitor

vars == <<shared, worker, monitor, api>>

Init == PlatformInit /\ WorkersInit /\ MonitorInit /\ ApiInit

Users == (Request \/ Handle) /\ UNCHANGED monitor

Run(w) == WorkerStep(w) /\ UNCHANGED <<monitor, api>>

Take(w) == (\E m \in queue : Receive(w, m)) /\ UNCHANGED <<monitor, api>>

Die(w) == Crash(w) /\ UNCHANGED <<monitor, api>>

Beat == MonitorStep /\ UNCHANGED <<worker, api>>

Expire ==
    /\ ServiceClockExpires \/ \E d \in Deploy : DeployClockExpires(d)
    /\ UNCHANGED <<worker, monitor, api>>

Mishap ==
    /\ ContainerDies \/ \E m \in queue : LoseMessage(m)
    /\ UNCHANGED <<worker, monitor, api>>

Next ==
    \/ Users
    \/ \E w \in Worker : Run(w) \/ Take(w) \/ Die(w)
    \/ Beat \/ Expire \/ Mishap

Spec == Init /\ [][Next]_vars

\* Beat sends the monitor again and again and time passes, whatever else fails.
MonitoredSpec == Spec /\ WF_vars(Beat) /\ WF_vars(Expire)

\* Workers run and take messages, and the handlers of requests return.
FairSpec ==
    /\ MonitoredSpec
    /\ \A w \in Worker : WF_vars(Run(w)) /\ WF_vars(Take(w))
    /\ WF_vars(Users /\ Handle)

-----------------------------------------------------------------------------
(* Safety. *)

TypeOK == PlatformTypeOK /\ WorkersTypeOK /\ MonitorTypeOK /\ ApiTypeOK

Executing(w, kind) == worker[w].kind = kind /\ worker[w].pc \notin {"idle", "claim"}

\* Two workers never execute deployments of the service at the same time, even
\* when the monitor has declared the service running under the first of them and
\* the API has accepted the next request: DeployService's advisory lock.
OneDeployAtATime ==
    \A v, w \in Worker :
        Executing(v, "deploy") /\ Executing(w, "deploy") => v = w

\* A service that waits for or is in a deployment has the timestamp without
\* which the monitor could never time it out.
QueuedHasClock ==
    svc.status \in {"queued", "deploying"} => svc.started # "none"

\* A deploy that is being executed, or whose worker died, has a start time.
RunningHasClock ==
    \A d \in Deploy : dep[d].status = "running" => dep[d].started # "none"

\* A stop never works on the containers of a service while a deployment of it
\* is in progress.
StopExcludesDeploy ==
    \A v, w \in Worker : ~(Executing(v, "deploy") /\ Executing(w, "stop"))

WorkerRuns == \E w \in Worker : Run(w)

\* The workers change the service along the transition table only.
WorkersFollowTable ==
    [][WorkerRuns => ServiceMay(svc.status, svc'.status)]_vars

\* A worker does not take a service out of STOPPED: the operator's stop wins.
WorkersKeepStopped ==
    [][WorkerRuns /\ svc.status = "stopped" => svc'.status = "stopped"]_vars

\* The monitor does not touch a deploy that ended after the scan listed it.
MonitorKeepsEnded ==
    [][Beat => \A d \in Deploy : dep[d].status \in DeployTerminal
                                  => dep'[d].status = dep[d].status]_vars

\* The task id on the service row belongs to an operation in progress: a forced
\* cancellation that revokes it never hits a task that is none of its business.
TaskMeansBusy == svc.task # None => svc.status \in Busy

\* The deploy a worker claims is the one whose start was requested last.
ClaimsRequested ==
    [][\A w \in Worker : Claim(w) /\ svc.status = "queued"
          => worker[w].deploy = svc.selected]_vars

\* A deploy that waits in the queue times out no earlier than its service.
NoEarlyTimeout ==
    [][TimeoutDeploy /\ svc.status = "queued" /\ svc.selected = monitor.target
          => svc.started = "old"]_vars

-----------------------------------------------------------------------------
(* Liveness. *)

\* A queued or deploying service becomes something else.
DeploymentEnds ==
    svc.status \in {"queued", "deploying"} ~> svc.status \notin {"queued", "deploying"}

\* A stopping service stops or fails: the monitor bounds every stop in time.
StopEnds == svc.status = "stopping" ~> svc.status # "stopping"

\* A running deploy does not stay running.
ExecutionEnds ==
    \A d \in Deploy : dep[d].status = "running" ~> dep[d].status # "running"

\* A dead container of a running service is noticed.
DeathNoticed ==
    (svc.status = "running" /\ container.state # "running") ~>
        (svc.status # "running" \/ container.state = "running")

-----------------------------------------------------------------------------
(* What users see is one operation at a time, and its end. *)

Op == IF svc.status \in {"queued", "deploying"} THEN "deploy"
      ELSE IF svc.status = "stopping" THEN "stop" ELSE "none"

Operations == INSTANCE Operation WITH op <- Op

OneOperation == Operations!Safe
OperationsEnd == Operations!Spec

=============================================================================
