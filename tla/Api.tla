-------------------------------- MODULE Api ---------------------------------
(***************************************************************************)
(* The requests users make of one service: the handlers of deploy/apis.py, *)
(* services/api/runtime.py and plans/apis.py that change its rows. All but *)
(* the cancellation and the forced cancellation of a deploy run under the  *)
(* row lock of the service, so each of those is one action.                *)
(***************************************************************************)
EXTENDS Workers

VARIABLES
    canceller,   \* the cancel handler, between its read and its write
    forcer       \* the force_cancel handler, between its steps

api == <<canceller, forcer>>

CancellerIdle == [pc |-> "idle", deploy |-> None, status |-> "pending"]
ForcerIdle == [pc |-> "idle", task |-> None, selected |-> None, targets |-> {}]

CancellerState == [pc : {"idle", "write"}, deploy : Deploy \cup {None},
                   status : DeployStates]
ForcerState == [pc : {"idle", "mark", "revoke", "cleanup", "stop"},
                task : Task \cup {None}, selected : Deploy \cup {None},
                targets : SUBSET Deploy]

ApiInit == canceller = CancellerIdle /\ forcer = ForcerIdle

-----------------------------------------------------------------------------
(* Starting, rebuilding, selecting, stopping. *)

\* Mutant: the id of the previous task is stored.
QueueDeployLastTask(d) ==
    /\ svc.status \notin Busy
    /\ svc' = [svc EXCEPT !.status = "queued", !.started = "fresh",
                          !.task = lastTask, !.selected = d,
                          !.reselected = @ \/ d # svc.selected]
    /\ dep' = [dep EXCEPT ![d].status = "pending", ![d].cancel = FALSE,
                          ![d].past = FALSE]
    /\ Publish("deploy", d)
    /\ UNCHANGED revoked

\* Mutant: deploy_started is not set.
QueueDeployNoClock(d) ==
    /\ svc.status \notin Busy
    /\ svc' = [svc EXCEPT !.status = "queued", !.task = lastTask + 1, !.selected = d,
                          !.reselected = @ \/ d # svc.selected]
    /\ dep' = [dep EXCEPT ![d].status = "pending", ![d].cancel = FALSE,
                          ![d].past = FALSE]
    /\ Publish("deploy", d)
    /\ UNCHANGED revoked

\* What start and rebuild write before they publish the task.
QueueDeploy(d) ==
    /\ svc.status \notin Busy
    /\ svc' = [svc EXCEPT !.status = "queued", !.started = "fresh",
                          !.task = lastTask + 1, !.selected = d,
                          !.reselected = @ \/ d # svc.selected]
    /\ dep' = [dep EXCEPT ![d].status = "pending", ![d].cancel = FALSE,
                          ![d].past = FALSE]
    /\ Publish("deploy", d)
    /\ UNCHANGED revoked

\* The deploy's start, and the service's start when d is selected already.
StartDeploy(d) ==
    /\ "start" \in Ops
    /\ QueueDeploy(d)
    /\ UNCHANGED <<container, worker, api>>

\* The teardown runs inside the transaction; its failure is a warning.
Rebuild(d) ==
    /\ "rebuild" \in Ops
    /\ QueueDeploy(d)
    /\ \/ container' = Absent
       \/ "docker" \in Faults /\ UNCHANGED container
    /\ UNCHANGED <<worker, api>>

\* set_deploy saves selected_deploy alone: selected_deploy_at stays behind.
SelectDeploy(d) ==
    /\ "select" \in Ops
    /\ svc.status \notin Busy
    /\ svc' = [svc EXCEPT !.selected = d]
    /\ UNCHANGED <<dep, container, queue, lastTask, revoked, worker, api>>

UnselectDeploy ==
    /\ "select" \in Ops
    /\ svc.status \notin Busy /\ svc.selected # None
    /\ svc' = [svc EXCEPT !.selected = None]
    /\ UNCHANGED <<dep, container, queue, lastTask, revoked, worker, api>>

\* Mutant: a stop is accepted while another operation is in progress.
RequestStopAnytime ==
    /\ "stop" \in Ops
    /\ svc' = [svc EXCEPT !.status = "stopping", !.started = "fresh",
                          !.task = lastTask + 1]
    /\ Publish("stop", None)
    /\ UNCHANGED <<dep, container, revoked, worker, api>>

\* Mutant: a stop leaves deploy_started as it is.
RequestStopNoClock ==
    /\ "stop" \in Ops
    /\ svc.status \notin Busy
    /\ svc' = [svc EXCEPT !.status = "stopping", !.task = lastTask + 1]
    /\ Publish("stop", None)
    /\ UNCHANGED <<dep, container, revoked, worker, api>>

RequestStop ==
    /\ "stop" \in Ops
    /\ svc.status \notin Busy
    /\ svc' = [svc EXCEPT !.status = "stopping", !.started = "fresh",
                          !.task = lastTask + 1]
    /\ Publish("stop", None)
    /\ UNCHANGED <<dep, container, revoked, worker, api>>

\* Applying a plan queues the service without a timestamp, a task id or a
\* pending deploy.
ApplyPlan ==
    /\ "plan" \in Ops
    /\ svc.status \notin Busy /\ svc.selected # None
    /\ svc' = [svc EXCEPT !.status = "queued"]
    /\ Publish("deploy", svc.selected)
    /\ UNCHANGED <<dep, container, revoked, worker, api>>

-----------------------------------------------------------------------------
(* Cancelling: a read of the deploy and a save, with nothing locked. *)

CancelRead(d) ==
    /\ "cancel" \in Ops
    /\ canceller.pc = "idle"
    /\ canceller' = [pc |-> "write", deploy |-> d, status |-> dep[d].status]
    /\ UNCHANGED <<shared, worker, forcer>>

CancelWrite ==
    LET d == canceller.deploy IN
    /\ canceller.pc = "write"
    /\ dep' = [dep EXCEPT ![d].cancel = TRUE,
                          ![d].status = IF canceller.status = "pending"
                                          THEN "cancelled" ELSE @,
                          ![d].past = @ /\ canceller.status # "pending"]
    /\ canceller' = CancellerIdle
    /\ UNCHANGED <<svc, container, queue, lastTask, revoked, worker, forcer>>

-----------------------------------------------------------------------------
(* Forced cancellation: mark, revoke, clean up, stop; no lock is held      *)
(* from one step to the next.                                              *)

ForceRead ==
    /\ "force" \in Ops
    /\ forcer.pc = "idle"
    /\ forcer' = [pc |-> "mark", task |-> svc.task, selected |-> svc.selected,
                  targets |-> {d \in Deploy : dep[d].status \notin DeployTerminal}]
    /\ UNCHANGED <<shared, worker, canceller>>

ForceMark ==
    /\ forcer.pc = "mark"
    /\ dep' = [d \in Deploy |->
                 IF d \in forcer.targets
                   THEN [dep[d] EXCEPT !.status = "cancelled", !.cancel = TRUE,
                                       !.past = FALSE]
                   ELSE [dep[d] EXCEPT !.cancel = @ \/ d = forcer.selected]]
    /\ forcer' = [forcer EXCEPT !.pc = "revoke"]
    /\ UNCHANGED <<svc, container, queue, lastTask, revoked, worker, canceller>>

\* Revoking with SIGTERM kills the worker that runs the task.
ForceRevoke ==
    /\ forcer.pc = "revoke"
    /\ IF forcer.task = None
         THEN UNCHANGED <<revoked, worker>>
         ELSE /\ revoked' = revoked \cup {forcer.task}
              /\ worker' = [w \in Worker |-> IF worker[w].task = forcer.task
                                               THEN Idle ELSE worker[w]]
    /\ forcer' = [forcer EXCEPT !.pc = "cleanup"]
    /\ UNCHANGED <<svc, dep, container, queue, lastTask, canceller>>

\* The service's container goes, and those whose names it is a prefix of:
\* renamed ones.
ForceCleanup ==
    /\ forcer.pc = "cleanup"
    /\ \/ /\ container' = Absent
          /\ worker' = [w \in Worker |-> [worker[w] EXCEPT !.old = Absent]]
       \/ "docker" \in Faults /\ UNCHANGED <<container, worker>>
    /\ forcer' = [forcer EXCEPT !.pc = "stop"]
    /\ UNCHANGED <<svc, dep, queue, lastTask, revoked, canceller>>

\* Mutant: the task id stays on the service.
ForceStoppedKeepTask ==
    /\ forcer.pc = "stop"
    /\ svc' = [svc EXCEPT !.status = "stopped"]
    /\ forcer' = ForcerIdle
    /\ UNCHANGED <<dep, container, queue, lastTask, revoked, worker, canceller>>

ForceStopped ==
    /\ forcer.pc = "stop"
    /\ svc' = Cleared(svc, "stopped")
    /\ forcer' = ForcerIdle
    /\ UNCHANGED <<dep, container, queue, lastTask, revoked, worker, canceller>>

Request ==
    \/ \E d \in Deploy : StartDeploy(d) \/ Rebuild(d) \/ SelectDeploy(d) \/ CancelRead(d)
    \/ UnselectDeploy \/ RequestStop \/ ApplyPlan \/ ForceRead

\* A handler that has begun.
Handle == CancelWrite \/ ForceMark \/ ForceRevoke \/ ForceCleanup \/ ForceStopped

ApiTypeOK == canceller \in CancellerState /\ forcer \in ForcerState

=============================================================================
