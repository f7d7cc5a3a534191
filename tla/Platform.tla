------------------------------ MODULE Platform ------------------------------
(***************************************************************************)
(* The state shared by the processes of the deployment control plane, for  *)
(* one Service and its Deploys: the Service row, the Deploy rows, the      *)
(* container that bears the service's name, and the Celery broker; and the *)
(* StateManager helpers the processes write the rows with.                 *)
(***************************************************************************)
EXTENDS StateMachine, Naturals

CONSTANTS
    Deploy,      \* the Deploy rows of the service
    None,        \* no deploy, no task
    Ops,         \* the API requests that users make in an instance
    Faults,      \* what may go wrong in an instance
    MaxTasks     \* bound: task ids the broker hands out

ASSUME NoneAssumption == None \notin Deploy /\ None \notin Nat
ASSUME OpsAssumption ==
    Ops \subseteq {"start", "rebuild", "select", "stop", "cancel", "force", "plan"}
ASSUME FaultsAssumption == Faults \subseteq {"lost", "crash", "docker", "die"}
ASSUME MaxTasksAssumption == MaxTasks \in Nat

VARIABLES
    svc,         \* the Service row
    dep,         \* the Deploy rows
    container,   \* the container named get_docker_service_name()
    queue,       \* task messages in the broker, delivered in any order
    lastTask,    \* the last task id handed out
    revoked      \* task ids that have been revoked

shared == <<svc, dep, container, queue, lastTask, revoked>>

Task == 1 .. MaxTasks
Busy == {"queued", "deploying", "stopping"}
ActiveDeploy == {"pending", "running", "rolling_back"}
ActiveService == {"queued", "deploying", "running", "stopping", "succeeded"}

\* A timestamp is null, recent, or older than the timeout that reads it.
Clock == {"none", "fresh", "old"}

Absent == [state |-> "absent", image |-> None]
Up(d) == [state |-> "running", image |-> d]
Container == [state : {"absent", "exited", "running"}, image : Deploy \cup {None}]

ServiceRow ==
    [status : ServiceStates, selected : Deploy \cup {None}, started : Clock,
     task : Task \cup {None},
     deployed : BOOLEAN,      \* deployed_at is set
     reselected : BOOLEAN]    \* selected_deploy_at > deployed_at

DeployRow ==
    [status : DeployStates, started : Clock, cancel : BOOLEAN,
     past : BOOLEAN]          \* stage and progress are past the build

Message == [kind : {"deploy"}, deploy : Deploy, task : Task]
           \cup [kind : {"stop"}, deploy : {None}, task : Task]

\* A Deploy row is created pending, long before anyone starts it.
NewDeploy == [status |-> "pending", started |-> "none", cancel |-> FALSE, past |-> FALSE]

\* A new service, or one an older release left in its "succeeded" state.
PlatformInit ==
    /\ \/ /\ svc = [status |-> "stopped", selected |-> None, started |-> "none",
                    task |-> None, deployed |-> FALSE, reselected |-> FALSE]
          /\ dep = [d \in Deploy |-> NewDeploy]
          /\ container = Absent
       \/ \E d \in Deploy :
          /\ svc = [status |-> "succeeded", selected |-> d, started |-> "none",
                    task |-> None, deployed |-> TRUE, reselected |-> FALSE]
          /\ dep = [e \in Deploy |-> IF e = d THEN [NewDeploy EXCEPT !.status = "succeeded"]
                                            ELSE NewDeploy]
          /\ container = Up(d)
    /\ queue = {}
    /\ lastTask = 0
    /\ revoked = {}

-----------------------------------------------------------------------------
(* Rows as the StateManager and the monitor's writers leave them. *)

Deployed(s) == [s EXCEPT !.status = "running", !.started = "none", !.task = None,
                         !.deployed = TRUE, !.reselected = FALSE]

Cleared(s, status) ==
    [s EXCEPT !.status = status, !.started = "none", !.task = None]

\* transition_service to RUNNING, STOPPED or FAILED.
TransitionService(s, dst) ==
    IF dst = "running" THEN Deployed(s) ELSE Cleared(s, dst)

SetStatus(d, status) ==
    dep' = [dep EXCEPT ![d].status = status, ![d].past = FALSE]

\* Publishing hands out the next task id; a broker outage loses the message.
Publish(kind, d) ==
    /\ lastTask < MaxTasks
    /\ lastTask' = lastTask + 1
    /\ \/ queue' = queue \cup {[kind |-> kind, deploy |-> d, task |-> lastTask']}
       \/ "lost" \in Faults /\ UNCHANGED queue

-----------------------------------------------------------------------------
(* The environment: the container's process dies, ten minutes go by. *)

ContainerDies ==
    /\ "die" \in Faults
    /\ container.state = "running"
    /\ container' = [container EXCEPT !.state = "exited"]
    /\ UNCHANGED <<svc, dep, queue, lastTask, revoked>>

LoseMessage(m) ==
    /\ "lost" \in Faults
    /\ m \in queue
    /\ queue' = queue \ {m}
    /\ UNCHANGED <<svc, dep, container, lastTask, revoked>>

ServiceClockExpires ==
    /\ svc.started = "fresh"
    /\ svc' = [svc EXCEPT !.started = "old"]
    /\ UNCHANGED <<dep, container, queue, lastTask, revoked>>

DeployClockExpires(d) ==
    /\ dep[d].started = "fresh"
    /\ dep' = [dep EXCEPT ![d].started = "old"]
    /\ UNCHANGED <<svc, container, queue, lastTask, revoked>>

PlatformTypeOK ==
    /\ svc \in ServiceRow
    /\ dep \in [Deploy -> DeployRow]
    /\ container \in Container
    /\ queue \subseteq Message
    /\ lastTask \in 0 .. MaxTasks
    /\ revoked \subseteq Task

=============================================================================
