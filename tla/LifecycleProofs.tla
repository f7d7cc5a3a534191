-------------------------- MODULE LifecycleProofs ---------------------------
(***************************************************************************)
(* The lifecycle of a service, for any deploys, workers and tasks, every   *)
(* selection of requests and every fault. Types first, then safety: what a *)
(* step does to the service's row is one of five effects, and each theorem *)
(* about the row looks at the effects and not at the actions. Last, what   *)
(* of all this survives edits and purges.                                  *)
(***************************************************************************)
EXTENDS Edits, TLAPS

-----------------------------------------------------------------------------
(* Types. *)

\* Handing out a task id and putting its message in the queue keeps the broker's
\* types.
LEMMA PublishTyping ==
    ASSUME PlatformTypeOK, NEW kind, NEW d,
           \A t \in Task : [kind |-> kind, deploy |-> d, task |-> t] \in Message,
           Publish(kind, d)
    PROVE  /\ queue' \subseteq Message
           /\ lastTask' \in 0 .. MaxTasks
           /\ lastTask' = lastTask + 1
           /\ lastTask' \in Task
BY MaxTasksAssumption DEF PlatformTypeOK, Publish, Task

\* A worker's record keeps its type when its counter moves.
LEMMA GotoTyping ==
    ASSUME WorkersTypeOK, NEW w \in Worker, NEW pc \in DeployPC \cup StopPC,
           Goto(w, pc)
    PROVE  WorkersTypeOK'
BY DEF WorkersTypeOK, Goto, Set, WorkerState

\* A worker that is done is idle.
LEMMA DoneTyping ==
    ASSUME WorkersTypeOK, NEW w \in Worker, Done(w)
    PROVE  WorkersTypeOK'
BY DEF WorkersTypeOK, Done, Set, WorkerState, Idle, Container, Absent

\* Writing a deploy's status keeps the rows' types.
LEMMA SetStatusTyping ==
    ASSUME PlatformTypeOK, NEW d, NEW status \in DeployStates, SetStatus(d, status)
    PROVE  dep' \in [Deploy -> DeployRow]
BY DEF PlatformTypeOK, SetStatus, DeployRow

\* An event keeps the rows' types.
LEMMA EventTyping ==
    ASSUME PlatformTypeOK, NEW w, NEW past \in BOOLEAN, Event(w, past)
    PROVE  dep' \in [Deploy -> DeployRow]
BY DEF PlatformTypeOK, Event, DeployRow

\* A service row keeps its type when an operation ends.
LEMMA EndedTyping ==
    ASSUME NEW s \in ServiceRow
    PROVE  /\ \A status \in ServiceStates : Cleared(s, status) \in ServiceRow
           /\ Deployed(s) \in ServiceRow
           /\ FailService(s) \in ServiceRow
           /\ StopService(s) \in ServiceRow
           /\ TransitionService(s, "running") \in ServiceRow
           /\ TransitionService(s, "failed") \in ServiceRow
           /\ TransitionService(s, "stopped") \in ServiceRow
BY DEF ServiceRow, Cleared, Deployed, FailService, StopService, TransitionService,
       ServiceStates, Clock

\* Whatever changes neither row nor container nor queue keeps their types; what
\* changes one of them has that one to account for.
LEMMA OnlyTyping ==
    ASSUME PlatformTypeOK
    PROVE  /\ OnlyWorker => PlatformTypeOK'
           /\ OnlyDeploy /\ dep' \in [Deploy -> DeployRow] => PlatformTypeOK'
           /\ OnlyService /\ svc' \in ServiceRow => PlatformTypeOK'
           /\ OnlyContainer /\ container' \in Container => PlatformTypeOK'
BY DEF PlatformTypeOK, OnlyWorker, OnlyDeploy, OnlyService, OnlyContainer, UnchangedBroker

\* A worker's record is replaced by a well-typed one.
LEMMA SetTyping ==
    ASSUME WorkersTypeOK, NEW w \in Worker, NEW s \in WorkerState,
           s.kind = "deploy" => s.deploy \in Deploy,
           Set(w, s)
    PROVE  WorkersTypeOK'
BY DEF WorkersTypeOK, Set

\* The containers there can be.
LEMMA ContainerTyping ==
    /\ Absent \in Container
    /\ \A d \in Deploy \cup {None} : Up(d) \in Container
    /\ \A c \in Container, state \in {"absent", "exited", "running"} :
          [c EXCEPT !.state = state] \in Container
BY DEF Absent, Up, Container

\* A worker's record is well-typed, and its deploy is one when it deploys.
LEMMA WorkerTyping ==
    ASSUME WorkersTypeOK, NEW w \in Worker
    PROVE  /\ worker[w] \in WorkerState
           /\ worker[w].prev \in Deploy \cup {None}
           /\ worker[w].deploy \in Deploy \cup {None}
           /\ worker[w].old \in Container
           /\ worker[w].kind = "deploy" => worker[w].deploy \in Deploy
BY DEF WorkersTypeOK, WorkerState

\* The records that a step leaves its worker: the program counter moves, and with
\* it the snapshot, the renamed container or the stop's deploy.
LEMMA RecordTyping ==
    ASSUME WorkersTypeOK, NEW w \in Worker, NEW pc \in DeployPC \cup StopPC,
           NEW d \in Deploy \cup {None}, NEW c \in Container
    PROVE  /\ Set(w, [worker[w] EXCEPT !.pc = pc, !.prev = d]) => WorkersTypeOK'
           /\ Set(w, [worker[w] EXCEPT !.pc = pc, !.old = c]) => WorkersTypeOK'
           /\ Set(w, [worker[w] EXCEPT !.old = c, !.pc = pc]) => WorkersTypeOK'
           /\ worker[w].kind = "stop" /\ Set(w, [worker[w] EXCEPT !.pc = pc, !.deploy = d])
                => WorkersTypeOK'
<1> DEFINE r1 == [worker[w] EXCEPT !.pc = pc, !.prev = d]
           r2 == [worker[w] EXCEPT !.pc = pc, !.old = c]
           r3 == [worker[w] EXCEPT !.old = c, !.pc = pc]
           r4 == [worker[w] EXCEPT !.pc = pc, !.deploy = d]
<1>1. worker[w] \in WorkerState
  BY WorkerTyping
<1>2. r1 \in WorkerState /\ r1.kind = worker[w].kind /\ r1.deploy = worker[w].deploy
  BY <1>1 DEF WorkerState
<1>3. r2 \in WorkerState /\ r2.kind = worker[w].kind /\ r2.deploy = worker[w].deploy
  BY <1>1 DEF WorkerState
<1>4. r3 \in WorkerState /\ r3.kind = worker[w].kind /\ r3.deploy = worker[w].deploy
  BY <1>1 DEF WorkerState
<1>5. r4 \in WorkerState /\ r4.kind = worker[w].kind
  BY <1>1 DEF WorkerState
<1> HIDE DEF r1, r2, r3, r4
<1>6. /\ Set(w, r1) => WorkersTypeOK'
      /\ Set(w, r2) => WorkersTypeOK'
      /\ Set(w, r3) => WorkersTypeOK'
      /\ worker[w].kind = "stop" /\ Set(w, r4) => WorkersTypeOK'
  BY <1>2, <1>3, <1>4, <1>5, WorkerTyping, SetTyping
<1> QED
  BY <1>6 DEF r1, r2, r3, r4

\* A task that deploys keeps every type.
LEMMA DeployStepTyping ==
    ASSUME PlatformTypeOK, WorkersTypeOK, NEW w \in Worker, DeployStep(w)
    PROVE  PlatformTypeOK' /\ WorkersTypeOK'
<1>1. CASE Claim(w)
  <2> DEFINE d == worker[w].deploy
             claimed == [worker[w] EXCEPT !.pc = "begin", !.cancel = dep[d].cancel,
                            !.restart = svc.deployed /\ ~svc.reselected]
  <2>1. d \in Deploy
    BY <1>1, WorkerTyping DEF Claim
  <2>2. svc \in ServiceRow /\ dep \in [Deploy -> DeployRow] /\ dep[d] \in DeployRow
    BY <2>1 DEF PlatformTypeOK
  <2>3. claimed \in WorkerState /\ claimed.kind = worker[w].kind /\ claimed.deploy = d
    <3> DEFINE cancel == dep[d].cancel
               restart == svc.deployed /\ ~svc.reselected
               next == [worker[w] EXCEPT !.pc = "begin", !.cancel = cancel,
                                         !.restart = restart]
    <3>1. cancel \in BOOLEAN /\ restart \in BOOLEAN
      BY <2>2 DEF DeployRow
    <3> HIDE DEF cancel, restart
    <3>2. next \in WorkerState /\ next.kind = worker[w].kind /\ next.deploy = d
      BY ZenonT(30), <3>1, WorkerTyping DEF WorkerState, DeployPC
    <3> QED
      BY <3>2 DEF cancel, restart
  <2>4. [svc EXCEPT !.status = "deploying", !.started = "fresh"] \in ServiceRow
    BY <2>2 DEF ServiceRow, ServiceStates, Clock
  <2>5. [dep EXCEPT ![d].status = "running", ![d].started = "fresh", ![d].past = FALSE]
          \in [Deploy -> DeployRow]
    BY <2>1, <2>2 DEF DeployRow, DeployStates, Clock
  <2>6. CASE svc.status = "queued"
    <3>1. Set(w, claimed) /\ svc' \in ServiceRow /\ dep' \in [Deploy -> DeployRow]
      BY <1>1, <2>4, <2>5, <2>6 DEF Claim
    <3>2. WorkersTypeOK'
      BY <3>1, <2>1, <2>3, SetTyping
    <3> QED
      BY <1>1, <3>1, <3>2 DEF Claim, PlatformTypeOK, UnchangedBroker
  <2>7. CASE svc.status # "queued"
    BY <1>1, <2>7, DoneTyping DEF Claim, PlatformTypeOK, UnchangedBroker
  <2> QED
    BY <2>6, <2>7
<1>2. CASE Begin(w)
  <2> DEFINE row == [status |-> "running", started |-> "fresh", cancel |-> FALSE,
                     past |-> FALSE]
  <2>1. row \in DeployRow
    BY DEF DeployRow, DeployStates, Clock
  <2>2. [dep EXCEPT ![worker[w].deploy] = row] \in [Deploy -> DeployRow]
    BY <2>1 DEF PlatformTypeOK
  <2>3. dep' \in [Deploy -> DeployRow]
    BY <1>2, <2>2, SetStatusTyping DEF Begin, DeployStates
  <2>4. WorkersTypeOK'
    BY <1>2, GotoTyping DEF Begin, DeployPC
  <2> QED
    BY <1>2, <2>3, <2>4, OnlyTyping DEF Begin
<1>3. CASE Restart(w)
  <2>1. container' \in Container
    BY <1>3, ContainerTyping DEF Restart, PlatformTypeOK
  <2>2. dep' \in [Deploy -> DeployRow]
    BY <1>3, SetStatusTyping DEF Restart, DeployStates
  <2>3. WorkersTypeOK'
    BY <1>3, GotoTyping DEF Restart, DeployPC
  <2> QED
    BY <2>1, <2>2, <2>3, <1>3, OnlyTyping DEF Restart, PlatformTypeOK, UnchangedBroker
<1>4. CASE Orchestrate(w)
  BY <1>4, OnlyTyping, GotoTyping DEF Orchestrate, DeployPC
<1>5. CASE PrepareFails(w)
  BY <1>5, OnlyTyping, GotoTyping DEF PrepareFails, DeployPC
<1>6. CASE Build(w)
  <2>1. dep' \in [Deploy -> DeployRow]
    BY <1>6, EventTyping DEF Build
  <2>2. WorkersTypeOK'
    BY <1>6, RecordTyping, ContainerTyping DEF Build, DeployPC, PlatformTypeOK, Container
  <2> QED
    BY <2>1, <2>2, <1>6, OnlyTyping DEF Build
<1>7. CASE BuildFails(w)
  <2>1. dep' \in [Deploy -> DeployRow]
    BY <1>7, EventTyping DEF BuildFails
  <2>2. WorkersTypeOK'
    BY <1>7, RecordTyping, ContainerTyping DEF BuildFails, DeployPC, PlatformTypeOK, Container
  <2> QED
    BY <2>1, <2>2, <1>7, OnlyTyping DEF BuildFails
<1>8. CASE Replace(w)
  <2>1. container' \in Container
    BY <1>8, ContainerTyping DEF Replace
  <2>2. dep' \in [Deploy -> DeployRow]
    BY <1>8, EventTyping DEF Replace
  <2>3. WorkersTypeOK'
    BY <1>8, RecordTyping, ContainerTyping DEF Replace, DeployPC, PlatformTypeOK, Container
  <2> QED
    BY <2>1, <2>2, <2>3, <1>8, OnlyTyping DEF Replace, PlatformTypeOK, UnchangedBroker
<1>9. CASE Create(w)
  <2>1. container' \in Container
    BY <1>9, ContainerTyping, WorkerTyping DEF Create
  <2>2. dep' \in [Deploy -> DeployRow]
    BY <1>9, EventTyping DEF Create
  <2>3. WorkersTypeOK'
    BY <1>9, GotoTyping DEF Create, DeployPC
  <2> QED
    BY <2>1, <2>2, <2>3, <1>9, OnlyTyping DEF Create, PlatformTypeOK, UnchangedBroker
<1>10. CASE CreateFails(w)
  <2>1. container' \in Container
    BY <1>10, ContainerTyping, WorkerTyping DEF CreateFails, PlatformTypeOK
  <2>2. dep' \in [Deploy -> DeployRow]
    BY <1>10, EventTyping DEF CreateFails
  <2>3. WorkersTypeOK'
    BY <1>10, RecordTyping, ContainerTyping DEF CreateFails, DeployPC, PlatformTypeOK, Container
  <2> QED
    BY <2>1, <2>2, <2>3, <1>10, OnlyTyping DEF CreateFails, PlatformTypeOK, UnchangedBroker
<1>11. CASE Health(w)
  <2>1. dep' \in [Deploy -> DeployRow]
    BY <1>11, EventTyping DEF Health
  <2>2. WorkersTypeOK'
    BY <1>11, RecordTyping, ContainerTyping DEF Health, DeployPC, PlatformTypeOK, Container
  <2> QED
    BY <2>1, <2>2, <1>11, OnlyTyping DEF Health
<1>12. CASE HealthFails(w)
  <2>1. dep' \in [Deploy -> DeployRow]
    BY <1>12, EventTyping DEF HealthFails
  <2>2. WorkersTypeOK'
    BY <1>12, GotoTyping DEF HealthFails, DeployPC
  <2> QED
    BY <2>1, <2>2, <1>12, OnlyTyping DEF HealthFails
<1>13. CASE Complete(w)
  <2>1. dep' \in [Deploy -> DeployRow]
    BY <1>13, SetStatusTyping DEF Complete, DeployStates
  <2>2. WorkersTypeOK'
    BY <1>13, GotoTyping DEF Complete, DeployPC
  <2> QED
    BY <2>1, <2>2, <1>13, OnlyTyping DEF Complete
<1>14. CASE CancelBuild(w)
  BY <1>14, OnlyTyping, GotoTyping DEF CancelBuild, DeployPC
<1>15. CASE CancelStarted(w)
  <2>1. container' \in Container
    BY <1>15, ContainerTyping DEF CancelStarted
  <2>2. WorkersTypeOK'
    BY <1>15, RecordTyping, ContainerTyping DEF CancelStarted, DeployPC, PlatformTypeOK, Container
  <2> QED
    BY <2>1, <2>2, <1>15, OnlyTyping DEF CancelStarted
<1>16. CASE Escape(w)
  BY <1>16, OnlyTyping, GotoTyping DEF Escape, DeployPC
<1>17. CASE Fail(w)
  <2>1. dep' \in [Deploy -> DeployRow]
    BY <1>17, EventTyping DEF Fail
  <2>2. WorkersTypeOK'
    BY <1>17, GotoTyping DEF Fail, DeployPC
  <2> QED
    BY <2>1, <2>2, <1>17, OnlyTyping DEF Fail
<1>18. CASE FailStarted(w)
  <2>1. container' \in Container
    BY <1>18, ContainerTyping DEF FailStarted
  <2>2. WorkersTypeOK'
    BY <1>18, RecordTyping, ContainerTyping DEF FailStarted, DeployPC, PlatformTypeOK, Container
  <2> QED
    BY <2>1, <2>2, <1>18, OnlyTyping DEF FailStarted
<1>19. CASE Rollback(w)
  <2>1. dep' \in [Deploy -> DeployRow]
    BY <1>19, SetStatusTyping DEF Rollback, DeployStates
  <2>2. WorkersTypeOK'
    BY <1>19, GotoTyping DEF Rollback, DeployPC
  <2> QED
    BY <2>1, <2>2, <1>19, OnlyTyping DEF Rollback
<1>20. CASE Restore(w)
  <2>1. container' \in Container
    BY <1>20, ContainerTyping, WorkerTyping DEF Restore, PlatformTypeOK
  <2>2. WorkersTypeOK'
    BY <1>20, GotoTyping DEF Restore, DeployPC
  <2> QED
    BY <2>1, <2>2, <1>20, OnlyTyping DEF Restore
<1> QED
  BY <1>1, <1>2, <1>3, <1>4, <1>5, <1>6, <1>7, <1>8, <1>9, <1>10, <1>11, <1>12, <1>13, <1>14, <1>15, <1>16, <1>17, <1>18, <1>19, <1>20 DEF DeployStep

\* A task that stops the service keeps every type.
LEMMA StopStepTyping ==
    ASSUME PlatformTypeOK, WorkersTypeOK, NEW w \in Worker, StopStep(w)
    PROVE  PlatformTypeOK' /\ WorkersTypeOK'
<1>1. CASE ClaimStop(w)
  <2>1. svc' \in ServiceRow
    BY <1>1 DEF ClaimStop, PlatformTypeOK, ServiceRow, ServiceStates
  <2>2. WorkersTypeOK'
    BY <1>1, RecordTyping, DoneTyping DEF ClaimStop, StopPC, PlatformTypeOK, ServiceRow
  <2> QED
    BY <2>1, <2>2, <1>1, OnlyTyping DEF ClaimStop
<1>2. CASE StopContainer(w)
  <2>1. container' \in Container
    BY <1>2, ContainerTyping DEF StopContainer, PlatformTypeOK
  <2>2. WorkersTypeOK'
    BY <1>2, GotoTyping DEF StopContainer, StopPC
  <2> QED
    BY <2>1, <2>2, <1>2, OnlyTyping DEF StopContainer
<1>3. CASE StopFails(w)
  BY <1>3, OnlyTyping, GotoTyping DEF StopFails, StopPC
<1>4. CASE RemoveContainer(w)
  <2>1. container' \in Container
    BY <1>4, ContainerTyping DEF RemoveContainer, PlatformTypeOK
  <2>2. WorkersTypeOK'
    BY <1>4, GotoTyping DEF RemoveContainer, StopPC
  <2> QED
    BY <2>1, <2>2, <1>4, OnlyTyping DEF RemoveContainer
<1>5. CASE FinishStop(w)
  <2>1. dep' \in [Deploy -> DeployRow]
    BY <1>5, SetStatusTyping DEF FinishStop, PlatformTypeOK, DeployStates
  <2>2. WorkersTypeOK'
    BY <1>5, GotoTyping DEF FinishStop, StopPC
  <2> QED
    BY <2>1, <2>2, <1>5, OnlyTyping DEF FinishStop
<1> QED
  BY <1>1, <1>2, <1>3, <1>4, <1>5 DEF StopStep

\* What follows the work on the containers keeps every type.
LEMMA SyncStepTyping ==
    ASSUME PlatformTypeOK, WorkersTypeOK, NEW w \in Worker, SyncStep(w)
    PROVE  PlatformTypeOK' /\ WorkersTypeOK'
<1>1. CASE FinishFailed(w)
  <2>1. dep' \in [Deploy -> DeployRow]
    BY <1>1, SetStatusTyping DEF FinishFailed, PlatformTypeOK, DeployStates
  <2>2. WorkersTypeOK'
    BY <1>1, GotoTyping DEF FinishFailed, DeployPC
  <2> QED
    BY <2>1, <2>2, <1>1, OnlyTyping DEF FinishFailed
<1>2. CASE FinishCancelled(w)
  <2>1. dep' \in [Deploy -> DeployRow]
    BY <1>2, SetStatusTyping DEF FinishCancelled, PlatformTypeOK, DeployStates
  <2>2. WorkersTypeOK'
    BY <1>2, GotoTyping DEF FinishCancelled, DeployPC
  <2> QED
    BY <2>1, <2>2, <1>2, OnlyTyping DEF FinishCancelled
<1>3. CASE FinishRaised(w)
  <2>1. dep' \in [Deploy -> DeployRow]
    BY <1>3, SetStatusTyping DEF FinishRaised, PlatformTypeOK, DeployStates
  <2>2. WorkersTypeOK'
    BY <1>3, GotoTyping DEF FinishRaised, DeployPC
  <2> QED
    BY <2>1, <2>2, <1>3, OnlyTyping DEF FinishRaised
<1>4. CASE Wait(w)
  BY <1>4, OnlyTyping, GotoTyping DEF Wait, DeployPC
<1>5. CASE SyncRunning(w)
  <2>1. svc' \in ServiceRow
    BY <1>5, EndedTyping DEF SyncRunning, PlatformTypeOK
  <2>2. WorkersTypeOK'
    BY <1>5, GotoTyping, DoneTyping DEF SyncRunning, DeployPC
  <2> QED
    BY <2>1, <2>2, <1>5, OnlyTyping DEF SyncRunning
<1>6. CASE SyncDeploy(w)
  <2>1. dep' \in [Deploy -> DeployRow]
    BY <1>6, SetStatusTyping DEF SyncDeploy, PlatformTypeOK, DeployStates
  <2>2. WorkersTypeOK'
    BY <1>6, DoneTyping DEF SyncDeploy
  <2> QED
    BY <2>1, <2>2, <1>6, OnlyTyping DEF SyncDeploy
<1>7. CASE SyncFailed(w)
  <2>1. svc' \in ServiceRow
    BY <1>7, EndedTyping DEF SyncFailed, PlatformTypeOK
  <2>2. WorkersTypeOK'
    BY <1>7, GotoTyping, DoneTyping DEF SyncFailed, DeployPC
  <2> QED
    BY <2>1, <2>2, <1>7, OnlyTyping DEF SyncFailed
<1>8. CASE SyncStopped(w)
  <2>1. svc' \in ServiceRow
    BY <1>8, EndedTyping DEF SyncStopped, PlatformTypeOK
  <2>2. WorkersTypeOK'
    BY <1>8, DoneTyping DEF SyncStopped
  <2> QED
    BY <2>1, <2>2, <1>8, OnlyTyping DEF SyncStopped
<1> QED
  BY <1>1, <1>2, <1>3, <1>4, <1>5, <1>6, <1>7, <1>8 DEF SyncStep

\* Whatever a worker does keeps every type.
LEMMA WorkersTyping ==
    ASSUME PlatformTypeOK, WorkersTypeOK, NEW w \in Worker
    PROVE  /\ WorkerStep(w) => PlatformTypeOK' /\ WorkersTypeOK'
           /\ \A m \in queue : Receive(w, m) => PlatformTypeOK' /\ WorkersTypeOK'
           /\ Crash(w) => PlatformTypeOK' /\ WorkersTypeOK'
<1>1. WorkerStep(w) => PlatformTypeOK' /\ WorkersTypeOK'
  BY DeployStepTyping, StopStepTyping, SyncStepTyping DEF WorkerStep
<1>2. ASSUME NEW m \in queue, Receive(w, m)
      PROVE  PlatformTypeOK' /\ WorkersTypeOK'
  <2> DEFINE s == [Idle EXCEPT !.pc = "claim", !.kind = m.kind, !.deploy = m.deploy,
                               !.task = m.task]
  <2>1. PlatformTypeOK'
    BY <1>2 DEF Receive, PlatformTypeOK
  <2>2. s \in WorkerState /\ (s.kind = "deploy" => s.deploy \in Deploy)
    BY NoneAssumption, ContainerTyping
       DEF PlatformTypeOK, Message, WorkerState, Idle, DeployPC
  <2> HIDE DEF s
  <2>3. Set(w, s) \/ UNCHANGED worker
    BY <1>2 DEF Receive, s
  <2> QED
    BY <2>1, <2>2, <2>3, SetTyping DEF WorkersTypeOK
<1>3. Crash(w) => PlatformTypeOK' /\ WorkersTypeOK'
  BY DoneTyping, OnlyTyping DEF Crash
<1> QED
  BY <1>1, <1>2, <1>3

\* A tick of the monitor keeps every type.
LEMMA MonitorStepTyping ==
    ASSUME PlatformTypeOK, MonitorTypeOK, MonitorStep
    PROVE  PlatformTypeOK' /\ MonitorTypeOK'
<1>1. CASE Tick
  BY <1>1 DEF Tick, shared, PlatformTypeOK, MonitorTypeOK, MonitorState, MonitorIdle
<1>2. CASE InspectDeploy
  BY <1>2 DEF InspectDeploy, shared, PlatformTypeOK, MonitorTypeOK, MonitorState, MonitorIdle, Inspect, Container
<1>3. CASE RetryScan
  BY <1>3 DEF RetryScan, shared, PlatformTypeOK, MonitorTypeOK, MonitorState, MonitorIdle
<1>4. CASE RetryFails
  BY <1>4 DEF RetryFails, shared, PlatformTypeOK, MonitorTypeOK, MonitorState, MonitorIdle
<1>5. CASE InspectService
  <2>1. PlatformTypeOK'
    BY <1>5 DEF InspectService, shared, PlatformTypeOK
  <2>2. CASE monitor' = MonitorIdle
    BY <2>1, <2>2 DEF MonitorTypeOK, MonitorState, MonitorIdle
  <2>3. CASE \E state \in Inspect :
               monitor' = [monitor EXCEPT !.pc = "service", !.seen = state]
    BY <2>1, <2>3 DEF Inspect, Container, PlatformTypeOK, MonitorTypeOK, MonitorState
  <2> QED
    BY <1>5, <2>1, <2>2, <2>3 DEF InspectService
<1>6. CASE TimeoutDeploy
  <2>1. svc' \in ServiceRow
    BY <1>6, EndedTyping DEF TimeoutDeploy, PlatformTypeOK, ServiceStates
  <2>2. dep' \in [Deploy -> DeployRow]
    BY <1>6, SetStatusTyping DEF TimeoutDeploy, DeployStates
  <2>3. MonitorTypeOK'
    BY <1>6 DEF TimeoutDeploy, Reconciling, MonitorTypeOK, MonitorState, MonitorIdle
  <2> QED
    BY <2>1, <2>2, <2>3, <1>6 DEF TimeoutDeploy, Reconciling, PlatformTypeOK, UnchangedQueue
<1>7. CASE FailDeploy
  <2>1. svc' \in ServiceRow
    BY <1>7, EndedTyping DEF FailDeploy, PlatformTypeOK, ServiceStates
  <2>2. dep' \in [Deploy -> DeployRow]
    BY <1>7, SetStatusTyping DEF FailDeploy, DeployStates
  <2>3. MonitorTypeOK'
    BY <1>7 DEF FailDeploy, Reconciling, MonitorTypeOK, MonitorState, MonitorIdle
  <2> QED
    BY <2>1, <2>2, <2>3, <1>7 DEF FailDeploy, Reconciling, PlatformTypeOK, UnchangedQueue
<1>8. CASE RollbackComplete
  <2>1. svc' \in ServiceRow
    BY <1>8, EndedTyping DEF RollbackComplete, PlatformTypeOK, ServiceStates
  <2>2. dep' \in [Deploy -> DeployRow]
    BY <1>8, SetStatusTyping DEF RollbackComplete, DeployStates
  <2>3. MonitorTypeOK'
    BY <1>8 DEF RollbackComplete, Reconciling, MonitorTypeOK, MonitorState, MonitorIdle
  <2> QED
    BY <2>1, <2>2, <2>3, <1>8 DEF RollbackComplete, Reconciling, PlatformTypeOK, UnchangedQueue
<1>9. CASE RollbackFailed
  <2>1. svc' \in ServiceRow
    BY <1>9, EndedTyping DEF RollbackFailed, PlatformTypeOK, ServiceStates
  <2>2. dep' \in [Deploy -> DeployRow]
    BY <1>9, SetStatusTyping DEF RollbackFailed, DeployStates
  <2>3. MonitorTypeOK'
    BY <1>9 DEF RollbackFailed, Reconciling, MonitorTypeOK, MonitorState, MonitorIdle
  <2> QED
    BY <2>1, <2>2, <2>3, <1>9 DEF RollbackFailed, Reconciling, PlatformTypeOK, UnchangedQueue
<1>10. CASE KeepDeploy
  BY <1>10 DEF KeepDeploy, Reconciling, UnchangedQueue, PlatformTypeOK, MonitorTypeOK, MonitorState, MonitorIdle
<1>11. CASE Retry
  <2>1. PICK d \in monitor.left : /\ Publish("deploy", d)
                                 /\ monitor' = [monitor EXCEPT !.left = @ \ {d}]
    BY <1>11 DEF Retry
  <2>2. d \in Deploy
    BY <2>1 DEF MonitorTypeOK, MonitorState, MonitorIdle
  <2>3. /\ queue' \subseteq Message /\ lastTask' \in 0 .. MaxTasks
        /\ lastTask' \in Task
    BY <2>1, <2>2, PublishTyping DEF Message
  <2>4. svc' \in ServiceRow
    BY <1>11, <2>3 DEF Retry, PlatformTypeOK, ServiceRow
  <2>5. MonitorTypeOK'
    BY <2>1 DEF MonitorTypeOK, MonitorState, MonitorIdle
  <2> QED
    BY <1>11, <2>3, <2>4, <2>5 DEF Retry, PlatformTypeOK
<1>12. CASE StuckService
  <2>1. svc' \in ServiceRow
    BY <1>12, EndedTyping DEF StuckService, PlatformTypeOK
  <2>2. MonitorTypeOK'
    BY <1>12 DEF StuckService, Settling, MonitorTypeOK, MonitorState, MonitorIdle
  <2> QED
    BY <2>1, <2>2, <1>12 DEF StuckService, Settling, PlatformTypeOK, UnchangedQueue
<1>13. CASE ConfirmService
  <2>1. svc' \in ServiceRow
    BY <1>13, EndedTyping DEF ConfirmService, PlatformTypeOK
  <2>2. dep' \in [Deploy -> DeployRow]
    BY <1>13 DEF ConfirmService, LogRunning, PlatformTypeOK, DeployRow
  <2>3. MonitorTypeOK'
    BY <1>13 DEF ConfirmService, Settling, MonitorTypeOK, MonitorState, MonitorIdle
  <2> QED
    BY <2>1, <2>2, <2>3, <1>13 DEF ConfirmService, Settling, PlatformTypeOK, UnchangedQueue
<1>14. CASE LoseService
  <2>1. svc' \in ServiceRow
    BY <1>14, EndedTyping DEF LoseService, PlatformTypeOK
  <2>2. MonitorTypeOK'
    BY <1>14 DEF LoseService, Settling, MonitorTypeOK, MonitorState, MonitorIdle
  <2> QED
    BY <2>1, <2>2, <1>14 DEF LoseService, Settling, PlatformTypeOK, UnchangedQueue
<1>15. CASE ConfirmStopped
  <2>1. svc' \in ServiceRow
    BY <1>15, EndedTyping DEF ConfirmStopped, PlatformTypeOK
  <2>2. MonitorTypeOK'
    BY <1>15 DEF ConfirmStopped, Settling, MonitorTypeOK, MonitorState, MonitorIdle
  <2> QED
    BY <2>1, <2>2, <1>15 DEF ConfirmStopped, Settling, PlatformTypeOK, UnchangedQueue
<1>16. CASE ForceStop
  <2>1. svc' \in ServiceRow
    BY <1>16, EndedTyping DEF ForceStop, PlatformTypeOK
  <2>2. container' \in Container
    BY <1>16, ContainerTyping DEF ForceStop, PlatformTypeOK
  <2>3. MonitorTypeOK'
    BY <1>16 DEF ForceStop, Settling, MonitorTypeOK, MonitorState, MonitorIdle
  <2> QED
    BY <2>1, <2>2, <2>3, <1>16 DEF ForceStop, Settling, PlatformTypeOK, UnchangedQueue
<1>17. CASE KeepService
  <2>1. svc' \in ServiceRow
    BY <1>17, EndedTyping DEF KeepService, PlatformTypeOK
  <2>2. MonitorTypeOK'
    BY <1>17 DEF KeepService, Settling, MonitorTypeOK, MonitorState, MonitorIdle
  <2> QED
    BY <2>1, <2>2, <1>17 DEF KeepService, Settling, PlatformTypeOK, UnchangedQueue
<1> QED
  BY <1>1, <1>2, <1>3, <1>4, <1>5, <1>6, <1>7, <1>8, <1>9, <1>10, <1>11, <1>12, <1>13, <1>14, <1>15, <1>16, <1>17 DEF MonitorStep, ReconcileDeploy, ReconcileService

\* What start and rebuild write keeps the rows' and the broker's types.
LEMMA QueueDeployTyping ==
    ASSUME PlatformTypeOK, NEW d \in Deploy, QueueDeploy(d)
    PROVE  /\ svc' \in ServiceRow
           /\ dep' \in [Deploy -> DeployRow]
           /\ queue' \subseteq Message
           /\ lastTask' \in 0 .. MaxTasks
           /\ revoked' \subseteq Task
<1>1. Publish("deploy", d) /\ UNCHANGED revoked
  BY DEF QueueDeploy
<1>2. queue' \subseteq Message /\ lastTask' \in 0 .. MaxTasks /\ lastTask + 1 \in Task
  BY <1>1, PublishTyping DEF Message
<1> DEFINE reselected == svc.reselected \/ d # svc.selected
           row == [svc EXCEPT !.status = "queued", !.started = "fresh",
                              !.task = lastTask + 1, !.selected = d,
                              !.reselected = reselected]
<1>3. reselected \in BOOLEAN
  OBVIOUS
<1> HIDE DEF reselected
<1>4. row \in ServiceRow
  BY <1>2, <1>3 DEF PlatformTypeOK, ServiceRow, ServiceStates, Clock
<1>5. svc' = row
  BY DEF QueueDeploy, reselected
<1>6. [dep EXCEPT ![d].status = "pending", ![d].cancel = FALSE, ![d].past = FALSE]
        \in [Deploy -> DeployRow]
  BY ZenonT(30) DEF PlatformTypeOK, DeployRow, DeployStates
<1>7. dep' \in [Deploy -> DeployRow]
  BY <1>6 DEF QueueDeploy
<1> QED
  BY <1>1, <1>2, <1>4, <1>5, <1>7 DEF PlatformTypeOK

\* Accepting a request keeps every type.
LEMMA RequestTyping ==
    ASSUME PlatformTypeOK, WorkersTypeOK, ApiTypeOK, Request
    PROVE  PlatformTypeOK' /\ WorkersTypeOK' /\ ApiTypeOK'
<1> USE DEF api
<1>1. ASSUME NEW d \in Deploy, StartDeploy(d)
      PROVE  PlatformTypeOK' /\ WorkersTypeOK' /\ ApiTypeOK'
  BY <1>1, QueueDeployTyping DEF StartDeploy, PlatformTypeOK, WorkersTypeOK, ApiTypeOK
<1>2. ASSUME NEW d \in Deploy, Rebuild(d)
      PROVE  PlatformTypeOK' /\ WorkersTypeOK' /\ ApiTypeOK'
  BY <1>2, QueueDeployTyping, ContainerTyping
     DEF Rebuild, PlatformTypeOK, WorkersTypeOK, ApiTypeOK
<1>3. ASSUME NEW d \in Deploy, SelectDeploy(d)
      PROVE  PlatformTypeOK' /\ WorkersTypeOK' /\ ApiTypeOK'
  BY <1>3 DEF SelectDeploy, PlatformTypeOK, ServiceRow, WorkersTypeOK, ApiTypeOK
<1>4. ASSUME NEW d \in Deploy, CancelRead(d)
      PROVE  PlatformTypeOK' /\ WorkersTypeOK' /\ ApiTypeOK'
  BY <1>4 DEF CancelRead, shared, PlatformTypeOK, DeployRow, WorkersTypeOK, ApiTypeOK,
              CancellerState
<1>5. CASE UnselectDeploy
  BY <1>5 DEF UnselectDeploy, PlatformTypeOK, ServiceRow, WorkersTypeOK, ApiTypeOK
<1>6. CASE RequestStop
  <2>1. /\ queue' \subseteq Message /\ lastTask' \in 0 .. MaxTasks
        /\ lastTask + 1 \in Task
    BY <1>6, PublishTyping DEF RequestStop, Message
  <2>2. svc' \in ServiceRow
    BY <1>6, <2>1 DEF RequestStop, PlatformTypeOK, ServiceRow, ServiceStates, Clock
  <2> QED
    BY <1>6, <2>1, <2>2 DEF RequestStop, PlatformTypeOK, WorkersTypeOK, ApiTypeOK
<1>7. CASE ApplyPlan
  <2>1. svc.selected \in Deploy
    BY <1>7 DEF ApplyPlan, PlatformTypeOK, ServiceRow
  <2>2. queue' \subseteq Message /\ lastTask' \in 0 .. MaxTasks
    BY <1>7, <2>1, PublishTyping DEF ApplyPlan, Message
  <2>3. svc' \in ServiceRow
    BY <1>7 DEF ApplyPlan, PlatformTypeOK, ServiceRow, ServiceStates
  <2> QED
    BY <1>7, <2>2, <2>3 DEF ApplyPlan, PlatformTypeOK, WorkersTypeOK, ApiTypeOK
<1>8. CASE ForceRead
  BY <1>8 DEF ForceRead, shared, PlatformTypeOK, ServiceRow, WorkersTypeOK, ApiTypeOK,
              ForcerState
<1> QED
  BY <1>1, <1>2, <1>3, <1>4, <1>5, <1>6, <1>7, <1>8 DEF Request

\* Going on with a cancellation, forced or not, keeps every type.
LEMMA HandleTyping ==
    ASSUME PlatformTypeOK, WorkersTypeOK, ApiTypeOK, Handle
    PROVE  PlatformTypeOK' /\ WorkersTypeOK' /\ ApiTypeOK'
<1>1. CASE CancelWrite
  <2>1. dep' \in [Deploy -> DeployRow]
    <3> DEFINE d == canceller.deploy
               status == IF canceller.status = "pending" THEN "cancelled" ELSE dep[d].status
               past == dep[d].past /\ canceller.status # "pending"
    <3>1. CASE d \in Deploy
      <4>1. status \in DeployStates /\ past \in BOOLEAN
        BY <3>1 DEF PlatformTypeOK, DeployRow, DeployStates
      <4> HIDE DEF status, past
      <4>2. [dep EXCEPT ![d].cancel = TRUE, ![d].status = status, ![d].past = past]
              \in [Deploy -> DeployRow]
        BY ZenonT(30), <3>1, <4>1 DEF PlatformTypeOK, DeployRow
      <4> QED
        BY <1>1, <4>2 DEF CancelWrite, status, past
    <3>2. CASE d \notin Deploy
      BY <1>1, <3>2 DEF CancelWrite, PlatformTypeOK
    <3> QED
      BY <3>1, <3>2
  <2>2. ApiTypeOK'
    BY <1>1 DEF CancelWrite, ApiTypeOK, CancellerState, CancellerIdle, DeployStates
  <2> QED
    BY <1>1, <2>1, <2>2 DEF CancelWrite, PlatformTypeOK, WorkersTypeOK
<1>2. CASE ForceMark
  <2>1. dep' \in [Deploy -> DeployRow]
    BY <1>2 DEF ForceMark, PlatformTypeOK, DeployRow, DeployStates
  <2>2. ApiTypeOK'
    BY <1>2 DEF ForceMark, ApiTypeOK, ForcerState
  <2> QED
    BY <1>2, <2>1, <2>2 DEF ForceMark, PlatformTypeOK, WorkersTypeOK
<1>3. CASE ForceRevoke
  <2>1. PlatformTypeOK' /\ ApiTypeOK'
    BY <1>3 DEF ForceRevoke, PlatformTypeOK, ApiTypeOK, ForcerState
  <2>2. Idle \in WorkerState /\ Idle.kind # "deploy"
    BY ContainerTyping DEF Idle, WorkerState
  <2>3. WorkersTypeOK'
    BY <1>3, <2>2 DEF ForceRevoke, WorkersTypeOK
  <2> QED
    BY <2>1, <2>3
<1>4. CASE ForceCleanup
  <2>1. PlatformTypeOK' /\ ApiTypeOK'
    BY <1>4, ContainerTyping DEF ForceCleanup, PlatformTypeOK, ApiTypeOK, ForcerState
  <2>2. ASSUME NEW w \in Worker
        PROVE  LET s == [worker[w] EXCEPT !.old = Absent]
               IN  s \in WorkerState /\ s.kind = worker[w].kind /\ s.deploy = worker[w].deploy
    BY WorkerTyping, ContainerTyping DEF WorkerState
  <2>3. WorkersTypeOK'
    BY <1>4, <2>2 DEF ForceCleanup, WorkersTypeOK
  <2> QED
    BY <2>1, <2>3
<1>5. CASE ForceStopped
  BY <1>5, EndedTyping
     DEF ForceStopped, PlatformTypeOK, ServiceStates, WorkersTypeOK, ApiTypeOK,
         ForcerState, ForcerIdle
<1> QED
  BY <1>1, <1>2, <1>3, <1>4, <1>5 DEF Handle

\* No step takes anything out of its type.
LEMMA TypesKept == TypeOK /\ [Next]_vars => TypeOK'
<1> SUFFICES ASSUME TypeOK, [Next]_vars PROVE TypeOK'
  OBVIOUS
<1> USE DEF TypeOK
<1>1. CASE Users
  BY <1>1, RequestTyping, HandleTyping DEF Users, MonitorTypeOK
<1>2. ASSUME NEW w \in Worker, Run(w) \/ Take(w) \/ Die(w)
      PROVE  TypeOK'
  BY <1>2, WorkersTyping DEF Run, Take, Die, MonitorTypeOK, ApiTypeOK, api
<1>3. CASE Beat
  BY <1>3, MonitorStepTyping DEF Beat, WorkersTypeOK, ApiTypeOK, api
<1>4. CASE Expire
  <2>1. PlatformTypeOK'
    BY <1>4 DEF Expire, ServiceClockExpires, DeployClockExpires, PlatformTypeOK,
                ServiceRow, DeployRow, Clock
  <2> QED
    BY <1>4, <2>1 DEF Expire, WorkersTypeOK, MonitorTypeOK, ApiTypeOK, api
<1>5. CASE Mishap
  <2>1. PlatformTypeOK'
    BY <1>5, ContainerTyping DEF Mishap, ContainerDies, LoseMessage, PlatformTypeOK
  <2> QED
    BY <1>5, <2>1 DEF Mishap, WorkersTypeOK, MonitorTypeOK, ApiTypeOK, api
<1>6. CASE UNCHANGED vars
  BY <1>6 DEF vars, shared, api, PlatformTypeOK, WorkersTypeOK, MonitorTypeOK, ApiTypeOK
<1> QED
  BY <1>1, <1>2, <1>3, <1>4, <1>5, <1>6 DEF Next

\* Everything starts within its type.
LEMMA TypeInit == Init => TypeOK
<1> SUFFICES ASSUME Init PROVE TypeOK
  OBVIOUS
<1>1. /\ NewDeploy \in DeployRow
      /\ [NewDeploy EXCEPT !.status = "succeeded"] \in DeployRow
  BY DEF NewDeploy, DeployRow, DeployStates, Clock
<1>2. svc \in ServiceRow
  <2>1. \/ svc = [status |-> "stopped", selected |-> None, started |-> "none",
                  task |-> None, deployed |-> FALSE, reselected |-> FALSE]
        \/ \E d \in Deploy :
             svc = [status |-> "succeeded", selected |-> d, started |-> "none",
                    task |-> None, deployed |-> TRUE, reselected |-> FALSE]
    BY DEF Init, PlatformInit
  <2>2. [status |-> "stopped", selected |-> None, started |-> "none",
         task |-> None, deployed |-> FALSE, reselected |-> FALSE] \in ServiceRow
    BY DEF ServiceRow, ServiceStates, Clock
  <2>3. ASSUME NEW d \in Deploy
        PROVE  [status |-> "succeeded", selected |-> d, started |-> "none",
                task |-> None, deployed |-> TRUE, reselected |-> FALSE] \in ServiceRow
    BY DEF ServiceRow, ServiceStates, Clock
  <2> QED
    BY <2>1, <2>2, <2>3
<1>3. dep \in [Deploy -> DeployRow]
  BY <1>1 DEF Init, PlatformInit
<1>4. PlatformTypeOK
  BY <1>2, <1>3, MaxTasksAssumption, ContainerTyping DEF Init, PlatformInit, PlatformTypeOK
<1>5. WorkersTypeOK
  BY ContainerTyping DEF Init, WorkersInit, WorkersTypeOK, WorkerState, Idle
<1>6. MonitorTypeOK /\ ApiTypeOK
  BY DEF Init, MonitorInit, MonitorTypeOK, MonitorIdle, MonitorState, ApiInit, ApiTypeOK,
         CancellerIdle, CancellerState, ForcerIdle, ForcerState, DeployStates
<1> QED
  BY <1>4, <1>5, <1>6 DEF TypeOK

\* TypeOK is an invariant: no interleaving of the API, the workers and the monitor
\* takes a row, a message or a handler's memory out of its type, and what a worker
\* deploys is always a deploy.
THEOREM TypeCorrect == Spec => []TypeOK
<1> QED
  BY TypeInit, TypesKept, PTL DEF Spec

-----------------------------------------------------------------------------
(* The effects a step can have on the service's row. *)

\* A start, a rebuild, a stop or a plan change is accepted.
Accepts ==
    /\ svc.status \notin Busy
    /\ svc'.status \in {"queued", "stopping"}
    /\ svc'.started = "fresh" \/ svc'.status = "stopping" \/ "plan" \in Ops

Claims == svc.status = "queued" /\ svc'.status = "deploying" /\ svc'.started = "fresh"

ClaimsStop == svc.status \notin {"queued", "deploying"} /\ svc'.status = "stopping"

Ends == svc'.status \in {"running", "stopped", "failed"} /\ svc'.task = None

Keeps ==
    /\ svc'.status = svc.status
    /\ svc'.task = svc.task \/ svc.status = "queued"
    /\ svc'.started = svc.started \/ svc'.started # "none"

Effect == Accepts \/ Claims \/ ClaimsStop \/ Ends \/ Keeps

\* A row that does not change is kept.
LEMMA UnchangedKeeps == ASSUME svc' = svc PROVE Effect
BY DEF Effect, Keeps

\* The ends of operations that the StateManager and the monitor write.
LEMMA RowsEnd ==
    ASSUME NEW s \in ServiceRow
    PROVE  /\ \A status \in ServiceStates :
                 Cleared(s, status).status = status /\ Cleared(s, status).task = None
           /\ Deployed(s).status = "running" /\ Deployed(s).task = None
           /\ StopService(s).status = "stopped" /\ StopService(s).task = None
           /\ \/ FailService(s) = s
              \/ FailService(s).status = "failed" /\ FailService(s).task = None
           /\ \A status \in {"running", "stopped", "failed"} :
                 /\ TransitionService(s, status).status = status
                 /\ TransitionService(s, status).task = None
<1>1. \A status \in ServiceStates :
        Cleared(s, status).status = status /\ Cleared(s, status).task = None
  BY DEF ServiceRow, Cleared
<1>2. Deployed(s).status = "running" /\ Deployed(s).task = None
  BY DEF ServiceRow, Deployed
<1>3. StopService(s).status = "stopped" /\ StopService(s).task = None
  BY DEF ServiceRow, StopService
<1>4. \/ FailService(s) = s
      \/ FailService(s).status = "failed" /\ FailService(s).task = None
  BY <1>1 DEF FailService, ServiceStates
<1>5. ASSUME NEW status \in {"running", "stopped", "failed"}
      PROVE  /\ TransitionService(s, status).status = status
             /\ TransitionService(s, status).task = None
  <2>1. CASE status = "running"
    BY <2>1, <1>2 DEF TransitionService
  <2>2. CASE status # "running"
    BY <2>2, <1>1 DEF TransitionService, ServiceStates
  <2> QED
    BY <2>1, <2>2
<1> QED
  BY <1>1, <1>2, <1>3, <1>4, <1>5

\* The claims and the sync_legacy_* writers are the steps of a worker that write
\* the row.
LEMMA OtherStepKeepsRow ==
    ASSUME NEW w \in Worker, WorkerStep(w)
    PROVE  \/ Claim(w) \/ ClaimStop(w) \/ SyncRunning(w) \/ SyncFailed(w) \/ SyncStopped(w)
           \/ svc' = svc
<1> USE DEF OnlyWorker, OnlyDeploy, OnlyContainer
<1>1. DeployStep(w) => Claim(w) \/ svc' = svc
  BY DEF DeployStep, Begin, Restart, Orchestrate, PrepareFails, Build, BuildFails,
         Replace, Create, CreateFails, Health, HealthFails, Complete, CancelBuild,
         CancelStarted, Escape, Fail, FailStarted, Rollback, Restore
<1>2. StopStep(w) => ClaimStop(w) \/ svc' = svc
  BY DEF StopStep, StopContainer, StopFails, RemoveContainer, FinishStop
<1>3. SyncStep(w) => SyncRunning(w) \/ SyncFailed(w) \/ SyncStopped(w) \/ svc' = svc
  BY DEF SyncStep, FinishFailed, FinishCancelled, FinishRaised, Wait, SyncDeploy
<1> QED
  BY <1>1, <1>2, <1>3 DEF WorkerStep

\* What a worker does to the row is an effect.
LEMMA WorkerEffect ==
    ASSUME TypeOK, NEW w \in Worker, WorkerStep(w)
    PROVE  Effect
<1> USE DEF TypeOK, PlatformTypeOK
<1>1. CASE Claim(w)
  BY <1>1 DEF Claim, ServiceRow, Effect, Claims, Keeps
<1>2. CASE ClaimStop(w)
  BY <1>2 DEF ClaimStop, ServiceRow, Effect, ClaimsStop, Keeps
<1>3. CASE SyncRunning(w)
  BY <1>3, RowsEnd DEF SyncRunning, Effect, Ends, Keeps
<1>4. CASE SyncFailed(w)
  BY <1>4, RowsEnd DEF SyncFailed, Effect, Ends, Keeps
<1>5. CASE SyncStopped(w)
  BY <1>5, RowsEnd DEF SyncStopped, Effect, Ends, Keeps
<1>6. CASE svc' = svc
  BY <1>6, UnchangedKeeps
<1> QED
  BY <1>1, <1>2, <1>3, <1>4, <1>5, <1>6, OtherStepKeepsRow

\* What the monitor does to the row is an effect.
LEMMA MonitorEffect ==
    ASSUME TypeOK, MonitorStep
    PROVE  Effect
<1> USE DEF TypeOK, PlatformTypeOK
<1>1. CASE Tick \/ InspectDeploy \/ RetryScan \/ RetryFails \/ InspectService \/ KeepDeploy
             \/ KeepService
  <2>1. svc' = svc
    BY <1>1 DEF Tick, InspectDeploy, RetryScan, RetryFails, InspectService, KeepDeploy,
           KeepService, shared
  <2> QED
    BY <2>1, UnchangedKeeps
<1>2. CASE TimeoutDeploy \/ FailDeploy \/ RollbackFailed \/ StuckService \/ LoseService
  <2>1. svc' = FailService(svc)
    BY <1>2 DEF TimeoutDeploy, FailDeploy, RollbackFailed, StuckService, LoseService
  <2> QED
    BY <2>1, RowsEnd DEF Effect, Ends, Keeps
<1>3. CASE RollbackComplete
  BY <1>3, RowsEnd DEF RollbackComplete, ServiceStates, Effect, Ends
<1>4. CASE Retry
  BY <1>4 DEF Retry, ServiceRow, Effect, Keeps
<1>5. CASE ConfirmService
  BY <1>5, RowsEnd DEF ConfirmService, Effect, Ends
<1>6. CASE ConfirmStopped \/ ForceStop
  BY <1>6, RowsEnd DEF ConfirmStopped, ForceStop, Effect, Ends
<1> QED
  BY <1>1, <1>2, <1>3, <1>4, <1>5, <1>6
     DEF MonitorStep, ReconcileDeploy, ReconcileService

\* What a request does to the row is an effect.
LEMMA RequestEffect ==
    ASSUME TypeOK, Request \/ Handle
    PROVE  Effect
<1> USE DEF TypeOK, PlatformTypeOK
<1>1. ASSUME NEW d \in Deploy, QueueDeploy(d) PROVE Effect
  BY <1>1 DEF QueueDeploy, ServiceRow, Effect, Accepts
<1>2. ASSUME NEW d \in Deploy, SelectDeploy(d) PROVE Effect
  BY <1>2 DEF SelectDeploy, ServiceRow, Effect, Keeps
<1>3. CASE UnselectDeploy
  BY <1>3 DEF UnselectDeploy, ServiceRow, Effect, Keeps
<1>4. CASE RequestStop
  BY <1>4 DEF RequestStop, ServiceRow, Effect, Accepts
<1>5. CASE ApplyPlan
  BY <1>5 DEF ApplyPlan, ServiceRow, Effect, Accepts
<1>6. CASE ForceStopped
  BY <1>6, RowsEnd DEF ForceStopped, ServiceStates, Effect, Ends
<1>7. ASSUME svc' = svc PROVE Effect
  BY <1>7, UnchangedKeeps
<1>8. ASSUME NEW d \in Deploy, CancelRead(d) PROVE svc' = svc
  BY <1>8 DEF CancelRead, shared
<1>9. CASE ForceRead \/ CancelWrite \/ ForceMark \/ ForceRevoke \/ ForceCleanup
  <2>1. svc' = svc
    BY <1>9 DEF ForceRead, CancelWrite, ForceMark, ForceRevoke, ForceCleanup, shared
  <2> QED
    BY <2>1, <1>7
<1> QED
  BY <1>1, <1>2, <1>3, <1>4, <1>5, <1>6, <1>7, <1>8, <1>9
     DEF Request, Handle, StartDeploy, Rebuild

\* Every step has one of the effects.
LEMMA StepEffect ==
    ASSUME TypeOK, [Next]_vars
    PROVE  Effect
<1>1. CASE Users
  BY <1>1, RequestEffect DEF Users
<1>2. ASSUME NEW w \in Worker, Run(w) \/ Take(w) \/ Die(w) PROVE Effect
  BY <1>2, WorkerEffect, UnchangedKeeps DEF Run, Take, Receive, Die, Crash, OnlyWorker
<1>3. CASE Beat
  BY <1>3, MonitorEffect DEF Beat
<1>4. CASE Expire
  BY <1>4, UnchangedKeeps
     DEF Expire, ServiceClockExpires, DeployClockExpires, TypeOK, PlatformTypeOK,
         ServiceRow, Effect, Keeps
<1>5. CASE Mishap
  BY <1>5, UnchangedKeeps DEF Mishap, ContainerDies, LoseMessage
<1>6. CASE UNCHANGED vars
  BY <1>6, UnchangedKeeps DEF vars, shared
<1> QED
  BY <1>1, <1>2, <1>3, <1>4, <1>5, <1>6 DEF Next

-----------------------------------------------------------------------------
(* The service's row. *)

\* Initially no operation is in progress.
LEMMA InitRow ==
    ASSUME Init
    PROVE  svc.status \in {"stopped", "succeeded"} /\ svc.task = None
BY DEF Init, PlatformInit

\* A service that holds a task id is busy: the end of every operation, be it
\* written by a worker, the monitor or a forced cancellation, clears the id, and
\* the monitor stores the id of a task it enqueued again only while the service
\* waits.
THEOREM TaskHeldWhileBusy == Spec => []TaskMeansBusy
<1>1. Init => TaskMeansBusy
  BY InitRow DEF TaskMeansBusy
<1>2. TypeOK /\ TaskMeansBusy /\ [Next]_vars => TaskMeansBusy'
  <2> SUFFICES ASSUME TypeOK, TaskMeansBusy, [Next]_vars PROVE TaskMeansBusy'
    OBVIOUS
  <2>1. Effect
    BY StepEffect
  <2>2. CASE Accepts \/ Claims \/ ClaimsStop
    BY <2>2 DEF Accepts, Claims, ClaimsStop, TaskMeansBusy, Busy
  <2>3. CASE Ends
    BY <2>3 DEF Ends, TaskMeansBusy
  <2>4. CASE Keeps
    BY <2>4 DEF Keeps, TaskMeansBusy, Busy
  <2> QED
    BY <2>1, <2>2, <2>3, <2>4 DEF Effect
<1> QED
  BY <1>1, <1>2, TypeCorrect, PTL DEF Spec

\* No effect takes the timestamp from a service that waits or is deployed.
LEMMA QueuedClockKept ==
    ASSUME "plan" \notin Ops
    PROVE  TypeOK /\ QueuedHasClock /\ [Next]_vars => QueuedHasClock'
<1> SUFFICES ASSUME TypeOK, QueuedHasClock, [Next]_vars PROVE QueuedHasClock'
  OBVIOUS
<1>1. Effect
  BY StepEffect
<1>2. CASE Accepts \/ Claims \/ ClaimsStop
  BY <1>2 DEF Accepts, Claims, ClaimsStop, QueuedHasClock
<1>3. CASE Ends
  BY <1>3 DEF Ends, QueuedHasClock
<1>4. CASE Keeps
  BY <1>4 DEF Keeps, QueuedHasClock
<1> QED
  BY <1>1, <1>2, <1>3, <1>4 DEF Effect

\* Where plans are not changed, a service that waits for or is in a deployment has
\* its deploy_started, without which the monitor would wait for ever. (A plan
\* change queues the service without it: the run PlanStarved.)
THEOREM ClockOfQueued ==
    ASSUME "plan" \notin Ops
    PROVE  Spec => []QueuedHasClock
<1>1. Init => QueuedHasClock
  BY InitRow DEF QueuedHasClock
<1> QED
  BY <1>1, QueuedClockKept, TypeCorrect, PTL DEF Spec

\* The lifecycle implements the safety part of Operation: no interleaving turns a
\* deployment in progress into a stop or a stop into a deployment.
THEOREM ImplementsOperation == Spec => OneOperation
<1>1. Init => Operations!Init
  BY InitRow DEF Operations!Init, Op
<1>2. TypeOK /\ [Next]_vars => [Operations!Next]_Op
  <2> SUFFICES ASSUME TypeOK, [Next]_vars PROVE Operations!Next \/ Op' = Op
    OBVIOUS
  <2> USE DEF Op, Operations!Next, Operations!Accept, Operations!End
  <2>1. Effect
    BY StepEffect
  <2>2. CASE Accepts
    BY <2>2 DEF Accepts, Busy
  <2>3. CASE Claims \/ ClaimsStop
    BY <2>3 DEF Claims, ClaimsStop
  <2>4. CASE Ends
    BY <2>4 DEF Ends
  <2>5. CASE Keeps
    BY <2>5 DEF Keeps
  <2> QED
    BY <2>1, <2>2, <2>3, <2>4, <2>5 DEF Effect
<1> QED
  BY <1>1, <1>2, TypeCorrect, PTL DEF Spec, OneOperation, Operations!Safe

-----------------------------------------------------------------------------
(* The advisory lock. *)

\* At most one worker is in a deploy task: what the lock gives, and what makes
\* OneDeployAtATime inductive, for a task may still be in its claim.
OneDeployTask ==
    \A v, w \in Worker :
        /\ worker[v].pc # "idle" /\ worker[v].kind = "deploy"
        /\ worker[w].pc # "idle" /\ worker[w].kind = "deploy"
        => v = w

\* A worker's step is its own, and leaves it with the kind of task it has or none.
LEMMA StepKeepsTask ==
    ASSUME TypeOK, NEW w \in Worker, WorkerStep(w)
    PROVE  /\ worker[w].pc # "idle"
           /\ \A v \in Worker : v # w => worker'[v] = worker[v]
           /\ worker'[w].pc = "idle" \/ worker'[w].kind = worker[w].kind
<1> USE DEF At, Set, Goto, Done, Idle, WorkerState
<1>1. worker \in [Worker -> WorkerState]
  BY DEF TypeOK, WorkersTypeOK
<1>2. CASE Claim(w)
  <2>1. CASE svc.status = "queued"
    BY ZenonT(30), <1>1, <1>2, <2>1 DEF Claim
  <2>2. CASE svc.status # "queued"
    BY <1>1, <1>2, <2>2 DEF Claim
  <2> QED
    BY <2>1, <2>2
<1>3. CASE Begin(w)
  BY <1>1, <1>3 DEF Begin
<1>4. CASE Restart(w)
  BY <1>1, <1>4 DEF Restart
<1>5. CASE Orchestrate(w)
  BY <1>1, <1>5 DEF Orchestrate
<1>6. CASE PrepareFails(w)
  BY <1>1, <1>6 DEF PrepareFails
<1>7. CASE Build(w)
  BY <1>1, <1>7 DEF Build
<1>8. CASE BuildFails(w)
  BY <1>1, <1>8 DEF BuildFails
<1>9. CASE Replace(w)
  BY <1>1, <1>9 DEF Replace
<1>10. CASE Create(w)
  BY <1>1, <1>10 DEF Create
<1>11. CASE CreateFails(w)
  BY <1>1, <1>11 DEF CreateFails
<1>12. CASE Health(w)
  BY <1>1, <1>12 DEF Health
<1>13. CASE HealthFails(w)
  BY <1>1, <1>13 DEF HealthFails
<1>14. CASE Complete(w)
  BY <1>1, <1>14 DEF Complete
<1>15. CASE CancelBuild(w)
  BY <1>1, <1>15 DEF CancelBuild
<1>16. CASE CancelStarted(w)
  BY <1>1, <1>16 DEF CancelStarted
<1>17. CASE Escape(w)
  BY <1>1, <1>17 DEF Escape
<1>18. CASE Fail(w)
  BY <1>1, <1>18 DEF Fail
<1>19. CASE FailStarted(w)
  BY <1>1, <1>19 DEF FailStarted
<1>20. CASE Rollback(w)
  BY <1>1, <1>20 DEF Rollback
<1>21. CASE Restore(w)
  BY <1>1, <1>21 DEF Restore
<1>22. CASE ClaimStop(w)
  <2> DEFINE claimed == [worker[w] EXCEPT !.pc = "stopping", !.deploy = svc.selected]
  <2>1. claimed.kind = worker[w].kind
    BY <1>1
  <2> HIDE DEF claimed
  <2>2. worker[w].pc = "claim"
    BY <1>22 DEF ClaimStop
  <2>3. CASE worker' = [worker EXCEPT ![w] = claimed]
    BY <1>1, <2>1, <2>2, <2>3
  <2>4. CASE worker' = [worker EXCEPT ![w] = Idle]
    BY <1>1, <2>2, <2>4
  <2> QED
    BY <1>22, <2>3, <2>4 DEF ClaimStop, claimed
<1>23. CASE StopContainer(w)
  BY <1>1, <1>23 DEF StopContainer
<1>24. CASE StopFails(w)
  BY <1>1, <1>24 DEF StopFails
<1>25. CASE RemoveContainer(w)
  BY <1>1, <1>25 DEF RemoveContainer
<1>26. CASE FinishStop(w)
  BY <1>1, <1>26 DEF FinishStop
<1>27. CASE FinishFailed(w)
  BY <1>1, <1>27 DEF FinishFailed
<1>28. CASE FinishCancelled(w)
  BY <1>1, <1>28 DEF FinishCancelled
<1>29. CASE FinishRaised(w)
  BY <1>1, <1>29 DEF FinishRaised
<1>30. CASE Wait(w)
  BY <1>1, <1>30 DEF Wait
<1>31. CASE SyncRunning(w)
  BY <1>1, <1>31 DEF SyncRunning
<1>32. CASE SyncDeploy(w)
  BY <1>1, <1>32 DEF SyncDeploy
<1>33. CASE SyncFailed(w)
  BY <1>1, <1>33 DEF SyncFailed
<1>34. CASE SyncStopped(w)
  BY <1>1, <1>34 DEF SyncStopped
<1> QED
  BY <1>2, <1>3, <1>4, <1>5, <1>6, <1>7, <1>8, <1>9, <1>10, <1>11,
     <1>12, <1>13, <1>14, <1>15, <1>16, <1>17, <1>18, <1>19, <1>20, <1>21,
     <1>22, <1>23, <1>24, <1>25, <1>26, <1>27, <1>28, <1>29, <1>30, <1>31,
     <1>32, <1>33, <1>34
     DEF WorkerStep, DeployStep, StopStep, SyncStep

\* Any step but a receipt leaves every worker with the kind of task it has or none.
LEMMA OtherStepKeepsTasks ==
    ASSUME TypeOK, [Next]_vars, NEW v \in Worker,
           \A w \in Worker : ~Take(w)
    PROVE  \/ worker'[v].pc = "idle"
           \/ worker[v].pc # "idle" /\ worker'[v].kind = worker[v].kind
<1>1. ASSUME NEW w \in Worker, Run(w)
      PROVE  \/ worker'[v].pc = "idle"
             \/ worker[v].pc # "idle" /\ worker'[v].kind = worker[v].kind
  <2>1. /\ worker[w].pc # "idle"
        /\ \A u \in Worker : u # w => worker'[u] = worker[u]
        /\ worker'[w].pc = "idle" \/ worker'[w].kind = worker[w].kind
    BY <1>1, StepKeepsTask DEF Run
  <2> QED
    BY <2>1
<1>2. ASSUME NEW w \in Worker, Die(w)
      PROVE  \/ worker'[v].pc = "idle"
             \/ worker[v].pc # "idle" /\ worker'[v].kind = worker[v].kind
  BY <1>2 DEF Die, Crash, Done, Set, Idle, TypeOK, WorkersTypeOK
<1>3. ASSUME UNCHANGED worker
      PROVE  \/ worker'[v].pc = "idle"
             \/ worker[v].pc # "idle" /\ worker'[v].kind = worker[v].kind
  BY <1>3
<1>4. CASE Users
  <2>1. CASE ForceRevoke
    BY <2>1, <1>3 DEF ForceRevoke, Idle
  <2>2. CASE ForceCleanup
    BY <2>2, <1>3 DEF ForceCleanup, TypeOK, WorkersTypeOK, WorkerState
  <2>3. CASE Request \/ CancelWrite \/ ForceMark \/ ForceStopped
    BY <2>3, <1>3
       DEF Request, StartDeploy, Rebuild, SelectDeploy, CancelRead, UnselectDeploy,
           RequestStop, ApplyPlan, ForceRead, CancelWrite, ForceMark, ForceStopped
  <2> QED
    BY <1>4, <2>1, <2>2, <2>3 DEF Users, Handle
<1>5. CASE Beat \/ Expire \/ Mishap \/ UNCHANGED vars
  BY <1>5, <1>3 DEF Beat, Expire, Mishap, vars
<1> QED
  BY <1>1, <1>2, <1>4, <1>5 DEF Next

\* No step brings a second worker into a deploy task.
LEMMA TaskAlone == TypeOK /\ OneDeployTask /\ [Next]_vars => OneDeployTask'
<1> SUFFICES ASSUME TypeOK, OneDeployTask, [Next]_vars,
                    NEW u \in Worker, NEW v \in Worker,
                    worker'[u].pc # "idle", worker'[u].kind = "deploy",
                    worker'[v].pc # "idle", worker'[v].kind = "deploy"
             PROVE  u = v
  BY DEF OneDeployTask
<1>1. CASE \A w \in Worker : ~Take(w)
  <2>1. /\ worker[u].pc # "idle" /\ worker[u].kind = "deploy"
        /\ worker[v].pc # "idle" /\ worker[v].kind = "deploy"
    BY <1>1, OtherStepKeepsTasks
  <2> QED
    BY <2>1 DEF OneDeployTask
<1>2. ASSUME NEW w \in Worker, NEW m \in queue, Receive(w, m)
      PROVE  u = v
  <2>1. CASE UNCHANGED worker
    BY <2>1 DEF OneDeployTask
  <2>2. CASE worker' # worker
    <3>1. /\ ~Locked(Key(w, m.kind))
          /\ Set(w, [Idle EXCEPT !.pc = "claim", !.kind = m.kind,
                                 !.deploy = m.deploy, !.task = m.task])
      BY <1>2, <2>2 DEF Receive
    <3>2. \A x \in Worker : x # w => worker'[x] = worker[x]
      BY <3>1 DEF Set, TypeOK, WorkersTypeOK
    <3>3. worker'[w].kind = m.kind
      BY <3>1 DEF Set, TypeOK, WorkersTypeOK, Idle
    <3>4. m.kind = "deploy" =>
            \A x \in Worker : worker[x].pc = "idle" \/ worker[x].kind # "deploy"
      BY <3>1 DEF Locked, Key
    <3> QED
      BY <3>2, <3>3, <3>4 DEF OneDeployTask
  <2> QED
    BY <2>1, <2>2
<1> QED
  BY <1>1, <1>2 DEF Take

\* Two workers never execute deployments of the service at the same time: whatever
\* the API accepts and the monitor declares while one is at it, the lock is the
\* only thing that keeps a second one out, and it does.
THEOREM LockExcludes == Spec => []OneDeployAtATime
<1>1. Init => OneDeployTask
  BY DEF Init, WorkersInit, Idle, OneDeployTask
<1>2. OneDeployTask => OneDeployAtATime
  BY DEF OneDeployTask, OneDeployAtATime, Executing
<1> QED
  BY <1>1, TaskAlone, <1>2, TypeCorrect, PTL DEF Spec

-----------------------------------------------------------------------------
(* The workers and the transition table. *)

\* A worker moves the service along the table and leaves a stopped one stopped.
LEMMA WorkerTransition ==
    ASSUME TypeOK, NEW w \in Worker, WorkerStep(w)
    PROVE  /\ ServiceMay(svc.status, svc'.status)
           /\ svc.status = "stopped" => svc'.status = "stopped"
<1> USE DEF TypeOK, PlatformTypeOK
<1>1. CASE Claim(w)
  BY <1>1 DEF Claim, ServiceRow, ServiceMay, ServiceTransitions
<1>2. CASE ClaimStop(w)
  BY <1>2 DEF ClaimStop, ServiceRow, ServiceMay, ServiceTransitions
<1>3. CASE SyncRunning(w)
  BY <1>3, RowsEnd DEF SyncRunning, ServiceMay
<1>4. CASE SyncFailed(w)
  BY <1>4, RowsEnd DEF SyncFailed, ServiceMay
<1>5. CASE SyncStopped(w)
  BY <1>5, RowsEnd DEF SyncStopped, ServiceMay, ServiceTransitions
<1>6. CASE svc' = svc
  BY <1>6 DEF ServiceMay
<1> QED
  BY <1>1, <1>2, <1>3, <1>4, <1>5, <1>6, OtherStepKeepsRow

\* Whatever fails and whoever else writes the row, a worker changes the service
\* along the transition table of state_machine.py.
THEOREM TableFollowed == Spec => WorkersFollowTable
<1>1. TypeOK => [WorkerRuns => ServiceMay(svc.status, svc'.status)]_vars
  BY WorkerTransition DEF WorkerRuns, Run
<1> QED
  BY <1>1, TypeCorrect, PTL DEF WorkersFollowTable

\* A worker never takes a service out of STOPPED: an operator's stop or forced
\* cancellation wins over a deployment that ends later.
THEOREM StoppedKept == Spec => WorkersKeepStopped
<1>1. TypeOK => [WorkerRuns /\ svc.status = "stopped" => svc'.status = "stopped"]_vars
  BY WorkerTransition DEF WorkerRuns, Run
<1> QED
  BY <1>1, TypeCorrect, PTL DEF WorkersKeepStopped

-----------------------------------------------------------------------------
(* The deploy rows. *)

\* What a step does to a deploy row, as far as its start time goes.
Stamped(d) ==
    \/ dep'[d].status # "running"
    \/ dep'[d].started # "none"
    \/ dep'[d].status = dep[d].status /\ dep'[d].started = dep[d].started

\* Writing an end, or an event, stamps no row but needs no stamp either.
LEMMA WritesStamped ==
    ASSUME TypeOK, NEW d \in Deploy
    PROVE  /\ dep' = dep => Stamped(d)
           /\ \A e, status : status # "running" /\ SetStatus(e, status) => Stamped(d)
           /\ \A w, past : Event(w, past) => Stamped(d)
<1>1. dep' = dep => Stamped(d)
  BY DEF Stamped
<1>2. ASSUME NEW e, NEW status, status # "running", SetStatus(e, status)
      PROVE  Stamped(d)
  BY <1>2 DEF SetStatus, Stamped, TypeOK, PlatformTypeOK, DeployRow
<1>3. ASSUME NEW w, NEW past, Event(w, past)
      PROVE  Stamped(d)
  BY <1>3 DEF Event, Stamped, TypeOK, PlatformTypeOK, DeployRow
<1> QED
  BY <1>1, <1>2, <1>3

\* A worker that starts a deploy stamps it.
LEMMA WorkerStamps ==
    ASSUME TypeOK, NEW w \in Worker, WorkerStep(w), NEW d \in Deploy
    PROVE  Stamped(d)
<1>1. CASE Claim(w)
  BY <1>1, WritesStamped DEF Claim, Stamped, TypeOK, PlatformTypeOK, DeployRow
<1>2. CASE Begin(w)
  BY <1>2, WritesStamped DEF Begin, Stamped, TypeOK, PlatformTypeOK, DeployRow
<1>3. CASE Build(w) \/ BuildFails(w) \/ Replace(w) \/ Create(w) \/ CreateFails(w)
             \/ Health(w) \/ HealthFails(w) \/ Fail(w)
  BY <1>3, WritesStamped
     DEF Build, BuildFails, Replace, Create, CreateFails, Health, HealthFails, Fail
<1>4. CASE Restart(w) \/ Complete(w) \/ Rollback(w) \/ FinishFailed(w)
             \/ FinishCancelled(w) \/ FinishRaised(w) \/ SyncDeploy(w) \/ FinishStop(w)
  BY <1>4, WritesStamped
     DEF Restart, Complete, Rollback, FinishFailed, FinishCancelled, FinishRaised,
         SyncDeploy, FinishStop
<1>5. CASE Orchestrate(w) \/ PrepareFails(w) \/ CancelBuild(w) \/ CancelStarted(w)
             \/ Escape(w) \/ FailStarted(w) \/ Restore(w) \/ Wait(w) \/ StopFails(w)
             \/ StopContainer(w) \/ RemoveContainer(w)
  BY <1>5, WritesStamped
     DEF Orchestrate, PrepareFails, CancelBuild, CancelStarted, Escape, FailStarted,
         Restore, Wait, StopFails, StopContainer, RemoveContainer, OnlyWorker, OnlyContainer
<1>6. CASE SyncRunning(w) \/ SyncFailed(w) \/ SyncStopped(w) \/ ClaimStop(w)
  BY <1>6, WritesStamped
     DEF SyncRunning, SyncFailed, SyncStopped, ClaimStop, OnlyService
<1> QED
  BY <1>1, <1>2, <1>3, <1>4, <1>5, <1>6 DEF WorkerStep, DeployStep, StopStep, SyncStep

\* The monitor starts no deploy.
LEMMA MonitorStamps ==
    ASSUME TypeOK, MonitorStep, NEW d \in Deploy
    PROVE  Stamped(d)
<1>1. CASE TimeoutDeploy \/ FailDeploy \/ RollbackComplete \/ RollbackFailed
  BY <1>1, WritesStamped
     DEF TimeoutDeploy, FailDeploy, RollbackComplete, RollbackFailed
<1>2. CASE ConfirmService
  BY <1>2 DEF ConfirmService, LogRunning, Stamped, TypeOK, PlatformTypeOK, DeployRow
<1>3. CASE ~(TimeoutDeploy \/ FailDeploy \/ RollbackComplete \/ RollbackFailed
               \/ ConfirmService)
  BY <1>3, WritesStamped
     DEF MonitorStep, ReconcileDeploy, ReconcileService, Tick, InspectDeploy, KeepDeploy,
         RetryScan, Retry, RetryFails, InspectService, StuckService, LoseService,
         ConfirmStopped, ForceStop, KeepService, shared
<1> QED
  BY <1>1, <1>2, <1>3

\* Nor does the API: a deploy that is requested waits for a worker.
LEMMA RequestStamps ==
    ASSUME TypeOK, Request \/ Handle, NEW d \in Deploy
    PROVE  Stamped(d)
<1> USE DEF Stamped, TypeOK, PlatformTypeOK
<1>1. ASSUME NEW e \in Deploy, QueueDeploy(e) PROVE Stamped(d)
  BY <1>1 DEF QueueDeploy, DeployRow
<1>2. CASE CancelWrite
  BY <1>2 DEF CancelWrite, DeployRow
<1>3. CASE ForceMark
  BY <1>3 DEF ForceMark, DeployRow
<1>4. ASSUME dep' = dep PROVE Stamped(d)
  BY <1>4
<1> QED
  BY <1>1, <1>2, <1>3, <1>4
     DEF Request, Handle, StartDeploy, Rebuild, SelectDeploy, CancelRead, UnselectDeploy,
         RequestStop, ApplyPlan, ForceRead, ForceRevoke, ForceCleanup, ForceStopped, shared

\* No step makes a deploy running that has no start, or takes it away.
LEMMA RunningClockKept == TypeOK /\ RunningHasClock /\ [Next]_vars => RunningHasClock'
<1> SUFFICES ASSUME TypeOK, RunningHasClock, [Next]_vars, NEW d \in Deploy,
                    dep'[d].status = "running"
             PROVE  dep'[d].started # "none"
  BY DEF RunningHasClock
<1>1. CASE Users
  BY <1>1, RequestStamps DEF Users, Stamped, RunningHasClock
<1>2. ASSUME NEW w \in Worker, Run(w) \/ Take(w) \/ Die(w)
      PROVE  dep'[d].started # "none"
  BY <1>2, WorkerStamps
     DEF Run, Take, Receive, Die, Crash, OnlyWorker, Stamped, RunningHasClock
<1>3. CASE Beat
  BY <1>3, MonitorStamps DEF Beat, Stamped, RunningHasClock
<1>4. CASE Expire
  BY <1>4 DEF Expire, ServiceClockExpires, DeployClockExpires, RunningHasClock,
              TypeOK, PlatformTypeOK, DeployRow
<1>5. CASE Mishap \/ UNCHANGED vars
  BY <1>5 DEF Mishap, ContainerDies, LoseMessage, vars, shared, RunningHasClock
<1> QED
  BY <1>1, <1>2, <1>3, <1>4, <1>5 DEF Next

\* A deploy that is being executed, or whose worker died, has the start time by
\* which the monitor ends it if nobody else does.
THEOREM ClockOfRunning == Spec => []RunningHasClock
<1>1. Init => RunningHasClock
  BY DEF Init, PlatformInit, NewDeploy, RunningHasClock
<1> QED
  BY <1>1, RunningClockKept, TypeCorrect, PTL DEF Spec

\* No step of the monitor changes the status of an ended deploy.
LEMMA BeatKeepsEnded ==
    ASSUME TypeOK, Beat, NEW d \in Deploy, dep[d].status \in DeployTerminal
    PROVE  dep'[d].status = dep[d].status
<1>1. CASE TimeoutDeploy \/ FailDeploy \/ RollbackComplete \/ RollbackFailed
  BY <1>1
     DEF TimeoutDeploy, FailDeploy, RollbackComplete, RollbackFailed, Reconciling,
         SetStatus, DeployTerminal, TypeOK, PlatformTypeOK
<1>2. CASE ConfirmService
  BY <1>2 DEF ConfirmService, LogRunning, DeployTerminal
<1>3. CASE ~(TimeoutDeploy \/ FailDeploy \/ RollbackComplete \/ RollbackFailed
               \/ ConfirmService)
  BY <1>3
     DEF Beat, MonitorStep, ReconcileDeploy, ReconcileService, Tick, InspectDeploy,
         KeepDeploy, RetryScan, Retry, RetryFails, InspectService, StuckService,
         LoseService, ConfirmStopped, ForceStop, KeepService, shared
<1> QED
  BY <1>1, <1>2, <1>3

\* The monitor leaves a deploy alone that ended, by a worker or a cancellation,
\* after the scan listed it and before its row was locked.
THEOREM EndedKept == Spec => MonitorKeepsEnded
<1>1. TypeOK => [Beat => \A d \in Deploy : dep[d].status \in DeployTerminal
                                  => dep'[d].status = dep[d].status]_vars
  BY BeatKeepsEnded
<1> QED
  BY <1>1, TypeCorrect, PTL DEF MonitorKeepsEnded

-----------------------------------------------------------------------------
(* Edits and purges. What survives them is what each row says of itself: an edit *)
(* writes a row as it once was, and the purge only ever writes stopped.          *)

\* The row that a request has read.
DraftTyped ==
    /\ draft.kind = "service" => draft.row \in ServiceRow
    /\ draft.kind = "deploy" => draft.deploy \in Deploy /\ draft.row \in DeployRow

\* It had its clock when it was read, if it needed one.
DraftClocked ==
    /\ draft.kind = "service" /\ draft.row.status \in {"queued", "deploying"} =>
         draft.row.started # "none"
    /\ draft.kind = "deploy" /\ draft.row.status = "running" => draft.row.started # "none"

\* A step is one of the platform's, or of the request that edits.
LEMMA EditOrNot ==
    ASSUME [EditNext]_editVars
    PROVE  \/ [Next]_vars /\ UNCHANGED draft
           \/ Edit
BY DEF EditNext, editVars, Goes, Next

\* A row grown old is a row, with its clock.
LEMMA AgedRows ==
    /\ \A read \in ServiceRow : \A row \in Aged(read) :
           /\ row \in ServiceRow /\ row.status = read.status
           /\ read.started # "none" => row.started # "none"
    /\ \A read \in DeployRow : \A row \in Aged(read) :
           /\ row \in DeployRow /\ row.status = read.status
           /\ read.started # "none" => row.started # "none"
BY DEF Aged, ServiceRow, DeployRow, Clock

\* What a request that edits leaves of the row of the service, and of the deploys.
LEMMA EditsRows ==
    ASSUME TypeOK, DraftTyped, Edit
    PROVE  /\ svc' \in ServiceRow /\ dep' \in [Deploy -> DeployRow] /\ container' \in Container
           /\ UNCHANGED <<queue, lastTask, revoked, worker, monitor, api>>
           /\ DraftTyped'
           /\ DraftClocked /\ QueuedHasClock => QueuedHasClock'
           /\ DraftClocked /\ RunningHasClock => RunningHasClock'
           /\ DraftClocked /\ QueuedHasClock /\ RunningHasClock => DraftClocked'
<1>1. /\ svc \in ServiceRow /\ dep \in [Deploy -> DeployRow] /\ container \in Container
  BY DEF TypeOK, PlatformTypeOK
<1>2. CASE ReadsService
  BY <1>1, <1>2 DEF ReadsService, vars, shared, api, DraftTyped, DraftClocked, QueuedHasClock,
                    RunningHasClock
<1>3. ASSUME NEW d \in Deploy, ReadsDeploy(d)
      PROVE  /\ UNCHANGED vars /\ DraftTyped' /\ (RunningHasClock => DraftClocked')
  BY <1>1, <1>3 DEF ReadsDeploy, DraftTyped, DraftClocked, RunningHasClock
<1>4. CASE \E d \in Deploy : ReadsDeploy(d)
  BY <1>1, <1>3, <1>4 DEF vars, shared, api, QueuedHasClock, RunningHasClock
<1>5. CASE SavesService
  <2>1. PICK row \in Aged(draft.row) :
            svc' = [row EXCEPT !.reselected = @ \/ row.selected # svc.selected]
    BY <1>5 DEF SavesService
  <2>2. /\ row \in ServiceRow /\ row.status = draft.row.status
        /\ (draft.row.started # "none" => row.started # "none")
    BY <1>5, AgedRows DEF SavesService, DraftTyped
  <2>3. svc' \in ServiceRow /\ svc'.status = row.status /\ svc'.started = row.started
    BY <2>1, <2>2 DEF ServiceRow
  <2>4. draft' = Saved /\ draft.kind = "service"
        /\ UNCHANGED <<dep, container, queue, lastTask, revoked, worker, monitor, api>>
    BY <1>5 DEF SavesService
  <2>5. DraftTyped' /\ DraftClocked'
    BY <2>4 DEF Saved, DraftTyped, DraftClocked
  <2> QED
    BY <1>1, <2>2, <2>3, <2>4, <2>5 DEF DraftClocked, QueuedHasClock, RunningHasClock
<1>6. CASE SavesDeploy
  <2>1. PICK row \in Aged(draft.row) : dep' = [dep EXCEPT ![draft.deploy] = row]
    BY <1>6 DEF SavesDeploy
  <2>2. /\ row \in DeployRow /\ row.status = draft.row.status /\ draft.deploy \in Deploy
        /\ (draft.row.started # "none" => row.started # "none")
    BY <1>6, AgedRows DEF SavesDeploy, DraftTyped
  <2>3. /\ dep' \in [Deploy -> DeployRow] /\ dep'[draft.deploy] = row
        /\ \A d \in Deploy : d # draft.deploy => dep'[d] = dep[d]
    BY <1>1, <2>1, <2>2
  <2>4. draft' = Saved /\ draft.kind = "deploy"
        /\ UNCHANGED <<svc, container, queue, lastTask, revoked, worker, monitor, api>>
    BY <1>6 DEF SavesDeploy
  <2>5. DraftTyped' /\ DraftClocked'
    BY <2>4 DEF Saved, DraftTyped, DraftClocked
  <2>6. ASSUME DraftClocked, RunningHasClock PROVE RunningHasClock'
    BY <2>2, <2>3, <2>4, <2>6 DEF DraftClocked, RunningHasClock
  <2> QED
    BY <1>1, <2>3, <2>4, <2>5, <2>6 DEF QueuedHasClock
<1>7. CASE ReadsStatus
  BY <1>1, <1>7 DEF ReadsStatus, vars, shared, api, DraftTyped, DraftClocked, QueuedHasClock,
                    RunningHasClock
<1>8. CASE RemovesRuntime
  BY <1>1, <1>8, ContainerTyping DEF RemovesRuntime, Saved, DraftTyped, DraftClocked,
                                     QueuedHasClock, RunningHasClock
<1>9. CASE SavesStopped
  BY <1>1, <1>9 DEF SavesStopped, Saved, ServiceRow, ServiceStates, DraftTyped, DraftClocked,
                    QueuedHasClock, RunningHasClock
<1> QED
  BY <1>2, <1>4, <1>5, <1>6, <1>7, <1>8, <1>9 DEF Edit

\* A row that was read and is written back is still a row, of its own kind: edits and
\* purges take nothing out of its type.
THEOREM EditsTyped == EditSpec => [](TypeOK /\ DraftTyped)
<1>1. Init => TypeOK
  BY TypeInit
<1>2. EditInit => TypeOK /\ DraftTyped
  BY <1>1 DEF EditInit, NoDraft, DraftTyped
<1>3. TypeOK /\ DraftTyped /\ [EditNext]_editVars => (TypeOK /\ DraftTyped)'
  <2> SUFFICES ASSUME TypeOK, DraftTyped, [EditNext]_editVars PROVE TypeOK' /\ DraftTyped'
    OBVIOUS
  <2>1. CASE [Next]_vars /\ UNCHANGED draft
    BY <2>1, TypesKept DEF DraftTyped
  <2>2. CASE Edit
    BY <2>2, EditsRows
       DEF TypeOK, PlatformTypeOK, WorkersTypeOK, MonitorTypeOK, ApiTypeOK, api
  <2> QED
    BY <2>1, <2>2, EditOrNot
<1> QED
  BY <1>2, <1>3, PTL DEF EditSpec

\* The lock knows nothing of rows: whatever is edited or purged, two workers never
\* execute deployments of the service at the same time.
THEOREM LockExcludesEdited == EditSpec => []OneDeployAtATime
<1>1. EditInit => OneDeployTask
  BY DEF EditInit, Init, WorkersInit, Idle, OneDeployTask
<1>2. TypeOK /\ DraftTyped /\ OneDeployTask /\ [EditNext]_editVars => OneDeployTask'
  <2> SUFFICES ASSUME TypeOK, DraftTyped, OneDeployTask, [EditNext]_editVars
               PROVE  OneDeployTask'
    OBVIOUS
  <2>1. CASE [Next]_vars
    BY <2>1, TaskAlone
  <2>2. CASE Edit
    <3>1. worker' = worker
      BY <2>2, EditsRows
    <3> QED
      BY <3>1 DEF OneDeployTask
  <2> QED
    BY <2>1, <2>2, EditOrNot
<1>3. OneDeployTask => OneDeployAtATime
  BY DEF OneDeployTask, OneDeployAtATime, Executing
<1> QED
  BY <1>1, <1>2, <1>3, EditsTyped, PTL DEF EditSpec

\* What the monitor times operations out by is never edited away: a row that waits or
\* runs has its timestamp, also when an edit saved it as it was before its end, and a
\* purge only writes stopped. This is what the recovery of edited rows rests on.
THEOREM ClocksEdited ==
    ASSUME "plan" \notin Ops
    PROVE  EditSpec => [](QueuedHasClock /\ RunningHasClock)
<1> DEFINE Clocked == QueuedHasClock /\ RunningHasClock /\ DraftClocked
<1>1. EditInit => Clocked
  BY InitRow
  DEF EditInit, Init, PlatformInit, NewDeploy, NoDraft, QueuedHasClock, RunningHasClock,
      DraftClocked
<1>2. TypeOK /\ DraftTyped /\ Clocked /\ [EditNext]_editVars => Clocked'
  <2> SUFFICES ASSUME TypeOK, DraftTyped, Clocked, [EditNext]_editVars PROVE Clocked'
    OBVIOUS
  <2>1. CASE [Next]_vars /\ UNCHANGED draft
    <3>1. QueuedHasClock' /\ RunningHasClock'
      BY <2>1, QueuedClockKept, RunningClockKept
    <3>2. DraftClocked'
      BY <2>1 DEF DraftClocked
    <3> QED
      BY <3>1, <3>2
  <2>2. CASE Edit
    BY <2>2, EditsRows
  <2> QED
    BY <2>1, <2>2, EditOrNot
<1>3. Clocked => QueuedHasClock /\ RunningHasClock
  OBVIOUS
<1> HIDE DEF Clocked
<1> QED
  BY <1>1, <1>2, <1>3, EditsTyped, PTL DEF EditSpec

\* Whatever is edited or purged meanwhile, a worker changes the service along the
\* transition table.
THEOREM TableFollowedEdited == EditSpec => WorkersFollowTable
<1>1. TypeOK => [WorkerRuns => ServiceMay(svc.status, svc'.status)]_vars
  BY WorkerTransition DEF WorkerRuns, Run
<1> QED
  BY <1>1, EditsTyped, PTL DEF WorkersFollowTable

\* And it never takes a service out of STOPPED, be it an operator's or a purge's.
THEOREM StoppedKeptEdited == EditSpec => WorkersKeepStopped
<1>1. TypeOK => [WorkerRuns /\ svc.status = "stopped" => svc'.status = "stopped"]_vars
  BY WorkerTransition DEF WorkerRuns, Run
<1> QED
  BY <1>1, EditsTyped, PTL DEF WorkersKeepStopped

\* The monitor leaves an ended deploy alone, also one that an edit has ended again.
THEOREM EndedKeptEdited == EditSpec => MonitorKeepsEnded
<1>1. TypeOK => [Beat => \A d \in Deploy : dep[d].status \in DeployTerminal
                                  => dep'[d].status = dep[d].status]_vars
  BY BeatKeepsEnded
<1> QED
  BY <1>1, EditsTyped, PTL DEF MonitorKeepsEnded

=============================================================================
