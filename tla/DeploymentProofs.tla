-------------------------- MODULE DeploymentProofs --------------------------
(***************************************************************************)
(* The two ways of deploying a service. The orchestrator, for any tags, any*)
(* number of deployments and polls, with or without Docker errors: which   *)
(* container bears the service's name during a deployment and after it.    *)
(* Database deployments, for any number of workers, queueings and retries: *)
(* the exclusion of tasks from each other, and the rest of a stopped       *)
(* service.                                                                *)
(***************************************************************************)
EXTENDS Orchestrator, DbDeploy, TLAPS

-----------------------------------------------------------------------------
(* The orchestrator. *)

\* A deployment in progress has a name of its own for the old container, and no verdict.
Begun == job.pc # "idle" => job.n # Main /\ job.status = "none"

\* The container it found keeps its image, under the service's name until the rename
\* and under the deployment's own name after it.
OldKept ==
    /\ job.pc \in {"build", "mounts", "rename"} => box[Main].image = job.snap
    /\ job.pc \in {"create", "start", "health"} => box[job.n].image = job.snap

\* What is about to be started was built, and from its start to the next request the
\* service's name is its own.
NewServes ==
    /\ job.pc = "start" => job.image \in ImageId
    /\ job.pc \in {"health", "cleanup", "complete"} \/ job.status = "succeeded"
         => box[Main].image = job.image /\ box[Main].state # "created"

\* A rollback creates the container anew, and is settled before the failure is
\* returned.
OldRestored ==
    /\ job.pc \in {"recreate", "restart"} => job.snap # Nothing
    /\ job.pc = "restart" => box[Main].image = job.snap
    /\ job.pc \in {"discard", "failed"} \/ job.status = "failed"
         => \/ job.snap = Nothing \/ job.rolled = "failed"
            \/ box[Main].image = job.snap /\ box[Main].state # "created"

OrchestratorSafe == Begun /\ OldKept /\ NewServes /\ OldRestored

OrchestratorInv == OrchestratorTypeOK /\ OrchestratorSafe

-----------------------------------------------------------------------------
(* Containers and locals. *)

\* A name without a container is the one without an image.
LEMMA BoxTyping ==
    ASSUME OrchestratorTypeOK
    PROVE  /\ Main \in Name /\ job.n \in Name /\ job \in Job /\ Nothing \notin ImageId
           /\ \A x \in Name : /\ box[x] \in Box /\ box[x].image \in ImageId \cup {Nothing}
                              /\ box[x].image = Nothing <=> box[x] = NoBox
                              /\ box[x] # NoBox => box[x].image \in ImageId
                              /\ box[x].state = "running" => box[x] # NoBox
<1>1. Nothing \notin ImageId
  BY OrchestratorAssumption DEF ImageId
<1>2. job \in Job /\ job.n \in Name /\ Main \in Name
  BY OrchestratorAssumption DEF OrchestratorTypeOK, Job, Name, Main
<1>3. ASSUME NEW x \in Name
      PROVE  /\ box[x] \in Box /\ box[x].image \in ImageId \cup {Nothing}
             /\ box[x].image = Nothing <=> box[x] = NoBox
             /\ box[x] # NoBox => box[x].image \in ImageId
             /\ box[x].state = "running" => box[x] # NoBox
  <2>1. box[x] \in Box
    BY DEF OrchestratorTypeOK
  <2>2. CASE box[x] = NoBox
    BY <1>1, <2>1, <2>2 DEF NoBox
  <2>3. CASE box[x] # NoBox
    <3>1. box[x] \in [image : ImageId, state : {"created", "running", "exited"}]
      BY <2>1, <2>3 DEF Box
    <3> QED
      BY <1>1, <2>1, <2>3, <3>1
  <2> QED
    BY <2>2, <2>3
<1> QED
  BY <1>1, <1>2, <1>3

\* Removing a container concerns its name alone.
LEMMA RemoveBox ==
    ASSUME OrchestratorTypeOK, NEW x \in Name
    PROVE  /\ Without(x) \in [Name -> Box] /\ Without(x)[x] = NoBox
           /\ \A y \in Name : y # x => Without(x)[y] = box[y]
BY DEF OrchestratorTypeOK, Without, Box

\* So does creating one, or running it at once.
LEMMA CreateBox ==
    ASSUME OrchestratorTypeOK, NEW x \in Name, NEW i \in ImageId,
           NEW state \in {"created", "running"}, box' = With(x, i, state)
    PROVE  /\ box' \in [Name -> Box] /\ box'[x].image = i /\ box'[x].state = state
           /\ \A y \in Name : y # x => box'[y] = box[y]
<1> DEFINE new == [image |-> i, state |-> state]
<1>1. new \in Box /\ new.image = i /\ new.state = state
  BY DEF Box
<1>2. box \in [Name -> Box] /\ box' = [box EXCEPT ![x] = new]
  BY DEF With, OrchestratorTypeOK
<1> HIDE DEF new
<1> QED
  BY <1>1, <1>2

\* A container that starts or ends keeps its image and its name.
LEMMA ChangeBox ==
    ASSUME OrchestratorTypeOK, NEW x \in Name, Exists(x), NEW state \in {"running", "exited"},
           box' = [box EXCEPT ![x].state = state]
    PROVE  /\ box' \in [Name -> Box]
           /\ box'[x].image = box[x].image /\ box'[x].state = state
           /\ \A y \in Name : y # x => box'[y] = box[y]
<1> DEFINE new == [box[x] EXCEPT !.state = state]
<1>1. box \in [Name -> Box] /\ box' = [box EXCEPT ![x] = new]
  BY DEF OrchestratorTypeOK
<1>2. box[x] \in [image : ImageId, state : {"created", "running", "exited"}]
  BY <1>1 DEF Exists, Box
<1>3. new \in Box /\ new.image = box[x].image /\ new.state = state
  BY <1>2 DEF Box
<1> HIDE DEF new
<1> QED
  BY <1>1, <1>3

\* The orchestrator goes on, or returns; its other locals stay.
LEMMA JobMoves ==
    ASSUME OrchestratorTypeOK
    PROVE  /\ \A pc \in OrchestratorPC : JobTo(pc) =>
                /\ job' \in Job /\ job'.pc = pc /\ job'.status = job.status
                /\ job'.n = job.n /\ job'.snap = job.snap /\ job'.image = job.image
                /\ job'.rolled = job.rolled
           /\ \A status \in {"none", "succeeded", "failed", "cancelled", "raised"} :
                Return(status) =>
                /\ job' \in Job /\ job'.pc = "idle" /\ job'.status = status
                /\ job'.n = job.n /\ job'.snap = job.snap /\ job'.image = job.image
                /\ job'.rolled = job.rolled
<1>1. job \in Job
  BY DEF OrchestratorTypeOK
<1>2. ASSUME NEW pc \in OrchestratorPC, JobTo(pc)
      PROVE  /\ job' \in Job /\ job'.pc = pc /\ job'.status = job.status
             /\ job'.n = job.n /\ job'.snap = job.snap /\ job'.image = job.image
             /\ job'.rolled = job.rolled
  BY <1>1, <1>2 DEF Job, JobTo
<1>3. ASSUME NEW status \in {"none", "succeeded", "failed", "cancelled", "raised"},
             Return(status)
      PROVE  /\ job' \in Job /\ job'.pc = "idle" /\ job'.status = status
             /\ job'.n = job.n /\ job'.snap = job.snap /\ job'.image = job.image
             /\ job'.rolled = job.rolled
  BY <1>1, <1>3 DEF Job, Return, OrchestratorPC
<1> QED
  BY <1>2, <1>3

\* Where nothing is claimed about the containers: before the snapshot and in the
\* handlers up to the rollback.
LEMMA NothingClaimed ==
    ASSUME job'.pc \in {"prepare", "snapshot", "fail", "failOld", "rollback",
                        "cancel", "cancelOld", "cancelRollback"},
           job'.n # Main, job'.status = "none"
    PROVE  OrchestratorSafe'
BY DEF OrchestratorSafe, Begun, OldKept, NewServes, OldRestored

\* Nor when it has returned without a verdict on the deployment.
LEMMA NoVerdict ==
    ASSUME job'.pc = "idle", job'.status \notin {"succeeded", "failed"}
    PROVE  OrchestratorSafe'
BY DEF OrchestratorSafe, Begun, OldKept, NewServes, OldRestored

-----------------------------------------------------------------------------
(* The steps. *)

\* The stages of deploy(), one by one.
LEMMA PipelineSteps ==
    ASSUME OrchestratorInv, Pipeline
    PROVE  OrchestratorInv'
<1>1. /\ OrchestratorTypeOK /\ OrchestratorSafe /\ job \in Job /\ job.n \in Name /\ Main \in Name
      /\ images \subseteq ImageId /\ tagged \in [Tag -> ImageId \cup {Nothing}]
      /\ cancelled \in BOOLEAN /\ box \in [Name -> Box]
  BY BoxTyping DEF OrchestratorInv, OrchestratorTypeOK
<1>2. job.pc # "idle" => job.n # Main /\ job.status = "none"
  BY <1>1 DEF OrchestratorSafe, Begun
<1>3. ASSUME DockerError, job.pc # "idle"
      PROVE  OrchestratorInv'
  BY <1>1, <1>2, <1>3, JobMoves, NothingClaimed
  DEF DockerError, OrchestratorInv, OrchestratorTypeOK, OrchestratorPC
<1>4. ASSUME JobTo("fail"), job.pc # "idle", box' \in [Name -> Box],
             UNCHANGED <<images, tagged, cancelled>>
      PROVE  OrchestratorInv'
  BY <1>1, <1>2, <1>4, JobMoves, NothingClaimed
  DEF OrchestratorInv, OrchestratorTypeOK, OrchestratorPC
<1>5. ASSUME NEW others \in [Name -> Box], UndoRename(others)
      PROVE  box' \in [Name -> Box]
  BY <1>1, <1>5 DEF UndoRename, Box
<1>6. CASE Prepare
  BY <1>1, <1>2, <1>6, JobMoves, NothingClaimed
  DEF Prepare, Stage, JobAt, OrchestratorInv, OrchestratorTypeOK, OrchestratorPC
<1>7. CASE Snapshot
  <2>1. CASE /\ job' = [job EXCEPT !.pc = "build", !.snap = box[Main].image]
             /\ UNCHANGED <<box, images, tagged, cancelled>>
    <3>1. /\ job' \in Job /\ job'.pc = "build" /\ job'.snap = box[Main].image
          /\ job'.n = job.n /\ job'.status = job.status
      BY <1>1, <2>1, BoxTyping DEF Job, OrchestratorPC
    <3> QED
      BY <1>1, <1>2, <1>7, <2>1, <3>1 DEF Snapshot, JobAt, OrchestratorInv, OrchestratorTypeOK,
         OrchestratorSafe, Begun, OldKept, NewServes, OldRestored
  <2> QED
    BY <1>3, <1>7, <2>1 DEF Snapshot, JobAt
<1>8. CASE Build
  <2>1. ASSUME NEW i \in {job.n} \cup (images \cap {tagged[job.tag]}),
               images' = images \cup {i}, tagged' = [tagged EXCEPT ![job.tag] = i],
               job' = [job EXCEPT !.pc = "mounts", !.image = i, !.built = TRUE],
               UNCHANGED <<box, cancelled>>
        PROVE  OrchestratorInv'
    <3>1. i \in ImageId
      BY <1>1 DEF Name, ImageId
    <3>2. /\ job' \in Job /\ job'.pc = "mounts" /\ job'.snap = job.snap
          /\ job'.n = job.n /\ job'.status = job.status
      BY <1>1, <2>1, <3>1 DEF Job, OrchestratorPC
    <3>3. OrchestratorTypeOK'
      BY <1>1, <2>1, <3>1, <3>2 DEF OrchestratorTypeOK
    <3> QED
      BY <1>1, <1>2, <1>8, <2>1, <3>2, <3>3 DEF Build, Stage, JobAt, OrchestratorInv,
         OrchestratorSafe, Begun, OldKept, NewServes, OldRestored
  <2> QED
    BY <1>1, <1>4, <1>8, <2>1 DEF Build, Stage, JobAt
<1>9. CASE Mounts
  <2>1. CASE JobTo("rename") /\ UNCHANGED <<box, images, tagged, cancelled>>
    <3>1. /\ job' \in Job /\ job'.pc = "rename" /\ job'.snap = job.snap
          /\ job'.n = job.n /\ job'.status = job.status
      BY <1>1, <2>1, JobMoves DEF OrchestratorPC
    <3> QED
      BY <1>1, <1>2, <1>9, <2>1, <3>1 DEF Mounts, Stage, JobAt, OrchestratorInv,
         OrchestratorTypeOK, OrchestratorSafe, Begun, OldKept, NewServes, OldRestored
  <2> QED
    BY <1>3, <1>9, <2>1 DEF Mounts, Stage, JobAt
<1>10. CASE Rename
  <2>1. CASE /\ box' = [box EXCEPT ![job.n] = box[Main], ![Main] = NoBox]
             /\ job' = [job EXCEPT !.pc = "create", !.renamed = Exists(Main)]
             /\ UNCHANGED <<images, tagged, cancelled>>
    <3>1. job.n # Main /\ box[Main].image = job.snap
      BY <1>1, <1>2, <1>10 DEF Rename, JobAt, OrchestratorSafe, OldKept
    <3>2. /\ job' \in Job /\ job'.pc = "create" /\ job'.snap = job.snap
          /\ job'.n = job.n /\ job'.status = job.status
      BY ZenonT(30), <1>1, <2>1 DEF Job, OrchestratorPC, Exists
    <3>3. box' \in [Name -> Box] /\ box'[job.n] = box[Main]
      BY <1>1, <2>1, <3>1 DEF Box
    <3> QED
      BY <1>1, <1>2, <1>10, <2>1, <3>1, <3>2, <3>3 DEF Rename, JobAt, OrchestratorInv,
         OrchestratorTypeOK, OrchestratorSafe, Begun, OldKept, NewServes, OldRestored
  <2>2. CASE /\ job' = [job EXCEPT !.pc = "fail", !.renamed = TRUE]
             /\ UNCHANGED <<box, images, tagged, cancelled>>
    <3>1. /\ job' \in Job /\ job'.pc = "fail" /\ job'.n = job.n /\ job'.status = job.status
      BY <1>1, <2>2 DEF Job, OrchestratorPC
    <3> QED
      BY <1>1, <1>2, <1>10, <2>2, <3>1, NothingClaimed
      DEF Rename, JobAt, OrchestratorInv, OrchestratorTypeOK
  <2> QED
    BY <1>10, <2>1, <2>2 DEF Rename
<1>11. CASE Create
  <2>1. CASE /\ job.image \in images /\ box' = With(Main, job.image, "created")
             /\ JobTo("start") /\ UNCHANGED <<images, tagged, cancelled>>
    <3>1. /\ job' \in Job /\ job'.pc = "start" /\ job'.snap = job.snap /\ job'.image = job.image
          /\ job'.n = job.n /\ job'.status = job.status
      BY <1>1, <2>1, JobMoves DEF OrchestratorPC
    <3>2. job.image \in ImageId
      BY <1>1, <2>1
    <3>3. box' \in [Name -> Box] /\ (job.n # Main => box'[job.n] = box[job.n])
      BY <1>1, <2>1, <3>2, CreateBox
    <3> QED
      BY <1>1, <1>2, <1>11, <2>1, <3>1, <3>2, <3>3 DEF Create, Stage, JobAt, OrchestratorInv,
         OrchestratorTypeOK, OrchestratorSafe, Begun, OldKept, NewServes, OldRestored
  <2> QED
    BY <1>1, <1>4, <1>5, <1>11, <2>1 DEF Create, Stage, JobAt
<1>12. CASE StartNew
  <2>1. job.pc = "start" /\ UNCHANGED <<images, tagged, cancelled>>
    BY <1>12 DEF StartNew, Stage, JobAt
  <2>2. CASE /\ box' = With(Main, job.image, "running")
             /\ job' = [job EXCEPT !.pc = "health", !.started = TRUE]
    <3>1. /\ job' \in Job /\ job'.pc = "health" /\ job'.snap = job.snap
          /\ job'.image = job.image /\ job'.n = job.n /\ job'.status = job.status
      BY <1>1, <2>2 DEF Job, OrchestratorPC
    <3>2. job.image \in ImageId
      BY <1>1, <2>1 DEF OrchestratorSafe, NewServes
    <3>3. /\ box' \in [Name -> Box] /\ box'[Main].image = job.image
          /\ box'[Main].state = "running"
          /\ job.n # Main => box'[job.n] = box[job.n]
      BY <1>1, <2>2, <3>2, CreateBox
    <3> QED
      BY <1>1, <1>2, <2>1, <3>1, <3>3 DEF OrchestratorInv,
         OrchestratorTypeOK, OrchestratorSafe, Begun, OldKept, NewServes, OldRestored
  <2>3. CASE UndoRename(Without(Main)) /\ JobTo("fail")
    BY <1>1, <1>4, <1>5, <2>1, <2>3, RemoveBox
  <2>4. CASE JobTo("fail") /\ UNCHANGED box
    BY <1>1, <1>4, <2>1, <2>4
  <2> QED
    BY <1>12, <2>2, <2>3, <2>4 DEF StartNew
<1>13. CASE Health
  <2>1. job.pc = "health" /\ UNCHANGED <<box, images, tagged, cancelled>>
    BY <1>13 DEF Health, PollRunning, PollHealthy, PollOther, PollFails, Stage, JobAt
  <2>2. CASE PollFails
    BY <1>1, <1>4, <2>1, <2>2 DEF PollFails
  <2>3. CASE PollRunning \/ PollHealthy \/ PollOther
    <3>1. /\ job' \in Job /\ job'.pc \in {"health", "cleanup"} /\ job'.snap = job.snap
          /\ job'.image = job.image /\ job'.n = job.n /\ job'.status = job.status
      <4>1. CASE PollHealthy
        BY <1>1, <4>1, JobMoves DEF PollHealthy, OrchestratorPC
      <4>2. CASE PollOther
        BY <1>1, <2>1, <4>2, OrchestratorAssumption DEF PollOther, Job
      <4>3. CASE PollRunning
        <5>1. job.polls + 1 \in 0..MinPolls
          BY <1>1, <4>3, OrchestratorAssumption DEF PollRunning, Job
        <5> QED
          BY <1>1, <2>1, <4>3, <5>1 DEF PollRunning, Job
      <4> QED
        BY <2>3, <4>1, <4>2, <4>3
    <3> QED
      BY <1>1, <1>2, <2>1, <3>1 DEF OrchestratorInv, OrchestratorTypeOK,
         OrchestratorSafe, Begun, OldKept, NewServes, OldRestored
  <2> QED
    BY <1>13, <2>2, <2>3 DEF Health
<1>14. CASE Cleanup
  <2>1. job.pc = "cleanup" /\ JobTo("complete") /\ UNCHANGED <<images, tagged, cancelled>>
    BY <1>14 DEF Cleanup, RemoveOld, JobAt
  <2>2. /\ job' \in Job /\ job'.pc = "complete" /\ job'.snap = job.snap
        /\ job'.image = job.image /\ job'.n = job.n /\ job'.status = job.status
    BY <1>1, <2>1, JobMoves DEF OrchestratorPC
  <2>3. box' \in [Name -> Box] /\ box'[Main] = box[Main]
    <3>1. job.n # Main
      BY <1>2, <2>1
    <3>2. CASE box' \in {box, Without(job.n)}
      BY <1>1, <3>1, <3>2, RemoveBox
    <3>3. CASE Exists(job.n) /\ box' = [box EXCEPT ![job.n].state = "exited"]
      BY <1>1, <3>1, <3>3, ChangeBox
    <3> QED
      BY <1>14, <3>2, <3>3 DEF Cleanup, RemoveOld
  <2> QED
    BY <1>1, <1>2, <2>1, <2>2, <2>3 DEF OrchestratorInv, OrchestratorTypeOK,
       OrchestratorSafe, Begun, OldKept, NewServes, OldRestored
<1>15. CASE Succeed
  <2>1. /\ job.pc = "complete" /\ images' = Pruned /\ UNCHANGED <<box, tagged, cancelled>>
    BY <1>15 DEF Succeed, Stage, JobAt
  <2>2. /\ job' \in Job /\ job'.pc = "idle" /\ job'.snap = job.snap
        /\ job'.image = job.image /\ job'.n = job.n /\ job'.status = "succeeded"
    BY <1>1, <1>15, JobMoves DEF Succeed
  <2> QED
    BY <1>1, <1>2, <2>1, <2>2 DEF Pruned, OrchestratorInv, OrchestratorTypeOK,
       OrchestratorSafe, Begun, OldKept, NewServes, OldRestored
<1> QED
  BY <1>6, <1>7, <1>8, <1>9, <1>10, <1>11, <1>12, <1>13, <1>14, <1>15 DEF Pipeline

\* Nothing but the removed container keeps the image of the failed one.
LEMMA RemovedImageTyping ==
    ASSUME OrchestratorTypeOK, RemovedImage
    PROVE  images' \subseteq ImageId /\ tagged' \in [Tag -> ImageId \cup {Nothing}]
BY DEF RemovedImage, OrchestratorTypeOK

\* The handlers of failures and cancellations, one by one.
LEMMA HandlerSteps ==
    ASSUME OrchestratorInv, Handlers
    PROVE  OrchestratorInv'
<1>1. /\ OrchestratorTypeOK /\ OrchestratorSafe /\ job \in Job /\ job.n \in Name /\ Main \in Name
      /\ images \subseteq ImageId /\ tagged \in [Tag -> ImageId \cup {Nothing}]
      /\ cancelled \in BOOLEAN /\ box \in [Name -> Box]
  BY BoxTyping DEF OrchestratorInv, OrchestratorTypeOK
<1>2. job.pc # "idle" => job.n # Main /\ job.status = "none"
  BY <1>1 DEF OrchestratorSafe, Begun
<1>3. ASSUME NEW pc \in {"fail", "failOld", "rollback", "cancel", "cancelOld", "cancelRollback"},
             JobTo(pc), job.pc # "idle", box' \in [Name -> Box],
             UNCHANGED <<images, tagged, cancelled>>
      PROVE  OrchestratorInv'
  BY <1>1, <1>2, <1>3, JobMoves, NothingClaimed
  DEF OrchestratorInv, OrchestratorTypeOK, OrchestratorPC
<1>4. ASSUME NEW status \in {"none", "cancelled", "raised"}, Return(status),
             box' \in [Name -> Box], images' \subseteq ImageId,
             tagged' \in [Tag -> ImageId \cup {Nothing}], UNCHANGED cancelled
      PROVE  OrchestratorInv'
  <2>1. job' \in Job /\ job'.pc = "idle" /\ job'.status = status
    BY <1>1, <1>4, JobMoves
  <2> QED
    BY <1>1, <1>4, <2>1, NoVerdict DEF OrchestratorInv, OrchestratorTypeOK
<1>5. ASSUME NEW x \in Name, box' \in {box, Without(x)}
      PROVE  box' \in [Name -> Box]
  BY <1>1, <1>5, RemoveBox
<1>6. ASSUME RollbackFails, job.pc # "idle"
      PROVE  OrchestratorInv'
  <2>1. /\ job' \in Job /\ job'.pc = "discard" /\ job'.rolled = "failed"
        /\ job'.n = job.n /\ job'.status = job.status
    BY <1>1, <1>6 DEF RollbackFails, Job, OrchestratorPC
  <2> QED
    BY <1>1, <1>2, <1>6, <2>1 DEF RollbackFails, OrchestratorInv, OrchestratorTypeOK,
       OrchestratorSafe, Begun, OldKept, NewServes, OldRestored
<1>7. CASE Fail
  BY <1>1, <1>3, <1>5, <1>7 DEF Fail, Stage, JobAt
<1>8. CASE FailOld
  <2>1. job.pc = "failOld" /\ JobTo("rollback") /\ UNCHANGED <<images, tagged, cancelled>>
    BY <1>8 DEF FailOld, RemoveOld, JobAt
  <2>2. box' \in [Name -> Box]
    <3>1. CASE box' \in {box, Without(job.n)}
      BY <1>1, <1>5, <3>1
    <3>2. CASE Exists(job.n) /\ box' = [box EXCEPT ![job.n].state = "exited"]
      BY <1>1, <3>2, ChangeBox
    <3> QED
      BY <1>8, <3>1, <3>2 DEF FailOld, RemoveOld
  <2> QED
    BY <1>3, <2>1, <2>2
<1>9. CASE Rollback
  <2>1. job.pc = "rollback"
    BY <1>9 DEF Rollback, Stage, JobAt
  <2>2. CASE job.snap = Nothing
    <3>1. JobTo("discard") /\ UNCHANGED <<box, images, tagged, cancelled>>
      BY <1>9, <2>2 DEF Rollback
    <3>2. /\ job' \in Job /\ job'.pc = "discard" /\ job'.snap = Nothing
          /\ job'.n = job.n /\ job'.status = job.status
      BY <1>1, <2>2, <3>1, JobMoves DEF OrchestratorPC
    <3> QED
      BY <1>1, <1>2, <2>1, <3>1, <3>2 DEF OrchestratorInv, OrchestratorTypeOK,
         OrchestratorSafe, Begun, OldKept, NewServes, OldRestored
  <2>3. CASE /\ job.snap # Nothing /\ box' = Without(Main) /\ JobTo("recreate")
             /\ UNCHANGED <<images, tagged, cancelled>>
    <3>1. /\ job' \in Job /\ job'.pc = "recreate" /\ job'.snap = job.snap
          /\ job'.n = job.n /\ job'.status = job.status
      BY <1>1, <2>3, JobMoves DEF OrchestratorPC
    <3>2. box' \in [Name -> Box]
      BY <1>1, <1>5, <2>3
    <3> QED
      BY <1>1, <1>2, <2>1, <2>3, <3>1, <3>2 DEF OrchestratorInv, OrchestratorTypeOK,
         OrchestratorSafe, Begun, OldKept, NewServes, OldRestored
  <2> QED
    BY <1>6, <1>9, <2>1, <2>2, <2>3 DEF Rollback
<1>10. CASE Recreate
  <2>1. job.pc = "recreate"
    BY <1>10 DEF Recreate, JobAt
  <2>2. CASE /\ job.snap \in images /\ box' = With(Main, job.snap, "created")
             /\ JobTo("restart") /\ UNCHANGED <<images, tagged, cancelled>>
    <3>1. /\ job' \in Job /\ job'.pc = "restart" /\ job'.snap = job.snap
          /\ job'.n = job.n /\ job'.status = job.status
      BY <1>1, <2>2, JobMoves DEF OrchestratorPC
    <3>2. job.snap \in ImageId
      BY <1>1, <2>2
    <3>3. box' \in [Name -> Box] /\ box'[Main].image = job.snap
      BY <1>1, <2>2, <3>2, CreateBox
    <3> QED
      BY <1>1, <1>2, <2>1, <2>2, <3>1, <3>3 DEF OrchestratorInv, OrchestratorTypeOK,
         OrchestratorSafe, Begun, OldKept, NewServes, OldRestored
  <2> QED
    BY <1>6, <1>10, <2>1, <2>2 DEF Recreate
<1>11. job.pc = "restart" => box[Main].image = job.snap /\ job.snap # Nothing /\ Exists(Main)
  BY <1>1, BoxTyping DEF OrchestratorSafe, OldRestored, Exists
<1>12. CASE Restart
  <2>1. job.pc = "restart"
    BY <1>12 DEF Restart, JobAt
  <2>2. CASE /\ box' = [box EXCEPT ![Main].state = "running"]
             /\ job' = [job EXCEPT !.rolled = "performed", !.pc = "discard"]
             /\ UNCHANGED <<images, tagged, cancelled>>
    <3>1. /\ job' \in Job /\ job'.pc = "discard" /\ job'.snap = job.snap
          /\ job'.n = job.n /\ job'.status = job.status
      BY <1>1, <2>2 DEF Job, OrchestratorPC
    <3>2. /\ box' \in [Name -> Box] /\ box'[Main].image = job.snap
          /\ box'[Main].state = "running"
      BY <1>1, <1>11, <2>1, <2>2, ChangeBox
    <3> QED
      BY <1>1, <1>2, <2>1, <2>2, <3>1, <3>2 DEF OrchestratorInv, OrchestratorTypeOK,
         OrchestratorSafe, Begun, OldKept, NewServes, OldRestored
  <2> QED
    BY <1>6, <1>12, <2>1, <2>2 DEF Restart
<1>13. CASE Discard
  <2>1. /\ job.pc = "discard" /\ JobTo("failed") /\ UNCHANGED <<box, cancelled>>
        /\ images' \subseteq ImageId /\ tagged' \in [Tag -> ImageId \cup {Nothing}]
    BY <1>1, <1>13, RemovedImageTyping DEF Discard, JobAt
  <2>2. /\ job' \in Job /\ job'.pc = "failed" /\ job'.snap = job.snap
        /\ job'.n = job.n /\ job'.status = job.status /\ job'.rolled = job.rolled
    BY <1>1, <2>1, JobMoves DEF OrchestratorPC
  <2> QED
    BY <1>1, <1>2, <2>1, <2>2 DEF OrchestratorInv, OrchestratorTypeOK,
       OrchestratorSafe, Begun, OldKept, NewServes, OldRestored
<1>14. CASE Failed
  <2>1. job.pc = "failed" /\ images' \subseteq ImageId /\ UNCHANGED <<box, tagged, cancelled>>
    BY <1>1, <1>14 DEF Failed, Stage, JobAt, Pruned
  <2>2. /\ job' \in Job /\ job'.pc = "idle" /\ job'.snap = job.snap
        /\ job'.n = job.n /\ job'.status = "failed" /\ job'.rolled = job.rolled
    BY <1>1, <1>14, JobMoves DEF Failed
  <2> QED
    BY <1>1, <1>2, <2>1, <2>2 DEF OrchestratorInv, OrchestratorTypeOK,
       OrchestratorSafe, Begun, OldKept, NewServes, OldRestored
<1>15. CASE Cancel
  <2>1. job.pc # "idle" /\ UNCHANGED <<box, images, tagged, cancelled>>
    BY <1>15 DEF Cancel, JobAt
  <2>2. job' \in Job /\ job'.pc = "cancel" /\ job'.n = job.n /\ job'.status = job.status
    BY ZenonT(30), <1>1, <1>15 DEF Cancel, JobAt, Job, OrchestratorPC
  <2> QED
    BY <1>1, <1>2, <2>1, <2>2, NothingClaimed DEF OrchestratorInv, OrchestratorTypeOK
<1>16. CASE CancelNew
  <2>1. /\ job.pc = "cancel" /\ UNCHANGED <<images, tagged, cancelled>>
        /\ box' \in {box, Without(Main)}
        /\ JobTo("cancelOld") \/ JobTo("cancelRollback") \/ Return("raised")
    BY <1>16 DEF CancelNew, JobAt
  <2> QED
    BY <1>1, <1>3, <1>4, <1>5, <2>1
<1>17. CASE CancelOld
  <2>1. /\ job.pc = "cancelOld" /\ UNCHANGED <<images, tagged, cancelled>>
        /\ box' \in {box, Without(job.n)}
        /\ JobTo("cancelRollback") \/ Return("raised")
    BY <1>17 DEF CancelOld, JobAt
  <2> QED
    BY <1>1, <1>3, <1>4, <1>5, <2>1
<1>18. CASE CancelDone
  BY <1>1, <1>4, <1>18, RemovedImageTyping DEF CancelDone
<1>19. CASE Escape
  <2>1. Return("raised") /\ UNCHANGED <<images, tagged, cancelled>>
    BY <1>19 DEF Escape
  <2>2. box' \in [Name -> Box]
    <3>1. CASE box' \in {box, Without(job.n)}
      BY <1>1, <1>5, <3>1
    <3>2. CASE JobAt("restart") /\ box' = [box EXCEPT ![Main].state = "running"]
      BY <1>1, <1>11, <3>2, ChangeBox DEF JobAt
    <3> QED
      BY <1>19, <3>1, <3>2 DEF Escape
  <2> QED
    BY <1>1, <1>4, <2>1, <2>2
<1> QED
  BY <1>7, <1>8, <1>9, <1>10, <1>12, <1>13, <1>14, <1>15, <1>16, <1>17, <1>18, <1>19 DEF Handlers

\* What happens around the orchestrator: requests, other services, the death of the
\* worker and of containers.
LEMMA SurroundingSteps ==
    ASSUME OrchestratorInv,
           \/ \E t \in Tag : StartDeployment(t)
           \/ RequestCancel \/ Killed \/ (\E x \in Name : ProcessEnds(x))
           \/ PruneElsewhere \/ StopService
    PROVE  OrchestratorInv'
<1>1. /\ OrchestratorTypeOK /\ OrchestratorSafe /\ job \in Job /\ job.n \in Name /\ Main \in Name
      /\ images \subseteq ImageId /\ tagged \in [Tag -> ImageId \cup {Nothing}]
      /\ cancelled \in BOOLEAN /\ box \in [Name -> Box]
  BY BoxTyping DEF OrchestratorInv, OrchestratorTypeOK
<1>2. ASSUME NEW t \in Tag, StartDeployment(t)
      PROVE  OrchestratorInv'
  <2>1. job.n + 1 \in 0..MaxDeploys /\ job.n + 1 # Main
    <3>1. job.n \in 0..MaxDeploys /\ job.n < MaxDeploys
      BY <1>1, <1>2 DEF StartDeployment, Name
    <3> QED
      BY <3>1, OrchestratorAssumption DEF Main
  <2>2. 0 \in 0..MinPolls
    BY OrchestratorAssumption
  <2>3. job' = [job EXCEPT !.pc = "prepare", !.n = job.n + 1, !.tag = t, !.snap = Nothing,
                           !.image = Nothing, !.built = FALSE, !.started = FALSE,
                           !.renamed = FALSE, !.polls = 0, !.rolled = "no",
                           !.status = "none"]
    BY <1>2 DEF StartDeployment
  <2>4. job' \in Job /\ job'.pc = "prepare" /\ job'.n # Main /\ job'.status = "none"
    BY <1>1, <2>1, <2>2, <2>3 DEF Job, OrchestratorPC
  <2> QED
    BY <1>1, <1>2, <2>4, NothingClaimed DEF StartDeployment, OrchestratorInv, OrchestratorTypeOK
<1>3. CASE RequestCancel
  BY <1>1, <1>3 DEF RequestCancel, OrchestratorInv, OrchestratorTypeOK, OrchestratorSafe, Begun,
                    OldKept, NewServes, OldRestored
<1>4. CASE Killed
  <2>1. job' \in Job /\ job'.pc = "idle" /\ job'.status = "none"
    BY <1>1, <1>4, JobMoves DEF Killed
  <2> QED
    BY <1>1, <1>4, <2>1, NoVerdict DEF Killed, OrchestratorInv, OrchestratorTypeOK
<1>5. ASSUME NEW x \in Name, ProcessEnds(x)
      PROVE  OrchestratorInv'
  <2>1. /\ box' = [box EXCEPT ![x].state = "exited"] /\ Exists(x)
        /\ UNCHANGED <<images, tagged, cancelled, job>>
    BY <1>1, <1>5, BoxTyping DEF ProcessEnds, Exists
  <2>2. /\ box' \in [Name -> Box]
        /\ \A y \in Name : /\ box'[y].image = box[y].image
                           /\ box[y].state # "created" => box'[y].state # "created"
    BY <1>1, <2>1, ChangeBox
  <2> QED
    BY <1>1, <2>1, <2>2 DEF OrchestratorInv, OrchestratorTypeOK, OrchestratorSafe, Begun,
       OldKept, NewServes, OldRestored
<1>6. CASE PruneElsewhere
  BY <1>1, <1>6 DEF PruneElsewhere, Pruned, OrchestratorInv, OrchestratorTypeOK,
     OrchestratorSafe, Begun, OldKept, NewServes, OldRestored
<1>7. CASE StopService
  <2>1. job' \in Job /\ job'.pc = "idle" /\ job'.status = "none"
    BY <1>1, <1>7 DEF StopService, JobAt, Job
  <2>2. box' \in [Name -> Box] /\ UNCHANGED <<images, tagged, cancelled>>
    BY <1>1, <1>7, RemoveBox DEF StopService
  <2> QED
    BY <1>1, <2>1, <2>2, NoVerdict DEF OrchestratorInv, OrchestratorTypeOK
<1> QED
  BY <1>2, <1>3, <1>4, <1>5, <1>6, <1>7

-----------------------------------------------------------------------------
(* The theorems. *)

\* The invariant holds in every reachable state.
THEOREM OrchestratorInvariant == OrchestratorSpec => []OrchestratorInv
<1>1. OrchestratorInit => OrchestratorInv
  <2> SUFFICES ASSUME OrchestratorInit PROVE OrchestratorInv
    OBVIOUS
  <2>1. PICK t \in Tag, serving \in BOOLEAN :
          /\ box = [x \in Name |-> IF serving /\ x = Main
                                   THEN [image |-> 0, state |-> "running"] ELSE NoBox]
          /\ images = IF serving THEN {0} ELSE {}
          /\ tagged = [u \in Tag |-> IF serving /\ u = t THEN 0 ELSE Nothing]
          /\ cancelled = FALSE
          /\ job = [pc |-> "idle", n |-> 0, tag |-> t, snap |-> Nothing,
                    image |-> Nothing, built |-> FALSE, started |-> FALSE,
                    renamed |-> FALSE, polls |-> 0, rolled |-> "no", status |-> "none"]
    BY DEF OrchestratorInit
  <2>2. 0 \in ImageId /\ 0 \in 0..MaxDeploys /\ 0 \in 0..MinPolls
    BY OrchestratorAssumption DEF ImageId
  <2>3. job \in Job /\ job.pc = "idle" /\ job.status = "none"
    BY <2>1, <2>2 DEF Job, OrchestratorPC
  <2>4. box \in [Name -> Box]
    BY <2>1, <2>2 DEF Box
  <2>5. OrchestratorTypeOK
    BY <2>1, <2>2, <2>3, <2>4 DEF OrchestratorTypeOK
  <2> QED
    BY <2>3, <2>5 DEF OrchestratorInv, OrchestratorSafe, Begun, OldKept, NewServes, OldRestored
<1>2. OrchestratorInv /\ [OrchestratorNext]_orchestratorVars => OrchestratorInv'
  <2>1. OrchestratorInv /\ OrchestratorNext => OrchestratorInv'
    BY PipelineSteps, HandlerSteps, SurroundingSteps DEF OrchestratorNext
  <2>2. OrchestratorInv /\ UNCHANGED orchestratorVars => OrchestratorInv'
    BY DEF orchestratorVars, OrchestratorInv, OrchestratorTypeOK, OrchestratorSafe, Begun,
           OldKept, NewServes, OldRestored
  <2> QED
    BY <2>1, <2>2
<1> QED
  BY <1>1, <1>2, PTL DEF OrchestratorSpec

\* A deployment gives up the container it found only when the new one is healthy.
THEOREM OldKeptUntilHealthy == OrchestratorSpec => []OldUntilHealthy
<1>1. OrchestratorInv => OldUntilHealthy
  BY DEF OrchestratorInv, OrchestratorSafe, OldKept, OldUntilHealthy
<1> QED
  BY <1>1, OrchestratorInvariant, PTL

\* After a success the service's name is borne by the image that was deployed.
THEOREM DeploymentServes == OrchestratorSpec => []SuccessServes
<1>1. OrchestratorInv => SuccessServes
  BY DEF OrchestratorInv, OrchestratorSafe, NewServes, SuccessServes
<1> QED
  BY <1>1, OrchestratorInvariant, PTL

\* After a failure it is borne by the image that was found, or the failure of the
\* rollback is reported.
THEOREM FailuresAccounted == OrchestratorSpec => []FailureAccounted
<1>1. OrchestratorInv => FailureAccounted
  BY DEF OrchestratorInv, OrchestratorSafe, OldRestored, FailureAccounted
<1> QED
  BY <1>1, OrchestratorInvariant, PTL

-----------------------------------------------------------------------------
(* Database deployments. *)

\* What makes the claim idempotent: the rows of a service that waits for its task
\* carry no claim yet. Every write of "queued" starts the count anew, and a claim
\* takes the service out of it.
DbUnclaimed == db.claims <= 1 /\ (db.service = "queued" => db.claims = 0)

\* Only the holder of the advisory lock is between its acquisition and its verdict.
DbHeld == \A w \in DbWorker : dbWorker[w].pc \in DbStage \cup {"succeed"} => dbHolder = w

DbInv == DbTypeOK /\ DbUnclaimed /\ DbHeld

-----------------------------------------------------------------------------
(* How a task moves. *)

\* A task's record keeps its type when its program counter moves, and the other
\* tasks stay where they are.
LEMMA DbGotoTyping ==
    ASSUME DbTypeOK, NEW w \in DbWorker, NEW pc \in DbPC, DbGoto(w, pc)
    PROVE  /\ dbWorker' \in [DbWorker -> [pc : DbPC, id : 1..MaxQueueings, force : BOOLEAN,
                                          tries : 0..MaxDbRetries, cancel : BOOLEAN]]
           /\ dbWorker'[w].pc = pc
           /\ \A v \in DbWorker : v # w => dbWorker'[v] = dbWorker[v]
BY DEF DbTypeOK, DbGoto

\* A task that raises is idle again, its message published once more, or on its way
\* to the verdict of a failure; it holds no lock.
LEMMA DbRaisesTyping ==
    ASSUME DbInv, NEW w \in DbWorker, DbRaises(w)
    PROVE  DbInv'
<1>1. dbWorker[w] \in [pc : DbPC, id : 1..MaxQueueings, force : BOOLEAN,
                       tries : 0..MaxDbRetries, cancel : BOOLEAN]
  BY DEF DbInv, DbTypeOK
<1>2. CASE /\ DbMayRetry(w)
           /\ dbQueue' = dbQueue \cup {[id |-> dbWorker[w].id, force |-> dbWorker[w].force,
                                        tries |-> dbWorker[w].tries + 1]}
           /\ DbGoto(w, "idle")
  <2>1. dbWorker[w].tries + 1 \in 0..MaxDbRetries
    BY <1>1, <1>2, DbAssumption DEF DbMayRetry
  <2>2. dbQueue' \subseteq DbMessage
    BY <1>1, <1>2, <2>1 DEF DbInv, DbTypeOK, DbMessage
  <2>3. DbTypeOK'
    BY <2>2, <1>2, DbGotoTyping, DbAssumption DEF DbInv, DbTypeOK, DbRaises, DbRelease, DbPC
  <2>4. DbHeld'
    BY <1>2, DbGotoTyping, DbAssumption DEF DbInv, DbHeld, DbRaises, DbRelease, DbPC, DbStage
  <2> QED
    BY <2>3, <2>4 DEF DbInv, DbUnclaimed, DbRaises
<1>3. CASE DbGoto(w, "fail") /\ UNCHANGED dbQueue
  <2>1. DbTypeOK'
    BY <1>3, DbGotoTyping, DbAssumption DEF DbInv, DbTypeOK, DbRaises, DbRelease, DbPC
  <2>2. DbHeld'
    BY <1>3, DbGotoTyping, DbAssumption DEF DbInv, DbHeld, DbRaises, DbRelease, DbPC, DbStage
  <2> QED
    BY <2>1, <2>2 DEF DbInv, DbUnclaimed, DbRaises
<1> QED
  BY <1>2, <1>3 DEF DbRaises

\* A stage of a task that holds the lock ends in the next one.
LEMMA DbStepTyping ==
    ASSUME DbInv, NEW w \in DbWorker, NEW pc \in DbStage, NEW next \in DbStage \cup {"succeed"},
           DbStep(w, pc, next), dbBox' \in DbContainer,
           dbData' \in {"empty", "initialised", "reconciled"}
    PROVE  DbInv'
<1>1. next \in DbPC
  BY DEF DbPC
<1>2. DbTypeOK'
  BY <1>1, DbGotoTyping DEF DbInv, DbTypeOK, DbStep
<1>3. DbHeld'
  BY <1>1, DbGotoTyping DEF DbInv, DbHeld, DbStep, DbAt
<1> QED
  BY <1>2, <1>3 DEF DbInv, DbUnclaimed, DbStep

\* A task keeps the invariant, whichever step it takes.
LEMMA DbTaskInductive ==
    ASSUME DbInv, NEW w \in DbWorker, DbTask(w)
    PROVE  DbInv'
<1> DEFINE record == [pc : DbPC, id : 1..MaxQueueings, force : BOOLEAN,
                      tries : 0..MaxDbRetries, cancel : BOOLEAN]
<1>1. dbWorker \in [DbWorker -> record] /\ dbWorker[w] \in record
  BY DEF DbInv, DbTypeOK
<1>2. ASSUME NEW m \in dbQueue, DbLock(w, m)
      PROVE  DbInv'
  <2> DEFINE claimed == [pc |-> "checks", id |-> m.id, force |-> m.force,
                         tries |-> m.tries, cancel |-> db.cancel]
  <2>1. m \in DbMessage /\ db \in DbRows /\ db.claims = 0
    BY <1>2 DEF DbInv, DbTypeOK, DbLock, DbUnclaimed
  <2>2. claimed \in record
    BY <2>1 DEF DbMessage, DbRows, DbPC
  <2>3. db' \in DbRows /\ db'.claims = 1 /\ db'.service = "deploying"
    <3>1. db' = [db EXCEPT !.service = "deploying", !.deploy = "running", !.claims = 1]
      BY <1>2, <2>1 DEF DbLock, DbClaimed
    <3>2. 1 \in 0..2
      OBVIOUS
    <3>3. db' \in DbRows
      BY <2>1, <3>1, <3>2 DEF DbRows
    <3> QED
      BY <2>1, <3>1, <3>3 DEF DbRows
  <2>4. DbTypeOK'
    BY <1>1, <1>2, <2>2, <2>3 DEF DbInv, DbTypeOK, DbLock, DbDeliver, DbClaimed
  <2>5. DbHeld'
    BY <1>1, <1>2 DEF DbInv, DbHeld, DbLock, DbDeliver, DbClaimed, DbStage
  <2> QED
    BY <2>3, <2>4, <2>5 DEF DbInv, DbUnclaimed
<1>3. ASSUME NEW m \in dbQueue, DbRefuse(w, m)
      PROVE  DbInv'
  BY <1>3 DEF DbInv, DbTypeOK, DbUnclaimed, DbHeld, DbRefuse, DbDeliver
<1>4. CASE DbChecks(w)
  <2>1. /\ db' \in DbRows /\ db'.claims = db.claims
        /\ db'.service \in {db.service, "stopped"}
    BY <1>4 DEF DbChecks, DbInv, DbTypeOK, DbRows
  <2>2. PICK pc \in {"fail", "idle", "config"} : DbGoto(w, pc)
    BY <1>4 DEF DbChecks
  <2>3. DbTypeOK'
    BY <1>4, <2>1, <2>2, DbGotoTyping DEF DbInv, DbTypeOK, DbChecks, DbPC
  <2>4. DbHeld'
    BY <1>4, <2>2, DbGotoTyping DEF DbInv, DbHeld, DbChecks, DbPC, DbStage
  <2> QED
    BY <2>1, <2>3, <2>4 DEF DbInv, DbUnclaimed
<1>5. CASE DbConfig(w) \/ DbValidate(w)
  <2>1. PICK pc \in {"validate", "lock", "fail"} : DbGoto(w, pc)
    BY <1>5 DEF DbConfig, DbValidate
  <2>2. UNCHANGED <<db, dbBox, dbData, dbQueue, dbHolder>>
    BY <1>5 DEF DbConfig, DbValidate
  <2>3. DbTypeOK'
    BY <2>1, <2>2, DbGotoTyping DEF DbInv, DbTypeOK, DbPC
  <2>4. DbHeld'
    BY <2>1, <2>2, DbGotoTyping DEF DbInv, DbHeld, DbPC, DbStage
  <2> QED
    BY <2>2, <2>3, <2>4 DEF DbInv, DbUnclaimed
<1>6. CASE DbAcquire(w)
  <2>1. CASE dbHolder = NoDbWorker
    <3>1. \A v \in DbWorker : dbWorker[v].pc \notin DbStage \cup {"succeed"}
      BY <2>1, DbAssumption DEF DbInv, DbHeld
    <3>2. /\ dbHolder' = w /\ DbGoto(w, "prepare")
          /\ UNCHANGED <<db, dbBox, dbData, dbQueue>>
      BY <1>6, <2>1 DEF DbAcquire
    <3>3. DbTypeOK'
      BY <3>2, DbGotoTyping DEF DbInv, DbTypeOK, DbPC, DbStage
    <3>4. DbHeld'
      BY <3>1, <3>2, DbGotoTyping DEF DbInv, DbHeld, DbPC, DbStage
    <3> QED
      BY <3>2, <3>3, <3>4 DEF DbInv, DbUnclaimed
  <2>2. CASE dbHolder # NoDbWorker
    BY <1>6, <2>2, DbRaisesTyping DEF DbAcquire
  <2> QED
    BY <2>1, <2>2
<1>7. CASE DbPrepare(w) \/ DbEnvironment(w) \/ DbNetworks(w) \/ DbVolumes(w) \/ DbHost(w)
  BY <1>7, DbStepTyping DEF DbPrepare, DbEnvironment, DbNetworks, DbVolumes, DbHost, DbStage,
                            DbInv, DbTypeOK
<1>8. CASE DbRemove(w) \/ DbWipe(w)
  <2>1. dbBox' \in DbContainer /\ dbData' \in {"empty", "initialised", "reconciled"}
    <3>1. dbBox' \in {dbBox, DbAbsent} /\ dbData' \in {"empty", dbData}
      BY <1>8 DEF DbRemove, DbWipe
    <3>2. dbBox \in DbContainer /\ dbData \in {"empty", "initialised", "reconciled"}
      BY DEF DbInv, DbTypeOK
    <3>3. DbAbsent \in DbContainer
      BY DEF DbAbsent, DbContainer
    <3> QED
      BY <3>1, <3>2, <3>3
  <2>2. \E pc, next \in {"remove", "wipe", "host"} : DbStep(w, pc, next)
    BY <1>8 DEF DbRemove, DbWipe
  <2> QED
    BY <2>1, <2>2, DbStepTyping DEF DbStage
<1>9. CASE DbCreate(w) \/ DbStart(w)
  <2>1. dbBox' \in DbContainer /\ dbData' \in {"empty", "initialised", "reconciled"}
    BY <1>9 DEF DbCreate, DbStart, DbInv, DbTypeOK, DbContainer, DbAbsent
  <2>2. \E pc, next \in {"create", "start", "ready"} : DbStep(w, pc, next)
    BY <1>9 DEF DbCreate, DbStart
  <2> QED
    BY <2>1, <2>2, DbStepTyping DEF DbStage
<1>10. CASE \/ DbReady(w) \/ DbRunning(w) \/ DbRootAccount(w) \/ DbUserAccount(w)
            \/ DbVerify(w)
  <2>1. dbBox' \in DbContainer /\ dbData' \in {"empty", "initialised", "reconciled"}
    BY <1>10 DEF DbReady, DbRunning, DbRootAccount, DbUserAccount, DbVerify, DbInv, DbTypeOK
  <2>2. \/ DbStep(w, "ready", "root") \/ DbStep(w, "ready", "succeed")
        \/ DbStep(w, "root", "user") \/ DbStep(w, "user", "verify")
        \/ DbStep(w, "verify", "succeed")
    BY <1>10 DEF DbReady, DbRunning, DbRootAccount, DbUserAccount, DbVerify
  <2> QED
    BY <2>1, <2>2, DbStepTyping DEF DbStage
<1>11. CASE DbStageFails(w) \/ DbDies(w)
  <2>1. PICK pc \in {"fail", "idle"} : DbGoto(w, pc)
    BY <1>11 DEF DbStageFails, DbDies
  <2>2. DbRelease(w) /\ UNCHANGED <<db, dbBox, dbData, dbQueue>>
    BY <1>11 DEF DbStageFails, DbDies
  <2>3. DbTypeOK'
    BY <2>1, <2>2, DbGotoTyping DEF DbInv, DbTypeOK, DbPC, DbRelease
  <2>4. DbHeld'
    BY <2>1, <2>2, DbGotoTyping DEF DbInv, DbHeld, DbPC, DbStage, DbRelease
  <2> QED
    BY <2>2, <2>3, <2>4 DEF DbInv, DbUnclaimed
<1>12. CASE DbStageRaises(w)
  BY <1>12, DbRaisesTyping DEF DbStageRaises
<1>13. CASE DbSucceed(w) \/ DbFail(w)
  <2>1. /\ DbGoto(w, "idle") /\ dbHolder' \in {dbHolder, NoDbWorker}
        /\ dbHolder' # dbHolder => dbHolder = w
        /\ UNCHANGED <<dbBox, dbData, dbQueue>>
    BY <1>13 DEF DbSucceed, DbFail, DbRelease
  <2>2. /\ db' \in DbRows /\ db'.claims = db.claims
        /\ db'.service # "queued"
    BY <1>13 DEF DbSucceed, DbFail, DbVerdict, DbInv, DbTypeOK, DbRows
  <2>3. DbTypeOK'
    BY <2>1, <2>2, DbGotoTyping DEF DbInv, DbTypeOK, DbPC
  <2>4. DbHeld'
    BY <2>1, DbGotoTyping DEF DbInv, DbHeld, DbPC, DbStage
  <2> QED
    BY <2>2, <2>3, <2>4 DEF DbInv, DbUnclaimed
<1> QED
  BY <1>2, <1>3, <1>4, <1>5, <1>6, <1>7, <1>8, <1>9, <1>10, <1>11, <1>12, <1>13 DEF DbTask

-----------------------------------------------------------------------------
(* The theorems. *)

\* The initial state satisfies the invariant.
LEMMA DbInvInitially == DbInit => DbInv
<1> SUFFICES ASSUME DbInit PROVE DbInv
  OBVIOUS
<1>1. DbIdle \in [pc : DbPC, id : 1..MaxQueueings, force : BOOLEAN,
                  tries : 0..MaxDbRetries, cancel : BOOLEAN]
  BY DbAssumption DEF DbIdle, DbPC
<1>2. DbTypeOK
  BY <1>1, DbAssumption DEF DbInit, DbTypeOK, DbRows, DbContainer, DbAbsent
<1>3. DbUnclaimed /\ DbHeld
  BY DEF DbInit, DbUnclaimed, DbHeld, DbIdle, DbStage
<1> QED
  BY <1>2, <1>3 DEF DbInv

\* Every step keeps it: the requests and the monitor write the rows alone or with
\* the container, and only a request queues the service.
LEMMA DbInvInductive == DbInv /\ [DbNext]_dbVars => DbInv'
<1> SUFFICES ASSUME DbInv, [DbNext]_dbVars PROVE DbInv'
  OBVIOUS
<1>1. db \in DbRows /\ dbBox \in DbContainer /\ DbAbsent \in DbContainer
  BY DEF DbInv, DbTypeOK, DbAbsent, DbContainer
<1>2. ASSUME NEW rebuild \in BOOLEAN, NEW force \in BOOLEAN, DbRequest(rebuild, force)
      PROVE  DbInv'
  <2>1. db.queued + 1 \in 1..MaxQueueings /\ db.queued + 1 \in 0..MaxQueueings
    BY <1>1, <1>2, DbAssumption DEF DbRequest, DbRows
  <2>2. 0 \in 0..2 /\ 0 \in 0..MaxDbRetries
    BY DbAssumption
  <2>3. db' = [db EXCEPT !.service = "queued", !.deploy = "pending", !.cancel = FALSE,
                         !.queued = db.queued + 1, !.claims = 0]
    BY <1>2 DEF DbRequest
  <2>4. db' \in DbRows /\ db'.claims = 0
    BY <1>1, <2>1, <2>2, <2>3 DEF DbRows
  <2>5. dbBox' \in DbContainer
    BY <1>1, <1>2 DEF DbRequest
  <2>6. dbQueue' \subseteq DbMessage
    <3>1. [id |-> db.queued + 1, force |-> force, tries |-> 0] \in DbMessage
      BY <2>1, <2>2 DEF DbMessage
    <3> QED
      BY <3>1, <1>2 DEF DbRequest, DbInv, DbTypeOK
  <2> QED
    BY <1>2, <2>4, <2>5, <2>6 DEF DbRequest, DbInv, DbTypeOK, DbUnclaimed, DbHeld
<1>3. ASSUME DbCancel \/ DbForceCancel \/ DbStop \/ DbStopped \/ DbTimeOut
      PROVE  DbInv'
  <2>1. /\ db' \in DbRows /\ db'.claims = db.claims
        /\ db'.service \in {db.service, "stopped", "stopping", "failed"}
    BY <1>1, <1>3 DEF DbCancel, DbForceCancel, DbStop, DbStopped, DbTimeOut, DbRows
  <2>2. dbBox' \in {dbBox, DbAbsent} /\ dbQueue' \subseteq dbQueue
    BY <1>3 DEF DbCancel, DbForceCancel, DbStop, DbStopped, DbTimeOut
  <2>3. UNCHANGED <<dbData, dbHolder, dbWorker>>
    BY <1>3 DEF DbCancel, DbForceCancel, DbStop, DbStopped, DbTimeOut
  <2> QED
    BY <1>1, <2>1, <2>2, <2>3 DEF DbInv, DbTypeOK, DbUnclaimed, DbHeld
<1>4. ASSUME NEW w \in DbWorker, DbTask(w)
      PROVE  DbInv'
  BY <1>4, DbTaskInductive
<1>5. CASE DbInitialises
  <2>1. dbBox' \in DbContainer
    BY <1>1, <1>5 DEF DbInitialises, DbContainer
  <2> QED
    BY <1>5, <2>1 DEF DbInitialises, DbInv, DbTypeOK, DbUnclaimed, DbHeld
<1>6. CASE UNCHANGED dbVars
  BY <1>6 DEF dbVars, DbInv, DbTypeOK, DbUnclaimed, DbHeld
<1> QED
  BY <1>2, <1>3, <1>4, <1>5, <1>6 DEF DbNext

\* The invariant holds in every reachable state.
THEOREM DbInvariant == DbSpec => []DbInv
BY DbInvInitially, DbInvInductive, PTL DEF DbSpec

\* However many messages of run_db_deploy are delivered, delivered again or retried,
\* a queueing is claimed by at most one task, and a task that works on the container
\* or is about to write its success holds the service's advisory lock.
THEOREM DbTasksAlone == DbSpec => []DbAlone
<1>1. DbInv => DbAlone
  BY DEF DbInv, DbUnclaimed, DbHeld, DbAlone
<1> QED
  BY <1>1, DbInvariant, PTL

\* A service that is stopped is not taken back to life by a late verdict: the next
\* status it gets is that of a request.
THEOREM DbStoppedServiceStays == DbSpec => DbStoppedStays
<1>1. DbInv /\ [DbNext]_dbVars
        => (db.service = "stopped" => db'.service \in {"stopped", "queued", "stopping"})
           \/ UNCHANGED dbVars
  <2> SUFFICES ASSUME DbInv, DbNext, db.service = "stopped"
               PROVE  db'.service \in {"stopped", "queued", "stopping"}
    BY DEF dbVars
  <2>1. db \in DbRows
    BY DEF DbInv, DbTypeOK
  <2>2. CASE \E rebuild, force \in BOOLEAN : DbRequest(rebuild, force)
    BY <2>1, <2>2 DEF DbRequest, DbRows
  <2>3. CASE DbCancel \/ DbForceCancel \/ DbStop \/ DbStopped \/ DbTimeOut
    BY <2>1, <2>3 DEF DbCancel, DbForceCancel, DbStop, DbStopped, DbTimeOut, DbRows
  <2>4. ASSUME NEW w \in DbWorker, DbTask(w)
        PROVE  db'.service \in {"stopped", "queued", "stopping"}
    <3>1. CASE \E m \in dbQueue : DbLock(w, m) \/ DbRefuse(w, m)
      BY <3>1 DEF DbLock, DbRefuse
    <3>2. CASE DbChecks(w)
      BY <2>1, <3>2 DEF DbChecks, DbRows
    <3>3. CASE DbSucceed(w) \/ DbFail(w)
      BY <2>1, <3>3 DEF DbSucceed, DbFail, DbVerdict, DbRows
    <3>4. CASE \/ DbConfig(w) \/ DbValidate(w) \/ DbAcquire(w) \/ DbStageFails(w)
               \/ DbStageRaises(w) \/ DbDies(w)
      BY <3>4 DEF DbConfig, DbValidate, DbAcquire, DbRaises, DbStageFails, DbStageRaises, DbDies
    <3>5. CASE \/ DbPrepare(w) \/ DbEnvironment(w) \/ DbNetworks(w) \/ DbVolumes(w)
               \/ DbRemove(w) \/ DbWipe(w) \/ DbHost(w) \/ DbCreate(w) \/ DbStart(w)
               \/ DbReady(w) \/ DbRunning(w) \/ DbRootAccount(w) \/ DbUserAccount(w)
               \/ DbVerify(w)
      BY <3>5 DEF DbPrepare, DbEnvironment, DbNetworks, DbVolumes, DbRemove, DbWipe, DbHost,
                  DbCreate, DbStart, DbReady, DbRunning, DbRootAccount, DbUserAccount,
                  DbVerify, DbStep
    <3> QED
      BY <2>4, <3>1, <3>2, <3>3, <3>4, <3>5 DEF DbTask
  <2>5. CASE DbInitialises
    BY <2>5 DEF DbInitialises
  <2> QED
    BY <2>2, <2>3, <2>4, <2>5 DEF DbNext
<1> QED
  BY <1>1, DbInvariant, PTL DEF DbSpec, DbStoppedStays

=============================================================================
