------------------------------ MODULE DbDeploy ------------------------------
(***************************************************************************)
(* Database services: run_db_deploy and DBDeployer. The task claims the    *)
(* queued service under row locks, works on the container under the        *)
(* advisory lock, writes its verdict without looking at the rows again, or *)
(* publishes itself once more. There is no old container to go back to:    *)
(* it is removed before the new one is created, and only volumes stay.     *)
(***************************************************************************)
EXTENDS Naturals, FiniteSets

CONSTANTS
    DbWorker,        \* the worker processes
    NoDbWorker,      \* no process holds the advisory lock
    MaxQueueings,    \* bound on the starts and rebuilds of a behaviour
    MaxDbRetries     \* max_retries of run_db_deploy

ASSUME DbAssumption ==
    NoDbWorker \notin DbWorker /\ MaxQueueings \in Nat \ {0} /\ MaxDbRetries \in Nat

VARIABLES
    db,          \* the rows of the service and of its deploy
    dbBox,       \* the container
    dbData,      \* the data directory of the named volume
    dbQueue,     \* messages of run_db_deploy
    dbHolder,    \* the holder of the service's advisory lock
    dbWorker     \* what each worker process does

dbVars == <<db, dbBox, dbData, dbQueue, dbHolder, dbWorker>>

DbMessage == [id : 1..MaxQueueings, force : BOOLEAN, tries : 0..MaxDbRetries]

DbRows == [service : {"stopped", "queued", "deploying", "running", "stopping", "failed"},
           deploy : {"pending", "running", "succeeded", "failed", "cancelled"},
           cancel : BOOLEAN, queued : 0..MaxQueueings,
           claims : 0..2]       \* claims since the service was last queued

\* A container that ends is restarted (unless-stopped), so it keeps running here.
\* init: the image's entrypoint has logged the initialisation in this container.
DbContainer == [state : {"absent", "created", "running"}, init : BOOLEAN]

DbStage == {"prepare", "environment", "networks", "volumes", "remove", "wipe", "host",
            "create", "start", "ready", "root", "user", "verify"}
DbPC == {"idle", "checks", "config", "validate", "lock", "succeed", "fail"} \cup DbStage

DbIdle == [pc |-> "idle", id |-> 1, force |-> FALSE, tries |-> 0, cancel |-> FALSE]
DbAbsent == [state |-> "absent", init |-> FALSE]

DbTypeOK ==
    /\ db \in DbRows /\ dbBox \in DbContainer
    /\ dbData \in {"empty", "initialised", "reconciled"}
    /\ dbQueue \subseteq DbMessage /\ dbHolder \in DbWorker \cup {NoDbWorker}
    /\ dbWorker \in [DbWorker -> [pc : DbPC, id : 1..MaxQueueings, force : BOOLEAN,
                                  tries : 0..MaxDbRetries, cancel : BOOLEAN]]

DbInit ==
    /\ db = [service |-> "stopped", deploy |-> "pending", cancel |-> FALSE,
             queued |-> 0, claims |-> 0]
    /\ dbBox = DbAbsent /\ dbData = "empty" /\ dbQueue = {}
    /\ dbHolder = NoDbWorker
    /\ dbWorker = [w \in DbWorker |-> DbIdle]

-----------------------------------------------------------------------------
(* The requests: start, rebuild, cancel, force_cancel and stop.            *)

DbBusy == {"queued", "deploying", "stopping"}

\* Only a rebuild can ask for force_reinit; it removes the container first, and
\* a failure to do so is a warning.
DbRequest(rebuild, force) ==
    /\ db.service \notin DbBusy /\ db.queued < MaxQueueings /\ (force => rebuild)
    /\ db' = [db EXCEPT !.service = "queued", !.deploy = "pending", !.cancel = FALSE,
                        !.queued = @ + 1, !.claims = 0]
    /\ dbBox' \in IF rebuild THEN {DbAbsent, dbBox} ELSE {dbBox}
    /\ dbQueue' = dbQueue \cup {[id |-> db.queued + 1, force |-> force, tries |-> 0]}
    /\ UNCHANGED <<dbData, dbHolder, dbWorker>>

DbCancel ==
    /\ db.service \in {"queued", "deploying"} /\ ~db.cancel
    /\ db' = [db EXCEPT !.cancel = TRUE,
                        !.deploy = IF @ = "pending" THEN "cancelled" ELSE @]
    /\ UNCHANGED <<dbBox, dbData, dbQueue, dbHolder, dbWorker>>

\* Revokes the task, which no claimed task notices, and removes the container.
DbForceCancel ==
    /\ db.service \in {"queued", "deploying"}
    /\ db' = [db EXCEPT !.service = "stopped", !.deploy = "cancelled", !.cancel = TRUE]
    /\ dbBox' = DbAbsent
    /\ dbQueue' \in {dbQueue, {m \in dbQueue : m.id # db.queued}}
    /\ UNCHANGED <<dbData, dbHolder, dbWorker>>

\* The stop task, from its request to its end: claimed like the deployments.
DbStop ==
    /\ db.service \notin DbBusy
    /\ db' = [db EXCEPT !.service = "stopping"]
    /\ UNCHANGED <<dbBox, dbData, dbQueue, dbHolder, dbWorker>>

DbStopped ==
    /\ db.service = "stopping" /\ dbHolder = NoDbWorker
    /\ db' = [db EXCEPT !.service = "stopped"]
    /\ dbBox' = DbAbsent
    /\ UNCHANGED <<dbData, dbQueue, dbHolder, dbWorker>>

\* The monitor gives up on a deployment that takes too long.
DbTimeOut ==
    /\ db.service = "deploying"
    /\ db' = [db EXCEPT !.service = "failed", !.deploy = "failed"]
    /\ UNCHANGED <<dbBox, dbData, dbQueue, dbHolder, dbWorker>>

-----------------------------------------------------------------------------
(* The task. *)

DbGoto(w, pc) == dbWorker' = [dbWorker EXCEPT ![w].pc = pc]
DbAt(w, pc) == dbWorker[w].pc = pc
DbRelease(w) == dbHolder' = IF dbHolder = w THEN NoDbWorker ELSE dbHolder

\* The broker delivers m, and may deliver it again later.
DbDeliver(w, m) ==
    /\ m \in dbQueue /\ DbAt(w, "idle")
    /\ dbQueue' \in {dbQueue, dbQueue \ {m}}

DbClaimed(w, m) ==
    /\ db' = [db EXCEPT !.service = "deploying", !.deploy = "running", !.claims = @ + 1]
    /\ dbWorker' = [dbWorker EXCEPT ![w] =
           [pc |-> "checks", id |-> m.id, force |-> m.force, tries |-> m.tries,
            cancel |-> db.cancel]]
    /\ UNCHANGED <<dbBox, dbData, dbHolder>>

\* _lock_for_db_deploy: only a queued service, and a deploy that does not run.
DbLock(w, m) ==
    /\ DbDeliver(w, m)
    /\ db.service = "queued" /\ db.deploy # "running"
    /\ DbClaimed(w, m)

DbRefuse(w, m) ==
    /\ DbDeliver(w, m)
    /\ db.service # "queued" \/ db.deploy = "running"
    /\ UNCHANGED <<db, dbBox, dbData, dbHolder, dbWorker>>

\* Mutant: the rows are written whatever the service's status.
DbVerdictAlways(deploy, service) ==
    db' = [db EXCEPT !.deploy = deploy, !.service = service]

\* _mark_success and _mark_failure: never over a service that is stopped.
DbVerdict(deploy, service) ==
    db' = [db EXCEPT !.deploy = deploy,
                     !.service = IF @ = "stopped" THEN @ ELSE service]

\* The platform may have been edited since; a cancellation that came before the
\* claim ends the task here.
DbChecks(w) ==
    /\ DbAt(w, "checks")
    /\ \/ DbGoto(w, "fail") /\ UNCHANGED db
       \/ /\ dbWorker[w].cancel
          /\ db' = [db EXCEPT !.deploy = "failed", !.service = "stopped"]
          /\ DbGoto(w, "idle")
       \/ ~dbWorker[w].cancel /\ DbGoto(w, "config") /\ UNCHANGED db
    /\ UNCHANGED <<dbBox, dbData, dbQueue, dbHolder>>

\* Credentials, limits, networks and volumes, without a lock on any row; an exception
\* here ends the task as if it had died. The volumes are those of module Volumes.
DbConfig(w) ==
    /\ DbAt(w, "config") /\ DbGoto(w, "validate")
    /\ UNCHANGED <<db, dbBox, dbData, dbQueue, dbHolder>>

DbValidate(w) ==
    /\ DbAt(w, "validate")
    /\ DbGoto(w, "lock") \/ DbGoto(w, "fail")
    /\ UNCHANGED <<db, dbBox, dbData, dbQueue, dbHolder>>

\* Mutant: one retry too many.
DbMayRetryMore(w) == dbWorker[w].tries <= MaxDbRetries

DbMayRetry(w) == dbWorker[w].tries < MaxDbRetries

\* An exception that counts as transient publishes the task again.
DbRaises(w) ==
    /\ DbRelease(w)
    /\ \/ /\ DbMayRetry(w)
          /\ dbQueue' = dbQueue \cup {[id |-> dbWorker[w].id, force |-> dbWorker[w].force,
                                       tries |-> dbWorker[w].tries + 1]}
          /\ DbGoto(w, "idle")
       \/ DbGoto(w, "fail") /\ UNCHANGED dbQueue
    /\ UNCHANGED <<db, dbBox, dbData>>

\* Mutant: the lock of the task that still works is taken over.
DbAcquireForced(w) ==
    /\ DbAt(w, "lock")
    /\ dbHolder' = w /\ DbGoto(w, "prepare") /\ UNCHANGED <<db, dbBox, dbData, dbQueue>>

DbAcquire(w) ==
    /\ DbAt(w, "lock")
    /\ IF dbHolder = NoDbWorker
       THEN dbHolder' = w /\ DbGoto(w, "prepare") /\ UNCHANGED <<db, dbBox, dbData, dbQueue>>
       ELSE DbRaises(w)

\* Each stage goes on, reports a failure, or raises.
DbStep(w, pc, next) ==
    /\ DbAt(w, pc)
    /\ DbGoto(w, next)
    /\ UNCHANGED <<db, dbQueue, dbHolder>>

\* Validation, client and image.
DbPrepare(w) == DbStep(w, "prepare", "environment") /\ UNCHANGED <<dbBox, dbData>>

\* The builder of the platform refuses an empty password; the owner's own
\* variables cannot replace the protected ones.
DbEnvironment(w) == DbStep(w, "environment", "networks") /\ UNCHANGED <<dbBox, dbData>>

\* Ports; networks and named volumes are created if missing, or a warning is
\* logged; the name of a network or the source of a bind mount can be refused.
DbNetworks(w) == DbStep(w, "networks", "volumes") /\ UNCHANGED <<dbBox, dbData>>

DbVolumes(w) == DbStep(w, "volumes", "remove") /\ UNCHANGED <<dbBox, dbData>>

DbRemove(w) ==
    /\ DbStep(w, "remove", IF dbWorker[w].force THEN "wipe" ELSE "host")
    /\ dbBox' = DbAbsent /\ UNCHANGED dbData

\* Docker refuses to remove the volume of a container; that is a warning.
DbWipe(w) ==
    /\ DbStep(w, "wipe", "host")
    /\ dbData' \in IF dbBox.state = "absent" THEN {"empty", dbData} ELSE {dbData}
    /\ UNCHANGED dbBox

\* Limits and mounts; the daemon may know none of the combinations that are tried.
DbHost(w) == DbStep(w, "host", "create") /\ UNCHANGED <<dbBox, dbData>>

DbCreate(w) ==
    /\ dbBox.state = "absent"
    /\ DbStep(w, "create", "start")
    /\ dbBox' = [DbAbsent EXCEPT !.state = "created"] /\ UNCHANGED dbData

DbStart(w) ==
    /\ dbBox.state # "absent"
    /\ DbStep(w, "start", "ready")
    /\ dbBox' = [dbBox EXCEPT !.state = "running"] /\ UNCHANGED dbData

\* _mysql_wait_until_ready wants the log of an initialisation by this container,
\* and the final server; a container on a volume with data never logs one.
DbReady(w) ==
    /\ dbBox.state = "running" /\ dbBox.init
    /\ DbStep(w, "ready", "root") /\ UNCHANGED <<dbBox, dbData>>

\* The other platforms are ready when their container runs.
DbRunning(w) ==
    /\ dbBox.state = "running"
    /\ DbStep(w, "ready", "succeed") /\ UNCHANGED <<dbBox, dbData>>

\* A statement is executed in the running container, and answered by the server.
DbAnswers == dbBox.state = "running" /\ dbData # "empty"

\* _reconcile_mysql_credentials: the root account; the owner's user, his database
\* and grants; and then both are let in.
DbRootAccount(w) == DbAnswers /\ DbStep(w, "root", "user") /\ UNCHANGED <<dbBox, dbData>>

DbUserAccount(w) ==
    /\ DbAnswers /\ DbStep(w, "user", "verify")
    /\ dbData' = "reconciled" /\ UNCHANGED dbBox

DbVerify(w) ==
    /\ DbAnswers /\ dbData = "reconciled"
    /\ DbStep(w, "verify", "succeed") /\ UNCHANGED <<dbBox, dbData>>

DbStageFails(w) ==
    /\ dbWorker[w].pc \in DbStage
    /\ DbRelease(w) /\ DbGoto(w, "fail")
    /\ UNCHANGED <<db, dbBox, dbData, dbQueue>>

DbStageRaises(w) ==
    /\ dbWorker[w].pc \in DbStage
    /\ DbRaises(w)

\* The advisory lock is given back before the verdict is written.
DbSucceed(w) ==
    /\ DbAt(w, "succeed")
    /\ DbRelease(w) /\ DbGoto(w, "idle")
    /\ DbVerdict("succeeded", "running")
    /\ UNCHANGED <<dbBox, dbData, dbQueue>>

DbFail(w) ==
    /\ DbAt(w, "fail")
    /\ DbGoto(w, "idle") /\ DbVerdict("failed", "failed")
    /\ UNCHANGED <<dbBox, dbData, dbQueue, dbHolder>>

\* The process dies: its session ends and the lock with it.
DbDies(w) ==
    /\ ~DbAt(w, "idle")
    /\ DbRelease(w) /\ DbGoto(w, "idle")
    /\ UNCHANGED <<db, dbBox, dbData, dbQueue>>

-----------------------------------------------------------------------------
(* The database server in the container. *)

\* The entrypoint initialises an empty volume only.
DbInitialises ==
    /\ dbBox.state = "running" /\ dbData = "empty"
    /\ dbData' = "initialised" /\ dbBox' = [dbBox EXCEPT !.init = TRUE]
    /\ UNCHANGED <<db, dbQueue, dbHolder, dbWorker>>

DbTask(w) ==
    \/ \E m \in dbQueue : DbLock(w, m) \/ DbRefuse(w, m)
    \/ DbChecks(w) \/ DbConfig(w) \/ DbValidate(w) \/ DbAcquire(w)
    \/ DbPrepare(w) \/ DbEnvironment(w) \/ DbNetworks(w) \/ DbVolumes(w)
    \/ DbRemove(w) \/ DbWipe(w) \/ DbHost(w) \/ DbCreate(w) \/ DbStart(w)
    \/ DbReady(w) \/ DbRunning(w)
    \/ DbRootAccount(w) \/ DbUserAccount(w) \/ DbVerify(w)
    \/ DbStageFails(w) \/ DbStageRaises(w) \/ DbSucceed(w) \/ DbFail(w) \/ DbDies(w)

DbNext ==
    \/ \E rebuild, force \in BOOLEAN : DbRequest(rebuild, force)
    \/ DbCancel \/ DbForceCancel \/ DbStop \/ DbStopped \/ DbTimeOut
    \/ \E w \in DbWorker : DbTask(w)
    \/ DbInitialises

DbSpec == DbInit /\ [][DbNext]_dbVars

-----------------------------------------------------------------------------

\* No task takes a stopped service back to life: only a request does. The
\* verdicts of a task that was force-cancelled or cancelled come later.
DbStoppedStays ==
    [][db.service = "stopped" => db'.service \in {"stopped", "queued", "stopping"}]_dbVars

\* A queueing is claimed by one task at most, however often it is delivered or
\* retried, which is the idempotency _lock_for_db_deploy promises; and only the
\* holder of the advisory lock works on the container, up to the write of its
\* verdict: a task that outlived its deployment, cancelled by force or timed out,
\* keeps the next one away. acquire_service_deployment_lock.
DbAlone ==
    /\ db.claims <= 1
    /\ \A w \in DbWorker : dbWorker[w].pc \in DbStage \cup {"succeed"} => dbHolder = w

=============================================================================
