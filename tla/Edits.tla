------------------------------- MODULE Edits --------------------------------
(***************************************************************************)
(* The requests that do not know of the lifecycle: an edit of the service  *)
(* or of a deploy saves the whole row as it read it, and the staff purge   *)
(* the runtime of a service by the status they read. Neither takes a lock, *)
(* and the platform goes on between the read and the write.                *)
(***************************************************************************)
EXTENDS Lifecycle

CONSTANT EditedTasks    \* bound on lastTask once a request has read its row

ASSUME EditedTasksAssumption == EditedTasks \in Nat

VARIABLE draft    \* the request under way, with the row it has read

editVars == <<vars, draft>>

\* Kinds: none, service and deploy with the row read, purge and purged, saved.
NoDraft == [kind |-> "none"]
Saved == [kind |-> "saved"]
EditInit == Init /\ draft = NoDraft

-----------------------------------------------------------------------------

ReadsService ==
    /\ draft = NoDraft
    /\ draft' = [kind |-> "service", row |-> svc]
    /\ UNCHANGED vars

ReadsDeploy(d) ==
    /\ draft = NoDraft
    /\ draft' = [kind |-> "deploy", deploy |-> d, row |-> dep[d]]
    /\ UNCHANGED vars

\* Mutant: the timestamp that is not a field of the form is not written back.
SavesServiceUnclocked ==
    /\ draft.kind = "service"
    /\ svc' = [draft.row EXCEPT !.started = svc.started]
    /\ draft' = Saved
    /\ UNCHANGED <<dep, container, queue, lastTask, revoked, worker, monitor, api>>

\* The timestamp a request has read may have grown old meanwhile.
Aged(read) == {read, [read EXCEPT !.started = IF @ = "fresh" THEN "old" ELSE @]}

\* Service.save sets selected_deploy_at when the selection it writes is another one.
SavesService ==
    /\ draft.kind = "service"
    /\ \E row \in Aged(draft.row) :
           svc' = [row EXCEPT !.reselected = @ \/ row.selected # svc.selected]
    /\ draft' = Saved
    /\ UNCHANGED <<dep, container, queue, lastTask, revoked, worker, monitor, api>>

SavesDeploy ==
    /\ draft.kind = "deploy"
    /\ \E row \in Aged(draft.row) : dep' = [dep EXCEPT ![draft.deploy] = row]
    /\ draft' = Saved
    /\ UNCHANGED <<svc, container, queue, lastTask, revoked, worker, monitor, api>>

\* The purge reads the status once, at the beginning.
ReadsStatus ==
    /\ draft = NoDraft /\ svc.status \notin Busy
    /\ draft' = [kind |-> "purge"]
    /\ UNCHANGED vars

\* The container is removed, or Docker refuses; without a connection to Docker
\* the purge ends here.
RemovesRuntime ==
    /\ draft.kind = "purge"
    /\ \/ container' = Absent /\ draft' = [kind |-> "purged"]
       \/ "docker" \in Faults /\ UNCHANGED container /\ draft' \in {[kind |-> "purged"], Saved}
    /\ UNCHANGED <<svc, dep, queue, lastTask, revoked, worker, monitor, api>>

SavesStopped ==
    /\ draft.kind = "purged"
    /\ svc' = [svc EXCEPT !.status = "stopped"]
    /\ draft' = Saved
    /\ UNCHANGED <<dep, container, queue, lastTask, revoked, worker, monitor, api>>

Edit ==
    \/ ReadsService \/ SavesService \/ SavesDeploy
    \/ ReadsStatus \/ RemovesRuntime \/ SavesStopped
    \/ \E d \in Deploy : ReadsDeploy(d)

-----------------------------------------------------------------------------

\* Bound: behaviours with an edit have so many tasks at most.
Bounded == draft' # NoDraft => lastTask' <= EditedTasks

Goes(step) == step /\ UNCHANGED draft /\ Bounded

EditNext ==
    \/ Goes(Users)
    \/ \E w \in Worker : Goes(Run(w)) \/ Goes(Take(w)) \/ Goes(Die(w))
    \/ Goes(Beat) \/ Goes(Expire) \/ Goes(Mishap)
    \/ Edit /\ Bounded

EditSpec == EditInit /\ [][EditNext]_editVars

\* Only beat and time are fair, as in MonitoredSpec: a request may never return.
MonitoredEditSpec == EditSpec /\ WF_editVars(Goes(Beat)) /\ WF_editVars(Goes(Expire))

=============================================================================
