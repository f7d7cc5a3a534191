-------------------------------- MODULE Live --------------------------------
(***************************************************************************)
(* The live page of one deployment. Whoever works on it writes its row and *)
(* then publishes an event: the tracker of an application's deployment     *)
(* (DjangoDeploymentState and its pipeline), the sink of a database's, and *)
(* the monitor, which publishes before its transaction commits. A browser  *)
(* joins the group, reads the row once, and is then sent the events in the *)
(* order of their publication.                                             *)
(***************************************************************************)
EXTENDS Naturals, Sequences

CONSTANTS
    Browser,      \* the browsers that show the deployment
    MaxEvents     \* events of progress

ASSUME LiveAssumption == MaxEvents \in Nat

VARIABLES
    track,      \* the row of the deployment
    tracker,    \* the task that works on it
    verdict,    \* the monitor's transaction
    browser,    \* the consumer and the page of each browser
    unheard     \* whether something has happened that may leave a browser uninformed

liveVars == <<track, tracker, verdict, browser, unheard>>

Outcome == {"succeeded", "failed", "cancelled"}
Shown == Outcome \cup {"pending", "running"}

NoBrowser == [at |-> "away", queue |-> <<>>, shown |-> "pending"]

LiveTypeOK ==
    /\ track \in [status : Shown, cancel : BOOLEAN]
    /\ tracker \in [kind : {"app", "database"},
                    at : {"queued", "claimed", "working", "publish", "done", "failing", "marking",
                          "ended"},
                    event : Shown, then : {"working", "done", "failing", "marking", "ended"},
                    finished : BOOLEAN, left : 0..MaxEvents]
    /\ verdict \in {"none", "told", "over"}
    /\ browser \in [Browser -> [at : {"away", "joined", "live"}, queue : Seq(Shown),
                                shown : Shown]]
    /\ unheard \in BOOLEAN

LiveInit ==
    /\ track = [status |-> "pending", cancel |-> FALSE]
    /\ tracker \in [kind : {"app", "database"}, at : {"queued"}, event : {"pending"},
                    then : {"working"}, finished : {FALSE}, left : {MaxEvents}]
    /\ verdict = "none"
    /\ browser = [b \in Browser |-> NoBrowser]
    /\ unheard = FALSE

-----------------------------------------------------------------------------

\* A transaction of the monitor holds the row until it commits.
RowIsFree == verdict # "told"

Write(status) == RowIsFree /\ track' = [track EXCEPT !.status = status]

\* group_send: a copy for each member of the group.
Publish(event) ==
    browser' = [b \in Browser |->
        IF browser[b].at = "away" THEN browser[b]
        ELSE [browser[b] EXCEPT !.queue = Append(@, event)]]

TrackerAt(kind, at) == tracker.kind = kind /\ tracker.at = at /\ UNCHANGED verdict

TrackerTo(at) == tracker' = [tracker EXCEPT !.at = at]

\* The event is published by a later step, and the tracker then goes on.
ToPublish(event, then) ==
    tracker' = [tracker EXCEPT !.at = "publish", !.event = event, !.then = then]

-----------------------------------------------------------------------------
(* The task claims the row; DjangoDeploymentState. *)

\* lock_and_get_deployment for an application, _lock_for_db_deploy for a database.
Claim ==
    /\ tracker.at = "queued" /\ track.status = "pending"
    /\ Write("running")
    /\ TrackerTo(IF tracker.kind = "app" THEN "claimed" ELSE "working")
    /\ UNCHANGED <<verdict, browser, unheard>>

Start ==
    /\ TrackerAt("app", "claimed")
    /\ IF track.cancel THEN Write("cancelled") /\ ToPublish("cancelled", "ended")
                       ELSE Write("running") /\ ToPublish("running", "working")
    /\ UNCHANGED <<browser, unheard>>

\* A progress event leaves the status alone.
Progress ==
    /\ TrackerAt("app", "working") /\ ~track.cancel
    /\ tracker.left > 0
    /\ tracker.finished \/ Write(track.status)
    /\ tracker' = [tracker EXCEPT !.at = "publish", !.event = "running",
                                  !.then = "working", !.left = @ - 1]
    /\ UNCHANGED <<track, browser, unheard>>

\* deployment_completed and deployment_failed; nothing after them is written.
LastEvent(outcome) ==
    /\ TrackerAt("app", "working") /\ ~track.cancel /\ ~tracker.finished
    /\ Write(outcome)
    /\ tracker' = [tracker EXCEPT !.at = "publish", !.event = outcome,
                                  !.then = "working", !.finished = TRUE]
    /\ UNCHANGED <<browser, unheard>>

FinishTracker(outcome) ==
    /\ TrackerAt("app", "working")
    /\ outcome = "cancelled" => track.cancel
    /\ Write(outcome)
    /\ tracker' = [tracker EXCEPT !.at = "publish", !.event = outcome,
                                  !.then = "done", !.finished = TRUE]
    /\ UNCHANGED <<browser, unheard>>

\* ContainerWaiter is satisfied, or has nothing to wait for.
LeaveTracker ==
    /\ TrackerAt("app", "done") /\ tracker.event # "failed"
    /\ TrackerTo("ended")
    /\ UNCHANGED <<track, browser, unheard>>

\* record_exception: before the result, for a failed one, or from ContainerWaiter.
RecordException ==
    /\ \/ TrackerAt("app", "working")
       \/ TrackerAt("app", "done") /\ tracker.event # "cancelled"
    /\ RowIsFree
    /\ ToPublish("failed", IF tracker.at = "done" /\ tracker.event = "failed"
                           THEN "ended" ELSE "failing")
    /\ UNCHANGED <<track, browser, unheard>>

FinishFailing ==
    /\ TrackerAt("app", "failing")
    /\ Write("failed") /\ ToPublish("failed", "ended")
    /\ UNCHANGED <<browser, unheard>>

\* Nothing reports a channel layer that fails.
PublishEvent ==
    /\ TrackerAt("app", "publish") /\ TrackerTo(tracker.then)
    /\ \/ Publish(tracker.event) /\ UNCHANGED unheard
       \/ unheard' = TRUE /\ UNCHANGED browser
    /\ UNCHANGED track

-----------------------------------------------------------------------------
(* DBAndChannelEventSink, for run_db_deploy and for the monitor. *)

\* Mutant: errors and completion wait like any other event.
ForcedNever(event) == FALSE

Forced(event) == event # "running"

\* An event that is not forced may come too soon after the one before.
Broadcast(event) == Publish(event) \/ (~Forced(event) /\ UNCHANGED browser)

\* Completion never overwrites a terminal status; an error is only a message.
SinkWrites(event) ==
    Write(IF event = "succeeded" /\ track.status \notin {"failed", "cancelled"}
          THEN "succeeded" ELSE track.status)

SinkProgress ==
    /\ TrackerAt("database", "working") /\ tracker.left > 0
    /\ SinkWrites("running")
    /\ tracker' = [tracker EXCEPT !.at = "publish", !.event = "running",
                                  !.then = "working", !.left = @ - 1]
    /\ UNCHANGED <<browser, unheard>>

SinkLast(outcome) ==
    /\ TrackerAt("database", "working")
    /\ SinkWrites(outcome) /\ ToPublish(outcome, "marking")
    /\ UNCHANGED <<browser, unheard>>

SinkPublishes ==
    /\ TrackerAt("database", "publish") /\ TrackerTo(tracker.then)
    /\ \/ Broadcast(tracker.event) /\ UNCHANGED unheard
       \/ unheard' = TRUE /\ UNCHANGED browser
    /\ UNCHANGED track

\* A cancellation, a configuration that is refused, and an exception are marked without an event.
FailSilently ==
    /\ TrackerAt("database", "working")
    /\ tracker' = [tracker EXCEPT !.at = "marking", !.event = "failed"]
    /\ unheard' = TRUE
    /\ UNCHANGED <<track, browser>>

\* _mark_success and _mark_failure.
Mark ==
    /\ TrackerAt("database", "marking")
    /\ Write(tracker.event) /\ TrackerTo("ended")
    /\ UNCHANGED <<browser, unheard>>

-----------------------------------------------------------------------------

\* The monitor, and whoever kills a task, finds it between two writes.
TrackerDies ==
    /\ tracker.at \notin {"queued", "ended"} /\ TrackerTo("ended")
    /\ unheard' = (unheard \/ tracker.at # "working" \/ track.status # "running" \/ ~RowIsFree)
    /\ UNCHANGED <<track, verdict, browser>>

\* mark_deploy_failed and mark_deploy_timeout, once.
TellVerdict ==
    /\ verdict = "none" /\ track.status = "running"
    /\ verdict' = "told"
    /\ \/ Broadcast("failed") /\ UNCHANGED unheard
       \/ unheard' = TRUE /\ UNCHANGED browser
    /\ UNCHANGED <<track, tracker>>

CommitVerdict ==
    /\ verdict = "told" /\ verdict' = "over"
    /\ \/ track' = [track EXCEPT !.status = "failed"] /\ UNCHANGED unheard
       \/ unheard' = TRUE /\ UNCHANGED track
    /\ UNCHANGED <<tracker, browser>>

\* The API. Nobody is told of the cancellation of a pending deployment.
CancelDeploy ==
    /\ RowIsFree
    /\ ~track.cancel
    /\ track' = [status |-> IF track.status = "pending" THEN "cancelled" ELSE track.status,
                 cancel |-> TRUE]
    /\ unheard' = (unheard \/ track.status = "pending")
    /\ UNCHANGED <<tracker, verdict, browser>>

-----------------------------------------------------------------------------
(* DeploymentConsumer. *)

\* What has been published and not yet written: the row read now is out of date.
Announced ==
    verdict = "told" \/ (tracker.at \in {"marking", "failing"} /\ track.status # tracker.event)

JoinGroup(b) ==
    /\ browser[b].at = "away"
    /\ browser' = [browser EXCEPT ![b].at = "joined"]
    /\ UNCHANGED <<track, tracker, verdict, unheard>>

ReadSnapshot(b) ==
    /\ browser[b].at = "joined"
    /\ browser' = [browser EXCEPT ![b].at = "live", ![b].shown = track.status]
    /\ unheard' = (unheard \/ Announced)
    /\ UNCHANGED <<track, tracker, verdict>>

\* A message waits until connect has returned.
Receive(b) ==
    /\ browser[b].at = "live" /\ browser[b].queue # <<>>
    /\ browser' = [browser EXCEPT ![b].shown = Head(browser[b].queue), ![b].queue = Tail(@)]
    /\ UNCHANGED <<track, tracker, verdict, unheard>>

Disconnect(b) ==
    /\ browser[b].at # "away"
    /\ browser' = [browser EXCEPT ![b] = NoBrowser]
    /\ UNCHANGED <<track, tracker, verdict, unheard>>

LiveNext ==
    \/ Claim \/ Start \/ Progress \/ LeaveTracker \/ RecordException \/ FinishFailing \/ PublishEvent
    \/ \E outcome \in {"succeeded", "failed"} : LastEvent(outcome) \/ SinkLast(outcome)
    \/ \E outcome \in Outcome : FinishTracker(outcome)
    \/ SinkProgress \/ SinkPublishes \/ FailSilently \/ Mark
    \/ TrackerDies \/ TellVerdict \/ CommitVerdict \/ CancelDeploy
    \/ \E b \in Browser : JoinGroup(b) \/ ReadSnapshot(b) \/ Receive(b) \/ Disconnect(b)

LiveSpec == LiveInit /\ [][LiveNext]_liveVars

-----------------------------------------------------------------------------

\* When a deployment is over and every message is delivered, each page shows the
\* outcome that the row has, whenever its browser joined, by the snapshot or by
\* an event, although the worker and the monitor may both have given one. What
\* may cost a page the outcome: a channel layer that fails, a task that dies or a
\* row read between an announcement and its writing, a monitor that rolls back,
\* and the outcomes that are not published (DeploymentConsumer, DjangoDeploymentState, DBAndChannelEventSink).
OutcomeShown ==
    ~unheard /\ tracker.at = "ended" /\ RowIsFree /\ track.status \in Outcome =>
        \A b \in Browser : browser[b].at = "live" /\ browser[b].queue = <<>>
                           => browser[b].shown = track.status

=============================================================================
