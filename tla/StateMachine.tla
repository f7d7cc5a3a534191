---------------------------- MODULE StateMachine ----------------------------
(***************************************************************************)
(* The legal transitions of a Service and of a Deploy, as tabulated by     *)
(* deployments/common/state_machine.py, which calls itself "the single     *)
(* source of truth for which transitions are legal".                       *)
(***************************************************************************)

ServiceStates == {"queued", "deploying", "running", "stopping", "stopped",
                  "failed", "succeeded"}

DeployStates == {"pending", "running", "succeeded", "failed", "cancelled",
                 "rolling_back", "rolled_back"}

DeployTerminal == {"succeeded", "failed", "cancelled", "rolled_back"}

\* The entry (None, "queued") matches every source, so it is a row of its own.
ServiceTransitions ==
    {<<"queued", "deploying">>, <<"deploying", "running">>,
     <<"deploying", "failed">>, <<"deploying", "stopped">>,
     <<"running", "stopping">>, <<"failed", "stopping">>,
     <<"stopping", "stopped">>, <<"stopping", "failed">>,
     <<"stopped", "deploying">>, <<"failed", "deploying">>,
     <<"running", "deploying">>, <<"succeeded", "running">>,
     <<"succeeded", "stopping">>, <<"succeeded", "deploying">>,
     <<"running", "succeeded">>}
    \cup (ServiceStates \X {"queued"})

DeployTransitions ==
    {<<"pending", "running">>, <<"pending", "cancelled">>,
     <<"pending", "failed">>, <<"running", "succeeded">>,
     <<"running", "failed">>, <<"running", "cancelled">>,
     <<"running", "rolling_back">>, <<"rolling_back", "rolled_back">>,
     <<"rolling_back", "failed">>}
    \cup (DeployStates \X {"pending"})

\* _check: staying put is idempotent, everything else must be in the table.
ServiceMay(src, dst) == src = dst \/ <<src, dst>> \in ServiceTransitions

DeployMay(src, dst) == src = dst \/ <<src, dst>> \in DeployTransitions

=============================================================================
