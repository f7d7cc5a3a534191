----------------------------- MODULE Operation ------------------------------
(***************************************************************************)
(* What the platform promises of the operations on a service: one at a     *)
(* time is in progress, it is a deployment or a stop, it is not turned     *)
(* into another one, and it ends.                                          *)
(***************************************************************************)

VARIABLE op

Init == op = "none"

Accept == op = "none" /\ op' \in {"deploy", "stop"}

End == op # "none" /\ op' = "none"

Next == Accept \/ End

Safe == Init /\ [][Next]_op

Spec == Safe /\ WF_op(End)

=============================================================================
