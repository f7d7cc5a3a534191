------------------------------- MODULE MCEdits ------------------------------
(* Instance of Edits for TLC. *)
EXTENDS Edits

CONSTANTS d1, w1, n1, none

Deploys1 == {d1}
Workers1 == {w1}
OneNode == [w \in Worker |-> n1]

=============================================================================
