---------------------------- MODULE MCLifecycle -----------------------------
(* Instances of Lifecycle for TLC. *)
EXTENDS Lifecycle, TLC

CONSTANTS d1, d2, w1, w2, n1, none

Deploys1 == {d1}
Deploys2 == {d1, d2}
Workers1 == {w1}
Workers2 == {w1, w2}
OneNode == [w \in Worker |-> n1]
OwnNode == [w \in Worker |-> w]

AllOps == {"start", "rebuild", "select", "stop", "cancel", "force", "plan"}
AllFaults == {"lost", "crash", "docker", "die"}

Symmetry == Permutations(Deploy) \cup Permutations(Worker)

=============================================================================
