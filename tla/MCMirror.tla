------------------------------ MODULE MCMirror ------------------------------
(* Instances of Mirror for TLC. *)
EXTENDS Mirror

CONSTANTS a, b, c,     \* jobs
          daily, live  \* cursor files

NoLimit == [p \in Jobs |-> 0]
OnePath == [p \in Jobs |-> daily]

(* Job a may look back one instant only, job b reads everything. *)
CappedA == [p \in Jobs |-> IF p = a THEN 1 ELSE 0]
TwoPaths == [p \in Jobs |-> IF p = a THEN live ELSE daily]

=============================================================================
