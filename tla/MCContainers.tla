---------------------------- MODULE MCContainers ----------------------------
(* Instances of Containers for TLC. *)
EXTENDS Containers

CONSTANTS p, q, bug, v1, v2, none

MCRuns == {p, q}
MCLabels == {bug}
MCTitles == {v1, v2}
Both == {"gitlab", "github"}
=============================================================================
