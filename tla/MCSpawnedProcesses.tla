------------------------- MODULE MCSpawnedProcesses -------------------------
(* Model values for the run of SpawnedProcesses. *)
EXTENDS SpawnedProcesses

CONSTANTS server, main, c1, c2

Threads == {server, main}
MainThread == {main}
TwoChildren == {c1, c2}
=============================================================================
