------------------------ MODULE MCEnvironmentSensor ------------------------
(* Two tasks, and as many identities as can be held at a time.               *)
EXTENDS EnvironmentSensor

BothTasks == {"main", "tool"}
Identities == 1..8
=============================================================================
