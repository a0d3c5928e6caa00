--------------------------- MODULE MCTaskScheduler ---------------------------
(* Instances of TaskScheduler small enough for TLC. *)
EXTENDS TaskScheduler

=============================================================================
