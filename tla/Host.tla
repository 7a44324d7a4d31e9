-------------------------------- MODULE Host --------------------------------
(***************************************************************************)
(* The programs that run on the host next to the pipeline: started by      *)
(* timers, by cron, by a push or by hand, each with state of its own.  A   *)
(* behaviour is about one of them, and only of that one is fairness asked. *)
(***************************************************************************)
VARIABLE job

Runs(program) == job = program
=============================================================================
