----------------------------- MODULE Processes -----------------------------
(* The processes of one user in one project that Config.tla, BinaryCache.tla *)
(* and Startup.tla speak of. *)
CONSTANT Procs      \* processes, each started once
============================================================================
