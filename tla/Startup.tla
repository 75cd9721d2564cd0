------------------------------ MODULE Startup ------------------------------
(***************************************************************************)
(* Processes of one user in one project, from the command line to a tunnel *)
(* that is up: "php artisan share" comes by a binary (BinaryCache.tla) and *)
(* launches it with its flags, "localhoist" is launched directly; the run  *)
(* detects the project (Laravel.tla) and picks its transport (Config.tla), *)
(* while "localhoist config" changes the files it reads.                   *)
(***************************************************************************)
EXTENDS Config, BinaryCache, Laravel

CONSTANTS
  Project,    \* the project, as Detect finds it
  Flags       \* the --transport flags users give

vars == <<cvars, bvars>>

Init == ConfigInit /\ CacheInit

\* The launched binary: flag.Parse, Detect and the first read of Resolve.  The
\* domain is that of --domain or that of the project.
Run(p) ==
  /\ at[p] = "launched"
  /\ Detected(Project) # Unusable
  /\ \E flag \in Flags, domain \in BOOLEAN :
       ReadGlobal(p, flag, domain \/ Detected(Project).domain # Empty)
  /\ UNCHANGED bvars

Next ==
  \/ \E p \in Procs :
       \/ Run(p)
       \/ phase[p] = "idle" /\ CacheStep(p) /\ UNCHANGED cvars
       \/ (phase[p] # "idle" \/ at[p] = "launched") /\ ConfigStep(p) /\ UNCHANGED bvars
  \/ \E f \in Files : UserWrites(f) /\ UNCHANGED bvars

Spec == Init /\ [][Next]_vars
============================================================================
