----------------------------- MODULE Middleware -----------------------------
(***************************************************************************)
(* The TrustLocalhoistProxy middleware of the Composer package, as         *)
(* src/packages/laravel/src/ShareServiceProvider.php registers it, in one  *)
(* PHP worker.  The proxies a worker trusts are static state: they outlive *)
(* the request that set them, and only the framework's own TrustProxies,   *)
(* at the front of the stack, resets them.                                 *)
(***************************************************************************)
CONSTANTS
  Installed,    \* the package is installed, in a version that has it
  AppEnv        \* APP_ENV

VARIABLE trusted    \* the addresses of the trusted proxies

MiddlewareInit == trusted = {}

\* Appended to the stack, in the local environment only.
Registered == Installed /\ AppEnv = "local"

\* Bug: the address is enough.
ThroughAnything(remote, marker) == remote \in {"127.0.0.1", "::1"}

ThroughLocalhoist(remote, marker) ==
  remote \in {"127.0.0.1", "::1"} /\ marker

\* The framework's TrustProxies comes first.
TrustProxies == {}

\* Bug: prepended, so that TrustProxies resets what it did.
HandlePrepended(remote, marker) == trusted' = TrustProxies

\* The stack, up to the application.
Handle(remote, marker) ==
  trusted' = IF Registered /\ ThroughLocalhoist(remote, marker)
             THEN {remote} ELSE TrustProxies

\* Where the application takes the browser to be: forwarded headers count when
\* they come from a trusted proxy.
SeenScheme(remote, proto) == IF remote \in trusted' THEN proto ELSE "http"
SeenHost(remote, host, fwdHost) == IF remote \in trusted' THEN fwdHost ELSE host
============================================================================
