------------------------------ MODULE Laravel ------------------------------
(***************************************************************************)
(* What localhoist derives from a project: Detect and its helpers of       *)
(* src/internal/laravel/laravel.go.                                        *)
(*                                                                         *)
(* A setting is a text: Empty, NaN if it is no number, the number it       *)
(* denotes, or for APP_URL the host and port of the URL.  A version is the *)
(* sequence of its parts between the dots, a leading "v" dropped.          *)
(***************************************************************************)
EXTENDS Integers, Sequences

CONSTANTS
  Empty,      \* the empty text; also what a missing setting reads as
  NaN,        \* a text that is no number
  Unusable    \* a URL without a host; also the error it leads to

Package == "localhoist/laravel"

\* The OS environment goes before .env.
Setting(project, key) ==
  IF project.os[key] # Empty THEN project.os[key] ELSE project.dotenv[key]

IntOr(text, fallback) ==
  IF text \notin {Empty, NaN} /\ text > 0 THEN text ELSE fallback

IsLocalHostname(host) == host \in {"localhost", "127.0.0.1", "0.0.0.0"}

\* The app's address: APP_PORT replaces a missing port of a local host only,
\* as it is written.  An Empty port is that of plain HTTP.
DeriveAppUpstream(appUrl, appPort) ==
  IF appUrl = Empty THEN [host |-> "127.0.0.1", port |-> IntOr(appPort, 80)]
  ELSE IF appUrl = Unusable THEN Unusable
  ELSE [host |-> appUrl.host,
        port |-> IF appUrl.port = Empty /\ IsLocalHostname(appUrl.host)
                 THEN appPort ELSE appUrl.port]

ReverbUpstream(project) ==
  IF \/ Setting(project, "REVERB_APP_KEY") # Empty
     \/ Setting(project, "BROADCAST_CONNECTION") = "reverb"
  THEN IntOr(Setting(project, "REVERB_SERVER_PORT"), 8080)
  ELSE Empty

VersionAtLeast(version, major, minor) ==
  /\ Len(version) >= 2
  /\ NaN \notin {version[1], version[2]}
  /\ \/ version[1] > major
     \/ version[1] = major /\ version[2] >= minor

\* The first entry of the package in composer.lock decides; a lock file that is
\* missing or no JSON has no entries.
HasTrustedProxyPackage(lock) ==
  \E i \in DOMAIN lock :
    /\ lock[i].name = Package
    /\ \A j \in 1 .. i - 1 : lock[j].name # Package
    /\ VersionAtLeast(lock[i].version, 0, 2)

\* Unusable when there is no artisan file, no .env, or no usable APP_URL.
Detected(project) ==
  LET app == DeriveAppUpstream(Setting(project, "APP_URL"), Setting(project, "APP_PORT"))
  IN IF ~project.artisan \/ ~project.env \/ app = Unusable THEN Unusable
     ELSE [app |-> app, vite |-> IntOr(Setting(project, "VITE_PORT"), 5173),
           reverb |-> ReverbUpstream(project),
           domain |-> Setting(project, "NGROK_TUNNEL_URL"),
           trusted |-> HasTrustedProxyPackage(project.lock)]

\* Whether run() is going to patch APP_URL (main.go:166).
PatchEnv(noPatch, forcePatch, trusted) == ~noPatch /\ (forcePatch \/ ~trusted)
============================================================================
