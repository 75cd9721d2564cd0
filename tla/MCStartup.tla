----------------------------- MODULE MCStartup -----------------------------
(* Small instances of Startup for TLC. *)
EXTENDS Startup, TLC

MCKeys == {"APP_URL", "APP_PORT", "VITE_PORT", "REVERB_APP_KEY", "BROADCAST_CONNECTION",
           "REVERB_SERVER_PORT", "NGROK_TUNNEL_URL"}

\* A Sail project with Reverb and no static domain.
MCProject ==
  [artisan |-> TRUE, env |-> TRUE,
   os |-> [k \in MCKeys |-> Empty],
   dotenv |-> [k \in MCKeys |->
     CASE k = "APP_URL" -> [host |-> "localhost", port |-> Empty]
       [] k = "APP_PORT" -> 8088
       [] k = "BROADCAST_CONNECTION" -> "reverb"
       [] OTHER -> Empty],
   lock |-> << [name |-> Package, version |-> << NaN >>] >>]

\* No file, or a choice beside keys of another version.
MCInitial == {Missing, Object("ngrok", TRUE)}

\* A file that says nothing, and one with a transport that does not exist.
MCEdits == {Null, Object("invalid", TRUE)}

ProcSymmetry == Permutations(Procs)
============================================================================
