---------------------------- MODULE Transports ----------------------------
(***************************************************************************)
(* What the two transports make of the log of their tunnel process:        *)
(* ParseLogLine and StartNgrok of src/internal/tunnel/ngrok.go,            *)
(* ParseCloudflaredLine and StartCloudflared of cloudflare.go.             *)
(*                                                                         *)
(* A log line is the part of it the parsers look at.  Both processes may   *)
(* also print a line longer than the scanner's buffer ("huge").            *)
(***************************************************************************)

CONSTANTS
  Transport,    \* "ngrok" or "cloudflare"
  TunnelUrls,   \* URLs a line may name
  NoUrl         \* the line names none

ASSUME TransportAssumption ==
  /\ Transport \in {"ngrok", "cloudflare"}
  /\ NoUrl \notin TunnelUrls

\* The classes of lines start() tells apart: a URL, an error, anything else.
Lines == TunnelUrls \cup {"err", "noise", "huge"}

----------------------------------------------------------------------------

\* An ngrok line: its JSON fields, where one that is missing or no text reads
\* as "", and a line that is no JSON object as one without fields.
NgrokEntries ==
  [msg : {"started tunnel", "text", ""}, url : TunnelUrls \cup {NoUrl},
   lvl : {"info", "eror", "crit", ""}, err : {"text", "<nil>", ""}]

\* A "started tunnel" without a URL says nothing, whatever its level.  An error
\* entry says something if its err does, or else its msg.
ParseLogLine(line) ==
  IF line.msg = "started tunnel"
  THEN IF line.url = NoUrl THEN "noise" ELSE line.url
  ELSE IF line.lvl \in {"eror", "crit"} /\ (line.err = "text" \/ line.msg # "")
  THEN "err"
  ELSE "noise"

\* A cloudflared line: the quick-tunnel URL it contains, wherever it stands,
\* whether " ERR " does, and whether any text follows it.
CloudflaredLines ==
  [url : TunnelUrls \cup {NoUrl}, err : BOOLEAN, rest : BOOLEAN]

\* The URL wins, in an error line too.
ParseCloudflaredLine(line) ==
  IF line.url # NoUrl THEN line.url
  ELSE IF line.err /\ line.rest THEN "err"
  ELSE "noise"

----------------------------------------------------------------------------

\* ngrok's error lines are fatal, cloudflared retries past its own.
AbortOnErr == Transport = "ngrok"

\* What the scanner hands to start() for the lines the process may print.
Scanned ==
  {"huge"} \cup
    IF Transport = "ngrok"
    THEN {ParseLogLine(line) : line \in NgrokEntries}
    ELSE {ParseCloudflaredLine(line) : line \in CloudflaredLines}
============================================================================
