------------------------------ MODULE Tunnel ------------------------------
(***************************************************************************)
(* One tunnel process and the goroutines around it: start() and Stop() of  *)
(* src/internal/tunnel/tunnel.go.                                          *)
(*                                                                         *)
(* The caller's goroutine waits in a select for a URL, a fatal error line, *)
(* the end of the process, or a timeout.  The reader goroutine scans the   *)
(* log of the process, the waiter goroutine reaps it.  cmd.Wait closes the *)
(* read end of the pipe as soon as the process is dead, whatever the       *)
(* reader has not read by then.                                            *)
(*                                                                         *)
(* A line of the log is known by what the parser of the transport makes of *)
(* it (Transports.tla).                                                    *)
(*                                                                         *)
(* The context given to start() is context.Background() in main.go and     *)
(* never done, so that branch of the select is not modelled.               *)
(***************************************************************************)
EXTENDS Naturals, Sequences, Transports

CONSTANTS
  MaxLines,     \* bound: how many lines the process prints
  PipeCap       \* lines the pipe holds before the process blocks

\* The kinds of error start() answers with.
Errors == {"nostart", "errline", "exited", "hint", "timeout"}

ASSUME TunnelAssumption ==
  /\ TunnelUrls \cap ({"err", "noise", "huge", "none"} \cup Errors) = {}
  /\ MaxLines \in Nat
  /\ PipeCap \in Nat \ {0}

VARIABLES
  process,    \* the tunnel process: "none", "running" or "exited"
  signalled,  \* the last signal sent to it
  printed,    \* history: the lines it has printed
  pipe,       \* lines printed and not yet read
  reader,     \* the scanning goroutine: "none", "scanning" or "ended"
  chunk,      \* lines the scanner has read and not yet returned
  tooLong,    \* the scanner has met a huge line and stopped
  urlCh,      \* the URL waiting in urlCh, or NoUrl when it is empty
  errCh,      \* an error line waits in errCh
  lastErr,    \* an error line has been recorded
  done,       \* t.Done is closed
  at,         \* where the caller is in start() or Stop()
  answer      \* what start() answers: "none", a URL, or the kind of error

procVars   == <<process, signalled, printed>>
readerVars == <<reader, chunk, tooLong, urlCh, errCh, lastErr>>
callerVars == <<at, answer>>
tvars      == <<procVars, pipe, readerVars, done, callerVars>>

TunnelTypeOK ==
  /\ process \in {"none", "running", "exited"}
  /\ signalled \in {"none", "term", "kill"}
  /\ printed \in Seq(Lines)
  /\ pipe \in Seq(Lines)
  /\ reader \in {"none", "scanning", "ended"}
  /\ chunk \in Seq(Lines)
  /\ tooLong \in BOOLEAN
  /\ urlCh \in TunnelUrls \cup {NoUrl}
  /\ errCh \in BOOLEAN
  /\ lastErr \in BOOLEAN
  /\ done \in BOOLEAN
  /\ at \in {"launch", "select", "term", "grace", "reap", "up", "failed",
             "stopped"}
  /\ answer \in TunnelUrls \cup Errors \cup {"none"}

TunnelInit ==
  /\ process = "none" /\ signalled = "none" /\ printed = << >>
  /\ pipe = << >>
  /\ reader = "none" /\ chunk = << >> /\ tooLong = FALSE
  /\ urlCh = NoUrl /\ errCh = FALSE /\ lastErr = FALSE
  /\ done = FALSE
  /\ at = "launch" /\ answer = "none"

----------------------------------------------------------------------------
(* start().                                                                *)

\* cmd.Start succeeds; the reader and the waiter are started.
Launch ==
  /\ at = "launch"
  /\ at' = "select"
  /\ process' = "running"
  /\ reader' = "scanning"
  /\ UNCHANGED <<signalled, printed, pipe, chunk, tooLong, urlCh,
                 errCh, lastErr, done, answer>>

\* cmd.Start fails: nothing runs.
LaunchFails ==
  /\ at = "launch"
  /\ at' = "failed"
  /\ answer' = "nostart"
  /\ UNCHANGED <<procVars, pipe, readerVars, done>>

\* Bug: the channel is taken for ready when it is closed.
ReceiveClosed ==
  /\ at = "select"
  /\ at' = "up"
  /\ answer' = urlCh
  /\ urlCh' = NoUrl
  /\ UNCHANGED <<procVars, pipe, reader, chunk, tooLong, errCh, lastErr, done>>

\* The select picks any branch that is ready.  A URL has arrived.
ReceiveURL ==
  /\ at = "select"
  /\ urlCh # NoUrl
  /\ at' = "up"
  /\ answer' = urlCh
  /\ urlCh' = NoUrl
  /\ UNCHANGED <<procVars, pipe, reader, chunk, tooLong, errCh,
                 lastErr, done>>

\* A fatal error line has arrived: Stop, then answer with it.
ReceiveErr ==
  /\ at = "select"
  /\ errCh
  /\ at' = "term"
  /\ answer' = "errline"
  /\ errCh' = FALSE
  /\ UNCHANGED <<procVars, pipe, reader, chunk, tooLong, urlCh,
                 lastErr, done>>

\* The process is dead: answer with the last error recorded, or the hint.
ReceiveDone ==
  /\ at = "select"
  /\ done
  /\ at' = "failed"
  /\ answer' = IF lastErr THEN "exited" ELSE "hint"
  /\ UNCHANGED <<procVars, pipe, readerVars, done>>

\* Bug: a timeout is answered without Stop.
TimeoutReturns ==
  /\ at = "select"
  /\ at' = "failed"
  /\ answer' = "timeout"
  /\ UNCHANGED <<procVars, pipe, readerVars, done>>

\* The startup timer fires: Stop, then answer with the timeout.
StartupTimeout ==
  /\ at = "select"
  /\ at' = "term"
  /\ answer' = "timeout"
  /\ UNCHANGED <<procVars, pipe, readerVars, done>>

----------------------------------------------------------------------------
(* Stop(), called by start() and, on a tunnel that is up, by run().        *)

CallStop ==
  /\ at = "up"
  /\ at' = "term"
  /\ UNCHANGED <<procVars, pipe, readerVars, done, answer>>

\* SIGTERM, to a process that may be dead already.
Terminate ==
  /\ at = "term"
  /\ at' = "grace"
  /\ signalled' = IF done THEN signalled ELSE "term"
  /\ UNCHANGED <<process, printed, pipe, readerVars, done, answer>>

\* Bug: Stop never escalates.
GraceForever ==
  /\ at = "grace"
  /\ at' = "reap"
  /\ UNCHANGED <<procVars, pipe, readerVars, done, answer>>

\* Three seconds have passed: SIGKILL.
GraceOver ==
  /\ at = "grace"
  /\ at' = "reap"
  /\ signalled' = IF done THEN signalled ELSE "kill"
  /\ UNCHANGED <<process, printed, pipe, readerVars, done, answer>>

\* Stop receives from t.Done and returns.
StopReturns ==
  /\ at \in {"grace", "reap"}
  /\ done
  /\ at' = IF answer \in TunnelUrls THEN "stopped" ELSE "failed"
  /\ UNCHANGED <<procVars, pipe, readerVars, done, answer>>

----------------------------------------------------------------------------
(* The waiter goroutine.                                                   *)

\* cmd.Wait reaps the process and closes the pipe, then t.Done is closed.
Reap ==
  /\ process = "exited"
  /\ ~done
  /\ done' = TRUE
  /\ pipe' = << >>
  /\ UNCHANGED <<procVars, readerVars, callerVars>>

----------------------------------------------------------------------------
(* The reader goroutine.                                                   *)

\* The scanner fills its buffer with whatever part of the log is there.
Read ==
  /\ reader = "scanning"
  /\ chunk = << >>
  /\ \E n \in 1 .. Len(pipe) :
       /\ chunk' = SubSeq(pipe, 1, n)
       /\ pipe' = SubSeq(pipe, n + 1, Len(pipe))
  /\ UNCHANGED <<procVars, reader, tooLong, urlCh, errCh, lastErr,
                 done, callerVars>>

\* Bug: a later URL replaces the one that waits.
ScanLastURL ==
  /\ reader = "scanning"
  /\ chunk # << >> /\ Head(chunk) \in TunnelUrls
  /\ chunk' = Tail(chunk)
  /\ urlCh' = Head(chunk)
  /\ UNCHANGED <<procVars, pipe, reader, tooLong, errCh, lastErr, done,
                 callerVars>>

\* Bug: the reader stops at the first URL.
ScanUntilURL ==
  /\ reader = "scanning"
  /\ chunk # << >> /\ Head(chunk) \in TunnelUrls
  /\ chunk' = << >>
  /\ urlCh' = Head(chunk)
  /\ reader' = "ended"
  /\ UNCHANGED <<procVars, pipe, tooLong, errCh, lastErr, done, callerVars>>

\* Bug: the reader blocks while a URL waits.
ScanBlocks ==
  /\ reader = "scanning"
  /\ chunk # << >> /\ Head(chunk) \in TunnelUrls
  /\ urlCh = NoUrl
  /\ chunk' = Tail(chunk)
  /\ urlCh' = Head(chunk)
  /\ UNCHANGED <<procVars, pipe, reader, tooLong, errCh, lastErr, done,
                 callerVars>>

\* A line announces a URL: into urlCh, unless one waits there.
ScanURL ==
  /\ reader = "scanning"
  /\ chunk # << >> /\ Head(chunk) \in TunnelUrls
  /\ chunk' = Tail(chunk)
  /\ urlCh' = IF urlCh = NoUrl THEN Head(chunk) ELSE urlCh
  /\ UNCHANGED <<procVars, pipe, reader, tooLong, errCh, lastErr,
                 done, callerVars>>

\* A line reports an error: recorded, and into errCh when errors are fatal.
ScanErr ==
  /\ reader = "scanning"
  /\ chunk # << >> /\ Head(chunk) = "err"
  /\ chunk' = Tail(chunk)
  /\ lastErr' = TRUE
  /\ errCh' = (errCh \/ AbortOnErr)
  /\ UNCHANGED <<procVars, pipe, reader, tooLong, urlCh, done,
                 callerVars>>

ScanNoise ==
  /\ reader = "scanning"
  /\ chunk # << >> /\ Head(chunk) = "noise"
  /\ chunk' = Tail(chunk)
  /\ UNCHANGED <<procVars, pipe, reader, tooLong, urlCh, errCh,
                 lastErr, done, callerVars>>

\* Scan gives up on a line that does not fit; the goroutine ends and nobody
\* reads the pipe any more.
ScanHuge ==
  /\ reader = "scanning"
  /\ chunk # << >> /\ Head(chunk) = "huge"
  /\ chunk' = << >>
  /\ tooLong' = TRUE
  /\ reader' = "ended"
  /\ UNCHANGED <<procVars, pipe, urlCh, errCh, lastErr, done,
                 callerVars>>

\* End of file, or a read from the closed pipe.
ScanEnd ==
  /\ reader = "scanning"
  /\ chunk = << >>
  /\ pipe = << >>
  /\ process = "exited"
  /\ reader' = "ended"
  /\ UNCHANGED <<procVars, pipe, chunk, tooLong, urlCh, errCh,
                 lastErr, done, callerVars>>

----------------------------------------------------------------------------
(* The tunnel process.                                                     *)

PrintLine ==
  /\ process = "running"
  /\ Len(printed) < MaxLines
  /\ Len(pipe) < PipeCap
  /\ \E line \in Scanned :
       /\ printed' = Append(printed, line)
       /\ pipe' = Append(pipe, line)
  /\ UNCHANGED <<process, signalled, readerVars, done, callerVars>>

\* It exits by itself, on SIGTERM if it cares to, on SIGKILL in any case.
ProcessExits ==
  /\ process = "running"
  /\ process' = "exited"
  /\ UNCHANGED <<signalled, printed, pipe, readerVars, done,
                 callerVars>>

----------------------------------------------------------------------------

Select == ReceiveURL \/ ReceiveErr \/ ReceiveDone \/ StartupTimeout
StopSteps == Terminate \/ GraceOver \/ StopReturns
Scan == Read \/ ScanURL \/ ScanErr \/ ScanNoise \/ ScanHuge \/ ScanEnd
Killed == signalled = "kill" /\ ProcessExits

TunnelNext ==
  \/ Launch \/ LaunchFails \/ Select \/ CallStop \/ StopSteps
  \/ Reap \/ Scan
  \/ PrintLine \/ ProcessExits

\* Every goroutine that can take a step takes it, both timers fire in the end,
\* and SIGKILL kills.  Nothing is assumed of the process otherwise, nor that
\* run() ever calls Stop.
TunnelFairness ==
  /\ WF_tvars(Launch \/ LaunchFails)
  /\ WF_tvars(Select)
  /\ WF_tvars(StopSteps)
  /\ WF_tvars(Reap)
  /\ WF_tvars(Scan)
  /\ WF_tvars(Killed)

TunnelSpec == TunnelInit /\ [][TunnelNext]_tvars /\ TunnelFairness

----------------------------------------------------------------------------
(* Properties.                                                             *)

\* What the caller sees: the life of the process, and how far its own calls
\* have come (a call of Stop has no effect it could see before it returns).
Child  == IF process = "exited" THEN "gone" ELSE process
Status ==
  IF at \in {"failed", "stopped"} THEN at
  ELSE IF at \in {"launch", "select"} \/ answer \in Errors THEN "starting"
  ELSE "up"

Contract == INSTANCE TunnelContract WITH child <- Child, status <- Status

\* start() and Stop() implement the contract: an error is answered, and Stop
\* returns, only with the process dead; and start() always answers.
ImplementsContract == Contract!ContractSpec

\* The URL start() answers with is the first the process announced: one that
\* follows, while the first waits in urlCh or later, does not replace it.
FirstURL ==
  answer \in TunnelUrls =>
    \E i \in DOMAIN printed :
      /\ printed[i] = answer
      /\ \A j \in 1 .. i - 1 : printed[j] \notin TunnelUrls

\* The process is never blocked for good by a log nobody reads: the reader
\* drains the pipe for as long as it scans, also after start() has answered.
Drains == pipe # << >> ~> pipe = << >> \/ tooLong

\* No goroutine outlives the process: the reader, which never blocks on a
\* channel nobody receives from, ends when the process has.
ReaderEnds == process = "exited" ~> reader = "ended"

\* Stop always returns, even if the process ignores SIGTERM.
StopEnds == at = "term" ~> at \in {"stopped", "failed"}

\* tunnel.go:56: "exitHint is appended when the process dies without an error
\* line".
HintOnlyWithoutErrorLine ==
  answer = "hint" => \A i \in DOMAIN printed : printed[i] # "err"
============================================================================
