--------------------------- MODULE TunnelProofs ---------------------------
(***************************************************************************)
(* start() and Stop() keep the contract run() relies on, for any log.      *)
(***************************************************************************)
EXTENDS Tunnel, TLAPS

\* What the waiter goroutine, and only it, tells the caller.
TunnelInv ==
  /\ process \in {"none", "running", "exited"}
  /\ at \in {"launch", "select", "term", "grace", "reap", "up", "failed",
             "stopped"}
  /\ answer \in TunnelUrls \cup Errors \cup {"none"}
  /\ urlCh \in TunnelUrls \cup {NoUrl}
  /\ done => process = "exited"
  /\ at \in {"launch", "select"} <=> answer = "none"
  /\ at = "launch" => process = "none"
  /\ process = "none" => at \in {"launch", "failed"}
  /\ at \in {"up", "stopped"} => answer \in TunnelUrls
  /\ at = "failed" => answer \in Errors
  /\ at \in {"failed", "stopped"} => process # "running"

LEMMA TunnelInitInv == TunnelInit => TunnelInv
  BY TunnelAssumption DEF TunnelInit, TunnelInv, Errors

LEMMA TunnelNextInv ==
  ASSUME TunnelInv, [TunnelNext]_tvars
  PROVE  TunnelInv'
<1> USE TunnelAssumption DEF TunnelInv, Errors
<1>1. CASE Launch \/ LaunchFails \/ Select
  BY <1>1 DEF Launch, LaunchFails, Select, ReceiveURL, ReceiveErr, ReceiveDone,
              StartupTimeout, procVars, readerVars
<1>2. CASE CallStop \/ StopSteps
  BY <1>2 DEF CallStop, StopSteps, Terminate, GraceOver, StopReturns, procVars, readerVars
<1>3. CASE Reap
  BY <1>3 DEF Reap, procVars, readerVars, callerVars
<1>4. CASE Scan
  BY <1>4 DEF Scan, Read, ScanURL, ScanErr, ScanNoise, ScanHuge, ScanEnd, procVars,
              callerVars
<1>5. CASE PrintLine \/ ProcessExits
  BY <1>5 DEF PrintLine, ProcessExits, readerVars, callerVars
<1>6. CASE UNCHANGED tvars
  BY <1>6 DEF tvars, procVars, readerVars, callerVars
<1> QED
  BY <1>1, <1>2, <1>3, <1>4, <1>5, <1>6 DEF TunnelNext

\* Every state keeps what the caller relies on: see TunnelInv.
THEOREM TunnelInvariant == TunnelSpec => []TunnelInv
  BY TunnelInitInv, TunnelNextInv, PTL DEF TunnelSpec

----------------------------------------------------------------------------
(* Refinement.                                                             *)

\* The refinement mapping, case by case.
LEMMA StatusCases ==
  /\ at \in {"failed", "stopped"} => Status = at
  /\ at \in {"launch", "select"} => Status = "starting"
  /\ at \notin {"failed", "stopped"} /\ answer \in Errors => Status = "starting"
  /\ at \notin {"failed", "stopped", "launch", "select"} /\ answer \notin Errors
       => Status = "up"
  BY DEF Status

\* Every step of start(), Stop() and the goroutines is a step of the contract,
\* or one the caller does not see.
LEMMA ContractStep ==
  ASSUME TunnelInv, TunnelInv', [TunnelNext]_tvars
  PROVE  [Contract!ContractNext]_(Contract!cvars)
<1> USE TunnelAssumption DEF TunnelInv, Errors
<1>m. /\ Contract!ContractNext <=>
           \/ Status = "starting" /\ Child = "none" /\ Child' = "running" /\ Status' = Status
           \/ Child = "running" /\ Child' = "gone" /\ Status' = Status
           \/ Status = "starting" /\ Child # "none" /\ Status' = "up" /\ Child' = Child
           \/ Status = "starting" /\ Child # "running" /\ Status' = "failed" /\ Child' = Child
           \/ Status = "up" /\ Child = "gone" /\ Status' = "stopped" /\ Child' = Child
      /\ UNCHANGED Contract!cvars <=> (Child' = Child /\ Status' = Status)
  BY DEF Contract!ContractNext, Contract!Spawn, Contract!Die, Contract!Up, Contract!Fail,
         Contract!Stopped, Contract!cvars, Child, Status
<1>s. /\ at' \in {"failed", "stopped"} => Status' = at'
      /\ at' \in {"launch", "select"} => Status' = "starting"
      /\ at' \notin {"failed", "stopped"} /\ answer' \in Errors => Status' = "starting"
      /\ at' \notin {"failed", "stopped", "launch", "select"} /\ answer' \notin Errors
           => Status' = "up"
  BY DEF Status
<1>1. CASE Launch
  BY <1>1, <1>m, <1>s, StatusCases DEF Launch, Child
<1>2. CASE LaunchFails
  BY <1>2, <1>m, <1>s, StatusCases DEF LaunchFails, procVars, Child
<1>3. CASE ReceiveURL
  BY <1>3, <1>m, <1>s, StatusCases DEF ReceiveURL, procVars, Child
<1>4. CASE ReceiveDone
  BY <1>4, <1>m, <1>s, StatusCases DEF ReceiveDone, procVars, Child
<1>5. CASE ReceiveErr \/ StartupTimeout \/ CallStop \/ Terminate \/ GraceOver
  <2>1. Child' = Child
    BY <1>5 DEF ReceiveErr, StartupTimeout, CallStop, Terminate, GraceOver, procVars, Child
  <2>2. Status' = Status
    BY <1>5, <1>s, StatusCases
    DEF ReceiveErr, StartupTimeout, CallStop, Terminate, GraceOver
  <2> QED
    BY <2>1, <2>2, <1>m
<1>6. CASE StopReturns
  BY <1>6, <1>m, <1>s, StatusCases DEF StopReturns, procVars, Child
<1>7. CASE ProcessExits
  <2>1. Child = "running" /\ Child' = "gone" /\ UNCHANGED callerVars
    BY <1>7 DEF ProcessExits, Child
  <2>2. Status' = Status
    BY <2>1 DEF callerVars, Status
  <2> QED
    BY <2>1, <2>2, <1>m
<1>8. CASE Reap \/ Scan \/ PrintLine \/ UNCHANGED tvars
  <2>1. process' = process /\ UNCHANGED callerVars
    BY <1>8 DEF Reap, Scan, Read, ScanURL, ScanErr, ScanNoise, ScanHuge, ScanEnd,
                PrintLine, tvars, procVars
  <2>2. Child' = Child /\ Status' = Status
    BY <2>1 DEF callerVars, Child, Status
  <2> QED
    BY <2>2, <1>m
<1> QED
  BY <1>1, <1>2, <1>3, <1>4, <1>5, <1>6, <1>7, <1>8 DEF TunnelNext, Select, StopSteps

\* tunnel.Start answers an error, and tun.Stop returns, only with the tunnel
\* process dead: what Session.tla takes for granted.
THEOREM TunnelKeepsContract == TunnelSpec => Contract!ContractSafety
<1>1. TunnelInit => Contract!ContractInit
  BY DEF TunnelInit, Contract!ContractInit, Child, Status
<1>2. TunnelInv /\ TunnelInv' /\ [TunnelNext]_tvars => [Contract!ContractNext]_(Contract!cvars)
  BY ContractStep
<1> QED
  BY <1>1, <1>2, TunnelInvariant, PTL DEF TunnelSpec, Contract!ContractSafety

----------------------------------------------------------------------------
(* The log: what the reader has, and has not, seen of it.                  *)

\* Both parsers make a line of one of the classes start() tells apart.
LEMMA ScannedLines == Scanned \subseteq Lines
<1>1. \A line \in NgrokEntries : ParseLogLine(line) \in Lines
  BY DEF NgrokEntries, ParseLogLine, Lines
<1>2. \A line \in CloudflaredLines : ParseCloudflaredLine(line) \in Lines
  BY DEF CloudflaredLines, ParseCloudflaredLine, Lines
<1> QED
  BY <1>1, <1>2 DEF Scanned, Lines

\* What is left of a sequence cut in two, element by element.
LEMMA Cut ==
  ASSUME NEW S, NEW s \in Seq(S), NEW n \in 0 .. Len(s)
  PROVE  /\ SubSeq(s, 1, n) \in Seq(S) /\ Len(SubSeq(s, 1, n)) = n
         /\ SubSeq(s, n + 1, Len(s)) \in Seq(S)
         /\ Len(SubSeq(s, n + 1, Len(s))) = Len(s) - n
         /\ \A i \in 1 .. n : SubSeq(s, 1, n)[i] = s[i]
         /\ \A i \in 1 .. Len(s) - n : SubSeq(s, n + 1, Len(s))[i] = s[n + i]
  OBVIOUS

\* The head of a sequence and what follows it, element by element.
LEMMA HeadTail ==
  ASSUME NEW S, NEW s \in Seq(S), s # << >>
  PROVE  /\ Len(s) \in Nat \ {0} /\ Head(s) = s[1] /\ Head(s) \in S
         /\ Tail(s) \in Seq(S) /\ Len(Tail(s)) = Len(s) - 1
         /\ \A i \in 1 .. Len(s) - 1 : Tail(s)[i] = s[i + 1]
  OBVIOUS

LEMMA TunnelTypeStep ==
  ASSUME TunnelTypeOK, [TunnelNext]_tvars
  PROVE  TunnelTypeOK'
<1> USE DEF TunnelTypeOK
<1>1. CASE Launch \/ LaunchFails \/ Select
  BY <1>1 DEF Launch, LaunchFails, Select, ReceiveURL, ReceiveErr, ReceiveDone,
              StartupTimeout, Errors, procVars, readerVars
<1>2. CASE CallStop \/ StopSteps
  BY <1>2 DEF CallStop, StopSteps, Terminate, GraceOver, StopReturns, procVars, readerVars
<1>3. CASE Reap
  BY <1>3 DEF Reap, procVars, readerVars, callerVars
<1>4. CASE Read
  BY <1>4, Cut DEF Read, procVars, callerVars
<1>5. CASE ScanURL \/ ScanErr \/ ScanNoise \/ ScanHuge \/ ScanEnd
  <2>1. chunk' \in {chunk, << >>} \/ (chunk # << >> /\ chunk' = Tail(chunk))
    BY <1>5 DEF ScanURL, ScanErr, ScanNoise, ScanHuge, ScanEnd
  <2>2. chunk' \in Seq(Lines)
    <3>1. << >> \in Seq(Lines)
      OBVIOUS
    <3>2. chunk # << >> => Tail(chunk) \in Seq(Lines)
      BY HeadTail
    <3> QED
      BY <2>1, <3>1, <3>2
  <2>3. CASE ScanURL
    BY <2>2, <2>3 DEF ScanURL, procVars, callerVars
  <2>4. CASE ScanErr
    BY <2>2, <2>4 DEF ScanErr, AbortOnErr, procVars, callerVars
  <2>5. CASE ScanNoise \/ ScanHuge
    BY <2>2, <2>5 DEF ScanNoise, ScanHuge, procVars, callerVars
  <2>6. CASE ScanEnd
    BY <2>2, <2>6 DEF ScanEnd, procVars, callerVars
  <2> QED
    BY <1>5, <2>3, <2>4, <2>5, <2>6
<1>6. CASE PrintLine \/ ProcessExits
  <2>1. \A line \in Scanned, s \in Seq(Lines) : Append(s, line) \in Seq(Lines)
    BY ScannedLines
  <2>2. printed' \in Seq(Lines) /\ pipe' \in Seq(Lines)
    BY <1>6, <2>1 DEF PrintLine, ProcessExits
  <2> QED
    BY <1>6, <2>2 DEF PrintLine, ProcessExits, readerVars, callerVars
<1>7. CASE UNCHANGED tvars
  BY <1>7 DEF tvars, procVars, readerVars, callerVars
<1> QED
  BY <1>1, <1>2, <1>3, <1>4, <1>5, <1>6, <1>7 DEF TunnelNext, Scan

\* Every variable keeps its type, whatever the process prints.
THEOREM TunnelTypeCorrect == TunnelSpec => []TunnelTypeOK
<1>1. << >> \in Seq(Lines)
  OBVIOUS
<1>2. TunnelInit => TunnelTypeOK
  BY <1>1 DEF TunnelInit, TunnelTypeOK
<1> QED
  BY <1>2, TunnelTypeStep, PTL DEF TunnelSpec

----------------------------------------------------------------------------
(* The first URL.                                                          *)

\* url stands in the log, and no URL before it.
Announced(url) ==
  \E i \in 1 .. Len(printed) :
    /\ printed[i] = url
    /\ \A j \in 1 .. i - 1 : printed[j] \notin TunnelUrls

\* The reader has been through k lines: what it holds and what is in the pipe
\* follows them in the log; nothing is missing at the end before the pipe is closed.
ReadUpTo(k) ==
  /\ k + Len(chunk) + Len(pipe) <= Len(printed)
  /\ ~done => k + Len(chunk) + Len(pipe) = Len(printed)
  /\ \A i \in 1 .. Len(chunk) : chunk[i] = printed[k + i]
  /\ \A i \in 1 .. Len(pipe) : pipe[i] = printed[k + Len(chunk) + i]

\* As long as start() waits, an empty urlCh means that no line so far named a URL,
\* and a full one holds the first; and that is what start() answers with.
FirstURLInv ==
  /\ process = "none" => reader = "none"
  /\ reader # "ended" =>
       \E k \in 0 .. Len(printed) :
         /\ ReadUpTo(k)
         /\ at \in {"launch", "select"} /\ urlCh = NoUrl =>
              \A j \in 1 .. k : printed[j] \notin TunnelUrls
  /\ at \in {"launch", "select"} /\ urlCh # NoUrl => Announced(urlCh)
  /\ answer \in TunnelUrls => Announced(answer)

LEMMA FirstURLInit == TunnelInit => FirstURLInv
  BY TunnelAssumption DEF TunnelInit, FirstURLInv, ReadUpTo, Announced, Errors

\* The log only grows at its end, so what was announced first stays first.
LEMMA StaysAnnounced ==
  ASSUME TunnelTypeOK, [TunnelNext]_tvars, NEW url, Announced(url)
  PROVE  Announced(url)'
<1>1. CASE UNCHANGED printed
  BY <1>1 DEF Announced
<1>2. CASE PrintLine
  <2>1. PICK line : printed' = Append(printed, line)
    BY <1>2 DEF PrintLine
  <2>2. /\ Len(printed') = Len(printed) + 1
        /\ \A i \in 1 .. Len(printed) : printed'[i] = printed[i]
    BY <2>1 DEF TunnelTypeOK
  <2>3. PICK i \in 1 .. Len(printed) :
          printed[i] = url /\ \A j \in 1 .. i - 1 : printed[j] \notin TunnelUrls
    BY DEF Announced
  <2>4. Len(printed) \in Nat
    BY DEF TunnelTypeOK
  <2> QED
    BY <2>2, <2>3, <2>4 DEF Announced
<1> QED
  BY <1>1, <1>2 DEF TunnelNext, Launch, LaunchFails, Select, ReceiveURL, ReceiveErr,
       ReceiveDone, StartupTimeout, CallStop, StopSteps, Terminate, GraceOver, StopReturns,
       Reap, Scan, Read, ScanURL, ScanErr, ScanNoise, ScanHuge, ScanEnd, ProcessExits,
       tvars, procVars

LEMMA FirstURLStep ==
  ASSUME TunnelTypeOK, TunnelInv, FirstURLInv, [TunnelNext]_tvars
  PROVE  FirstURLInv'
<1> USE TunnelAssumption, TransportAssumption
<1>t. /\ Len(printed) \in Nat /\ Len(pipe) \in Nat /\ Len(chunk) \in Nat
      /\ printed \in Seq(Lines) /\ pipe \in Seq(Lines) /\ chunk \in Seq(Lines)
  BY DEF TunnelTypeOK
<1>a. ASSUME NEW url, Announced(url)
      PROVE  \E i \in 1 .. Len(printed') :
               /\ printed'[i] = url
               /\ \A j \in 1 .. i - 1 : printed'[j] \notin TunnelUrls
  BY <1>a, StaysAnnounced DEF Announced
<1>b. ASSUME ScanURL, at \in {"launch", "select"}, urlCh = NoUrl
      PROVE  Announced(Head(chunk))
  <2>1. chunk # << >> /\ reader = "scanning"
    BY <1>b DEF ScanURL
  <2>2. PICK k \in 0 .. Len(printed) :
          ReadUpTo(k) /\ \A j \in 1 .. k : printed[j] \notin TunnelUrls
    BY <1>b, <2>1 DEF FirstURLInv
  <2>3. Len(chunk) > 0 /\ Head(chunk) = chunk[1]
    BY <1>t, <2>1, HeadTail
  <2>4. k + 1 \in 1 .. Len(printed) /\ printed[k + 1] = Head(chunk)
    <3>1. k + Len(chunk) + Len(pipe) <= Len(printed) /\ printed[k + 1] = chunk[1]
      BY <2>2, <2>3 DEF ReadUpTo
    <3>2. Len(chunk) \in Nat /\ Len(pipe) \in Nat /\ Len(printed) \in Nat /\ k \in Nat
      BY <1>t, <2>2
    <3> QED
      BY <2>3, <3>1, <3>2
  <2> QED
    BY <2>2, <2>4 DEF Announced
<1>1. (process = "none" => reader = "none")'
  BY DEF FirstURLInv, TunnelNext, Launch, LaunchFails, Select, ReceiveURL, ReceiveErr,
     ReceiveDone, StartupTimeout, CallStop, StopSteps, Terminate, GraceOver, StopReturns,
     Reap, Scan, Read, ScanURL, ScanErr, ScanNoise, ScanHuge, ScanEnd, PrintLine,
     ProcessExits, tvars, procVars, readerVars
<1>2. (answer \in TunnelUrls => Announced(answer))'
  <2>1. \/ answer' = answer \/ answer' \in Errors
        \/ at = "select" /\ urlCh # NoUrl /\ answer' = urlCh
    BY DEF TunnelNext, Launch, LaunchFails, Select, ReceiveURL, ReceiveErr,
       ReceiveDone, StartupTimeout, CallStop, StopSteps, Terminate, GraceOver, StopReturns,
       Reap, Scan, Read, ScanURL, ScanErr, ScanNoise, ScanHuge, ScanEnd, PrintLine,
       ProcessExits, tvars, callerVars, Errors
  <2>2. answer' \in TunnelUrls => Announced(answer')
    BY <2>1 DEF FirstURLInv
  <2> QED
    BY <2>2, <1>a DEF Announced
<1>3. (at \in {"launch", "select"} /\ urlCh # NoUrl => Announced(urlCh))'
  <2>1. \/ urlCh' = urlCh \/ urlCh' = NoUrl
        \/ ScanURL /\ urlCh = NoUrl /\ urlCh' = Head(chunk)
    BY DEF TunnelNext, Launch, LaunchFails, Select, ReceiveURL, ReceiveErr,
       ReceiveDone, StartupTimeout, CallStop, StopSteps, Terminate, GraceOver, StopReturns,
       Reap, Scan, Read, ScanURL, ScanErr, ScanNoise, ScanHuge, ScanEnd, PrintLine,
       ProcessExits, tvars, readerVars
  <2>2. at' \in {"launch", "select"} => at \in {"launch", "select"}
    BY DEF TunnelNext, Launch, LaunchFails, Select, ReceiveURL, ReceiveErr,
       ReceiveDone, StartupTimeout, CallStop, StopSteps, Terminate, GraceOver, StopReturns,
       Reap, Scan, Read, ScanURL, ScanErr, ScanNoise, ScanHuge, ScanEnd, PrintLine,
       ProcessExits, tvars, callerVars
  <2>3. at' \in {"launch", "select"} /\ urlCh' # NoUrl => Announced(urlCh')
    BY <2>1, <2>2, <1>b DEF FirstURLInv
  <2> QED
    BY <2>3, <1>a DEF Announced
<1>4. ASSUME reader' # "ended"
      PROVE  \E k \in 0 .. Len(printed') :
               /\ ReadUpTo(k)'
               /\ at' \in {"launch", "select"} /\ urlCh' = NoUrl =>
                    \A j \in 1 .. k : printed'[j] \notin TunnelUrls
  <2>r. reader # "ended"
    BY <1>4 DEF FirstURLInv, TunnelNext, Launch, LaunchFails, Select, ReceiveURL, ReceiveErr,
     ReceiveDone, StartupTimeout, CallStop, StopSteps, Terminate, GraceOver, StopReturns,
     Reap, Scan, Read, ScanURL, ScanErr, ScanNoise, ScanHuge, ScanEnd, PrintLine,
     ProcessExits, tvars, readerVars, TunnelInv
  <2>k. PICK k \in 0 .. Len(printed) :
          /\ ReadUpTo(k)
          /\ at \in {"launch", "select"} /\ urlCh = NoUrl =>
               \A j \in 1 .. k : printed[j] \notin TunnelUrls
    BY <2>r DEF FirstURLInv
  <2>1. CASE Launch \/ LaunchFails \/ Select \/ CallStop \/ StopSteps \/ ProcessExits
             \/ ScanEnd \/ ScanHuge \/ UNCHANGED tvars
    <3>1. UNCHANGED <<printed, pipe, chunk, done>>
      BY <2>1, <1>4 DEF Launch, LaunchFails, Select, ReceiveURL, ReceiveErr,
         ReceiveDone, StartupTimeout, CallStop, StopSteps, Terminate, GraceOver, StopReturns,
         ScanHuge, ScanEnd, ProcessExits, tvars, procVars, readerVars
    <3>2. at' \in {"launch", "select"} /\ urlCh' = NoUrl =>
            at \in {"launch", "select"} /\ urlCh = NoUrl
      BY <2>1, <1>4 DEF Launch, LaunchFails, Select, ReceiveURL, ReceiveErr,
         ReceiveDone, StartupTimeout, CallStop, StopSteps, Terminate, GraceOver, StopReturns,
         ScanHuge, ScanEnd, ProcessExits, tvars, readerVars, callerVars
    <3> QED
      BY <2>k, <3>1, <3>2 DEF ReadUpTo
  <2>2. CASE Reap
    <3>1. /\ UNCHANGED <<printed, chunk, at, urlCh>> /\ done' /\ pipe' = << >>
      BY <2>2 DEF Reap, procVars, readerVars, callerVars
    <3> QED
      BY <2>k, <3>1, <1>t DEF ReadUpTo
  <2>3. CASE Read
    <3>1. PICK n \in 1 .. Len(pipe) :
            /\ chunk = << >>
            /\ chunk' = SubSeq(pipe, 1, n)
            /\ pipe' = SubSeq(pipe, n + 1, Len(pipe))
            /\ UNCHANGED <<printed, done, at, urlCh>>
      BY <2>3 DEF Read, procVars, callerVars
    <3>2. /\ Len(chunk') = n /\ Len(pipe') = Len(pipe) - n
          /\ \A i \in 1 .. n : chunk'[i] = pipe[i]
          /\ \A i \in 1 .. Len(pipe) - n : pipe'[i] = pipe[n + i]
      BY <3>1, <1>t, Cut
    <3>3. Len(chunk) = 0
      BY <3>1
    <3>4. /\ n \in Nat /\ k \in Nat /\ Len(pipe) - n \in Nat
          /\ \A i \in 1 .. Len(pipe) : pipe[i] = printed[k + i]
          /\ k + Len(pipe) <= Len(printed) /\ (~done => k + Len(pipe) = Len(printed))
      BY <2>k, <3>1, <3>3, <1>t DEF ReadUpTo
    <3>5. \A i \in 1 .. Len(pipe) - n : pipe'[i] = printed[k + n + i]
      <4> TAKE i \in 1 .. Len(pipe) - n
      <4>1. n + i \in 1 .. Len(pipe) /\ k + (n + i) = k + n + i
        BY <3>4, <1>t
      <4> QED
        BY <4>1, <3>2, <3>4
    <3>6. \A i \in 1 .. n : chunk'[i] = printed[k + i]
      BY <3>2, <3>4, <1>t
    <3>7. /\ k + Len(chunk') + Len(pipe') <= Len(printed')
          /\ ~done' => k + Len(chunk') + Len(pipe') = Len(printed')
      <4>1. UNCHANGED <<printed, done>>
        BY <3>1
      <4>2. Len(chunk') + Len(pipe') = Len(pipe)
        BY <3>2, <3>4, <1>t
      <4>3. k + Len(chunk') + Len(pipe') = k + Len(pipe)
        BY <3>2, <3>4, <4>2, <1>t
      <4> QED
        BY <3>4, <4>1, <4>3
    <3>8. ReadUpTo(k)'
      <4>1. UNCHANGED printed
        BY <3>1
      <4> QED
        BY <3>2, <3>5, <3>6, <3>7, <4>1 DEF ReadUpTo
    <3> QED
      BY <2>k, <3>1, <3>8
  <2>4. CASE ScanURL \/ ScanErr \/ ScanNoise
    <3>1. /\ chunk # << >> /\ chunk' = Tail(chunk)
          /\ UNCHANGED <<printed, pipe, done, at>>
          /\ urlCh' = NoUrl => urlCh = NoUrl /\ Head(chunk) \notin TunnelUrls
      BY <2>4 DEF ScanURL, ScanErr, ScanNoise, procVars, callerVars, Lines
    <3>2. /\ Len(chunk) > 0 /\ Head(chunk) = chunk[1] /\ Len(chunk') = Len(chunk) - 1
          /\ \A i \in 1 .. Len(chunk) - 1 : chunk'[i] = chunk[i + 1]
      BY <3>1, <1>t, HeadTail
    <3>3. k + 1 \in 0 .. Len(printed) /\ printed[k + 1] = Head(chunk)
      BY <2>k, <3>2, <1>t DEF ReadUpTo
    <3>4. ReadUpTo(k + 1)'
      BY <2>k, <3>1, <3>2, <1>t DEF ReadUpTo
    <3>5. at' \in {"launch", "select"} /\ urlCh' = NoUrl =>
            \A j \in 1 .. k + 1 : printed'[j] \notin TunnelUrls
      BY <2>k, <3>1, <3>3
    <3> QED
      BY <3>1, <3>3, <3>4, <3>5
  <2>5. CASE PrintLine
    <3>1. PICK line : /\ printed' = Append(printed, line) /\ pipe' = Append(pipe, line)
                      /\ UNCHANGED <<chunk, done, at, urlCh>>
      BY <2>5 DEF PrintLine, readerVars, callerVars
    <3>2. /\ Len(printed') = Len(printed) + 1 /\ Len(pipe') = Len(pipe) + 1
          /\ \A i \in 1 .. Len(printed) : printed'[i] = printed[i]
          /\ \A i \in 1 .. Len(pipe) : pipe'[i] = pipe[i]
          /\ printed'[Len(printed) + 1] = line /\ pipe'[Len(pipe) + 1] = line
      BY <3>1, <1>t
    <3>3. ~done
      BY <2>5 DEF PrintLine, TunnelInv
    <3>4. k + Len(chunk) + Len(pipe) = Len(printed) /\ k \in Nat
      BY <2>k, <3>3 DEF ReadUpTo
    <3>5. \A i \in 1 .. Len(chunk) : chunk'[i] = printed'[k + i]
      BY <2>k, <3>1, <3>2, <3>4, <1>t DEF ReadUpTo
    <3>6. \A i \in 1 .. Len(pipe) + 1 : pipe'[i] = printed'[k + Len(chunk) + i]
      <4> TAKE i \in 1 .. Len(pipe) + 1
      <4>1. CASE i = Len(pipe) + 1
        BY <4>1, <3>2, <3>4, <1>t
      <4>2. CASE i \in 1 .. Len(pipe)
        <5>1. k + Len(chunk) + i \in 1 .. Len(printed)
          BY <4>2, <3>4, <1>t
        <5> QED
          BY <4>2, <5>1, <2>k, <3>2 DEF ReadUpTo
      <4> QED
        BY <4>1, <4>2, <1>t
    <3>7. UNCHANGED chunk /\ Len(printed') \in Nat
      BY <3>1, <3>2, <1>t
    <3>8. k + Len(chunk') + Len(pipe') = Len(printed')
      <4>1. Len(chunk') = Len(chunk)
        BY <3>7
      <4>2. Len(pipe') = Len(pipe) + 1 /\ Len(printed') = Len(printed) + 1
        BY <3>2
      <4> QED
        BY <4>1, <4>2, <3>4, <1>t
    <3>9. ReadUpTo(k)'
      BY <3>2, <3>5, <3>6, <3>7, <3>8 DEF ReadUpTo
    <3> QED
      BY <2>k, <3>1, <3>2, <3>9, <1>t
  <2> QED
    BY <2>1, <2>2, <2>3, <2>4, <2>5 DEF TunnelNext, Scan
<1> QED
  BY <1>1, <1>2, <1>3, <1>4 DEF FirstURLInv

\* start() answers with the first URL the process has announced, however the
\* reader, the select, the timer and the death of the process interleave, and
\* however long the log and the pipe are (tunnel.go:78-123).
THEOREM TunnelFirstURL == TunnelSpec => []FirstURL
<1>1. TunnelTypeOK /\ FirstURLInv => FirstURL
  <2>1. TunnelTypeOK => DOMAIN printed = 1 .. Len(printed)
    BY DEF TunnelTypeOK
  <2> QED
    BY <2>1 DEF FirstURLInv, FirstURL, Announced
<1> QED
  BY <1>1, FirstURLInit, FirstURLStep, TunnelTypeCorrect, TunnelInvariant, PTL DEF TunnelSpec
============================================================================
