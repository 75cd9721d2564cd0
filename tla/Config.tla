------------------------------- MODULE Config -------------------------------
(***************************************************************************)
(* The settings of localhoist: src/internal/config/config.go, the commands *)
(* "config set" and "config unset" of src/cmd/localhoist/config_cmd.go,    *)
(* and the part of run() in main.go that picks the transport and asks      *)
(* whether to keep it.                                                     *)
(*                                                                         *)
(* There are two files, the global one and the project's.  They are read   *)
(* one after the other, and rewritten in place: os.WriteFile truncates and *)
(* then writes, and other processes may come in between.                   *)
(*                                                                         *)
(* A file is known by its kind, its "transport" and whether it has keys    *)
(* this version does not know.                                             *)
(***************************************************************************)
EXTENDS Naturals, Processes

CONSTANTS
  Initial,      \* what a file may be at first
  Edits,        \* what the user may write into one
  MaxEdits,     \* bound: how often the user does
  Faults        \* file operations may fail

Files == {"global", "project"}
Transports == {"cloudflare", "ngrok"}
DefaultTransport == "cloudflare"

Content(kind, transport, others) ==
  [kind |-> kind, transport |-> transport, others |-> others]

Object(transport, others) == Content("object", transport, others)
Missing == Content("missing", "", FALSE)
Blank   == Content("blank", "", FALSE)      \* zero bytes
Broken  == Content("broken", "", FALSE)     \* no JSON object
Null    == Content("null", "", FALSE)       \* the JSON null

\* What a file may say of the transport: one there is, none, or no such thing.
Values == Transports \cup {"", "invalid"}

Contents ==
  {Missing, Blank, Broken, Null} \cup {Object(t, o) : t \in Values, o \in BOOLEAN}

ASSUME ConfigAssumption ==
  /\ Initial \cup Edits \subseteq Contents
  /\ MaxEdits \in Nat
  /\ Faults \in BOOLEAN

----------------------------------------------------------------------------
(* Resolve and Finalize.                                                   *)

Resolution(transport, source, saved) ==
  [transport |-> transport, source |-> source, saved |-> saved]

Failed == Resolution("", "error", "")
ByDefault == Resolution(DefaultTransport, "default", "")

\* Bug: a file that cannot be parsed is an empty configuration.
ReadableAlways(content) == TRUE

\* Read: a missing file is an empty configuration, and so is null.
Readable(content) == content.kind \notin {"blank", "broken"}

\* Bug: the first file that sets a transport wins.
LayerFirst(res, content, source) ==
  IF res = Failed \/ ~Readable(content) \/ content.transport = "invalid"
  THEN Failed
  ELSE IF content.transport = "" \/ res # ByDefault THEN res
  ELSE Resolution(content.transport, source, content.transport)

\* One turn of the loop of Resolve.
Layer(res, content, source) ==
  IF res = Failed \/ ~Readable(content) \/ content.transport = "invalid"
  THEN Failed
  ELSE IF content.transport = "" THEN res
  ELSE Resolution(content.transport, source, content.transport)

\* Bug: what the files say is forgotten.
OnTopForgets(res, flag) ==
  IF res = Failed \/ flag = "" THEN res
  ELSE IF flag \notin Transports THEN Failed
  ELSE Resolution(flag, "flag", "")

\* The --transport flag on top of the files.
OnTop(res, flag) ==
  IF res = Failed \/ flag = "" THEN res
  ELSE IF flag \notin Transports THEN Failed
  ELSE Resolution(flag, "flag", res.saved)

\* Bug: a domain switches to ngrok, whatever was chosen.
FinalizeAlways(res, domain) ==
  IF res = Failed \/ ~domain THEN res ELSE [res EXCEPT !.transport = "ngrok"]

\* A static domain needs ngrok: the default gives way, a choice does not.
Finalize(res, domain) ==
  IF res = Failed \/ ~domain \/ res.transport = "ngrok" THEN res
  ELSE IF res.source = "default" THEN [res EXCEPT !.transport = "ngrok"]
  ELSE Failed

----------------------------------------------------------------------------

VARIABLES
  files,      \* the two files
  theirs,     \* history: where the user has keys of another version
  damaged,    \* history: files left by a writer cut short, or by two at once
  answered,   \* history: the global file holds an answer given at the prompt
  knew,       \* history: runs that began with an answer there, still there
  edits,      \* how often the user has written a file
  phase,      \* what each process does next
  job,        \* what it was asked to do
  res,        \* the Resolution a run has so far
  saw,        \* history: both files when a run read the first
  map         \* the content a process is going to write

cvars == <<files, theirs, damaged, answered, knew, edits, phase, job, res, saw, map>>

Phases == {"idle", "project", "finalize", "tunnel", "prompt", "read", "truncate",
           "write", "over"}

\* What a process is asked: to run, or to change a file.
Job(cmd, file, value, flag, domain) ==
  [cmd |-> cmd, file |-> file, value |-> value, flag |-> flag, domain |-> domain]

NoJob == Job("none", "global", "", "", FALSE)

ConfigInit ==
  /\ files \in [Files -> Initial]
  /\ theirs = [f \in Files |-> files[f].others]
  /\ damaged = {f \in Files : ~Readable(files[f])}
  /\ answered = FALSE
  /\ knew = {}
  /\ edits = 0
  /\ phase = [p \in Procs |-> "idle"]
  /\ job = [p \in Procs |-> NoJob]
  /\ res = [p \in Procs |-> ByDefault]
  /\ saw = [p \in Procs |-> [f \in Files |-> Missing]]
  /\ map = [p \in Procs |-> Missing]

\* A command ends, or a run has no more to do with the settings: what it knows of
\* them is gone.
Ends(p) ==
  /\ phase' = [phase EXCEPT ![p] = "over"]
  /\ job' = [job EXCEPT ![p] = NoJob]
  /\ res' = [res EXCEPT ![p] = ByDefault]
  /\ saw' = [saw EXCEPT ![p] = [f \in Files |-> Missing]]
  /\ map' = [map EXCEPT ![p] = Missing]

Disk == <<files, theirs, damaged, answered, knew, edits>>

----------------------------------------------------------------------------
(* A run picks its transport.                                              *)

\* Resolve reads the global file.
ReadGlobal(p, flag, domain) ==
  /\ phase[p] = "idle"
  /\ phase' = [phase EXCEPT ![p] = "project"]
  /\ job' = [job EXCEPT ![p] = Job("run", "global", "", flag, domain)]
  /\ res' = [res EXCEPT ![p] = Layer(ByDefault, files["global"], "global")]
  /\ saw' = [saw EXCEPT ![p] = files]
  /\ knew' = IF answered THEN knew \cup {p} ELSE knew
  /\ UNCHANGED <<files, theirs, damaged, answered, edits, map>>

\* Resolve reads the project's file.
ReadProject(p) ==
  /\ phase[p] = "project"
  /\ phase' = [phase EXCEPT ![p] = "finalize"]
  /\ res' = [res EXCEPT ![p] = Layer(@, files["project"], "project")]
  /\ saw' = [saw EXCEPT ![p] = [f \in Files |-> Missing]]
  /\ UNCHANGED <<Disk, job, map>>

\* The flag and the domain; an error ends the run.
Settle(p) ==
  /\ phase[p] = "finalize"
  /\ LET final == Finalize(OnTop(res[p], job[p].flag), job[p].domain)
     IN IF final = Failed THEN Ends(p)
        ELSE /\ phase' = [phase EXCEPT ![p] = "tunnel"]
             /\ res' = [res EXCEPT ![p] = final]
             /\ UNCHANGED <<job, saw, map>>
  /\ UNCHANGED Disk

\* A choice the files do not know, and not the default, is worth a question.
WorthAsking(r) ==
  r.source = "flag" /\ r.saved = "" /\ r.transport # DefaultTransport

\* The tunnel is up, and the user is asked if there is a terminal.
TunnelOpen(p) ==
  /\ phase[p] = "tunnel"
  /\ \/ /\ WorthAsking(res[p])
        /\ phase' = [phase EXCEPT ![p] = "prompt"]
        /\ UNCHANGED <<job, res, saw, map>>
     \/ Ends(p)
  /\ UNCHANGED Disk

\* The answer picks what is saved: the transport of the run, or the default.
AnswerPrompt(p) ==
  /\ phase[p] = "prompt"
  /\ phase' = [phase EXCEPT ![p] = "read"]
  /\ \E choice \in {DefaultTransport, res[p].transport} :
       job' = [job EXCEPT ![p].value = choice]
  /\ UNCHANGED <<Disk, res, saw, map>>

----------------------------------------------------------------------------
(* Set and Unset.                                                          *)

\* "config set" and "config unset".
StartCommand(p) ==
  /\ phase[p] = "idle"
  /\ phase' = [phase EXCEPT ![p] = "read"]
  /\ \E file \in Files, value \in Values :
       job' = [job EXCEPT ![p] =
         Job(IF value = "" THEN "unset" ELSE "set", file, value, "", FALSE)]
  /\ UNCHANGED <<Disk, res, saw, map>>

\* Bug: Set takes any value.
NothingButErrors(p) ==
  LET old == files[job[p].file]
  IN ~Readable(old) \/ (job[p].cmd = "unset" /\ old.transport = "")

\* A value no transport has, a file that cannot be read, or nothing to unset.
NothingToWrite(p) ==
  LET old == files[job[p].file]
  IN \/ job[p].value = "invalid"
     \/ ~Readable(old)
     \/ job[p].cmd = "unset" /\ old.transport = ""

ReadForUpdate(p) ==
  /\ phase[p] = "read"
  /\ ~NothingToWrite(p)
  /\ files[job[p].file].kind # "null"
  /\ phase' = [phase EXCEPT ![p] = "truncate"]
  /\ map' = [map EXCEPT ![p] = Object(job[p].value, files[job[p].file].others)]
  /\ UNCHANGED <<Disk, job, res, saw>>

\* The file is left alone.
LeaveFile(p) ==
  /\ \/ phase[p] = "read" /\ NothingToWrite(p)
     \/ Faults /\ phase[p] \in {"read", "truncate"}
  /\ Ends(p)
  /\ UNCHANGED Disk

\* null leaves Read without a map, and Set panics as it assigns to it.
SetPanics(p) ==
  /\ phase[p] = "read"
  /\ ~NothingToWrite(p)
  /\ files[job[p].file].kind = "null"
  /\ Ends(p)
  /\ UNCHANGED Disk

\* Somebody else is in the middle of writing the file.
Contended(p) ==
  \E q \in Procs \ {p} : phase[q] = "write" /\ job[q].file = job[p].file

\* Bug: the file is opened without truncating it.
OpenOnly(p) ==
  /\ phase[p] = "truncate"
  /\ phase' = [phase EXCEPT ![p] = "write"]
  /\ UNCHANGED <<Disk, job, res, saw, map>>

\* os.WriteFile opens the file and truncates it.
Truncate(p) ==
  /\ phase[p] = "truncate"
  /\ phase' = [phase EXCEPT ![p] = "write"]
  /\ files' = [files EXCEPT ![job[p].file] = Blank]
  /\ damaged' = IF Contended(p) THEN damaged \cup {job[p].file}
                ELSE damaged \ {job[p].file}
  /\ UNCHANGED <<theirs, answered, knew, edits, job, res, saw, map>>

\* How long a content is, as far as that matters.
Size(c) ==
  (IF c.others THEN 4 ELSE 0)
    + CASE c.transport = "cloudflare" -> 3 [] c.transport = "ngrok" -> 2
        [] c.transport = "invalid" -> 1 [] OTHER -> 0

\* What is there after a write from the start of a file: if the file was longer
\* its tail is still there.
Overlay(old, new) ==
  IF old.kind # "object" THEN {new} \cup ({old} \cap {Broken})
  ELSE IF Size(old) > Size(new) THEN {Broken}
  ELSE {new}

\* An answer saved to the global file, or lost from it.
Remember(p, file, content) ==
  LET saved == content.kind = "object" /\ content.transport \in Transports
      lost  == file = "global" /\ ~saved
  IN /\ answered' = ((answered \/ (file = "global" /\ job[p].cmd = "run")) /\ ~lost)
     /\ knew' = IF lost THEN {} ELSE knew

\* os.WriteFile writes.
Write(p) ==
  /\ phase[p] = "write"
  /\ LET file == job[p].file
     IN \E new \in Overlay(files[file], map[p]) :
          /\ files' = [files EXCEPT ![file] = new]
          /\ damaged' = IF Contended(p) THEN damaged \cup {file} ELSE damaged
          /\ Remember(p, file, new)
  /\ Ends(p)
  /\ UNCHANGED <<theirs, edits>>

\* The write fails, or the process is killed in it: the file is damaged.
CutShort(p) ==
  /\ phase[p] = "write"
  /\ files' \in {files, [files EXCEPT ![job[p].file] = Broken]}
  /\ damaged' = damaged \cup {job[p].file}
  /\ answered' = (answered /\ job[p].file # "global")
  /\ knew' = IF job[p].file = "global" THEN {} ELSE knew
  /\ UNCHANGED <<theirs, edits>>

WriteFails(p) == Faults /\ CutShort(p) /\ Ends(p)

----------------------------------------------------------------------------
(* The outside.                                                            *)

\* SIGKILL, or for a run a signal or the end of the startup or of the tunnel.
KillProcess(p) ==
  /\ phase[p] \notin {"idle", "over"}
  /\ Ends(p)
  /\ IF phase[p] = "write" THEN CutShort(p) ELSE UNCHANGED Disk

\* The user writes a file, not between a process's reading it and writing it: what is
\* written in between is lost, as it is with any editor (config.go:158-173).
UserWrites(f) ==
  /\ edits < MaxEdits
  /\ \A p \in Procs : phase[p] \in {"truncate", "write"} => job[p].file # f
  /\ edits' = edits + 1
  /\ \E new \in Edits :
       /\ files' = [files EXCEPT ![f] = new]
       /\ theirs' = [theirs EXCEPT ![f] = new.others]
       /\ damaged' = IF Readable(new) THEN damaged \ {f} ELSE damaged \cup {f}
  /\ answered' = (answered /\ f # "global")
  /\ knew' = IF f = "global" THEN {} ELSE knew
  /\ UNCHANGED <<phase, job, res, saw, map>>

ConfigStep(p) ==
  \/ ReadProject(p) \/ Settle(p) \/ TunnelOpen(p) \/ AnswerPrompt(p)
  \/ StartCommand(p) \/ ReadForUpdate(p) \/ LeaveFile(p) \/ SetPanics(p)
  \/ Truncate(p) \/ Write(p) \/ WriteFails(p) \/ KillProcess(p)

----------------------------------------------------------------------------
(* Properties.                                                             *)

ConfigTypeOK ==
  /\ files \in [Files -> Contents]
  /\ theirs \in [Files -> BOOLEAN]
  /\ damaged \subseteq Files
  /\ answered \in BOOLEAN /\ knew \subseteq Procs
  /\ edits \in 0 .. MaxEdits
  /\ phase \in [Procs -> Phases]
  /\ \A p \in Procs :
       /\ res[p].transport \in Transports \cup {""}
       /\ phase[p] \in {"tunnel", "prompt"} => res[p] # Failed
       /\ phase[p] \in {"truncate", "write"} =>
            map[p].transport \in Transports \cup {""}

\* config.go:136-137: "keys this version doesn't know about survive a
\* read-modify-write".  Every command and every answer leaves them as the user last
\* wrote them, except in a file that cannot be read: one that is just being rewritten,
\* or that was left so by a writer cut short or by two at once.  There they are lost,
\* for the file is truncated in place (config.go:226), against that comment; a file
\* that can be read always has them.
KeysKept ==
  \A f \in Files :
    \/ files[f].others = theirs[f]
    \/ /\ files[f].kind \in {"blank", "broken"}
       /\ f \in damaged \/ \E p \in Procs : phase[p] = "write" /\ job[p].file = f

\* A file nobody is writing can only be unreadable if a writer was cut short,
\* if two wrote at once, or if the user wrote it so.
ReadableUnlessDamaged ==
  \A f \in Files :
    (\A p \in Procs : phase[p] = "write" => job[p].file # f) =>
      Readable(files[f]) \/ f \in damaged

\* main.go:230-232 says of the answer that it is written to the global config so that
\* the question is asked exactly once.  That holds of a run that reads the global file
\* (main.go:99) after the answer was saved there, and for as long as it stays there.
\* It does not of two runs that overlap: the second may have read the file before the
\* first one's answer, and then asks again.
AskedOnce == \A p \in knew : phase[p] # "prompt"

\* What a run goes up with honours all the user has asked of it: the flag, and
\* ngrok for a static domain (config.go:112-114).
HonoursChoices ==
  \A p \in Procs : phase[p] \in {"tunnel", "prompt"} =>
    /\ job[p].flag # "" => res[p].transport = job[p].flag
    /\ job[p].domain => res[p].transport = "ngrok"

\* config.go:1-2: project before global before default, and no file that cannot
\* be used.
Precedence(fs) ==
  IF \E f \in Files : ~Readable(fs[f]) \/ fs[f].transport = "invalid" THEN Failed
  ELSE IF fs["project"].transport # ""
  THEN Resolution(fs["project"].transport, "project", fs["project"].transport)
  ELSE IF fs["global"].transport # ""
  THEN Resolution(fs["global"].transport, "global", fs["global"].transport)
  ELSE ByDefault

\* The two files are read one after the other; the result is what they said
\* together at one moment, unless both have changed in between.
ResolvesAtOnce ==
  [][\A p \in Procs : phase[p] = "project" /\ phase'[p] = "finalize" =>
       \/ res'[p] \in {Precedence(saw[p]), Precedence(files)}
       \/ \A f \in Files : files[f] # saw[p][f]]_cvars
\* What a file holds while it is rewritten is what its one writer is going to
\* write; with two writers, or one cut short, it is damaged.
Held(f) ==
  LET writers == {p \in Procs : phase[p] = "write" /\ job[p].file = f}
      content == IF writers = {} THEN files[f] ELSE map[CHOOSE p \in writers : TRUE]
  IN IF f \in damaged THEN [said |-> "lost", keys |-> FALSE]
     ELSE [said |-> content.transport, keys |-> content.others]

\* What a process has been asked to change, until it is done with it.
Asked(p) ==
  IF phase[p] \in {"read", "truncate", "write"}
  THEN [file |-> job[p].file, value |-> job[p].value, made |-> phase[p] = "write"]
  ELSE [file |-> "none", value |-> "", made |-> FALSE]

\* What a file says of the transport once Set or Unset has written it.
Writable == Transports \cup {""}

Whole == INSTANCE Settings WITH
  Said <- Values, Accepted <- Writable,
  held <- [f \in Files |-> Held(f)], keys <- theirs,
  change <- [p \in Procs |-> Asked(p)]

\* Set, Unset and write (config.go:154-227) look like one change of one file at one
\* moment, however the processes that truncate and write it are interleaved, and
\* whichever of them fails or is killed.
ImplementsSettings == Whole!SettingsSpec
============================================================================
