------------------------------ MODULE Session ------------------------------
(***************************************************************************)
(* Runs of the localhoist binary in one Laravel project: run() of          *)
(* src/cmd/localhoist/main.go with the file operations it calls in         *)
(* src/internal/envfile/envfile.go.                                        *)
(*                                                                         *)
(* A run recovers the .env file a crashed run left patched, reads it,      *)
(* opens the tunnel, snapshots the original APP_URL into the sidecar file, *)
(* patches .env, serves, and on Ctrl+C or the loss of the tunnel restores  *)
(* .env and stops the tunnel.  Every system call that changes a file is a  *)
(* step of its own, and the run may be killed between any two of them.     *)
(*                                                                         *)
(* The tunnel process is seen from outside only (its life, and the answer  *)
(* of tunnel.Start); Tunnel.tla models it in detail.                       *)
(***************************************************************************)
EXTENDS EnvFile, FiniteSets

CONSTANTS
  Runs,           \* the runs of the binary, each started at most once
  AppUrl,         \* the key APP_URL
  OtherKeys,      \* keys the user edits and the program leaves alone
  UserUrls,       \* values the user gives to keys
  TunnelURL,      \* the public URL of each run's tunnel
  InitialFiles,   \* what .env may hold before the first run
  MaxEdits,       \* bound: how many edits the user makes
  NoFile,         \* the file does not exist
  Truncated,      \* the sidecar exists but is not valid JSON
  NoState,        \* the nil *State
  Overlap,        \* a run may start while another is alive
  EditWindow,     \* where the user may edit though a run holds a copy of .env
  Faults          \* file operations may fail

\* What a run does next.
PCs == {"idle", "load", "write", "rename", "remove", "detect", "open",
        "await", "notify", "snapshot", "record", "patch", "banner",
        "prompt", "wait", "stop", "over"}

UserLine == [key : Keys, raw : [url : UserUrls, quoted : BOOLEAN]]

\* What State.Original["APP_URL"] may hold: a raw text, or no entry.
Original == Raw \cup {Absent}

\* The sidecar file as LoadState sees it.
Sidecar == [original : Original] \cup {NoFile, Truncated}

ASSUME KeysAssumption ==
  /\ AppUrl \in Keys
  /\ OtherKeys \subseteq Keys \ {AppUrl}

ASSUME UrlsAssumption ==
  /\ UserUrls \subseteq Urls
  /\ TunnelURL \in [Runs -> Urls \ UserUrls]

ASSUME FilesAssumption ==
  \A file \in InitialFiles :
    /\ file \in File
    /\ file.lines \in Seq(UserLine)

ASSUME SentinelsAssumption ==
  /\ NoState \notin Original
  /\ NoFile \notin File \cup [original : Original]
  /\ Truncated \notin File \cup [original : Original]
  /\ NoFile # Truncated
  /\ Absent \notin Urls

ASSUME FlagsAssumption ==
  /\ Overlap \in BOOLEAN
  /\ EditWindow \subseteq PCs
  /\ Faults \in BOOLEAN
  /\ MaxEdits \in Nat

----------------------------------------------------------------------------

VARIABLES
  env,        \* the .env file on disk
  sidecar,    \* .env.localhoist-state.json on disk
  tmp,        \* .env.localhoist-tmp on disk
  intent,     \* history: .env as it would be had localhoist never run
  edits,      \* how many edits the user has made
  pc,         \* what each run does next
  ctx,        \* which part of run() it is in: it decides what an error or a
              \* signal does, and where a Restore or a Save returns to
  buf,        \* the lines of the envfile.File the run has in memory
  snap,       \* the *State the run has in memory, or NoState
  upstream,   \* the APP_URL from which Detect derived the app upstream
  patchEnv,   \* the flags and the missing middleware call for a patch
  child,      \* the tunnel process of the run
  sig,        \* a signal waits in sigCh
  outcome     \* how the run ended, or is going to end

files   == <<env, sidecar, tmp>>
user    == <<intent, edits>>
memory  == <<buf, snap, upstream, patchEnv>>
vars    == <<files, user, pc, ctx, memory, child, sig, outcome>>

Contexts == {"startup", "recover", "serve", "cleanup"}

Outcomes == {"none", "clean", "lost", "error", "unrestored", "corrupt",
             "interrupted", "killed"}

TypeOK ==
  /\ env \in File
  /\ sidecar \in Sidecar
  /\ tmp \in File \cup {NoFile}
  /\ intent \in File
  /\ edits \in 0 .. MaxEdits
  /\ pc \in [Runs -> PCs]
  /\ ctx \in [Runs -> Contexts]
  /\ buf \in [Runs -> Seq(Line)]
  /\ snap \in [Runs -> Original \cup {NoState}]
  /\ upstream \in [Runs -> Urls \cup {Absent}]
  /\ patchEnv \in [Runs -> BOOLEAN]
  /\ child \in [Runs -> {"none", "running", "gone"}]
  /\ sig \in [Runs -> BOOLEAN]
  /\ outcome \in [Runs -> Outcomes]

Init ==
  /\ env \in InitialFiles
  /\ sidecar = NoFile
  /\ tmp = NoFile
  /\ intent = env
  /\ edits = 0
  /\ pc = [r \in Runs |-> "idle"]
  /\ ctx = [r \in Runs |-> "startup"]
  /\ buf = [r \in Runs |-> << >>]
  /\ snap = [r \in Runs |-> NoState]
  /\ upstream = [r \in Runs |-> Absent]
  /\ patchEnv = [r \in Runs |-> FALSE]
  /\ child = [r \in Runs |-> "none"]
  /\ sig = [r \in Runs |-> FALSE]
  /\ outcome = [r \in Runs |-> "none"]

----------------------------------------------------------------------------
(* Control.                                                                *)

Live(r) == pc[r] \notin {"idle", "over"}

Goto(r, from, to) == pc[r] = from /\ pc' = [pc EXCEPT ![r] = to]

\* signal.Notify has been called: the signal goes to sigCh and no longer
\* terminates the process.
Listening(r) == ctx[r] \in {"serve", "cleanup"}

\* The process ends, and its memory with it.
Exit(r, how) ==
  /\ pc' = [pc EXCEPT ![r] = "over"]
  /\ outcome' = [outcome EXCEPT ![r] = how]
  /\ ctx' = [ctx EXCEPT ![r] = "startup"]
  /\ buf' = [buf EXCEPT ![r] = << >>]
  /\ snap' = [snap EXCEPT ![r] = NoState]
  /\ upstream' = [upstream EXCEPT ![r] = Absent]
  /\ patchEnv' = [patchEnv EXCEPT ![r] = FALSE]
  /\ sig' = [sig EXCEPT ![r] = FALSE]

\* Bug: Restore is called on a nil state.
CleanupNilState(r, how) ==
  /\ ctx' = [ctx EXCEPT ![r] = "cleanup"]
  /\ pc' = [pc EXCEPT ![r] = "load"]
  /\ outcome' = [outcome EXCEPT ![r] = how]

\* run() enters cleanup(): Restore when there is a state, then tun.Stop().
Cleanup(r, how) ==
  /\ ctx' = [ctx EXCEPT ![r] = "cleanup"]
  /\ pc' = [pc EXCEPT ![r] = IF snap[r] = NoState THEN "stop" ELSE "load"]
  /\ outcome' = [outcome EXCEPT ![r] = how]

----------------------------------------------------------------------------
(* Recovering from a crashed run.                                          *)

MayStart(r) ==
  /\ pc[r] = "idle"
  /\ Overlap \/ \A q \in Runs : ~Live(q)

\* LoadState finds no sidecar.
LoadStateNone(r) ==
  /\ MayStart(r)
  /\ sidecar = NoFile
  /\ Goto(r, "idle", "detect")
  /\ UNCHANGED <<files, user, ctx, memory, child, sig, outcome>>

\* LoadState cannot parse the sidecar: run() returns its error.
LoadStateCorrupt(r) ==
  /\ MayStart(r)
  /\ sidecar = Truncated
  /\ Exit(r, "corrupt")
  /\ UNCHANGED <<files, user, child>>

\* LoadState cannot read the sidecar.
LoadStateFails(r) ==
  /\ Faults
  /\ MayStart(r)
  /\ sidecar # NoFile
  /\ Exit(r, "error")
  /\ UNCHANGED <<files, user, child>>

\* Bug: the recovery waits until the project has been read.
LoadStateFoundLater(r) ==
  /\ MayStart(r)
  /\ sidecar \notin {NoFile, Truncated}
  /\ Goto(r, "idle", "detect")
  /\ UNCHANGED <<files, user, ctx, memory, child, sig, outcome>>

\* LoadState finds the state of a crashed run: Restore it.
LoadStateFound(r) ==
  /\ MayStart(r)
  /\ sidecar \notin {NoFile, Truncated}
  /\ Goto(r, "idle", "load")
  /\ ctx' = [ctx EXCEPT ![r] = "recover"]
  /\ snap' = [snap EXCEPT ![r] = sidecar.original]
  /\ UNCHANGED <<files, user, buf, upstream, patchEnv, child, sig, outcome>>

----------------------------------------------------------------------------
(* Restore and Save, called while recovering, while patching (Save only)   *)
(* and from cleanup().                                                     *)

\* Bug: the lines read at startup are restored, not those on disk.
RestoreFromMemory(r) ==
  /\ Goto(r, "load", "write")
  /\ buf' = [buf EXCEPT ![r] = Reinstate(buf[r], AppUrl, snap[r])]
  /\ UNCHANGED <<files, user, ctx, snap, upstream, patchEnv, child, sig,
                 outcome>>

\* Bug: the sidecar is removed first.
RestoreRemovesFirst(r) ==
  /\ Goto(r, "load", "write")
  /\ buf' = [buf EXCEPT ![r] = Reinstate(Load(env), AppUrl, snap[r])]
  /\ sidecar' = NoFile
  /\ UNCHANGED <<env, tmp, user, ctx, snap, upstream, patchEnv, child, sig,
                 outcome>>

\* Restore reads .env afresh and sets the original values in memory.
RestoreLoad(r) ==
  /\ Goto(r, "load", "write")
  /\ buf' = [buf EXCEPT ![r] = Reinstate(Load(env), AppUrl, snap[r])]
  /\ UNCHANGED <<files, user, ctx, snap, upstream, patchEnv, child, sig,
                 outcome>>

\* Save writes the whole content to the temporary file.
SaveWrite(r) ==
  /\ Goto(r, "write", "rename")
  /\ tmp' = Save(buf[r])
  /\ UNCHANGED <<env, sidecar, user, ctx, memory, child, sig, outcome>>

\* Save renames the temporary file over .env.
SaveRename(r) ==
  /\ Goto(r, "rename", IF ctx[r] = "serve" THEN "banner" ELSE "remove")
  /\ tmp # NoFile
  /\ env' = tmp
  /\ tmp' = NoFile
  /\ UNCHANGED <<sidecar, user, ctx, memory, child, sig, outcome>>

\* Restore removes the sidecar last.  The state of a recovered run is local
\* to the recovery.
RestoreRemove(r) ==
  /\ Goto(r, "remove", IF ctx[r] = "recover" THEN "detect" ELSE "stop")
  /\ sidecar # NoFile
  /\ sidecar' = NoFile
  /\ ctx' = [ctx EXCEPT ![r] = IF @ = "recover" THEN "startup" ELSE @]
  /\ snap' = [snap EXCEPT ![r] = IF ctx[r] = "recover" THEN NoState ELSE @]
  /\ UNCHANGED <<env, tmp, user, buf, upstream, patchEnv, child, sig, outcome>>

\* Bug: run() returns on a failed restore, before tun.Stop().
FileErrorReturns(r) ==
  \/ /\ ctx[r] \in {"recover", "cleanup"}
     /\ Exit(r, "error")
  \/ /\ ctx[r] = "serve"
     /\ Cleanup(r, "error")
     /\ UNCHANGED <<memory, sig>>

\* Bug: the cleanup retries a failed restore until it succeeds.
FileErrorRetries(r) ==
  \/ /\ ctx[r] = "recover"
     /\ Exit(r, "error")
  \/ /\ ctx[r] = "serve"
     /\ Cleanup(r, "error")
     /\ UNCHANGED <<memory, sig>>
  \/ /\ ctx[r] = "cleanup"
     /\ pc' = [pc EXCEPT ![r] = "load"]
     /\ UNCHANGED <<ctx, memory, sig, outcome>>

\* Where an error of Restore or Save takes the run: an error to the shell, the
\* deferred cleanup, or the message that .env could not be restored.
FileError(r) ==
  \/ /\ ctx[r] = "recover"
     /\ Exit(r, "error")
  \/ /\ ctx[r] = "serve"
     /\ Cleanup(r, "error")
     /\ UNCHANGED <<memory, sig>>
  \/ /\ ctx[r] = "cleanup"
     /\ pc' = [pc EXCEPT ![r] = "stop"]
     /\ outcome' = [outcome EXCEPT ![r] = "unrestored"]
     /\ UNCHANGED <<ctx, memory, sig>>

\* .env cannot be read.
LoadFails(r) ==
  /\ Faults
  /\ pc[r] = "load"
  /\ FileError(r)
  /\ UNCHANGED <<files, user, child>>

\* os.WriteFile fails, with the temporary file untouched or cut short.
WriteFails(r) ==
  /\ Faults
  /\ pc[r] = "write"
  /\ tmp' \in {tmp, EmptyFile}
  /\ FileError(r)
  /\ UNCHANGED <<env, sidecar, user, child>>

\* os.Rename fails, always when another run has renamed the file away.
RenameFails(r) ==
  /\ Faults \/ tmp = NoFile
  /\ pc[r] = "rename"
  /\ FileError(r)
  /\ UNCHANGED <<files, user, child>>

\* os.Remove fails, always when another run has removed the sidecar.
RemoveFails(r) ==
  /\ Faults \/ sidecar = NoFile
  /\ pc[r] = "remove"
  /\ FileError(r)
  /\ UNCHANGED <<files, user, child>>

----------------------------------------------------------------------------
(* Starting up.                                                            *)

\* Detect reads .env and derives the upstream from APP_URL; the flags and
\* composer.lock decide whether this run is going to patch.
Detect(r) ==
  /\ Goto(r, "detect", "open")
  /\ buf' = [buf EXCEPT ![r] = Load(env)]
  /\ upstream' = [upstream EXCEPT ![r] = Get(Load(env), AppUrl)]
  /\ \E p \in BOOLEAN : patchEnv' = [patchEnv EXCEPT ![r] = p]
  /\ UNCHANGED <<files, user, ctx, snap, child, sig, outcome>>

\* No Laravel project, an unusable APP_URL, --app or config file, no free
\* port, or no tunnel binary.
StartupFails(r) ==
  /\ pc[r] \in {"detect", "open"}
  /\ Exit(r, "error")
  /\ UNCHANGED <<files, user, child>>

\* tunnel.Start launches the binary in a process group of its own.
TunnelSpawn(r) ==
  /\ Goto(r, "open", "await")
  /\ child' = [child EXCEPT ![r] = "running"]
  /\ UNCHANGED <<files, user, ctx, memory, sig, outcome>>

\* tunnel.Start answers with the URL; the process may have died since it
\* printed it.
TunnelUp(r) ==
  /\ Goto(r, "await", "notify")
  /\ UNCHANGED <<files, user, ctx, memory, child, sig, outcome>>

\* tunnel.Start answers with an error, the process dead or stopped.
TunnelFails(r) ==
  /\ pc[r] = "await"
  /\ child' = [child EXCEPT ![r] = "gone"]
  /\ Exit(r, "error")
  /\ UNCHANGED <<files, user>>

\* Bug: .env is patched before the snapshot is taken.
NotifyThenPatch(r) ==
  /\ Goto(r, "notify", IF patchEnv[r] THEN "patch" ELSE "banner")
  /\ ctx' = [ctx EXCEPT ![r] = "serve"]
  /\ UNCHANGED <<files, user, memory, child, sig, outcome>>

\* The cleanup is deferred and signal.Notify called.
Notify(r) ==
  /\ Goto(r, "notify", IF patchEnv[r] THEN "snapshot" ELSE "banner")
  /\ ctx' = [ctx EXCEPT ![r] = "serve"]
  /\ UNCHANGED <<files, user, memory, child, sig, outcome>>

----------------------------------------------------------------------------
(* Patching .env.                                                          *)

\* SaveState truncates or creates the sidecar ...
SnapshotOpen(r) ==
  /\ Goto(r, "snapshot", "record")
  /\ sidecar' = Truncated
  /\ UNCHANGED <<env, tmp, user, ctx, memory, child, sig, outcome>>

\* Bug: the value is recorded as Get answers it, without its quotes.
SnapshotUnquoted(r) ==
  /\ Goto(r, "record", "patch")
  /\ LET value == Get(buf[r], AppUrl)
         original == IF value = Absent THEN Absent ELSE Plain(value)
     IN  /\ sidecar' = [original |-> original]
         /\ snap' = [snap EXCEPT ![r] = original]
  /\ UNCHANGED <<env, tmp, user, ctx, buf, upstream, patchEnv, child, sig,
                 outcome>>

\* ... and writes the raw value of APP_URL into it, if there is one.
SnapshotRecord(r) ==
  /\ Goto(r, "record", "patch")
  /\ LET original == GetRaw(buf[r], AppUrl)
     IN  /\ sidecar' = [original |-> original]
         /\ snap' = [snap EXCEPT ![r] = original]
  /\ UNCHANGED <<env, tmp, user, ctx, buf, upstream, patchEnv, child, sig,
                 outcome>>

\* SaveState fails at either call: its error ends the run with no state set.
SnapshotFails(r) ==
  /\ Faults
  /\ pc[r] \in {"snapshot", "record"}
  /\ Cleanup(r, "error")
  /\ UNCHANGED <<files, user, memory, child, sig>>

\* Bug: the patched lines are not saved.
PatchUnsaved(r) ==
  /\ Goto(r, "patch", "banner")
  /\ buf' = [buf EXCEPT ![r] = Set(@, AppUrl, Plain(TunnelURL[r]))]
  /\ UNCHANGED <<files, user, ctx, snap, upstream, patchEnv, child, sig,
                 outcome>>

\* Set replaces APP_URL in the lines Detect has loaded; without such a line
\* nothing is saved.
Patch(r) ==
  /\ Goto(r, "patch", IF HasKey(buf[r], AppUrl) THEN "write" ELSE "banner")
  /\ buf' = [buf EXCEPT ![r] = Set(@, AppUrl, Plain(TunnelURL[r]))]
  /\ UNCHANGED <<files, user, ctx, snap, upstream, patchEnv, child, sig,
                 outcome>>

----------------------------------------------------------------------------
(* Serving.                                                                *)

\* A transport given by flag over an unset default is offered as the default.
Banner(r) ==
  /\ pc[r] = "banner"
  /\ \E next \in {"prompt", "wait"} : Goto(r, "banner", next)
  /\ UNCHANGED <<files, user, ctx, memory, child, sig, outcome>>

\* The user answers the question; either answer is saved, or the run goes on
\* without.
Answer(r) ==
  /\ Goto(r, "prompt", "wait")
  /\ UNCHANGED <<files, user, ctx, memory, child, sig, outcome>>

\* The global file holds the JSON null: config.Set panics, and the deferred cleanup
\* runs before the process dies of it.
AnswerPanics(r) ==
  /\ pc[r] = "prompt"
  /\ Cleanup(r, "error")
  /\ UNCHANGED <<files, user, memory, child, sig>>

\* Bug: the prompt does not listen to sigCh.
TakeSignalLater(r) ==
  /\ pc[r] = "wait"
  /\ sig[r]
  /\ sig' = [sig EXCEPT ![r] = FALSE]
  /\ Cleanup(r, "clean")
  /\ UNCHANGED <<files, user, memory, child>>

\* Either select receives from sigCh.
TakeSignal(r) ==
  /\ pc[r] \in {"prompt", "wait"}
  /\ sig[r]
  /\ sig' = [sig EXCEPT ![r] = FALSE]
  /\ Cleanup(r, "clean")
  /\ UNCHANGED <<files, user, memory, child>>

\* Bug: the prompt does not listen to tun.Done.
TunnelLostLater(r) ==
  /\ pc[r] = "wait"
  /\ child[r] = "gone"
  /\ Cleanup(r, "lost")
  /\ UNCHANGED <<files, user, memory, child, sig>>

\* Bug: os.Exit on a lost tunnel skips the cleanup.
TunnelLostExits(r) ==
  /\ pc[r] \in {"prompt", "wait"}
  /\ child[r] = "gone"
  /\ Exit(r, "lost")
  /\ UNCHANGED <<files, user, child>>

\* Either select receives from tun.Done.
TunnelLost(r) ==
  /\ pc[r] \in {"prompt", "wait"}
  /\ child[r] = "gone"
  /\ Cleanup(r, "lost")
  /\ UNCHANGED <<files, user, memory, child, sig>>

\* tun.Stop() returns only when the process is dead; so does run().
Stop(r) ==
  /\ pc[r] = "stop"
  /\ child' = [child EXCEPT ![r] = "gone"]
  /\ Exit(r, outcome[r])
  /\ UNCHANGED <<files, user>>

----------------------------------------------------------------------------
(* The environment: signals, the tunnel process, the user's editor.        *)

\* Ctrl+C (or SIGTERM) before signal.Notify ends the process where it stands.
InterruptEarly(r) ==
  /\ Live(r)
  /\ ~Listening(r)
  /\ Exit(r, "interrupted")
  /\ UNCHANGED <<files, user, child>>

\* Afterwards the signal waits in sigCh, which holds one.
Interrupt(r) ==
  /\ Live(r)
  /\ Listening(r)
  /\ sig' = [sig EXCEPT ![r] = TRUE]
  /\ UNCHANGED <<files, user, pc, ctx, memory, child, outcome>>

\* kill -9, or a closed terminal: the tunnel process has its own group and
\* lives on.
Kill(r) ==
  /\ Live(r)
  /\ Exit(r, "killed")
  /\ UNCHANGED <<files, user, child>>

\* The tunnel process exits by itself.
ChildExits(r) ==
  /\ child[r] = "running"
  /\ child' = [child EXCEPT ![r] = "gone"]
  /\ UNCHANGED <<files, user, pc, ctx, memory, sig, outcome>>

\* The run holds lines of .env that it is going to write back.
Holding(r) ==
  \/ pc[r] \in {"write", "rename"}
  \/ pc[r] \in {"open", "await", "notify", "snapshot", "record", "patch"}
     /\ patchEnv[r]

UserSets(key, raw) ==
  /\ edits < MaxEdits
  /\ edits' = edits + 1
  /\ env' = [env EXCEPT !.lines = Set(@, key, raw)]
  /\ intent' = [intent EXCEPT !.lines = Set(@, key, raw)]
  /\ UNCHANGED <<sidecar, tmp, pc, ctx, memory, child, sig, outcome>>

\* The user changes another key of .env while localhoist may be running.
EditOther ==
  /\ \A r \in Runs : Holding(r) => pc[r] \in EditWindow
  /\ \E key \in OtherKeys, u \in UserUrls : UserSets(key, Plain(u))

\* The user changes APP_URL with no run alive and none to recover from.
EditAppUrl ==
  /\ \A r \in Runs : ~Live(r)
  /\ sidecar = NoFile
  /\ \E u \in UserUrls, q \in BOOLEAN :
       UserSets(AppUrl, [url |-> u, quoted |-> q])

----------------------------------------------------------------------------

Start(r) ==
  \/ LoadStateNone(r) \/ LoadStateCorrupt(r) \/ LoadStateFails(r)
  \/ LoadStateFound(r)

\* The run's own steps once it has started, its waits for input apart.
Proceed(r) ==
  \/ RestoreLoad(r) \/ SaveWrite(r) \/ SaveRename(r) \/ RestoreRemove(r)
  \/ LoadFails(r) \/ WriteFails(r) \/ RenameFails(r) \/ RemoveFails(r)
  \/ Detect(r) \/ StartupFails(r) \/ TunnelSpawn(r) \/ TunnelUp(r)
  \/ TunnelFails(r) \/ Notify(r)
  \/ SnapshotOpen(r) \/ SnapshotRecord(r) \/ SnapshotFails(r) \/ Patch(r)
  \/ Banner(r) \/ TakeSignal(r) \/ TunnelLost(r) \/ Stop(r)

Outside(r) ==
  InterruptEarly(r) \/ Interrupt(r) \/ Kill(r) \/ ChildExits(r)

Next ==
  \/ \E r \in Runs :
       Start(r) \/ Proceed(r) \/ Answer(r) \/ AnswerPanics(r) \/ Outside(r)
  \/ EditOther
  \/ EditAppUrl

\* A live process is scheduled, and tunnel.Start always answers: it has a
\* timeout.  Nobody has to start a run, to answer, to interrupt or to kill.
Fairness == \A r \in Runs : WF_vars(Proceed(r))

Spec == Init /\ [][Next]_vars /\ Fairness

----------------------------------------------------------------------------
(* Properties.                                                             *)

\* The promise of the sidecar: at every moment, were all runs killed now,
\* what is on disk is enough to get the user's lines back.  With a snapshot
\* beside it, .env with that value reinstated is the file the user wants;
\* without one (none yet, removed, or cut short) .env is that file already.
\* The orders "snapshot, then patch" and "write back, then remove" of main.go
\* and envfile.go are there for it.
Repairable ==
  IF sidecar \in {NoFile, Truncated}
  THEN env.lines = intent.lines
  ELSE Reinstate(env.lines, AppUrl, sidecar.original) = intent.lines

\* With the values of these keys left out of account, what is on disk is enough.
Mends(keys) ==
  IF sidecar \in {NoFile, Truncated}
  THEN Masked(env.lines, keys) = Masked(intent.lines, keys)
  ELSE Masked(Reinstate(env.lines, AppUrl, sidecar.original), keys)
         = Masked(intent.lines, keys)

\* Lines that were read before an edit and are written back after it cost the user
\* that edit, and nothing else (main.go:175, envfile.go:140): at whatever moment the
\* user edits another key, APP_URL with its quotes, the comments and every other line
\* can be got back.
OnlyEditsLost == Mends(OtherKeys)

\* No run derives its app upstream from the public URL of a tunnel, its
\* predecessor's or its own: it would proxy the tunnel to itself.
UpstreamNeverTunnel ==
  \A r, q \in Runs : upstream[r] # TunnelURL[q]

\* A temporary file left behind by a crash or a failed write always has a
\* sidecar beside it, so the recovery that removes the one renames the other.
NoLitter == tmp # NoFile => sidecar \notin {NoFile, Truncated}

\* While a patched run serves, the application sees the public URL of its own
\* tunnel in .env, whatever edits, crashes and recoveries came before.
ServesItsURL ==
  \A r \in Runs :
    /\ pc[r] \in {"banner", "prompt", "wait"}
    /\ patchEnv[r]
    /\ HasKey(env.lines, AppUrl)
    => Get(env.lines, AppUrl) = TunnelURL[r]

\* A run that ends on Ctrl+C or on the loss of its tunnel leaves the user's
\* lines, the final newline where there was one, no sidecar and no temporary
\* file behind; unless the restore itself failed, which ends as "unrestored".
\* README.md:46 says "byte-for-byte", but a file without a final newline gains
\* one: Save joins the lines with it (envfile.go:68).
CleanExit ==
  [][\A r \in Runs :
       /\ pc[r] # "over" /\ pc'[r] = "over"
       /\ outcome'[r] \in {"clean", "lost"}
       => /\ env.lines = intent.lines
          /\ intent.newline => env.newline
          /\ sidecar = NoFile
          /\ tmp = NoFile]_vars

\* A run that returns from run() leaves no tunnel process behind, whichever
\* of its error paths it takes.
NoOrphan ==
  \A r \in Runs :
    outcome[r] \in {"clean", "lost", "error", "unrestored", "corrupt"}
      /\ pc[r] = "over"
    => child[r] # "running"

\* Ctrl+C is never lost: a signal that arrives after signal.Notify ends the
\* run, at whatever point of the startup or of the prompt it arrives.
SignalHonoured ==
  \A r \in Runs : sig[r] /\ outcome[r] = "none" ~> pc[r] = "over"

\* The loss of the tunnel ends the run and is not masked by the prompt.
LossNoticed ==
  \A r \in Runs :
    child[r] = "gone" /\ pc[r] \in {"banner", "prompt", "wait"}
      ~> pc[r] = "over"

\* A run that starts gets to serve or ends: nothing in the startup, the
\* recovery or the cleanup waits forever.
Settles ==
  \A r \in Runs :
    pc[r] \notin {"idle", "over"} ~> pc[r] \in {"prompt", "wait", "over"}

\* What the user sees of it all: a loan of one line of .env.
Held == IF sidecar \in {NoFile, Truncated} THEN NoState ELSE sidecar.original

LoanOf == INSTANCE Loan WITH
  Key <- AppUrl, Theirs <- OtherKeys, Nothing <- NoState,
  Shown <- {TunnelURL[r] : r \in Runs},
  lines <- env.lines, held <- Held

\* Whatever runs, crashes and failures do: APP_URL is overwritten only while
\* its own value is on record, no other line ever is, and the record is
\* dropped only when the line reads as before.
ImplementsLoan == LoanOf!LoanSpec

----------------------------------------------------------------------------
(* What the documentation says and the code does not keep.                 *)

\* README.md:46: after a crash or a kill -9 "the next run restores the file".
\* A run does not refuse to start because of what an earlier one left.
NextRunStarts == \A r \in Runs : outcome[r] # "corrupt"

\* README.md:47: "untouched keys are always preserved".  Where no patch is in
\* force and no recovery due, .env holds what the user put there.
UntouchedKeys == sidecar = NoFile => env.lines = intent.lines

\* README.md:81: "Ctrl+C stops the tunnel and restores everything".
CtrlCStopsTunnel ==
  \A r \in Runs : outcome[r] = "interrupted" => child[r] # "running"

----------------------------------------------------------------------------
(* The inductive invariant behind Repairable, OnlyEditsLost and their      *)
(* companions, when runs do not overlap.                                   *)

\* Runs follow one another, and the user edits no key while a run holds lines
\* of .env that it is going to write back.
Careful == ~Overlap /\ EditWindow = {}

\* The keys whose edits may be lost, and a file without them.
Stale == IF EditWindow = {} THEN {} ELSE OtherKeys
Seen(lines) == Masked(lines, Stale)

Recorded == sidecar \notin {NoFile, Truncated}

\* At most one run is alive.
OneLive == \A r, q \in Runs : Live(r) /\ Live(q) => r = q

\* The user's own values are no tunnel's URL, and the final newline survives.
UserFile ==
  /\ intent.lines \in Seq(UserLine)
  /\ intent.newline => env.newline

\* Before signal.Notify there is no sidecar, and the copy of .env a patch is
\* going to be made of is what the user wants.
StartupInv(r) ==
  /\ ~Live(r) \/ pc[r] \in {"detect", "open", "await", "notify"} =>
       ctx[r] = "startup" /\ snap[r] = NoState
  /\ pc[r] \in {"detect", "open", "await", "notify", "snapshot"} =>
       sidecar = NoFile
  /\ pc[r] \in {"open", "await", "notify", "snapshot", "record", "patch"}
       /\ patchEnv[r] => Seen(buf[r]) = Seen(intent.lines)
  /\ upstream[r] \in UserUrls \cup {Absent}

\* What patching has done to the disk, step by step.
PatchInv(r) ==
  /\ pc[r] \in {"snapshot", "record", "patch"} =>
       ctx[r] = "serve" /\ patchEnv[r]
  /\ pc[r] \in {"snapshot", "record"} => snap[r] = NoState
  /\ pc[r] = "record" => sidecar = Truncated
  /\ pc[r] = "patch" \/ (pc[r] \in {"write", "rename"} /\ ctx[r] = "serve") =>
       /\ Seen(env.lines) = Seen(intent.lines)
       /\ snap[r] = GetRaw(intent.lines, AppUrl)
       /\ patchEnv[r]
  /\ pc[r] \in {"patch", "load", "write", "rename", "remove"} =>
       Recorded /\ snap[r] = sidecar.original
  /\ pc[r] \in {"write", "rename"} =>
       IF ctx[r] = "serve"
       THEN Seen(buf[r]) = Seen(Set(intent.lines, AppUrl, Plain(TunnelURL[r])))
       ELSE Seen(buf[r]) = Seen(intent.lines) /\ ctx[r] \in {"recover", "cleanup"}
  /\ pc[r] = "rename" => tmp = Save(buf[r])

\* What serving and cleaning up rely on.
ServeInv(r) ==
  /\ pc[r] \in {"banner", "prompt", "wait"} =>
       /\ ctx[r] = "serve"
       /\ IF patchEnv[r]
          THEN Recorded /\ snap[r] = sidecar.original
          ELSE sidecar = NoFile /\ snap[r] = NoState
  /\ pc[r] \in {"load", "remove"} => ctx[r] \in {"recover", "cleanup"}
  /\ pc[r] = "remove" => Seen(env.lines) = Seen(intent.lines) /\ tmp = NoFile
  /\ pc[r] = "stop" =>
       /\ ctx[r] = "cleanup"
       /\ outcome[r] \in {"clean", "lost"} => sidecar = NoFile

LocalInv(r) == StartupInv(r) /\ PatchInv(r) /\ ServeInv(r)

IInv ==
  /\ TypeOK
  /\ OneLive
  /\ UserFile
  /\ Mends(Stale)
  /\ NoLitter
  /\ ServesItsURL
  /\ \A r \in Runs : LocalInv(r)

============================================================================
