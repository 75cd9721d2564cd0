# A verification of localhoist

localhoist shares a local Laravel application through a public tunnel. This
directory holds TLA+ models of its Go code, TLC configurations that check them
on small instances, and theorems that TLAPS proves for every instance.

    tlc -workers 2 -config session_safety.cfg MCSession
    tlc -workers 2 -config startup.cfg MCStartup
    tlc -workers 2 -config serving.cfg MCServing
    tlapm SessionProofs.tla

`tlapm` is run in the same way on TunnelProofs, StartupProofs, ServingProofs and the
modules of lemmas they use.

`PROJECT.json` lists the runs, the source lines every definition stands for,
the hazards of the code, the mutants that show each property can fail, and the
theorems.

## The system

| component | state | operations | meets the others through |
|---|---|---|---|
| run lifecycle, `cmd/localhoist/main.go` | position in `run()`, `*State`, `sigCh`, `cleanupOnce` | recover, detect, open, patch, serve, clean up | calls everything below; reads `tun.Done`; exit status |
| envfile, `internal/envfile` | `.env`, the sidecar `.env.localhoist-state.json`, the temporary `.env.localhoist-tmp`, lines in memory | Load, Get, GetRaw, Set, Save, SaveState, LoadState, Restore | files that outlive the run, shared with later runs and the user's editor |
| tunnel process, `internal/tunnel/tunnel.go` | process, pipe, `urlCh`, `errCh`, `lastErr`, `Done` | start, Stop, a reader and a waiter goroutine | called by the transports, hence by `run()` |
| transports, `cloudflare.go`, `ngrok.go`, `ensure.go` | none | arguments, line parsers, offer to install | supply `start()` with parser, timeout, `abortOnErr` |
| laravel, `internal/laravel` | the `Project` | Detect | reads `.env`, the environment, `composer.lock` |
| config, `internal/config`, `config_cmd.go` | global and project config file | Resolve, Finalize, Set, Unset | read at start-up, written by the prompt and by `localhoist config` |
| proxy, `internal/proxy` | route table; `public/hot` | route, Rewrite, rewriteResponse | every request of the tunnel |
| rewrite, `internal/rewrite` | none | ViteClient, ReverbEnv, HTML | called by the proxy |
| Composer package, `packages/laravel` | binary cache; static trusted proxies | `artisan share`, download; middleware | starts the binary; trusts the proxy's marker header |
| web page, docs, release files, `test/e2e.sh` | none | none | no program logic |

What is hard in it: a run can be killed between any two system calls and the
next run must make good for it (`main.go:69`); each of those calls can fail in
the recovery, in the patch or in the cleanup, with a different consequence in
each; signals and the death of the tunnel arrive at any time and are received
in two places; three goroutines, a process and a timer race in `start()`; the
user edits `.env` all the while. Config files and the binary cache are shared by
processes that know nothing of each other and lock nothing. The mux has to hold
some bodies back and must not hold others, and upstreams break off in either;
what it rewrites depends on headers it stamped itself and on a file the dev
server changes; the application derives its links from static state another
request may have set. What makes each component correct:

- lifecycle and envfile: the user's lines can always be recovered; APP_URL is
  overwritten only while its value is on record; a serving run shows its own
  URL; no tunnel is proxied to itself; Ctrl+C and the loss of the tunnel end
  the run with everything put back; no tunnel process is left behind;
- tunnel: one answer, the first URL, no process alive after an error or after
  Stop, no blocked goroutine;
- config: the precedence of the layers also while the files are rewritten, unknown
  keys preserved, no file unreadable but by accident, the question asked once, a
  flag and a static domain honoured or refused;
- proxy and rewrite: a request goes where the first segment of its path says,
  nothing sends the browser to a local address, a body broken off shows, and
  streams flow;
- Composer package: forwarded headers are honoured for marked loopback
  requests only, links have the origin the browser used, and a cached binary is
  a complete one.

## The modules

    EnvFile ──── Loan              TunnelContract
       │           ▲ implements          ▲ implements
       ├────── Session ── MCSession   Tunnel ── MCTunnel
       │           │                     │
    EnvFileProofs ─┴─ SessionProofs   TunnelProofs        (Tunnel extends Transports)

               Settings
                 ▲ implements
    Processes ─┬─ Config ───────┐        Routing ── Mux ──┐
               └─ BinaryCache ──┼─ Startup    Middleware ─┼─ Serving ── MCServing
                     Laravel ───┤     │                   │     │
                                │  MCStartup              │     │
                                └─────────────────────────┘     │
    ConfigProofs ──────┬─ StartupProofs      RoutingProofs ──── ServingProofs
    BinaryCacheProofs ─┘

**EnvFile** holds the operations on the lines of a file as operators: a line is
the key it assigns and the raw text behind the `=`, raw text is a value and
whether it stands in quotes, a file is its lines and whether its last byte is a
newline. `Set` and `GetRaw` stop at the first line of a key, as the code does.
`Masked` covers the values of some keys, to say that two files agree but for them.

**Session** models `run()` for a set of runs, one action for each step between
two system calls that change a file, start or stop the process, or wait:

| code | actions |
|---|---|
| `LoadState`, main.go:73 | LoadStateNone, LoadStateCorrupt, LoadStateFails, LoadStateFound |
| `State.Restore`, from the recovery and from `cleanup()` | RestoreLoad, SaveWrite, SaveRename, RestoreRemove |
| errors of these calls | LoadFails, WriteFails, RenameFails, RemoveFails, all through FileError |
| `Detect` up to `net.Listen` | Detect, StartupFails |
| `tunnel.Start` | TunnelSpawn, TunnelUp, TunnelFails |
| `defer cleanup()`, `signal.Notify` | Notify |
| `SaveState`; `Set` and `Save` | SnapshotOpen, SnapshotRecord, SnapshotFails; Patch, SaveWrite, SaveRename |
| the two selects; the panic of `config.Set` on a file that holds `null`, main.go:243 | Banner, Answer, TakeSignal, TunnelLost; AnswerPanics |
| `cleanup()`, `tun.Stop()`, the end of the process | Cleanup, Stop, Exit |
| outside | InterruptEarly, Interrupt, Kill, ChildExits, EditOther, EditAppUrl |

`pc` is the run's position; `ctx` says which part of `run()` a shared step
belongs to (the recovery, the patch, the cleanup), and so where it returns to
and where its error goes. The variable `intent` is history: `.env` as it would
be had only the user written it. A process that ends loses its memory (`Exit`
resets it).

**Loan** is the abstract specification: one line of a file is put on record
(Borrow), overwritten (Show), put back (GiveBack), and the record dropped
(Forget), while the user edits the other lines. `ImplementsLoan` maps `held` to
the content of the sidecar, with a sidecar that is absent or cut short as
"nothing held": the step that completes the sidecar is Borrow, the rename of
the patched file is Show, that of the restored file GiveBack, the removal
Forget; every other step of Session is a stutter or the user's.

**Tunnel** models `start()` and `Stop()`: the caller in its select, the reader
that scans the log, the waiter that reaps the process and closes `Done`, and the
process. The pipe is bounded, so a process can block on it; `cmd.Wait` discards
what has not been read. **TunnelContract** is what `run()` relies on, and what
Session assumes of `tunnel.Start` and `tun.Stop`: an error, or Stop's return,
only with the process dead. Tunnel is shown to implement it; Session's
TunnelFails and Stop, which find the process dead in one step, are justified by
it.

**Transports** holds the parsers of the two logs as operators over what they look
at: an ngrok line is its JSON fields `msg`, `url`, `lvl` and `err`, a cloudflared
line is the quick-tunnel URL it contains, whether ` ERR ` stands in it, and whether
text follows. `Scanned`, their image, is what Tunnel's process may print, so
Tunnel is checked with the lines a transport can produce and its policy for error
lines (`AbortOnErr`).

**Config** is the two settings files and what is done to them, system call by
system call; **Laravel** is `Detect` as operators; **BinaryCache** is `artisan
share` up to the launch. **Startup** composes the three for a set of processes of
one user, each of which is either a run, started directly or from a binary that
had to be downloaded, or a config command:

| code | actions and operators |
|---|---|
| `Resolve`, config.go:85: one turn per file | ReadGlobal, ReadProject; Layer |
| flag and static domain, main.go:99-106 | Settle; OnTop, Finalize |
| `tunnel.Start`; the prompt, main.go:233 | TunnelOpen, WorthAsking; AnswerPrompt |
| `config set`, `config unset`, config_cmd.go | StartCommand |
| `Set`, `Unset` and `write`: read, truncate, write | ReadForUpdate, LeaveFile, SetPanics; Truncate; Write, WriteFails |
| `BinaryLocator::find` | Refuse, FindOwn, FindCached, FindNothing |
| `download` | DownloadFails, OpenPartial, CopyChunk, CopyEnds, Chmod, Rename |
| outside | KillProcess, CutShort, KillDownload, UserWrites |

`os.WriteFile` truncates and then writes, so a second writer can come in between;
`Overlay` is what its bytes leave of a longer content. A downloaded file keeps its
identity when it is renamed, so that whoever still has it open goes on writing to
what is now the cached binary; chmod and rename work on the path. The variables
`theirs`, `damaged`, `answered`, `knew`, `saw`, `cut` and `shared` are history.

**Settings** is what Config promises of its two files with the reads and the writes
left out: a process is asked for a change (Ask), makes it at one moment (Make), and
is over with it (Finish), which may also mean that it was refused; only a file that two
change at once, or whose change is cut short (Cut), is lost. What is lost is back once
the user writes the file anew; a file left unreadable refuses every later change until
then (config.go:147). `ImplementsSettings` maps a file that is
being rewritten by one process to what that process is about to write, so
the truncation is the moment of the change; a second truncation before the first
write is over, and a write cut short, lose the file; every read, and every step of a
run until it saves an answer, is a stutter.

**Routing** is the table and its search over paths taken apart into slashes and
pieces of names, so that `/apple` is `/`, `app`, `le`. **Mux** is the life of a
request: Arrive routes and stamps it, ModifyResponse decides, when the header of
the response has come and with the hot file as it is then, whether the body is
streamed (Forward, StreamEnds) or held back, rewritten and given a new length
(SwapBody); BadGateway answers for an upstream out of reach. A body is a sequence
of references, each a kind (asset, link, HMR literal, Echo host) and the origin it
names; the rewrites change origins, and with them lengths. **Middleware** is the
static set of trusted proxies of one PHP worker. **Serving** composes them with
`Laravel` (the test of composer.lock) and with upstreams modelled by what
localhoist relies on: Laravel bakes the hot file's origin into pages and derives
links from what it takes for the browser's origin, Vite bakes local addresses
into its modules, and both honour `Accept-Encoding`. They may send any prefix of a
body and then break off, or never end: a websocket, an event stream, or a page that
the application streams. A response to HEAD ends with its header.

### Abstractions

- Values are model values. A line that is not an assignment is one of a key
  that nobody asks for. `unquote` drops the quotes; nothing else in a raw text
  is told apart.
- `Save`'s `os.WriteFile` either writes everything, or (WriteFails) changes
  nothing or leaves the file empty; a kill in the middle leaves a temporary
  file nobody reads, so it is not told apart from one before or after.
  `SaveState`'s `os.WriteFile` is two steps, since its file is read again.
- `MarshalIndent` and `Unmarshal` are inverse on a complete sidecar and fail on
  an empty one. A sidecar damaged in another way (edited by hand) is not
  modelled.
- `Detect` derives the upstream from APP_URL in `.env`; that the environment or
  `--app` may override it is left out, because those values never come from
  `.env`. The flags and `composer.lock` are the choice of `patchEnv`.
- The context of `start()` is `context.Background()` and never done.
- In Session the banner chooses freely between asking and not asking, and an answer
  between being saved, not being saved, and the panic of AnswerPanics, which unwinds
  through the deferred cleanup; what the answer saves is in Config.
- A config file is its kind (missing, empty, no JSON object, `null`, an object), its
  `transport` (one of the two, absent, or another text) and whether it has other
  keys. The user does not write a file while a process is between reading and
  writing it: the last writer would win, as with any file.
- Every process of Startup lives once; a run is followed until it has no more to do
  with the settings. Whether there is a terminal is a free choice in TunnelOpen.
- Ports are not part of Mux: its upstreams are three places. X-Forwarded-For is
  passed on and looked at by nothing.
- The body of a request and the client's side of a broken connection are Go's
  ReverseProxy's, as is the switch of protocols: a websocket is a response without
  end. net/http's server notices a body that is not as long as declared (Deliver).
- A regular expression of rewrite.go that no longer matches (an unknown Vite
  version) leaves the body as it is; the model has the version they were written for.

## What TLC checks

Every property is shown to be breakable by a mutant of the code: the operators
marked "Bug:" in the modules.

| run | checks | instance |
|---|---|---|
| `session_safety` | TypeOK, IInv, Repairable, UpstreamNeverTunnel, NoLitter, ServesItsURL, NoOrphan, CleanExit, ImplementsLoan | 3 runs, 2 edits, all failures; about 440,000 states |
| `session_liveness` | SignalHonoured, LossNoticed, Settles, OnlyEditsLost, IInv | 2 runs, 1 edit at any moment, all failures; no symmetry; about 63,000 states |
| `tunnel` | TunnelTypeOK, FirstURL, ImplementsContract, Drains, ReaderEnds, StopEnds | 3 lines printed, a pipe of 2 lines, ngrok's parser and fatal error lines |
| `startup` | ConfigTypeOK, CacheTypeOK, KeysKept, ReadableUnlessDamaged, AskedOnce, HonoursChoices, CachedWhole, ResolvesAtOnce, ImplementsSettings | 2 processes, 1 edit, downloads of 2 pieces, all failures; about 815,000 states |
| `serving` | ServingTypeOK, RoutesBySegment, PublicReferences, LeftAlone, PublicLinks, UnmarkedIgnored, CutsShow, Streams, Answered | requests of 13 kinds one after another, 2 places for the dev server; about 44,000 states |

Why this is enough to be convincing: three runs let one crash anywhere, the
second crash in the recovery of the first, and the third recover; one of the
two initial files assigns APP_URL twice, once in quotes, with a comment between,
the other does not assign it and has no final newline; two edits let the user
change a key before and during a run, or APP_URL and then another. In
`session_liveness` one edit falls at any moment, between the reading of a copy of
`.env` and its writing too, and the second run recovers what the first left. Three lines
are an error, a URL and a second URL in any order (or a huge line), and a pipe
of two makes the process block. With fatal error lines (`AbortOnErr`) the reader
does all it does without them, and also fills `errCh`.
Deadlock is not checked in these three, nor in `startup`: runs end, users stop
editing, a tunnel may never start. In `serving` it is.

Two processes meet in every pair of steps on the config files and the cache: one
reads, truncates, writes or renames while the other does. For three and more there
are the proofs below. The first process can be a run whose answer is
saved, the second a run that must then not ask. The initial files have no content,
or a choice and keys of another version; the edit puts in `null`, or a transport that
does not exist beside other keys; everything unreadable comes from a process cut
short or from two at once. A download of two pieces can be cut short with one of
them copied.

In `serving` one slot is enough for safety because requests share nothing in the
mux but the hot file and, in the application, the worker's trusted proxies: the hot
file moves at any moment, and visits past the mux change the trusted proxies
between any two steps, as another request would. The requests are one for
each decision of the code: a page asked for as such or not, by HEAD, through the
tunnel or directly; the HMR client and a module; the websockets of Vite and Reverb
on the same path; a subtree's own name, a longer name, a prefix without a slash,
and the empty path. Bodies have up to two references, so one may break off after
none, one or all of them.

What the properties leave out, they name, each in the comment above it:

- PublicReferences speaks of whole pages with status 200 that were asked for as pages,
  and of references to the dev server the hot file named when the header came
  (proxy.go:189); a page rendered before the dev server moved keeps the old address.
  LeftAlone says the reverse of what is excepted by status: an error page arrives as
  the application sent it, local address included (proxy.go:164).
- CutsShow leaves out a body of undeclared length that breaks off while held back.
  swapBody knows of the error (proxy.go:204) and drops it, and a complete empty page
  arrives; `serving_cut_page` shows how.
- Streams leaves out endless pages that are to be rewritten: they are held back until
  they end (proxy.go:188-206).
- KeysKept leaves out files that cannot be read, as they are while they are written,
  after a writer was killed in between, or after two wrote at once (config.go:226).
  ReadableUnlessDamaged says that nothing else but the user leaves an unreadable one.
- AskedOnce speaks of a run that reads the global file after an answer was saved there,
  and for as long as the answer stays. Of two runs that overlap, both may ask: the
  second resolves (main.go:99) before the first is answered (main.go:233).
- ResolvesAtOnce leaves out a run between whose two reads both files change.
- CleanExit is about the outcomes in which `cleanup()` ran through, not about a run that
  a file error ended, and lets a file without a final newline gain one (envfile.go:68).
- CachedWhole leaves out a file whose stream ended early, which nobody notices
  (BinaryLocator.php:105), and one that two downloads had at once
  (BinaryLocator.php:92).

Three of these exceptions are at odds with what the repository says, and are recorded
as findings on the property that has to make them: README.md:42 and 132-134 make no
exception for error pages (LeftAlone); config.go:136-137 says that unknown keys survive a
rewrite (KeysKept); README.md:46 says byte-for-byte, which holds for files with a final
newline only (CleanExit).

Seven runs check a sentence of the documentation that the code does not keep; TLC
shows how:

- `session_overlap`: a second run in the same project takes the live run's
  sidecar for a crash and reverts its patch (main.go:73).
- `session_stale_copy`: an edit made while the tunnel opens is lost, because
  the lines saved were read before (main.go:175).
- `session_wedged`: killed between the truncation and the writing of the
  sidecar, the program refuses every later start until the user removes the
  file (envfile.go:112, 129). `.env` itself is untouched then.
- `session_early_signal`: Ctrl+C before the tunnel is up orphans the tunnel
  process (main.go:159, tunnel.go:65).
- `tunnel_hint`: the exit hint is given although an error line was printed,
  because `Done` is closed before the reader has parsed it (tunnel.go:126).
- `serving_unpatched`: composer.lock has the package and APP_URL is not patched, but
  APP_ENV is not `local`, so the middleware is not registered and nobody trusts
  X-Forwarded-Proto (main.go:166, ShareServiceProvider.php:23). Links name the public
  host, which the mux passes on as Host (proxy.go:103-105), but say http where the
  browser used https. An application in a container, which sees the mux connect from
  another address than loopback (TrustLocalhoistProxy.php:43), is in the same position.
- `serving_cut_page`: a page that is to be rewritten, and whose length was not declared,
  breaks off. The browser gets an empty page, complete and with status 200
  (proxy.go:204-206), where proxy.go:161-162 says that any failure leaves the response
  untouched.

The first two come of what two constants allow: `Overlap`, that a run starts while
another is alive, and `EditWindow`, where the user may edit though a run holds lines
it is going to write back. All other runs exclude overlapping runs. `session_safety`
also excludes those edits, which makes the operator `Careful`, and checks that
nothing is lost at all; `session_liveness` has the user edit at any moment and
checks with OnlyEditsLost that nothing is lost but the value of a key so edited: the
property leaves the values of `OtherKeys` out of account, whenever they were written.
In every run the user changes APP_URL itself only with no run alive and none to recover from: what should become of a change
made while the line is on loan, the documentation does not say, and the code
overwrites it.

### Fairness

Session: `WF_vars(Proceed(r))`: a live process is scheduled, and `tunnel.Start`
answers, which is `Contract!ContractSpec`, checked of Tunnel, and rests on the
timer of tunnel.go:127. Nothing makes anyone start a run, answer the question,
send a signal or kill. TakeSignal and TunnelLost are part of Proceed because a
Go `select` with a ready case proceeds.
Tunnel: weak fairness of each goroutine, of the timers, and of SIGKILL. The
process is not made to print, to exit, or to obey SIGTERM; `run()` is not made to
call Stop. Every loop of the reader consumes a line, so the bound on the log does
not hide a livelock.

Serving: `WF_svars(MuxStep(q))`: the goroutine of a request runs when there is
something to read or to pass on. The upstreams are assumed to do nothing: Streams
and Answered speak of what they have already sent, or ended. Startup states
safety only and needs no fairness.

## What is proved

`SessionProofs`, for any set of runs, keys, values, files and any bound on edits:

| theorem | says |
|---|---|
| SessionInvariant, SessionTypes | IInv, and TypeOK with it |
| LosesOnlyEdits | OnlyEditsLost: all but the values of the keys edited can be got back |
| NoTemporaryLeft, AlwaysServesItsURL, NeverProxiesATunnel | NoLitter, ServesItsURL, UpstreamNeverTunnel |
| AlwaysRepairable | with `Careful`: what is on disk always suffices to get the user's lines back |
| ExitsClean | with `Careful`: the action property CleanExit |
| SessionImplementsLoan | with `Careful`: Session implements Loan |
| NeverOrphans | NoOrphan, overlapping runs included |

All but the last assume `~Overlap`, that runs follow one another, and none but the
three marked restricts when the user edits: those three are false otherwise
(`session_stale_copy`). Without `~Overlap` NoOrphan is all that is claimed.

The argument. Repairable is not inductive: that a rename keeps it depends on what
the run is about to write, which was computed some steps ago. IInv adds, for
each run, what its position says about its memory and the disk: before the
snapshot the copy of a patching run is `intent` (StartupInv); from the snapshot on
`snap` is the sidecar's value, and the lines to be written are `intent` with the
tunnel's URL, or `intent` itself when restoring (PatchInv); serving and stopping
know whether there is a sidecar (ServeInv). At most one run is alive (OneLive),
so no step disturbs another run's part. An edit while a run holds a copy breaks all
these equalities, and breaks them for good, since the copy is written back. So IInv
states them of what is `Seen` of a file: the whole file when `EditWindow` is empty, and
otherwise the file with the values of the keys in `OtherKeys` covered. An edit at a wrong
moment changes nothing that is seen (SetMasked); APP_URL is never covered, so the
snapshot and the upstream are right whatever is (GetAlike); and Set and Reinstate take
files that look alike to files that look alike (SetAlike, ReinstateAlike), although
the covered lines differ. With nothing covered IInv gives Repairable back
(MendsNone). The rest is algebra of lines, in
`EnvFileProofs`: reinstating a raw value undoes a `Set` (ReinstateUndoesSet),
reinstating twice is reinstating once (a recovery that crashes,
ReinstateTwice), and reinstating commutes with setting another key (an edit
while a run serves, ReinstateCommutes). `IInv` is also an invariant of
`session_safety`, with `EditWindow` empty, and of `session_liveness`, with all of it.

`TunnelProofs`, for logs and pipes of any size and any set of URLs:

| theorem | says |
|---|---|
| TunnelInvariant, TunnelTypeCorrect | TunnelInv, TunnelTypeOK |
| TunnelKeepsContract | Tunnel implements the safety part of TunnelContract |
| TunnelFirstURL | FirstURL: start() answers with the first URL announced |

TunnelInv relates the caller's position and the channels to the life of the process;
the contract follows from it case by case. FirstURL needs another strengthening,
because it compares an answer with lines that may still be under way: FirstURLInv says
that for some number k the log is k lines the reader has been through, then its
chunk, then the pipe (ReadUpTo), with nothing missing at the end until the process has
exited; that as long as start() waits, an empty `urlCh` means that none of those k
lines named a URL; and that what `urlCh` holds, and what was answered, was the first
URL of the log (Announced), which later lines do not change (StaysAnnounced).

`StartupProofs`, for any set of processes, flags, initial files and edits, and
downloads of any number of pieces:

| theorem | says |
|---|---|
| StartupInvariant | ConfigInv and CacheInv side by side |
| StartupTypes, StartupCacheTypes | ConfigTypeOK, CacheTypeOK |
| StartupKeepsKeys | KeysKept: the keys are there whenever the file can be read |
| StartupReadable | ReadableUnlessDamaged |
| StartupAsksOnce | AskedOnce |
| StartupHonoursChoices | HonoursChoices |
| StartupCachedWhole | CachedWhole |
| StartupResolvesAtOnce | the action property ResolvesAtOnce |
| StartupImplementsSettings | Config implements Settings, composed with the downloads |

None of the invariants is inductive. ConfigInv (`ConfigProofs`) has one part for each way in
which a process carries what it has read past the steps of others: what a process is
about to write has the other keys of the file as the user left them (KeepInv); while an
undamaged file is being written it is blank and has one writer (DamageInv); the answer
is in the global file or that file is being written, and whoever began with the answer
knows it or fails (AnswerInv); what a run has resolved is what Layer and OnTop make of
the contents it saw and of its flags (ChoiceInv). KeepInv holds for two overlapping
writers because neither changes keys it does not know; with DamageInv it gives KeysKept.
CacheInv
(`BinaryCacheProofs`) follows a file by its identity: one that is not shared has one
writer and holds exactly the pieces that writer has copied, all of them from CopyEnds
on unless it was cut (WriterInv); a file still to be created is nowhere (FreshInv); and
the cached file is never the `.partial` one and is whole, cut or shared (CachedInv).
For the refinement KeepInv also says that the transport a writer is about to write is
the one it was asked for: then a truncation changes what the file holds to exactly
that (WholeTruncate), and the write that follows, which replaces the blank file by
the content, changes nothing a user of Settings sees (WholeWrite). The steps of one
process leave what the others were asked for alone (OthersAsk), and leave what the
other file holds alone (OthersHold); DamageInv gives the case of two writers.
LayersGivePrecedence states apart that the two turns of the loop of Resolve give the
project's file precedence over the global one, for all contents.

`RoutingProofs` and `ServingProofs`, for any set of slots, requests and hot files:

| theorem | says |
|---|---|
| RouteIsOwner | the search for a prefix in the table finds the upstream that the first segment, or the subprotocol, names, for paths of any length |
| ServingInvariant, ServingTypes | ServingInv, ServingTypeOK |
| ServingRoutes | RoutesBySegment |
| ServingLeavesAlone | LeftAlone |
| ServingLinks, ServingReferences | PublicLinks, PublicReferences |
| ServingCuts | CutsShow |
| ServingUnmarked | UnmarkedIgnored |

RouteIsOwner is the only result here about what a table computes: a prefix ends in a
slash, or is `/__vite_hmr`, which need not be the whole segment (SubtreeMatches,
StemMatches); the entries before the last exclude each other, so the first that
matches decides and the order among them does not matter (SearchStops, FirstHit).
The properties of Serving hold at the end of a response and depend on choices made
when its header came, so SlotOK says of each stage how the request, what was sent to
the upstream, the response, the rewriter chosen for it and the body so far belong
together: the response is one the upstream may give to the stamped request
(AnswerOK), the rewriter is the one for that response with some hot file, not
necessarily the present one (RewriterOK), and what was received is a beginning of
the body (Begins). CutsShow rests on a fact about lengths: emptying a body that is
not empty changes its length. A slot's steps change nothing of the other slots, so
one slot is checked by TLC and any number is proved.

The assumptions are those named in the modules: APP_URL is a key and not among
the keys edited freely; users' values and tunnels' URLs are disjoint; the
sentinels are no values, files or processes; a pipe and a download have at least one
place and one piece; a request names a path from the root, none, or `*`
(net/http refuses others; RequestAssumption of Mux); the hot file names an
origin; a project whose composer.lock has the package has it installed. TLC evaluates
them in the runs.

Every safety property of the passing runs is thus stated by a theorem. Only
model-checked: the liveness properties SignalHonoured, LossNoticed, Settles, Drains,
ReaderEnds, StopEnds, Streams and Answered and the fairness part of ImplementsContract
(liveness under fairness is out of the prover's reach). The operators of Laravel
(`Detect`) are checked only through the runs that use them: what could be proved of
them (the environment goes before `.env`, the first entry of a package in
composer.lock decides) is what their definitions say.

## Order of the work

The modules were written from the inside out, and a later reader does well to take
the same way: EnvFile, Session and Loan; Tunnel, TunnelContract and Transports; Config,
Settings, BinaryCache, Laravel and their composition Startup; Routing, Mux, Middleware
and their composition Serving; for each the run first, then the invariant checked by
TLC, then its proof. All modules with a state are written without RECURSIVE operators.

## Not modelled

- `ensureBinary` (ensure.go): it keeps no state, and ends in a path, or in an error
  before anything was started, which is Tunnel's LaunchFails.
- `showConfig` (config_cmd.go:71): it reads and prints.
- The transports' argument lists, the guidance on authtokens (ngrok.go:42), the
  arguments `artisan share` passes on, the banner, the QR code and the warning about
  a cached configuration: wording.
- The context branch of `start()`: its context is never done.
- Power cuts (nothing is synced), a project directory that is moved, and damage to
  the sidecar by hand.
- The web page, the documentation, the release files and `test/e2e.sh`: no program
  logic of their own.
