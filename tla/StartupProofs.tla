--------------------------- MODULE StartupProofs ---------------------------
(***************************************************************************)
(* Whole runs, for any number of processes, any flags, any project and any *)
(* contents of the two files: no interleaving of downloads, runs and       *)
(* commands that change the settings breaks what Config.tla and            *)
(* BinaryCache.tla promise.                                                *)
(***************************************************************************)
EXTENDS Startup, ConfigProofs, BinaryCacheProofs

\* The settings and the download keep their invariants side by side.
StartupInv == ConfigInv(Flags) /\ CacheInv

LEMMA StartupInit == Init => StartupInv
  BY ConfigInitInv, CacheInitInv DEF Init, StartupInv

LEMMA StartupStep ==
  ASSUME StartupInv, [Next]_vars
  PROVE  StartupInv'
<1> USE DEF StartupInv
<1>1. ASSUME NEW p \in Procs, Run(p)
      PROVE  StartupInv'
  <2>1. PICK flag \in Flags, domain \in BOOLEAN : ReadGlobal(p, flag, domain)
    BY <1>1 DEF Run
  <2>2. UNCHANGED bvars
    BY <1>1 DEF Run
  <2> QED
    BY <2>1, <2>2, ReadGlobalInv, CacheStutter
<1>2. ASSUME NEW p \in Procs, CacheStep(p), UNCHANGED cvars
      PROVE  StartupInv'
  BY <1>2, CacheStepInv, ConfigStutter
<1>3. ASSUME NEW p \in Procs, ConfigStep(p), UNCHANGED bvars
      PROVE  StartupInv'
  BY <1>3, ConfigStepInv, CacheStutter
<1>4. ASSUME NEW f \in Files, UserWrites(f), UNCHANGED bvars
      PROVE  StartupInv'
  BY <1>4, UserWritesInv, CacheStutter
<1>5. CASE UNCHANGED vars
  BY <1>5, ConfigStutter, CacheStutter DEF vars
<1> QED
  BY <1>1, <1>2, <1>3, <1>4, <1>5 DEF Next

\* Every state of every run keeps the invariant of the settings and of the cache.
THEOREM StartupInvariant == Spec => []StartupInv
  BY StartupInit, StartupStep, PTL DEF Spec

\* Every variable of the settings keeps its type, a run that has a tunnel has a
\* transport, and no process is about to write a transport that does not exist.
THEOREM StartupTypes == Spec => []ConfigTypeOK
<1>1. StartupInv => ConfigTypeOK
  BY ConfigInvProperties DEF StartupInv
<1> QED
  BY <1>1, StartupInvariant, PTL

\* Every variable of the download keeps its type: no file of the cache gets more
\* pieces than there are, however many processes copy into it.
THEOREM StartupCacheTypes == Spec => []CacheTypeOK
<1>1. StartupInv => CacheTypeOK
  BY CacheInvWhole DEF StartupInv
<1> QED
  BY <1>1, StartupInvariant, PTL

\* A file that can be read has the keys of another version that the user gave it,
\* after any commands and answers of any number of processes; one that cannot be read
\* has lost them to a writer that is at work, was cut short, or was not alone (Set,
\* Unset and write, config.go:154-227).
THEOREM StartupKeepsKeys == Spec => []KeysKept
<1>1. StartupInv => KeysKept
  BY ConfigInvProperties DEF StartupInv
<1> QED
  BY <1>1, StartupInvariant, PTL

\* A file at rest can be parsed, unless a writer was cut short, two wrote at once,
\* or the user wrote it so (write, config.go:218-227).
THEOREM StartupReadable == Spec => []ReadableUnlessDamaged
<1>1. StartupInv => ReadableUnlessDamaged
  BY ConfigInvProperties DEF StartupInv
<1> QED
  BY <1>1, StartupInvariant, PTL

\* A run that reads the global file after an answer was saved there does not ask
\* again while it stays there; a run that read it before may (main.go:99, 229-254).
THEOREM StartupAsksOnce == Spec => []AskedOnce
<1>1. StartupInv => AskedOnce
  BY ConfigInvProperties DEF StartupInv
<1> QED
  BY <1>1, StartupInvariant, PTL

\* No run goes up with another transport than its flag or its domain asks for
\* (config.go:102-127).
THEOREM StartupHonoursChoices == Spec => []HonoursChoices
<1>1. StartupInv => HonoursChoices
  BY ConfigInvProperties DEF StartupInv
<1> QED
  BY <1>1, StartupInvariant, PTL

\* The cached binary is whole, or its download was cut or shared, for any number of
\* processes that download at once (BinaryLocator.php:92-110).
THEOREM StartupCachedWhole == Spec => []CachedWhole
<1>1. StartupInv => CachedWhole
  BY CacheInvWhole DEF StartupInv
<1> QED
  BY <1>1, StartupInvariant, PTL

\* Only its own read of the project's file takes a run from "project" to "finalize".
LEMMA ProjectIsRead ==
  ASSUME TypesInv(Flags), [Next]_vars, NEW p \in Procs,
         phase[p] = "project", phase'[p] = "finalize"
  PROVE  ReadProject(p)
<1>1. ASSUME NEW q \in Procs, q # p,
             ConfigStep(q) \/ \E flag, domain : ReadGlobal(q, flag, domain)
      PROVE  FALSE
  BY <1>1, StepFrame
<1>2. ASSUME NEW q \in Procs, Run(q)
      PROVE  q # p /\ \E flag, domain : ReadGlobal(q, flag, domain)
  <2>1. \E flag, domain : ReadGlobal(q, flag, domain)
    BY <1>2 DEF Run
  <2>2. phase[q] = "idle"
    BY <2>1 DEF ReadGlobal
  <2> QED
    BY <2>1, <2>2
<1>3. ASSUME NEW q \in Procs, ConfigStep(q)
      PROVE  ReadProject(p)
  <2>1. q = p
    BY <1>1, <1>3
  <2>2. CASE LeaveFile(p) \/ SetPanics(p) \/ Write(p) \/ WriteFails(p) \/ KillProcess(p)
    BY <2>2 DEF LeaveFile, SetPanics, Write, WriteFails, KillProcess, Ends, TypesInv
  <2> QED
    BY <1>3, <2>1, <2>2 DEF ConfigStep, Settle, TunnelOpen, AnswerPrompt, StartCommand,
       ReadForUpdate, Truncate
<1>4. CASE UNCHANGED cvars \/ \E f \in Files : UserWrites(f)
  BY <1>4 DEF cvars, UserWrites
<1> QED
  BY <1>1, <1>2, <1>3, <1>4 DEF Next, vars

\* What a run resolves is what the two files said together at one moment, unless
\* both have changed between its two reads (Resolve, config.go:82-100).
THEOREM StartupResolvesAtOnce == Spec => ResolvesAtOnce
<1>1. ASSUME StartupInv, [Next]_vars, NEW p \in Procs,
             phase[p] = "project", phase'[p] = "finalize"
      PROVE  \/ res'[p] \in {Precedence(saw[p]), Precedence(files)}
             \/ \A f \in Files : files[f] # saw[p][f]
  <2>t. TypesInv(Flags) /\ ChoiceInv
    BY <1>1 DEF StartupInv, ConfigInv
  <2>1. ReadProject(p)
    BY <1>1, <2>t, ProjectIsRead
  <2>2. res'[p] = Layer(Layer(ByDefault, saw[p]["global"], "global"),
                        files["project"], "project")
    BY <1>1, <2>1, <2>t DEF ReadProject, TypesInv, ChoiceInv, ChosenBy
  <2>3. files \in [Files -> Contents] /\ saw[p] \in [Files -> Contents]
    BY <2>t DEF TypesInv
  <2>4. CASE files["global"] = saw[p]["global"]
    BY <2>2, <2>3, <2>4, LayersGivePrecedence
  <2>5. CASE files["project"] = saw[p]["project"]
    BY <2>2, <2>3, <2>5, LayersGivePrecedence
  <2> QED
    BY <2>4, <2>5 DEF Files
<1>2. StartupInv /\ [Next]_vars =>
        [\A p \in Procs : phase[p] = "project" /\ phase'[p] = "finalize" =>
           \/ res'[p] \in {Precedence(saw[p]), Precedence(files)}
           \/ \A f \in Files : files[f] # saw[p][f]]_cvars
  BY <1>1
<1> QED
  BY <1>2, StartupInvariant, PTL DEF Spec, ResolvesAtOnce

\* However the processes that truncate and write the two files are interleaved, and
\* whichever of them fails or is killed, they look as if each change were made at one
\* moment (Set, Unset and write, config.go:154-227).
THEOREM StartupImplementsSettings == Spec => ImplementsSettings
<1>1. Init => Whole!SettingsInit
  BY WholeInit DEF Init
<1>2. ASSUME StartupInv, StartupInv', [Next]_vars
      PROVE  [Whole!SettingsNext]_(Whole!svars)
  <2>i. ConfigInv(Flags) /\ ConfigInv(Flags)'
    BY <1>2 DEF StartupInv
  <2>1. ASSUME NEW p \in Procs, Run(p)
        PROVE  UNCHANGED Whole!svars
    <3>1. \E flag, domain : ReadGlobal(p, flag, domain)
      BY <2>1 DEF Run
    <3> QED
      BY <2>i, <3>1, WholeRead
  <2>2. ASSUME NEW p \in Procs, ConfigStep(p)
        PROVE  [Whole!SettingsNext]_(Whole!svars)
    BY <2>2, <2>i, WholeStep
  <2>3. ASSUME NEW f \in Files, UserWrites(f)
        PROVE  [Whole!SettingsNext]_(Whole!svars)
    <3>1. Whole!Edit(f)
      BY <2>3, <2>i, WholeUser
    <3> QED
      BY <3>1 DEF Whole!SettingsNext
  <2>4. CASE UNCHANGED cvars
    BY <2>4 DEF cvars, Whole!svars, Held, Asked
  <2> QED
    BY <1>2, <2>1, <2>2, <2>3, <2>4 DEF Next, vars
<1> QED
  BY <1>1, <1>2, StartupInvariant, PTL DEF Spec, ImplementsSettings, Whole!SettingsSpec
============================================================================
