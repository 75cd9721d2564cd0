--------------------------- MODULE SessionProofs ---------------------------
(***************************************************************************)
(* Crash safety of localhoist's runs, for every .env, any number of runs,  *)
(* any edits, crashes and failing file operations.                         *)
(***************************************************************************)
EXTENDS Session, EnvFileProofs

----------------------------------------------------------------------------
(* Types of the operations.                                                *)

LEMMA LineType ==
  ASSUME NEW key \in Keys, NEW raw \in Raw
  PROVE  [key |-> key, raw |-> raw] \in Line
  BY DEF Line

LEMMA GetRawType ==
  ASSUME NEW l \in Seq(Line), NEW key
  PROVE  GetRaw(l, key) \in Original
  BY GetRawFirst DEF Original

LEMMA PlainType ==
  ASSUME NEW r \in Runs
  PROVE  Plain(TunnelURL[r]) \in Raw
  BY UrlsAssumption DEF Plain, Raw

LEMMA SaveType ==
  ASSUME NEW l \in Seq(Line)
  PROVE  Save(l) \in File /\ EmptyFile \in File
  BY EmptySeq DEF Save, File, EmptyFile

LEMMA LoadType ==
  ASSUME NEW f \in File
  PROVE  Load(f) \in Seq(Line)
  BY DEF Load, File

\* The values the user gives are values a line may hold.
LEMMA UserLineType == UserLine \subseteq Line
  BY UrlsAssumption DEF UserLine, Line, Raw

LEMMA GetType ==
  ASSUME NEW l \in Seq(UserLine), NEW key
  PROVE  Get(l, key) \in UserUrls \cup {Absent}
<1>1. l \in Seq(Line)
  BY UserLineType, SeqMonotonic
<1>2. CASE ~ HasKey(l, key)
  BY <1>2 DEF Get, GetRaw, Unquote
<1>3. CASE HasKey(l, key)
  <2>1. PICK i \in DOMAIN l : GetRaw(l, key) = l[i].raw /\ GetRaw(l, key) \in Raw
    BY <1>1, <1>3, GetRawFirst
  <2>2. l[i] \in UserLine
    BY <2>1, LenProperties, ElementOfSeq
  <2> QED
    BY <2>1, <2>2, AbsentAssumption DEF UserLine, Get, Unquote
<1> QED
  BY <1>2, <1>3

\* APP_URL is not among the keys whose edits may be lost.
LEMMA StaleKeys == Stale \subseteq OtherKeys /\ AppUrl \notin Stale
  BY KeysAssumption DEF Stale

\* Files that look alike give APP_URL the same value, look alike when APP_URL is
\* set, and when it is given back.
LEMMA SeenAlike ==
  ASSUME NEW l \in Seq(Line), NEW m \in Seq(Line), Seen(l) = Seen(m)
  PROVE  /\ GetRaw(l, AppUrl) = GetRaw(m, AppUrl)
         /\ HasKey(l, AppUrl) <=> HasKey(m, AppUrl)
         /\ \A key \in Keys, raw \in Raw : Seen(Set(l, key, raw)) = Seen(Set(m, key, raw))
         /\ \A o \in Original : Seen(Reinstate(l, AppUrl, o)) = Seen(Reinstate(m, AppUrl, o))
<1>1. Masked(l, Stale) = Masked(m, Stale)
  BY DEF Seen
<1>2. ASSUME NEW key \in Keys, NEW raw \in Raw
      PROVE  Seen(Set(l, key, raw)) = Seen(Set(m, key, raw))
  <2>1. [key |-> key, raw |-> raw] \in Line
    BY LineType
  <2> QED
    BY <1>1, <2>1, SetAlike DEF Seen
<1>3. ASSUME NEW o \in Original
      PROVE  Seen(Reinstate(l, AppUrl, o)) = Seen(Reinstate(m, AppUrl, o))
  <2>1. o # Absent => [key |-> AppUrl, raw |-> o] \in Line
    BY KeysAssumption, LineType DEF Original
  <2> QED
    BY <1>1, <2>1, ReinstateAlike DEF Seen
<1> QED
  BY <1>1, <1>2, <1>3, GetAlike, StaleKeys

\* An edit that may be lost does not show.
LEMMA SeenSet ==
  ASSUME NEW l \in Seq(Line), NEW key \in Stale, NEW raw \in Raw
  PROVE  Seen(Set(l, key, raw)) = Seen(l)
<1>1. [key |-> key, raw |-> raw] \in Line
  BY StaleKeys, KeysAssumption, LineType
<1> QED
  BY <1>1, SetMasked DEF Seen

----------------------------------------------------------------------------
(* The runs that do not act, and the files no step touches.                *)

\* All of a run's own state that the invariant speaks of.
SameRun(q) ==
  /\ pc'[q] = pc[q] /\ ctx'[q] = ctx[q] /\ snap'[q] = snap[q]
  /\ upstream'[q] = upstream[q]

\* Only one run acts at a time: while it does, whatever it does to the files,
\* the invariants of the others hold, for none of the others is alive.
LEMMA Others ==
  ASSUME ~ Overlap, IInv, NEW r \in Runs, Live(r) \/ MayStart(r),
         \A q \in Runs \ {r} : SameRun(q)
  PROVE  /\ OneLive'
         /\ \A q \in Runs \ {r} : ~ Live(q) /\ ~ Live(q)' /\ LocalInv(q)'
<1>1. \A q \in Runs \ {r} : ~ Live(q)
  BY DEF IInv, OneLive, MayStart
<1>2. \A q \in Runs \ {r} : pc[q] \in {"idle", "over"} /\ ~ Live(q)'
  BY <1>1 DEF Live, SameRun
<1>3. \A q \in Runs \ {r} : LocalInv(q)'
  BY <1>1, <1>2 DEF IInv, LocalInv, StartupInv, PatchInv, ServeInv, Live, SameRun
<1> QED
  BY <1>1, <1>2, <1>3 DEF OneLive

\* A step of one run that changes no file preserves what is said of the files.
LEMMA FilesSame ==
  ASSUME IInv, UNCHANGED <<files, user>>
  PROVE  UserFile' /\ Mends(Stale)' /\ NoLitter'
  BY DEF IInv, files, user, UserFile, Mends, NoLitter

\* ServesItsURL of one run.
Serves(r) ==
  /\ pc[r] \in {"banner", "prompt", "wait"}
  /\ patchEnv[r]
  /\ HasKey(env.lines, AppUrl)
  => Get(env.lines, AppUrl) = TunnelURL[r]

\* The invariant after a step of run r, from what the step has to establish.
LEMMA Assemble ==
  ASSUME ~ Overlap, IInv, NEW r \in Runs, Live(r) \/ MayStart(r),
         \A q \in Runs \ {r} : SameRun(q),
         TypeOK', UserFile', Mends(Stale)', NoLitter', LocalInv(r)', Serves(r)'
  PROVE  IInv'
<1>1. OneLive' /\ \A q \in Runs \ {r} : ~ Live(q)' /\ LocalInv(q)'
  BY Others
<1>2. ServesItsURL'
  BY <1>1 DEF ServesItsURL, Serves, Live
<1> QED
  BY <1>1, <1>2 DEF IInv

\* A process that ends and touches no file.
LEMMA ExitInv ==
  ASSUME ~ Overlap, IInv, NEW r \in Runs, Live(r) \/ MayStart(r),
         NEW how \in Outcomes, Exit(r, how), UNCHANGED <<files, user>>,
         child' \in [Runs -> {"none", "running", "gone"}]
  PROVE  IInv'
<1>1. TypeOK'
  BY EmptySeq DEF IInv, TypeOK, Exit, files, user, PCs, Contexts
<1>2. \A q \in Runs \ {r} : SameRun(q)
  BY DEF IInv, TypeOK, Exit, SameRun
<1>3. LocalInv(r)' /\ Serves(r)'
  BY DEF IInv, TypeOK, Exit, LocalInv, StartupInv, PatchInv, ServeInv, Live, Serves
<1> QED
  BY <1>1, <1>2, <1>3, FilesSame, Assemble

----------------------------------------------------------------------------
(* The invariant holds initially and is preserved, action by action.       *)

LEMMA InitInv ==
  ASSUME Init
  PROVE  IInv
<1>1. env \in File /\ env.lines \in Seq(UserLine)
  BY FilesAssumption DEF Init
<1>2. TypeOK
  BY <1>1, FlagsAssumption, EmptySeq
  DEF Init, TypeOK, Sidecar, PCs, Contexts, Outcomes, Original
<1>3. \A r \in Runs : LocalInv(r)
  BY DEF Init, LocalInv, StartupInv, PatchInv, ServeInv, Live
<1> QED
  BY <1>1, <1>2, <1>3
  DEF Init, IInv, OneLive, Live, UserFile, Mends, NoLitter, ServesItsURL

LEMMA StartInv ==
  ASSUME ~ Overlap, IInv, NEW r \in Runs, Start(r)
  PROVE  IInv'
<1>1. CASE LoadStateNone(r)
  <2> USE <1>1 DEF LoadStateNone, Goto
  <2>1. TypeOK'
    BY DEF IInv, TypeOK, files, user, memory, PCs
  <2>2. MayStart(r) /\ \A q \in Runs \ {r} : SameRun(q)
    BY DEF SameRun, memory, IInv, TypeOK
  <2>3. LocalInv(r)' /\ Serves(r)'
    BY DEF IInv, TypeOK, LocalInv, StartupInv, PatchInv, ServeInv, Live, Serves,
           files, memory
  <2> QED
    BY <2>1, <2>2, <2>3, FilesSame, Assemble
<1>2. CASE LoadStateCorrupt(r)
  BY <1>2, ExitInv DEF LoadStateCorrupt, Outcomes, files, user, IInv, TypeOK
<1>4. CASE LoadStateFails(r)
  BY <1>4, ExitInv DEF LoadStateFails, Outcomes, files, user, IInv, TypeOK
<1>3. CASE LoadStateFound(r)
  <2> USE <1>3 DEF LoadStateFound, Goto
  <2>1. sidecar.original \in Original
    BY DEF IInv, TypeOK, Sidecar
  <2>2. TypeOK'
    BY <2>1 DEF IInv, TypeOK, files, user, PCs, Contexts
  <2>3. MayStart(r) /\ \A q \in Runs \ {r} : SameRun(q)
    BY DEF SameRun, IInv, TypeOK
  <2>4. LocalInv(r)' /\ Serves(r)'
    BY DEF IInv, TypeOK, LocalInv, StartupInv, PatchInv, ServeInv, Live, Serves,
           files, Recorded
  <2> QED
    BY <2>2, <2>3, <2>4, FilesSame, Assemble
<1> QED
  BY <1>1, <1>2, <1>3, <1>4 DEF Start

\* Restore computes the lines the user wants: that is what Mends says of the
\* files it starts from.
LEMMA RestoreLoadInv ==
  ASSUME ~ Overlap, IInv, NEW r \in Runs, RestoreLoad(r)
  PROVE  IInv'
<1> USE DEF RestoreLoad, Goto
<1>1. Recorded /\ snap[r] = sidecar.original /\ ctx[r] \in {"recover", "cleanup"}
  BY DEF IInv, LocalInv, PatchInv, ServeInv
<1>2. Seen(Reinstate(Load(env), AppUrl, snap[r])) = Seen(intent.lines)
  BY <1>1 DEF IInv, Mends, Seen, Recorded, Load
<1>3. Reinstate(Load(env), AppUrl, snap[r]) \in Seq(Line)
  <2>1. sidecar.original \in Original /\ Load(env) \in Seq(Line)
    BY <1>1, LoadType DEF IInv, TypeOK, Sidecar, Recorded
  <2> QED
    BY <1>1, <2>1, KeysAssumption, LineType, ReinstateType DEF Original
<1>4. TypeOK'
  BY <1>3 DEF IInv, TypeOK, files, user, PCs
<1>5. Live(r) /\ \A q \in Runs \ {r} : SameRun(q)
  BY DEF SameRun, IInv, TypeOK, Live
<1>6. LocalInv(r)' /\ Serves(r)'
  BY <1>1, <1>2 DEF IInv, TypeOK, LocalInv, StartupInv, PatchInv, ServeInv, Live, Serves,
         files, user, Recorded
<1> QED
  BY <1>4, <1>5, <1>6, FilesSame, Assemble

LEMMA SaveWriteInv ==
  ASSUME ~ Overlap, IInv, NEW r \in Runs, SaveWrite(r)
  PROVE  IInv'
<1> USE DEF SaveWrite, Goto
<1>1. Save(buf[r]) \in File
  BY SaveType DEF IInv, TypeOK
<1>2. TypeOK'
  BY <1>1 DEF IInv, TypeOK, user, memory, PCs
<1>3. Live(r) /\ \A q \in Runs \ {r} : SameRun(q)
  BY DEF SameRun, memory, IInv, TypeOK, Live
<1>4. Recorded
  BY DEF IInv, LocalInv, PatchInv
<1>5. UserFile' /\ Mends(Stale)' /\ NoLitter'
  BY <1>4 DEF IInv, UserFile, Mends, NoLitter, Recorded, user
<1>6. LocalInv(r)' /\ Serves(r)'
  BY DEF IInv, TypeOK, LocalInv, StartupInv, PatchInv, ServeInv, Live, Serves,
         user, memory, Recorded
<1> QED
  BY <1>2, <1>3, <1>5, <1>6, Assemble

\* The step that replaces .env.  A patch leaves the file with its snapshot
\* reinstatable; a Restore leaves the file the user wants.
LEMMA SaveRenameInv ==
  ASSUME ~ Overlap, IInv, NEW r \in Runs, SaveRename(r)
  PROVE  IInv'
<1> USE DEF SaveRename, Goto
<1>1. /\ Recorded /\ snap[r] = sidecar.original
      /\ tmp = Save(buf[r])
      /\ ctx[r] = "serve"
           \/ (Seen(buf[r]) = Seen(intent.lines) /\ ctx[r] \in {"recover", "cleanup"})
      /\ ctx[r] = "serve" =>
           /\ Seen(buf[r]) = Seen(Set(intent.lines, AppUrl, Plain(TunnelURL[r])))
           /\ snap[r] = GetRaw(intent.lines, AppUrl)
           /\ patchEnv[r]
  BY DEF IInv, LocalInv, PatchInv, ServeInv
<1>2. env'.lines = buf[r] /\ env'.newline = TRUE
  BY <1>1 DEF Save
<1>3. intent.lines \in Seq(Line) /\ env.lines \in Seq(Line) /\ buf[r] \in Seq(Line)
  BY DEF IInv, TypeOK, File
<1>4. sidecar.original \in Original
  BY <1>1 DEF IInv, TypeOK, Sidecar, Recorded
<1>5. TypeOK'
  BY DEF IInv, TypeOK, user, memory, PCs
<1>6. Live(r) /\ \A q \in Runs \ {r} : SameRun(q)
  BY DEF SameRun, memory, IInv, TypeOK, Live
<1>7. UserFile' /\ NoLitter'
  BY <1>1, <1>2 DEF IInv, UserFile, NoLitter, Recorded, user
<1>8. Seen(Reinstate(buf[r], AppUrl, sidecar.original)) = Seen(intent.lines)
      => Mends(Stale)'
  BY <1>1, <1>2 DEF Mends, Seen, Recorded, user
<1>9. CASE ctx[r] = "serve"
  <2> DEFINE raw == Plain(TunnelURL[r])
             patched == Set(intent.lines, AppUrl, raw)
  <2>1. raw \in Raw /\ raw.url = TunnelURL[r]
    BY PlainType DEF Plain
  <2>2. [key |-> AppUrl, raw |-> raw] \in Line
    BY <2>1, KeysAssumption, LineType
  <2>3. patched \in Seq(Line) /\ Seen(buf[r]) = Seen(patched)
    BY <1>1, <1>3, <1>9, <2>2, SetType
  <2> HIDE DEF raw
  <2>4. Reinstate(patched, AppUrl, sidecar.original) = intent.lines
    BY <1>1, <1>3, <1>9, <2>2, ReinstateUndoesSet
  <2>5. HasKey(patched, AppUrl) => GetRaw(patched, AppUrl) = raw
    <3>1. HasKey(patched, AppUrl) => HasKey(intent.lines, AppUrl)
      BY <1>3, SetFirst
    <3> QED
      BY <3>1, <1>3, <2>2, SetGet
  <2> HIDE DEF patched
  <2>6. Seen(Reinstate(buf[r], AppUrl, sidecar.original)) = Seen(intent.lines)
    <3>1. Seen(Reinstate(buf[r], AppUrl, sidecar.original))
            = Seen(Reinstate(patched, AppUrl, sidecar.original))
      BY <1>3, <1>4, <2>3, SeenAlike
    <3> QED
      BY <2>4, <3>1
  <2>7. HasKey(env'.lines, AppUrl) => Get(env'.lines, AppUrl) = TunnelURL[r]
    <3>1. /\ GetRaw(buf[r], AppUrl) = GetRaw(patched, AppUrl)
          /\ HasKey(buf[r], AppUrl) <=> HasKey(patched, AppUrl)
      BY <1>3, <2>3, SeenAlike
    <3> QED
      BY <3>1, <1>2, <2>1, <2>5, AbsentAssumption DEF Get, Unquote
  <2>8. Serves(r)'
    BY <2>7 DEF Serves
  <2>9. LocalInv(r)'
    BY <1>1, <1>9 DEF IInv, TypeOK, LocalInv, StartupInv, PatchInv, ServeInv, Live,
           user, memory, Recorded
  <2> QED
    BY <1>5, <1>6, <1>7, <1>8, <2>6, <2>8, <2>9, Assemble
<1>10. CASE ctx[r] # "serve"
  <2> DEFINE o == sidecar.original
             mended == Reinstate(env.lines, AppUrl, o)
  <2>1. Seen(buf[r]) = Seen(intent.lines)
    BY <1>1, <1>10
  <2>2. Seen(mended) = Seen(intent.lines)
    BY <1>1 DEF IInv, Mends, Seen, Recorded
  <2>3. o # Absent => [key |-> AppUrl, raw |-> o] \in Line
    BY <1>4, KeysAssumption, LineType DEF Original
  <2>4. mended \in Seq(Line) /\ Reinstate(mended, AppUrl, o) = mended
    BY <1>3, <2>3, ReinstateType, ReinstateTwice
  <2> HIDE DEF mended, o
  <2>5. Seen(Reinstate(buf[r], AppUrl, o)) = Seen(Reinstate(mended, AppUrl, o))
    BY <1>3, <1>4, <2>1, <2>2, <2>4, SeenAlike DEF o
  <2>6. Mends(Stale)'
    BY <1>8, <2>2, <2>4, <2>5 DEF o
  <2>7. LocalInv(r)' /\ Serves(r)'
    BY <1>1, <1>2, <1>10, <2>1 DEF IInv, TypeOK, LocalInv, StartupInv, PatchInv, ServeInv,
           Live, Serves, user, memory, Recorded
  <2> QED
    BY <1>5, <1>6, <1>7, <2>6, <2>7, Assemble
<1> QED
  BY <1>9, <1>10

\* The sidecar goes last, when .env no longer needs it.
LEMMA RestoreRemoveInv ==
  ASSUME ~ Overlap, IInv, NEW r \in Runs, RestoreRemove(r)
  PROVE  IInv'
<1> USE DEF RestoreRemove, Goto
<1>1. /\ Seen(env.lines) = Seen(intent.lines) /\ tmp = NoFile
      /\ ctx[r] \in {"recover", "cleanup"}
  BY DEF IInv, LocalInv, ServeInv
<1>2. TypeOK'
  BY DEF IInv, TypeOK, user, PCs, Contexts, Sidecar
<1>3. Live(r) /\ \A q \in Runs \ {r} : SameRun(q)
  BY DEF SameRun, IInv, TypeOK, Live
<1>4. UserFile' /\ Mends(Stale)' /\ NoLitter'
  BY <1>1 DEF IInv, UserFile, Mends, Seen, NoLitter, user
<1>5. LocalInv(r)' /\ Serves(r)'
  BY <1>1 DEF IInv, TypeOK, LocalInv, StartupInv, PatchInv, ServeInv, Live, Serves,
         user, Recorded
<1> QED
  BY <1>2, <1>3, <1>4, <1>5, Assemble

\* An error of a file operation: the sidecar is still there, so nothing the
\* user has is out of reach.
LEMMA FileErrorInv ==
  ASSUME ~ Overlap, IInv, NEW r \in Runs, FileError(r),
         pc[r] \in {"load", "write", "rename", "remove"},
         tmp' \in File \cup {NoFile}, UNCHANGED <<env, sidecar, user, child>>
  PROVE  IInv'
<1>1. Recorded /\ snap[r] = sidecar.original /\ snap[r] # NoState
  BY SentinelsAssumption
  DEF IInv, LocalInv, PatchInv, TypeOK, Sidecar, Recorded
<1>2. UserFile' /\ Mends(Stale)' /\ NoLitter'
  BY <1>1 DEF IInv, UserFile, Mends, NoLitter, Recorded, user
<1>3. Live(r)
  BY DEF Live
<1>4. CASE ctx[r] = "recover" /\ Exit(r, "error")
  <2>1. TypeOK'
    BY <1>4, EmptySeq DEF IInv, TypeOK, Exit, user, PCs, Contexts, Outcomes
  <2>2. \A q \in Runs \ {r} : SameRun(q)
    BY <1>4 DEF IInv, TypeOK, Exit, SameRun
  <2>3. LocalInv(r)' /\ Serves(r)'
    BY <1>4 DEF IInv, TypeOK, Exit, LocalInv, StartupInv, PatchInv, ServeInv, Live, Serves
  <2> QED
    BY <1>2, <1>3, <2>1, <2>2, <2>3, Assemble
<1>5. CASE ctx[r] = "serve" /\ Cleanup(r, "error") /\ UNCHANGED <<memory, sig>>
  <2>1. TypeOK'
    BY <1>5 DEF IInv, TypeOK, Cleanup, user, memory, PCs, Contexts, Outcomes
  <2>2. \A q \in Runs \ {r} : SameRun(q)
    BY <1>5 DEF IInv, TypeOK, Cleanup, SameRun, memory
  <2>3. LocalInv(r)' /\ Serves(r)'
    BY <1>1, <1>5 DEF IInv, TypeOK, Cleanup, LocalInv, StartupInv, PatchInv, ServeInv,
                      Live, Serves, memory, Recorded
  <2> QED
    BY <1>2, <1>3, <2>1, <2>2, <2>3, Assemble
<1>6. CASE /\ ctx[r] = "cleanup"
           /\ pc' = [pc EXCEPT ![r] = "stop"]
           /\ outcome' = [outcome EXCEPT ![r] = "unrestored"]
           /\ UNCHANGED <<ctx, memory, sig>>
  <2>1. TypeOK'
    BY <1>6 DEF IInv, TypeOK, user, memory, PCs, Outcomes
  <2>2. \A q \in Runs \ {r} : SameRun(q)
    BY <1>6 DEF IInv, TypeOK, SameRun, memory
  <2>3. LocalInv(r)' /\ Serves(r)'
    BY <1>6 DEF IInv, TypeOK, LocalInv, StartupInv, PatchInv, ServeInv,
                Live, Serves, memory, Recorded
  <2> QED
    BY <1>2, <1>3, <2>1, <2>2, <2>3, Assemble
<1> QED
  BY <1>4, <1>5, <1>6 DEF FileError

LEMMA FaultsInv ==
  ASSUME ~ Overlap, IInv, NEW r \in Runs,
         LoadFails(r) \/ WriteFails(r) \/ RenameFails(r) \/ RemoveFails(r)
  PROVE  IInv'
<1>1. tmp \in File \cup {NoFile} /\ EmptyFile \in File
  BY SaveType, EmptySeq DEF IInv, TypeOK
<1>2. tmp' \in File \cup {NoFile} /\ UNCHANGED <<env, sidecar, user, child>>
  BY <1>1 DEF LoadFails, WriteFails, RenameFails, RemoveFails, files, user
<1>3. FileError(r) /\ pc[r] \in {"load", "write", "rename", "remove"}
  BY DEF LoadFails, WriteFails, RenameFails, RemoveFails
<1> QED
  BY <1>2, <1>3, FileErrorInv

\* No sidecar is there while a run starts up, so APP_URL in .env is the user's.
LEMMA DetectInv ==
  ASSUME ~ Overlap, IInv, NEW r \in Runs, Detect(r)
  PROVE  IInv'
<1> USE DEF Detect, Goto
<1>1. Seen(Load(env)) = Seen(intent.lines) /\ sidecar = NoFile
  BY DEF IInv, LocalInv, StartupInv, Mends, Seen, Load
<1>3. Load(env) \in Seq(Line) /\ intent.lines \in Seq(Line)
  BY LoadType DEF IInv, TypeOK, File
<1>2. Get(Load(env), AppUrl) \in UserUrls \cup {Absent}
  <2>1. GetRaw(Load(env), AppUrl) = GetRaw(intent.lines, AppUrl)
    BY <1>1, <1>3, SeenAlike
  <2>2. Get(intent.lines, AppUrl) \in UserUrls \cup {Absent}
    BY GetType DEF IInv, UserFile
  <2> QED
    BY <2>1, <2>2 DEF Get
<1>4. TypeOK'
  BY <1>2, <1>3, UrlsAssumption DEF IInv, TypeOK, files, user, PCs
<1>5. Live(r) /\ \A q \in Runs \ {r} : SameRun(q)
  BY DEF SameRun, IInv, TypeOK, Live
<1>6. LocalInv(r)' /\ Serves(r)'
  BY <1>1, <1>2 DEF IInv, TypeOK, LocalInv, StartupInv, PatchInv, ServeInv, Live,
                    Serves, files, user
<1> QED
  BY <1>4, <1>5, <1>6, FilesSame, Assemble

\* The steps that touch no file, from the launch of the tunnel to Notify.
LEMMA StartupInvariance ==
  ASSUME ~ Overlap, IInv, NEW r \in Runs,
         StartupFails(r) \/ TunnelSpawn(r) \/ TunnelUp(r) \/ TunnelFails(r) \/ Notify(r)
  PROVE  IInv'
<1>1. CASE StartupFails(r)
  BY <1>1, ExitInv DEF StartupFails, Outcomes, files, user, IInv, TypeOK, Live
<1>2. CASE TunnelFails(r)
  BY <1>2, ExitInv DEF TunnelFails, Outcomes, files, user, IInv, TypeOK, Live
<1>3. CASE TunnelSpawn(r) \/ TunnelUp(r) \/ Notify(r)
  <2> USE <1>3 DEF TunnelSpawn, TunnelUp, Notify, Goto
  <2>1. TypeOK'
    BY DEF IInv, TypeOK, files, user, memory, PCs, Contexts
  <2>2. Live(r) /\ \A q \in Runs \ {r} : SameRun(q)
    BY DEF SameRun, memory, IInv, TypeOK, Live
  <2>3. LocalInv(r)' /\ Serves(r)'
    BY DEF IInv, TypeOK, LocalInv, StartupInv, PatchInv, ServeInv, Live, Serves,
           files, user, memory
  <2>4. UNCHANGED <<files, user>>
    OBVIOUS
  <2> QED
    BY <2>1, <2>2, <2>3, <2>4, FilesSame, Assemble
<1> QED
  BY <1>1, <1>2, <1>3

\* Snapshot first ...
LEMMA SnapshotInv ==
  ASSUME ~ Overlap, IInv, NEW r \in Runs, SnapshotOpen(r) \/ SnapshotRecord(r)
  PROVE  IInv'
<1>1. CASE SnapshotOpen(r)
  <2> USE <1>1 DEF SnapshotOpen, Goto
  <2>1. sidecar = NoFile
    BY DEF IInv, LocalInv, StartupInv
  <2>2. TypeOK'
    BY DEF IInv, TypeOK, user, memory, PCs, Sidecar
  <2>3. Live(r) /\ \A q \in Runs \ {r} : SameRun(q)
    BY DEF SameRun, memory, IInv, TypeOK, Live
  <2>4. UserFile' /\ Mends(Stale)' /\ NoLitter'
    BY <2>1 DEF IInv, UserFile, Mends, NoLitter, user
  <2>5. LocalInv(r)' /\ Serves(r)'
    BY DEF IInv, TypeOK, LocalInv, StartupInv, PatchInv, ServeInv, Live, Serves,
           user, memory
  <2> QED
    BY <2>2, <2>3, <2>4, <2>5, Assemble
<1>2. CASE SnapshotRecord(r)
  <2> DEFINE o == GetRaw(intent.lines, AppUrl)
  <2>1. /\ Seen(buf[r]) = Seen(intent.lines) /\ patchEnv[r] /\ ctx[r] = "serve"
        /\ sidecar = Truncated /\ Seen(env.lines) = Seen(intent.lines)
    BY <1>2 DEF SnapshotRecord, Goto, IInv, LocalInv, StartupInv, PatchInv, Mends, Seen
  <2>2. intent.lines \in Seq(Line) /\ env.lines \in Seq(Line) /\ buf[r] \in Seq(Line)
    BY DEF IInv, TypeOK, File
  <2>3. o \in Original /\ [original |-> o] \in [original : Original]
    BY <2>2, GetRawType
  <2>4. Seen(Reinstate(env.lines, AppUrl, o)) = Seen(intent.lines)
    <3>1. Reinstate(intent.lines, AppUrl, o) = intent.lines
      BY <2>2, ReinstateSame
    <3>2. Seen(Reinstate(env.lines, AppUrl, o)) = Seen(Reinstate(intent.lines, AppUrl, o))
      BY <2>1, <2>2, <2>3, SeenAlike
    <3> QED
      BY <3>1, <3>2
  <2>5. sidecar' = [original |-> o] /\ snap' = [snap EXCEPT ![r] = o]
    <3>1. GetRaw(buf[r], AppUrl) = o
      BY <2>1, <2>2, SeenAlike
    <3> QED
      BY <1>2, <3>1 DEF SnapshotRecord
  <2> HIDE DEF o
  <2>6. Recorded' /\ sidecar'.original = o
    BY <2>3, <2>5, SentinelsAssumption DEF Recorded
  <2> USE <1>2, <2>1 DEF SnapshotRecord, Goto
  <2>7. TypeOK'
    BY <2>3, <2>5 DEF IInv, TypeOK, user, PCs, Sidecar
  <2>8. Live(r) /\ \A q \in Runs \ {r} : SameRun(q)
    BY DEF SameRun, IInv, TypeOK, Live
  <2>9. tmp = NoFile
    BY DEF IInv, NoLitter
  <2>10. UserFile' /\ Mends(Stale)' /\ NoLitter'
    BY <2>4, <2>6, <2>9 DEF IInv, UserFile, Mends, Seen, NoLitter, Recorded, user
  <2>11. snap'[r] = o /\ pc'[r] = "patch"
    BY <2>5 DEF IInv, TypeOK
  <2>12. LocalInv(r)' /\ Serves(r)'
    BY <2>6, <2>11 DEF IInv, TypeOK, LocalInv, StartupInv, PatchInv, ServeInv,
                       Live, Serves, user, o
  <2> QED
    BY <2>7, <2>8, <2>10, <2>12, Assemble
<1> QED
  BY <1>1, <1>2

\* ... then patch, from the same lines.
LEMMA PatchInvariance ==
  ASSUME ~ Overlap, IInv, NEW r \in Runs, Patch(r)
  PROVE  IInv'
<1> USE DEF Patch, Goto
<1> DEFINE raw == Plain(TunnelURL[r])
<1>1. raw \in Raw /\ [key |-> AppUrl, raw |-> raw] \in Line
  BY PlainType, KeysAssumption, LineType
<1>2. /\ Seen(buf[r]) = Seen(intent.lines) /\ Seen(env.lines) = Seen(intent.lines)
      /\ Recorded /\ snap[r] = sidecar.original /\ patchEnv[r] /\ ctx[r] = "serve"
      /\ snap[r] = GetRaw(intent.lines, AppUrl)
  BY DEF IInv, LocalInv, StartupInv, PatchInv
<1>3. buf' = [buf EXCEPT ![r] = Set(buf[r], AppUrl, raw)]
  OBVIOUS
<1>4. Set(buf[r], AppUrl, raw) \in Seq(Line)
  BY <1>1, SetType DEF IInv, TypeOK
<1>8. Seen(Set(buf[r], AppUrl, raw)) = Seen(Set(intent.lines, AppUrl, raw))
  BY <1>1, <1>2, KeysAssumption, SeenAlike DEF IInv, TypeOK, File
<1>5. TypeOK'
  BY <1>3, <1>4 DEF IInv, TypeOK, files, user, PCs
<1>6. Live(r) /\ \A q \in Runs \ {r} : SameRun(q)
  BY DEF SameRun, IInv, TypeOK, Live
<1>9. /\ pc'[r] \in {"write", "banner"} /\ ctx'[r] = "serve" /\ patchEnv'[r]
      /\ buf'[r] = Set(buf[r], AppUrl, raw)
      /\ pc'[r] = "banner" => ~ HasKey(buf[r], AppUrl)
      /\ UNCHANGED <<files, user, ctx, snap, upstream, patchEnv>>
  BY <1>2, <1>3 DEF IInv, TypeOK
<1> HIDE DEF raw
<1>10. Serves(r)'
  <2>1. HasKey(buf[r], AppUrl) <=> HasKey(env.lines, AppUrl)
    BY <1>2, SeenAlike DEF IInv, TypeOK, File
  <2> QED
    BY <1>9, <2>1 DEF Serves, files
<1>11. StartupInv(r)'
  BY <1>9 DEF IInv, LocalInv, StartupInv, Live
<1>12. PatchInv(r)'
  BY <1>2, <1>8, <1>9 DEF PatchInv, Recorded, files, user, raw
<1>13. ServeInv(r)'
  BY <1>2, <1>9 DEF ServeInv, Recorded, files
<1>7. LocalInv(r)' /\ Serves(r)'
  BY <1>10, <1>11, <1>12, <1>13 DEF LocalInv
<1> QED
  BY <1>5, <1>6, <1>7, FilesSame, Assemble

\* From the banner to the end, the steps that touch no file.
LEMMA ServingInvariance ==
  ASSUME ~ Overlap, IInv, NEW r \in Runs,
         \/ SnapshotFails(r) \/ Banner(r) \/ Answer(r) \/ AnswerPanics(r)
         \/ TakeSignal(r) \/ TunnelLost(r) \/ Stop(r)
  PROVE  IInv'
<1>1. CASE Stop(r)
  BY <1>1, ExitInv DEF Stop, files, user, IInv, TypeOK, Live
<1>2. CASE Banner(r) \/ Answer(r)
  <2> USE <1>2 DEF Banner, Answer, Goto
  <2>1. TypeOK'
    BY DEF IInv, TypeOK, files, user, memory, PCs
  <2>2. Live(r) /\ \A q \in Runs \ {r} : SameRun(q)
    BY DEF SameRun, memory, IInv, TypeOK, Live
  <2>3. LocalInv(r)' /\ Serves(r)'
    BY DEF IInv, TypeOK, LocalInv, StartupInv, PatchInv, ServeInv, ServesItsURL, Live, Serves,
           files, user, memory, Recorded
  <2>4. UNCHANGED <<files, user>>
    OBVIOUS
  <2> QED
    BY <2>1, <2>2, <2>3, <2>4, FilesSame, Assemble
<1>3. CASE SnapshotFails(r) \/ AnswerPanics(r) \/ TakeSignal(r) \/ TunnelLost(r)
  <2>1. PICK how \in {"error", "clean", "lost"} :
          /\ Cleanup(r, how) /\ UNCHANGED <<files, user, memory, child>>
          /\ how \in {"clean", "lost"} => pc[r] \in {"prompt", "wait"}
    BY <1>3 DEF SnapshotFails, AnswerPanics, TakeSignal, TunnelLost
  <2>2. pc[r] \in {"snapshot", "record", "prompt", "wait"} /\ sig' \in [Runs -> BOOLEAN]
    BY <1>3 DEF SnapshotFails, AnswerPanics, TakeSignal, TunnelLost, IInv, TypeOK
  <2>3. IF snap[r] = NoState
        THEN how \in {"clean", "lost"} => sidecar = NoFile
        ELSE Recorded /\ snap[r] = sidecar.original
    BY <2>1, <2>2, SentinelsAssumption
    DEF IInv, LocalInv, PatchInv, ServeInv, TypeOK, Sidecar, Recorded
  <2> USE <2>1, <2>2 DEF Cleanup
  <2>4. TypeOK'
    BY DEF IInv, TypeOK, files, user, memory, PCs, Contexts, Outcomes
  <2>5. Live(r) /\ \A q \in Runs \ {r} : SameRun(q)
    BY DEF SameRun, memory, IInv, TypeOK, Live
  <2>6. LocalInv(r)' /\ Serves(r)'
    BY <2>3 DEF IInv, TypeOK, LocalInv, StartupInv, PatchInv, ServeInv, Live, Serves,
                files, user, memory, Recorded
  <2>7. UNCHANGED <<files, user>>
    OBVIOUS
  <2> QED
    BY <2>4, <2>5, <2>6, <2>7, FilesSame, Assemble
<1> QED
  BY <1>1, <1>2, <1>3

\* Signals, kills and the end of the tunnel process.
LEMMA OutsideInv ==
  ASSUME ~ Overlap, IInv, NEW r \in Runs, Outside(r)
  PROVE  IInv'
<1>1. CASE InterruptEarly(r)
  BY <1>1, ExitInv DEF InterruptEarly, Outcomes, files, user, IInv, TypeOK
<1>2. CASE Kill(r)
  BY <1>2, ExitInv DEF Kill, Outcomes, files, user, IInv, TypeOK
<1>3. CASE Interrupt(r) \/ ChildExits(r)
  <2> USE <1>3 DEF Interrupt, ChildExits
  <2>1. UNCHANGED <<files, user, pc, ctx, memory, outcome>>
    OBVIOUS
  <2>2. TypeOK'
    BY DEF IInv, TypeOK, files, user, memory
  <2>3. OneLive' /\ ServesItsURL' /\ UserFile' /\ Mends(Stale)' /\ NoLitter'
    BY <2>1 DEF IInv, OneLive, Live, ServesItsURL, UserFile, Mends, NoLitter,
                files, user, memory
  <2>4. \A q \in Runs : LocalInv(q)'
    BY <2>1 DEF IInv, LocalInv, StartupInv, PatchInv, ServeInv, Live, Recorded,
                files, user, memory
  <2> QED
    BY <2>2, <2>3, <2>4 DEF IInv
<1> QED
  BY <1>1, <1>2, <1>3 DEF Outside

\* An edit of another key, or of APP_URL at rest.  While a run holds a copy of
\* .env the edit is one that may be lost and does not show; otherwise the file and
\* the file the user wants change alike.
LEMMA EditInv ==
  ASSUME ~ Overlap, IInv, NEW key \in Keys,
         NEW raw \in [url : UserUrls, quoted : BOOLEAN], UserSets(key, raw),
         key \in Stale \/ \A r \in Runs : ~ Holding(r),
         key # AppUrl \/ (sidecar = NoFile /\ \A r \in Runs : ~ Live(r))
  PROVE  IInv'
<1>1. [key |-> key, raw |-> raw] \in UserLine /\ [key |-> key, raw |-> raw] \in Line
  BY UserLineType DEF UserLine
<1>2. /\ env \in File /\ intent \in File
      /\ env.lines \in Seq(Line) /\ intent.lines \in Seq(Line)
      /\ intent.lines \in Seq(UserLine)
  BY DEF IInv, TypeOK, File, UserFile
<1>3. /\ env' = [env EXCEPT !.lines = Set(env.lines, key, raw)]
      /\ intent' = [intent EXCEPT !.lines = Set(intent.lines, key, raw)]
      /\ edits' \in 0 .. MaxEdits
      /\ UNCHANGED <<sidecar, tmp, pc, ctx, memory, child, sig, outcome>>
  BY FlagsAssumption DEF UserSets, IInv, TypeOK
<1>4. /\ env'.lines = Set(env.lines, key, raw) /\ env'.newline = env.newline
      /\ intent'.lines = Set(intent.lines, key, raw) /\ intent'.newline = intent.newline
  BY <1>2, <1>3 DEF File
<1>5. /\ env'.lines \in Seq(Line) /\ intent'.lines \in Seq(Line)
      /\ intent'.lines \in Seq(UserLine)
  BY <1>1, <1>2, <1>4, SetType
<1>6. env' \in File /\ intent' \in File
  BY <1>2, <1>3, <1>4, <1>5 DEF File
<1>7. TypeOK'
  BY <1>3, <1>6 DEF IInv, TypeOK, memory
<1>8. OneLive' /\ UserFile' /\ NoLitter'
  BY <1>3, <1>4, <1>5 DEF IInv, OneLive, Live, UserFile, NoLitter
<1>0. raw \in Raw
  BY UrlsAssumption DEF Raw
<1>9. Mends(Stale)'
  <2>1. CASE ~ Recorded
    <3>1. Seen(env.lines) = Seen(intent.lines)
      BY <2>1 DEF IInv, Mends, Seen, Recorded
    <3>2. Seen(env'.lines) = Seen(intent'.lines)
      BY <3>1, <1>0, <1>2, <1>4, SeenAlike
    <3> QED
      BY <2>1, <3>2, <1>3 DEF Mends, Seen, Recorded
  <2>2. CASE Recorded
    <3> DEFINE mended == Reinstate(env.lines, AppUrl, sidecar.original)
    <3>1. sidecar.original \in Original /\ key # AppUrl
      BY <2>2 DEF IInv, TypeOK, Sidecar, Recorded
    <3>2. sidecar.original # Absent => [key |-> AppUrl, raw |-> sidecar.original] \in Line
      BY <3>1, KeysAssumption, LineType DEF Original
    <3>3. Reinstate(Set(env.lines, key, raw), AppUrl, sidecar.original)
            = Set(mended, key, raw)
      BY <1>1, <1>2, <3>1, <3>2, ReinstateCommutes
    <3>4. mended \in Seq(Line) /\ Seen(mended) = Seen(intent.lines)
      BY <2>2, <1>2, <3>2, ReinstateType DEF IInv, Mends, Seen, Recorded
    <3> HIDE DEF mended
    <3>5. Seen(Set(mended, key, raw)) = Seen(intent'.lines)
      BY <1>0, <1>2, <1>4, <3>4, SeenAlike
    <3> QED
      BY <2>2, <3>3, <3>5, <1>3, <1>4 DEF Mends, Seen, Recorded
  <2> QED
    BY <2>1, <2>2
<1>10. ServesItsURL'
  <2> SUFFICES ASSUME NEW r \in Runs, pc[r] \in {"banner", "prompt", "wait"}, patchEnv[r],
                      HasKey(env'.lines, AppUrl)
               PROVE  Get(env'.lines, AppUrl) = TunnelURL[r]
    BY <1>3 DEF ServesItsURL, memory
  <2>1. key # AppUrl
    BY DEF Live
  <2>2. HasKey(env.lines, AppUrl)
    <3>1. HasKey(Set(env.lines, key, raw), AppUrl)
      BY <1>4
    <3> QED
      BY <3>1, <1>2, SetFirst
  <2>3. GetRaw(env'.lines, AppUrl) = GetRaw(env.lines, AppUrl)
    BY <1>1, <1>2, <1>4, <2>1, SetGet
  <2> QED
    BY <2>2, <2>3 DEF IInv, ServesItsURL, Get
<1>11. ASSUME NEW r \in Runs PROVE LocalInv(r)'
  <2>1. UNCHANGED <<sidecar, tmp, pc, ctx, snap, upstream, patchEnv, outcome>>
    BY <1>3 DEF memory
  <2>2. CASE \A q \in Runs : ~ Holding(q)
    <3>1. /\ pc[r] \notin {"write", "rename"}
          /\ pc[r] \in {"open", "await", "notify", "snapshot", "record", "patch"} => ~ patchEnv[r]
          /\ pc[r] \notin {"snapshot", "record", "patch"}
      BY <2>2 DEF Holding, IInv, LocalInv, PatchInv
    <3>2. StartupInv(r)' /\ PatchInv(r)'
      BY <2>1, <3>1 DEF IInv, LocalInv, StartupInv, PatchInv, Live, Recorded
    <3>3. Seen(env.lines) = Seen(intent.lines) => Seen(env'.lines) = Seen(intent'.lines)
      BY <1>0, <1>2, <1>4, SeenAlike
    <3>4. ServeInv(r)'
      BY <2>1, <3>3 DEF IInv, LocalInv, ServeInv, Recorded
    <3> QED
      BY <3>2, <3>4 DEF LocalInv
  <2>3. CASE key \in Stale
    <3>1. Seen(env'.lines) = Seen(env.lines) /\ Seen(intent'.lines) = Seen(intent.lines)
      BY <2>3, <1>0, <1>2, <1>4, SeenSet
    <3>2. GetRaw(intent'.lines, AppUrl) = GetRaw(intent.lines, AppUrl)
      BY <3>1, <1>2, <1>5, SeenAlike
    <3>3. Seen(Set(intent'.lines, AppUrl, Plain(TunnelURL[r])))
            = Seen(Set(intent.lines, AppUrl, Plain(TunnelURL[r])))
      BY <3>1, <1>2, <1>5, KeysAssumption, PlainType, SeenAlike
    <3>4. buf' = buf
      BY <1>3 DEF memory
    <3>5. StartupInv(r)'
      BY <2>1, <3>1, <3>4 DEF IInv, LocalInv, StartupInv, Live
    <3>6. PatchInv(r)'
      BY <2>1, <3>1, <3>2, <3>3, <3>4 DEF IInv, LocalInv, PatchInv, Recorded
    <3>7. ServeInv(r)'
      BY <2>1, <3>1 DEF IInv, LocalInv, ServeInv, Recorded
    <3> QED
      BY <3>5, <3>6, <3>7 DEF LocalInv
  <2> QED
    BY <2>2, <2>3
<1> QED
  BY <1>7, <1>8, <1>9, <1>10, <1>11 DEF IInv

LEMMA NextInv ==
  ASSUME ~ Overlap, IInv, [Next]_vars
  PROVE  IInv'
<1>1. ASSUME NEW r \in Runs,
             Start(r) \/ Proceed(r) \/ Answer(r) \/ AnswerPanics(r) \/ Outside(r)
      PROVE  IInv'
  BY <1>1, StartInv, RestoreLoadInv, SaveWriteInv, SaveRenameInv, RestoreRemoveInv,
     FaultsInv, DetectInv, StartupInvariance, SnapshotInv, PatchInvariance,
     ServingInvariance, OutsideInv
  DEF Proceed
<1>2. CASE EditOther
  <2>1. PICK key \in OtherKeys, u \in UserUrls : UserSets(key, Plain(u))
    BY <1>2 DEF EditOther
  <2>2. key \in Stale \/ \A r \in Runs : ~ Holding(r)
    BY <1>2 DEF EditOther, Stale
  <2>3. key \in Keys /\ key # AppUrl /\ Plain(u) \in [url : UserUrls, quoted : BOOLEAN]
    BY KeysAssumption DEF Plain
  <2> QED
    BY <2>1, <2>2, <2>3, EditInv
<1>3. CASE EditAppUrl
  <2>1. PICK u \in UserUrls, q \in BOOLEAN : UserSets(AppUrl, [url |-> u, quoted |-> q])
    BY <1>3 DEF EditAppUrl
  <2>2. sidecar = NoFile /\ \A r \in Runs : ~ Live(r) /\ ~ Holding(r)
    BY <1>3 DEF EditAppUrl, Live, Holding
  <2> QED
    BY <2>1, <2>2, KeysAssumption, EditInv
<1>4. CASE UNCHANGED vars
  <2> USE <1>4 DEF vars, files, user, memory
  <2>1. TypeOK'
    BY DEF IInv, TypeOK
  <2>2. OneLive' /\ UserFile' /\ Mends(Stale)' /\ NoLitter' /\ ServesItsURL'
    BY DEF IInv, OneLive, Live, UserFile, Mends, NoLitter, ServesItsURL
  <2>3. \A r \in Runs : LocalInv(r)'
    BY DEF IInv, LocalInv, StartupInv, PatchInv, ServeInv, Live, Recorded
  <2> QED
    BY <2>1, <2>2, <2>3 DEF IInv
<1> QED
  BY <1>1, <1>2, <1>3, <1>4 DEF Next

----------------------------------------------------------------------------
(* With no edits at the wrong moment, nothing is masked.                   *)

LEMMA SeenNone ==
  ASSUME EditWindow = {}
  PROVE  \A l \in Seq(Line) : Seen(l) = l
  BY MaskedNone DEF Seen, Stale

LEMMA MendsNone ==
  ASSUME EditWindow = {}, IInv
  PROVE  Repairable
<1>1. /\ Stale = {} /\ \A l \in Seq(Line) : Masked(l, {}) = l
  BY MaskedNone DEF Stale
<1>2. env.lines \in Seq(Line) /\ intent.lines \in Seq(Line)
  BY DEF IInv, TypeOK, File
<1>3. CASE ~ Recorded
  BY <1>1, <1>2, <1>3 DEF IInv, Mends, Repairable, Recorded
<1>4. CASE Recorded
  <2>1. sidecar.original \in Original
    BY <1>4 DEF IInv, TypeOK, Sidecar, Recorded
  <2>2. Reinstate(env.lines, AppUrl, sidecar.original) \in Seq(Line)
    BY <1>2, <2>1, KeysAssumption, LineType, ReinstateType DEF Original
  <2> QED
    BY <1>1, <1>2, <1>4, <2>2 DEF IInv, Mends, Repairable, Recorded
<1> QED
  BY <1>3, <1>4

----------------------------------------------------------------------------
(* The theorems.  Each assumes that runs follow one another, which is      *)
(* needed (run session_overlap); those that say every edit survives assume *)
(* with Careful that the user does not edit .env while a run holds a copy  *)
(* it will write back, which is needed too (run session_stale_copy).       *)

\* The inductive invariant holds at every step of every behaviour.
THEOREM SessionInvariant ==
  ASSUME ~ Overlap
  PROVE  Spec => []IInv
<1>1. Init => IInv
  BY InitInv
<1>2. IInv /\ [Next]_vars => IInv'
  BY NextInv
<1> QED
  BY <1>1, <1>2, PTL DEF Spec

\* The state keeps its types: no step of main.go or envfile.go leaves a file or
\* a run in a state the code does not know.
THEOREM SessionTypes ==
  ASSUME ~ Overlap
  PROVE  Spec => []TypeOK
<1>1. IInv => TypeOK
  BY DEF IInv
<1> QED
  BY <1>1, SessionInvariant, PTL

\* Whenever the user edits, and wherever SaveState, Save, Restore or the whole run is
\* cut off, the file can be recovered from the disk but for the values of the keys
\* the user edits: APP_URL as the user wrote it, and every line that is not the first
\* of such a key.
THEOREM LosesOnlyEdits ==
  ASSUME ~ Overlap
  PROVE  Spec => []OnlyEditsLost
<1>1. IInv => OnlyEditsLost
  <2> SUFFICES ASSUME IInv PROVE OnlyEditsLost
    OBVIOUS
  <2>1. CASE EditWindow = {}
    <3>1. Repairable
      BY <2>1, MendsNone
    <3> QED
      BY <3>1 DEF Repairable, OnlyEditsLost, Mends
  <2>2. CASE EditWindow # {}
    BY <2>2 DEF IInv, OnlyEditsLost, Stale
  <2> QED
    BY <2>1, <2>2
<1> QED
  BY <1>1, SessionInvariant, PTL

\* The user's .env can be recovered from the disk at every moment, wherever
\* SaveState, Save, Restore or the whole run is cut off.
THEOREM AlwaysRepairable ==
  ASSUME Careful
  PROVE  Spec => []Repairable
<1>1. IInv => Repairable
  BY MendsNone DEF Careful
<1> QED
  BY <1>1, SessionInvariant, PTL DEF Careful

\* run() restores a crashed run's .env before Detect reads it, so that no app
\* upstream is ever derived from a tunnel's URL.
THEOREM NeverProxiesATunnel ==
  ASSUME ~ Overlap
  PROVE  Spec => []UpstreamNeverTunnel
<1>1. IInv => UpstreamNeverTunnel
  BY UrlsAssumption, SentinelsAssumption
  DEF IInv, LocalInv, StartupInv, UpstreamNeverTunnel
<1> QED
  BY <1>1, SessionInvariant, PTL

\* A temporary file of Save is never left without the sidecar whose recovery
\* renames it away.
THEOREM NoTemporaryLeft ==
  ASSUME ~ Overlap
  PROVE  Spec => []NoLitter
<1>1. IInv => NoLitter
  BY DEF IInv
<1> QED
  BY <1>1, SessionInvariant, PTL

\* A patched run that serves has its own tunnel's URL in .env throughout.
THEOREM AlwaysServesItsURL ==
  ASSUME ~ Overlap
  PROVE  Spec => []ServesItsURL
<1>1. IInv => ServesItsURL
  BY DEF IInv
<1> QED
  BY <1>1, SessionInvariant, PTL

\* A run that ends on Ctrl+C or with its tunnel leaves the user's lines and
\* nothing of its own behind: only the last step of cleanup() ends a run so.
THEOREM ExitsClean ==
  ASSUME Careful
  PROVE  Spec => CleanExit
<1> DEFINE A == \A r \in Runs :
                  /\ pc[r] # "over" /\ pc'[r] = "over"
                  /\ outcome'[r] \in {"clean", "lost"}
                  => /\ env.lines = intent.lines
                     /\ intent.newline => env.newline
                     /\ sidecar = NoFile
                     /\ tmp = NoFile
<1>0. ~ Overlap
  BY DEF Careful
<1>1. ASSUME IInv, Next PROVE A
  <2> SUFFICES ASSUME NEW r \in Runs, pc[r] # "over", pc'[r] = "over",
                      outcome'[r] \in {"clean", "lost"}
               PROVE  /\ env.lines = intent.lines
                      /\ intent.newline => env.newline
                      /\ sidecar = NoFile
                      /\ tmp = NoFile
    OBVIOUS
  <2>1. pc[r] = "stop" /\ outcome[r] \in {"clean", "lost"}
    <3> USE DEF Goto, Exit, Cleanup
    <3>0. pc \in [Runs -> PCs] /\ outcome \in [Runs -> Outcomes]
      BY <1>1 DEF IInv, TypeOK
    <3>1. ASSUME NEW q \in Runs, Start(q) \/ Answer(q) \/ AnswerPanics(q) \/ Outside(q)
          PROVE  FALSE
      BY <3>0, <3>1 DEF Start, LoadStateNone, LoadStateCorrupt, LoadStateFails, LoadStateFound, Answer,
                  AnswerPanics, Outside, InterruptEarly, Interrupt, Kill, ChildExits
    <3>2. ASSUME NEW q \in Runs, Proceed(q)
          PROVE  pc[r] = "stop" /\ outcome[r] \in {"clean", "lost"}
      <4>1. CASE \/ RestoreLoad(q) \/ SaveWrite(q) \/ SaveRename(q) \/ RestoreRemove(q)
                 \/ Detect(q) \/ TunnelSpawn(q) \/ TunnelUp(q) \/ Notify(q)
                 \/ SnapshotOpen(q) \/ SnapshotRecord(q) \/ Patch(q) \/ Banner(q)
        BY <3>0, <4>1
        DEF RestoreLoad, SaveWrite, SaveRename, RestoreRemove, Detect, TunnelSpawn,
            TunnelUp, Notify, SnapshotOpen, SnapshotRecord, Patch, Banner
      <4>2. CASE LoadFails(q) \/ WriteFails(q) \/ RenameFails(q) \/ RemoveFails(q)
        BY <3>0, <4>2 DEF LoadFails, WriteFails, RenameFails, RemoveFails, FileError
      <4>3. CASE StartupFails(q) \/ TunnelFails(q)
        BY <3>0, <4>3 DEF StartupFails, TunnelFails
      <4>4. CASE SnapshotFails(q) \/ TakeSignal(q) \/ TunnelLost(q)
        BY <3>0, <4>4 DEF SnapshotFails, TakeSignal, TunnelLost
      <4>5. CASE Stop(q)
        BY <3>0, <4>5 DEF Stop
      <4> QED
        BY <3>2, <4>1, <4>2, <4>3, <4>4, <4>5 DEF Proceed
    <3>3. ~ EditOther /\ ~ EditAppUrl
      BY DEF EditOther, EditAppUrl, UserSets
    <3> QED
      BY <1>1, <3>1, <3>2, <3>3 DEF Next
  <2>2. sidecar = NoFile
    BY <1>1, <2>1 DEF IInv, LocalInv, ServeInv
  <2>3. Repairable
    BY <1>1, MendsNone DEF Careful
  <2> QED
    BY <1>1, <2>2, <2>3 DEF IInv, Repairable, NoLitter, UserFile
<1>2. IInv /\ [Next]_vars => [A]_vars
  BY <1>1
<1>3. Spec => [][A]_vars
  BY <1>2, <1>0, SessionInvariant, PTL DEF Spec
<1> QED
  BY <1>3 DEF CleanExit

----------------------------------------------------------------------------
(* Refinement of the loan.                                                 *)

\* A step that leaves .env and the record alone is no step of the loan.
LEMMA LoanStutter ==
  ASSUME UNCHANGED <<env, sidecar>>
  PROVE  UNCHANGED LoanOf!lvars
  BY DEF LoanOf!lvars, Held

LEMMA LoanStep ==
  ASSUME Careful, IInv, IInv', [Next]_vars
  PROVE  [LoanOf!LoanNext]_(LoanOf!lvars)
<1>a. Repairable
  BY MendsNone DEF Careful
<1>b. \A l \in Seq(Line) : Seen(l) = l
  BY SeenNone DEF Careful
<1>c. /\ env.lines \in Seq(Line) /\ intent.lines \in Seq(Line)
      /\ \A r \in Runs : buf[r] \in Seq(Line)
  BY DEF IInv, TypeOK, File
<1>1. ASSUME NEW r \in Runs, SaveRename(r)
      PROVE  LoanOf!LoanNext
  <2>1. /\ Recorded /\ tmp = Save(buf[r]) /\ env'.lines = buf[r]
        /\ sidecar' = sidecar
        /\ IF ctx[r] = "serve"
           THEN /\ buf[r] = Set(intent.lines, AppUrl, Plain(TunnelURL[r]))
                /\ env.lines = intent.lines
           ELSE buf[r] = intent.lines
    <3>1. Set(intent.lines, AppUrl, Plain(TunnelURL[r])) \in Seq(Line)
      BY <1>c, PlainType, KeysAssumption, LineType, SetType
    <3> QED
      BY <1>1, <1>b, <1>c, <3>1 DEF SaveRename, Goto, IInv, LocalInv, PatchInv, Save
  <2>2. Held # NoState /\ Held' = Held /\ Held = sidecar.original
    BY <2>1, SentinelsAssumption DEF Held, Recorded, IInv, TypeOK, Sidecar
  <2>3. CASE ctx[r] = "serve"
    <3>1. env'.lines = Set(env.lines, AppUrl, Plain(TunnelURL[r]))
      BY <2>1, <2>3
    <3>2. LoanOf!Show
      BY <2>2, <3>1 DEF LoanOf!Show, LoanOf!Set, LoanOf!IsFirst, LoanOf!Plain,
                        Set, IsFirst, Plain
    <3> QED
      BY <3>2 DEF LoanOf!LoanNext
  <2>4. CASE ctx[r] # "serve"
    <3>1. env'.lines = Reinstate(env.lines, AppUrl, Held)
      BY <1>a, <2>1, <2>2, <2>4 DEF Repairable, Recorded
    <3>2. LoanOf!GiveBack
      BY <2>2, <3>1 DEF LoanOf!GiveBack, LoanOf!Reinstate, LoanOf!Set, LoanOf!IsFirst,
                        Reinstate, Set, IsFirst
    <3> QED
      BY <3>2 DEF LoanOf!LoanNext
  <2> QED
    BY <2>3, <2>4
<1>2. ASSUME NEW r \in Runs, RestoreRemove(r)
      PROVE  LoanOf!LoanNext
  <2>1. /\ Recorded /\ env.lines = intent.lines /\ env' = env /\ sidecar' = NoFile
    BY <1>2, <1>b, <1>c DEF RestoreRemove, Goto, IInv, LocalInv, PatchInv, ServeInv
  <2>2. Held # NoState /\ Held' = NoState /\ Held = sidecar.original
    BY <2>1, SentinelsAssumption DEF Held, Recorded, IInv, TypeOK, Sidecar
  <2>3. Reinstate(env.lines, AppUrl, Held) = env.lines
    BY <1>a, <2>1, <2>2 DEF Repairable, Recorded
  <2>4. LoanOf!Forget
    BY <2>1, <2>2, <2>3 DEF LoanOf!Forget, LoanOf!Reinstate, LoanOf!Set, LoanOf!IsFirst,
                            Reinstate, Set, IsFirst
  <2> QED
    BY <2>4 DEF LoanOf!LoanNext
<1>3. ASSUME NEW r \in Runs, SnapshotRecord(r)
      PROVE  LoanOf!LoanNext
  <2>1. /\ sidecar = Truncated /\ env' = env
        /\ sidecar' = [original |-> GetRaw(env.lines, AppUrl)]
    BY <1>3, <1>a, <1>b, <1>c
    DEF SnapshotRecord, Goto, IInv, LocalInv, StartupInv, PatchInv, Repairable
  <2>2. GetRaw(env.lines, AppUrl) \in Original
    BY GetRawType DEF IInv, TypeOK, File
  <2>3. Held = NoState /\ Held' = GetRaw(env.lines, AppUrl)
    BY <2>1, <2>2, SentinelsAssumption DEF Held
  <2>4. LoanOf!Borrow
    BY <2>1, <2>3 DEF LoanOf!Borrow, LoanOf!GetRaw, LoanOf!HasKey, LoanOf!IsFirst,
                      GetRaw, HasKey, IsFirst
  <2> QED
    BY <2>4 DEF LoanOf!LoanNext
<1>4. ASSUME NEW r \in Runs, SnapshotOpen(r)
      PROVE  UNCHANGED LoanOf!lvars
  BY <1>4 DEF SnapshotOpen, Goto, IInv, LocalInv, StartupInv, Held, LoanOf!lvars
<1>5. ASSUME NEW r \in Runs,
             \/ Start(r) \/ RestoreLoad(r) \/ SaveWrite(r)
             \/ LoadFails(r) \/ WriteFails(r) \/ RenameFails(r) \/ RemoveFails(r)
             \/ Detect(r) \/ StartupFails(r) \/ TunnelSpawn(r) \/ TunnelUp(r)
             \/ TunnelFails(r) \/ Notify(r) \/ SnapshotFails(r) \/ Patch(r)
             \/ Banner(r) \/ Answer(r) \/ AnswerPanics(r) \/ TakeSignal(r)
             \/ TunnelLost(r) \/ Stop(r) \/ Outside(r)
      PROVE  UNCHANGED LoanOf!lvars
  <2>1. UNCHANGED <<env, sidecar>>
    BY <1>5 DEF files, Start, LoadStateNone, LoadStateCorrupt, LoadStateFails, LoadStateFound,
                RestoreLoad, SaveWrite, LoadFails, WriteFails, RenameFails, RemoveFails,
                Detect, StartupFails, TunnelSpawn, TunnelUp, TunnelFails, Notify,
                SnapshotFails, Patch, Banner, Answer, AnswerPanics, TakeSignal, TunnelLost, Stop,
                Outside, InterruptEarly, Interrupt, Kill, ChildExits
  <2> QED
    BY <2>1, LoanStutter
<1>6. ASSUME NEW key \in OtherKeys \cup {AppUrl}, NEW raw \in Raw, UserSets(key, raw),
             key = AppUrl => sidecar = NoFile, raw.url \in UserUrls
      PROVE  LoanOf!LoanNext
  <2>1. env'.lines = Set(env.lines, key, raw) /\ Held' = Held
    BY <1>6 DEF UserSets, Held, IInv, TypeOK, File
  <2>2. key = AppUrl => Held = NoState
    BY <1>6 DEF Held
  <2>3. raw \in LoanOf!Raw
    BY DEF Raw, LoanOf!Raw
  <2>4. env'.lines = LoanOf!Set(env.lines, key, raw)
    BY <2>1 DEF Set, IsFirst, LoanOf!Set, LoanOf!IsFirst
  <2>5. raw.url \notin {TunnelURL[r] : r \in Runs}
    BY <1>6, UrlsAssumption
  <2>6. LoanOf!UserEdit
    BY <2>1, <2>2, <2>3, <2>4, <2>5 DEF LoanOf!UserEdit
  <2> QED
    BY <2>6 DEF LoanOf!LoanNext
<1>7. CASE EditOther
  <2>1. PICK key \in OtherKeys, u \in UserUrls : UserSets(key, Plain(u))
    BY <1>7 DEF EditOther
  <2>2. Plain(u) \in Raw /\ Plain(u).url \in UserUrls /\ key # AppUrl
    BY KeysAssumption, UrlsAssumption DEF Plain, Raw
  <2> QED
    BY <1>6, <2>1, <2>2
<1>8. CASE EditAppUrl
  <2>1. PICK u \in UserUrls, q \in BOOLEAN : UserSets(AppUrl, [url |-> u, quoted |-> q])
    BY <1>8 DEF EditAppUrl
  <2>2. /\ [url |-> u, quoted |-> q] \in Raw
        /\ [url |-> u, quoted |-> q].url \in UserUrls
        /\ sidecar = NoFile
    BY <1>8, UrlsAssumption DEF EditAppUrl, Raw
  <2> QED
    BY <1>6, <2>1, <2>2
<1>9. CASE UNCHANGED vars
  BY <1>9, LoanStutter DEF vars, files
<1> QED
  BY <1>1, <1>2, <1>3, <1>4, <1>5, <1>7, <1>8, <1>9 DEF Next, Proceed

\* Every behaviour of the runs is a behaviour of the loan: the refinement run
\* session_safety checks on three runs, for any number.
THEOREM SessionImplementsLoan ==
  ASSUME Careful
  PROVE  Spec => ImplementsLoan
<1>0. ~ Overlap
  BY DEF Careful
<1>1. Init => LoanOf!LoanInit
  <2> SUFFICES ASSUME Init PROVE LoanOf!LoanInit
    OBVIOUS
  <2>1. env.lines \in Seq(Line)
    BY FilesAssumption DEF Init, File
  <2>2. Held = NoState
    BY DEF Init, Held
  <2> QED
    BY <2>1, <2>2 DEF LoanOf!LoanInit, LoanOf!Line, LoanOf!Raw, Line, Raw
<1>2. IInv /\ IInv' /\ [Next]_vars => [LoanOf!LoanNext]_(LoanOf!lvars)
  BY LoanStep
<1>3. Spec => LoanOf!LoanSpec
  BY <1>0, <1>1, <1>2, SessionInvariant, PTL DEF Spec, LoanOf!LoanSpec
<1> QED
  BY <1>3 DEF ImplementsLoan

----------------------------------------------------------------------------
(* No tunnel process is orphaned by a run that returns.  This one needs    *)
(* neither assumption: runs may overlap and the user may edit at any time. *)

OrphanInv ==
  /\ pc \in [Runs -> PCs]
  /\ ctx \in [Runs -> Contexts]
  /\ child \in [Runs -> {"none", "running", "gone"}]
  /\ outcome \in [Runs -> Outcomes]
  /\ \A r \in Runs : pc[r] \in {"idle", "detect", "open"} => ctx[r] = "startup"
  /\ \A r \in Runs :
       pc[r] \in {"idle", "detect", "open"} \/ (Live(r) /\ ctx[r] = "recover")
         => child[r] = "none"
  /\ NoOrphan

LEMMA OrphanStep ==
  ASSUME OrphanInv, [Next]_vars
  PROVE  OrphanInv'
<1> USE DEF OrphanInv, NoOrphan, Live, PCs, Contexts, Outcomes
<1>1. ASSUME NEW r \in Runs,
             \/ Start(r) \/ RestoreLoad(r) \/ SaveWrite(r) \/ SaveRename(r)
             \/ RestoreRemove(r)
      PROVE  OrphanInv'
  BY <1>1 DEF Start, LoadStateNone, LoadStateCorrupt, LoadStateFails, LoadStateFound, MayStart, Exit,
              Goto, RestoreLoad, SaveWrite, SaveRename, RestoreRemove
<1>2. ASSUME NEW r \in Runs,
             \/ LoadFails(r) \/ WriteFails(r) \/ RenameFails(r) \/ RemoveFails(r)
      PROVE  OrphanInv'
  BY <1>2 DEF LoadFails, WriteFails, RenameFails, RemoveFails, FileError, Exit, Cleanup
<1>3. ASSUME NEW r \in Runs,
             \/ Detect(r) \/ StartupFails(r) \/ TunnelSpawn(r) \/ TunnelUp(r)
             \/ TunnelFails(r) \/ Notify(r)
      PROVE  OrphanInv'
  BY <1>3 DEF Detect, StartupFails, TunnelSpawn, TunnelUp, TunnelFails, Notify, Goto, Exit
<1>4. ASSUME NEW r \in Runs,
             \/ SnapshotOpen(r) \/ SnapshotRecord(r) \/ SnapshotFails(r) \/ Patch(r)
      PROVE  OrphanInv'
  BY <1>4 DEF SnapshotOpen, SnapshotRecord, SnapshotFails, Patch, Goto, Cleanup
<1>5. ASSUME NEW r \in Runs,
             \/ Banner(r) \/ Answer(r) \/ AnswerPanics(r) \/ TakeSignal(r)
             \/ TunnelLost(r) \/ Stop(r)
      PROVE  OrphanInv'
  BY <1>5 DEF Banner, Answer, AnswerPanics, TakeSignal, TunnelLost, Stop, Goto, Exit, Cleanup
<1>6. ASSUME NEW r \in Runs, Outside(r)
      PROVE  OrphanInv'
  BY <1>6 DEF Outside, InterruptEarly, Interrupt, Kill, ChildExits, Exit, Listening
<1>7. CASE EditOther \/ EditAppUrl
  BY <1>7 DEF EditOther, EditAppUrl, UserSets
<1>8. CASE UNCHANGED vars
  BY <1>8 DEF vars
<1> QED
  BY <1>1, <1>2, <1>3, <1>4, <1>5, <1>6, <1>7, <1>8 DEF Next, Proceed

\* Every return of run(), from any of its error paths, leaves the tunnel process
\* dead: only a kill or a Ctrl+C before signal.Notify can leave one running.
THEOREM NeverOrphans == Spec => []NoOrphan
<1>1. Init => OrphanInv
  BY DEF Init, OrphanInv, NoOrphan, PCs, Contexts, Outcomes, Live
<1>2. OrphanInv /\ [Next]_vars => OrphanInv'
  BY OrphanStep
<1>3. OrphanInv => NoOrphan
  BY DEF OrphanInv
<1> QED
  BY <1>1, <1>2, <1>3, PTL DEF Spec
============================================================================
