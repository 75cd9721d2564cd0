--------------------------- MODULE ConfigProofs ---------------------------
(***************************************************************************)
(* The settings, for any number of processes, any flags and any contents   *)
(* of the files: what each step of Config.tla keeps.  StartupProofs.tla    *)
(* lifts it to whole runs, and says which flags there are.                 *)
(***************************************************************************)
EXTENDS Config, TLAPS

----------------------------------------------------------------------------
(* Resolve and Finalize.                                                   *)

Resolutions ==
  {Failed} \cup
    [transport : Transports, source : {"default", "global", "project", "flag"},
     saved : Transports \cup {""}]

\* What is known of a content: only an object says anything.
LEMMA ContentFields ==
  ASSUME NEW c \in Contents
  PROVE  /\ c.kind \in {"missing", "blank", "broken", "null", "object"}
         /\ c.transport \in Values
         /\ c.others \in BOOLEAN
         /\ c.kind # "object" => c.transport = "" /\ c.others = FALSE
<1>1. ASSUME NEW kind \in {"missing", "blank", "broken", "null"},
             c = Content(kind, "", FALSE)
      PROVE  /\ c.kind = kind /\ kind # "object" /\ c.transport = ""
             /\ c.others \in BOOLEAN /\ c.others = FALSE
  BY <1>1 DEF Content
<1>2. ASSUME NEW t \in Values, NEW o \in BOOLEAN, c = Object(t, o)
      PROVE  c.kind = "object" /\ c.transport = t /\ c.others = o
  BY <1>2 DEF Object, Content
<1>3. \/ c \in {Missing, Blank, Broken, Null}
      \/ \E t \in Values, o \in BOOLEAN : c = Object(t, o)
  BY DEF Contents
<1>4. CASE c \in {Missing, Blank, Broken, Null}
  <2>1. PICK kind \in {"missing", "blank", "broken", "null"} : c = Content(kind, "", FALSE)
    BY <1>4 DEF Missing, Blank, Broken, Null
  <2> QED
    BY <2>1, <1>1 DEF Values
<1> QED
  BY <1>2, <1>3, <1>4

LEMMA ResolutionFields ==
  ASSUME NEW r \in Resolutions
  PROVE  /\ r.transport \in Transports \cup {""}
         /\ r.saved \in Transports \cup {""}
         /\ r # Failed => r.transport \in Transports
<1>1. CASE r = Failed
  BY <1>1 DEF Resolution, Failed
<1>2. CASE r # Failed
  BY <1>2 DEF Resolutions
<1> QED
  BY <1>1, <1>2

\* A file with a transport wins over what was there before, one without leaves it
\* as it is, and one that cannot be used spoils it.
LEMMA LayerCases ==
  ASSUME NEW r \in Resolutions, NEW content \in Contents, NEW source \in Files
  PROVE  /\ Layer(r, content, source) \in Resolutions
         /\ \/ Layer(r, content, source) \in {Failed, r}
            \/ Layer(r, content, source).saved \in Transports
<1>1. \/ Layer(r, content, source) \in {Failed, r}
      \/ /\ content.transport \in Transports
         /\ Layer(r, content, source) =
              Resolution(content.transport, source, content.transport)
  BY ContentFields DEF Layer, Values
<1>2. ASSUME NEW t \in Transports
      PROVE  Resolution(t, source, t) \in Resolutions /\ Resolution(t, source, t).saved = t
  BY DEF Resolutions, Resolution, Files
<1>3. Failed \in Resolutions
  BY DEF Resolutions
<1> QED
  BY <1>1, <1>2, <1>3

\* The two turns of the loop of Resolve, one after the other, give the precedence
\* that the documentation promises.
LEMMA LayersGivePrecedence ==
  ASSUME NEW fs \in [Files -> Contents]
  PROVE  Layer(Layer(ByDefault, fs["global"], "global"), fs["project"], "project")
           = Precedence(fs)
<1> DEFINE g == fs["global"]
           q == fs["project"]
           spoilt(c) == ~Readable(c) \/ c.transport = "invalid"
           one == Layer(ByDefault, g, "global")
<1>1. ByDefault # Failed
  BY DEF ByDefault, Failed, Resolution, DefaultTransport
<1>2. \A t, s : t # "" => Resolution(t, s, t) # Failed
  BY DEF Resolution, Failed
<1>3. /\ spoilt(g) => one = Failed
      /\ ~spoilt(g) /\ g.transport = "" => one = ByDefault
      /\ ~spoilt(g) /\ g.transport # "" =>
           one = Resolution(g.transport, "global", g.transport)
  BY <1>1 DEF Layer
<1>4. one = Failed => spoilt(g)
  BY <1>1, <1>2, <1>3
<1>5. CASE spoilt(g) \/ spoilt(q)
  BY <1>5, <1>3 DEF Layer, Precedence, Files
<1>6. CASE ~spoilt(g) /\ ~spoilt(q)
  <2>1. Precedence(fs) =
          IF q.transport # "" THEN Resolution(q.transport, "project", q.transport)
          ELSE IF g.transport # "" THEN Resolution(g.transport, "global", g.transport)
          ELSE ByDefault
    BY <1>6 DEF Precedence, Files
  <2>2. Layer(one, q, "project") =
          IF q.transport = "" THEN one
          ELSE Resolution(q.transport, "project", q.transport)
    BY <1>6, <1>4 DEF Layer
  <2> QED
    BY <2>1, <2>2, <1>3, <1>6
<1> QED
  BY <1>5, <1>6

\* A flag is honoured or ends the run, and what the files said is still known.
LEMMA FlagChoice ==
  ASSUME NEW r \in Resolutions, NEW flag, OnTop(r, flag) # Failed
  PROVE  /\ OnTop(r, flag) \in Resolutions
         /\ r # Failed /\ OnTop(r, flag).saved = r.saved
         /\ flag # "" => OnTop(r, flag).transport = flag /\ OnTop(r, flag).source = "flag"
  BY DEF OnTop, Resolutions, Resolution, Failed

\* A domain makes ngrok of the default, and of nothing else.
LEMMA NgrokForDefault ==
  ASSUME NEW r \in Resolutions, r # Failed, NEW n, n = [r EXCEPT !.transport = "ngrok"]
  PROVE  n \in Resolutions /\ n.transport = "ngrok" /\ n.saved = r.saved
  BY DEF Resolutions, Transports

----------------------------------------------------------------------------
(* The invariant.                                                          *)

Writing(p, f) == phase[p] = "write" /\ job[p].file = f

Jobs(flags) ==
  [cmd : {"none", "run", "set", "unset"}, file : Files, value : Values,
   flag : flags \cup {""}, domain : BOOLEAN]

TypesInv(flags) ==
  /\ files \in [Files -> Contents]
  /\ theirs \in [Files -> BOOLEAN]
  /\ damaged \subseteq Files
  /\ answered \in BOOLEAN /\ knew \subseteq Procs
  /\ edits \in 0 .. MaxEdits
  /\ phase \in [Procs -> Phases]
  /\ job \in [Procs -> Jobs(flags)]
  /\ res \in [Procs -> Resolutions]
  /\ saw \in [Procs -> [Files -> Contents]]
  /\ map \in [Procs -> Contents]

\* What p is about to write has the user's other keys of its file, and the value p
\* was asked for, which is no mistake.
HasKeys(p) ==
  /\ map[p].kind = "object" /\ map[p].others = theirs[job[p].file]
  /\ map[p].transport = job[p].value
  /\ map[p].transport \in Transports \cup {""}

\* An object has the user's keys, and so has whatever is about to replace it; a
\* file that is missing, or null, has no keys to keep.
KeepInv ==
  /\ \A f \in Files :
       /\ files[f].kind = "object" => files[f].others = theirs[f]
       /\ files[f].kind \in {"missing", "null"} => ~theirs[f]
  /\ \A p \in Procs : phase[p] \in {"truncate", "write"} => HasKeys(p)

\* An undamaged file that is being written has one writer, and is blank.
DamageInv ==
  \A f \in Files \ damaged :
    /\ (\A p \in Procs : ~Writing(p, f)) => Readable(files[f])
    /\ \A p \in Procs : Writing(p, f) =>
         /\ files[f] = Blank
         /\ \A q \in Procs : Writing(q, f) => q = p

\* An answer is in the global file unless that is just being written; a run that
\* began with it knows it, or fails.
AnswerInv ==
  /\ knew # {} => answered
  /\ answered =>
       \/ files["global"].kind = "blank"
       \/ files["global"].kind = "object" /\ files["global"].transport \in Transports
  /\ \A p \in Procs :
       p \in knew /\ phase[p] \in {"project", "finalize", "tunnel", "prompt"} =>
         res[p] = Failed \/ res[p].saved \in Transports

\* What a run has made of the files it has read, and of its flags.
ChosenBy(p) ==
  /\ phase[p] = "project" => res[p] = Layer(ByDefault, saw[p]["global"], "global")
  /\ phase[p] \in {"tunnel", "prompt"} =>
       /\ res[p] # Failed
       /\ job[p].flag # "" => res[p].transport = job[p].flag
       /\ job[p].domain => res[p].transport = "ngrok"
  /\ phase[p] = "prompt" => res[p].saved = ""

ChoiceInv == \A p \in Procs : ChosenBy(p)

ConfigInv(flags) == TypesInv(flags) /\ KeepInv /\ DamageInv /\ AnswerInv /\ ChoiceInv

----------------------------------------------------------------------------
(* It holds at first.                                                      *)

\* The types of the values a process is given.
LEMMA TypedValues ==
  ASSUME NEW flags
  PROVE  /\ {Missing, Blank, Broken} \subseteq Contents
         /\ \A t \in Values, o \in BOOLEAN : Object(t, o) \in Contents
         /\ ByDefault \in Resolutions
         /\ NoJob \in Jobs(flags)
<1>1. {Missing, Blank, Broken} \subseteq Contents
  BY DEF Contents
<1>2. \A t \in Values, o \in BOOLEAN : Object(t, o) \in Contents
  BY DEF Contents
<1>3. ByDefault \in Resolutions
  BY DEF Resolutions, ByDefault, Resolution, DefaultTransport, Transports
<1>4. NoJob \in Jobs(flags)
  BY DEF NoJob, Job, Jobs, Files, Values
<1> QED
  BY <1>1, <1>2, <1>3, <1>4

LEMMA ConfigInitInv ==
  ASSUME NEW flags, ConfigInit
  PROVE  ConfigInv(flags)
<1> USE ConfigAssumption DEF ConfigInit
<1>1. files \in [Files -> Contents]
  OBVIOUS
<1>2. TypesInv(flags)
  <2>1. theirs \in [Files -> BOOLEAN]
    BY <1>1, ContentFields
  <2>2. saw \in [Procs -> [Files -> Contents]] /\ map \in [Procs -> Contents]
    BY TypedValues
  <2>3. job \in [Procs -> Jobs(flags)] /\ res \in [Procs -> Resolutions]
    BY TypedValues
  <2>4. damaged \subseteq Files /\ answered \in BOOLEAN /\ knew \subseteq Procs
    OBVIOUS
  <2>5. edits \in 0 .. MaxEdits /\ phase \in [Procs -> Phases]
    BY DEF Phases
  <2> HIDE ConfigAssumption DEF ConfigInit
  <2> QED
    BY <1>1, <2>1, <2>2, <2>3, <2>4, <2>5 DEF TypesInv
<1>3. KeepInv /\ DamageInv /\ AnswerInv /\ ChoiceInv
  BY <1>1, ContentFields DEF KeepInv, HasKeys, DamageInv, AnswerInv, ChoiceInv, ChosenBy, Writing
<1> QED
  BY <1>2, <1>3 DEF ConfigInv

----------------------------------------------------------------------------
(* Every step keeps the types.                                             *)

\* What a process that ends leaves behind.
LEMMA EndsTypes ==
  ASSUME NEW flags, TypesInv(flags), NEW p \in Procs, Ends(p)
  PROVE  /\ phase' \in [Procs -> Phases]
         /\ job' \in [Procs -> Jobs(flags)]
         /\ res' \in [Procs -> Resolutions]
         /\ saw' \in [Procs -> [Files -> Contents]]
         /\ map' \in [Procs -> Contents]
  BY TypedValues DEF Ends, TypesInv, Phases

\* What the end of the flags and the domain comes to.
LEMMA SettleEffect ==
  ASSUME NEW p \in Procs, res[p] \in Resolutions, Settle(p)
  PROVE  \/ Ends(p) /\ UNCHANGED Disk
         \/ \E final \in Resolutions :
              /\ final # Failed /\ res[p] # Failed /\ final.saved = res[p].saved
              /\ job[p].flag # "" => final.transport = job[p].flag
              /\ job[p].domain => final.transport = "ngrok"
              /\ phase' = [phase EXCEPT ![p] = "tunnel"]
              /\ res' = [res EXCEPT ![p] = final]
              /\ UNCHANGED <<Disk, job, saw, map>>
<1> DEFINE r == OnTop(res[p], job[p].flag)
           final == Finalize(r, job[p].domain)
<1>1. CASE final = Failed
  BY <1>1 DEF Settle
<1>2. CASE final # Failed
  <2>1. r # Failed
    BY <1>2 DEF Finalize
  <2>2. /\ r \in Resolutions
        /\ res[p] # Failed /\ r.saved = res[p].saved
        /\ job[p].flag # "" => r.transport = job[p].flag /\ r.source = "flag"
    BY <2>1, FlagChoice
  <2> HIDE DEF r
  <2>3. /\ final \in Resolutions
        /\ final.saved = res[p].saved
        /\ job[p].flag # "" => final.transport = job[p].flag
        /\ job[p].domain => final.transport = "ngrok"
    <3>1. CASE ~job[p].domain \/ r.transport = "ngrok"
      BY <2>1, <2>2, <3>1 DEF Finalize
    <3>2. CASE job[p].domain /\ r.transport # "ngrok"
      <4>1. r.source = "default" /\ final = [r EXCEPT !.transport = "ngrok"]
        BY <1>2, <2>1, <3>2 DEF Finalize
      <4>2. final \in Resolutions /\ final.transport = "ngrok" /\ final.saved = r.saved
        BY <2>1, <2>2, <4>1, NgrokForDefault
      <4> QED
        BY <2>2, <4>1, <4>2
    <3> QED
      BY <3>1, <3>2
  <2>4. /\ phase' = [phase EXCEPT ![p] = "tunnel"]
        /\ res' = [res EXCEPT ![p] = final]
        /\ UNCHANGED <<Disk, job, saw, map>>
    BY <1>2 DEF Settle, r
  <2> HIDE DEF final
  <2> QED
    BY <1>2, <2>2, <2>3, <2>4
<1> QED
  BY <1>1, <1>2

LEMMA TypesStep ==
  ASSUME NEW flags, TypesInv(flags), KeepInv, NEW p \in Procs, ConfigStep(p)
  PROVE  TypesInv(flags)'
<1> USE DEF TypesInv
<1>1. CASE ReadProject(p)
  <2>1. Layer(res[p], files["project"], "project") \in Resolutions
    BY LayerCases DEF Files
  <2>2. [f \in Files |-> Missing] \in [Files -> Contents]
    BY TypedValues
  <2> QED
    BY <1>1, <2>1, <2>2 DEF ReadProject, Disk, Phases
<1>2. CASE Settle(p)
  <2>1. CASE Ends(p) /\ UNCHANGED Disk
    BY <2>1, EndsTypes DEF Disk
  <2>2. CASE ~(Ends(p) /\ UNCHANGED Disk)
    <3>1. PICK final \in Resolutions :
            /\ phase' = [phase EXCEPT ![p] = "tunnel"]
            /\ res' = [res EXCEPT ![p] = final]
            /\ UNCHANGED <<Disk, job, saw, map>>
      BY <1>2, <2>2, SettleEffect
    <3> QED
      BY <3>1 DEF Disk, Phases
  <2> QED
    BY <2>1, <2>2
<1>3. CASE TunnelOpen(p)
  <2>1. \/ Ends(p) /\ UNCHANGED Disk
        \/ phase' = [phase EXCEPT ![p] = "prompt"] /\ UNCHANGED <<Disk, job, res, saw, map>>
    BY <1>3 DEF TunnelOpen
  <2> QED
    BY <2>1, EndsTypes DEF Disk, Phases
<1>4. CASE AnswerPrompt(p)
  <2>1. PICK choice \in {DefaultTransport, res[p].transport} :
          job' = [job EXCEPT ![p].value = choice]
    BY <1>4 DEF AnswerPrompt
  <2>2. choice \in Values
    BY ResolutionFields DEF DefaultTransport, Values, Transports
  <2>3. job' \in [Procs -> Jobs(flags)]
    <3>1. [job[p] EXCEPT !.value = choice] \in Jobs(flags)
      <4>1. job[p] \in Jobs(flags)
        OBVIOUS
      <4> HIDE DEF TypesInv
      <4> QED
        BY <2>2, <4>1 DEF Jobs
    <3>2. job' = [job EXCEPT ![p] = [job[p] EXCEPT !.value = choice]]
      BY <2>1
    <3> QED
      BY <3>1, <3>2
  <2> QED
    BY <1>4, <2>3 DEF AnswerPrompt, Disk, Phases
<1>5. CASE StartCommand(p)
  <2>1. PICK file \in Files, value \in Values :
          job' = [job EXCEPT ![p] =
            Job(IF value = "" THEN "unset" ELSE "set", file, value, "", FALSE)]
    BY <1>5 DEF StartCommand
  <2>2. Job(IF value = "" THEN "unset" ELSE "set", file, value, "", FALSE) \in Jobs(flags)
    BY DEF Job, Jobs
  <2>3. job' \in [Procs -> Jobs(flags)]
    BY <2>1, <2>2
  <2> QED
    BY <1>5, <2>3 DEF StartCommand, Disk, Phases
<1>6. CASE ReadForUpdate(p)
  <2>1. job[p].file \in Files /\ job[p].value \in Values
    BY DEF Jobs
  <2>2. Object(job[p].value, files[job[p].file].others) \in Contents
    BY <2>1, ContentFields, TypedValues
  <2> QED
    BY <1>6, <2>2 DEF ReadForUpdate, Disk, Phases
<1>7. CASE LeaveFile(p) \/ SetPanics(p)
  BY <1>7, EndsTypes DEF LeaveFile, SetPanics, Disk
<1>8. CASE Truncate(p)
  <2>1. job[p].file \in Files /\ Blank \in Contents
    BY TypedValues DEF Jobs
  <2> QED
    BY <1>8, <2>1 DEF Truncate, Phases
<1>9. CASE Write(p)
  <2>1. job[p].file \in Files
    BY DEF Jobs
  <2>2. PICK new \in Overlay(files[job[p].file], map[p]) :
          /\ files' = [files EXCEPT ![job[p].file] = new]
          /\ Remember(p, job[p].file, new)
          /\ damaged' = IF Contended(p) THEN damaged \cup {job[p].file} ELSE damaged
    BY <1>9 DEF Write
  <2>3. new \in Contents
    BY <2>1, TypedValues DEF Overlay
  <2>4. answered' \in BOOLEAN /\ knew' \subseteq Procs
    BY <2>2 DEF Remember
  <2>5. Ends(p) /\ UNCHANGED <<theirs, edits>>
    BY <1>9 DEF Write
  <2> QED
    BY <2>1, <2>2, <2>3, <2>4, <2>5, EndsTypes
<1>10. CASE WriteFails(p) \/ KillProcess(p)
  <2>1. Ends(p) /\ (CutShort(p) \/ UNCHANGED Disk)
    BY <1>10 DEF WriteFails, KillProcess
  <2>2. CASE CutShort(p)
    <3>1. job[p].file \in Files
      BY DEF Jobs
    <3>2. files' \in [Files -> Contents]
      BY <2>2, <3>1, TypedValues DEF CutShort
    <3> QED
      BY <2>1, <2>2, <3>1, <3>2, EndsTypes DEF CutShort
  <2> QED
    BY <2>1, <2>2, EndsTypes DEF Disk
<1> QED
  BY <1>1, <1>2, <1>3, <1>4, <1>5, <1>6, <1>7, <1>8, <1>9, <1>10 DEF ConfigStep

LEMMA TypesRead ==
  ASSUME NEW flags, TypesInv(flags), NEW p \in Procs, NEW flag \in flags,
         NEW domain \in BOOLEAN, ReadGlobal(p, flag, domain)
  PROVE  TypesInv(flags)'
<1>1. Job("run", "global", "", flag, domain) \in Jobs(flags)
  BY DEF Job, Jobs, Files, Values
<1>2. Layer(ByDefault, files["global"], "global") \in Resolutions
  BY LayerCases, TypedValues DEF TypesInv, Files
<1> QED
  BY <1>1, <1>2 DEF TypesInv, ReadGlobal, Phases

LEMMA TypesUser ==
  ASSUME NEW flags, TypesInv(flags), NEW f \in Files, UserWrites(f)
  PROVE  TypesInv(flags)'
<1>1. PICK new \in Edits :
        /\ files' = [files EXCEPT ![f] = new]
        /\ theirs' = [theirs EXCEPT ![f] = new.others]
        /\ damaged' = IF Readable(new) THEN damaged \ {f} ELSE damaged \cup {f}
  BY DEF UserWrites
<1>2. new \in Contents /\ new.others \in BOOLEAN
  BY ConfigAssumption, ContentFields
<1>3. edits' \in 0 .. MaxEdits
  BY ConfigAssumption DEF TypesInv, UserWrites
<1> QED
  BY <1>1, <1>2, <1>3 DEF TypesInv, UserWrites

----------------------------------------------------------------------------
(* What a step is to the files and to the other processes.                 *)

\* A step of p that leaves the files alone.
Quiet(p) ==
  /\ UNCHANGED Disk
  /\ phase[p] # "write" /\ phase'[p] \notin {"truncate", "write"}

LEMMA StepFrame ==
  ASSUME NEW flags, TypesInv(flags), NEW p \in Procs,
         ConfigStep(p) \/ \E flag, domain : ReadGlobal(p, flag, domain)
  PROVE  \A q \in Procs \ {p} :
           /\ phase'[q] = phase[q] /\ job'[q] = job[q] /\ res'[q] = res[q]
           /\ saw'[q] = saw[q] /\ map'[q] = map[q]
<1> DEFINE Framed == \A q \in Procs \ {p} :
             /\ phase'[q] = phase[q] /\ job'[q] = job[q] /\ res'[q] = res[q]
             /\ saw'[q] = saw[q] /\ map'[q] = map[q]
<1> SUFFICES Framed
  OBVIOUS
<1> USE DEF TypesInv
<1>e. ASSUME Ends(p)
      PROVE  Framed
  BY <1>e DEF Ends
<1>1. CASE Settle(p)
  <2>1. CASE ~Ends(p)
    <3>1. PICK final \in Resolutions :
            /\ phase' = [phase EXCEPT ![p] = "tunnel"]
            /\ res' = [res EXCEPT ![p] = final]
            /\ UNCHANGED <<Disk, job, saw, map>>
      BY <1>1, <2>1, SettleEffect
    <3> QED
      BY <3>1
  <2> QED
    BY <1>e, <2>1
<1>2. CASE ReadProject(p) \/ AnswerPrompt(p) \/ StartCommand(p)
  BY <1>2 DEF ReadProject, AnswerPrompt, StartCommand
<1>t. CASE TunnelOpen(p)
  BY <1>e, <1>t DEF TunnelOpen
<1>3. CASE ReadForUpdate(p) \/ Truncate(p)
  BY <1>3 DEF ReadForUpdate, Truncate
<1>4. CASE LeaveFile(p) \/ SetPanics(p) \/ Write(p) \/ WriteFails(p) \/ KillProcess(p)
  <2>1. Ends(p)
    BY <1>4 DEF LeaveFile, SetPanics, Write, WriteFails, KillProcess
  <2> QED
    BY <1>e, <2>1
<1>5. CASE \E flag, domain : ReadGlobal(p, flag, domain)
  BY <1>5 DEF ReadGlobal
<1> HIDE DEF Framed
<1> QED
  BY <1>1, <1>2, <1>t, <1>3, <1>4, <1>5 DEF ConfigStep

LEMMA StepCases ==
  ASSUME NEW flags, TypesInv(flags), NEW p \in Procs, ConfigStep(p)
  PROVE  \/ Quiet(p)
         \/ ReadForUpdate(p) \/ Truncate(p) \/ Write(p)
         \/ CutShort(p) /\ Ends(p)
<1> USE DEF TypesInv
<1>1. ASSUME Ends(p) PROVE phase'[p] = "over"
  BY <1>1 DEF Ends
<1>2. CASE ReadProject(p) \/ Settle(p) \/ TunnelOpen(p)
  <2>1. UNCHANGED Disk /\ phase[p] \in {"project", "finalize", "tunnel"}
    BY <1>2 DEF ReadProject, Settle, TunnelOpen
  <2>2. phase'[p] \in {"finalize", "tunnel", "prompt", "over"}
    <3>1. CASE Settle(p) /\ ~Ends(p)
      <4>1. PICK final \in Resolutions : phase' = [phase EXCEPT ![p] = "tunnel"]
        BY <3>1, SettleEffect
      <4> QED
        BY <4>1
    <3>2. CASE ReadProject(p) \/ TunnelOpen(p)
      BY <1>1, <3>2 DEF ReadProject, TunnelOpen
    <3> QED
      BY <1>1, <1>2, <3>1, <3>2
  <2> QED
    BY <2>1, <2>2 DEF Quiet
<1>3. CASE AnswerPrompt(p) \/ StartCommand(p)
  BY <1>3 DEF AnswerPrompt, StartCommand, Quiet
<1>4. CASE LeaveFile(p) \/ SetPanics(p)
  BY <1>1, <1>4 DEF LeaveFile, SetPanics, Quiet
<1>5. CASE WriteFails(p) \/ KillProcess(p)
  BY <1>1, <1>5 DEF WriteFails, KillProcess, Quiet
<1> QED
  BY <1>2, <1>3, <1>4, <1>5 DEF ConfigStep

----------------------------------------------------------------------------
(* The user's keys, and damage.                                            *)

LEMMA KeepStep ==
  ASSUME NEW flags, TypesInv(flags), KeepInv, NEW p \in Procs, ConfigStep(p)
  PROVE  KeepInv'
<1>f. \A q \in Procs \ {p} :
        phase'[q] = phase[q] /\ job'[q] = job[q] /\ map'[q] = map[q]
  BY StepFrame
<1>o. ASSUME NEW q \in Procs \ {p}, UNCHANGED theirs, phase'[q] \in {"truncate", "write"}
      PROVE  HasKeys(q)'
  <2>1. phase'[q] = phase[q] /\ job'[q] = job[q] /\ map'[q] = map[q]
    BY <1>f
  <2>2. HasKeys(q)
    BY <1>o, <2>1 DEF KeepInv
  <2> QED
    BY <1>o, <2>1, <2>2 DEF HasKeys
<1>1. CASE Quiet(p)
  BY <1>1, <1>o DEF Quiet, Disk, KeepInv
<1>2. CASE ReadForUpdate(p)
  <2> DEFINE file == job[p].file
  <2>1. /\ file \in Files /\ job[p].value \in Values
        /\ job[p].value # "invalid" /\ Readable(files[file]) /\ files[file].kind # "null"
        /\ map' = [map EXCEPT ![p] = Object(job[p].value, files[file].others)]
        /\ UNCHANGED <<files, theirs, job>>
    BY <1>2 DEF ReadForUpdate, NothingToWrite, TypesInv, Jobs, Disk
  <2>2. files[file].kind \in {"missing", "object"}
    BY <2>1, ContentFields DEF TypesInv, Readable
  <2>3. files[file].others = theirs[file]
    <3>1. CASE files[file].kind = "object"
      BY <2>1, <3>1 DEF KeepInv
    <3>2. CASE files[file].kind = "missing"
      <4>1. files[file] \in Contents /\ theirs[file] \in BOOLEAN
        BY <2>1 DEF TypesInv
      <4>2. files[file].others = FALSE
        BY <3>2, <4>1, ContentFields
      <4> QED
        BY <2>1, <3>2, <4>1, <4>2 DEF KeepInv
    <3> QED
      BY <2>2, <3>1, <3>2
  <2>4. /\ map'[p].kind = "object" /\ map'[p].others = theirs[file]
        /\ map'[p].transport = job[p].value
        /\ map'[p].transport \in Transports \cup {""}
    BY <2>1, <2>3 DEF TypesInv, Object, Content, Values
  <2> QED
    <3>1. HasKeys(p)'
      BY <2>1, <2>4 DEF HasKeys
    <3> QED
      BY <2>1, <3>1, <1>o DEF KeepInv
<1>3. CASE Truncate(p)
  <2>1. /\ files' = [files EXCEPT ![job[p].file] = Blank] /\ Blank.kind = "blank"
        /\ phase[p] = "truncate" /\ UNCHANGED <<theirs, job, map>>
    BY <1>3 DEF Truncate, Blank, Content
  <2>2. \A f \in Files : files'[f] = Blank \/ files'[f] = files[f]
    BY <2>1 DEF TypesInv
  <2>3. HasKeys(p)' /\ UNCHANGED theirs
    BY <2>1 DEF KeepInv, HasKeys
  <2> QED
    BY <2>1, <2>2, <2>3, <1>o DEF KeepInv
<1>4. CASE Write(p) \/ (CutShort(p) /\ Ends(p))
  <2>1. /\ phase[p] = "write" /\ phase'[p] = "over" /\ UNCHANGED theirs
    BY <1>4 DEF Write, CutShort, Ends, TypesInv
  <2>2. PICK new : /\ new \in {map[p], Broken, files[job[p].file]}
                   /\ files' = [files EXCEPT ![job[p].file] = new]
    BY <1>4 DEF Write, CutShort, Overlay, TypesInv
  <2>3. Broken.kind = "broken"
    BY DEF Broken, Content
  <2>4. ASSUME NEW f \in Files
        PROVE  /\ files'[f].kind = "object" => files'[f].others = theirs'[f]
               /\ files'[f].kind \in {"missing", "null"} => ~theirs'[f]
    <3>1. CASE files'[f] = files[f]
      BY <2>1, <3>1 DEF KeepInv
    <3>2. CASE f = job[p].file /\ files'[f] = map[p]
      BY <2>1, <3>2 DEF KeepInv, HasKeys
    <3>3. CASE files'[f] = Broken
      BY <2>3, <3>3
    <3> QED
      BY <2>2, <3>1, <3>2, <3>3 DEF TypesInv
  <2>5. UNCHANGED theirs /\ \A q \in Procs : phase'[q] \in {"truncate", "write"} => q # p
    BY <2>1
  <2> QED
    BY <2>4, <2>5, <1>o DEF KeepInv
<1> QED
  BY <1>1, <1>2, <1>3, <1>4, StepCases

LEMMA DamageStep ==
  ASSUME NEW flags, TypesInv(flags), KeepInv, DamageInv, NEW p \in Procs, ConfigStep(p)
  PROVE  DamageInv'
<1>f. \A q \in Procs \ {p} : phase'[q] = phase[q] /\ job'[q] = job[q]
  BY StepFrame
<1>1. CASE Quiet(p)
  BY <1>1, <1>f DEF Quiet, Disk, DamageInv, Writing
<1>2. CASE ReadForUpdate(p)
  BY <1>2, <1>f DEF ReadForUpdate, Disk, DamageInv, Writing, TypesInv
<1>3. CASE Truncate(p)
  <2> DEFINE file == job[p].file
  <2>1. /\ file \in Files /\ phase[p] = "truncate"
        /\ files' = [files EXCEPT ![file] = Blank]
        /\ damaged' = IF Contended(p) THEN damaged \cup {file} ELSE damaged \ {file}
        /\ phase'[p] = "write" /\ UNCHANGED job
    BY <1>3 DEF Truncate, TypesInv, Jobs
  <2>2. ASSUME NEW f \in Files \ damaged', f # file
        PROVE  /\ (\A q \in Procs : ~Writing(q, f)') => Readable(files'[f])
               /\ \A q \in Procs : Writing(q, f)' =>
                    /\ files'[f] = Blank
                    /\ \A r \in Procs : Writing(r, f)' => r = q
    <3>1. files'[f] = files[f] /\ f \notin damaged
      BY <2>1, <2>2 DEF TypesInv
    <3>2. \A q \in Procs : Writing(q, f)' <=> Writing(q, f)
      BY <2>1, <2>2, <1>f DEF Writing
    <3> QED
      BY <3>1, <3>2 DEF DamageInv
  <2>3. ASSUME file \notin damaged'
        PROVE  \A q \in Procs : Writing(q, file)' <=> q = p
    BY <2>1, <2>3, <1>f DEF Contended, Writing
  <2>4. files'[file] = Blank
    BY <2>1 DEF TypesInv
  <2> QED
    BY <2>1, <2>2, <2>3, <2>4 DEF DamageInv
<1>4. CASE Write(p)
  <2>0. PICK file \in Files : file = job[p].file
    BY DEF TypesInv, Jobs
  <2>1. PICK new \in Overlay(files[file], map[p]) :
          /\ files' = [files EXCEPT ![file] = new]
          /\ damaged' = IF Contended(p) THEN damaged \cup {file} ELSE damaged
    BY <1>4, <2>0 DEF Write
  <2>2. phase[p] = "write" /\ phase'[p] = "over"
    BY <1>4 DEF Write, Ends, TypesInv
  <2>3. ASSUME NEW f \in Files \ damaged', f # file
        PROVE  /\ (\A q \in Procs : ~Writing(q, f)') => Readable(files'[f])
               /\ \A q \in Procs : Writing(q, f)' =>
                    /\ files'[f] = Blank
                    /\ \A r \in Procs : Writing(r, f)' => r = q
    <3>1. files'[f] = files[f] /\ f \notin damaged
      BY <2>1, <2>3 DEF TypesInv
    <3>2. \A q \in Procs : Writing(q, f)' <=> Writing(q, f)
      BY <2>0, <2>2, <2>3, <1>f DEF Writing
    <3> QED
      BY <3>1, <3>2 DEF DamageInv
  <2>4. ASSUME file \notin damaged'
        PROVE  Readable(files'[file]) /\ \A q \in Procs : ~Writing(q, file)'
    <3>1. ~Contended(p) /\ file \notin damaged
      BY <2>1, <2>4
    <3>2. files[file] = Blank
      BY <3>1, <2>0, <2>2 DEF DamageInv, Writing
    <3>3. new = map[p]
      <4>1. Blank.kind = "blank" /\ Blank # Broken
        BY DEF Blank, Broken, Content
      <4> QED
        BY <2>1, <3>2, <4>1 DEF Overlay
    <3>4. Readable(files'[file])
      BY <2>1, <2>2, <3>3 DEF KeepInv, HasKeys, Readable, TypesInv
    <3>5. \A q \in Procs : ~Writing(q, file)'
      BY <3>1, <2>0, <2>2, <1>f DEF Contended, Writing
    <3> QED
      BY <3>4, <3>5
  <2> QED
    BY <2>3, <2>4 DEF DamageInv
<1>5. CASE CutShort(p) /\ Ends(p)
  <2> DEFINE file == job[p].file
  <2>1. /\ damaged' = damaged \cup {file} /\ phase'[p] = "over" /\ phase[p] = "write"
        /\ \A f \in Files \ {file} : files'[f] = files[f]
    BY <1>5 DEF CutShort, Ends, TypesInv
  <2> QED
    BY <2>1, <1>f DEF DamageInv, Writing
<1> QED
  BY <1>1, <1>2, <1>3, <1>4, <1>5, StepCases

----------------------------------------------------------------------------
(* The answer, and the choices.                                            *)

\* The global file loses the answer only with a write that says so.
LEMMA AnswerKept ==
  ASSUME NEW flags, TypesInv(flags), AnswerInv, NEW p \in Procs, ConfigStep(p), answered'
  PROVE  \/ files'["global"].kind = "blank"
         \/ files'["global"].kind = "object" /\ files'["global"].transport \in Transports
<1>j. job[p].file \in Files /\ "global" \in Files
  BY DEF TypesInv, Jobs, Files
<1>1. CASE Quiet(p) \/ ReadForUpdate(p)
  BY <1>1 DEF Quiet, ReadForUpdate, Disk, AnswerInv
<1>2. CASE Truncate(p)
  <2>1. files' = [files EXCEPT ![job[p].file] = Blank] /\ answered /\ Blank.kind = "blank"
    BY <1>2 DEF Truncate, Blank, Content
  <2> QED
    BY <1>j, <2>1 DEF AnswerInv, TypesInv
<1>3. CASE Write(p)
  <2>1. PICK new : /\ files' = [files EXCEPT ![job[p].file] = new]
                   /\ Remember(p, job[p].file, new)
    BY <1>3 DEF Write
  <2>2. CASE job[p].file = "global"
    BY <1>j, <2>1, <2>2 DEF Remember, TypesInv
  <2>3. CASE job[p].file # "global"
    BY <1>j, <2>1, <2>3 DEF Remember, TypesInv, AnswerInv
  <2> QED
    BY <2>2, <2>3
<1>4. CASE CutShort(p)
  BY <1>j, <1>4 DEF CutShort, AnswerInv, TypesInv
<1> QED
  BY <1>1, <1>2, <1>3, <1>4, StepCases

LEMMA AnswerStep ==
  ASSUME NEW flags, TypesInv(flags), AnswerInv, NEW p \in Procs, ConfigStep(p)
  PROVE  AnswerInv'
<1>f. \A q \in Procs \ {p} : phase'[q] = phase[q] /\ res'[q] = res[q]
  BY StepFrame
<1>k. knew' \subseteq knew /\ (knew' # {} => answered')
  BY StepCases DEF Quiet, ReadForUpdate, Disk, Truncate, Write, Remember, CutShort, AnswerInv
<1>1. ASSUME p \in knew, phase'[p] \in {"project", "finalize", "tunnel", "prompt"}
      PROVE  res'[p] = Failed \/ res'[p].saved \in Transports
  <2>1. CASE ReadProject(p)
    <3>1. res'[p] = Layer(res[p], files["project"], "project") /\ phase[p] = "project"
      BY <2>1 DEF ReadProject, TypesInv
    <3>2. res[p] \in Resolutions /\ files["project"] \in Contents
      BY DEF TypesInv, Files
    <3> QED
      BY <1>1, <3>1, <3>2, LayerCases DEF AnswerInv, Files
  <2>2. CASE Settle(p)
    <3>1. ~Ends(p)
      BY <1>1 DEF Ends, TypesInv
    <3>2. res[p] \in Resolutions
      BY DEF TypesInv
    <3>3. PICK final \in Resolutions :
            /\ res[p] # Failed /\ final.saved = res[p].saved
            /\ res' = [res EXCEPT ![p] = final]
      BY <2>2, <3>1, <3>2, SettleEffect
    <3>4. phase[p] = "finalize" /\ res'[p] = final
      BY <2>2, <3>3 DEF Settle, TypesInv
    <3> QED
      BY <1>1, <3>3, <3>4 DEF AnswerInv
  <2>3. CASE TunnelOpen(p)
    BY <1>1, <2>3 DEF TunnelOpen, Ends, AnswerInv, TypesInv
  <2>4. CASE ~(ReadProject(p) \/ Settle(p) \/ TunnelOpen(p))
    <3>1. phase'[p] \in {"read", "truncate", "write", "over"}
      BY <2>4 DEF ConfigStep, AnswerPrompt, StartCommand, ReadForUpdate, LeaveFile, SetPanics,
                  Truncate, Write, WriteFails, KillProcess, Ends, TypesInv
    <3> QED
      BY <1>1, <3>1
  <2> QED
    BY <2>1, <2>2, <2>3, <2>4
<1> QED
  BY <1>f, <1>k, <1>1, AnswerKept DEF AnswerInv

LEMMA ChoiceStep ==
  ASSUME NEW flags, TypesInv(flags), ChoiceInv, NEW p \in Procs, ConfigStep(p)
  PROVE  ChoiceInv'
<1>f. \A q \in Procs \ {p} :
        /\ phase'[q] = phase[q] /\ job'[q] = job[q] /\ res'[q] = res[q]
        /\ saw'[q] = saw[q]
  BY StepFrame
<1>o. ASSUME NEW q \in Procs \ {p}
      PROVE  ChosenBy(q)'
  <2>1. phase'[q] = phase[q] /\ job'[q] = job[q] /\ res'[q] = res[q] /\ saw'[q] = saw[q]
    BY <1>f
  <2>2. ChosenBy(q)
    BY DEF ChoiceInv
  <2> QED
    BY <2>1, <2>2 DEF ChosenBy
<1> SUFFICES ChosenBy(p)'
  BY <1>o DEF ChoiceInv
<1>e. ASSUME phase'[p] \in {"finalize", "read", "truncate", "write", "over"}
      PROVE  ChosenBy(p)'
  BY <1>e DEF ChosenBy
<1>s. Ends(p) => phase'[p] = "over"
  BY DEF Ends, TypesInv
<1>1. CASE Settle(p)
  <2>1. CASE Ends(p)
    BY <1>e, <1>s, <2>1
  <2>2. CASE ~Ends(p)
    <3>1. res[p] \in Resolutions
      BY DEF TypesInv
    <3>2. PICK final \in Resolutions :
            /\ final # Failed /\ res[p] # Failed /\ final.saved = res[p].saved
            /\ job[p].flag # "" => final.transport = job[p].flag
            /\ job[p].domain => final.transport = "ngrok"
            /\ phase' = [phase EXCEPT ![p] = "tunnel"]
            /\ res' = [res EXCEPT ![p] = final]
            /\ UNCHANGED <<Disk, job, saw, map>>
      BY <1>1, <2>2, <3>1, SettleEffect, Zenon
    <3>3. /\ phase'[p] = "tunnel" /\ res'[p] # Failed
          /\ job'[p].flag # "" => res'[p].transport = job'[p].flag
          /\ job'[p].domain => res'[p].transport = "ngrok"
      BY <3>2 DEF TypesInv
    <3> QED
      BY <3>3 DEF ChosenBy
  <2> QED
    BY <2>1, <2>2
<1>2. CASE TunnelOpen(p)
  <2>1. CASE Ends(p)
    BY <1>e, <1>s, <2>1
  <2>2. CASE ~Ends(p)
    <3>1. /\ phase[p] = "tunnel" /\ phase'[p] = "prompt"
          /\ UNCHANGED <<job, res>>
      BY <1>2, <2>2 DEF TunnelOpen, TypesInv
    <3>2. res[p].saved = ""
      BY <1>2, <2>2 DEF TunnelOpen, WorthAsking
    <3> QED
      BY <3>1, <3>2 DEF ChoiceInv, ChosenBy
  <2> QED
    BY <2>1, <2>2
<1>3. CASE ~(Settle(p) \/ TunnelOpen(p))
  <2>1. phase'[p] \in {"finalize", "read", "truncate", "write", "over"}
    <3>1. CASE LeaveFile(p) \/ SetPanics(p) \/ Write(p) \/ WriteFails(p) \/ KillProcess(p)
      BY <1>s, <3>1 DEF LeaveFile, SetPanics, Write, WriteFails, KillProcess
    <3>2. CASE \/ ReadProject(p) \/ AnswerPrompt(p) \/ StartCommand(p)
               \/ ReadForUpdate(p) \/ Truncate(p)
      BY <3>2 DEF ReadProject, AnswerPrompt, StartCommand, ReadForUpdate, Truncate, TypesInv
    <3> QED
      BY <1>3, <3>1, <3>2 DEF ConfigStep
  <2> QED
    BY <1>e, <2>1
<1> QED
  BY <1>1, <1>2, <1>3

----------------------------------------------------------------------------
(* The other steps.                                                        *)

LEMMA ConfigStepInv ==
  ASSUME NEW flags, ConfigInv(flags), NEW p \in Procs, ConfigStep(p)
  PROVE  ConfigInv(flags)'
  BY TypesStep, KeepStep, DamageStep, AnswerStep, ChoiceStep DEF ConfigInv

LEMMA ReadGlobalInv ==
  ASSUME NEW flags, ConfigInv(flags), NEW p \in Procs, NEW flag \in flags,
         NEW domain, domain \in BOOLEAN, ReadGlobal(p, flag, domain)
  PROVE  ConfigInv(flags)'
<1> USE DEF ConfigInv
<1>1. TypesInv(flags)'
  BY TypesRead
<1>r. /\ phase[p] = "idle" /\ phase' = [phase EXCEPT ![p] = "project"]
      /\ res' = [res EXCEPT ![p] = Layer(ByDefault, files["global"], "global")]
      /\ saw' = [saw EXCEPT ![p] = files]
      /\ knew' = IF answered THEN knew \cup {p} ELSE knew
      /\ UNCHANGED <<files, theirs, damaged, answered, map>>
      /\ \A q \in Procs \ {p} : job'[q] = job[q]
  BY DEF ReadGlobal, TypesInv
<1>q. \A q \in Procs : phase'[q] \in {"truncate", "write"} \/ phase[q] \in {"truncate", "write"}
        => q # p /\ phase'[q] = phase[q] /\ job'[q] = job[q] /\ map'[q] = map[q]
  BY <1>r DEF TypesInv
<1>2. KeepInv'
  <2>1. ASSUME NEW q \in Procs, phase'[q] \in {"truncate", "write"}
        PROVE  HasKeys(q)'
    <3>1. phase'[q] = phase[q] /\ job'[q] = job[q] /\ map'[q] = map[q]
      BY <1>q, <2>1
    <3>2. HasKeys(q)
      BY <2>1, <3>1 DEF KeepInv
    <3> QED
      BY <1>r, <3>1, <3>2 DEF HasKeys
  <2> QED
    BY <1>r, <2>1 DEF KeepInv
<1>5. DamageInv'
  <2>1. \A q \in Procs, f \in Files : Writing(q, f)' <=> Writing(q, f)
    BY <1>q DEF Writing
  <2> QED
    BY <1>r, <2>1 DEF DamageInv
<1>3. AnswerInv'
  <2>1. ASSUME p \in knew'
        PROVE  res'[p] = Failed \/ res'[p].saved \in Transports
    <3>1. answered /\ res'[p] = Layer(ByDefault, files["global"], "global")
      BY <2>1, <1>r DEF AnswerInv, TypesInv
    <3>2. CASE files["global"].kind = "blank"
      BY <3>1, <3>2 DEF Layer, Readable
    <3>3. CASE files["global"].transport \in Transports
      <4> DEFINE choice == files["global"].transport
      <4>1. choice # "" /\ Resolution(choice, "global", choice).saved = choice
        BY <3>3 DEF Resolution, Transports
      <4>2. res'[p] \in {Failed, Resolution(choice, "global", choice)}
        BY <3>1, <4>1 DEF Layer
      <4> QED
        BY <3>3, <4>1, <4>2
    <3> QED
      BY <3>1, <3>2, <3>3 DEF AnswerInv
  <2>2. \A q \in Procs \ {p} : phase'[q] = phase[q] /\ res'[q] = res[q]
    BY <1>r DEF TypesInv
  <2> QED
    BY <2>1, <2>2, <1>r DEF AnswerInv
<1>4. ChoiceInv'
  BY <1>r DEF ChoiceInv, ChosenBy, TypesInv
<1> QED
  BY <1>1, <1>2, <1>5, <1>3, <1>4

LEMMA UserWritesInv ==
  ASSUME NEW flags, ConfigInv(flags), NEW f \in Files, UserWrites(f)
  PROVE  ConfigInv(flags)'
<1> USE DEF ConfigInv
<1>1. TypesInv(flags)'
  BY TypesUser
<1>u. PICK new \in Contents :
        /\ files' = [files EXCEPT ![f] = new]
        /\ theirs' = [theirs EXCEPT ![f] = new.others]
        /\ damaged' = IF Readable(new) THEN damaged \ {f} ELSE damaged \cup {f}
  BY ConfigAssumption DEF UserWrites
<1>p. /\ \A p \in Procs : phase[p] \in {"truncate", "write"} => job[p].file # f
      /\ answered' = (answered /\ f # "global")
      /\ knew' = IF f = "global" THEN {} ELSE knew
      /\ UNCHANGED <<phase, job, res, saw, map>>
  BY DEF UserWrites
<1>2. KeepInv'
  <2>1. \A g \in Files : g # f => files'[g] = files[g] /\ theirs'[g] = theirs[g]
    BY <1>u DEF TypesInv
  <2>2. files'[f] = new /\ theirs'[f] = new.others
    BY <1>u DEF TypesInv
  <2>3. new.kind # "object" => ~new.others
    BY ContentFields
  <2>4. \A g \in Files :
          /\ files'[g].kind = "object" => files'[g].others = theirs'[g]
          /\ files'[g].kind \in {"missing", "null"} => ~theirs'[g]
    BY <2>1, <2>2, <2>3 DEF KeepInv, HasKeys
  <2>5. \A p \in Procs : phase'[p] \in {"truncate", "write"} =>
          /\ map'[p].kind = "object" /\ map'[p].others = theirs'[job'[p].file]
          /\ map'[p].transport = job'[p].value
          /\ map'[p].transport \in Transports \cup {""}
    <3>1. \A p \in Procs : phase[p] \in {"truncate", "write"} =>
            theirs'[job[p].file] = theirs[job[p].file]
      BY <1>u, <1>p DEF TypesInv, Jobs
    <3> QED
      BY <1>p, <3>1 DEF KeepInv, HasKeys
  <2> QED
    BY <2>4, <2>5 DEF KeepInv, HasKeys
<1>3. DamageInv'
  BY <1>u, <1>p DEF DamageInv, Writing, TypesInv
<1>4. AnswerInv' /\ ChoiceInv'
  BY <1>u, <1>p DEF AnswerInv, ChoiceInv, ChosenBy, TypesInv, Files
<1> QED
  BY <1>1, <1>2, <1>3, <1>4

LEMMA ConfigStutter ==
  ASSUME NEW flags, ConfigInv(flags), UNCHANGED cvars
  PROVE  ConfigInv(flags)'
<1> USE DEF cvars, ConfigInv
<1>1. TypesInv(flags)'
  BY DEF TypesInv
<1>2. KeepInv'
  BY DEF KeepInv, HasKeys
<1>d. DamageInv'
  BY DEF DamageInv, Writing
<1>3. AnswerInv' /\ ChoiceInv'
  BY DEF AnswerInv, ChoiceInv, ChosenBy
<1> QED
  BY <1>1, <1>2, <1>d, <1>3

\* What the invariant says of every state: the properties of Config.tla.
LEMMA ConfigInvProperties ==
  ASSUME NEW flags, ConfigInv(flags)
  PROVE  ConfigTypeOK /\ KeysKept /\ ReadableUnlessDamaged /\ AskedOnce /\ HonoursChoices
<1> USE DEF ConfigInv
<1>1. ConfigTypeOK
  BY ResolutionFields DEF ConfigTypeOK, TypesInv, KeepInv, HasKeys, ChoiceInv, ChosenBy
<1>2. KeysKept
  <2> SUFFICES ASSUME NEW f \in Files, files[f].others # theirs[f]
               PROVE  /\ files[f].kind \in {"blank", "broken"}
                      /\ f \in damaged \/ \E p \in Procs : Writing(p, f)
    BY DEF KeysKept, Writing
  <2>1. files[f] \in Contents /\ theirs[f] \in BOOLEAN
    BY DEF TypesInv
  <2>2. files[f].kind \notin {"object", "missing", "null"}
    BY <2>1, ContentFields DEF KeepInv
  <2>3. files[f].kind \in {"blank", "broken"}
    BY <2>1, <2>2, ContentFields
  <2>4. ~Readable(files[f])
    BY <2>3 DEF Readable
  <2> QED
    BY <2>3, <2>4 DEF DamageInv
<1>3. ReadableUnlessDamaged
  BY DEF ReadableUnlessDamaged, DamageInv, Writing
<1>4. AskedOnce
  BY DEF AskedOnce, AnswerInv, ChoiceInv, ChosenBy, TypesInv, Transports
<1>5. HonoursChoices
  BY DEF HonoursChoices, ChoiceInv, ChosenBy
<1> QED
  BY <1>1, <1>2, <1>3, <1>4, <1>5

----------------------------------------------------------------------------
(* Two files changed at one moment: Config implements Settings.            *)

\* What a file holds: nothing if it is damaged, what is there if nobody writes it, and
\* else what its writer is going to write.
HeldIs(f) ==
  /\ f \in damaged => Held(f) = Whole!Lost
  /\ f \notin damaged /\ (\A p \in Procs : ~Writing(p, f)) =>
       Held(f) = Whole!Holding(files[f].transport, files[f].others)
  /\ \A p \in Procs : f \notin damaged /\ Writing(p, f) =>
       Held(f) = Whole!Holding(map[p].transport, map[p].others)

LEMMA HeldCases == DamageInv => \A f \in Files : HeldIs(f)
<1> SUFFICES ASSUME DamageInv, NEW f \in Files
             PROVE  HeldIs(f)
  OBVIOUS
<1> DEFINE writers == {p \in Procs : phase[p] = "write" /\ job[p].file = f}
<1>1. ASSUME NEW p \in Procs, f \notin damaged, Writing(p, f)
      PROVE  writers = {p} /\ (CHOOSE q \in writers : TRUE) = p
  BY <1>1 DEF DamageInv, Writing
<1>2. (\A p \in Procs : ~Writing(p, f)) => writers = {}
  BY DEF Writing
<1>3. f \in damaged => Held(f) = Whole!Lost
  BY DEF Held, Whole!Lost, Whole!Holding
<1>4. f \notin damaged /\ writers = {} =>
        Held(f) = Whole!Holding(files[f].transport, files[f].others)
  BY DEF Held, Whole!Holding
<1>5. ASSUME NEW p \in Procs, f \notin damaged, Writing(p, f)
      PROVE  Held(f) = Whole!Holding(map[p].transport, map[p].others)
  BY <1>1, <1>5 DEF Held, Whole!Holding
<1> QED
  BY <1>2, <1>3, <1>4, <1>5 DEF HeldIs

LEMMA HeldCasesNext == DamageInv' => (\A f \in Files : HeldIs(f))'
  BY HeldCases, PTL

\* A file that a step does not touch says what it said.
LEMMA HeldFrame ==
  ASSUME DamageInv, DamageInv', NEW f \in Files, files'[f] = files[f],
         f \in damaged' <=> f \in damaged,
         \A p \in Procs : /\ Writing(p, f)' <=> Writing(p, f)
                          /\ Writing(p, f) => map'[p] = map[p]
  PROVE  Held(f)' = Held(f)
<1>1. HeldIs(f) /\ HeldIs(f)'
  BY HeldCases, HeldCasesNext
<1>2. CASE f \in damaged
  BY <1>1, <1>2 DEF HeldIs, Whole!Lost, Whole!Holding
<1>3. CASE f \notin damaged /\ \A p \in Procs : ~Writing(p, f)
  BY <1>1, <1>3 DEF HeldIs, Whole!Holding
<1>4. ASSUME f \notin damaged, NEW p \in Procs, Writing(p, f)
      PROVE  Held(f)' = Held(f)
  BY <1>1, <1>4 DEF HeldIs, Whole!Holding
<1> QED
  BY <1>2, <1>3, <1>4

\* A process that has nothing to change, and one that has.
LEMMA AskedCases ==
  ASSUME NEW p \in Procs
  PROVE  /\ phase[p] \notin {"read", "truncate", "write"} => Asked(p) = Whole!NoChange
         /\ phase[p] \in {"read", "truncate", "write"} =>
              Asked(p) = Whole!Change(job[p].file, job[p].value, phase[p] = "write")
  BY DEF Asked, Whole!NoChange, Whole!Change

LEMMA AskedCasesNext ==
  ASSUME NEW p \in Procs
  PROVE  /\ phase'[p] \notin {"read", "truncate", "write"} => Asked(p)' = Whole!NoChange
         /\ phase'[p] \in {"read", "truncate", "write"} =>
              Asked(p)' = Whole!Change(job'[p].file, job'[p].value, phase'[p] = "write")
  BY DEF Asked, Whole!NoChange, Whole!Change

\* Two writers of one file meet.
LEMMA MeetsContended ==
  ASSUME NEW flags, TypesInv(flags), NEW p \in Procs,
         phase[p] \in {"truncate", "write"}
  PROVE  Whole!Meets(p) <=> Contended(p)
<1>1. Asked(p).file = job[p].file
  BY DEF Asked
<1>2. ASSUME NEW q \in Procs
      PROVE  Asked(q).made /\ Asked(q).file = job[p].file <=> Writing(q, job[p].file)
  BY <1>2 DEF Asked, Writing, TypesInv, Jobs
<1> QED
  BY <1>1, <1>2 DEF Whole!Meets, Contended, Writing

\* What a process has been asked, field by field.
LEMMA AskedFields ==
  ASSUME NEW p \in Procs, phase[p] \in {"read", "truncate", "write"}
  PROVE  /\ Asked(p).file = job[p].file /\ Asked(p).value = job[p].value
         /\ Asked(p).made <=> phase[p] = "write"
  BY DEF Asked

\* To be asked for a change is not to be asked for none.
LEMMA SomeChange ==
  ASSUME NEW f \in Files, NEW value, NEW made
  PROVE  Whole!Change(f, value, made) # Whole!NoChange
<1>1. Whole!Change(f, value, made).file = f /\ Whole!NoChange.file = "none"
  BY DEF Whole!Change, Whole!NoChange
<1>2. f # "none"
  BY DEF Files
<1> QED
  BY <1>1, <1>2

OthersAsk(p) == \A q \in Procs \ {p} : Asked(q)' = Asked(q)
OthersHold(f) == \A g \in Files \ {f} : Held(g)' = Held(g)

\* The steps of Settings.tla, process by process and file by file.
LEMMA WholeStutter ==
  ASSUME \A p \in Procs : Asked(p)' = Asked(p), \A f \in Files : Held(f)' = Held(f),
         UNCHANGED theirs
  PROVE  UNCHANGED Whole!svars
  BY DEF Whole!svars

LEMMA WholeAsk ==
  ASSUME NEW p \in Procs, NEW f \in Files, NEW value \in Values,
         Asked(p) = Whole!NoChange, Asked(p)' = Whole!Change(f, value, FALSE),
         OthersAsk(p), \A g \in Files : Held(g)' = Held(g), UNCHANGED theirs
  PROVE  Whole!Ask(p)
  BY DEF Whole!Ask, OthersAsk

LEMMA WholeMake ==
  ASSUME NEW p \in Procs, NEW f \in Files, NEW value \in Writable,
         Asked(p) # Whole!NoChange, Asked(p).file = f, Asked(p).value = value,
         ~Asked(p).made, Asked(p)' = Whole!Change(f, value, TRUE),
         Whole!Meets(p) => Held(f)' = Whole!Lost,
         ~Whole!Meets(p) => Held(f)' = Whole!Holding(value, theirs[f]),
         OthersAsk(p), OthersHold(f), UNCHANGED theirs
  PROVE  Whole!Make(p)
<1>1. [q \in Procs |-> Asked(q)]'
        = [[q \in Procs |-> Asked(q)] EXCEPT ![p] = Whole!Change(f, value, TRUE)]
  BY DEF OthersAsk
<1>2. Whole!Meets(p) =>
        [g \in Files |-> Held(g)]' = [[g \in Files |-> Held(g)] EXCEPT ![f] = Whole!Lost]
  BY DEF OthersHold
<1>3. ~Whole!Meets(p) =>
        [g \in Files |-> Held(g)]'
          = [[g \in Files |-> Held(g)] EXCEPT ![f] = Whole!Holding(value, theirs[f])]
  BY DEF OthersHold
<1>4. [q \in Procs |-> Asked(q)][p] = Asked(p)
  OBVIOUS
<1> QED
  BY <1>1, <1>2, <1>3, <1>4 DEF Whole!Make, Whole!Loses

LEMMA WholeRefuse ==
  ASSUME NEW p \in Procs, NEW f \in Files, NEW value,
         Asked(p) = Whole!Change(f, value, FALSE), Asked(p)' = Whole!NoChange,
         OthersAsk(p), \A g \in Files : Held(g)' = Held(g), UNCHANGED theirs
  PROVE  Whole!Finish(p)
<1>1. ~Asked(p).made
  <2>1. ~Whole!Change(f, value, FALSE).made
    BY Zenon DEF Whole!Change
  <2> QED
    BY <2>1, Zenon
<1>2. Asked(p) # Whole!NoChange
  BY SomeChange
<1>3. [q \in Procs |-> Asked(q)]' = [[q \in Procs |-> Asked(q)] EXCEPT ![p] = Whole!NoChange]
  BY DEF OthersAsk
<1> QED
  BY <1>1, <1>2, <1>3 DEF Whole!Finish

LEMMA WholeFinish ==
  ASSUME NEW p \in Procs, NEW f \in Files, NEW value,
         Asked(p) = Whole!Change(f, value, TRUE), Asked(p)' = Whole!NoChange,
         Whole!Meets(p) => Held(f)' = Whole!Lost,
         ~Whole!Meets(p) => Held(f)' = Held(f),
         OthersAsk(p), OthersHold(f), UNCHANGED theirs
  PROVE  Whole!Finish(p)
<1>1. Asked(p).made /\ Asked(p).file = f
  BY DEF Whole!Change
<1>2. Asked(p) # Whole!NoChange
  BY SomeChange
<1>3. [q \in Procs |-> Asked(q)]' = [[q \in Procs |-> Asked(q)] EXCEPT ![p] = Whole!NoChange]
  BY DEF OthersAsk
<1>4. CASE Whole!Meets(p)
  <2>1. [g \in Files |-> Held(g)]' = [[g \in Files |-> Held(g)] EXCEPT ![f] = Whole!Lost]
    BY <1>4 DEF OthersHold
  <2> QED
    BY <1>1, <1>2, <1>3, <1>4, <2>1 DEF Whole!Finish, Whole!Loses
<1>5. CASE ~Whole!Meets(p)
  <2>1. [g \in Files |-> Held(g)]' = [g \in Files |-> Held(g)]
    BY <1>5 DEF OthersHold
  <2> QED
    BY <1>2, <1>3, <1>5, <2>1 DEF Whole!Finish
<1> QED
  BY <1>4, <1>5

LEMMA WholeCut ==
  ASSUME NEW p \in Procs, NEW f \in Files, NEW value,
         Asked(p) = Whole!Change(f, value, TRUE), Asked(p)' = Whole!NoChange,
         Held(f)' = Whole!Lost, OthersAsk(p), OthersHold(f), UNCHANGED theirs
  PROVE  Whole!Cut(p)
<1>1. Asked(p).made /\ Asked(p).file = f
  BY DEF Whole!Change
<1> QED
  BY <1>1 DEF Whole!Cut, Whole!Loses, OthersAsk, OthersHold

LEMMA WholeEdit ==
  ASSUME NEW f \in Files, Held(f)' \in Whole!Holdings, OthersHold(f),
         \A p \in Procs : Asked(p)' = Asked(p) /\ (Asked(p).made => Asked(p).file # f),
         theirs' = [theirs EXCEPT ![f] = Held(f)'.keys]
  PROVE  Whole!Edit(f)
  BY DEF Whole!Edit, OthersHold

----------------------------------------------------------------------------
(* The steps of Config.tla are steps of Settings.tla.                      *)

LEMMA OthersAskStep ==
  ASSUME NEW flags, TypesInv(flags), NEW p \in Procs,
         ConfigStep(p) \/ \E flag, domain : ReadGlobal(p, flag, domain)
  PROVE  OthersAsk(p)
<1>1. \A q \in Procs \ {p} : phase'[q] = phase[q] /\ job'[q] = job[q]
  BY StepFrame
<1> QED
  BY <1>1 DEF OthersAsk, Asked

\* The files say what they said if nobody begins or ends a write.
LEMMA HeldSame ==
  ASSUME DamageInv, DamageInv', UNCHANGED <<files, damaged>>,
         \A p \in Procs : phase[p] = "write" \/ phase'[p] = "write" =>
           phase'[p] = phase[p] /\ job'[p] = job[p] /\ map'[p] = map[p]
  PROVE  \A f \in Files : Held(f)' = Held(f)
<1> SUFFICES ASSUME NEW f \in Files PROVE Held(f)' = Held(f)
  OBVIOUS
<1>1. \A p \in Procs : /\ Writing(p, f)' <=> Writing(p, f)
                       /\ Writing(p, f) => map'[p] = map[p]
  BY DEF Writing
<1> QED
  BY <1>1, HeldFrame

\* A step of p on its file is none on the other.
LEMMA OthersHoldStep ==
  ASSUME NEW flags, TypesInv(flags), DamageInv, DamageInv', NEW p \in Procs,
         NEW f \in Files, f = job[p].file, job'[p].file = f \/ phase'[p] # "write",
         \A q \in Procs \ {p} : phase'[q] = phase[q] /\ job'[q] = job[q] /\ map'[q] = map[q],
         \A g \in Files \ {f} : files'[g] = files[g] /\ (g \in damaged' <=> g \in damaged)
  PROVE  OthersHold(f)
<1> SUFFICES ASSUME NEW g \in Files \ {f} PROVE Held(g)' = Held(g)
  BY DEF OthersHold
<1>1. \A q \in Procs : /\ Writing(q, g)' <=> Writing(q, g)
                       /\ Writing(q, g) => map'[q] = map[q]
  BY DEF Writing
<1> QED
  BY <1>1, HeldFrame

\* A step that leaves the files alone is none of a change, or its end.
LEMMA QuietAsks ==
  ASSUME NEW flags, TypesInv(flags), NEW p \in Procs, ConfigStep(p), Quiet(p)
  PROVE  \/ phase[p] \notin {"read", "truncate", "write"}
         \/ phase[p] \in {"read", "truncate"} /\ phase'[p] = "over"
<1>1. CASE ReadProject(p) \/ Settle(p) \/ TunnelOpen(p) \/ AnswerPrompt(p) \/ StartCommand(p)
  BY <1>1 DEF ReadProject, Settle, TunnelOpen, AnswerPrompt, StartCommand, Quiet
<1>2. CASE LeaveFile(p) \/ SetPanics(p) \/ KillProcess(p)
  <2>1. phase'[p] = "over"
    BY <1>2 DEF LeaveFile, SetPanics, KillProcess, Ends, TypesInv
  <2> QED
    BY <2>1 DEF Quiet
<1>3. CASE ReadForUpdate(p) \/ Truncate(p) \/ Write(p) \/ WriteFails(p)
  BY <1>3 DEF ReadForUpdate, Truncate, Write, WriteFails, CutShort, Quiet, TypesInv
<1> QED
  BY <1>1, <1>2, <1>3 DEF ConfigStep

LEMMA WholeQuiet ==
  ASSUME NEW flags, ConfigInv(flags), ConfigInv(flags)', NEW p \in Procs,
         ConfigStep(p), Quiet(p)
  PROVE  Whole!Ask(p) \/ Whole!Finish(p) \/ UNCHANGED Whole!svars
<1> USE DEF ConfigInv
<1>f. \A q \in Procs \ {p} : phase'[q] = phase[q] /\ job'[q] = job[q] /\ map'[q] = map[q]
  BY StepFrame
<1>a. OthersAsk(p)
  BY OthersAskStep
<1>h. \A f \in Files : Held(f)' = Held(f)
  <2>1. UNCHANGED <<files, damaged>>
    BY DEF Quiet, Disk
  <2>2. phase[p] # "write" /\ phase'[p] # "write"
    BY DEF Quiet
  <2> QED
    BY <2>1, <2>2, <1>f, HeldSame
<1>k. UNCHANGED theirs
  BY DEF Quiet, Disk
<1>j. job[p] \in Jobs(flags) /\ job'[p] \in Jobs(flags)
  BY DEF TypesInv
<1>1. CASE phase[p] \notin {"read", "truncate", "write"} /\ phase'[p] = "read"
  <2>1. Asked(p) = Whole!NoChange
    BY <1>1, AskedCases
  <2>2. Asked(p)' = Whole!Change(job'[p].file, job'[p].value, FALSE)
    BY <1>1 DEF Asked, Whole!Change
  <2>3. job'[p].file \in Files /\ job'[p].value \in Values
    BY <1>j DEF Jobs
  <2> QED
    BY <2>1, <2>2, <2>3, <1>a, <1>h, <1>k, WholeAsk
<1>2. CASE phase[p] \notin {"read", "truncate", "write"} /\ phase'[p] # "read"
  <2>1. Asked(p) = Whole!NoChange /\ Asked(p)' = Whole!NoChange
    BY <1>2, AskedCases, AskedCasesNext DEF Quiet
  <2> QED
    BY <2>1, <1>a, <1>h, <1>k, WholeStutter DEF OthersAsk
<1>3. CASE phase[p] \in {"read", "truncate"} /\ phase'[p] = "over"
  <2>1. Asked(p)' = Whole!NoChange
    BY <1>3, AskedCasesNext
  <2>2. Asked(p) = Whole!Change(job[p].file, job[p].value, FALSE)
    BY <1>3 DEF Asked, Whole!Change
  <2>3. job[p].file \in Files
    BY <1>j DEF Jobs
  <2> QED
    BY <2>1, <2>2, <2>3, <1>a, <1>h, <1>k, WholeRefuse
<1> QED
  BY <1>1, <1>2, <1>3, QuietAsks

\* The read of the file goes unseen, and the truncation is the moment of the change.
LEMMA WholeTruncate ==
  ASSUME NEW flags, ConfigInv(flags), ConfigInv(flags)', NEW p \in Procs,
         ConfigStep(p), Truncate(p)
  PROVE  Whole!Make(p)
<1> USE DEF ConfigInv
<1>f. \A q \in Procs \ {p} : phase'[q] = phase[q] /\ job'[q] = job[q] /\ map'[q] = map[q]
  BY StepFrame
<1>t. PICK f \in Files : f = job[p].file
  BY DEF TypesInv, Jobs
<1>1. /\ phase[p] = "truncate" /\ phase'[p] = "write" /\ UNCHANGED <<job, map, theirs>>
      /\ files' = [files EXCEPT ![f] = Blank]
      /\ damaged' = IF Contended(p) THEN damaged \cup {f} ELSE damaged \ {f}
  BY <1>t DEF Truncate, TypesInv
<1>2. OthersHold(f)
  <2>1. \A g \in Files \ {f} : files'[g] = files[g] /\ (g \in damaged' <=> g \in damaged)
    BY <1>1 DEF TypesInv
  <2> QED
    BY <2>1, <1>1, <1>f, <1>t, OthersHoldStep
<1>3. HasKeys(p)
  BY <1>1 DEF KeepInv
<1>4. /\ Asked(p).file = f /\ Asked(p).value = job[p].value /\ ~Asked(p).made
      /\ Asked(p) # Whole!NoChange
  <2>1. Asked(p) = Whole!Change(f, job[p].value, FALSE)
    BY <1>1, <1>t DEF Asked, Whole!Change
  <2> QED
    BY <2>1, <1>1, <1>t, AskedFields, SomeChange
<1>5. Asked(p)' = Whole!Change(f, job[p].value, TRUE)
  BY <1>1, <1>t DEF Asked, Whole!Change
<1>6. job[p].value \in Writable
  BY <1>3 DEF HasKeys, Writable
<1>7. HeldIs(f)'
  BY HeldCasesNext
<1>8. Whole!Meets(p) => Held(f)' = Whole!Lost
  <2>1. Whole!Meets(p) => f \in damaged'
    BY <1>1, MeetsContended
  <2> QED
    BY <2>1, <1>7 DEF HeldIs, Whole!Lost, Whole!Holding
<1>9. ~Whole!Meets(p) => Held(f)' = Whole!Holding(job[p].value, theirs[f])
  <2>1. ~Whole!Meets(p) => f \notin damaged'
    BY <1>1, MeetsContended
  <2>2. Writing(p, f)'
    BY <1>1, <1>t DEF Writing
  <2>3. map'[p].transport = job[p].value /\ map'[p].others = theirs[f]
    BY <1>1, <1>3, <1>t DEF HasKeys
  <2> QED
    BY <2>1, <2>2, <2>3, <1>7 DEF HeldIs, Whole!Holding
<1>a. OthersAsk(p)
  BY OthersAskStep
<1> QED
  BY <1>1, <1>2, <1>4, <1>5, <1>6, <1>8, <1>9, <1>a, WholeMake

\* A write ends the change; with another writer about, the file is lost.
LEMMA WholeWrite ==
  ASSUME NEW flags, ConfigInv(flags), ConfigInv(flags)', NEW p \in Procs,
         ConfigStep(p), Write(p)
  PROVE  Whole!Finish(p)
<1> USE DEF ConfigInv
<1>f. \A q \in Procs \ {p} : phase'[q] = phase[q] /\ job'[q] = job[q] /\ map'[q] = map[q]
  BY StepFrame
<1>t. PICK f \in Files : f = job[p].file
  BY DEF TypesInv, Jobs
<1>1. PICK new \in Overlay(files[f], map[p]) :
        /\ files' = [files EXCEPT ![f] = new]
        /\ damaged' = IF Contended(p) THEN damaged \cup {f} ELSE damaged
  BY <1>t DEF Write
<1>2. phase[p] = "write" /\ phase'[p] = "over" /\ UNCHANGED theirs
  BY DEF Write, Ends, TypesInv
<1>3. OthersHold(f)
  <2>1. \A g \in Files \ {f} : files'[g] = files[g] /\ (g \in damaged' <=> g \in damaged)
    BY <1>1 DEF TypesInv
  <2> QED
    BY <2>1, <1>2, <1>f, <1>t, OthersHoldStep
<1>4. Asked(p) = Whole!Change(f, job[p].value, TRUE) /\ Asked(p)' = Whole!NoChange
  <2>1. Asked(p) = Whole!Change(f, job[p].value, TRUE)
    BY <1>2, <1>t DEF Asked, Whole!Change
  <2> QED
    BY <2>1, <1>2, AskedCasesNext
<1>5. HeldIs(f) /\ HeldIs(f)'
  BY HeldCases, HeldCasesNext
<1>6. f \in damaged' => Held(f)' = Whole!Lost
  BY <1>5 DEF HeldIs, Whole!Lost, Whole!Holding
<1>7. Whole!Meets(p) <=> Contended(p)
  BY <1>2, MeetsContended
<1>8. Whole!Meets(p) => Held(f)' = Whole!Lost
  BY <1>1, <1>6, <1>7
<1>9. ~Whole!Meets(p) => Held(f)' = Held(f)
  <2> SUFFICES ASSUME ~Contended(p) PROVE Held(f)' = Held(f)
    BY <1>7
  <2>1. CASE f \in damaged
    BY <2>1, <1>1, <1>5 DEF HeldIs, Whole!Lost, Whole!Holding
  <2>2. CASE f \notin damaged
    <3>1. files[f] = Blank
      BY <2>2, <1>2, <1>t DEF DamageInv, Writing
    <3>2. new = map[p]
      <4>1. Blank.kind = "blank" /\ Blank # Broken
        BY DEF Blank, Broken, Content
      <4> QED
        BY <1>1, <3>1, <4>1 DEF Overlay
    <3>3. files'[f] = map[p] /\ f \notin damaged'
      BY <1>1, <2>2, <3>2 DEF TypesInv
    <3>4. \A q \in Procs : ~Writing(q, f)'
      BY <1>2, <1>f, <1>t DEF Contended, Writing
    <3>5. Held(f)' = Whole!Holding(map[p].transport, map[p].others)
      BY <1>5, <3>3, <3>4 DEF HeldIs, Whole!Holding
    <3>6. Held(f) = Whole!Holding(map[p].transport, map[p].others)
      BY <1>5, <2>2, <1>2, <1>t DEF HeldIs, Writing
    <3> QED
      BY <3>5, <3>6
  <2> QED
    BY <2>1, <2>2
<1>a. OthersAsk(p)
  BY OthersAskStep
<1> QED
  BY <1>2, <1>3, <1>4, <1>8, <1>9, <1>a, WholeFinish

\* A change that is cut short loses the file.
LEMMA WholeCutShort ==
  ASSUME NEW flags, ConfigInv(flags), ConfigInv(flags)', NEW p \in Procs,
         ConfigStep(p), CutShort(p), Ends(p)
  PROVE  Whole!Cut(p)
<1> USE DEF ConfigInv
<1>f. \A q \in Procs \ {p} : phase'[q] = phase[q] /\ job'[q] = job[q] /\ map'[q] = map[q]
  BY StepFrame
<1>t. PICK f \in Files : f = job[p].file
  BY DEF TypesInv, Jobs
<1>1. /\ phase[p] = "write" /\ phase'[p] = "over" /\ UNCHANGED theirs
      /\ files' \in {files, [files EXCEPT ![f] = Broken]}
      /\ damaged' = damaged \cup {f}
  BY <1>t DEF CutShort, Ends, TypesInv
<1>2. OthersHold(f)
  <2>1. \A g \in Files \ {f} : files'[g] = files[g] /\ (g \in damaged' <=> g \in damaged)
    BY <1>1 DEF TypesInv
  <2> QED
    BY <2>1, <1>1, <1>f, <1>t, OthersHoldStep
<1>3. Asked(p) = Whole!Change(f, job[p].value, TRUE)
  BY <1>1, <1>t DEF Asked, Whole!Change
<1>4. Asked(p)' = Whole!NoChange
  BY <1>1, AskedCasesNext
<1>5. Held(f)' = Whole!Lost
  <2>1. HeldIs(f)'
    BY HeldCasesNext
  <2> QED
    BY <2>1, <1>1 DEF HeldIs, Whole!Lost, Whole!Holding
<1>a. OthersAsk(p)
  BY OthersAskStep
<1> QED
  BY <1>1, <1>2, <1>3, <1>4, <1>5, <1>a, WholeCut

LEMMA WholeRead ==
  ASSUME NEW flags, ConfigInv(flags), ConfigInv(flags)', NEW p \in Procs,
         \/ ReadForUpdate(p) /\ ConfigStep(p)
         \/ \E flag, domain : ReadGlobal(p, flag, domain)
  PROVE  UNCHANGED Whole!svars
<1> USE DEF ConfigInv
<1>f. \A q \in Procs \ {p} : phase'[q] = phase[q] /\ job'[q] = job[q] /\ map'[q] = map[q]
  BY StepFrame
<1>1. /\ UNCHANGED <<files, damaged, theirs>>
      /\ \/ phase[p] = "read" /\ phase'[p] = "truncate" /\ UNCHANGED job
         \/ phase[p] = "idle" /\ phase'[p] = "project"
  BY DEF ReadForUpdate, ReadGlobal, Disk, TypesInv
<1>2. \A f \in Files : Held(f)' = Held(f)
  BY <1>1, <1>f, HeldSame
<1>3. Asked(p)' = Asked(p)
  BY <1>1 DEF Asked
<1>4. OthersAsk(p)
  BY OthersAskStep
<1> QED
  BY <1>1, <1>2, <1>3, <1>4, WholeStutter DEF OthersAsk

\* Every step of a process is one of Settings.tla, or goes unseen.
LEMMA WholeStep ==
  ASSUME NEW flags, ConfigInv(flags), ConfigInv(flags)', NEW p \in Procs, ConfigStep(p)
  PROVE  [Whole!SettingsNext]_(Whole!svars)
<1>1. \/ Whole!Ask(p) \/ Whole!Make(p) \/ Whole!Finish(p) \/ Whole!Cut(p)
      \/ UNCHANGED Whole!svars
  BY StepCases, WholeQuiet, WholeRead, WholeTruncate, WholeWrite, WholeCutShort DEF ConfigInv
<1> QED
  BY <1>1 DEF Whole!SettingsNext

\* What a content says is something a file may hold.
LEMMA SaidByContent ==
  ASSUME NEW c \in Contents
  PROVE  Whole!Holding(c.transport, c.others) \in Whole!Holdings
<1>1. c.transport \in Values /\ c.others \in BOOLEAN
  BY ContentFields
<1> QED
  BY <1>1 DEF Whole!Holdings, Whole!Holding

\* A file that cannot be read says nothing and has no keys.
LEMMA UnreadableHasNone ==
  ASSUME NEW c \in Contents, ~Readable(c)
  PROVE  c.others = FALSE
  BY ContentFields DEF Readable

\* What the user writes is an edit of the one file.
LEMMA WholeUser ==
  ASSUME NEW flags, ConfigInv(flags), ConfigInv(flags)', NEW f \in Files, UserWrites(f)
  PROVE  Whole!Edit(f)
<1> USE DEF ConfigInv
<1>1. PICK new \in Contents :
        /\ files' = [files EXCEPT ![f] = new]
        /\ theirs' = [theirs EXCEPT ![f] = new.others]
        /\ damaged' = IF Readable(new) THEN damaged \ {f} ELSE damaged \cup {f}
  BY ConfigAssumption DEF UserWrites
<1>2. /\ \A p \in Procs : phase[p] \in {"truncate", "write"} => job[p].file # f
      /\ UNCHANGED <<phase, job, map>>
  BY DEF UserWrites
<1>3. HeldIs(f)' /\ files'[f] = new
  BY <1>1, HeldCasesNext DEF TypesInv
<1>4. Held(f)' \in Whole!Holdings /\ Held(f)'.keys = new.others
  <2>1. CASE Readable(new)
    <3>1. f \notin damaged' /\ \A p \in Procs : ~Writing(p, f)'
      BY <1>1, <1>2, <2>1 DEF Writing
    <3>2. Held(f)' = Whole!Holding(new.transport, new.others)
      BY <1>3, <3>1 DEF HeldIs, Whole!Holding
    <3>3. Held(f)' \in Whole!Holdings
      BY <3>2, SaidByContent
    <3>4. Held(f)'.keys = new.others
      BY <3>2 DEF Whole!Holding
    <3> QED
      BY <3>3, <3>4
  <2>2. CASE ~Readable(new)
    <3>1. Held(f)' = Whole!Lost
      BY <1>1, <1>3, <2>2 DEF HeldIs, Whole!Lost, Whole!Holding
    <3>2. Whole!Lost \in Whole!Holdings /\ Whole!Lost.keys = FALSE
      BY DEF Whole!Holdings, Whole!Lost, Whole!Holding
    <3> QED
      BY <2>2, <3>1, <3>2, UnreadableHasNone
  <2> QED
    BY <2>1, <2>2
<1>5. theirs' = [theirs EXCEPT ![f] = Held(f)'.keys]
  BY <1>1, <1>4
<1>6. \A p \in Procs : Asked(p)' = Asked(p)
  BY <1>2 DEF Asked
<1>7. ASSUME NEW p \in Procs, Asked(p).made
      PROVE  Asked(p).file # f
  <2>1. phase[p] = "write" /\ Asked(p).file = job[p].file
    BY <1>7 DEF Asked
  <2> QED
    BY <2>1, <1>2
<1>8. OthersHold(f)
  <2> SUFFICES ASSUME NEW g \in Files \ {f} PROVE Held(g)' = Held(g)
    BY DEF OthersHold
  <2>1. files'[g] = files[g] /\ (g \in damaged' <=> g \in damaged)
    BY <1>1 DEF TypesInv
  <2>2. \A p \in Procs : /\ Writing(p, g)' <=> Writing(p, g)
                         /\ Writing(p, g) => map'[p] = map[p]
    BY <1>2 DEF Writing
  <2> QED
    BY <2>1, <2>2, HeldFrame
<1> QED
  BY <1>4, <1>5, <1>6, <1>7, <1>8, WholeEdit

LEMMA WholeInit ==
  ASSUME ConfigInit
  PROVE  Whole!SettingsInit
<1>1. DamageInv
  BY ConfigInitInv DEF ConfigInv
<1>2. ASSUME NEW f \in Files
      PROVE  Held(f) \in Whole!Holdings /\ theirs[f] = Held(f).keys
  <2>1. /\ files[f] \in Contents /\ theirs[f] = files[f].others
        /\ f \in damaged <=> ~Readable(files[f])
        /\ \A p \in Procs : ~Writing(p, f)
    BY ConfigAssumption DEF ConfigInit, Writing
  <2>2. HeldIs(f)
    BY <1>1, HeldCases
  <2>3. CASE Readable(files[f])
    <3>1. Held(f) = Whole!Holding(files[f].transport, files[f].others)
      BY <2>1, <2>2, <2>3 DEF HeldIs, Whole!Holding
    <3>2. Held(f).keys = files[f].others
      BY <3>1 DEF Whole!Holding
    <3> QED
      BY <2>1, <3>1, <3>2, SaidByContent
  <2>4. CASE ~Readable(files[f])
    <3>1. Held(f) = Whole!Lost
      BY <2>1, <2>2, <2>4 DEF HeldIs, Whole!Lost, Whole!Holding
    <3>2. Whole!Lost \in Whole!Holdings /\ Whole!Lost.keys = FALSE
      BY DEF Whole!Holdings, Whole!Lost, Whole!Holding
    <3> QED
      BY <2>1, <2>4, <3>1, <3>2, UnreadableHasNone
  <2> QED
    BY <2>3, <2>4
<1>3. theirs = [f \in Files |-> Held(f).keys]
  BY <1>2 DEF ConfigInit
<1>4. \A p \in Procs : Asked(p) = Whole!NoChange
  BY AskedCases DEF ConfigInit
<1> QED
  BY <1>2, <1>3, <1>4 DEF Whole!SettingsInit
============================================================================
