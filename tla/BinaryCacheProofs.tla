------------------------- MODULE BinaryCacheProofs -------------------------
(***************************************************************************)
(* The download of the binary, for any number of processes and of pieces:  *)
(* what each step of BinaryCache.tla keeps.  StartupProofs.tla lifts it to *)
(* whole runs.                                                             *)
(***************************************************************************)
EXTENDS BinaryCache, TLAPS

Downloading == {"copy", "chmod", "rename"}

\* Where a process is, and which file it has open.
HandleInv ==
  /\ at \in [Procs -> {"idle", "open", "failed", "launched"} \cup Downloading]
  /\ \A p \in Procs :
       /\ handle[p] # NoFile <=> at[p] \in Downloading
       /\ handle[p] = NoFile => copied[p] = 0

\* The file a process is still to create is not there: nothing has its name and
\* nobody has it open.
FreshInv ==
  \A p \in Procs : at[p] \in {"idle", "open"} =>
    /\ p \notin {cache, partial}
    /\ \A q \in Procs : handle[q] # p

\* A file not shared has one writer, and holds what that one has copied; all of
\* it, once the copy is over and was not cut.
WriterInv ==
  \A p \in Procs : handle[p] # NoFile /\ handle[p] \notin shared =>
    /\ \A q \in Procs : handle[q] = handle[p] => q = p
    /\ data[handle[p]] = 1 .. copied[p]
    /\ at[p] # "copy" /\ handle[p] \notin cut => copied[p] = Chunks

\* The cached binary is no longer the .partial file, and it is whole.
CachedInv ==
  cache # NoFile =>
    /\ cache # partial
    /\ data[cache] = 1 .. Chunks \/ cache \in cut \cup shared

CacheInv == CacheTypeOK /\ HandleInv /\ FreshInv /\ WriterInv /\ CachedInv

LEMMA CacheInitInv == CacheInit => CacheInv
<1> USE CacheAssumption DEF CacheInit
<1>1. CacheInit => CacheTypeOK
  BY DEF CacheTypeOK
<1>2. CacheInit => HandleInv /\ FreshInv /\ WriterInv /\ CachedInv
  BY DEF HandleInv, FreshInv, WriterInv, CachedInv, Downloading
<1> QED
  BY <1>1, <1>2 DEF CacheInv

\* A process that does not touch the files.
LEMMA QuietStep ==
  ASSUME CacheInv, NEW p \in Procs, at[p] \in {"idle", "open", "failed", "launched"},
         NEW to \in {"idle", "open", "failed", "launched"},
         to \in {"idle", "open"} => at[p] \in {"idle", "open"},
         at' = [at EXCEPT ![p] = to],
         UNCHANGED <<fileVars, handle, copied, cut, shared>>
  PROVE  CacheInv'
<1> USE CacheAssumption DEF CacheInv, fileVars
<1>1. CacheTypeOK'
  BY DEF CacheTypeOK, HandleInv
<1>2. HandleInv'
  BY DEF HandleInv, Downloading
<1>3. FreshInv'
  BY DEF FreshInv, HandleInv
<1>4. WriterInv' /\ CachedInv'
  BY DEF WriterInv, CachedInv, HandleInv, Downloading
<1> QED
  BY <1>1, <1>2, <1>3, <1>4

\* The download fails, or its process is killed: the file stays as it is.
LEMMA LeaveStep ==
  ASSUME CacheInv, NEW p \in Procs, Leaves(p, "failed"),
         UNCHANGED <<fileVars, cut, shared>>
  PROVE  CacheInv'
<1> USE CacheAssumption DEF CacheInv, fileVars, Leaves
<1>1. CacheTypeOK'
  BY DEF CacheTypeOK, HandleInv
<1>2. HandleInv'
  BY DEF HandleInv, Downloading, CacheTypeOK
<1>3. FreshInv'
  BY DEF FreshInv, HandleInv, CacheTypeOK
<1>4. WriterInv' /\ CachedInv'
  BY DEF WriterInv, CachedInv, HandleInv, Downloading, CacheTypeOK
<1> QED
  BY <1>1, <1>2, <1>3, <1>4

LEMMA OpenStep ==
  ASSUME CacheInv, NEW p \in Procs, OpenPartial(p)
  PROVE  CacheInv'
<1> USE CacheAssumption DEF CacheInv, OpenPartial, Becomes
<1> DEFINE file == IF partial = NoFile THEN p ELSE partial
           others == {q \in Procs \ {p} : handle[q] = file}
<1>f. /\ file \in Procs /\ file # NoFile /\ file # cache /\ partial' = file
      /\ partial \in {NoFile, file}
  BY DEF CacheTypeOK, FreshInv, CachedInv
<1>o. /\ data' = [data EXCEPT ![file] = {}]
      /\ handle' = [handle EXCEPT ![p] = file]
      /\ cut' = cut \ {file}
      /\ shared' = IF others = {} THEN shared \ {file} ELSE shared \cup {file}
      /\ UNCHANGED <<cache, executable, copied>>
      /\ at[p] = "open" /\ at' = [at EXCEPT ![p] = "copy"]
  BY DEF OpenedAs
<1>h. handle[p] = NoFile /\ copied[p] = 0
  BY <1>o DEF HandleInv, Downloading
<1> HIDE DEF file, OpenPartial
<1>1. CacheTypeOK'
  BY <1>f, <1>o DEF CacheTypeOK, HandleInv
<1>2. HandleInv'
  BY <1>f, <1>o, <1>h DEF HandleInv, Downloading, CacheTypeOK
<1>3. FreshInv'
  BY <1>f, <1>o DEF FreshInv, HandleInv, CacheTypeOK, file
<1>4. WriterInv'
  BY <1>f, <1>o, <1>h DEF WriterInv, HandleInv, Downloading, CacheTypeOK
<1>5. CachedInv'
  BY <1>f, <1>o DEF CachedInv, CacheTypeOK
<1> QED
  BY <1>1, <1>2, <1>3, <1>4, <1>5

LEMMA CopyStep ==
  ASSUME CacheInv, NEW p \in Procs, CopyChunk(p)
  PROVE  CacheInv'
<1> USE CacheAssumption DEF CacheInv
<1>c. /\ at[p] = "copy" /\ copied[p] \in 0 .. Chunks /\ copied[p] < Chunks
      /\ handle[p] \in Procs
      /\ copied' = [copied EXCEPT ![p] = copied[p] + 1]
      /\ data' = [data EXCEPT ![handle[p]] = data[handle[p]] \cup {copied[p] + 1}]
      /\ UNCHANGED <<cache, partial, executable, at, handle, cut, shared>>
  BY DEF CopyChunk, CacheTypeOK
<1>1. CacheTypeOK'
  BY <1>c DEF CacheTypeOK
<1>2. HandleInv'
  BY <1>c DEF HandleInv, CacheTypeOK
<1>3. FreshInv'
  BY <1>c DEF FreshInv
<1>4. WriterInv'
  <2> SUFFICES ASSUME NEW q \in Procs, handle[q] # NoFile, handle[q] \notin shared
               PROVE  /\ \A r \in Procs : handle[r] = handle[q] => r = q
                      /\ data'[handle[q]] = 1 .. copied'[q]
                      /\ at[q] # "copy" /\ handle[q] \notin cut => copied'[q] = Chunks
    BY <1>c DEF WriterInv
  <2>1. CASE q = p
    <3>1. data[handle[p]] = 1 .. copied[p]
      BY <2>1 DEF WriterInv
    <3>2. data'[handle[p]] = (1 .. copied[p]) \cup {copied[p] + 1}
      BY <1>c, <3>1 DEF CacheTypeOK
    <3>3. (1 .. copied[p]) \cup {copied[p] + 1} = 1 .. copied[p] + 1
      BY <1>c
    <3>4. copied'[p] = copied[p] + 1
      BY <1>c DEF CacheTypeOK
    <3> QED
      BY <2>1, <1>c, <3>2, <3>3, <3>4 DEF WriterInv
  <2>2. CASE q # p
    <3>1. handle[q] # handle[p]
      BY <2>2 DEF WriterInv
    <3>2. data'[handle[q]] = data[handle[q]] /\ copied'[q] = copied[q]
      BY <1>c, <2>2, <3>1 DEF CacheTypeOK
    <3> QED
      BY <3>2 DEF WriterInv
  <2> QED
    BY <2>1, <2>2
<1>5. CachedInv'
  BY <1>c DEF CachedInv, WriterInv, CacheTypeOK
<1> QED
  BY <1>1, <1>2, <1>3, <1>4, <1>5

LEMMA CopyEndsStep ==
  ASSUME CacheInv, NEW p \in Procs, CopyEnds(p)
  PROVE  CacheInv'
<1> USE CacheAssumption DEF CacheInv, CopyEnds, Becomes, fileVars
<1>1. CacheTypeOK'
  BY DEF CacheTypeOK, HandleInv
<1>2. HandleInv'
  BY DEF HandleInv, Downloading
<1>3. FreshInv'
  BY DEF FreshInv, HandleInv
<1>4. WriterInv'
  BY DEF WriterInv, HandleInv, CacheTypeOK
<1>5. CachedInv'
  BY DEF CachedInv
<1> QED
  BY <1>1, <1>2, <1>3, <1>4, <1>5

LEMMA ChmodStep ==
  ASSUME CacheInv, NEW p \in Procs, Chmod(p)
  PROVE  CacheInv'
<1> USE CacheAssumption
<1>1. CASE partial = NoFile
  BY <1>1, LeaveStep DEF Chmod, fileVars
<1>2. CASE partial # NoFile
  <2> USE DEF CacheInv, Chmod, Becomes
  <2>1. CacheTypeOK'
    BY <1>2 DEF CacheTypeOK, HandleInv
  <2>2. HandleInv'
    BY <1>2 DEF HandleInv, Downloading
  <2>3. FreshInv'
    BY <1>2 DEF FreshInv, HandleInv
  <2>4. WriterInv' /\ CachedInv'
    BY <1>2 DEF WriterInv, CachedInv, HandleInv
  <2> QED
    BY <2>1, <2>2, <2>3, <2>4
<1> QED
  BY <1>1, <1>2

\* What is renamed over the cached binary is the file of the process that renames
\* it, or one that is shared from now on.
LEMMA RenameStep ==
  ASSUME CacheInv, NEW p \in Procs, Rename(p)
  PROVE  CacheInv'
<1> USE CacheAssumption DEF CacheInv
<1>1. CASE partial = NoFile
  BY <1>1, LeaveStep DEF Rename, fileVars
<1>2. CASE partial # NoFile
  <2>r. /\ at[p] = "rename" /\ Leaves(p, "launched")
        /\ cache' = partial /\ partial' = NoFile
        /\ shared' = shared \cup ({partial} \ {handle[p]})
        /\ UNCHANGED <<data, executable, cut>>
    BY <1>2 DEF Rename
  <2>1. CacheTypeOK'
    BY <2>r, <1>2 DEF CacheTypeOK, Leaves, HandleInv
  <2>2. HandleInv'
    BY <2>r DEF HandleInv, Downloading, Leaves, CacheTypeOK
  <2>3. FreshInv'
    BY <2>r, <1>2 DEF FreshInv, HandleInv, Leaves, CacheTypeOK
  <2>4. WriterInv'
    BY <2>r DEF WriterInv, HandleInv, Leaves, CacheTypeOK
  <2>5. CachedInv'
    BY <2>r, <1>2 DEF CachedInv, WriterInv, HandleInv, Downloading
  <2> QED
    BY <2>1, <2>2, <2>3, <2>4, <2>5
<1> QED
  BY <1>1, <1>2

LEMMA CacheStepInv ==
  ASSUME CacheInv, NEW p \in Procs, CacheStep(p)
  PROVE  CacheInv'
<1>1. CASE Refuse(p) \/ FindOwn(p) \/ FindCached(p) \/ FindNothing(p)
  BY <1>1, QuietStep DEF Refuse, FindOwn, FindCached, FindNothing, Becomes
<1>2. CASE DownloadFails(p) \/ KillDownload(p)
  BY <1>2, LeaveStep DEF DownloadFails, KillDownload
<1> QED
  BY <1>1, <1>2, OpenStep, CopyStep, CopyEndsStep, ChmodStep, RenameStep DEF CacheStep

LEMMA CacheStutter == CacheInv /\ UNCHANGED bvars => CacheInv'
  BY DEF CacheInv, CacheTypeOK, HandleInv, FreshInv, WriterInv, CachedInv, Downloading, bvars

\* A whole binary, or one whose download is known to have gone wrong: what the
\* invariant says of the cache is what later commands rely on.
LEMMA CacheInvWhole == CacheInv => CacheTypeOK /\ CachedWhole
  BY DEF CacheInv, CachedInv, CachedWhole, Cached
============================================================================
