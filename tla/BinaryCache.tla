---------------------------- MODULE BinaryCache ----------------------------
(***************************************************************************)
(* How "php artisan share" comes by the binary: ShareCommand.php and       *)
(* BinaryLocator.php of src/packages/laravel/src, up to the launch.        *)
(*                                                                         *)
(* A download goes to one .partial file that all processes share, and is   *)
(* renamed over the cached binary.  A file is known by the process that    *)
(* created it, for it keeps its identity, and its writers, when renamed.   *)
(***************************************************************************)
EXTENDS Naturals, Processes

CONSTANTS
  Chunks,     \* how many pieces the binary is copied in
  NoFile      \* there is no such file

ASSUME CacheAssumption ==
  /\ Chunks \in Nat \ {0}
  /\ NoFile \notin Procs

VARIABLES
  cache,        \* the file at cachePath()
  partial,      \* the file at cachePath().partial
  data,         \* the pieces a file holds
  executable,   \* the files with mode 0755
  at,           \* what a process does next
  handle,       \* the file it has opened for writing
  copied,       \* how many pieces it has written to it
  cut,          \* history: files whose download ended before all of it had come
  shared        \* history: files two processes were downloading to at once

bvars == <<cache, partial, data, executable, at, handle, copied, cut, shared>>
fileVars == <<cache, partial, data, executable>>

CacheInit ==
  /\ cache = NoFile /\ partial = NoFile
  /\ data = [p \in Procs |-> {}]
  /\ executable = {}
  /\ at = [p \in Procs |-> "idle"]
  /\ handle = [p \in Procs |-> NoFile]
  /\ copied = [p \in Procs |-> 0]
  /\ cut = {} /\ shared = {}

Becomes(p, from, to) == at[p] = from /\ at' = [at EXCEPT ![p] = to]

\* The locator returns, or throws: the file is closed.
Leaves(p, to) ==
  /\ at' = [at EXCEPT ![p] = to]
  /\ handle' = [handle EXCEPT ![p] = NoFile]
  /\ copied' = [copied EXCEPT ![p] = 0]

\* Inside a container without --force, or $LOCALHOIST_BINARY is no executable.
Refuse(p) ==
  /\ Becomes(p, "idle", "failed")
  /\ UNCHANGED <<fileVars, handle, copied, cut, shared>>

\* --binary, $LOCALHOIST_BINARY or the PATH names one.
FindOwn(p) ==
  /\ Becomes(p, "idle", "launched")
  /\ UNCHANGED <<fileVars, handle, copied, cut, shared>>

Cached == cache # NoFile /\ cache \in executable

FindCached(p) ==
  /\ Becomes(p, "idle", "launched")
  /\ Cached
  /\ UNCHANGED <<fileVars, handle, copied, cut, shared>>

FindNothing(p) ==
  /\ Becomes(p, "idle", "open")
  /\ ~Cached
  /\ UNCHANGED <<fileVars, handle, copied, cut, shared>>

\* The URL cannot be opened, the .partial file cannot be, or the copy fails.
DownloadFails(p) ==
  /\ at[p] \in {"open", "copy"}
  /\ Leaves(p, "failed")
  /\ UNCHANGED <<fileVars, cut, shared>>

\* p creates or truncates the file, which another process may be downloading to.
OpenedAs(p, file) ==
  LET others == {q \in Procs \ {p} : handle[q] = file}
  IN /\ data' = [data EXCEPT ![file] = {}]
     /\ handle' = [handle EXCEPT ![p] = file]
     /\ cut' = cut \ {file}
     /\ shared' = IF others = {} THEN shared \ {file} ELSE shared \cup {file}

\* Bug: the download goes straight to the cached binary.
OpenInPlace(p) ==
  /\ Becomes(p, "open", "copy")
  /\ LET file == IF cache = NoFile THEN p ELSE cache
     IN /\ cache' = file
        /\ partial' = file
        /\ executable' = executable \cup {file}
        /\ OpenedAs(p, file)
  /\ UNCHANGED copied

\* fopen with "wb" creates the .partial file, or truncates the one that is there.
OpenPartial(p) ==
  /\ Becomes(p, "open", "copy")
  /\ LET file == IF partial = NoFile THEN p ELSE partial
     IN partial' = file /\ OpenedAs(p, file)
  /\ UNCHANGED <<cache, executable, copied>>

\* Bug: one piece too many.
CopyPast(p) ==
  /\ at[p] = "copy"
  /\ copied[p] <= Chunks
  /\ copied' = [copied EXCEPT ![p] = @ + 1]
  /\ data' = [data EXCEPT ![handle[p]] = @ \cup {copied[p] + 1}]
  /\ UNCHANGED <<cache, partial, executable, at, handle, cut, shared>>

CopyChunk(p) ==
  /\ at[p] = "copy"
  /\ copied[p] < Chunks
  /\ copied' = [copied EXCEPT ![p] = @ + 1]
  /\ data' = [data EXCEPT ![handle[p]] = @ \cup {copied[p] + 1}]
  /\ UNCHANGED <<cache, partial, executable, at, handle, cut, shared>>

\* The stream ends, and nobody asks whether all of it has come.
CopyEnds(p) ==
  /\ Becomes(p, "copy", "chmod")
  /\ cut' = IF copied[p] < Chunks THEN cut \cup {handle[p]} ELSE cut
  /\ UNCHANGED <<fileVars, handle, copied, shared>>

\* chmod and rename work on the path; a warning, when there is no such file, is
\* an exception in Laravel.
Chmod(p) ==
  /\ at[p] = "chmod"
  /\ IF partial = NoFile
     THEN Leaves(p, "failed") /\ UNCHANGED executable
     ELSE /\ Becomes(p, "chmod", "rename")
          /\ executable' = executable \cup {partial}
          /\ UNCHANGED <<handle, copied>>
  /\ UNCHANGED <<cache, partial, data, cut, shared>>

Rename(p) ==
  /\ at[p] = "rename"
  /\ Leaves(p, IF partial = NoFile THEN "failed" ELSE "launched")
  /\ cache' = IF partial = NoFile THEN cache ELSE partial
  /\ partial' = NoFile
  /\ shared' = shared \cup ({partial} \ {NoFile, handle[p]})
  /\ UNCHANGED <<data, executable, cut>>

KillDownload(p) ==
  /\ at[p] \in {"open", "copy", "chmod", "rename"}
  /\ Leaves(p, "failed")
  /\ UNCHANGED <<fileVars, cut, shared>>

CacheStep(p) ==
  \/ Refuse(p) \/ FindOwn(p) \/ FindCached(p) \/ FindNothing(p) \/ DownloadFails(p)
  \/ OpenPartial(p) \/ CopyChunk(p) \/ CopyEnds(p) \/ Chmod(p) \/ Rename(p)
  \/ KillDownload(p)

----------------------------------------------------------------------------

CacheTypeOK ==
  /\ {cache, partial} \subseteq Procs \cup {NoFile}
  /\ data \in [Procs -> SUBSET (1 .. Chunks)]
  /\ executable \cup cut \cup shared \subseteq Procs
  /\ handle \in [Procs -> Procs \cup {NoFile}]
  /\ copied \in [Procs -> 0 .. Chunks]
  /\ \A p \in Procs : at[p] = "copy" => handle[p] # NoFile

\* The binary every later "artisan share" executes is whole, whoever was killed
\* while downloading it (BinaryLocator.php:92-110); unless the stream of that very
\* file ended early, or two processes had it at once.
CachedWhole == Cached => data[cache] = 1 .. Chunks \/ cache \in cut \cup shared
============================================================================
