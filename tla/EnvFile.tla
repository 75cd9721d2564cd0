------------------------------ MODULE EnvFile ------------------------------
(***************************************************************************)
(* The pure operations of src/internal/envfile/envfile.go on a dotenv file. *)
(*                                                                         *)
(* A file is its lines and whether its last byte is a newline.  A line is  *)
(* the key it assigns and the raw text after the '='.  Every line that     *)
(* assigns no key (a comment, a blank line, an indented or exported        *)
(* assignment) has a key that the program never asks for.  Raw text is the *)
(* value it denotes and whether that value stands in quotes.               *)
(***************************************************************************)
EXTENDS Naturals, Sequences

CONSTANTS
  Keys,     \* what a line may assign
  Urls,     \* the values a line may hold, quotes stripped
  Absent    \* what a lookup answers for a key no line assigns

Raw  == [url : Urls, quoted : BOOLEAN]
Line == [key : Keys, raw : Raw]
File == [lines : Seq(Line), newline : BOOLEAN]

ASSUME AbsentAssumption == Absent \notin Raw

----------------------------------------------------------------------------
(* Reading.                                                                *)

\* Load: one trailing newline is dropped, whether there is one or not.
Load(file) == file.lines

\* The first line that assigns the key: the one both GetRaw and Set stop at.
IsFirst(lines, key, i) ==
  /\ i \in DOMAIN lines
  /\ lines[i].key = key
  /\ \A j \in 1 .. i - 1 : lines[j].key # key

HasKey(lines, key) == \E i \in DOMAIN lines : lines[i].key = key

\* The first line's value exactly as written, quotes and all.
GetRaw(lines, key) ==
  IF HasKey(lines, key)
  THEN lines[CHOOSE i \in DOMAIN lines : IsFirst(lines, key, i)].raw
  ELSE Absent

\* The value a raw text denotes.
Unquote(raw) == IF raw = Absent THEN Absent ELSE raw.url

Get(lines, key) == Unquote(GetRaw(lines, key))

----------------------------------------------------------------------------
(* Writing.                                                                *)

\* Replace the value of the first line that assigns the key; never append.
Set(lines, key, raw) ==
  [i \in DOMAIN lines |-> IF IsFirst(lines, key, i)
                          THEN [key |-> key, raw |-> raw]
                          ELSE lines[i]]

\* The loop of Restore over State.Original: a key that had no value when the
\* snapshot was taken is not in the map, and nothing is set for it.
Reinstate(lines, key, original) ==
  IF original = Absent THEN lines ELSE Set(lines, key, original)

\* A value as Set is given it by the program: without quotes.
Plain(url) == [url |-> url, quoted |-> FALSE]

\* The content Save writes: the lines, and a newline after the last of them.
Save(lines) == [lines |-> lines, newline |-> TRUE]

\* What os.WriteFile leaves of a file when it truncates it and gets no further.
EmptyFile == [lines |-> << >>, newline |-> FALSE]

----------------------------------------------------------------------------
(* Comparing.                                                              *)

\* A file with the values of some keys covered: those that Set can change.
Masked(lines, keys) ==
  [i \in DOMAIN lines |-> IF \E key \in keys : IsFirst(lines, key, i)
                          THEN [key |-> lines[i].key, raw |-> Absent]
                          ELSE lines[i]]
============================================================================
