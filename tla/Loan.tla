------------------------------- MODULE Loan -------------------------------
(***************************************************************************)
(* What localhoist promises about .env, with the runs, the files and the   *)
(* system calls left out: it borrows the line of APP_URL, shows the world  *)
(* a value of its own in it, and gives the line back before it forgets     *)
(* what it has borrowed.  README.md, "Keeps server-side URLs correct" and  *)
(* "crash-safe .env patching"; Session.tla is shown to implement this.     *)
(***************************************************************************)
EXTENDS EnvFile

CONSTANTS
  Key,        \* the key borrowed
  Shown,      \* the values localhoist may show in it
  Theirs,     \* the keys the user may edit at any time
  Nothing     \* nothing is borrowed

VARIABLES
  lines,      \* the lines of .env
  held        \* the value borrowed, or Nothing

lvars == <<lines, held>>

LoanInit ==
  /\ lines \in Seq(Line)
  /\ held = Nothing

\* The value the key has, Absent if it has none, is put on record.
Borrow ==
  /\ held = Nothing
  /\ held' = GetRaw(lines, Key)
  /\ UNCHANGED lines

\* Only a value on record is overwritten, and only where it stood.
Show ==
  /\ held # Nothing
  /\ \E url \in Shown : lines' = Set(lines, Key, Plain(url))
  /\ UNCHANGED held

GiveBack ==
  /\ held # Nothing
  /\ lines' = Reinstate(lines, Key, held)
  /\ UNCHANGED held

\* The record is dropped only once the line reads as it did.
Forget ==
  /\ held # Nothing
  /\ Reinstate(lines, Key, held) = lines
  /\ held' = Nothing
  /\ UNCHANGED lines

\* The user edits another key at any time, and this one when it is not on loan,
\* and never writes a value of localhoist's.
UserEdit ==
  /\ \E key \in Theirs \cup {Key}, raw \in Raw :
       /\ key = Key => held = Nothing
       /\ raw.url \notin Shown
       /\ lines' = Set(lines, key, raw)
  /\ UNCHANGED held

LoanNext == Borrow \/ Show \/ GiveBack \/ Forget \/ UserEdit

LoanSpec == LoanInit /\ [][LoanNext]_lvars
============================================================================
