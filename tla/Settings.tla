------------------------------ MODULE Settings ------------------------------
(***************************************************************************)
(* What localhoist promises about its two files of settings, with the      *)
(* reads and the writes of config.go left out: a command, or the answer    *)
(* given at the prompt, changes one file at one moment, and of it only     *)
(* what it says of the transport.  Only a file that two processes change   *)
(* at once, or whose change is cut short, is lost.  A lost file may still  *)
(* be readable and be changed again; one that is not stays lost until the  *)
(* user writes it, for every later change is refused.  Config.tla is shown *)
(* to implement this.                                                      *)
(***************************************************************************)
EXTENDS Processes

CONSTANTS
  Files,      \* the files
  Said,       \* what one may say of the transport
  Accepted    \* what localhoist is willing to write there

VARIABLES
  held,       \* what each file says, and whether it has the user's other keys
  keys,       \* whether the user has given it other keys
  change      \* the change each process has been asked for

svars == <<held, keys, change>>

Holding(said, others) == [said |-> said, keys |-> others]
Lost == Holding("lost", FALSE)
Holdings == {Holding(said, others) : said \in Said, others \in BOOLEAN} \cup {Lost}

Change(file, value, made) == [file |-> file, value |-> value, made |-> made]
NoChange == Change("none", "", FALSE)

SettingsInit ==
  /\ held \in [Files -> Holdings]
  /\ keys = [f \in Files |-> held[f].keys]
  /\ change = [p \in Procs |-> NoChange]

Ask(p) ==
  /\ change[p] = NoChange
  /\ UNCHANGED <<held, keys>>
  /\ \E f \in Files, value \in Said :
       change' = [change EXCEPT ![p] = Change(f, value, FALSE)]

\* Another process has made a change to the same file, and is not done yet.
Meets(p) ==
  \E q \in Procs \ {p} : change[q].made /\ change[q].file = change[p].file

Loses(file) == held' = [held EXCEPT ![file] = Lost]

\* The one moment a change is made at.
Make(p) ==
  LET new == change[p]
  IN /\ new # NoChange /\ ~new.made /\ new.value \in Accepted
     /\ change' = [change EXCEPT ![p] = Change(new.file, new.value, TRUE)]
     /\ IF Meets(p) THEN Loses(new.file)
        ELSE held' = [held EXCEPT ![new.file] = Holding(new.value, keys[new.file])]
     /\ UNCHANGED keys

\* The change is over, or has been refused.
Finish(p) ==
  /\ change[p] # NoChange
  /\ change' = [change EXCEPT ![p] = NoChange]
  /\ IF change[p].made /\ Meets(p) THEN Loses(change[p].file) ELSE UNCHANGED held
  /\ UNCHANGED keys

Cut(p) ==
  /\ change[p].made
  /\ change' = [change EXCEPT ![p] = NoChange]
  /\ Loses(change[p].file)
  /\ UNCHANGED keys

\* The user writes a file that no process is changing.
Edit(f) ==
  /\ UNCHANGED change
  /\ \A p \in Procs : change[p].made => change[p].file # f
  /\ \E new \in Holdings : held' = [held EXCEPT ![f] = new]
  /\ keys' = [keys EXCEPT ![f] = held'[f].keys]

SettingsNext ==
  \/ \E f \in Files : Edit(f)
  \/ \E p \in Procs : Ask(p) \/ Make(p) \/ Finish(p) \/ Cut(p)

SettingsSpec == SettingsInit /\ [][SettingsNext]_svars
============================================================================
