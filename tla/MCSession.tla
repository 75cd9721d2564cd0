----------------------------- MODULE MCSession -----------------------------
(* Small instances of Session for TLC. *)
EXTENDS Session, TLC

CONSTANTS
  local, mail,                  \* values the user gives
  APP_URL, MAIL_FROM, Remark    \* what lines assign; Remark is a comment

MCKeys == {APP_URL, MAIL_FROM, Remark}
MCUserUrls == {local, mail}

\* The public URL of a run's tunnel is named by the run itself, so that runs
\* stay interchangeable.
MCUrls == MCUserUrls \cup Runs
MCTunnelURL == [r \in Runs |-> r]

RunSymmetry == Permutations(Runs)

\* .env with a comment between two assignments of APP_URL (the first in
\* quotes), and one without APP_URL that does not end in a newline.
Twice ==
  [lines |-> << [key |-> MAIL_FROM, raw |-> [url |-> mail, quoted |-> FALSE]],
                [key |-> APP_URL, raw |-> [url |-> local, quoted |-> TRUE]],
                [key |-> Remark, raw |-> [url |-> mail, quoted |-> FALSE]],
                [key |-> APP_URL, raw |-> [url |-> mail, quoted |-> FALSE]] >>,
   newline |-> TRUE]
Without ==
  [lines |-> << [key |-> MAIL_FROM, raw |-> [url |-> mail, quoted |-> FALSE]] >>,
   newline |-> FALSE]

MCInitialFiles == {Twice, Without}
============================================================================
