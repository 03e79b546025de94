----------------------------- MODULE ArrBackup -----------------------------
(***************************************************************************)
(* scripts/arr-app-backup.py: have each app in turn start its own Backup   *)
(* command, poll it until it ends or a deadline passes, and post what came *)
(* of all of them.  An error answer is a verdict; a time-out while an      *)
(* answer is read is none, and ends the script before the next app.        *)
(***************************************************************************)
EXTENDS Integers, Sequences

CONSTANTS
  ArrApps,     \* APPS, in order
  MaxPolls     \* polls before the deadline: POLL_TIMEOUT / POLL_INTERVAL

ASSUME BackupAssumption ==
  /\ MaxPolls \in Nat
  /\ Len(ArrApps) \in Nat \ {0} /\ DOMAIN ArrApps = 1..Len(ArrApps)
  /\ \A i, j \in DOMAIN ArrApps : ArrApps[i] = ArrApps[j] => i = j

ArrApp == {ArrApps[i] : i \in DOMAIN ArrApps}

VARIABLES
  command,     \* app -> the state of its latest Backup command
  backupPc,    \* "idle", "trigger", "poll", "post" or "ended"
  turn,        \* the app's index in ArrApps
  answered,    \* the command's state as last answered
  polls,       \* polls of this command so far
  result,      \* app -> "none", "ok" or "failed"
  green        \* the colour of the embed posted last

backupVars == <<command, backupPc, turn, answered, polls, result, green>>

Unfinished == {"queued", "started"}
Current == ArrApps[turn]
GoesOn == UNCHANGED <<backupPc, turn, answered, polls, result, green>>

-----------------------------------------------------------------------------
\* The app works on its command, or fails it (a restart of the app too).
CommandProceeds(a) ==
  /\ command[a] \in Unfinished
  /\ \E s \in {"failed", IF command[a] = "queued" THEN "started" ELSE "completed"} :
       command' = [command EXCEPT ![a] = s]
  /\ GoesOn

BackupStarts ==
  /\ backupPc \in {"idle", "ended"}
  /\ backupPc' = "trigger" /\ turn' = 1 /\ result' = [a \in ArrApp |-> "none"]
  /\ UNCHANGED <<command, answered, polls, green>>

\* The result of an app, and on to the next app or to the post.
ResultIs(ok) ==
  /\ result' = [result EXCEPT ![Current] = IF ok THEN "ok" ELSE "failed"]
  /\ backupPc' = IF turn = Len(ArrApps) THEN "post" ELSE "trigger"
  /\ turn' = IF turn = Len(ArrApps) THEN turn ELSE turn + 1
  /\ UNCHANGED <<answered, polls, green>>

\* POST /command: a command that still runs is the answer to a second request.
Requested ==
  command' = IF command[Current] \in Unfinished THEN command
             ELSE [command EXCEPT ![Current] = "queued"]

TriggersBackup ==
  /\ backupPc = "trigger" /\ Requested
  /\ answered' = command'[Current] /\ polls' = 0 /\ backupPc' = "poll"
  /\ UNCHANGED <<turn, result, green>>

\* No key, or no answer to a request that went through or did not.
TriggerFails ==
  /\ backupPc = "trigger"
  /\ Requested \/ UNCHANGED command
  /\ ResultIs(FALSE)

StillWaits == backupPc = "poll" /\ answered \in Unfinished /\ polls < MaxPolls

PollsCommand ==
  /\ StillWaits
  /\ answered' = command[Current] /\ polls' = polls + 1
  /\ UNCHANGED <<command, backupPc, turn, result, green>>

PollFails == StillWaits /\ ResultIs(FALSE) /\ UNCHANGED command

\* The command has ended, or the deadline has passed.
OkUnlessFailed(state) == state # "failed"
Ok(state) == state = "completed"

CommandConcluded ==
  /\ backupPc = "poll" /\ ~StillWaits
  /\ ResultIs(Ok(answered)) /\ UNCHANGED command

PostsResults ==
  /\ backupPc = "post"
  /\ green' = (\A a \in ArrApp : result[a] = "ok") /\ backupPc' = "ended"
  /\ UNCHANGED <<command, turn, answered, polls, result>>

\* A time-out while an answer is read, or a failing post: uncaught.
BackupRaises ==
  /\ backupPc \in {"trigger", "poll", "post"}
  /\ backupPc' = "idle"
  /\ UNCHANGED <<command, turn, answered, polls, result, green>>

-----------------------------------------------------------------------------
BackupInit ==
  /\ command = [a \in ArrApp |-> "none"] /\ backupPc = "idle" /\ turn = 1
  /\ answered = "none" /\ polls = 0 /\ result = [a \in ArrApp |-> "none"]
  /\ green = FALSE

BackupNext ==
  \/ \E a \in ArrApp : CommandProceeds(a)
  \/ BackupStarts \/ TriggersBackup \/ TriggerFails \/ PollsCommand \/ PollFails
  \/ CommandConcluded \/ PostsResults \/ BackupRaises

BackupSpec == BackupInit /\ [][BackupNext]_backupVars

BackupTypeOK ==
  /\ command \in [ArrApp -> {"none", "queued", "started", "completed", "failed"}]
  /\ backupPc \in {"idle", "trigger", "poll", "post", "ended"}
  /\ turn \in DOMAIN ArrApps /\ polls \in 0..MaxPolls /\ green \in BOOLEAN
  /\ result \in [ArrApp -> {"none", "ok", "failed"}]

(* A backup reported as done is one the app completed, and a green report
   covers every app: a command still running at the deadline, a failed poll and
   an app that was never reached are not taken for success (trigger_backup,
   main), whatever state an earlier run left the commands in.                 *)
ReportedBackupsAreDone ==
  /\ \A a \in ArrApp : result[a] = "ok" => command[a] = "completed"
  /\ backupPc = "ended" /\ green => \A a \in ArrApp : command[a] = "completed"
=============================================================================
