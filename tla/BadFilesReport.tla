-------------------------- MODULE BadFilesReport --------------------------
(***************************************************************************)
(* scripts/checkrr-badfiles-report.py: verify every file of the CSV by its *)
(* header, ask the owning app of each dead file for its records, write one *)
(* row per dead file, print the commands that re-download the tracked ones.*)
(* Radarr answers with all its files at once; Sonarr with its series, then *)
(* with the files of one series at a time.  The apps' records change while *)
(* the script runs, and every call may fail.                               *)
(***************************************************************************)
EXTENDS Integers, Functions

CONSTANTS
  File,      \* unique paths of badfiles.csv
  Ext,       \* of each file: "media", "disc" (UNPROBEABLE), "text" or "other"
  Owner,     \* of each file: the app of its library, or Outside
  SeriesOf,  \* of each file of a Sonarr: its series
  Sonarr,    \* the apps whose service is not radarr
  Outside

\* A series of a Sonarr is of that app alone.
ASSUME FileAssumption ==
  /\ DOMAIN Ext = File /\ DOMAIN Owner = File /\ DOMAIN SeriesOf = File
  /\ \A f, g \in File :
       Owner[f] \in Sonarr /\ SeriesOf[f] = SeriesOf[g] => Owner[f] = Owner[g]

\* What reading the first bytes may find.
FirstBytes == {"magic", "zeros", "empty", "garbage", "missing", "unreadable"}

VARIABLES
  held,        \* files the apps have a record of
  badPc,       \* "idle", "verified", "attributing", "reported", "raised"
  trusting,    \* --no-verify
  verdict,     \* results
  dueApps,     \* apps still to ask
  dueSeries,   \* of the Sonarr being asked: series still to read, or {}
  index,       \* records read
  tracked,     \* rows: dead file -> "yes", "no", "unknown"
  commands,    \* files in the printed commands
  skipped,     \* apps of dead files without a block in checkrr.yaml
  wasHeld, wasAbsent, unread  \* history of this run: files that had, that
               \* lacked a record at some moment; series that were not read

fileVars == <<held, badPc, trusting, verdict, dueApps, dueSeries, index, tracked,
              commands, skipped, wasHeld, wasAbsent, unread>>

NoRows == [f \in {} |-> "no"]

-----------------------------------------------------------------------------
\* verify_file(): the kinds of ext that are never read, then the header.
Verify(f, head) ==
  CASE Ext[f] = "text"  -> "NON_MEDIA"
    [] Ext[f] = "disc"  -> "UNPROBEABLE"
    [] Ext[f] \notin {"text", "disc"} /\ Owner[f] = Outside -> "UNKNOWN_EXT"
    [] OTHER -> CASE head = "missing"    -> "MISSING"
                  [] head = "unreadable" -> "UNREADABLE"
                  [] head \in {"empty", "zeros"} -> "DEAD"
                  [] OTHER -> IF Ext[f] = "other" THEN "UNKNOWN_EXT"
                              ELSE IF head = "magic" THEN "HEALTHY" ELSE "DEAD"

Dead == {f \in DOMAIN verdict : verdict[f] = "DEAD"}
DeadOf(a) == {f \in Dead : Owner[f] = a}

\* The CSV is read and every file verified, in parallel, each on its own.
Verifies ==
  /\ badPc = "idle" /\ badPc' = "verified"
  /\ \/ trusting' = TRUE /\ verdict' = [f \in File |-> "DEAD"]
     \/ trusting' = FALSE
        /\ \E head \in [File -> FirstBytes] : verdict' = [f \in File |-> Verify(f, head[f])]
  /\ wasHeld' = held /\ wasAbsent' = File \ held
  /\ UNCHANGED <<held, dueApps, dueSeries, index, tracked, commands, skipped, unread>>

\* by_arr: sorting it raises when it has both a None key and a string.  An app
\* that checkrr.yaml has no block for is passed over with a warning.
GroupsByApp ==
  /\ badPc = "verified"
  /\ LET apps == {Owner[f] : f \in Dead} IN
     /\ badPc' = IF Outside \in apps /\ apps # {Outside} THEN "raised" ELSE "attributing"
     /\ skipped' \in SUBSET (apps \ {Outside})
     /\ dueApps' = apps \ (skipped' \cup {Outside})
  /\ UNCHANGED <<held, trusting, verdict, dueSeries, index, tracked, commands,
                 wasHeld, wasAbsent, unread>>

\* One row per dead file of the app.
RowsAsReachable(a, found, reachable) == [f \in DeadOf(a) |-> IF f \in found THEN "yes" ELSE "no"]
Rows(a, found, reachable) ==
  [f \in DeadOf(a) |-> IF f \in found THEN "yes" ELSE IF reachable THEN "no" ELSE "unknown"]
Writes(a, found, reachable) ==
  /\ tracked' = [f \in DOMAIN tracked \cup DeadOf(a) |->
                   IF f \in DeadOf(a) THEN Rows(a, found, reachable)[f] ELSE tracked[f]]
  /\ dueApps' = dueApps \ {a} /\ dueSeries' = {}

RadarrAnswers(a) ==
  /\ badPc = "attributing" /\ a \in dueApps \ Sonarr /\ dueSeries = {}
  /\ index' = index \cup {f \in held : Owner[f] = a}
  /\ Writes(a, index', TRUE)
  /\ UNCHANGED <<held, badPc, trusting, verdict, commands, skipped, wasHeld, wasAbsent, unread>>

\* The movie list or the series list could not be read.
AppUnreachable(a) ==
  /\ badPc = "attributing" /\ a \in dueApps /\ dueSeries = {}
  /\ Writes(a, {}, FALSE)
  /\ UNCHANGED <<held, badPc, trusting, verdict, index, commands, skipped,
                 wasHeld, wasAbsent, unread>>

\* Only the series of dead files are read.
SonarrListsSeries(a) ==
  /\ badPc = "attributing" /\ a \in dueApps \cap Sonarr /\ dueSeries = {}
  /\ dueSeries' = {SeriesOf[f] : f \in DeadOf(a)}
  /\ UNCHANGED <<held, badPc, trusting, verdict, dueApps, index, tracked, commands,
                 skipped, wasHeld, wasAbsent, unread>>

\* One episodefile call.  One that fails is a warning, and the loop goes on; but
\* a connection lost in mid-answer (an OSError that is no URLError) leaves the
\* loop and makes the app unreachable.
ReadsSeries(a, s) ==
  /\ badPc = "attributing" /\ a \in dueApps \cap Sonarr
  /\ s \in dueSeries \cap {SeriesOf[f] : f \in DeadOf(a)}
  /\ \/ /\ \/ /\ index' = index \cup {f \in held : Owner[f] = a /\ SeriesOf[f] = s}
              /\ UNCHANGED unread
           \/ unread' = unread \cup {s} /\ UNCHANGED index
        /\ IF dueSeries = {s} THEN Writes(a, index', TRUE)
           ELSE dueSeries' = dueSeries \ {s} /\ UNCHANGED <<tracked, dueApps>>
     \/ Writes(a, {}, FALSE) /\ UNCHANGED <<index, unread>>
  /\ UNCHANGED <<held, badPc, trusting, verdict, commands, skipped, wasHeld, wasAbsent>>

\* An answer that is no JSON ends the script with nothing written.
AnswerRaises ==
  /\ badPc = "attributing" /\ dueApps # {} /\ badPc' = "raised"
  /\ UNCHANGED <<held, trusting, verdict, dueApps, dueSeries, index, tracked, commands,
                 skipped, wasHeld, wasAbsent, unread>>

\* emit_commands(): delete the record, search again, for every tracked row.
Emitted == {f \in DOMAIN tracked : tracked[f] = "yes"}

\* The CSV, and the commands.
Reports ==
  /\ badPc = "attributing" /\ dueApps = {}
  /\ badPc' = "reported"
  /\ commands' = Emitted
  /\ UNCHANGED <<held, trusting, verdict, dueApps, dueSeries, index, tracked,
                 skipped, wasHeld, wasAbsent, unread>>

\* An app imports or drops a file.
RecordsChange ==
  /\ badPc \in {"idle", "verified", "attributing"}
  /\ \E f \in {x \in File : Owner[x] # Outside} : held' = (held \ {f}) \cup ({f} \ held)
  /\ IF badPc = "idle" THEN UNCHANGED <<wasHeld, wasAbsent>>
     ELSE wasHeld' = wasHeld \cup held' /\ wasAbsent' = wasAbsent \cup (File \ held')
  /\ UNCHANGED <<badPc, trusting, verdict, dueApps, dueSeries, index, tracked, commands,
                 skipped, unread>>

-----------------------------------------------------------------------------
FileInit ==
  /\ held = {} /\ badPc = "idle" /\ trusting = FALSE /\ verdict = NoRows
  /\ dueApps = {} /\ dueSeries = {} /\ index = {} /\ tracked = NoRows /\ commands = {}
  /\ skipped = {} /\ wasHeld = {} /\ wasAbsent = {} /\ unread = {}

FileNext ==
  \/ RecordsChange \/ Verifies \/ GroupsByApp \/ AnswerRaises \/ Reports
  \/ \E a \in Range(Owner) :
       \/ RadarrAnswers(a) \/ AppUnreachable(a) \/ SonarrListsSeries(a)
       \/ \E s \in Range(SeriesOf) : ReadsSeries(a, s)

FileSpec == FileInit /\ [][FileNext]_fileVars

FileTypeOK ==
  /\ {held, index, commands, wasHeld, wasAbsent} \subseteq SUBSET File
  /\ DOMAIN verdict \in {{}, File} /\ DOMAIN tracked \subseteq Dead
  /\ \A f \in DOMAIN tracked : tracked[f] \in {"yes", "no", "unknown"}
  /\ dueApps \cup skipped \subseteq Range(Owner) /\ dueSeries \cup unread \subseteq Range(SeriesOf)

(* Whatever the apps answer and however their records change meanwhile: a file
   in the re-download commands had a record at some moment of the run and, unless
   verifying was switched off, is no disc image; a file reported as an orphan
   lacked a record at some moment, unless its series could not be read; and no
   dead file of a library is missing from the report, unless the library's app
   has no block in checkrr.yaml.                                               *)
ReportHasEvidence ==
  badPc = "reported" =>
    /\ commands \subseteq wasHeld /\ (~trusting => \A f \in commands : Ext[f] # "disc")
    /\ \A f \in DOMAIN tracked :
         tracked[f] = "no" => f \in wasAbsent \/ SeriesOf[f] \in unread
    /\ {f \in Dead : Owner[f] \notin skipped \cup {Outside}} = DOMAIN tracked

(* "An unreachable arr must never look like a confirmed orphan" (line 461): an
   orphan is a file that really had no record at some moment of the run.      *)
OrphansAreConfirmed ==
  badPc = "reported" => \A f \in DOMAIN tracked : tracked[f] = "no" => f \in wasAbsent
=============================================================================
