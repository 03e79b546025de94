--------------------------- MODULE LibraryReport ---------------------------
(***************************************************************************)
(* scripts/plex-library-report.py, every 30 minutes: read Plex's sections  *)
(* and their items, compare with the snapshot of the last run, save the    *)
(* new snapshot, post what was removed.  Plex changes while a run reads,   *)
(* any call may raise out of main(), and the process may die anywhere.     *)
(* An empty snapshot (no file, or no section listed) makes the next run a  *)
(* baseline; a torn one (write_text truncates first) ends every later run. *)
(***************************************************************************)
EXTENDS Integers

CONSTANTS Section, Title

VARIABLES
  library,    \* <<section, title>> pairs Plex has
  listed,     \* sections Plex lists as movie or show libraries
  snapshot,   \* STATE_FILE: the sections it has and their pairs
  torn,       \* STATE_FILE is not JSON
  reportPc,   \* main(): 0 not running, 1 reading sections, 2 and 3 see Order
  run,        \* its locals
  told, lost, gone  \* history of removals: posted; dropped; seen by the file

reportVars == <<library, listed, snapshot, torn, reportPc, run, told, lost, gone>>

Pair == Section \X Title
NoSnapshot == [sections |-> {}, pairs |-> {}]
NoRun == [left |-> {}, previous |-> NoSnapshot, current |-> NoSnapshot, removed |-> {}]
InSection(k, pairs) == {p \in pairs : p[1] = k}
Toggle(x, set) == (set \ {x}) \cup ({x} \ set)

\* main()'s two effects, in order.
PostFirst == <<"post", "save">>
Order == <<"save", "post">>
Doing(effect) == reportPc \in {2, 3} /\ Order[reportPc - 1] = effect

Ends == reportPc' = 0 /\ run' = NoRun
Advances == IF reportPc = 3 THEN Ends ELSE reportPc' = 3 /\ UNCHANGED run
Drops(pairs) == lost' = lost \cup (pairs \ library) /\ UNCHANGED told

-----------------------------------------------------------------------------
\* Titles come and go, libraries are created and deleted.
PlexChanges ==
  /\ \/ \E p \in Pair : library' = Toggle(p, library) /\ UNCHANGED listed
     \/ \E k \in Section : listed' = Toggle(k, listed) /\ UNCHANGED library
  /\ told' = told \ library' /\ lost' = lost \ library'
  /\ UNCHANGED <<snapshot, torn, reportPc, run>>

\* get_video_sections(), then load_previous(), which a torn file ends.
ReportStarts ==
  /\ reportPc = 0 /\ ~torn
  /\ reportPc' = IF listed = {} THEN 2 ELSE 1
  /\ run' = [NoRun EXCEPT !.left = listed, !.previous = snapshot]
  /\ UNCHANGED <<library, listed, snapshot, torn, told, lost>>

IsBaseline == run.previous.sections = {}
RemovedFrom(k) == IF IsBaseline THEN {} ELSE InSection(k, run.previous.pairs \ library)

\* One get_section_items(): what Plex has now.
ReadsSection(k) ==
  /\ reportPc = 1 /\ k \in run.left
  /\ reportPc' = IF run.left = {k} THEN 2 ELSE 1
  /\ run' = [run EXCEPT
       !.left = @ \ {k},
       !.current = [sections |-> @.sections \cup {k},
                    pairs |-> @.pairs \cup InSection(k, library)],
       !.removed = @ \cup RemovedFrom(k)]
  /\ UNCHANGED <<library, listed, snapshot, torn, told, lost>>

\* A section Plex did not list leaves the snapshot without a comparison.
NotCompared == {p \in run.previous.pairs : p[1] \notin run.current.sections}

Saves ==
  /\ Doing("save")
  /\ snapshot' = run.current
  /\ Drops(NotCompared)
  /\ Advances
  /\ UNCHANGED <<library, listed, torn>>

Posts ==
  /\ Doing("post")
  /\ told' = told \cup (run.removed \ library)
  /\ Advances
  /\ UNCHANGED <<library, listed, snapshot, torn, lost>>

\* A call raised, or the process died between two steps: past the save the
\* removals it found are in nobody's hands.
ReportFails ==
  /\ reportPc # 0
  /\ Ends
  /\ Drops(IF Doing("post") THEN run.removed ELSE {})
  /\ UNCHANGED <<library, listed, snapshot, torn>>

\* It died in write_text().
SaveTears ==
  /\ Doing("save")
  /\ torn' = TRUE
  /\ Drops(snapshot.pairs)
  /\ Ends
  /\ UNCHANGED <<library, listed, snapshot>>

-----------------------------------------------------------------------------
\* Removals the next run will find in the file.
Pending == IF torn THEN {} ELSE snapshot.pairs \ library

ReportInit ==
  /\ library = {} /\ listed = Section
  /\ snapshot = NoSnapshot /\ torn = FALSE
  /\ reportPc = 0 /\ run = NoRun
  /\ told = {} /\ lost = {} /\ gone = {}

ReportNext ==
  /\ \/ PlexChanges \/ ReportStarts \/ Saves \/ Posts \/ ReportFails \/ SaveTears
     \/ \E k \in Section : ReadsSection(k)
  /\ gone' = (gone \cup Pending') \ library'

ReportSpec == ReportInit /\ [][ReportNext]_reportVars

ReportTypeOK ==
  /\ library \subseteq Pair /\ listed \subseteq Section
  /\ snapshot \in [sections : SUBSET Section, pairs : SUBSET Pair]
  /\ \A p \in snapshot.pairs : p[1] \in snapshot.sections
  /\ torn \in BOOLEAN /\ reportPc \in 0..3
  /\ run.left \subseteq Section /\ run.removed \subseteq run.previous.pairs

(* A title that left Plex after a snapshot saw it is posted, or still to be
   found in the file, or in the hands of the run, unless a failure or a section
   Plex stopped listing dropped it; and it is never posted twice, although the
   process may die between the save and the post (main(), lines 145-169).     *)
RemovalsToldOnce ==
  /\ gone \subseteq told \cup Pending \cup run.removed \cup lost
  /\ Doing("post") => run.removed \cap told = {}
=============================================================================
