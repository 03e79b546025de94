----------------------------- MODULE Reconcile -----------------------------
(***************************************************************************)
(* scripts/plex-arr-reconcile.py: read what the apps own, then what Plex   *)
(* serves, then look from inside the plex container which of the paths in  *)
(* only one of the two exist, and sort every path into a bucket.  The      *)
(* libraries change while it reads.  A failed call is remembered as a      *)
(* problem, what was read before it is kept; a failed "docker exec" is not *)
(* even a problem: the paths it did not print count as gone.  Nor does the *)
(* exec ever test the last path it is sent, which no newline ends: "while  *)
(* read" stops there, and that path counts as gone as well.                *)
(***************************************************************************)
EXTENDS Integers, Functions

CONSTANTS
  Path,
  Library,      \* of each path: its app, whose library is one section of Plex
  Unsupported   \* paths with a disc-image suffix

ASSUME LibraryAssumption == DOMAIN Library = Path

VARIABLES
  owned, served, onDisk,       \* the world
  reconcilePc,                 \* 0 not running, 1 apps, 2 Plex, 3 sweep, 4 report,
                               \* 5 reported, 6 reported as JSON
  due,                         \* libraries still to read
  arrPaths, plexPaths, found,  \* what was read
  problems,                    \* libraries with a problem
  bucket,                      \* path -> bucket, of the last report
  warnings, exitStatus,        \* problems printed with it, and main()'s result
  moved, blind,                \* history: paths that changed during the run;
                               \* paths a failed call did not show
  untested                     \* history: the last path of the sweep

worldVars == <<owned, served, onDisk>>
readVars == <<arrPaths, plexPaths, found, problems>>
reconcileOutput == <<bucket, warnings, exitStatus>>
reconcileVars ==
  <<worldVars, reconcilePc, due, readVars, reconcileOutput, moved, blind, untested>>

InLibrary(a, paths) == {p \in paths : Library[p] = a}
Flip(p, set) == (set \ {p}) \cup ({p} \ set)

-----------------------------------------------------------------------------
WorldChanges ==
  /\ reconcilePc \in 0..3
  /\ \E p \in Path :
       /\ \/ owned' = Flip(p, owned) /\ UNCHANGED <<served, onDisk>>
          \/ served' = Flip(p, served) /\ UNCHANGED <<owned, onDisk>>
          \/ onDisk' = Flip(p, onDisk) /\ UNCHANGED <<owned, served>>
       /\ moved' = IF reconcilePc = 0 THEN {} ELSE moved \cup {p}
  /\ UNCHANGED <<reconcilePc, due, readVars, reconcileOutput, blind, untested>>

ReconcileStarts ==
  /\ reconcilePc = 0 /\ reconcilePc' = 1
  /\ due' = Range(Library)
  /\ moved' = {}
  /\ UNCHANGED <<worldVars, readVars, reconcileOutput, blind, untested>>

ThenNext(a) ==
  /\ due' = IF due = {a} THEN Range(Library) ELSE due \ {a}
  /\ reconcilePc' = IF due = {a} THEN reconcilePc + 1 ELSE reconcilePc

\* One of ARR_INSTANCES: all its paths, or those read before a call failed.
AsksApp(a) ==
  /\ reconcilePc = 1 /\ a \in due
  /\ \E read \in SUBSET InLibrary(a, owned) :
       /\ arrPaths' = arrPaths \cup read
       /\ \/ read = InLibrary(a, owned) /\ UNCHANGED <<problems, blind>>
          \/ problems' = problems \cup {a} /\ blind' = blind \cup InLibrary(a, owned \ read)
  /\ ThenNext(a)
  /\ UNCHANGED <<worldVars, plexPaths, found, reconcileOutput, moved, untested>>

\* One section of Plex: everything, or nothing and a problem.
AsksPlex(a) ==
  /\ reconcilePc = 2 /\ a \in due
  /\ \/ plexPaths' = plexPaths \cup InLibrary(a, served) /\ UNCHANGED <<problems, blind>>
     \/ /\ problems' = problems \cup {a} /\ blind' = blind \cup InLibrary(a, served)
        /\ UNCHANGED plexPaths
  /\ ThenNext(a)
  /\ UNCHANGED <<worldVars, arrPaths, found, reconcileOutput, moved, untested>>

SweepUnserved == arrPaths \ plexPaths
Swept == (arrPaths \ plexPaths) \cup (plexPaths \ arrPaths)

\* exists_in_plex_container(): one exec that may stop anywhere, or never start,
\* for the sorted paths but the last.  Which one sorts last is left open.
Sweeps ==
  /\ reconcilePc = 3 /\ reconcilePc' = 4
  /\ IF Swept = {} THEN untested' = {} ELSE \E last \in Swept : untested' = {last}
  /\ \E printed \in SUBSET ((Swept \cap onDisk) \ untested') :
       /\ found' = printed
       /\ blind' = blind \cup ((Swept \cap onDisk) \ (untested' \cup printed))
  /\ due' = {}
  /\ UNCHANGED <<worldVars, arrPaths, plexPaths, problems, reconcileOutput, moved>>

\* classify(), and main()'s second loop for what Plex alone has.
BucketOf(p) ==
  CASE p \in arrPaths /\ p \in plexPaths -> "ok"
    [] p \in arrPaths \ plexPaths -> IF p \notin found THEN "file_gone"
                                     ELSE IF p \in Unsupported THEN "unsupported"
                                     ELSE "missing_from_plex"
    [] p \in plexPaths \ arrPaths -> IF p \in found THEN "orphan_in_plex" ELSE "stale_in_plex"
    [] p \notin arrPaths \cup plexPaths -> "none"

\* With --json the report alone, without the problems and always 0.
ReconcileReports ==
  /\ reconcilePc = 4
  /\ bucket' = [p \in Path |-> BucketOf(p)]
  /\ \/ /\ reconcilePc' = 5 /\ warnings' = problems
        /\ exitStatus' = IF \E p \in Path : BucketOf(p) \in {"missing_from_plex", "file_gone"}
                         THEN 1 ELSE 0
     \/ reconcilePc' = 6 /\ warnings' = {} /\ exitStatus' = 0
  /\ UNCHANGED <<worldVars, due, readVars, moved, blind, untested>>

-----------------------------------------------------------------------------
ReconcileInit ==
  /\ owned = {} /\ served = {} /\ onDisk = {}
  /\ reconcilePc = 0 /\ due = {} /\ arrPaths = {} /\ plexPaths = {} /\ found = {}
  /\ problems = {} /\ bucket = [p \in {} |-> "none"] /\ warnings = {} /\ exitStatus = 0
  /\ moved = {} /\ blind = {} /\ untested = {}

ReconcileNext ==
  \/ WorldChanges \/ ReconcileStarts \/ Sweeps \/ ReconcileReports
  \/ \E a \in Range(Library) : AsksApp(a) \/ AsksPlex(a)

ReconcileSpec == ReconcileInit /\ [][ReconcileNext]_reconcileVars

ReconcileTypeOK ==
  /\ {owned, served, onDisk, arrPaths, plexPaths, found, moved, blind,
      untested} \subseteq SUBSET Path
  /\ reconcilePc \in 0..6 /\ exitStatus \in 0..1
  /\ due \cup problems \cup warnings \subseteq Range(Library)
  /\ DOMAIN bucket \in {{}, Path}

\* The question the report answers, asked of the world.
TrueBucket(p) ==
  CASE p \in owned /\ p \in served -> "ok"
    [] p \in owned \ served /\ p \notin onDisk -> "file_gone"
    [] p \in owned \ served /\ p \in onDisk ->
         IF p \in Unsupported THEN "unsupported" ELSE "missing_from_plex"
    [] p \in served \ owned -> IF p \in onDisk THEN "orphan_in_plex" ELSE "stale_in_plex"
    [] p \notin owned \cup served -> "none"

(* The bucket of a path that did not change during the run is right, unless a
   call that failed did not show the path or it is the one path, the last of the
   sweep, that is never tested; a printed report warns of every library in which
   an app or Plex did not show a path; and its exit status is 0 only when no
   path that was read and tested is missing from Plex or gone.                 *)
BucketsAreTrue ==
  reconcilePc \in {5, 6} =>
    /\ \A p \in Path \ (moved \cup blind \cup untested) : bucket[p] = TrueBucket(p)
    /\ \A p, q \in untested : p = q
    /\ reconcilePc = 5 =>
         /\ \A p \in blind \ (moved \cup Swept) : Library[p] \in warnings
         /\ exitStatus = 0 => \A p \in Path \ (moved \cup blind \cup untested) :
                                TrueBucket(p) \notin {"missing_from_plex", "file_gone"}
=============================================================================
