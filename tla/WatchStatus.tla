----------------------------- MODULE WatchStatus -----------------------------
(***************************************************************************)
(* watchstate/services.py: get_status statusAt WatchState four questions, one  *)
(* after the other, and queue_import statusAt for an import that WatchState's  *)
(* dispatcher runs later.  Imports, watchstate-provision.py and the owner  *)
(* go on meanwhile.                                                        *)
(***************************************************************************)
EXTENDS Integers

CONSTANTS
  Viewer,      \* clients of the panel's watchstate routes
  MaxImports   \* bound on the imports that run

ASSUME WatchAssumption == MaxImports \in Nat

Question == {"version", "backends", "task", "history"}
Page == {"none", "error", "unregistered", "queued", "idle", "import queued"}

VARIABLES
  registered,  \* WatchState has the backend BACKEND_NAME
  eventQueued, \* the import task's "queued"
  importRuns,  \* an import runs
  importsDone, \* imports ended so far: what "prev_run" tells apart
  inHistory,   \* newest import whose items the history has, 0 when it is empty
  emptiedAt,   \* auxiliary: newest import whose items were emptied from it
  statusAt,    \* viewer -> question of its get_status, or "nothing"
  sawBackend,  \* viewers whose backend was not {}
  sawQueued,   \* viewers whose task was queued
  sawLast,     \* viewer -> its task's prev_run
  sawTotal,    \* viewer -> its total
  statusPage,  \* viewer -> what its last request answered
  unbacked     \* auxiliary: viewers during whose get_status there was no backend

watchState == <<registered, eventQueued, importRuns, importsDone, inHistory, emptiedAt>>
sawVars == <<sawBackend, sawQueued, sawLast, sawTotal>>
watchVars == <<watchState, statusAt, sawVars, statusPage, unbacked>>

-----------------------------------------------------------------------------
\* events:dispatch, every minute, or the schedule.
ImportStarts ==
  /\ ~importRuns /\ importsDone < MaxImports
  /\ importRuns' = TRUE /\ eventQueued' = FALSE
  /\ UNCHANGED <<registered, importsDone, inHistory, emptiedAt, statusAt,
                 sawVars, statusPage, unbacked>>

ImportWrites ==
  /\ importRuns /\ inHistory' = importsDone + 1
  /\ UNCHANGED <<registered, eventQueued, importRuns, importsDone, emptiedAt,
                 statusAt, sawVars, statusPage, unbacked>>

ImportFinishes ==
  /\ importRuns /\ importsDone + 1 \in {inHistory, emptiedAt}
  /\ importRuns' = FALSE /\ importsDone' = importsDone + 1
  /\ UNCHANGED <<registered, eventQueued, inHistory, emptiedAt, statusAt,
                 sawVars, statusPage, unbacked>>

HistoryEmptied ==
  /\ inHistory > 0
  /\ inHistory' = 0 /\ emptiedAt' = inHistory
  /\ UNCHANGED <<registered, eventQueued, importRuns, importsDone, statusAt,
                 sawVars, statusPage, unbacked>>

BackendChanges ==
  /\ registered' = ~registered
  /\ unbacked' = unbacked \cup {v \in Viewer : statusAt[v] # "nothing"}
  /\ UNCHANGED <<eventQueued, importRuns, importsDone, inHistory, emptiedAt,
                 statusAt, sawVars, statusPage>>

-----------------------------------------------------------------------------
Asked(v, question, next) ==
  /\ statusAt[v] = question
  /\ statusAt' = [statusAt EXCEPT ![v] = next]
  /\ UNCHANGED <<watchState, unbacked>>

StatusAnswers(v, what) == statusPage' = [statusPage EXCEPT ![v] = what]

GetStatus(v) ==
  /\ statusAt[v] = "nothing"
  /\ statusAt' = [statusAt EXCEPT ![v] = "version"] /\ StatusAnswers(v, "none")
  /\ unbacked' = IF registered THEN unbacked \ {v} ELSE unbacked \cup {v}
  /\ sawBackend' = sawBackend \ {v} /\ sawQueued' = sawQueued \ {v}
  /\ sawLast' = [sawLast EXCEPT ![v] = 0] /\ sawTotal' = [sawTotal EXCEPT ![v] = 0]
  /\ UNCHANGED watchState

AsksVersion(v) == Asked(v, "version", "backends") /\ UNCHANGED <<sawVars, statusPage>>

\* _backend.
AsksBackends(v) ==
  /\ Asked(v, "backends", "task")
  /\ sawBackend' = IF registered THEN sawBackend \cup {v} ELSE sawBackend
  /\ UNCHANGED <<sawQueued, sawLast, sawTotal, statusPage>>

\* _import_task.
AsksTask(v) ==
  /\ Asked(v, "task", "history")
  /\ sawQueued' = IF eventQueued THEN sawQueued \cup {v} ELSE sawQueued
  /\ sawLast' = [sawLast EXCEPT ![v] = importsDone]
  /\ UNCHANGED <<sawBackend, sawTotal, statusPage>>

\* Mutant: an empty history is taken for no backend.
MessageByTotal(v) ==
  CASE v \notin sawBackend \/ inHistory = 0 -> "unregistered"
    [] v \in sawBackend /\ inHistory > 0 -> "idle"

Message(v) ==
  CASE v \notin sawBackend -> "unregistered"
    [] v \in sawBackend /\ v \in sawQueued -> "queued"
    [] v \in sawBackend /\ v \notin sawQueued -> "idle"

\* _history: "An empty database answers 404, not an empty list".
AsksHistory(v) ==
  /\ Asked(v, "history", "nothing")
  /\ sawTotal' = [sawTotal EXCEPT ![v] = inHistory]
  /\ StatusAnswers(v, Message(v))
  /\ UNCHANGED <<sawBackend, sawQueued, sawLast>>

\* _request raised, or the status is one the question does not expect.
QuestionFails(v) ==
  /\ \E q \in Question : Asked(v, q, "nothing")
  /\ StatusAnswers(v, "error")
  /\ UNCHANGED sawVars

\* queue_import; one that failed may have queued the import.
QueueImport(v) ==
  /\ statusAt[v] = "nothing"
  /\ eventQueued' = TRUE
  /\ StatusAnswers(v, "import queued") \/ StatusAnswers(v, "error")
  /\ UNCHANGED <<registered, importRuns, importsDone, inHistory, emptiedAt,
                 statusAt, sawVars, unbacked>>

QueueImportFails(v) ==
  /\ statusAt[v] = "nothing" /\ StatusAnswers(v, "error")
  /\ UNCHANGED <<watchState, statusAt, sawVars, unbacked>>

-----------------------------------------------------------------------------
WatchInit ==
  /\ registered = FALSE /\ eventQueued = FALSE /\ importRuns = FALSE
  /\ importsDone = 0 /\ inHistory = 0 /\ emptiedAt = 0
  /\ statusAt = [v \in Viewer |-> "nothing"] /\ statusPage = [v \in Viewer |-> "none"]
  /\ sawBackend = {} /\ sawQueued = {} /\ unbacked = {}
  /\ sawLast = [v \in Viewer |-> 0] /\ sawTotal = [v \in Viewer |-> 0]

WatchNext ==
  \/ ImportStarts \/ ImportWrites \/ ImportFinishes \/ HistoryEmptied \/ BackendChanges
  \/ \E v \in Viewer :
       \/ GetStatus(v) \/ AsksVersion(v) \/ AsksBackends(v) \/ AsksTask(v) \/ AsksHistory(v)
       \/ QuestionFails(v) \/ QueueImport(v) \/ QueueImportFails(v)

WatchSpec == WatchInit /\ [][WatchNext]_watchVars

-----------------------------------------------------------------------------
(* Types of WatchState and of the requests.                                *)
WatchTypeOK ==
  /\ registered \in BOOLEAN /\ eventQueued \in BOOLEAN /\ importRuns \in BOOLEAN
  /\ importsDone \in 0..MaxImports /\ inHistory \in 0..MaxImports /\ emptiedAt \in 0..MaxImports
  /\ statusAt \in [Viewer -> Question \cup {"nothing"}] /\ statusPage \in [Viewer -> Page]
  /\ sawBackend \subseteq Viewer /\ sawQueued \subseteq Viewer /\ unbacked \subseteq Viewer
  /\ sawLast \in [Viewer -> 0..MaxImports] /\ sawTotal \in [Viewer -> 0..MaxImports]

(* get_status is four reads of a system that goes on: a page that names    *)
(* the last import counts its items too, unless the history was emptied of *)
(* them, and one that sends the owner to watchstate-provision.py was asked *)
(* for while there was no backend.                                         *)
StatusCountsItsImport ==
  \A v \in Viewer :
    /\ statusPage[v] \in {"idle", "queued"} => sawTotal[v] >= sawLast[v] \/ sawLast[v] <= emptiedAt
    /\ statusPage[v] = "unregistered" => v \in unbacked
=============================================================================
