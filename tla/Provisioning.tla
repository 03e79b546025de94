---------------------------- MODULE Provisioning ----------------------------
(***************************************************************************)
(* The scripts that configure an app through its API and may be run again  *)
(* after they died anywhere: provision-cleanuparr-instances.py (match on   *)
(* name, update or create, then the seeker) and watchstate-provision.py    *)
(* (add the Plex backend unless it is there, then register its webhook     *)
(* with plex.tv).  A request may be answered, refused, or lost with its    *)
(* answer, carried out or not; a lost answer ends either script.           *)
(***************************************************************************)
EXTENDS Integers

CONSTANTS
  Instance,    \* names of INSTANCES
  MaxToken     \* bound on the webhook tokens WatchState issues

ASSUME ProvisionAssumption == MaxToken \in Nat \ {0}

VARIABLES
  rows,        \* instance -> rows of that name in Cleanuparr's database
  wired,       \* instances whose row has this repository's url and key
  hunting,     \* instances whose seeker row is enabled
  script,      \* "none", "cleanuparr" or "watchstate"
  step,        \* where it is
  left,        \* instances the loop has still to visit
  seen,        \* what its GET found: a row there, or the backend's token
  failures,    \* the list of failures is not empty
  rebuilt,     \* history: the database was rebuilt during this run
  clean,       \* the last Cleanuparr run exited 0 and nothing was rebuilt since
  backend,     \* token of WatchState's "plex" backend, 0 without one
  issued,      \* tokens issued so far
  hook,        \* token plex.tv posts to, 0 without one
  detached     \* history: the owner removed a backend plex.tv still posts to

cleanuparr == <<rows, wired, hunting, rebuilt>>
watchstate == <<backend, issued, hook, detached>>
provisionVars == <<cleanuparr, watchstate, script, step, left, seen, failures, clean>>

Ended == script' = "none" /\ step' = "none" /\ left' = {} /\ seen' = 0 /\ failures' = FALSE
Running(s, at) == script = s /\ step = at
GoesTo(at) == step' = at /\ UNCHANGED <<script, left, seen, failures, clean>>

-----------------------------------------------------------------------------
(* provision-cleanuparr-instances.py                                       *)

\* "A rebuilt or restored DB silently drops whatever was configured".
DatabaseRebuilt ==
  /\ rows' = [n \in Instance |-> 0] /\ wired' = {} /\ hunting' = {}
  /\ rebuilt' = (script = "cleanuparr") /\ clean' = FALSE
  /\ UNCHANGED <<watchstate, script, step, left, seen, failures>>

ProvisionStarts ==
  /\ script = "none"
  /\ script' = "cleanuparr" /\ step' = "look" /\ left' = Instance
  /\ clean' = FALSE /\ rebuilt' = FALSE
  /\ UNCHANGED <<rows, wired, hunting, seen, failures, watchstate>>

\* The loop's order: the same one in every run.
Visited == CHOOSE n \in left : TRUE

NeverThere(n) == 0
Existing(n) == IF rows[n] > 0 THEN 1 ELSE 0

\* The GET; then the connection test, refused for an instance that is not ready.
LooksUpInstance(n) ==
  /\ Running("cleanuparr", "look") /\ left # {} /\ n = Visited
  /\ \/ seen' = Existing(n) /\ step' = "write" /\ UNCHANGED <<left, failures>>
     \/ failures' = TRUE /\ left' = left \ {n} /\ UNCHANGED <<seen, step>>
  /\ UNCHANGED <<cleanuparr, watchstate, script, clean>>

\* The PUT of the row found, or the POST of a new one.  A PUT of a row that is
\* gone by now is refused.
StoresInstance(n) ==
  IF seen = 1 THEN rows[n] > 0 /\ UNCHANGED rows
              ELSE rows' = [rows EXCEPT ![n] = @ + 1]

WritesInstance(n) ==
  /\ Running("cleanuparr", "write") /\ left # {} /\ n = Visited
  /\ \/ StoresInstance(n) /\ wired' = wired \cup {n} /\ UNCHANGED failures
     \/ failures' = TRUE /\ UNCHANGED <<rows, wired>>
  /\ step' = "look" /\ left' = left \ {n} /\ seen' = 0
  /\ UNCHANGED <<hunting, rebuilt, watchstate, script, clean>>

\* The write went through and its answer was lost: URLError, caught by nobody.
InstanceAnswerLost(n) ==
  /\ Running("cleanuparr", "write") /\ left # {} /\ n = Visited
  /\ StoresInstance(n) /\ wired' = wired \cup {n}
  /\ Ended
  /\ UNCHANGED <<hunting, rebuilt, watchstate, clean>>

\* The exit status counts the instances only: a seeker that cannot be read is
\* printed and no more.
ExitsZero == ~failures /\ ~rebuilt

ProvisionReturns ==
  /\ Running("cleanuparr", "look") /\ left = {}
  /\ \/ hunting' = hunting \cup {n \in Instance : rows[n] > 0}
     \/ UNCHANGED hunting
  /\ clean' = ExitsZero
  /\ Ended
  /\ UNCHANGED <<rows, wired, rebuilt, watchstate>>

-----------------------------------------------------------------------------
(* watchstate-provision.py                                                 *)

\* By hand, in WatchState.
RemovesBackend ==
  /\ backend # 0
  /\ backend' = 0 /\ detached' = TRUE
  /\ UNCHANGED <<cleanuparr, issued, hook, script, step, left, seen, failures, clean>>

WatchStarts ==
  /\ script = "none"
  /\ script' = "watchstate" /\ step' = "list"
  /\ UNCHANGED <<cleanuparr, watchstate, left, seen, failures, clean>>

FoundBackend == backend

\* existing_backend(), left as is; else plex_uuid() and admin_user_id() first.
ListsBackends ==
  /\ Running("watchstate", "list")
  /\ seen' = FoundBackend
  /\ step' = IF seen' = 0 THEN "add" ELSE "hook"
  /\ UNCHANGED <<cleanuparr, watchstate, script, left, failures, clean>>

Issues == issued < MaxToken /\ issued' = issued + 1 /\ backend' = issued'

AddsBackend ==
  /\ Running("watchstate", "add")
  /\ Issues /\ seen' = backend' /\ step' = "hook"
  /\ UNCHANGED <<cleanuparr, hook, detached, script, left, failures, clean>>

AddAnswerLost ==
  /\ Running("watchstate", "add")
  /\ Issues /\ Ended
  /\ UNCHANGED <<cleanuparr, hook, detached, clean>>

\* provision_webhook(): WatchState registers the url with plex.tv if it still
\* has a backend of that name.
Registers == backend # 0 /\ hook' = seen /\ detached' = (detached /\ seen # backend)

RegistersWebhook ==
  /\ Running("watchstate", "hook")
  /\ Registers
  /\ GoesTo("done")
  /\ UNCHANGED <<cleanuparr, backend, issued>>

HookAnswerLost ==
  /\ Running("watchstate", "hook")
  /\ Registers /\ Ended
  /\ UNCHANGED <<cleanuparr, backend, issued, clean>>

WatchReturns ==
  /\ Running("watchstate", "done")
  /\ Ended
  /\ UNCHANGED <<cleanuparr, watchstate, clean>>

-----------------------------------------------------------------------------
\* Refused, unreachable or killed before its request did anything.
ScriptEnds ==
  /\ script # "none"
  /\ Ended
  /\ UNCHANGED <<cleanuparr, watchstate, clean>>

ProvisionInit ==
  /\ rows = [n \in Instance |-> 0] /\ wired = {} /\ hunting = {} /\ rebuilt = FALSE
  /\ backend = 0 /\ issued = 0 /\ hook = 0 /\ detached = FALSE
  /\ script = "none" /\ step = "none" /\ left = {} /\ seen = 0
  /\ failures = FALSE /\ clean = FALSE

ProvisionNext ==
  \/ \E n \in Instance : LooksUpInstance(n) \/ WritesInstance(n) \/ InstanceAnswerLost(n)
  \/ DatabaseRebuilt \/ ProvisionStarts \/ ProvisionReturns
  \/ RemovesBackend \/ WatchStarts \/ ListsBackends
  \/ AddsBackend \/ AddAnswerLost \/ RegistersWebhook \/ HookAnswerLost \/ WatchReturns
  \/ ScriptEnds

ProvisionSpec == ProvisionInit /\ [][ProvisionNext]_provisionVars

ProvisionTypeOK ==
  /\ rows \in [Instance -> Nat] /\ wired \cup hunting \cup left \subseteq Instance
  /\ script \in {"none", "cleanuparr", "watchstate"}
  /\ step \in {"none", "look", "write", "list", "add", "hook", "done"}
  /\ {seen, backend, issued, hook} \subseteq 0..MaxToken
  /\ {failures, rebuilt, clean, detached} \subseteq BOOLEAN

\* "Idempotent by design": no instance twice, and exit 0 is full coverage.
InstancesConverge ==
  /\ \A n \in Instance : rows[n] <= 1
  /\ clean => wired = Instance

\* "A fresh add issues a new webhook token, which would silently orphan the one
\* Plex already posts to": only the owner can orphan it.
WebhookIsNotOrphaned ==
  /\ hook # 0 /\ ~detached => hook = backend
  /\ Running("watchstate", "done") /\ ~detached => hook # 0

(* Runs that died or lost an answer anywhere, and runs over what they left,
   neither double what is configured nor break it (both scripts).             *)
RerunsConverge == InstancesConverge /\ WebhookIsNotOrphaned
=============================================================================
