--------------------------- MODULE FleetRestart ---------------------------
(***************************************************************************)
(* The panel's fleet operations (control-panel-django/host/services.py and *)
(* core/docker_client.py): restart, stop and start of one container, and   *)
(* restart_all(), which restarts the fleet in FUSE-safe mount order on a   *)
(* background thread.  Requests overlap: nothing excludes a second         *)
(* restart_all or a single operation while a worker runs.                  *)
(*                                                                         *)
(* Docker, health checks and the FUSE mount are external.  A container     *)
(* that bind-mounts the FUSE path gets, when it starts, a reference to the *)
(* mount that is live then; the reference is stale from the moment the     *)
(* mount goes away and does not self-heal (docs/landmines.md:17-19).       *)
(***************************************************************************)
EXTENDS Integers, FiniteSets

CONSTANTS
  Container,   \* the compose project, the panel included
  Panel,       \* the container this code runs in
  Prereqs,     \* MOUNT_PREREQS (nzbdav)
  Provider,    \* the one member of MOUNT_PROVIDERS (nzbdav_rclone)
  Dependents,  \* MOUNT_DEPENDENTS
  Binders,     \* containers whose compose volumes bind the FUSE path
  Checked,     \* containers with a health check
  Worker       \* the background threads restart_all() may start

ASSUME FleetAssumption ==
  /\ Panel \in Container /\ Provider \in Container
  /\ Prereqs \subseteq Container /\ Dependents \subseteq Container
  /\ Binders \subseteq Container /\ Checked \subseteq Container
  /\ Panel \notin Prereqs \cup Dependents \cup {Provider}
  /\ Provider \notin Prereqs \cup Dependents \cup Binders
  /\ Prereqs \cap Dependents = {}

VARIABLES
  running,    \* containers Docker reports as running
  health,     \* State.Health.Status of each container, "none" without a check
  mounted,    \* the FUSE mount is live
  stale,      \* running binders whose reference is not to the live mount
  phase,      \* per worker: 0 not started, 1..7 in a stage, Done or Lost
  todo,       \* per worker: containers its present loop has still to visit
  disturbed   \* history: something outside the promise of restart_all
              \* happened to the mount (see Disturb)

vars == <<running, health, mounted, stale, phase, todo, disturbed>>

Targets == Container \ {Panel}

(* The loops of worker(), in order.                                        *)
Done == 8
Lost == 9
Restarting == {1, 3, 5, 6, 7}
Awaiting   == {2, 4}

Rest == Targets \ (Prereqs \cup Dependents \cup {Provider})

StageWithoutRebind == <<Prereqs, Prereqs, {Provider}, {Provider}, Rest, Dependents, {}>>

StageDependentsEarly ==
  <<Prereqs, Dependents, {Provider}, {Provider}, Rest, {}, Prereqs>>

Stage == <<Prereqs, Prereqs, {Provider}, {Provider}, Rest, Dependents, Prereqs>>

Active(w) == phase[w] \in 1..7

-----------------------------------------------------------------------------
(* Docker and the mount.                                                   *)

\* The container is started anew: a fresh health status; the provider drops the
\* old mount and has still to mount again; a binder picks up what is live.
Started(c) ==
  /\ running' = running \cup {c}
  /\ health' = [health EXCEPT ![c] = IF c \in Checked THEN "starting" ELSE "none"]
  /\ mounted' = (mounted /\ c # Provider)
  /\ stale' = IF c = Provider THEN Binders \cap running
              ELSE IF c \in Binders /\ ~mounted THEN stale \cup {c}
              ELSE stale \ {c}

Stopped(c) ==
  /\ running' = running \ {c}
  /\ health' = [health EXCEPT ![c] = "none"]
  /\ mounted' = (mounted /\ c # Provider)
  /\ stale' = IF c = Provider THEN Binders \cap running ELSE stale \ {c}

\* The engine call raised: nothing happened, or the stop half did, or all of it
\* did and only the answer was lost.
EngineFails(c) ==
  \/ UNCHANGED <<running, health, mounted, stale>>
  \/ Stopped(c)
  \/ Started(c)

\* rclone has mounted again.
ProviderMounts ==
  /\ Provider \in running /\ ~mounted
  /\ mounted' = TRUE
  /\ UNCHANGED <<running, health, stale, phase, todo, disturbed>>

\* A health check ran: the provider's is "mountpoint -q".
HealthCheck(c) ==
  /\ c \in running \cap Checked
  /\ \E h \in {"healthy", "unhealthy"} :
       /\ h # health[c]
       /\ (c = Provider /\ h = "healthy") => mounted
       /\ health' = [health EXCEPT ![c] = h]
  /\ UNCHANGED <<running, mounted, stale, phase, todo, disturbed>>

\* rclone dies outside any operation; Docker restarts it (unless-stopped).
MountLost ==
  /\ mounted
  /\ Started(Provider)
  /\ disturbed' = TRUE
  /\ UNCHANGED <<phase, todo>>

-----------------------------------------------------------------------------
(* restart_all(): the request lists the containers and starts a thread.    *)
RestartAll(w) ==
  /\ phase[w] = 0
  /\ phase' = [phase EXCEPT ![w] = 1]
  /\ todo' = [todo EXCEPT ![w] = Stage[1]]
  /\ UNCHANGED <<running, health, mounted, stale, disturbed>>

\* One c.restart(timeout=30) of a restart loop.
WorkerRestarts(w, c) ==
  /\ phase[w] \in Restarting /\ c \in todo[w]
  /\ todo' = [todo EXCEPT ![w] = @ \ {c}]
  /\ Started(c)
  /\ UNCHANGED <<phase, disturbed>>

\* The same when it raises: printed, and the loop goes on.
WorkerRestartFails(w, c) ==
  /\ phase[w] \in Restarting /\ c \in todo[w]
  /\ todo' = [todo EXCEPT ![w] = @ \ {c}]
  /\ EngineFails(c)
  /\ disturbed' = TRUE
  /\ UNCHANGED phase

\* wait_for_healthy() returns: it saw "healthy" ...
SeesHealthy(w, c) ==
  /\ phase[w] \in Awaiting /\ c \in todo[w] /\ health[c] = "healthy"
  /\ todo' = [todo EXCEPT ![w] = @ \ {c}]
  /\ UNCHANGED <<running, health, mounted, stale, phase, disturbed>>

\* ... or its deadline passed (60 s, and 10 s more without a health block).
WaitsForever(w, c) == FALSE
DeadlinePasses(w, c) == health[c] # "healthy"

GivesUpWaiting(w, c) ==
  /\ phase[w] \in Awaiting /\ c \in todo[w]
  /\ DeadlinePasses(w, c)
  /\ todo' = [todo EXCEPT ![w] = @ \ {c}]
  /\ disturbed' = (disturbed \/ (c = Provider /\ ~mounted))
  /\ UNCHANGED <<running, health, mounted, stale, phase>>

NextStage(w) ==
  /\ Active(w) /\ todo[w] = {}
  /\ phase' = [phase EXCEPT ![w] = @ + 1]
  /\ todo' = [todo EXCEPT ![w] = IF phase[w] < 7 THEN Stage[phase[w] + 1] ELSE {}]
  /\ UNCHANGED <<running, health, mounted, stale, disturbed>>

\* The panel's process ends (its container is recreated, or crashes): worker
\* threads are daemon threads and end with it, nothing resumes them.
PanelEnds ==
  /\ \E w \in Worker : Active(w)
  /\ phase' = [w \in Worker |-> IF Active(w) THEN Lost ELSE phase[w]]
  /\ todo' = [w \in Worker |-> {}]
  /\ disturbed' = TRUE
  /\ UNCHANGED <<running, health, mounted, stale>>

-----------------------------------------------------------------------------
(* Operations on one container.  On the provider they touch the mount       *)
(* outside restart_all's order.                                             *)
Disturb(c) == disturbed' = (disturbed \/ c = Provider)

\* reject_self: the panel neither stops nor restarts itself.  Plex is only
\* restarted when the caller passes activated=true, which any caller may.
RestartContainer(c) ==
  /\ c # Panel
  /\ Started(c) \/ EngineFails(c)
  /\ Disturb(c)
  /\ UNCHANGED <<phase, todo>>

StopContainer(c) ==
  /\ c # Panel /\ c \in running
  /\ Stopped(c) \/ UNCHANGED <<running, health, mounted, stale>>
  /\ Disturb(c)
  /\ UNCHANGED <<phase, todo>>

StartContainer(c) ==
  /\ c \notin running
  /\ Started(c) \/ UNCHANGED <<running, health, mounted, stale>>
  /\ Disturb(c)
  /\ UNCHANGED <<phase, todo>>

-----------------------------------------------------------------------------
Init ==
  /\ running = Container
  /\ health = [c \in Container |-> IF c \in Checked THEN "healthy" ELSE "none"]
  /\ mounted = TRUE /\ stale = {}
  /\ phase = [w \in Worker |-> 0] /\ todo = [w \in Worker |-> {}]
  /\ disturbed = FALSE

WorkerStep(w) ==
  \/ \E c \in Container :
       \/ WorkerRestarts(w, c) \/ WorkerRestartFails(w, c)
       \/ SeesHealthy(w, c) \/ GivesUpWaiting(w, c)
  \/ NextStage(w)

Next ==
  \/ \E w \in Worker : RestartAll(w) \/ WorkerStep(w)
  \/ \E c \in Container : RestartContainer(c) \/ StopContainer(c) \/ StartContainer(c)
  \/ \E c \in Container : HealthCheck(c)
  \/ ProviderMounts \/ MountLost \/ PanelEnds

Spec == Init /\ [][Next]_vars

\* A thread that can run does run; every engine call and every
\* wait_for_healthy() returns.
FairSpec == Spec /\ \A w \in Worker : WF_vars(WorkerStep(w))

-----------------------------------------------------------------------------
(* Types; a worker never visits the panel, and an idle one visits nothing. *)
TypeOK ==
  /\ running \subseteq Container
  /\ health \in [Container -> {"none", "starting", "healthy", "unhealthy"}]
  /\ mounted \in BOOLEAN
  /\ stale \subseteq Binders
  /\ phase \in [Worker -> 0..9]
  /\ todo \in [Worker -> SUBSET Targets]
  /\ disturbed \in BOOLEAN

\* Worker w has restarted the provider or is about to, and waits for it.
WillAwaitMount(w) == phase[w] = 3 \/ (phase[w] = 4 /\ Provider \in todo[w])

\* Worker w will still restart c, after the provider has been waited for.
Owes(w, c) ==
  \/ phase[w] \in 3..7 /\ \E i \in {5, 6, 7} : i > phase[w] /\ c \in Stage[i]
  \/ phase[w] \in {5, 6, 7} /\ c \in todo[w]

\* The undertakings of MountCascade are those of the workers.
Cascade == INSTANCE MountCascade WITH
  owed <- {c \in Container : \E w \in Worker : Owes(w, c)},
  awaited <- \E w \in Worker : WillAwaitMount(w)

(* However many workers and single operations overlap, every step of the fleet
   is a step of the abstract promise: the mount goes only under undertakings
   that cover every binder, the wait ends only on a live mount, and a restart
   that is owed is discharged only on it (restart_all, its worker's loops).   *)
ImplementsCascade == Cascade!CascadeSpec

(* However many restart_all workers and single operations overlap, a container
   left with a dead reference is never forgotten: some worker has its restart
   still ahead.  And while the mount is down, some worker is waiting for it.  *)
StaleBindersAreOwed ==
  ~disturbed =>
    /\ \A c \in stale \ {Panel} : \E w \in Worker : Owes(w, c)
    /\ ~mounted => \E w \in Worker : WillAwaitMount(w)

(* What restart_all promises ("FUSE-safe mount order"): once every worker has
   ended, the mount is live and every container that binds it was started on
   the live mount, unless a restart failed, the provider was not back before
   the deadline, or something else touched the mount.                        *)
QuiescentFleetIsFresh ==
  (~disturbed /\ \A w \in Worker : ~Active(w)) => mounted /\ stale \subseteq {Panel}

(* A restart-all ends, also when a container never becomes healthy.          *)
RestartAllEnds == \A w \in Worker : Active(w) ~> phase[w] \in {Done, Lost}

(* mount_health() reads the mount through the panel's own bind.  "Every known
   FUSE mountpoint under /mnt, checked for a clean listing - catches a stale
   mount": after a restart_all that went well it should find a clean listing. *)
MountHealthSeesLiveMount ==
  (~disturbed /\ \A w \in Worker : ~Active(w)) => Panel \notin stale
=============================================================================
