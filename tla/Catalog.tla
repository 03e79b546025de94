------------------------------ MODULE Catalog ------------------------------
(***************************************************************************)
(* The software catalog (control-panel-django/catalog/services.py):        *)
(* install and remove of vetted containers through the Docker SDK.  The    *)
(* panel serves requests on several threads and takes no lock: every       *)
(* Docker call of a request is a step of its own, and other requests,      *)
(* Docker and the user act in between.                                     *)
(*                                                                         *)
(* Docker is external: names are unique, a volume in use is not deleted, a *)
(* running container is not removed without force, and a host port belongs *)
(* to one running container.  A container is named here by the install     *)
(* request that created it (its Docker id).                                *)
(***************************************************************************)
EXTENDS Integers, FiniteSets

CONSTANTS
  Entry,      \* CATALOG_BY_ID
  Port, PortsOf,
  Volume, VolumesOf,
  Request,
  None

ASSUME CatalogAssumption ==
  /\ PortsOf \in [Entry -> SUBSET Port] /\ VolumesOf \in [Entry -> SUBSET Volume]
  \* the registry gives no two entries a port or a volume in common
  /\ \A e, f \in Entry : e # f => PortsOf[e] \cap PortsOf[f] = {}
                                  /\ VolumesOf[e] \cap VolumesOf[f] = {}
  /\ None \notin Request

VARIABLES
  box,      \* the container with the name catalog-<id>, or None
  state,    \* per container: "created" (never started), "running", "exited"
  volumes,  \* the named volumes that exist
  foreign,  \* per host port: the other containers that bind it
  req,      \* the requests under way and how they ended
  excused,  \* history: containers an outside event kept from starting
  remade    \* history: volumes a purge under way and an install both touch

vars == <<box, state, volumes, foreign, req, excused, remade>>
docker == <<box, state, volumes, foreign>>

Idle == [op |-> "none", entry |-> None, at |-> "idle", found |-> None,
         todo |-> {}, errors |-> {}]

At(r, place) == req[r].at = place
Moves(r, place) == req' = [req EXCEPT ![r].at = place]
Installed == {e \in Entry : box[e] # None}
InUse(v) == \E e \in Installed : v \in VolumesOf[e]

\* A request that has ended, and what its caller was told.
Ended == {"done", "already", "conflict", "missing", "failed", "lost"}

-----------------------------------------------------------------------------
(* install(): the lookup by name, ...                                      *)
Install(r, e) ==
  /\ At(r, "idle")
  /\ req' = [req EXCEPT ![r] = [Idle EXCEPT !.op = "install", !.entry = e,
               !.at = IF box[e] # None THEN "already" ELSE "ports"]]
  /\ UNCHANGED <<docker, excused, remade>>

\* ... _host_ports_in_use(): the bindings of all containers, stopped ones
\* included (catalog containers bind only ports of their own entry), ...
RunningPortsInUse == {p \in Port : foreign[p] = "running"}
HostPortsInUse == {p \in Port : foreign[p] # "none"}

CheckPorts(r) ==
  /\ At(r, "ports")
  /\ Moves(r, IF PortsOf[req[r].entry] \cap HostPortsInUse # {} THEN "conflict" ELSE "pull")
  /\ UNCHANGED <<docker, excused, remade>>

\* ... images.pull(), which takes its time and may raise, ...
Pull(r) ==
  /\ At(r, "pull")
  /\ Moves(r, "create") \/ Moves(r, "failed")
  /\ UNCHANGED <<docker, excused, remade>>

\* ... and containers.run(): it creates the container and its volumes, ...
Create(r) ==
  /\ At(r, "create")
  /\ LET e == req[r].entry IN
       /\ box[e] = None
       /\ box' = [box EXCEPT ![e] = r]
       /\ state' = [state EXCEPT ![r] = "created"]
       /\ volumes' = volumes \cup VolumesOf[e]
       /\ remade' = IF \E q \in Request : At(q, "volumes") /\ req[q].entry = e
                    THEN remade \cup VolumesOf[e] ELSE remade
  /\ Moves(r, "start")
  /\ UNCHANGED <<foreign, excused>>

\* (the name is taken by now, or the engine refuses)
CreateFails(r) ==
  /\ At(r, "create")
  /\ Moves(r, "failed")
  /\ UNCHANGED <<docker, excused, remade>>

\* ... and then starts it.
PortsFree(e) == \A p \in PortsOf[e] : foreign[p] # "running"

Start(r) ==
  /\ At(r, "start")
  /\ box[req[r].entry] = r /\ PortsFree(req[r].entry)
  /\ state' = [state EXCEPT ![r] = "running"]
  /\ Moves(r, "done")
  /\ UNCHANGED <<box, volumes, foreign, excused, remade>>

\* A port was taken meanwhile, or a remove() was faster: the container stays
\* behind as it is.
StartRefused(r) ==
  /\ At(r, "start")
  /\ box[req[r].entry] # r \/ ~PortsFree(req[r].entry)
  /\ Moves(r, "failed")
  /\ UNCHANGED <<docker, excused, remade>>

StartFails(r) ==
  /\ At(r, "start")
  /\ excused' = excused \cup {r}
  /\ Moves(r, "failed")
  /\ UNCHANGED <<docker, remade>>

-----------------------------------------------------------------------------
(* remove(): one lookup by name; stop and remove act on the id it found.   *)
Remove(r, e, purge) ==
  /\ At(r, "idle")
  /\ req' = [req EXCEPT ![r] = [Idle EXCEPT !.entry = e, !.found = box[e],
               !.op = IF purge THEN "purge" ELSE "remove",
               !.at = IF box[e] = None THEN "missing" ELSE "stop"]]
  /\ UNCHANGED <<docker, excused, remade>>

WhoHasTheName(r) == box[req[r].entry]
Handle(r) == req[r].found

Exists(r) == Handle(r) # None /\ box[req[r].entry] = Handle(r)

Stop(r) ==
  /\ At(r, "stop") /\ Exists(r)
  /\ state' = [state EXCEPT ![Handle(r)] = IF @ = "running" THEN "exited" ELSE @]
  /\ Moves(r, "delete")
  /\ UNCHANGED <<box, volumes, foreign, excused, remade>>

\* remove_volumes asks for the volumes as well; the default keeps them.
AfterDelete(r) == IF req[r].op = "purge" THEN "volumes" ELSE "done"

Delete(r) ==
  /\ At(r, "delete") /\ Exists(r) /\ state[Handle(r)] # "running"
  /\ box' = [box EXCEPT ![req[r].entry] = None]
  /\ req' = [req EXCEPT ![r].at = AfterDelete(r), ![r].todo = VolumesOf[req[r].entry]]
  /\ UNCHANGED <<state, volumes, foreign, excused, remade>>

\* Either call raised: the container is gone or runs again, or the engine
\* failed; what the call before it did stays done.
RemoveFails(r) ==
  /\ At(r, "stop") \/ At(r, "delete")
  /\ Moves(r, "failed")
  /\ UNCHANGED <<docker, excused, remade>>

\* NotFound goes on with the next volume, any other error is noted.
StopAtMissing(r, v) == {}
AfterMissing(r, v) == req[r].todo \ {v}

DeleteVolume(r, v) ==
  /\ At(r, "volumes") /\ v \in req[r].todo
  /\ \/ /\ v \notin volumes
        /\ req' = [req EXCEPT ![r].todo = AfterMissing(r, v)]
        /\ UNCHANGED volumes
     \/ /\ v \in volumes /\ ~InUse(v)
        /\ volumes' = volumes \ {v}
        /\ req' = [req EXCEPT ![r].todo = @ \ {v}]
     \/ /\ v \in volumes
        /\ req' = [req EXCEPT ![r].todo = @ \ {v}, ![r].errors = @ \cup {v}]
        /\ UNCHANGED volumes
  /\ UNCHANGED <<box, state, foreign, excused, remade>>

VolumesDone(r) ==
  /\ At(r, "volumes") /\ req[r].todo = {}
  /\ Moves(r, "done")
  /\ UNCHANGED <<docker, excused, remade>>

-----------------------------------------------------------------------------
(* What happens around the requests.                                       *)

\* A container of the catalog exits, or is started again (its restart policy,
\* a user).
Exits(e) ==
  /\ e \in Installed /\ state[box[e]] = "running"
  /\ state' = [state EXCEPT ![box[e]] = "exited"]
  /\ UNCHANGED <<box, volumes, foreign, req, excused, remade>>

Restarts(e) ==
  /\ e \in Installed /\ state[box[e]] = "exited" /\ PortsFree(e)
  /\ state' = [state EXCEPT ![box[e]] = "running"]
  /\ UNCHANGED <<box, volumes, foreign, req, excused, remade>>

\* Somebody else creates a container that binds the port: installs past their
\* check cannot know.
ForeignCreated(p) ==
  /\ foreign[p] = "none"
  /\ foreign' = [foreign EXCEPT ![p] = "stopped"]
  /\ excused' = excused \cup
       {r \in Request : req[r].op = "install" /\ req[r].at \in {"pull", "create", "start"}
                        /\ p \in PortsOf[req[r].entry]}
  /\ UNCHANGED <<box, state, volumes, req, remade>>

ForeignStartsOrStops(p) ==
  /\ \/ /\ foreign[p] = "stopped"
        /\ \A e \in Installed : p \in PortsOf[e] => state[box[e]] # "running"
        /\ foreign' = [foreign EXCEPT ![p] = "running"]
     \/ /\ foreign[p] = "running"
        /\ foreign' = [foreign EXCEPT ![p] = "stopped"]
  /\ UNCHANGED <<box, state, volumes, req, excused, remade>>

ForeignRemoved(p) ==
  /\ foreign[p] = "stopped"
  /\ foreign' = [foreign EXCEPT ![p] = "none"]
  /\ UNCHANGED <<box, state, volumes, req, excused, remade>>

\* An unused volume is deleted by hand or by a prune.
VolumePruned(v) ==
  /\ v \in volumes /\ ~InUse(v)
  /\ volumes' = volumes \ {v}
  /\ UNCHANGED <<box, state, foreign, req, excused, remade>>

\* The panel's process ends; no request is resumed.
PanelEnds ==
  LET cut == {r \in Request : req[r].at \notin Ended \cup {"idle"}} IN
    /\ cut # {}
    /\ req' = [r \in Request |-> IF r \in cut THEN [req[r] EXCEPT !.at = "lost"] ELSE req[r]]
    /\ excused' = excused \cup cut
    /\ UNCHANGED <<docker, remade>>

-----------------------------------------------------------------------------
Init ==
  /\ box = [e \in Entry |-> None] /\ state = [r \in Request |-> "created"]
  /\ volumes = {}
  /\ foreign \in [Port -> {"none", "stopped"}]
  /\ req = [r \in Request |-> Idle]
  /\ excused = {} /\ remade = {}

Next ==
  \/ \E r \in Request :
       \/ \E e \in Entry : Install(r, e) \/ \E purge \in BOOLEAN : Remove(r, e, purge)
       \/ CheckPorts(r) \/ Pull(r) \/ Create(r) \/ CreateFails(r)
       \/ Start(r) \/ StartRefused(r) \/ StartFails(r)
       \/ Stop(r) \/ Delete(r) \/ RemoveFails(r) \/ VolumesDone(r)
       \/ \E v \in Volume : DeleteVolume(r, v)
  \/ \E e \in Entry : Exits(e) \/ Restarts(e)
  \/ \E p \in Port : ForeignCreated(p) \/ ForeignStartsOrStops(p) \/ ForeignRemoved(p)
  \/ \E v \in Volume : VolumePruned(v)
  \/ PanelEnds

Spec == Init /\ [][Next]_vars

-----------------------------------------------------------------------------
(* Types; a container's name is held by an install of that entry, and only a
   remove that was asked to delete the data gets to the volumes.             *)
TypeOK ==
  /\ \A e \in Entry : box[e] # None =>
       box[e] \in Request /\ req[box[e]].op = "install" /\ req[box[e]].entry = e
  /\ state \in [Request -> {"created", "running", "exited"}]
  /\ volumes \subseteq Volume
  /\ foreign \in [Port -> {"none", "stopped", "running"}]
  /\ \A r \in Request :
       /\ req[r].at \in Ended \cup {"idle", "ports", "pull", "create", "start", "stop", "delete", "volumes"}
       /\ req[r].found \in Request \cup {None}
       /\ At(r, "volumes") => req[r].op = "purge"
       /\ req[r].errors \cup req[r].todo \subseteq Volume

(* A container that was created but never started, so that the next install
   answers "already installed", is left behind only when the engine failed,
   the panel ended, or somebody bound the port after the check: of the other
   containers that existed at the check, stopped ones included, none can get
   in the way, whatever they do while the image is pulled.                   *)
HalfInstalledHasCause ==
  \A e \in Installed :
    state[box[e]] = "created" => req[box[e]].at = "start" \/ box[e] \in excused

(* remove() can be overtaken by another remove and a new install of the same
   entry: the container that goes is always one that the remove itself found. *)
RemoveSparesReinstall ==
  [][\A e \in Entry : box[e] # None /\ box'[e] # box[e] =>
       \E r \in Request : At(r, "delete") /\ req[r].found = box[e]]_vars

(* A remove with remove_volumes that reports no failed volume has left none of
   them, but for those a new install made while it was deleting.             *)
ReportedVolumesAreGone ==
  [][\A r \in Request :
       At(r, "volumes") /\ req'[r].at = "done" /\ req'[r].errors = {} =>
         VolumesOf[req[r].entry] \cap volumes' \subseteq remade']_vars
=============================================================================
