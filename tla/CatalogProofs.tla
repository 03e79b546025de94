---------------------------- MODULE CatalogProofs ---------------------------
(*****************************************************************************)
(* Proofs about the software catalog, for every set of entries, concurrent  *)
(* requests, ports and volumes.                                             *)
(*****************************************************************************)
EXTENDS Catalog, TLAPS

(* Where a request can be.                                                 *)
Place == {"idle", "ports", "pull", "create", "start", "stop", "delete", "volumes",
          "done", "already", "conflict", "missing", "failed", "lost"}

(* The places of an install.                                               *)
Installing == {"ports", "pull", "create", "start"}

(* The places of an install past its port check.                           *)
PastCheck == {"pull", "create", "start"}

(* The records a request can be.                                           *)
RequestRecord ==
  [op : {"none", "install", "remove", "purge"}, entry : Entry \cup {None}, at : Place,
   found : Request \cup {None}, todo : SUBSET Volume, errors : SUBSET Volume]

(* The place of a request fits what it was asked for.                          *)
Coherent(q) ==
  /\ q.at = "idle" => q.op = "none"
  /\ q.at \in Installing => q.op = "install" /\ q.entry \in Entry
  /\ q.at \in {"stop", "delete"} => q.op \in {"remove", "purge"} /\ q.entry \in Entry
  /\ q.at = "volumes" => q.op = "purge" /\ q.entry \in Entry

(* Types of Docker's objects and of the requests.                          *)
CatalogTypes ==
  /\ box \in [Entry -> Request \cup {None}]
  /\ state \in [Request -> {"created", "running", "exited"}]
  /\ volumes \subseteq Volume
  /\ foreign \in [Port -> {"none", "stopped", "running"}]
  /\ req \in [Request -> RequestRecord]
  /\ \A r \in Request : Coherent(req[r])
  /\ \A e \in Entry : box[e] # None => req[box[e]].op = "install" /\ req[box[e]].entry = e

(* A port in use past the check was taken after it.                            *)
PortsKnown ==
  \A r \in Request : req[r].at \in PastCheck =>
    \A p \in PortsOf[req[r].entry] : foreign[p] # "none" => r \in excused

(* A volume that a purge is through with is gone, noted or made again.         *)
VolumesKnown ==
  \A r \in Request : req[r].at = "volumes" =>
    \A v \in VolumesOf[req[r].entry] :
      v \in req[r].todo \cup req[r].errors \cup remade \/ v \notin volumes

(* The parts together; what is checked is one of them.                     *)
CatalogInv == CatalogTypes /\ PortsKnown /\ VolumesKnown /\ HalfInstalledHasCause

(* Nothing is installed.                                                   *)
LEMMA CatalogInvInit == Init => CatalogInv
<1> SUFFICES ASSUME Init PROVE CatalogInv
  OBVIOUS
<1>1. Idle \in RequestRecord /\ Idle.at = "idle" /\ Idle.op = "none"
  BY DEF Idle, RequestRecord, Place
<1>2. Coherent(Idle)
  BY <1>1 DEF Coherent, Installing
<1>3. foreign \in [Port -> {"none", "stopped", "running"}]
  BY DEF Init
<1>4. CatalogTypes
  BY <1>1, <1>2, <1>3 DEF Init, CatalogTypes
<1>5. \A r \in Request : req[r].at = "idle"
  BY <1>1 DEF Init
<1> QED BY <1>4, <1>5 DEF Init, CatalogInv, PortsKnown, VolumesKnown, HalfInstalledHasCause, Installed, PastCheck

(* A step of one request that leaves the containers as they are.               *)
LEMMA RequestStep ==
  ASSUME CatalogInv, NEW r \in Request, NEW q \in RequestRecord, req' = [req EXCEPT ![r] = q],
         UNCHANGED <<box, state, foreign>>, volumes' \subseteq volumes,
         excused \subseteq excused', remade' = remade, Coherent(q),
         req[r].op = "install" => q.op = "install" /\ q.entry = req[r].entry,
         req[r].at = "start" =>
           r \in excused' \/ \A e \in Entry : box[e] = r => state[r] # "created",
         q.at \in PastCheck =>
           \A p \in PortsOf[q.entry] : foreign[p] # "none" => r \in excused',
         q.at = "volumes" =>
           \A v \in VolumesOf[q.entry] :
             v \in q.todo \cup q.errors \cup remade \/ v \notin volumes'
  PROVE  CatalogInv'
<1> USE DEF CatalogInv
<1>1. req' \in [Request -> RequestRecord] /\ req'[r] = q /\ \A x \in Request : x # r => req'[x] = req[x]
  BY DEF CatalogTypes
<1> HIDE DEF RequestRecord
<1>2. \A e \in Entry : box[e] # None => req'[box[e]].op = "install" /\ req'[box[e]].entry = e
  <2> SUFFICES ASSUME NEW e \in Entry, box[e] # None
               PROVE  req'[box[e]].op = "install" /\ req'[box[e]].entry = e
    OBVIOUS
  <2>1. box[e] \in Request /\ req[box[e]].op = "install" /\ req[box[e]].entry = e
    BY DEF CatalogTypes
  <2> QED BY <1>1, <2>1
<1>3. \A x \in Request : Coherent(req'[x])
  BY <1>1 DEF CatalogTypes
<1>4. CatalogTypes'
  BY <1>1, <1>2, <1>3 DEF CatalogTypes
<1>5. PortsKnown'
  BY <1>1 DEF PortsKnown
<1>6. VolumesKnown'
  BY <1>1 DEF VolumesKnown
<1>7. HalfInstalledHasCause'
  <2> SUFFICES ASSUME NEW e \in Entry, box[e] # None, state[box[e]] = "created"
               PROVE  req'[box[e]].at = "start" \/ box[e] \in excused'
    BY DEF HalfInstalledHasCause, Installed
  <2>1. box[e] \in Request /\ (req[box[e]].at = "start" \/ box[e] \in excused)
    BY DEF HalfInstalledHasCause, Installed, CatalogTypes
  <2>2. CASE box[e] = r
    BY <1>1, <2>1, <2>2
  <2>3. CASE box[e] # r
    BY <1>1, <2>1, <2>3
  <2> QED BY <2>2, <2>3
<1> QED BY <1>4, <1>5, <1>6, <1>7

(* What Moves does to the record of a request.                                 *)
LEMMA MovesFacts ==
  ASSUME CatalogTypes, NEW r \in Request, NEW place \in Place, Moves(r, place)
  PROVE  \E q \in RequestRecord :
           /\ req' = [req EXCEPT ![r] = q] /\ q.at = place
           /\ q.op = req[r].op /\ q.entry = req[r].entry /\ q.found = req[r].found
           /\ q.todo = req[r].todo /\ q.errors = req[r].errors
<1> DEFINE q == [req[r] EXCEPT !.at = place]
<1>1. req[r] \in RequestRecord /\ req' = [req EXCEPT ![r] = q]
  BY DEF CatalogTypes, Moves
<1>2. /\ q \in RequestRecord /\ q.at = place
      /\ q.op = req[r].op /\ q.entry = req[r].entry /\ q.found = req[r].found
      /\ q.todo = req[r].todo /\ q.errors = req[r].errors
  BY <1>1 DEF RequestRecord
<1> HIDE DEF q
<1> QED BY <1>1, <1>2

(* A request that moves on, or ends.                                           *)
LEMMA MoveStep ==
  ASSUME CatalogInv, NEW r \in Request, NEW place \in Place, Moves(r, place),
         UNCHANGED docker, excused \subseteq excused', remade' = remade,
         req[r].at = "start" =>
           r \in excused' \/ \A e \in Entry : box[e] = r => state[r] # "created",
         \/ place \in Ended
         \/ req[r].at = "ports" /\ place = "pull" /\ \A p \in PortsOf[req[r].entry] : foreign[p] = "none"
         \/ req[r].at = "pull" /\ place = "create"
  PROVE  CatalogInv'
<1>1. PICK q \in RequestRecord :
           /\ req' = [req EXCEPT ![r] = q] /\ q.at = place
           /\ q.op = req[r].op /\ q.entry = req[r].entry /\ q.found = req[r].found
           /\ q.todo = req[r].todo /\ q.errors = req[r].errors
  BY MovesFacts DEF CatalogInv
<1>2. UNCHANGED <<box, state, volumes, foreign>>
  BY DEF docker
<1>3. Coherent(q)
  BY <1>1 DEF CatalogInv, CatalogTypes, Coherent, Installing, Ended
<1>4. q.at \in PastCheck => \A p \in PortsOf[q.entry] : foreign[p] # "none" => r \in excused'
  BY <1>1 DEF CatalogInv, PortsKnown, PastCheck, Ended
<1>5. q.at # "volumes"
  BY <1>1 DEF Ended
<1> HIDE DEF RequestRecord
<1> QED BY <1>1, <1>2, <1>3, <1>4, <1>5, RequestStep

(* A request is in order.                                                  *)
LEMMA RecordFacts ==
  ASSUME CatalogInv, NEW r \in Request
  PROVE  /\ req[r] \in RequestRecord /\ Coherent(req[r])
         /\ req[r].todo \subseteq Volume /\ req[r].errors \subseteq Volume
         /\ req[r].found \in Request \cup {None} /\ req[r].at \in Place
BY DEF CatalogInv, CatalogTypes, RequestRecord

(* An install starts.                                                      *)
LEMMA InstallStep ==
  ASSUME CatalogInv, NEW r \in Request, NEW e \in Entry, Install(r, e)
  PROVE  CatalogInv'
<1> DEFINE a == IF box[e] # None THEN "already" ELSE "ports"
           q == [Idle EXCEPT !.op = "install", !.entry = e, !.at = a]
<1>1. req' = [req EXCEPT ![r] = q] /\ req[r].at = "idle" /\ UNCHANGED <<box, state, volumes, foreign, excused, remade>>
  BY DEF Install, At, docker
<1>2. a \in {"already", "ports"} /\ a \in Place
  BY DEF Place
<1> HIDE DEF a
<1>3. q \in RequestRecord /\ q.op = "install" /\ q.entry = e /\ q.at = a
  BY <1>2 DEF Idle, RequestRecord
<1> HIDE DEF q
<1>4. Coherent(q) /\ q.at \notin PastCheck /\ q.at # "volumes"
  BY <1>2, <1>3 DEF Coherent, Installing, PastCheck
<1>5. req[r].op = "none"
  BY <1>1, RecordFacts DEF Coherent
<1> QED BY <1>1, <1>3, <1>4, <1>5, RequestStep

(* A remove starts.                                                        *)
LEMMA RemoveStep ==
  ASSUME CatalogInv, NEW r \in Request, NEW e \in Entry, NEW purge \in BOOLEAN, Remove(r, e, purge)
  PROVE  CatalogInv'
<1> DEFINE a == IF box[e] = None THEN "missing" ELSE "stop"
           o == IF purge THEN "purge" ELSE "remove"
           f == box[e]
           q == [Idle EXCEPT !.entry = e, !.found = f, !.op = o, !.at = a]
<1>1. req' = [req EXCEPT ![r] = q] /\ req[r].at = "idle" /\ UNCHANGED <<box, state, volumes, foreign, excused, remade>>
  BY DEF Remove, At, docker
<1>2. a \in {"missing", "stop"} /\ a \in Place
  BY DEF Place
<1>3. o \in {"purge", "remove"}
  OBVIOUS
<1>f. f \in Request \cup {None}
  BY DEF CatalogInv, CatalogTypes
<1> HIDE DEF a, o, f
<1>4. q \in RequestRecord /\ q.op = o /\ q.entry = e /\ q.at = a
  BY <1>2, <1>3, <1>f DEF Idle, RequestRecord
<1> HIDE DEF q
<1>5. Coherent(q) /\ q.at \notin PastCheck /\ q.at # "volumes"
  BY <1>2, <1>3, <1>4 DEF Coherent, Installing, PastCheck
<1>6. req[r].op = "none"
  BY <1>1, RecordFacts DEF Coherent
<1> QED BY <1>1, <1>4, <1>5, <1>6, RequestStep

(* A purge deletes one volume.                                             *)
LEMMA DeleteVolumeStep ==
  ASSUME CatalogInv, NEW r \in Request, NEW v \in Volume, DeleteVolume(r, v)
  PROVE  CatalogInv'
<1>1. /\ req[r].at = "volumes" /\ v \in req[r].todo
      /\ UNCHANGED <<box, state, foreign, excused, remade>>
  BY DEF DeleteVolume, At
<1>2. req[r].entry \in Entry /\ req[r].op = "purge"
  BY <1>1, RecordFacts DEF Coherent
<1>3. ASSUME NEW q \in RequestRecord, req' = [req EXCEPT ![r] = q],
             q.at = req[r].at, q.op = req[r].op, q.entry = req[r].entry, q.todo = req[r].todo \ {v},
             req[r].errors \subseteq q.errors, volumes' \subseteq volumes,
             v \in q.errors \/ v \notin volumes'
      PROVE  CatalogInv'
  <2>1. Coherent(q) /\ q.at = "volumes" /\ q.at \notin PastCheck
    BY <1>1, <1>2, <1>3 DEF Coherent, Installing, PastCheck
  <2>2. \A w \in VolumesOf[q.entry] :
             w \in q.todo \cup q.errors \cup remade \/ w \notin volumes'
    <3>1. \A w \in VolumesOf[req[r].entry] :
            w \in req[r].todo \cup req[r].errors \cup remade \/ w \notin volumes
      BY <1>1 DEF CatalogInv, VolumesKnown
    <3> QED BY <1>3, <3>1
  <2> QED BY <1>1, <1>2, <1>3, <2>1, <2>2, RequestStep
<1> DEFINE left == [req[r] EXCEPT !.todo = req[r].todo \ {v}]
           noted == [req[r] EXCEPT !.todo = req[r].todo \ {v}, !.errors = req[r].errors \cup {v}]
<1>a. /\ left \in RequestRecord /\ left.at = req[r].at /\ left.op = req[r].op /\ left.entry = req[r].entry
      /\ left.todo = req[r].todo \ {v} /\ left.errors = req[r].errors
  BY RecordFacts DEF RequestRecord
<1>b. /\ noted \in RequestRecord /\ noted.at = req[r].at /\ noted.op = req[r].op
      /\ noted.entry = req[r].entry
      /\ noted.todo = req[r].todo \ {v} /\ noted.errors = req[r].errors \cup {v}
  BY RecordFacts DEF RequestRecord
<1>4. CASE v \notin volumes /\ req' = [req EXCEPT ![r].todo = AfterMissing(r, v)] /\ UNCHANGED volumes
  <2>1. req' = [req EXCEPT ![r] = left]
    BY <1>4 DEF AfterMissing
  <2> HIDE DEF left
  <2> QED BY <1>3, <1>4, <1>a, <2>1
<1>5. CASE v \in volumes /\ ~InUse(v) /\ volumes' = volumes \ {v}
           /\ req' = [req EXCEPT ![r].todo = @ \ {v}]
  <2>1. req' = [req EXCEPT ![r] = left]
    BY <1>5
  <2> HIDE DEF left
  <2> QED BY <1>3, <1>5, <1>a, <2>1
<1>6. CASE v \in volumes /\ UNCHANGED volumes
           /\ req' = [req EXCEPT ![r].todo = @ \ {v}, ![r].errors = @ \cup {v}]
  <2>1. req' = [req EXCEPT ![r] = noted]
    BY <1>6, RecordFacts DEF CatalogInv, CatalogTypes
  <2> HIDE DEF noted
  <2> QED BY <1>3, <1>6, <1>b, <2>1
<1> QED BY <1>4, <1>5, <1>6 DEF DeleteVolume

(* The container of an entry is the request's that installed it, and no other. *)
LEMMA OwnerFacts ==
  ASSUME CatalogInv, NEW e \in Entry, box[e] # None
  PROVE  /\ box[e] \in Request /\ req[box[e]].op = "install" /\ req[box[e]].entry = e
         /\ state[box[e]] = "created" => req[box[e]].at = "start" \/ box[e] \in excused
BY DEF CatalogInv, CatalogTypes, HalfInstalledHasCause, Installed

(* The ports and volumes of an entry.                                      *)
LEMMA EntryFacts ==
  \A e \in Entry : PortsOf[e] \subseteq Port /\ VolumesOf[e] \subseteq Volume
BY CatalogAssumption

(* An install creates its container.                                       *)
LEMMA CreateStep ==
  ASSUME CatalogInv, NEW r \in Request, Create(r)
  PROVE  CatalogInv'
<1> DEFINE e == req[r].entry
<1>1. /\ req[r].at = "create" /\ box[e] = None /\ box' = [box EXCEPT ![e] = r]
      /\ state' = [state EXCEPT ![r] = "created"] /\ volumes' = volumes \cup VolumesOf[e]
      /\ Moves(r, "start") /\ foreign' = foreign /\ excused' = excused
  BY DEF Create, At
<1>2. e \in Entry /\ req[r].op = "install" /\ "start" \in Place
  BY <1>1, RecordFacts DEF Coherent, Installing, Place
<1>3. PICK q \in RequestRecord :
           /\ req' = [req EXCEPT ![r] = q] /\ q.at = "start"
           /\ q.op = req[r].op /\ q.entry = req[r].entry
  BY <1>1, <1>2, MovesFacts DEF CatalogInv
<1>4. remade \subseteq remade' /\ \A x \in Request :
        req[x].at = "volumes" /\ req[x].entry = e => VolumesOf[e] \subseteq remade'
  BY DEF Create, At
<1> HIDE DEF e
<1>5. e = req[r].entry
  BY DEF e
<1>6. /\ req' \in [Request -> RequestRecord] /\ req'[r] = q
      /\ \A x \in Request : x # r => req'[x] = req[x]
  BY <1>3 DEF CatalogInv, CatalogTypes
<1> HIDE DEF RequestRecord
<1>7. /\ box' \in [Entry -> Request \cup {None}] /\ box'[e] = r
      /\ \A x \in Entry : x # e => box'[x] = box[x]
      /\ state' \in [Request -> {"created", "running", "exited"}]
      /\ \A x \in Request : x # r => state'[x] = state[x]
      /\ volumes' \subseteq Volume
  BY <1>1, <1>2, EntryFacts DEF CatalogInv, CatalogTypes
<1>8. \A x \in Entry : x # e /\ box[x] # None => box[x] # r
  BY <1>5, OwnerFacts
<1>9. \A x \in Request : Coherent(req'[x])
  BY <1>2, <1>3, <1>5, <1>6, RecordFacts DEF Coherent, Installing
<1>10. \A x \in Entry : box'[x] # None => req'[box'[x]].op = "install" /\ req'[box'[x]].entry = x
  BY <1>2, <1>3, <1>5, <1>6, <1>7, <1>8, OwnerFacts
<1>11. CatalogTypes'
  BY <1>1, <1>6, <1>7, <1>9, <1>10 DEF CatalogInv, CatalogTypes
<1>12. PortsKnown'
  BY <1>1, <1>3, <1>6 DEF CatalogInv, PortsKnown, PastCheck
<1>13. VolumesKnown'
  <2> SUFFICES ASSUME NEW x \in Request, req'[x].at = "volumes", NEW v \in VolumesOf[req'[x].entry]
               PROVE  v \in req'[x].todo \cup req'[x].errors \cup remade' \/ v \notin volumes'
    BY DEF VolumesKnown
  <2>1. x # r /\ req'[x] = req[x] /\ req[x].entry \in Entry
    BY <1>3, <1>6, RecordFacts DEF Coherent
  <2>2. v \in req[x].todo \cup req[x].errors \cup remade \/ v \notin volumes
    BY <2>1 DEF CatalogInv, VolumesKnown
  <2>3. CASE v \in VolumesOf[e]
    <3>1. req[x].entry = e
      BY <1>2, <2>1, <2>3, CatalogAssumption
    <3> QED BY <1>4, <2>1, <2>3, <3>1
  <2>4. CASE v \notin VolumesOf[e]
    BY <1>1, <1>4, <2>1, <2>2, <2>4
  <2> QED BY <2>3, <2>4
<1>14. HalfInstalledHasCause'
  <2> SUFFICES ASSUME NEW x \in Entry, box'[x] # None, state'[box'[x]] = "created"
               PROVE  req'[box'[x]].at = "start" \/ box'[x] \in excused'
    BY DEF HalfInstalledHasCause, Installed
  <2>1. CASE x = e
    BY <1>3, <1>6, <1>7, <2>1
  <2>2. CASE x # e
    BY <1>1, <1>6, <1>7, <1>8, <2>2, OwnerFacts
  <2> QED BY <2>1, <2>2
<1> QED BY <1>11, <1>12, <1>13, <1>14 DEF CatalogInv

(* A step that changes the state of a container, to what is not "created", and *)
(* at most the place of one request.                                           *)
LEMMA StateStep ==
  ASSUME CatalogInv, UNCHANGED <<box, volumes, foreign, excused, remade>>,
         state' \in [Request -> {"created", "running", "exited"}],
         \A c \in Request : state'[c] = "created" => state[c] = "created",
         \/ req' = req
         \/ \E r \in Request, q \in RequestRecord :
              /\ req' = [req EXCEPT ![r] = q] /\ Coherent(q)
              /\ q.op = req[r].op /\ q.entry = req[r].entry
              /\ q.at \notin PastCheck /\ q.at # "volumes"
              /\ req[r].op = "install" => state'[r] # "created"
  PROVE  CatalogInv'
<1> USE DEF CatalogInv
<1>1. CASE req' = req
  BY <1>1, OwnerFacts DEF CatalogTypes, PortsKnown, VolumesKnown, HalfInstalledHasCause, Installed
<1>2. ASSUME NEW r \in Request, NEW q \in RequestRecord,
             req' = [req EXCEPT ![r] = q], Coherent(q), q.op = req[r].op, q.entry = req[r].entry,
             q.at \notin PastCheck, q.at # "volumes", req[r].op = "install" => state'[r] # "created"
      PROVE  CatalogInv'
  <2>1. /\ req' \in [Request -> RequestRecord] /\ req'[r] = q
        /\ \A x \in Request : x # r => req'[x] = req[x]
    BY <1>2 DEF CatalogTypes
  <2> HIDE DEF RequestRecord
  <2>2. \A x \in Entry : box[x] # None => req'[box[x]].op = "install" /\ req'[box[x]].entry = x
    BY <1>2, <2>1, OwnerFacts
  <2>3. \A x \in Request : Coherent(req'[x])
    BY <1>2, <2>1 DEF CatalogTypes
  <2>4. CatalogTypes'
    BY <2>1, <2>2, <2>3 DEF CatalogTypes
  <2>5. PortsKnown' /\ VolumesKnown'
    BY <1>2, <2>1 DEF PortsKnown, VolumesKnown
  <2>6. HalfInstalledHasCause'
    <3> SUFFICES ASSUME NEW x \in Entry, box[x] # None, state'[box[x]] = "created"
                 PROVE  req'[box[x]].at = "start" \/ box[x] \in excused
      BY DEF HalfInstalledHasCause, Installed
    <3>1. box[x] \in Request /\ req[box[x]].op = "install" /\ state[box[x]] = "created"
      BY OwnerFacts
    <3>2. box[x] # r
      BY <1>2, <3>1
    <3> QED BY <2>1, <3>1, <3>2, OwnerFacts
  <2> QED BY <2>4, <2>5, <2>6
<1> QED BY <1>1, <1>2

(* An install starts its container.                                        *)
LEMMA StartStep ==
  ASSUME CatalogInv, NEW r \in Request, Start(r)
  PROVE  CatalogInv'
<1>1. /\ req[r].at = "start" /\ state' = [state EXCEPT ![r] = "running"] /\ Moves(r, "done")
      /\ UNCHANGED <<box, volumes, foreign, excused, remade>> /\ "done" \in Place
  BY DEF Start, At, Place
<1>2. PICK q \in RequestRecord :
           /\ req' = [req EXCEPT ![r] = q] /\ q.at = "done"
           /\ q.op = req[r].op /\ q.entry = req[r].entry
  BY <1>1, MovesFacts DEF CatalogInv
<1>3. Coherent(q) /\ q.at \notin PastCheck /\ q.at # "volumes"
  BY <1>2 DEF Coherent, Installing, PastCheck
<1>4. /\ state' \in [Request -> {"created", "running", "exited"}] /\ state'[r] # "created"
      /\ \A c \in Request : state'[c] = "created" => state[c] = "created"
  BY <1>1 DEF CatalogInv, CatalogTypes
<1> HIDE DEF RequestRecord
<1> QED BY <1>1, <1>2, <1>3, <1>4, StateStep

(* A remove stops the container it found.                                  *)
LEMMA StopStep ==
  ASSUME CatalogInv, NEW r \in Request, Stop(r)
  PROVE  CatalogInv'
<1>1. /\ req[r].at = "stop" /\ Moves(r, "delete") /\ "delete" \in Place
      /\ state' = [state EXCEPT ![Handle(r)] = IF state[Handle(r)] = "running" THEN "exited" ELSE state[Handle(r)]]
      /\ UNCHANGED <<box, volumes, foreign, excused, remade>>
  BY DEF Stop, At, Place
<1>2. PICK q \in RequestRecord :
           /\ req' = [req EXCEPT ![r] = q] /\ q.at = "delete"
           /\ q.op = req[r].op /\ q.entry = req[r].entry
  BY <1>1, MovesFacts DEF CatalogInv
<1>3. req[r].op \in {"remove", "purge"} /\ req[r].entry \in Entry
  BY <1>1, RecordFacts DEF Coherent
<1>4. Coherent(q) /\ q.at \notin PastCheck /\ q.at # "volumes"
  BY <1>2, <1>3 DEF Coherent, Installing, PastCheck
<1>5. /\ state' \in [Request -> {"created", "running", "exited"}]
      /\ \A c \in Request : state'[c] = "created" => state[c] = "created"
  BY <1>1 DEF CatalogInv, CatalogTypes
<1> HIDE DEF RequestRecord
<1> QED BY <1>1, <1>2, <1>3, <1>4, <1>5, StateStep

(* A remove deletes the container it found.                                *)
LEMMA DeleteStep ==
  ASSUME CatalogInv, NEW r \in Request, Delete(r)
  PROVE  CatalogInv'
<1> DEFINE e == req[r].entry
           a == AfterDelete(r)
           q == [req[r] EXCEPT !.at = a, !.todo = VolumesOf[e]]
<1>1. /\ req[r].at = "delete" /\ box' = [box EXCEPT ![e] = None] /\ req' = [req EXCEPT ![r] = q]
      /\ UNCHANGED <<state, volumes, foreign, excused, remade>>
  BY RecordFacts DEF Delete, At, CatalogInv, CatalogTypes
<1>2. e \in Entry /\ req[r].op \in {"remove", "purge"}
  BY <1>1, RecordFacts DEF Coherent
<1>3. a \in {"volumes", "done"} /\ a \in Place /\ (a = "volumes" => req[r].op = "purge")
  BY DEF AfterDelete, Place
<1>4. VolumesOf[e] \subseteq Volume
  BY <1>2, EntryFacts
<1> HIDE DEF a
<1>5. q \in RequestRecord /\ q.at = a /\ q.todo = VolumesOf[e] /\ q.op = req[r].op /\ q.entry = e
  BY <1>3, <1>4, RecordFacts DEF RequestRecord
<1> HIDE DEF q
<1>6. Coherent(q) /\ q.at \notin PastCheck
  BY <1>2, <1>3, <1>5 DEF Coherent, Installing, PastCheck
<1>7. /\ req' \in [Request -> RequestRecord] /\ req'[r] = q
      /\ \A x \in Request : x # r => req'[x] = req[x]
  BY <1>1, <1>5 DEF CatalogInv, CatalogTypes
<1> HIDE DEF RequestRecord, e
<1>8. /\ box' \in [Entry -> Request \cup {None}] /\ box'[e] = None
      /\ \A x \in Entry : x # e => box'[x] = box[x]
  BY <1>1, <1>2 DEF CatalogInv, CatalogTypes
<1>9. \A x \in Entry : box'[x] # None => box'[x] = box[x] /\ box[x] # None /\ box[x] # r
  BY <1>2, <1>8, OwnerFacts
<1>10. \A x \in Request : Coherent(req'[x])
  BY <1>6, <1>7 DEF CatalogInv, CatalogTypes
<1>11. \A x \in Entry : box'[x] # None => req'[box'[x]].op = "install" /\ req'[box'[x]].entry = x
  BY <1>7, <1>9, OwnerFacts
<1>12. CatalogTypes'
  BY <1>1, <1>7, <1>8, <1>10, <1>11 DEF CatalogInv, CatalogTypes
<1>13. PortsKnown'
  BY <1>1, <1>6, <1>7 DEF CatalogInv, PortsKnown
<1>14. VolumesKnown'
  BY <1>1, <1>5, <1>7 DEF CatalogInv, VolumesKnown
<1>15. HalfInstalledHasCause'
  <2> SUFFICES ASSUME NEW x \in Entry, box'[x] # None, state'[box'[x]] = "created"
               PROVE  req'[box'[x]].at = "start" \/ box'[x] \in excused'
    BY DEF HalfInstalledHasCause, Installed
  <2> QED BY <1>1, <1>7, <1>9, OwnerFacts
<1> QED BY <1>12, <1>13, <1>14, <1>15 DEF CatalogInv

(* What happens around the requests.                                           *)
LEMMA ContainerStep ==
  ASSUME CatalogInv, NEW e \in Entry, Exits(e) \/ Restarts(e)
  PROVE  CatalogInv'
<1>1. UNCHANGED <<box, volumes, foreign, excused, remade>> /\ req' = req
  BY DEF Exits, Restarts
<1>2. PICK s \in {"running", "exited"} : state' = [state EXCEPT ![box[e]] = s]
  BY DEF Exits, Restarts
<1>3. s # "created" /\ s \in {"created", "running", "exited"}
  BY <1>2
<1>4. /\ state' \in [Request -> {"created", "running", "exited"}]
      /\ \A c \in Request : state'[c] = "created" => state[c] = "created"
  BY <1>2, <1>3 DEF CatalogInv, CatalogTypes
<1> QED BY <1>1, <1>4, StateStep

(* Other containers come, start, stop and go: a port that one takes excuses
   the installs past their check.                                          *)
LEMMA PortStep ==
  ASSUME CatalogInv, NEW p \in Port,
         ForeignCreated(p) \/ ForeignStartsOrStops(p) \/ ForeignRemoved(p)
  PROVE  CatalogInv'
<1> USE DEF CatalogInv
<1>1. /\ UNCHANGED <<box, state, volumes, req, remade>> /\ excused \subseteq excused'
      /\ \E s \in {"none", "stopped", "running"} : foreign' = [foreign EXCEPT ![p] = s]
  BY DEF ForeignCreated, ForeignStartsOrStops, ForeignRemoved
<1>2. /\ foreign' \in [Port -> {"none", "stopped", "running"}]
      /\ \A x \in Port : x # p => foreign'[x] = foreign[x]
  BY <1>1 DEF CatalogTypes
<1>3. CatalogTypes'
  BY <1>1, <1>2 DEF CatalogTypes
<1>4. PortsKnown'
  <2> SUFFICES ASSUME NEW r \in Request, req[r].at \in PastCheck,
                      NEW x \in PortsOf[req[r].entry], foreign'[x] # "none"
               PROVE  r \in excused'
    BY <1>1 DEF PortsKnown
  <2>1. req[r].op = "install" /\ req[r].entry \in Entry
    BY RecordFacts DEF Coherent, PastCheck, Installing
  <2>2. x \in Port
    BY <2>1, EntryFacts
  <2>3. CASE foreign[x] # "none"
    BY <1>1, <2>3 DEF PortsKnown
  <2>4. CASE foreign[x] = "none"
    <3>1. x = p
      BY <1>2, <2>2, <2>4
    <3>2. ForeignCreated(p)
      BY <2>4, <3>1, <1>2 DEF ForeignStartsOrStops, ForeignRemoved
    <3> QED BY <2>1, <3>1, <3>2 DEF ForeignCreated, PastCheck
  <2> QED BY <2>3, <2>4
<1>5. VolumesKnown'
  BY <1>1 DEF VolumesKnown
<1>6. HalfInstalledHasCause'
  BY <1>1 DEF HalfInstalledHasCause, Installed
<1> QED BY <1>3, <1>4, <1>5, <1>6

(* Somebody prunes a volume.                                               *)
LEMMA PruneStep ==
  ASSUME CatalogInv, NEW v \in Volume, VolumePruned(v)
  PROVE  CatalogInv'
<1>1. UNCHANGED <<box, state, foreign, req, excused, remade>> /\ volumes' \subseteq volumes
  BY DEF VolumePruned
<1> QED BY <1>1 DEF CatalogInv, CatalogTypes, PortsKnown, VolumesKnown, HalfInstalledHasCause, Installed

(* The panel ends.                                                         *)
LEMMA PanelStep ==
  ASSUME CatalogInv, PanelEnds
  PROVE  CatalogInv'
<1> USE DEF CatalogInv
<1> DEFINE cut == {r \in Request : req[r].at \notin Ended \cup {"idle"}}
<1>1. /\ req' = [r \in Request |-> IF r \in cut THEN [req[r] EXCEPT !.at = "lost"] ELSE req[r]]
      /\ excused' = excused \cup cut
      /\ UNCHANGED <<box, state, volumes, foreign, remade>>
  BY DEF PanelEnds, docker
<1>2. ASSUME NEW r \in Request
      PROVE  /\ req'[r] \in RequestRecord /\ Coherent(req'[r])
             /\ req'[r].op = req[r].op /\ req'[r].entry = req[r].entry
             /\ r \in cut => req'[r].at = "lost"
             /\ r \notin cut => req'[r] = req[r] /\ req[r].at \in Ended \cup {"idle"}
  <2> DEFINE q == [req[r] EXCEPT !.at = "lost"]
  <2>1. "lost" \in Place
    BY DEF Place
  <2>2. q \in RequestRecord /\ q.at = "lost" /\ q.op = req[r].op /\ q.entry = req[r].entry
    BY <2>1, RecordFacts DEF RequestRecord
  <2>3. Coherent(q)
    BY <2>2 DEF Coherent, Installing
  <2>4. req'[r] = IF r \in cut THEN q ELSE req[r]
    BY <1>1
  <2> HIDE DEF q
  <2>5. r \notin cut => req[r].at \in Ended \cup {"idle"}
    OBVIOUS
  <2> HIDE DEF cut, RequestRecord
  <2> QED BY <2>2, <2>3, <2>4, <2>5, RecordFacts
<1> HIDE DEF cut, RequestRecord
<1>3. req' \in [Request -> RequestRecord]
  BY <1>1, <1>2
<1>4. CatalogTypes'
  BY <1>1, <1>2, <1>3 DEF CatalogTypes
<1>5. \A r \in Request : req'[r].at \notin PastCheck \cup {"volumes"}
  BY <1>2 DEF PastCheck, Ended
<1>6. PortsKnown' /\ VolumesKnown'
  BY <1>5 DEF PortsKnown, VolumesKnown
<1>7. HalfInstalledHasCause'
  <2> SUFFICES ASSUME NEW x \in Entry, box[x] # None, state[box[x]] = "created"
               PROVE  req'[box[x]].at = "start" \/ box[x] \in excused'
    BY <1>1 DEF HalfInstalledHasCause, Installed
  <2>1. box[x] \in Request /\ (req[box[x]].at = "start" \/ box[x] \in excused)
    BY OwnerFacts
  <2> QED BY <1>1, <1>2, <2>1
<1> QED BY <1>4, <1>6, <1>7

(* Every step keeps it.                                                    *)
LEMMA CatalogInvStep == CatalogInv /\ [Next]_vars => CatalogInv'
<1> SUFFICES ASSUME CatalogInv, [Next]_vars PROVE CatalogInv'
  OBVIOUS
<1>0. {"pull", "create", "done", "conflict", "failed"} \subseteq Place
  BY DEF Place
<1>1. ASSUME NEW r \in Request, CheckPorts(r) PROVE CatalogInv'
  <2>1. /\ req[r].at = "ports" /\ UNCHANGED <<docker, excused, remade>>
        /\ \/ Moves(r, "conflict")
           \/ Moves(r, "pull") /\ PortsOf[req[r].entry] \cap HostPortsInUse = {}
    BY <1>1 DEF CheckPorts, At
  <2>2. req[r].entry \in Entry
    BY <2>1, RecordFacts DEF Coherent, Installing
  <2>3. PortsOf[req[r].entry] \cap HostPortsInUse = {} =>
          \A p \in PortsOf[req[r].entry] : foreign[p] = "none"
    BY <2>2, EntryFacts DEF HostPortsInUse
  <2> QED BY <1>0, <2>1, <2>3, MoveStep DEF Ended
<1>2. ASSUME NEW r \in Request, Pull(r) PROVE CatalogInv'
  BY <1>0, <1>2, MoveStep DEF Pull, At, Ended
<1>3. ASSUME NEW r \in Request, CreateFails(r) PROVE CatalogInv'
  BY <1>0, <1>3, MoveStep DEF CreateFails, At, Ended
<1>4. ASSUME NEW r \in Request, StartRefused(r) PROVE CatalogInv'
  <2>1. /\ req[r].at = "start" /\ Moves(r, "failed") /\ UNCHANGED <<docker, excused, remade>>
        /\ box[req[r].entry] # r \/ ~PortsFree(req[r].entry)
    BY <1>4 DEF StartRefused, At
  <2>2. ASSUME NEW e \in Entry, box[e] = r PROVE r \in excused
    <3>1. e = req[r].entry
      BY <2>2, OwnerFacts, CatalogAssumption
    <3>2. \E p \in PortsOf[e] : foreign[p] = "running"
      BY <2>1, <2>2, <3>1 DEF PortsFree
    <3> QED BY <2>1, <3>1, <3>2 DEF CatalogInv, PortsKnown, PastCheck
  <2>3. r \in excused' \/ \A e \in Entry : box[e] = r => state[r] # "created"
    BY <2>1, <2>2
  <2> QED BY <1>0, <2>1, <2>3, MoveStep DEF Ended
<1>5. ASSUME NEW r \in Request, StartFails(r) PROVE CatalogInv'
  BY <1>0, <1>5, MoveStep DEF StartFails, At, Ended
<1>6. ASSUME NEW r \in Request, RemoveFails(r) PROVE CatalogInv'
  BY <1>0, <1>6, MoveStep DEF RemoveFails, At, Ended
<1>7. ASSUME NEW r \in Request, VolumesDone(r) PROVE CatalogInv'
  BY <1>0, <1>7, MoveStep DEF VolumesDone, At, Ended
<1>8. CASE UNCHANGED vars
  <2>1. UNCHANGED <<box, state, volumes, foreign, req, excused, remade>>
    BY <1>8 DEF vars
  <2> QED BY <2>1 DEF CatalogInv, CatalogTypes, PortsKnown, VolumesKnown, HalfInstalledHasCause, Installed
<1> QED BY <1>1, <1>2, <1>3, <1>4, <1>5, <1>6, <1>7, <1>8, InstallStep, RemoveStep, CreateStep,
           StartStep, StopStep, DeleteStep, DeleteVolumeStep, ContainerStep, PortStep, PruneStep,
           PanelStep DEF Next

(* The types of the catalog, for every set of entries, requests, ports and
   volumes.                                                                *)
THEOREM CatalogTypeCorrectness == Spec => []TypeOK
<1>1. CatalogInv => TypeOK
  BY DEF CatalogInv, CatalogTypes, TypeOK, RequestRecord, Coherent, Place, Ended, At
<1> QED BY CatalogInvInit, CatalogInvStep, <1>1, PTL DEF Spec

(* A container that was created and never started has a request still at it,
   or a cause: a port taken past the check, a failed start, a panel that
   ended (install, remove in catalog/services.py).                         *)
THEOREM InstallCorrectness == Spec => []HalfInstalledHasCause
<1>1. CatalogInv => HalfInstalledHasCause
  BY DEF CatalogInv
<1> QED BY CatalogInvInit, CatalogInvStep, <1>1, PTL DEF Spec

-----------------------------------------------------------------------------
(* The container of an entry changes only in two ways.                         *)
SparesStep ==
  \A e \in Entry : box[e] # None /\ box'[e] # box[e] =>
    \E r \in Request : At(r, "delete") /\ req[r].found = box[e]

(* Every step changes the container of an entry only so.                   *)
LEMMA SparesFacts == CatalogInv /\ [Next]_vars => SparesStep
<1> SUFFICES ASSUME CatalogInv, [Next]_vars, NEW e \in Entry, box[e] # None, box'[e] # box[e]
             PROVE  \E r \in Request : At(r, "delete") /\ req[r].found = box[e]
  BY DEF SparesStep
<1>1. \E r \in Request : Create(r) \/ Delete(r)
  BY DEF Next, vars, docker, Install, Remove, CheckPorts, Pull, CreateFails, Start, StartRefused, StartFails,
         Stop, RemoveFails, VolumesDone, DeleteVolume, Exits, Restarts, ForeignCreated,
         ForeignStartsOrStops, ForeignRemoved, VolumePruned, PanelEnds
<1>2. ASSUME NEW r \in Request, Create(r) PROVE FALSE
  BY <1>2 DEF Create, CatalogInv, CatalogTypes
<1>3. ASSUME NEW r \in Request, Delete(r) PROVE At(r, "delete") /\ req[r].found = box[e]
  BY <1>3 DEF Delete, Exists, Handle, CatalogInv, CatalogTypes
<1> QED BY <1>1, <1>2, <1>3

(* The container that a remove deletes is one that it found itself, whatever
   installs and removes overlap.                                           *)
THEOREM ReinstallCorrectness == Spec => RemoveSparesReinstall
<1>1. CatalogInv /\ [Next]_vars => [SparesStep]_vars
  BY SparesFacts
<1>2. Spec => [][SparesStep]_vars
  BY CatalogInvInit, CatalogInvStep, <1>1, PTL DEF Spec
<1> QED BY <1>2, PTL DEF RemoveSparesReinstall, SparesStep

(* A purge that reports no failed volume has left none but those made again.*)
VolumesStep ==
  \A r \in Request :
    At(r, "volumes") /\ req'[r].at = "done" /\ req'[r].errors = {} =>
      VolumesOf[req[r].entry] \cap volumes' \subseteq remade'

(* Only its own last step tells the caller of a purge that it is done.         *)
LEMMA VolumesFacts == CatalogInv /\ [Next]_vars => VolumesStep
<1> SUFFICES ASSUME CatalogInv, [Next]_vars, NEW r \in Request,
                    req[r].at = "volumes", req'[r].at = "done", req'[r].errors = {}
             PROVE  VolumesOf[req[r].entry] \cap volumes' \subseteq remade'
  BY DEF VolumesStep, At
<1>0. req \in [Request -> RequestRecord] /\ req' # req
  BY DEF CatalogInv, CatalogTypes
<1>m. ASSUME NEW x \in Request, NEW place, req[x].at # "volumes" \/ place # "done", Moves(x, place)
      PROVE  FALSE
  BY <1>0, <1>m DEF Moves, RequestRecord
<1>1. ASSUME NEW x \in Request, NEW e \in Entry,
             Install(x, e) \/ (\E purge \in BOOLEAN : Remove(x, e, purge)) PROVE FALSE
  <2>1. x # r
    BY <1>1 DEF Install, Remove, At
  <2> QED BY <1>0, <1>1, <2>1 DEF Install, Remove
<1>2. ASSUME NEW x \in Request, Delete(x) PROVE FALSE
  <2>1. x # r
    BY <1>2 DEF Delete, At
  <2> QED BY <1>0, <1>2, <2>1 DEF Delete
<1>3. ASSUME NEW x \in Request, NEW v \in Volume, DeleteVolume(x, v) PROVE FALSE
  <2>1. req'[r].at = req[r].at
    BY <1>0, <1>3 DEF DeleteVolume, AfterMissing, RequestRecord
  <2> QED BY <2>1
<1>4. CASE PanelEnds
  <2>1. req'[r].at = "lost"
    BY <1>0, <1>4 DEF PanelEnds, RequestRecord, Ended
  <2> QED BY <2>1
<1>5. ASSUME NEW x \in Request,
             CheckPorts(x) \/ Pull(x) \/ Create(x) \/ CreateFails(x) \/ Start(x) \/ StartRefused(x)
               \/ StartFails(x) \/ Stop(x) \/ RemoveFails(x)
      PROVE  FALSE
  BY <1>5, <1>m DEF CheckPorts, Pull, Create, CreateFails, Start, StartRefused, StartFails, Stop,
                    RemoveFails, At
<1>6. ASSUME NEW x \in Request, VolumesDone(x)
      PROVE  VolumesOf[req[r].entry] \cap volumes' \subseteq remade'
  <2>1. /\ req[x].todo = {} /\ Moves(x, "done")
        /\ UNCHANGED <<volumes, remade>>
    BY <1>6 DEF VolumesDone, docker
  <2>2. x = r
    BY <1>0, <2>1 DEF Moves
  <2>3. req'[r].errors = req[r].errors
    BY <1>0, <2>1, <2>2 DEF Moves, RequestRecord
  <2> QED BY <2>1, <2>2, <2>3 DEF CatalogInv, VolumesKnown
<1>7. ASSUME \/ \E e \in Entry : Exits(e) \/ Restarts(e)
             \/ \E p \in Port : ForeignCreated(p) \/ ForeignStartsOrStops(p) \/ ForeignRemoved(p)
             \/ \E v \in Volume : VolumePruned(v)
             \/ UNCHANGED vars
      PROVE  FALSE
  BY <1>0, <1>7 DEF Exits, Restarts, ForeignCreated, ForeignStartsOrStops, ForeignRemoved, VolumePruned, vars
<1> QED BY <1>1, <1>2, <1>3, <1>4, <1>5, <1>6, <1>7 DEF Next

(* A remove with remove_volumes that reports no failed volume has left none
   of them, but for those a new install made.                              *)
THEOREM PurgeCorrectness == Spec => ReportedVolumesAreGone
<1>1. CatalogInv /\ [Next]_vars => [VolumesStep]_vars
  BY VolumesFacts
<1>2. Spec => [][VolumesStep]_vars
  BY CatalogInvInit, CatalogInvStep, <1>1, PTL DEF Spec
<1> QED BY <1>2, PTL DEF ReportedVolumesAreGone, VolumesStep
=============================================================================
