------------------------- MODULE FleetRestartProofs -------------------------
(***************************************************************************)
(* Proofs about the panel's fleet operations, for every compose project    *)
(* and every number of restart_all workers.                                *)
(***************************************************************************)
EXTENDS FleetRestart, TLAPS

(* A worker's loop visits only containers of its stage.                    *)
StageInv ==
  \A w \in Worker : IF Active(w) THEN todo[w] \subseteq Stage[phase[w]] ELSE todo[w] = {}

(* The provider is reported healthy only while the mount is live.          *)
ProviderHealthInv == health[Provider] = "healthy" => mounted

IInv == TypeOK /\ StageInv /\ ProviderHealthInv /\ StaleBindersAreOwed

-----------------------------------------------------------------------------
(* The stages: what each loop of worker() visits.                          *)
LEMMA StageFacts ==
  /\ Stage[1] = Prereqs /\ Stage[2] = Prereqs
  /\ Stage[3] = {Provider} /\ Stage[4] = {Provider}
  /\ Stage[5] = Rest /\ Stage[6] = Dependents /\ Stage[7] = Prereqs
  /\ \A i \in 1..7 : Stage[i] \subseteq Targets
  /\ \A i \in Restarting : Provider \in Stage[i] => i = 3
BY FleetAssumption DEF Stage, Restarting, Rest, Targets

(* A worker that has not passed the provider's stages owes every binder    *)
(* but the panel a restart.                                                *)
LEMMA OwedBeforeMount ==
  ASSUME NEW w \in Worker, phase[w] \in {3, 4}, NEW c \in Binders \ {Panel}
  PROVE  Owes(w, c)
<1>1. c \in Rest \cup Dependents \cup Prereqs
  BY FleetAssumption DEF Rest, Targets
<1> QED BY <1>1, StageFacts DEF Owes

(* What the engine does to a container other than the provider.            *)
LEMMA EngineOnOthers ==
  ASSUME IInv, NEW c \in Container, c # Provider, Started(c) \/ Stopped(c) \/ EngineFails(c)
  PROVE  /\ running' \subseteq Container
         /\ health' \in [Container -> {"none", "starting", "healthy", "unhealthy"}]
         /\ stale' \subseteq Binders
         /\ mounted' = mounted
         /\ health'[Provider] = health[Provider]
         /\ \A b \in stale' : b \in stale \/ (b = c /\ ~mounted)
BY FleetAssumption DEF IInv, TypeOK, Started, Stopped, EngineFails

(* What the engine does to the provider.                                   *)
LEMMA EngineOnProvider ==
  ASSUME IInv, NEW c \in Container, c = Provider, Started(c) \/ Stopped(c) \/ EngineFails(c)
  PROVE  /\ running' \subseteq Container
         /\ health' \in [Container -> {"none", "starting", "healthy", "unhealthy"}]
         /\ stale' \subseteq Binders
         /\ mounted' \in BOOLEAN
         /\ ProviderHealthInv'
BY FleetAssumption DEF IInv, TypeOK, ProviderHealthInv, Started, Stopped, EngineFails

(* The initial state satisfies the inductive invariant.                    *)
LEMMA InitInv == Init => IInv
<1> SUFFICES ASSUME Init PROVE IInv
  OBVIOUS
<1>1. TypeOK
  <2>1. health \in [Container -> {"none", "starting", "healthy", "unhealthy"}]
    BY DEF Init
  <2>2. phase \in [Worker -> 0..9] /\ todo \in [Worker -> SUBSET Targets]
    BY DEF Init
  <2> QED BY <2>1, <2>2 DEF Init, TypeOK
<1>2. StageInv
  BY DEF Init, StageInv, Active
<1>3. ProviderHealthInv /\ StaleBindersAreOwed
  BY DEF Init, ProviderHealthInv, StaleBindersAreOwed
<1> QED BY <1>1, <1>2, <1>3 DEF IInv

(* Workers keep to their stage, and to the type of their variables.        *)
LEMMA WorkerStagesInv ==
  ASSUME IInv, NEW w \in Worker
  PROVE  /\ RestartAll(w) \/ NextStage(w) =>
              /\ StageInv'
              /\ phase' \in [Worker -> 0..9] /\ todo' \in [Worker -> SUBSET Targets]
         /\ \A c \in Container :
              (phase' = phase /\ todo' = [todo EXCEPT ![w] = @ \ {c}]) =>
                /\ StageInv'
                /\ phase' \in [Worker -> 0..9] /\ todo' \in [Worker -> SUBSET Targets]
<1> USE DEF IInv, TypeOK, StageInv, Active
<1>1. ASSUME RestartAll(w)
      PROVE  StageInv' /\ phase' \in [Worker -> 0..9] /\ todo' \in [Worker -> SUBSET Targets]
  BY <1>1, StageFacts DEF RestartAll
<1>2. ASSUME NextStage(w)
      PROVE  StageInv' /\ phase' \in [Worker -> 0..9] /\ todo' \in [Worker -> SUBSET Targets]
  <2>1. phase[w] \in 1..7 /\ phase[w] + 1 \in 2..8
    BY <1>2 DEF NextStage
  <2>2. phase[w] < 7 => Stage[phase[w] + 1] \subseteq Targets /\ phase[w] + 1 \in 1..7
    BY <2>1, StageFacts
  <2>3. phase' = [phase EXCEPT ![w] = phase[w] + 1]
        /\ todo' = [todo EXCEPT ![w] = IF phase[w] < 7 THEN Stage[phase[w] + 1] ELSE {}]
    BY <1>2 DEF NextStage
  <2> QED BY <2>1, <2>2, <2>3
<1>3. ASSUME NEW c \in Container, phase' = phase, todo' = [todo EXCEPT ![w] = @ \ {c}]
      PROVE  StageInv' /\ phase' \in [Worker -> 0..9] /\ todo' \in [Worker -> SUBSET Targets]
  BY <1>3
<1> QED BY <1>1, <1>2, <1>3

-----------------------------------------------------------------------------
(* An engine call on a container other than the provider, by anyone, leaves
   every stale binder owed: a worker only strikes off what it restarted.   *)
LEMMA OthersKeepOwed ==
  ASSUME IInv, ~disturbed, NEW c \in Container, c # Provider, phase' = phase,
         \/ todo' = todo /\ (Started(c) \/ Stopped(c) \/ EngineFails(c))
         \/ /\ Started(c)
            /\ \E w \in Worker : /\ phase[w] \in Restarting
                               /\ todo' = [todo EXCEPT ![w] = @ \ {c}]
  PROVE  StaleBindersAreOwed'
<1> USE DEF IInv, TypeOK
<1>1. mounted' = mounted /\ stale' \subseteq Binders
      /\ \A b \in stale' : b \in stale \/ (b = c /\ ~mounted)
  BY EngineOnOthers
<1>2. \A w \in Worker :
        todo'[w] # todo[w] => phase[w] \in Restarting /\ todo'[w] = todo[w] \ {c}
  OBVIOUS
<1>3. ASSUME ~mounted
      PROVE  \E w \in Worker : WillAwaitMount(w)'
  <2>1. PICK w \in Worker : WillAwaitMount(w)
    BY <1>3 DEF StaleBindersAreOwed
  <2> QED BY <1>2, <2>1 DEF WillAwaitMount, Restarting
<1>4. ASSUME NEW b \in stale' \ {Panel}
      PROVE  \E w \in Worker : Owes(w, b)'
  <2>1. CASE ~mounted
    <3>1. PICK w \in Worker : WillAwaitMount(w)
      BY <2>1 DEF StaleBindersAreOwed
    <3>2. phase[w] \in {3, 4} /\ b \in Binders \ {Panel}
      BY <1>1, <1>4, <3>1 DEF WillAwaitMount
    <3>3. Owes(w, b)
      BY <3>2, OwedBeforeMount
    <3> QED BY <3>2, <3>3 DEF Owes
  <2>2. CASE mounted /\ todo' = todo
    <3>1. PICK w \in Worker : Owes(w, b)
      BY <1>1, <1>4, <2>2 DEF StaleBindersAreOwed
    <3> QED BY <2>2, <3>1 DEF Owes
  <2>3. CASE mounted /\ Started(c)
    <3>1. b \in stale /\ b # c
      BY <1>1, <2>3, <1>4 DEF Started
    <3>2. PICK w \in Worker : Owes(w, b)
      BY <3>1, <1>4 DEF StaleBindersAreOwed
    <3> QED BY <1>2, <3>1, <3>2 DEF Owes
  <2> QED BY <2>1, <2>2, <2>3
<1> QED BY <1>1, <1>3, <1>4 DEF StaleBindersAreOwed

(* Everything the workers and the operations do to containers.             *)
LEMMA EngineInv ==
  ASSUME IInv, NEW c \in Container, Started(c) \/ Stopped(c) \/ EngineFails(c)
  PROVE  /\ running' \subseteq Container
         /\ health' \in [Container -> {"none", "starting", "healthy", "unhealthy"}]
         /\ stale' \subseteq Binders /\ mounted' \in BOOLEAN
         /\ ProviderHealthInv'
<1>1. CASE c = Provider
  BY <1>1, EngineOnProvider
<1>2. CASE c # Provider
  BY <1>2, EngineOnOthers DEF IInv, TypeOK, ProviderHealthInv
<1> QED BY <1>1, <1>2

(* A worker's restart of a container preserves the inductive invariant.    *)
LEMMA WorkerRestartsInv ==
  ASSUME IInv, NEW w \in Worker, NEW c \in Container, WorkerRestarts(w, c)
  PROVE  IInv'
<1> USE DEF IInv
<1>1. Started(c) /\ phase' = phase /\ disturbed' = disturbed
      /\ todo' = [todo EXCEPT ![w] = @ \ {c}] /\ phase[w] \in Restarting /\ c \in todo[w]
  BY DEF WorkerRestarts
<1>2. TypeOK' /\ StageInv' /\ ProviderHealthInv'
  BY <1>1, EngineInv, WorkerStagesInv DEF TypeOK
<1>3. ASSUME ~disturbed' PROVE StaleBindersAreOwed'
  <2>1. CASE c # Provider
    BY <1>1, <1>3, <2>1, OthersKeepOwed
  <2>2. CASE c = Provider
    <3>1. phase[w] = 3
      BY <1>1, <2>2, StageFacts DEF StageInv, Active, Restarting
    <3>2. \A b \in stale' \ {Panel} : Owes(w, b)
      BY <1>2, <3>1, OwedBeforeMount DEF TypeOK
    <3>3. WillAwaitMount(w)' /\ \A b \in stale' \ {Panel} : Owes(w, b)'
      BY <1>1, <3>1, <3>2 DEF WillAwaitMount, Owes
    <3> QED BY <3>3 DEF StaleBindersAreOwed
  <2> QED BY <2>1, <2>2
<1> QED BY <1>2, <1>3 DEF StaleBindersAreOwed

(* Waiting for a container, seen healthy or given up, preserves it.        *)
LEMMA AwaitInv ==
  ASSUME IInv, NEW w \in Worker, NEW c \in Container,
         SeesHealthy(w, c) \/ GivesUpWaiting(w, c)
  PROVE  IInv'
<1> USE DEF IInv
<1>1. /\ phase[w] \in Awaiting
      /\ UNCHANGED <<running, health, mounted, stale, phase>>
      /\ todo' = [todo EXCEPT ![w] = @ \ {c}]
      /\ ~disturbed' => ~disturbed /\ (c = Provider => mounted)
      /\ disturbed' \in BOOLEAN
  BY DEF SeesHealthy, GivesUpWaiting, ProviderHealthInv, TypeOK
<1>2. TypeOK' /\ StageInv' /\ ProviderHealthInv'
  BY <1>1, WorkerStagesInv DEF TypeOK, ProviderHealthInv
<1>3. ASSUME ~disturbed' PROVE StaleBindersAreOwed'
  <2>1. ASSUME NEW b \in stale' \ {Panel} PROVE \E v \in Worker : Owes(v, b)'
    <3>1. PICK v \in Worker : Owes(v, b)
      BY <1>1, <1>3, <2>1 DEF StaleBindersAreOwed
    <3> QED BY <1>1, <3>1 DEF Owes, Awaiting, TypeOK
  <2>2. ASSUME ~mounted' PROVE \E v \in Worker : WillAwaitMount(v)'
    <3>1. PICK v \in Worker : WillAwaitMount(v)
      BY <1>1, <1>3, <2>2 DEF StaleBindersAreOwed
    <3> QED BY <1>1, <1>3, <2>2, <3>1 DEF WillAwaitMount, TypeOK
  <2> QED BY <2>1, <2>2 DEF StaleBindersAreOwed
<1> QED BY <1>2, <1>3 DEF StaleBindersAreOwed

(* Starting a worker, or going on to its next loop, preserves it.          *)
LEMMA StageChangeInv ==
  ASSUME IInv, NEW w \in Worker, RestartAll(w) \/ NextStage(w)
  PROVE  IInv'
<1> USE DEF IInv
<1>1. UNCHANGED <<running, health, mounted, stale, disturbed>>
  BY DEF RestartAll, NextStage
<1>2. TypeOK' /\ StageInv' /\ ProviderHealthInv'
  BY <1>1, WorkerStagesInv DEF TypeOK, ProviderHealthInv
<1>3. ASSUME NEW v \in Worker, NEW b, Owes(v, b) PROVE Owes(v, b)'
  <2>1. CASE v # w
    BY <1>3, <2>1 DEF RestartAll, NextStage, Owes, TypeOK
  <2>2. CASE v = w
    <3>1. NextStage(w) /\ phase[w] \in 3..6 /\ todo[w] = {}
      BY <1>3, <2>2 DEF RestartAll, NextStage, Owes, TypeOK
    <3>2. phase'[w] = phase[w] + 1 /\ todo'[w] = Stage[phase[w] + 1]
      BY <3>1 DEF NextStage, TypeOK
    <3>3. PICK i \in {5, 6, 7} : i > phase[w] /\ b \in Stage[i]
      BY <1>3, <2>2, <3>1 DEF Owes
    <3> QED BY <2>2, <3>1, <3>2, <3>3 DEF Owes
  <2> QED BY <2>1, <2>2
<1>4. ASSUME NEW v \in Worker, WillAwaitMount(v) PROVE WillAwaitMount(v)'
  <2>1. CASE v # w
    BY <1>4, <2>1 DEF RestartAll, NextStage, WillAwaitMount, TypeOK
  <2>2. CASE v = w
    <3>1. NextStage(w) /\ phase[w] = 3
      BY <1>4, <2>2 DEF RestartAll, NextStage, WillAwaitMount, TypeOK
    <3> QED BY <2>2, <3>1, StageFacts DEF NextStage, WillAwaitMount, TypeOK
  <2> QED BY <2>1, <2>2
<1>5. StaleBindersAreOwed'
  <2> SUFFICES ASSUME ~disturbed
               PROVE  /\ \A c \in stale \ {Panel} : \E v \in Worker : Owes(v, c)'
                      /\ ~mounted => \E v \in Worker : WillAwaitMount(v)'
    BY <1>1 DEF StaleBindersAreOwed
  <2> QED BY <1>3, <1>4 DEF StaleBindersAreOwed
<1> QED BY <1>2, <1>5

(* An operation on one container preserves it.                             *)
LEMMA OperationInv ==
  ASSUME IInv, NEW c \in Container,
         RestartContainer(c) \/ StopContainer(c) \/ StartContainer(c)
  PROVE  IInv'
<1> USE DEF IInv
<1>1. /\ Started(c) \/ Stopped(c) \/ EngineFails(c)
      /\ UNCHANGED <<phase, todo>>
      /\ disturbed' = (disturbed \/ c = Provider)
  BY DEF RestartContainer, StopContainer, StartContainer, EngineFails, Disturb
<1>2. TypeOK' /\ StageInv' /\ ProviderHealthInv'
  BY <1>1, EngineInv DEF TypeOK, StageInv, Active
<1>3. ASSUME ~disturbed' PROVE StaleBindersAreOwed'
  BY <1>1, <1>3, OthersKeepOwed
<1> QED BY <1>2, <1>3 DEF StaleBindersAreOwed

(* Every step preserves the inductive invariant.                           *)
LEMMA NextInv == IInv /\ [Next]_vars => IInv'
<1> SUFFICES ASSUME IInv, [Next]_vars PROVE IInv'
  OBVIOUS
<1> USE DEF IInv
<1>1. ASSUME NEW w \in Worker, RestartAll(w) \/ NextStage(w) PROVE IInv'
  BY <1>1, StageChangeInv
<1>2. ASSUME NEW w \in Worker, NEW c \in Container, WorkerRestarts(w, c) PROVE IInv'
  BY <1>2, WorkerRestartsInv
<1>3. ASSUME NEW w \in Worker, NEW c \in Container, WorkerRestartFails(w, c) PROVE IInv'
  <2>1. EngineFails(c) /\ phase' = phase /\ todo' = [todo EXCEPT ![w] = @ \ {c}]
        /\ disturbed' = TRUE
    BY <1>3 DEF WorkerRestartFails
  <2> QED BY <2>1, EngineInv, WorkerStagesInv DEF TypeOK, StaleBindersAreOwed
<1>4. ASSUME NEW w \in Worker, NEW c \in Container, SeesHealthy(w, c) \/ GivesUpWaiting(w, c)
      PROVE  IInv'
  BY <1>4, AwaitInv
<1>5. ASSUME NEW c \in Container,
             RestartContainer(c) \/ StopContainer(c) \/ StartContainer(c)
      PROVE  IInv'
  BY <1>5, OperationInv
<1>6. ASSUME NEW c \in Container, HealthCheck(c) PROVE IInv'
  BY <1>6 DEF HealthCheck, TypeOK, StageInv, Active, ProviderHealthInv,
              StaleBindersAreOwed, Owes, WillAwaitMount
<1>7. CASE ProviderMounts
  BY <1>7 DEF ProviderMounts, TypeOK, StageInv, Active, ProviderHealthInv,
              StaleBindersAreOwed, Owes, WillAwaitMount
<1>8. CASE MountLost
  BY <1>8, EngineInv, FleetAssumption
     DEF MountLost, TypeOK, StageInv, Active, StaleBindersAreOwed
<1>9. CASE PanelEnds
  <2>1. phase' \in [Worker -> 0..9] /\ todo' \in [Worker -> SUBSET Targets]
    BY <1>9 DEF PanelEnds, TypeOK, Lost, Active
  <2>2. \A w \in Worker : todo'[w] = {} /\ phase'[w] \notin 1..7
    BY <1>9 DEF PanelEnds, TypeOK, Lost, Active
  <2>3. UNCHANGED <<running, health, mounted, stale>> /\ disturbed' = TRUE
    BY <1>9 DEF PanelEnds
  <2> QED BY <2>1, <2>2, <2>3 DEF TypeOK, StageInv, Active, ProviderHealthInv,
                                  StaleBindersAreOwed
<1>10. CASE UNCHANGED vars
  BY <1>10 DEF vars, TypeOK, StageInv, Active, ProviderHealthInv,
               StaleBindersAreOwed, Owes, WillAwaitMount
<1> QED BY <1>1, <1>2, <1>3, <1>4, <1>5, <1>6, <1>7, <1>8, <1>9, <1>10
        DEF Next, WorkerStep

(* The inductive invariant holds throughout.                               *)
THEOREM Invariance == Spec => []IInv
BY InitInv, NextInv, PTL DEF Spec

(* Types; no worker ever visits the panel's own container.                 *)
THEOREM TypeCorrectness == Spec => []TypeOK
<1>1. IInv => TypeOK
  BY DEF IInv
<1> QED BY <1>1, Invariance, PTL

(* A stale binder always has a restart ahead, whatever overlaps.           *)
THEOREM OwedCorrectness == Spec => []StaleBindersAreOwed
<1>1. IInv => StaleBindersAreOwed
  BY DEF IInv
<1> QED BY <1>1, Invariance, PTL

(* When every worker has ended the fleet is on the live mount.             *)
THEOREM QuiescenceCorrectness == Spec => []QuiescentFleetIsFresh
<1>1. IInv => QuiescentFleetIsFresh
  BY DEF IInv, TypeOK, StaleBindersAreOwed, QuiescentFleetIsFresh, Active, Owes, WillAwaitMount
<1> QED BY <1>1, Invariance, PTL

-----------------------------------------------------------------------------
(* restart_all implements MountCascade.  The abstract undertakings:        *)
OwedNow    == {c \in Container : \E w \in Worker : Owes(w, c)}
AwaitedNow == \E w \in Worker : WillAwaitMount(w)

SameUndertakings == OwedNow' = OwedNow /\ AwaitedNow' = AwaitedNow

(* The abstract step, in the words of this module.                         *)
LEMMA AbstractSteps ==
  /\ (UNCHANGED <<mounted, stale, disturbed>> /\ SameUndertakings) =>
        UNCHANGED Cascade!cascadeVars
  /\ disturbed' => Cascade!Disturbance
  /\ ( /\ AwaitedNow' /\ OwedNow \cup (Binders \ {Panel}) \subseteq OwedNow'
       /\ UNCHANGED <<mounted, stale, disturbed>> ) => Cascade!Undertake
  /\ ( /\ AwaitedNow /\ Binders \ {Panel} \subseteq OwedNow
       /\ mounted' = FALSE /\ stale' \subseteq Binders
       /\ disturbed' = disturbed /\ SameUndertakings ) => Cascade!MountGoes
  /\ ( /\ ~mounted /\ mounted' = TRUE
       /\ UNCHANGED <<stale, disturbed>> /\ SameUndertakings ) => Cascade!MountComes
  /\ ( /\ mounted /\ ~AwaitedNow' /\ OwedNow' = OwedNow
       /\ UNCHANGED <<mounted, stale, disturbed>> ) => Cascade!StopAwaiting
  /\ \A c \in Container :
       ( /\ stale' = stale \ {c} /\ AwaitedNow' = AwaitedNow
         /\ OwedNow' = OwedNow \/ (mounted /\ OwedNow' = OwedNow \ {c})
         /\ UNCHANGED <<mounted, disturbed>> ) => Cascade!Freshens(c)
  /\ \A c \in Container :
       ( /\ ~mounted /\ c \in Binders /\ stale' = stale \cup {c}
         /\ UNCHANGED <<mounted, disturbed>> /\ SameUndertakings ) => Cascade!GoesStale(c)
<1> USE DEF OwedNow, AwaitedNow, SameUndertakings
<1>1. (UNCHANGED <<mounted, stale, disturbed>> /\ SameUndertakings) =>
        UNCHANGED Cascade!cascadeVars
  BY DEF Cascade!cascadeVars
<1>2. disturbed' => Cascade!Disturbance
  BY DEF Cascade!Disturbance
<1>3. ( /\ AwaitedNow' /\ OwedNow \cup (Binders \ {Panel}) \subseteq OwedNow'
        /\ UNCHANGED <<mounted, stale, disturbed>> ) => Cascade!Undertake
  BY DEF Cascade!Undertake
<1>4. ( /\ AwaitedNow /\ Binders \ {Panel} \subseteq OwedNow
        /\ mounted' = FALSE /\ stale' \subseteq Binders
        /\ disturbed' = disturbed /\ SameUndertakings ) => Cascade!MountGoes
  BY DEF Cascade!MountGoes
<1>5. ( /\ ~mounted /\ mounted' = TRUE
        /\ UNCHANGED <<stale, disturbed>> /\ SameUndertakings ) => Cascade!MountComes
  BY DEF Cascade!MountComes
<1>6. ( /\ mounted /\ ~AwaitedNow' /\ OwedNow' = OwedNow
        /\ UNCHANGED <<mounted, stale, disturbed>> ) => Cascade!StopAwaiting
  BY DEF Cascade!StopAwaiting
<1>7. ASSUME NEW c \in Container,
             stale' = stale \ {c}, AwaitedNow' = AwaitedNow,
             OwedNow' = OwedNow \/ (mounted /\ OwedNow' = OwedNow \ {c}),
             UNCHANGED <<mounted, disturbed>>
      PROVE  Cascade!Freshens(c)
  BY <1>7 DEF Cascade!Freshens
<1>8. ASSUME NEW c \in Container,
             ~mounted, c \in Binders, stale' = stale \cup {c},
             UNCHANGED <<mounted, disturbed>>, SameUndertakings
      PROVE  Cascade!GoesStale(c)
  BY <1>8 DEF Cascade!GoesStale
<1> HIDE DEF OwedNow, AwaitedNow, SameUndertakings
<1> QED BY <1>1, <1>2, <1>3, <1>4, <1>5, <1>6, <1>7, <1>8

(* Nothing undertaken changes while the workers' loops stand still.        *)
LEMMA StandingStill == UNCHANGED <<phase, todo>> => SameUndertakings
BY DEF SameUndertakings, OwedNow, AwaitedNow, Owes, WillAwaitMount

(* An engine call on a container other than the provider, by anyone.       *)
LEMMA EngineRefines ==
  ASSUME IInv, NEW c \in Container, c # Provider, UNCHANGED disturbed,
         AwaitedNow' = AwaitedNow,
         \/ OwedNow' = OwedNow /\ (Started(c) \/ Stopped(c) \/ EngineFails(c))
         \/ Started(c) /\ mounted /\ OwedNow' = OwedNow \ {c}
  PROVE  Cascade!CascadeNext \/ UNCHANGED Cascade!cascadeVars
<1>1. UNCHANGED mounted
  BY DEF IInv, TypeOK, Started, Stopped, EngineFails
<1>2. CASE stale' = stale /\ OwedNow' = OwedNow
  BY <1>1, <1>2, AbstractSteps DEF SameUndertakings
<1>3. CASE ~mounted /\ c \in Binders /\ stale' = stale \cup {c} /\ OwedNow' = OwedNow
  BY <1>1, <1>3, AbstractSteps DEF SameUndertakings, Cascade!CascadeNext
<1>4. CASE stale' = stale \ {c}
  BY <1>1, <1>4, AbstractSteps DEF Cascade!CascadeNext
<1> QED BY <1>2, <1>3, <1>4 DEF Started, Stopped, EngineFails

(* A worker that waits for the mount owes every target but the provider.   *)
LEMMA AwaitersOweTheFleet ==
  ASSUME NEW w \in Worker, phase[w] \in {3, 4}, NEW c \in Targets \ {Provider}
  PROVE  Owes(w, c)
BY StageFacts DEF Rest, Owes

(* A worker's restart is a step of the cascade.                            *)
LEMMA WorkerRestartsRefines ==
  ASSUME IInv, ~disturbed, NEW w \in Worker, NEW c \in Container, WorkerRestarts(w, c)
  PROVE  Cascade!CascadeNext \/ UNCHANGED Cascade!cascadeVars
<1> USE DEF IInv, TypeOK
<1>1. Started(c) /\ phase' = phase /\ disturbed' = disturbed
      /\ todo' = [todo EXCEPT ![w] = @ \ {c}] /\ phase[w] \in Restarting /\ c \in todo[w]
  BY DEF WorkerRestarts
<1>2. \A v \in Worker : WillAwaitMount(v)' <=> WillAwaitMount(v)
  BY <1>1 DEF WillAwaitMount, Restarting
<1>3. \A v \in Worker, d \in Container :
        Owes(v, d)' <=> Owes(v, d) /\ (v = w /\ d = c => Owes(w, c)')
  BY <1>1 DEF Owes
<1>4. AwaitedNow' = AwaitedNow
  BY <1>2 DEF AwaitedNow
<1>5. CASE c = Provider
  <2>1. phase[w] = 3
    BY <1>1, <1>5, StageFacts DEF StageInv, Active, Restarting
  <2>2. AwaitedNow /\ Binders \ {Panel} \subseteq OwedNow
    BY <2>1, OwedBeforeMount, FleetAssumption DEF AwaitedNow, WillAwaitMount, OwedNow
  <2>3. OwedNow' = OwedNow
    BY <1>1, <2>1 DEF OwedNow, Owes
  <2>4. mounted' = FALSE /\ stale' \subseteq Binders
    BY <1>1, <1>5 DEF Started
  <2> QED BY <1>1, <1>4, <2>2, <2>3, <2>4, AbstractSteps
          DEF SameUndertakings, Cascade!CascadeNext
<1>6. CASE c # Provider
  <2>1. OwedNow' = OwedNow \/ OwedNow' = OwedNow \ {c}
    BY <1>3 DEF OwedNow
  <2>2. ASSUME ~mounted PROVE OwedNow' = OwedNow
    <3>1. PICK v \in Worker : WillAwaitMount(v)
      BY <2>2 DEF StaleBindersAreOwed
    <3>2. c \in Targets \ {Provider} /\ phase[v] \in {3, 4}
      BY <1>1, <1>6, <3>1 DEF WillAwaitMount
    <3>3. Owes(v, c)
      BY <3>2, AwaitersOweTheFleet
    <3>4. Owes(v, c)'
      BY <1>1, <3>2, <3>3 DEF Owes
    <3> QED BY <1>3, <3>4 DEF OwedNow
  <2> QED BY <1>1, <1>4, <1>6, <2>1, <2>2, EngineRefines
<1> QED BY <1>5, <1>6

(* The end of a wait is a step of the cascade, or none.                    *)
LEMMA AwaitRefines ==
  ASSUME IInv, ~disturbed', NEW w \in Worker, NEW c \in Container,
         SeesHealthy(w, c) \/ GivesUpWaiting(w, c)
  PROVE  Cascade!CascadeNext \/ UNCHANGED Cascade!cascadeVars
<1> USE DEF IInv, TypeOK
<1>1. /\ phase[w] \in Awaiting
      /\ UNCHANGED <<running, health, mounted, stale, phase, disturbed>>
      /\ todo' = [todo EXCEPT ![w] = @ \ {c}]
      /\ c = Provider => mounted
  BY DEF SeesHealthy, GivesUpWaiting, ProviderHealthInv
<1>2. OwedNow' = OwedNow
  BY <1>1 DEF OwedNow, Owes, Awaiting
<1>3. CASE c = Provider
  <2>1. (~AwaitedNow') \/ AwaitedNow' = AwaitedNow
    BY <1>1 DEF AwaitedNow, WillAwaitMount
  <2> QED BY <1>1, <1>2, <1>3, <2>1, AbstractSteps
          DEF SameUndertakings, Cascade!CascadeNext
<1>4. CASE c # Provider
  <2>1. AwaitedNow' = AwaitedNow
    BY <1>1, <1>4 DEF AwaitedNow, WillAwaitMount
  <2> QED BY <1>1, <1>2, <2>1, AbstractSteps DEF SameUndertakings
<1> QED BY <1>3, <1>4

(* Going on to the next loop: entering the provider's restart undertakes
   the whole cascade, the others only move what is owed.                   *)
LEMMA StageChangeRefines ==
  ASSUME IInv, NEW w \in Worker, RestartAll(w) \/ NextStage(w)
  PROVE  Cascade!CascadeNext \/ UNCHANGED Cascade!cascadeVars
<1> USE DEF IInv, TypeOK
<1>1. UNCHANGED <<running, health, mounted, stale, disturbed>>
  BY DEF RestartAll, NextStage
<1>2. \A v \in Worker \ {w}, c \in Container :
        /\ Owes(v, c)' <=> Owes(v, c)
        /\ WillAwaitMount(v)' <=> WillAwaitMount(v)
  BY DEF RestartAll, NextStage, Owes, WillAwaitMount
<1>3. CASE NextStage(w) /\ phase[w] = 2
  <2>1. phase'[w] = 3
    BY <1>3 DEF NextStage
  <2>2. AwaitedNow'
    BY <2>1 DEF AwaitedNow, WillAwaitMount
  <2>3. \A c \in Binders \ {Panel} : Owes(w, c)'
    BY <2>1, StageFacts, FleetAssumption DEF Rest, Targets, Owes
  <2>4. \A c \in Container : ~Owes(w, c)
    BY <1>3 DEF Owes
  <2>5. OwedNow \cup (Binders \ {Panel}) \subseteq OwedNow'
    BY <1>2, <2>3, <2>4, FleetAssumption DEF OwedNow
  <2> QED BY <1>1, <2>2, <2>5, AbstractSteps DEF Cascade!CascadeNext
<1>4. CASE ~(NextStage(w) /\ phase[w] = 2)
  <2>1. WillAwaitMount(w)' <=> WillAwaitMount(w)
    BY <1>4, StageFacts DEF RestartAll, NextStage, WillAwaitMount, Active
  <2>2. \A c \in Container : Owes(w, c)' <=> Owes(w, c)
    <3>1. CASE RestartAll(w)
      BY <3>1 DEF RestartAll, Owes
    <3>2. CASE NextStage(w)
      <4>1. /\ phase[w] \in {1, 3, 4, 5, 6, 7} /\ todo[w] = {}
            /\ phase'[w] = phase[w] + 1
            /\ todo'[w] = IF phase[w] < 7 THEN Stage[phase[w] + 1] ELSE {}
        BY <1>4, <3>2 DEF NextStage, Active
      <4> QED BY <4>1 DEF Owes
    <3> QED BY <3>1, <3>2
  <2>3. \A v \in Worker, c \in Container : Owes(v, c)' <=> Owes(v, c)
    BY <1>2, <2>2
  <2>4. OwedNow' = OwedNow
    BY <2>3 DEF OwedNow
  <2>5. AwaitedNow' = AwaitedNow
    <3>1. \A v \in Worker \ {w} : WillAwaitMount(v)' <=> WillAwaitMount(v)
      BY DEF RestartAll, NextStage, WillAwaitMount
    <3>2. \A v \in Worker : WillAwaitMount(v)' <=> WillAwaitMount(v)
      BY <2>1, <3>1
    <3> QED BY <3>2 DEF AwaitedNow
  <2> QED BY <1>1, <2>4, <2>5, AbstractSteps DEF SameUndertakings
<1> QED BY <1>3, <1>4

(* Every step of the fleet is a step of the cascade or leaves it alone.    *)
LEMMA StepRefines ==
  IInv /\ [Next]_vars => [Cascade!CascadeNext]_(Cascade!cascadeVars)
<1> SUFFICES ASSUME IInv, [Next]_vars
             PROVE  Cascade!CascadeNext \/ UNCHANGED Cascade!cascadeVars
  OBVIOUS
<1>1. CASE disturbed'
  BY <1>1, AbstractSteps DEF Cascade!CascadeNext
<1>2. CASE ~disturbed'
  <2>1. ASSUME NEW w \in Worker, RestartAll(w) \/ NextStage(w)
        PROVE  Cascade!CascadeNext \/ UNCHANGED Cascade!cascadeVars
    BY <2>1, StageChangeRefines
  <2>2. ASSUME NEW w \in Worker, NEW c \in Container, WorkerRestarts(w, c)
        PROVE  Cascade!CascadeNext \/ UNCHANGED Cascade!cascadeVars
    BY <1>2, <2>2, WorkerRestartsRefines DEF WorkerRestarts
  <2>3. ASSUME NEW w \in Worker, NEW c \in Container, WorkerRestartFails(w, c)
        PROVE  FALSE
    BY <1>2, <2>3 DEF WorkerRestartFails
  <2>4. ASSUME NEW w \in Worker, NEW c \in Container, SeesHealthy(w, c) \/ GivesUpWaiting(w, c)
        PROVE  Cascade!CascadeNext \/ UNCHANGED Cascade!cascadeVars
    BY <1>2, <2>4, AwaitRefines
  <2>5. ASSUME NEW c \in Container,
               RestartContainer(c) \/ StopContainer(c) \/ StartContainer(c)
        PROVE  Cascade!CascadeNext \/ UNCHANGED Cascade!cascadeVars
    <3>1. /\ Started(c) \/ Stopped(c) \/ EngineFails(c)
          /\ UNCHANGED <<phase, todo>> /\ c # Provider /\ UNCHANGED disturbed
      BY <1>2, <2>5
         DEF RestartContainer, StopContainer, StartContainer, EngineFails, Disturb, IInv, TypeOK
    <3>2. SameUndertakings
      BY <3>1, StandingStill
    <3> QED BY <3>1, <3>2, EngineRefines DEF SameUndertakings
  <2>6. ASSUME NEW c \in Container, HealthCheck(c)
        PROVE  UNCHANGED Cascade!cascadeVars
    BY <2>6, StandingStill, AbstractSteps DEF HealthCheck
  <2>7. CASE ProviderMounts
    BY <2>7, StandingStill, AbstractSteps DEF ProviderMounts, Cascade!CascadeNext
  <2>8. CASE MountLost \/ PanelEnds
    BY <1>2, <2>8 DEF MountLost, PanelEnds
  <2>9. CASE UNCHANGED vars
    BY <2>9, StandingStill, AbstractSteps DEF vars
  <2> QED BY <2>1, <2>2, <2>3, <2>4, <2>5, <2>6, <2>7, <2>8, <2>9 DEF Next, WorkerStep
<1> QED BY <1>1, <1>2

(* The initial state is an initial state of the cascade.                   *)
LEMMA InitRefines == Init => Cascade!CascadeInit
BY DEF Init, Cascade!CascadeInit, Owes, WillAwaitMount

(* Every behaviour of the panel's fleet operations is one that MountCascade
   allows, for every compose project and number of workers.                *)
THEOREM CascadeRefinement == Spec => ImplementsCascade
BY InitRefines, StepRefines, Invariance, PTL DEF Spec, ImplementsCascade, Cascade!CascadeSpec

(* Undisturbed, a dead reference is owed a restart, and as long as the mount is
   down it is awaited and every binder is owed one.                         *)
CascadeInv ==
  ~disturbed =>
    /\ stale \ {Panel} \subseteq OwedNow
    /\ ~mounted => AwaitedNow /\ Binders \ {Panel} \subseteq OwedNow

(* MountCascade is all that the fleet's safety needs (restart_all): whatever
   implements it forgets no stale container and, when it has nothing left to
   do, leaves a live mount with every binder but the panel on it.           *)
THEOREM CascadePromise == ImplementsCascade => [](StaleBindersAreOwed /\ QuiescentFleetIsFresh)
<1>1. Cascade!CascadeInit => CascadeInv
  BY DEF Cascade!CascadeInit, CascadeInv
<1>2. CascadeInv /\ [Cascade!CascadeNext]_(Cascade!cascadeVars) => CascadeInv'
  <2> SUFFICES ASSUME CascadeInv, [Cascade!CascadeNext]_(Cascade!cascadeVars)
               PROVE  CascadeInv'
    OBVIOUS
  <2> USE DEF CascadeInv
  <2>1. CASE Cascade!Disturbance
    BY <2>1 DEF Cascade!Disturbance
  <2>2. CASE Cascade!Undertake
    BY <2>2 DEF Cascade!Undertake, OwedNow, AwaitedNow
  <2>3. CASE Cascade!MountGoes
    BY <2>3 DEF Cascade!MountGoes, OwedNow, AwaitedNow
  <2>4. CASE Cascade!MountComes
    BY <2>4 DEF Cascade!MountComes, OwedNow, AwaitedNow
  <2>5. CASE Cascade!StopAwaiting
    BY <2>5 DEF Cascade!StopAwaiting, OwedNow, AwaitedNow
  <2>6. ASSUME NEW c \in Container, Cascade!Freshens(c)
        PROVE  CascadeInv'
    BY <2>6 DEF Cascade!Freshens, OwedNow, AwaitedNow
  <2>7. ASSUME NEW c \in Container, Cascade!GoesStale(c)
        PROVE  CascadeInv'
    BY <2>7 DEF Cascade!GoesStale, OwedNow, AwaitedNow
  <2>8. CASE UNCHANGED Cascade!cascadeVars
    BY <2>8 DEF Cascade!cascadeVars, OwedNow, AwaitedNow
  <2> QED BY <2>1, <2>2, <2>3, <2>4, <2>5, <2>6, <2>7, <2>8 DEF Cascade!CascadeNext
<1>3. CascadeInv => StaleBindersAreOwed
  BY DEF CascadeInv, StaleBindersAreOwed, OwedNow, AwaitedNow
<1>4. StaleBindersAreOwed => QuiescentFleetIsFresh
  BY DEF StaleBindersAreOwed, QuiescentFleetIsFresh, Owes, WillAwaitMount, Active
<1> QED BY <1>1, <1>2, <1>3, <1>4, PTL DEF ImplementsCascade, Cascade!CascadeSpec
=============================================================================
