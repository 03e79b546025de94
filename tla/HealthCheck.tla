---------------------------- MODULE HealthCheck ----------------------------
(***************************************************************************)
(* scripts/check-container-health.sh, run by a timer: ask Docker which     *)
(* containers are bad, compare with the state file of the last run,        *)
(* announce the difference through notify-discord.sh, save.  A failed      *)
(* notification is ignored (no set -e); the script may die between steps.  *)
(***************************************************************************)
EXTENDS Integers

CONSTANT Service

VARIABLES
  unhealthy, restarting,  \* containers in that health, in that status
  badFile,                \* state_file
  checkPc,                \* 0 not running, 1 asking Docker, 2..4 see Effects
  poll,                   \* previous, current, and who was bad at the poll
  announced, unheard,     \* history: bad as far as Discord was told; lost posts
  interrupted             \* history: some run died halfway

checkVars == <<unhealthy, restarting, badFile, checkPc, poll, announced, unheard,
               interrupted>>

NoPoll == [previous |-> {}, current |-> {}, seen |-> {}]
NewlyBad  == poll.current \ poll.previous
Recovered == poll.previous \ poll.current

SaveFirst == <<"save", "bad", "recovered">>
Effects == <<"bad", "recovered", "save">>
Performs(effect) == checkPc \in 2..4 /\ Effects[checkPc - 1] = effect
NextEffect == checkPc' = IF checkPc = 4 THEN 0 ELSE checkPc + 1

-----------------------------------------------------------------------------
ContainersChange ==
  /\ \E s \in Service :
       \/ unhealthy' = (unhealthy \ {s}) \cup ({s} \ unhealthy) /\ UNCHANGED restarting
       \/ restarting' = (restarting \ {s}) \cup ({s} \ restarting) /\ UNCHANGED unhealthy
  /\ UNCHANGED <<badFile, checkPc, poll, announced, unheard, interrupted>>

CheckStarts ==
  /\ checkPc = 0 /\ checkPc' = 1
  /\ UNCHANGED <<unhealthy, restarting, badFile, poll, announced, unheard, interrupted>>

\* "docker ps" errored: said to Discord, the state file stays.
DockerErrors ==
  /\ checkPc = 1 /\ checkPc' = 0
  /\ UNCHANGED <<unhealthy, restarting, badFile, poll, announced, unheard, interrupted>>

\* Docker combines filters with different keys by AND.
Filtered == unhealthy \cap restarting

ReadsContainers ==
  /\ checkPc = 1
  /\ poll' = [previous |-> badFile, current |-> Filtered, seen |-> unhealthy \cup restarting]
  /\ checkPc' = IF Filtered = badFile THEN 0 ELSE 2
  /\ UNCHANGED <<unhealthy, restarting, badFile, announced, unheard, interrupted>>

\* One notify-discord.sh for a part of the difference; an empty part posts nothing.
Announces(effect, part, announcedAfter) ==
  /\ Performs(effect)
  /\ \/ announced' = announcedAfter /\ unheard' = unheard \ part
     \/ announced' = announced /\ unheard' = unheard \cup part
  /\ NextEffect
  /\ UNCHANGED <<unhealthy, restarting, badFile, poll, interrupted>>

AnnouncesBad == Announces("bad", NewlyBad, announced \cup NewlyBad)
AnnouncesRecovered == Announces("recovered", Recovered, announced \ Recovered)

SavesBadSet ==
  /\ Performs("save")
  /\ badFile' = poll.current
  /\ NextEffect
  /\ UNCHANGED <<unhealthy, restarting, poll, announced, unheard, interrupted>>

\* Killed between two steps, or after "echo >" emptied the file.  A recovery
\* announced and not filed hides the container's next failure.
CheckDies ==
  /\ checkPc \in 2..4
  /\ checkPc' = 0 /\ interrupted' = TRUE
  /\ badFile' = badFile \/ (Performs("save") /\ badFile' = {})
  /\ unheard' = unheard \cup (Recovered \ announced)
  /\ UNCHANGED <<unhealthy, restarting, poll, announced>>

-----------------------------------------------------------------------------
CheckInit ==
  /\ unhealthy = {} /\ restarting = {} /\ badFile = {}
  /\ checkPc = 0 /\ poll = NoPoll
  /\ announced = {} /\ unheard = {} /\ interrupted = FALSE

CheckNext ==
  \/ ContainersChange \/ CheckStarts \/ DockerErrors \/ ReadsContainers
  \/ AnnouncesBad \/ AnnouncesRecovered \/ SavesBadSet \/ CheckDies

CheckSpec == CheckInit /\ [][CheckNext]_checkVars

CheckTypeOK ==
  /\ {unhealthy, restarting, badFile, announced, unheard} \subseteq SUBSET Service
  /\ poll \in [previous : SUBSET Service, current : SUBSET Service, seen : SUBSET Service]
  /\ checkPc \in 0..4 /\ interrupted \in BOOLEAN

(* "only on a *change*" must not become "never": between runs, a container the
   state file holds as bad was announced, unless that very post failed or a run
   died between announcing its recovery and the save; and a container announced
   as bad is on file, so that its recovery will be announced, unless a post
   failed or a run died.                                                      *)
FiledFailuresWereAnnounced ==
  checkPc = 0 =>
    /\ badFile \ announced \subseteq unheard
    /\ ~interrupted => announced \ badFile \subseteq unheard

(* "Polls docker for unhealthy/restarting containers" (lines 2-4): whatever was
   unhealthy or restarting at the poll is on file, thus announced, after it.  *)
UnhealthyIsFiled == checkPc = 0 /\ ~interrupted => poll.seen \subseteq badFile
=============================================================================
