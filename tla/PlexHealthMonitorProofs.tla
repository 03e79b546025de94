---------------------- MODULE PlexHealthMonitorProofs ----------------------
(***************************************************************************)
(* Proofs about the Plex watchdog, for every set of percentages, every     *)
(* duration of an iteration and every threshold allowed by                 *)
(* ParametersAssumption.                                                   *)
(***************************************************************************)
EXTENDS PlexHealthMonitor, TLAPS

(* The clock is never behind a timestamp the daemon holds.                 *)
ClockInv ==
  /\ 0 < lastProgressTs /\ lastProgressTs <= now
  /\ lastRestart <= now
  /\ \A o \in seen : o.at <= now

(* lastProgressTs is when the current percentage was first read: it was read
   then, every answer since shows it, and an older one is followed by another
   percentage.                                                             *)
ProgressInv ==
  /\ \A o \in seen : o.at >= lastProgressTs => o.progress = lastProgress
  /\ seen # {} => \E o \in seen : o.at >= lastProgressTs
  /\ lastProgress \in Progress => \E o \in seen : o.at = lastProgressTs
  /\ \A o \in seen : o.at < lastProgressTs =>
       \E later \in seen : later.at >= o.at /\ later.progress # lastProgress

(* A running lag clock started when the current percentage was first read. *)
LagClockInv ==
  lagStarted # 0 => lagStarted = lastProgressTs /\ lastProgress \in Progress

(* lastRestart bounds the requests of this run of the daemon.              *)
StampInv ==
  \A r \in restarts : r.run <= run /\ (r.run = run => r.at <= lastRestart)

IInv ==
  /\ TypeOK /\ AlertMatchesCondition /\ CooldownBetweenRestarts
  /\ PersistentLagIsActedOn
  /\ ClockInv /\ ProgressInv /\ LagClockInv /\ StampInv

-----------------------------------------------------------------------------
(* classify() answers one of the three failure classes or none.            *)
LEMMA ClassifyRange ==
  ASSUME NEW a \in Answer
  PROVE  Classify(a) \in Failure \cup {"none"}
BY DEF Classify, Failure, Answer

(* The lag clock after an answer is off, or is the time the percentage just
   read was first seen.                                                    *)
LEMMA LagClockFacts ==
  ASSUME IInv, NEW a \in Answer
  PROVE  /\ LagClockAfter(a) \in Nat
         /\ LagClockAfter(a) # 0 => /\ LagClockAfter(a) = lastProgressTs
                                    /\ a.progress = lastProgress
                                    /\ a.progress \in Progress
         /\ (a.progress = lastProgress /\ a.progress \in Progress) =>
              LagClockAfter(a) = lastProgressTs
BY ParametersAssumption DEF IInv, TypeOK, ClockInv, LagClockInv, LagClockAfter, Answer

(* The verdict on an answer is its class, or "healthy".                    *)
LEMMA VerdictFacts ==
  ASSUME NEW a \in Answer, NEW t
  PROVE  /\ Verdict(a, t) \in Failure \cup {"healthy"}
         /\ Verdict(a, t) \in Failure => /\ AlertAfter(a, t) = Verdict(a, t)
                                         /\ Classify(a) = Verdict(a, t)
                                         /\ IsFailing(a, t)
         /\ Verdict(a, t) = "healthy" => AlertAfter(a, t) = "none" /\ ~IsFailing(a, t)
         /\ AlertAfter(a, t) \in Failure \cup {"none"}
BY ClassifyRange DEF Verdict, AlertAfter, IsFailing, Failure

(* The initial state satisfies the inductive invariant.                    *)
LEMMA InitInv == Init => IInv
BY ParametersAssumption
   DEF Init, BootAt, IInv, TypeOK, Alert, Failure, AlertMatchesCondition,
       CooldownBetweenRestarts, PersistentLagIsActedOn, ClockInv, ProgressInv,
       LagClockInv, StampInv

(* A failed poll preserves the inductive invariant.                        *)
LEMMA PollFailsInv ==
  ASSUME IInv, NEW t \in Nat, t > now, PollFails(t)
  PROVE  IInv'
<1> USE DEF IInv, PollFails
<1>1. TypeOK'
  BY ParametersAssumption DEF TypeOK, Alert, Failure
<1>2. AlertMatchesCondition'
  BY ParametersAssumption DEF TypeOK, Alert, Failure, AlertMatchesCondition
<1>3. CooldownBetweenRestarts' /\ StampInv'
  BY DEF CooldownBetweenRestarts, StampInv
<1>4. PersistentLagIsActedOn'
  BY DEF PersistentLagIsActedOn
<1>5. ClockInv' /\ ProgressInv' /\ LagClockInv'
  BY DEF TypeOK, ClockInv, ProgressInv, LagClockInv
<1> QED BY <1>1, <1>2, <1>3, <1>4, <1>5

(* Starting a new run of the daemon preserves what a run keeps.            *)
LEMMA NewRunInv ==
  ASSUME IInv, NEW t \in Nat, t > now, NewRun(t),
         restarts' \subseteq [at : Nat, run : Nat, why : Failure],
         \A r \in restarts' : r.run <= run,
         CooldownBetweenRestarts'
  PROVE  IInv'
<1> USE DEF IInv, NewRun
<1>1. TypeOK'
  BY ParametersAssumption DEF TypeOK, Alert, Failure
<1>2. AlertMatchesCondition' /\ PersistentLagIsActedOn'
  BY ParametersAssumption DEF AlertMatchesCondition, PersistentLagIsActedOn, Failure
<1>3. ClockInv' /\ ProgressInv' /\ LagClockInv'
  BY ParametersAssumption DEF TypeOK, ClockInv, ProgressInv, LagClockInv
<1>4. StampInv'
  <2> SUFFICES ASSUME NEW r \in restarts'
               PROVE  r.run <= run' /\ r.run # run'
    BY DEF StampInv
  <2> QED BY DEF TypeOK
<1> QED BY <1>1, <1>2, <1>3, <1>4

(* Reading an answer preserves the facts about when the current percentage
   was first read.                                                         *)
LEMMA ObserveKeepsHistory ==
  ASSUME IInv, NEW t \in Nat, t > now, NEW a \in Answer, Observe(a, t)
  PROVE  ProgressInv' /\ LagClockInv' /\ (\A o \in seen' : o.at <= now')
<1> DEFINE new == [at |-> t, progress |-> a.progress, analysis |-> a.analysis]
<1> USE DEF IInv, TypeOK, ClockInv
<1>1. /\ now' = t /\ lastProgress' = a.progress /\ seen' = seen \cup {new}
      /\ new.at = t /\ new.progress = a.progress
      /\ new \in seen'
      /\ \A o \in seen : o.at \in Nat /\ o.at < t
  BY DEF Observe
<1> HIDE DEF new
<1>2. \A o \in seen' : o.at <= now'
  BY <1>1
<1>3. CASE a.progress = lastProgress
  <2>1. lastProgressTs' = lastProgressTs
    BY <1>3 DEF Observe
  <2>2. ProgressInv'
    BY <1>1, <1>3, <2>1 DEF ProgressInv
  <2>3. LagClockInv'
    BY <1>1, <1>3, <2>1, LagClockFacts DEF LagClockInv, Observe
  <2> QED BY <1>2, <2>2, <2>3
<1>4. CASE a.progress # lastProgress
  <2>1. lastProgressTs' = t
    BY <1>4 DEF Observe
  <2>2. /\ \A o \in seen' : o.at >= lastProgressTs' => o.progress = lastProgress'
        /\ seen' # {} => \E o \in seen' : o.at >= lastProgressTs'
        /\ lastProgress' \in Progress => \E o \in seen' : o.at = lastProgressTs'
    BY <1>1, <2>1
  <2>3. ASSUME NEW o \in seen
        PROVE  \E later \in seen : later.at >= o.at /\ later.progress # a.progress
    <3>1. PICK l \in seen : l.at >= lastProgressTs
      BY DEF ProgressInv
    <3>2. l.progress = lastProgress
      BY <3>1 DEF ProgressInv
    <3> QED BY <1>1, <1>4, <3>1, <3>2 DEF ProgressInv
  <2>4. ProgressInv'
    BY <1>1, <2>1, <2>2, <2>3 DEF ProgressInv
  <2>5. LagClockInv'
    BY <1>4, LagClockFacts DEF LagClockInv, Observe
  <2> QED BY <1>2, <2>4, <2>5
<1> QED BY <1>3, <1>4

(* When the answers read, the one of this poll included, show the current
   percentage for LagRestart or more, so does the lag clock.               *)
LEMMA StuckMeansLag ==
  ASSUME IInv, NEW t \in Nat, t > now, NEW a \in Answer, Observe(a, t),
         Classify(a) = "scan_lag", a.progress \in Progress,
         StuckAt(lastProgress, now)'
  PROVE  Lag(a, t) >= LagRestart
<1> USE DEF IInv, TypeOK, ClockInv
<1>1. ProgressInv' /\ now' = t /\ lastProgress' = a.progress
  BY ObserveKeepsHistory DEF Observe
<1>2. PICK o \in seen' : /\ t - o.at >= LagRestart
                         /\ \A later \in seen' : later.at >= o.at => later.progress = a.progress
  BY <1>1 DEF StuckAt
<1>3. o.at \in Nat
  BY DEF Observe
<1>4. o.at >= lastProgressTs'
  <2> SUFFICES ASSUME o.at < lastProgressTs' PROVE FALSE
    BY <1>3 DEF Observe
  <2> QED BY <1>1, <1>2 DEF ProgressInv
<1>5. a.progress = lastProgress
  <2> SUFFICES ASSUME a.progress # lastProgress PROVE FALSE
    OBVIOUS
  <2>1. lastProgressTs' = t
    BY DEF Observe
  <2> QED BY <1>2, <1>3, <1>4, <2>1, ParametersAssumption
<1>6. LagClockAfter(a) = lastProgressTs /\ lastProgressTs' = lastProgressTs
  BY <1>5, LagClockFacts DEF Observe
<1> QED BY <1>2, <1>3, <1>4, <1>6, ParametersAssumption DEF Lag

(* Reading an answer, whether or not a restart follows, preserves the
   conjuncts that do not concern restarts.                                 *)
LEMMA ObserveInv ==
  ASSUME IInv, NEW t \in Nat, t > now, NEW a \in Answer, Observe(a, t),
         lastRestart' \in Nat, lastRestart' <= t,
         restarts' \subseteq [at : Nat, run : Nat, why : Failure]
  PROVE  TypeOK' /\ AlertMatchesCondition' /\ ClockInv' /\ ProgressInv' /\ LagClockInv'
<1> USE DEF IInv
<1>1. TypeOK'
  <2>1. /\ Verdict(a, t) \in Failure \cup {"healthy"}
        /\ AlertAfter(a, t) \in Failure \cup {"none"}
        /\ LagClockAfter(a) \in Nat
    BY VerdictFacts, LagClockFacts
  <2>2. [at |-> t, progress |-> a.progress, analysis |-> a.analysis]
          \in [at : Nat, progress : Progress \cup {NoProgress}, analysis : BOOLEAN]
    BY DEF Answer
  <2>3. seen' \subseteq [at : Nat, progress : Progress \cup {NoProgress}, analysis : BOOLEAN]
    BY <2>2 DEF TypeOK, Observe
  <2>4. a.progress \in Progress \cup {NoProgress}
    BY DEF Answer
  <2>5. lagStarted' \in Nat /\ lastProgressTs' \in Nat
    BY <2>1 DEF TypeOK, Observe
  <2> QED BY <2>1, <2>3, <2>4, <2>5 DEF TypeOK, Observe, Alert
<1>2. AlertMatchesCondition'
  BY VerdictFacts, ParametersAssumption DEF AlertMatchesCondition, Observe, Failure
<1>3. ProgressInv' /\ LagClockInv' /\ (\A o \in seen' : o.at <= now')
  BY ObserveKeepsHistory
<1>4. ClockInv'
  BY <1>3 DEF ClockInv, TypeOK, Observe
<1> QED BY <1>1, <1>2, <1>3, <1>4

(* A poll that asks for no restart preserves the inductive invariant.      *)
LEMMA PollHealthyEnoughInv ==
  ASSUME IInv, NEW t \in Nat, t > now, NEW a \in Answer, PollHealthyEnough(a, t)
  PROVE  IInv'
<1> USE DEF IInv, PollHealthyEnough
<1>1. TypeOK' /\ AlertMatchesCondition' /\ ClockInv' /\ ProgressInv' /\ LagClockInv'
  BY ObserveInv DEF TypeOK, ClockInv
<1>2. CooldownBetweenRestarts' /\ StampInv'
  BY DEF CooldownBetweenRestarts, StampInv, Observe
<1>3. PersistentLagIsActedOn'
  <2> SUFFICES ASSUME verdict' = "scan_lag", lastProgress' \in Progress,
                      StuckAt(lastProgress, now)'
               PROVE  t - lastRestart < Cooldown
    BY DEF PersistentLagIsActedOn, Observe
  <2>1. Verdict(a, t) = "scan_lag" /\ Classify(a) = "scan_lag"
    BY VerdictFacts DEF Observe, Failure
  <2>2. Lag(a, t) >= LagRestart
    BY <2>1, StuckMeansLag DEF Observe
  <2> QED BY <2>1, <2>2, ParametersAssumption DEF ShouldRestart, Failure, TypeOK
<1> QED BY <1>1, <1>2, <1>3

(* A request sent now is a cooldown after every earlier one of this run.   *)
LEMMA RequestKeepsCooldown ==
  ASSUME IInv, NEW t \in Nat, t > now, NEW a \in Answer, ShouldRestart(a, t),
         restarts' = restarts \cup {RequestSent(a, t)}
  PROVE  /\ CooldownBetweenRestarts'
         /\ restarts' \subseteq [at : Nat, run : Nat, why : Failure]
         /\ \A r \in restarts' : r.run <= run /\ (r.run = run => r.at <= t)
<1> USE DEF IInv, TypeOK
<1>1. RequestSent(a, t) \in [at : Nat, run : Nat, why : Failure]
  BY DEF RequestSent, ShouldRestart
<1>2. RequestSent(a, t).at = t /\ RequestSent(a, t).run = run
  BY DEF RequestSent
<1>3. \A r \in restarts : r.run = run => t - r.at >= Cooldown
  BY ParametersAssumption DEF StampInv, ShouldRestart
<1>4. \A r \in restarts : r.at \in Nat /\ r.run \in Nat
  OBVIOUS
<1>5. \A r \in restarts' : r.run <= run /\ (r.run = run => r.at <= t)
  BY <1>2, <1>4 DEF StampInv, ClockInv
<1>6. CooldownBetweenRestarts'
  <2> SUFFICES ASSUME NEW r \in restarts', NEW s \in restarts', r.run = s.run, r.at < s.at
               PROVE  s.at - r.at >= Cooldown
    BY DEF CooldownBetweenRestarts
  <2>1. CASE r \in restarts /\ s \in restarts
    BY <2>1 DEF CooldownBetweenRestarts
  <2>2. CASE r \in restarts /\ s = RequestSent(a, t)
    BY <2>2, <1>2, <1>3
  <2>3. CASE r = RequestSent(a, t)
    BY <2>3, <1>2, <1>4, <1>5
  <2> QED BY <2>1, <2>2, <2>3
<1> QED BY <1>1, <1>5, <1>6

(* A poll that asks for a restart preserves the inductive invariant.       *)
LEMMA PollAndRestartInv ==
  ASSUME IInv, NEW t \in Nat, t > now, NEW a \in Answer, NEW ok \in BOOLEAN,
         PollAndRestart(a, t, ok)
  PROVE  IInv'
<1> USE DEF IInv, PollAndRestart, LastRestartAfter
<1>1. /\ CooldownBetweenRestarts'
      /\ restarts' \subseteq [at : Nat, run : Nat, why : Failure]
      /\ \A r \in restarts' : r.run <= run /\ (r.run = run => r.at <= t)
  BY RequestKeepsCooldown
<1>2. TypeOK' /\ AlertMatchesCondition' /\ ClockInv' /\ ProgressInv' /\ LagClockInv'
  BY <1>1, ObserveInv
<1>3. StampInv'
  BY <1>1 DEF StampInv, Observe
<1>4. PersistentLagIsActedOn'
  BY ParametersAssumption DEF PersistentLagIsActedOn, Observe
<1> QED BY <1>1, <1>2, <1>3, <1>4

-----------------------------------------------------------------------------
(* Every step of the daemon preserves the inductive invariant.             *)
LEMMA NextInv == IInv /\ [Next]_vars => IInv'
<1> SUFFICES ASSUME IInv, [Next]_vars PROVE IInv'
  OBVIOUS
<1>1. CASE UNCHANGED vars
  BY <1>1 DEF vars, locals, history, IInv, TypeOK, AlertMatchesCondition,
       CooldownBetweenRestarts, PersistentLagIsActedOn, StuckAt, ClockInv, ProgressInv,
       LagClockInv, StampInv
<1>2. CASE Next
  <2>1. PICK gap \in Gaps : Iteration(now + gap) \/ DaemonRestarted(now + gap)
    BY <1>2 DEF Next
  <2> DEFINE t == now + gap
  <2>2. t \in Nat /\ t > now
    BY ParametersAssumption DEF IInv, TypeOK
  <2> HIDE DEF t
  <2>3. CASE PollFails(t)
    BY <2>2, <2>3, PollFailsInv
  <2>4. CASE \E a \in Answer : PollHealthyEnough(a, t)
    BY <2>2, <2>4, PollHealthyEnoughInv
  <2>5. CASE \E a \in Answer : \E ok \in BOOLEAN : PollAndRestart(a, t, ok)
    BY <2>2, <2>5, PollAndRestartInv
  <2>6. CASE \E a \in Answer : RestartRequestCrashes(a, t)
    BY <2>2, <2>6, NewRunInv, RequestKeepsCooldown DEF RestartRequestCrashes
  <2>7. CASE DaemonRestarted(t)
    <3>1. CooldownBetweenRestarts'
      BY <2>7 DEF DaemonRestarted, IInv, CooldownBetweenRestarts
    <3> QED BY <2>2, <2>7, <3>1, NewRunInv DEF DaemonRestarted, IInv, TypeOK, StampInv
  <2> QED BY <2>1, <2>3, <2>4, <2>5, <2>6, <2>7 DEF Iteration, t
<1> QED BY <1>1, <1>2

(* The inductive invariant holds throughout.                               *)
THEOREM Invariance == Spec => []IInv
BY InitInv, NextInv, PTL DEF Spec

(* The locals of main() keep their types.                                  *)
THEOREM TypeCorrectness == Spec => []TypeOK
<1>1. IInv => TypeOK
  BY DEF IInv
<1> QED BY <1>1, Invariance, PTL

(* The open alert is the failure the last successful poll found.           *)
THEOREM AlertCorrectness == Spec => []AlertMatchesCondition
<1>1. IInv => AlertMatchesCondition
  BY DEF IInv
<1> QED BY <1>1, Invariance, PTL

(* Two restart requests of one run of the daemon are a cooldown apart.     *)
THEOREM CooldownCorrectness == Spec => []CooldownBetweenRestarts
<1>1. IInv => CooldownBetweenRestarts
  BY DEF IInv
<1> QED BY <1>1, Invariance, PTL

(* A percentage stuck past the threshold has led to a restart request.     *)
THEOREM LagResponse == Spec => []PersistentLagIsActedOn
<1>1. IInv => PersistentLagIsActedOn
  BY DEF IInv
<1> QED BY <1>1, Invariance, PTL

(* A restart decided on scan lag has its evidence among the answers read.  *)
LEMMA RestartEvidence ==
  ASSUME IInv, NEW t \in Nat, NEW a \in Answer, ShouldRestart(a, t),
         Verdict(a, t) = "scan_lag"
  PROVE  \E p \in Progress : StuckAt(p, t)
<1> USE DEF IInv
<1>1. Classify(a) = "scan_lag" /\ Lag(a, t) >= LagRestart
  BY VerdictFacts DEF ShouldRestart, Failure
<1>2. LagClockAfter(a) # 0 /\ Lag(a, t) = t - LagClockAfter(a)
  <2>1. Lag(a, t) >= LagAlert
    BY <1>1, ParametersAssumption, VerdictFacts DEF IsFailing, Failure
  <2> QED BY <1>1, <2>1, ParametersAssumption DEF Lag
<1>3. LagClockAfter(a) = lastProgressTs /\ lastProgress \in Progress
  BY <1>2, LagClockFacts
<1>4. PICK o \in seen : o.at = lastProgressTs
  BY <1>3 DEF ProgressInv
<1>5. StuckAt(lastProgress, t)
  BY <1>1, <1>2, <1>3, <1>4 DEF StuckAt, ProgressInv, TypeOK
<1> QED BY <1>3, <1>5

(* A restart for scan lag is sent only after one percentage was read over
   the whole restart threshold.                                            *)
THEOREM LagEvidence == Spec => LagRestartHasEvidence
<1>1. ASSUME IInv, [Next]_vars
      PROVE  [\A r \in restarts' \ restarts :
                r.why = "scan_lag" => \E p \in Progress : StuckAt(p, r.at)]_vars
  <2> SUFFICES ASSUME Next, NEW r \in restarts' \ restarts, r.why = "scan_lag"
               PROVE  \E p \in Progress : StuckAt(p, r.at)
    BY <1>1
  <2>1. PICK gap \in Gaps : Iteration(now + gap) \/ DaemonRestarted(now + gap)
    BY DEF Next
  <2>2. now + gap \in Nat
    BY <1>1, ParametersAssumption DEF IInv, TypeOK
  <2>3. PICK a \in Answer : /\ ShouldRestart(a, now + gap)
                            /\ restarts' = restarts \cup {RequestSent(a, now + gap)}
    BY <2>1 DEF Iteration, PollFails, PollHealthyEnough, PollAndRestart,
                RestartRequestCrashes, DaemonRestarted
  <2>4. r.at = now + gap /\ Verdict(a, now + gap) = "scan_lag"
    BY <2>3 DEF RequestSent
  <2> QED BY <1>1, <2>2, <2>3, <2>4, RestartEvidence
<1> QED BY <1>1, Invariance, PTL DEF Spec, LagRestartHasEvidence
=============================================================================
