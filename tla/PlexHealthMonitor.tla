------------------------- MODULE PlexHealthMonitor -------------------------
(***************************************************************************)
(* scripts/plex-health-monitor.py: the long-running watchdog that polls    *)
(* the panel's scan-health endpoint, tracks scan progress across polls,    *)
(* alerts on Discord and restarts the Plex container.                      *)
(*                                                                         *)
(* One iteration of the daemon's loop is one action: the daemon has one    *)
(* thread and nothing else reads its local variables.  What the endpoint   *)
(* answers, how long an iteration takes and how the restart request ends   *)
(* are the environment's choice.                                           *)
(***************************************************************************)
EXTENDS Integers, FiniteSets

CONSTANTS
  Progress,      \* percentages a library-scan activity can report
  NoProgress,    \* scan_progress() is None: no scan activity, or one without a percentage
  Gaps,          \* wall-clock time between the "now" of two iterations
  LagAlert,      \* SCAN_LAG_ALERT_SECONDS
  LagRestart,    \* SCAN_LAG_RESTART_SECONDS
  Cooldown,      \* RESTART_COOLDOWN_SECONDS
  FailureAlert,  \* CONSECUTIVE_POLL_FAILURE_ALERT
  MaxTime,       \* bound: the last instant the model looks at
  MaxRuns        \* bound: how many times systemd starts the daemon

ASSUME ParametersAssumption ==
  /\ NoProgress \notin Progress
  /\ Gaps \subseteq Nat \ {0}
  /\ LagAlert \in Nat \ {0} /\ LagRestart \in Nat /\ LagAlert <= LagRestart
  /\ Cooldown \in Nat \ {0}
  /\ FailureAlert \in Nat \ {0}
  /\ MaxTime \in Nat /\ MaxRuns \in Nat

VARIABLES
  now,             \* time.time() at the daemon's last iteration
  lastProgress, lastProgressTs, lagStarted,   \* 0 stands for lag_started_ts = None
  activeAlert, lastRestart, failures,         \* the rest of main()'s locals
  verdict,         \* history: what the last iteration concluded
  seen,            \* history: the answers this run of the daemon has read
  restarts,        \* history: the restart requests sent, by every run
  run              \* history: which start of the daemon this is

locals  == <<lastProgress, lastProgressTs, lagStarted, activeAlert, lastRestart, failures>>
history == <<verdict, seen, restarts, run>>
vars    == <<now, locals, history>>

Failure == {"hard_hang", "busy_db", "scan_lag"}

\* What scan-health reports, reduced to what classify() and scan_progress() read.
Answer == [progress : Progress \cup {NoProgress},
           hang     : BOOLEAN,   \* dstate_threads or not mount_ok
           busy     : BOOLEAN,   \* recent_busy_db_errors > 0
           analysis : BOOLEAN,   \* analysis_active
           scanning : BOOLEAN]   \* state is "scanning" or "stalled_suspected"

-----------------------------------------------------------------------------
(* classify(): the failure class of one answer alone.                      *)
Classify(a) ==
  IF a.hang THEN "hard_hang"
  ELSE IF a.busy THEN "busy_db"
  ELSE IF ~a.analysis /\ (a.progress # NoProgress \/ a.scanning) THEN "scan_lag"
  ELSE "none"

\* The lag clock after reading an answer (0: not running).
KeepOldLagClock(a) ==
  IF a.progress # NoProgress /\ lagStarted = 0 THEN lastProgressTs ELSE lagStarted

LagClockAfter(a) ==
  IF a.progress # lastProgress THEN 0
  ELSE IF a.progress # NoProgress /\ lagStarted = 0 THEN lastProgressTs
  ELSE lagStarted

Lag(a, t) ==
  IF Classify(a) = "scan_lag" /\ LagClockAfter(a) # 0 THEN t - LagClockAfter(a) ELSE 0

IsFailing(a, t) ==
  Classify(a) \in Failure /\ (Classify(a) = "scan_lag" => Lag(a, t) >= LagAlert)

Verdict(a, t) == IF IsFailing(a, t) THEN Classify(a) ELSE "healthy"

RestartOnNewAlertOnly(a, t) ==
  /\ Verdict(a, t) \in Failure \ {"hard_hang", activeAlert}
  /\ t - lastRestart >= Cooldown
  /\ Classify(a) = "busy_db" \/ Lag(a, t) >= LagRestart

ShouldRestart(a, t) ==
  /\ Verdict(a, t) \in Failure \ {"hard_hang"}
  /\ t - lastRestart >= Cooldown
  /\ Classify(a) = "busy_db" \/ Lag(a, t) >= LagRestart

\* active_alert on entry to the iteration, "poll_unreachable" already dropped.
KnownAlert == IF activeAlert = "poll_unreachable" THEN "none" ELSE activeAlert

\* active_alert after an iteration: alert on a new class, forget it on recovery.
AlertOnlyWhenNone(a, t) ==
  IF ~IsFailing(a, t) THEN "none"
  ELSE IF KnownAlert = "none" THEN Classify(a) ELSE KnownAlert

AlertAfter(a, t) == IF IsFailing(a, t) THEN Classify(a) ELSE "none"

-----------------------------------------------------------------------------
(* The locals main() starts from; the first "now" is far past the epoch.   *)
BootAt(t) ==
  /\ now = t
  /\ lastProgress = NoProgress /\ lastProgressTs = t /\ lagStarted = 0
  /\ activeAlert = "none" /\ lastRestart = 0 /\ failures = 0
  /\ verdict = "started" /\ seen = {}

Init == BootAt(Cooldown) /\ restarts = {} /\ run = 1

\* An iteration whose poll raised: count it, alert once when the run of
\* failures reaches the limit, and skip everything else.
PollFails(t) ==
  /\ now' = t
  /\ failures' = failures + 1
  /\ activeAlert' = IF failures' = FailureAlert THEN "poll_unreachable" ELSE activeAlert
  /\ verdict' = "poll_failed"
  /\ UNCHANGED <<lastProgress, lastProgressTs, lagStarted, lastRestart,
                 seen, restarts, run>>

\* The part of a successful iteration before the restart decision.
Observe(a, t) ==
  /\ now' = t
  /\ failures' = 0
  /\ lastProgress' = a.progress
  /\ lastProgressTs' = IF a.progress # lastProgress THEN t ELSE lastProgressTs
  /\ activeAlert' = AlertAfter(a, t)
  /\ lagStarted' = IF ~IsFailing(a, t) /\ KnownAlert # "none" THEN 0 ELSE LagClockAfter(a)
  /\ verdict' = Verdict(a, t)
  /\ seen' = seen \cup {[at |-> t, progress |-> a.progress, analysis |-> a.analysis]}
  /\ UNCHANGED run

RequestSent(a, t) == [at |-> t, run |-> run, why |-> Verdict(a, t)]

\* last_restart_ts when the request failed: it is set before the request.
CountOnlySuccess(ok, t) == IF ok THEN t ELSE lastRestart
LastRestartAfter(ok, t) == t

PollHealthyEnough(a, t) ==
  /\ ~ShouldRestart(a, t)
  /\ Observe(a, t)
  /\ UNCHANGED <<lastRestart, restarts>>

PollAndRestart(a, t, ok) ==
  /\ ShouldRestart(a, t)
  /\ Observe(a, t)
  /\ lastRestart' = LastRestartAfter(ok, t)
  /\ restarts' = restarts \cup {RequestSent(a, t)}

\* systemd starts a new process (Restart=on-failure, a stop and start, a boot):
\* every local is lost.
NewRun(t) ==
  /\ run < MaxRuns
  /\ run' = run + 1
  /\ now' = t
  /\ lastProgress' = NoProgress /\ lastProgressTs' = t /\ lagStarted' = 0
  /\ activeAlert' = "none" /\ lastRestart' = 0 /\ failures' = 0
  /\ verdict' = "started" /\ seen' = {}

DaemonRestarted(t) == NewRun(t) /\ UNCHANGED restarts

\* api_post() reads an error answer as JSON with an object in "detail"; any
\* other error body raises out of main() with the request already sent.
RestartRequestCrashes(a, t) ==
  /\ ShouldRestart(a, t)
  /\ restarts' = restarts \cup {RequestSent(a, t)}
  /\ NewRun(t)

Iteration(t) ==
  \/ PollFails(t)
  \/ \E a \in Answer :
       \/ PollHealthyEnough(a, t)
       \/ \E ok \in BOOLEAN : PollAndRestart(a, t, ok)
       \/ RestartRequestCrashes(a, t)

Next ==
  \E gap \in Gaps :
    /\ now + gap <= MaxTime
    /\ Iteration(now + gap) \/ DaemonRestarted(now + gap)

Spec == Init /\ [][Next]_vars

-----------------------------------------------------------------------------
Alert == Failure \cup {"none", "poll_unreachable"}

(* Every variable keeps its type: the locals of main() and the histories.  *)
TypeOK ==
  /\ now \in Nat
  /\ lastProgress \in Progress \cup {NoProgress}
  /\ lastProgressTs \in Nat /\ lagStarted \in Nat
  /\ activeAlert \in Alert
  /\ lastRestart \in Nat /\ failures \in Nat
  /\ verdict \in Failure \cup {"healthy", "poll_failed", "started"}
  /\ seen \subseteq [at : Nat, progress : Progress \cup {NoProgress}, analysis : BOOLEAN]
  /\ restarts \subseteq [at : Nat, run : Nat, why : Failure]
  /\ run \in Nat

(* The alert the daemon believes is open is the failure the last successful
   poll found, never a stale class from earlier in the episode; a long run of
   failed polls is what "poll_unreachable" means, and nothing else is.  (The
   comment at lines 263-271 tells of the incident where it was stale.)       *)
AlertMatchesCondition ==
  /\ verdict \in Failure => activeAlert = verdict
  /\ verdict = "healthy" => activeAlert = "none"
  /\ (activeAlert = "poll_unreachable") <=> (failures >= FailureAlert)

(* Two restart requests of one run of the daemon are a cooldown apart, also
   when the first one failed and whichever failure classes asked for them.   *)
CooldownBetweenRestarts ==
  \A r, s \in restarts :
    (r.run = s.run /\ r.at < s.at) => s.at - r.at >= Cooldown

\* The scan progress p was read at LagRestart or more before t, and every
\* answer read since then showed p again.
StuckAt(p, t) ==
  \E o \in seen : /\ o.progress = p
                  /\ t - o.at >= LagRestart
                  /\ \A later \in seen : later.at >= o.at => later.progress = p

(* A restart for scan lag is sent only when the answers read so far show one
   and the same percentage over the whole restart threshold, however failed
   polls, other failure classes and recoveries were interleaved with them.   *)
LagRestartHasEvidence ==
  [][\A r \in restarts' \ restarts :
       r.why = "scan_lag" => \E p \in Progress : StuckAt(p, r.at)]_vars

(* Bounded response: when a poll finds scan lag and the percentage has been
   the same over the restart threshold, the restart has been requested, now or
   less than a cooldown ago.                                                 *)
PersistentLagIsActedOn ==
  (verdict = "scan_lag" /\ lastProgress \in Progress /\ StuckAt(lastProgress, now))
    => now - lastRestart < Cooldown

-----------------------------------------------------------------------------
(* What the daemon's documentation says and the code does not keep.        *)

(* "Suppressed entirely while scan-health's own analysis_active flag is set -
   stalled progress fully explained by real analysis work isn't lag": no
   restart for scan lag counts time in which Plex was analysing.             *)
AnalysisTimeIsNotLag ==
  [][\A r \in restarts' \ restarts :
       r.why = "scan_lag" =>
         \A o \in seen : r.at - o.at < LagRestart => ~o.analysis]_vars
=============================================================================
