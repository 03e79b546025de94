---------------------------- MODULE HostHelper ----------------------------
(***************************************************************************)
(* Host-privileged actions: the panel's client                             *)
(* (control-panel-django/core/host_helper_client.py, host_actions/) and    *)
(* the root daemon behind a systemd-activated Unix socket                  *)
(* (scripts/host-helper/helper.py and its two units).                      *)
(*                                                                         *)
(* One connection per request; the daemon serves them one after another.   *)
(* The client waits 600 s for an answer while an upgrade may run 1800 s,   *)
(* so a caller can be gone when its verb starts, or when it ends.  Time    *)
(* passes in units of 300 s (Tick); what the daemon does between verbs     *)
(* takes no time.                                                          *)
(***************************************************************************)
EXTENDS Integers, Sequences

CONSTANTS
  Request,        \* calls of call_host_helper
  Action,         \* the keys of VERBS
  Reboot,         \* "reboot"
  Limit,          \* VERBS' timeouts
  ClientTimeout,  \* DEFAULT_TIMEOUT
  None

ASSUME HelperAssumption ==
  /\ Reboot \in Action
  /\ Limit \in [Action -> Nat \ {0}]
  /\ ClientTimeout \in Nat \ {0}
  /\ None \notin Request

VARIABLES
  caller,    \* what each call has come to
  verb,      \* the action each call asks for
  waited,    \* how long each call has waited for an answer
  backlog,   \* connections the listening socket holds for accept()
  daemon,    \* a daemon process exists
  job,       \* the request in serve_one, or None
  step,      \* 0 while its verb runs, then the position in Steps
  elapsed,   \* how long the verb has run
  outcome,   \* per request: None, or how its subprocess ended
  journal,   \* requests logged to LOG_PATH
  stopping,  \* systemctl reboot succeeded: the host is about to go down
  stopped    \* history: requests the host's stop caught under way

vars == <<caller, verb, waited, backlog, daemon, job, step, elapsed, outcome,
          journal, stopping, stopped>>

callers == <<caller, verb, waited>>
host    == <<stopping, stopped>>

(* serve_one() after handle_request(): what is done, in order.             *)
AnswerFirst == <<"answer", "log">>
Steps == <<"log", "answer">>

VerbLimit(a) == Limit[a]

\* _run_verb's ok; the process exits 0, fails (or does not start), or is
\* killed at its time limit.
OkUnlessKilled(o) == o # "timeout"
Ok(o) == o = "exit0"

-----------------------------------------------------------------------------
(* call_host_helper(a), by one of the three views, after confirm=true.  No *)
(* socket is 503, a refused connection 502.                                *)
Call(r, a) ==
  /\ caller[r] = "idle"
  /\ verb' = [verb EXCEPT ![r] = a]
  /\ \/ /\ caller' = [caller EXCEPT ![r] = "waiting"]
        /\ backlog' = Append(backlog, r)
     \/ /\ caller' = [caller EXCEPT ![r] = "refused"]
        /\ UNCHANGED backlog
  /\ UNCHANGED <<waited, daemon, job, step, elapsed, outcome, journal, host>>

\* recv() raised timeout: 502 "Host helper request failed", socket closed.
\* The request it sent stays in the connection.
CallerGivesUp(r) ==
  /\ caller[r] = "waiting" /\ waited[r] = ClientTimeout
  /\ caller' = [caller EXCEPT ![r] = "gone"]
  /\ UNCHANGED <<verb, waited, backlog, daemon, job, step, elapsed, outcome, journal, host>>

-----------------------------------------------------------------------------
(* The daemon.                                                             *)

\* systemd starts the service while its socket has a connection to accept.
Activate ==
  /\ ~daemon /\ backlog # <<>>
  /\ daemon' = TRUE
  /\ UNCHANGED <<callers, backlog, job, step, elapsed, outcome, journal, host>>

\* accept() and _recv_request(); the verb's process starts.
Accept ==
  /\ daemon /\ job = None /\ backlog # <<>>
  /\ job' = Head(backlog) /\ backlog' = Tail(backlog)
  /\ step' = 0 /\ elapsed' = 0
  /\ UNCHANGED <<callers, daemon, outcome, journal, host>>

\* What waits in the socket when the daemon exits: it is systemd's, not the
\* daemon's (one that had bound SOCKET_PATH itself would take it along).
BacklogDies == <<>>
BacklogAfterExit == backlog

\* NonBlocking=true: with nothing to accept, accept() raises BlockingIOError
\* and the process ends; systemd keeps the socket.
AcceptWouldBlock ==
  /\ daemon /\ job = None /\ backlog = <<>>
  /\ daemon' = FALSE /\ backlog' = BacklogAfterExit
  /\ UNCHANGED <<callers, job, step, elapsed, outcome, journal, host>>

VerbReturns(o) ==
  /\ job # None /\ step = 0
  /\ o = "timeout" <=> elapsed = VerbLimit(verb[job])
  /\ outcome' = [outcome EXCEPT ![job] = o]
  /\ step' = 1
  /\ stopping' = (stopping \/ (verb[job] = Reboot /\ o = "exit0"))
  /\ UNCHANGED <<callers, backlog, daemon, job, elapsed, journal, stopped>>

NextStep ==
  IF step < Len(Steps) THEN step' = step + 1 /\ UNCHANGED job
                       ELSE step' = 0 /\ job' = None

LogsRequest ==
  /\ job # None /\ step > 0 /\ Steps[step] = "log"
  /\ journal' = journal \cup {job}
  /\ NextStep
  /\ UNCHANGED <<callers, backlog, daemon, elapsed, outcome, host>>

\* sendall() to a caller that is still there; the view makes 200 or 502 of ok.
Answers ==
  /\ job # None /\ step > 0 /\ Steps[step] = "answer"
  /\ caller[job] = "waiting"
  /\ caller' = [caller EXCEPT ![job] = IF Ok(outcome[job]) THEN "succeeded" ELSE "failed"]
  /\ NextStep
  /\ UNCHANGED <<verb, waited, backlog, daemon, elapsed, outcome, journal, host>>

\* BrokenPipeError leaves serve_one() and serve(): the daemon exits.
AnswerBreaksPipe ==
  /\ job # None /\ step > 0 /\ Steps[step] = "answer"
  /\ caller[job] = "gone"
  /\ daemon' = FALSE /\ backlog' = BacklogAfterExit /\ job' = None /\ step' = 0
  /\ UNCHANGED <<callers, elapsed, outcome, journal, host>>

-----------------------------------------------------------------------------
(* The host goes down some time after systemctl reboot has returned, and   *)
(* takes the daemon, the panel's callers and the socket's backlog with it. *)
Caught == {r \in Request : caller[r] = "waiting" \/ r = job
                           \/ \E i \in DOMAIN backlog : backlog[i] = r}

HostStops ==
  /\ stopping
  /\ stopping' = FALSE
  /\ stopped' = stopped \cup Caught
  /\ caller' = [r \in Request |-> IF caller[r] = "waiting" THEN "gone" ELSE caller[r]]
  /\ backlog' = <<>> /\ daemon' = FALSE /\ job' = None /\ step' = 0
  /\ UNCHANGED <<verb, waited, elapsed, outcome, journal>>

VerbRuns == job # None /\ step = 0

\* Only waiting and running verbs take time; nobody oversleeps a limit.
Tick ==
  /\ VerbRuns /\ elapsed < VerbLimit(verb[job])
  /\ \A r \in Request : caller[r] = "waiting" => waited[r] < ClientTimeout
  /\ elapsed' = elapsed + 1
  /\ waited' = [r \in Request |-> IF caller[r] = "waiting" THEN waited[r] + 1 ELSE waited[r]]
  /\ UNCHANGED <<caller, verb, backlog, daemon, job, step, outcome, journal, host>>

-----------------------------------------------------------------------------
Init ==
  /\ caller = [r \in Request |-> "idle"] /\ waited = [r \in Request |-> 0]
  /\ verb \in [Request -> {Reboot}]
  /\ backlog = <<>> /\ daemon = FALSE
  /\ job = None /\ step = 0 /\ elapsed = 0
  /\ outcome = [r \in Request |-> "none"] /\ journal = {}
  /\ stopping = FALSE /\ stopped = {}

DaemonStep ==
  \/ Activate \/ Accept \/ AcceptWouldBlock
  \/ \E o \in {"exit0", "error", "timeout"} : VerbReturns(o)
  \/ LogsRequest \/ Answers \/ AnswerBreaksPipe

Next ==
  \/ \E r \in Request, a \in Action : Call(r, a)
  \/ \E r \in Request : CallerGivesUp(r)
  \/ DaemonStep \/ HostStops \/ Tick

Spec == Init /\ [][Next]_vars

\* systemd restarts the daemon while connections are pending, the daemon is
\* scheduled, and subprocess.run returns within its limit.
FairSpec == Spec /\ WF_vars(DaemonStep)

-----------------------------------------------------------------------------
(* Types; a request is in the backlog at most once and not while served.   *)
TypeOK ==
  /\ caller \in [Request -> {"idle", "waiting", "refused", "succeeded", "failed", "gone"}]
  /\ verb \in [Request -> Action]
  /\ waited \in [Request -> 0..ClientTimeout]
  /\ backlog \in Seq(Request)
  /\ daemon \in BOOLEAN /\ job \in Request \cup {None}
  /\ step \in 0..Len(Steps) /\ elapsed \in Nat
  /\ outcome \in [Request -> {"none", "exit0", "error", "timeout"}]
  /\ journal \subseteq Request
  /\ stopping \in BOOLEAN /\ stopped \subseteq Request

(* README.md:82 of the helper, "Every request - successful or not - is logged":
   whoever's caller has gone, a verb that ran is in the journal, except when the
   host it rebooted stopped first; and a caller that is told "succeeded" asked for
   a verb that exited 0 and is in the journal.                                *)
RunsAreLogged ==
  \A r \in Request :
    /\ outcome[r] # "none" => r \in journal \/ r \in stopped \/ (r = job /\ step = 1)
    /\ caller[r] = "succeeded" => outcome[r] = "exit0" /\ r \in journal

(* A daemon that exits (BrokenPipeError, BlockingIOError) loses no request that
   waits behind the one it served: each one runs, or the host stops.          *)
PendingRequestsAreServed ==
  \A r \in Request : caller[r] = "waiting" ~> outcome[r] # "none" \/ r \in stopped

(* RebootView (host_actions/api/views.py:47-51): the daemon call returns before
   the reboot completes, "so this request finishes successfully": the panel never
   reports a reboot as failed that is then carried out.                       *)
RebootIsNotReportedFailed ==
  \A r \in Request :
    verb[r] = Reboot /\ outcome[r] = "exit0" => caller[r] \notin {"gone", "failed"} \/ r \in stopped

-----------------------------------------------------------------------------
\* What each caller was told by an answer of the daemon.
Told == [r \in Request |-> IF caller[r] \in {"succeeded", "failed"} THEN caller[r] ELSE "none"]

Audit == INSTANCE AuditedVerbs WITH
  asked <- {r \in Request : caller[r] \notin {"idle", "refused"}},
  told <- Told

(* The client, the socket and the daemon behind it implement AuditedVerbs: however
   callers time out and the daemon comes and goes, a verb runs once, one run at a
   time waits for its log entry, and a caller is told the outcome of its own verb
   after that; and none of this happens to a request the host's stop caught.   *)
ImplementsAudit == Audit!AuditSpec
=============================================================================
