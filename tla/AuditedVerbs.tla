---------------------------- MODULE AuditedVerbs ----------------------------
(***************************************************************************)
(* What the host helper promises of the panel's requests, without socket,  *)
(* backlog, timeouts or a daemon that comes and goes                       *)
(* (scripts/host-helper/helper.py, README.md): a verb runs at most once    *)
(* and is logged before another runs, its caller is told its own outcome   *)
(* and only after the log has it, and nothing goes on for a request that   *)
(* a stop of the host caught.                                              *)
(***************************************************************************)
EXTENDS Naturals

CONSTANTS Request, Action, Reboot

VARIABLES
  asked,      \* requests that reached the socket
  verb,       \* the action each request asks for
  outcome,    \* per request: "none", or how its verb ended
  journal,    \* requests that are logged
  told,       \* per request: "none", or what its caller was told
  stopping,   \* a reboot has succeeded: the host is about to go down
  stopped     \* requests that the host's stop caught

auditVars == <<asked, verb, outcome, journal, told, stopping, stopped>>

AuditInit ==
  /\ asked = {} /\ verb \in [Request -> Action] /\ journal = {} /\ stopped = {}
  /\ outcome = [r \in Request |-> "none"] /\ told = [r \in Request |-> "none"]
  /\ stopping = FALSE

\* Whether or not it reaches the socket.
Asks(r, a) ==
  /\ r \notin asked /\ asked' \in {asked, asked \cup {r}}
  /\ verb' = [verb EXCEPT ![r] = a]
  /\ UNCHANGED <<outcome, journal, told, stopping, stopped>>

Unlogged == {r \in Request : outcome[r] # "none"} \ (journal \cup stopped)

Runs(r, o) ==
  /\ r \in asked \ stopped /\ outcome[r] = "none" /\ Unlogged = {}
  /\ outcome' = [outcome EXCEPT ![r] = o]
  /\ stopping' = (stopping \/ (verb[r] = Reboot /\ o = "exit0"))
  /\ UNCHANGED <<asked, verb, journal, told, stopped>>

IsLogged(r) ==
  /\ r \in Unlogged /\ journal' = journal \cup {r}
  /\ UNCHANGED <<asked, verb, outcome, told, stopping, stopped>>

IsTold(r) ==
  /\ r \in journal \ stopped /\ told[r] = "none"
  /\ told' = [told EXCEPT ![r] = IF outcome[r] = "exit0" THEN "succeeded" ELSE "failed"]
  /\ UNCHANGED <<asked, verb, outcome, journal, stopping, stopped>>

HostGoesDown ==
  /\ stopping /\ stopping' = FALSE
  /\ stopped \cup Unlogged \subseteq stopped' /\ stopped' \subseteq stopped \cup asked
  /\ UNCHANGED <<asked, verb, outcome, journal, told>>

AuditNext ==
  \/ \E r \in Request : \/ \E a \in Action : Asks(r, a)
                        \/ \E o \in {"exit0", "error", "timeout"} : Runs(r, o)
                        \/ IsLogged(r) \/ IsTold(r)
  \/ HostGoesDown

AuditSpec == AuditInit /\ [][AuditNext]_auditVars
=============================================================================
