-------------------------- MODULE HostHelperProofs --------------------------
(*****************************************************************************)
(* Proofs about the host helper, for every set of callers and actions: no   *)
(* request is served twice and no run goes unlogged.                        *)
(*****************************************************************************)
EXTENDS HostHelper, TLAPS

(* Types of the callers, the backlog and the job.                          *)
HelperTypes ==
  /\ caller \in [Request -> {"idle", "waiting", "refused", "succeeded", "failed", "gone"}]
  /\ verb \in [Request -> Action]
  /\ waited \in [Request -> 0..ClientTimeout]
  /\ backlog \in Seq(Request)
  /\ job \in Request \cup {None}
  /\ step \in 0..2 /\ elapsed \in Nat
  /\ outcome \in [Request -> {"none", "exit0", "error", "timeout"}]
  /\ journal \subseteq Request /\ stopped \subseteq Request

(* Types of the flags.                                                     *)
HelperFlags == daemon \in BOOLEAN /\ stopping \in BOOLEAN

(* A request is served once: it is in the backlog once, or it is the job, and   *)
(* while it is, its caller has no answer.                                       *)
ServedOnce ==
  /\ \A i \in DOMAIN backlog : caller[backlog[i]] \in {"waiting", "gone"}
  /\ \A i, j \in DOMAIN backlog : backlog[i] = backlog[j] => i = j
  /\ job # None =>
       caller[job] \in {"waiting", "gone"} /\ \A i \in DOMAIN backlog : backlog[i] # job
  /\ job # None /\ step = 2 => job \in journal

(* The parts together; what is checked is one of them.                     *)
HelperInv == HelperTypes /\ ServedOnce /\ RunsAreLogged

(* The daemon logs, then answers.                                          *)
LEMMA StepFacts ==
  /\ Len(Steps) = 2 /\ Steps[1] = "log" /\ Steps[2] = "answer"
  /\ step \in 0..2 /\ step > 0 =>
       (Steps[step] = "log" <=> step = 1) /\ (Steps[step] = "answer" <=> step = 2)
BY DEF Steps

(* What is left when the daemon accepts the first request.                 *)
LEMMA TailFacts ==
  ASSUME NEW S, NEW q \in Seq(S), q # <<>>
  PROVE  /\ Head(q) \in S /\ Tail(q) \in Seq(S) /\ Head(q) = q[1] /\ 1 \in DOMAIN q
         /\ \A i \in DOMAIN Tail(q) : i + 1 \in DOMAIN q /\ i \in Nat /\ i # 0 /\ Tail(q)[i] = q[i + 1]
OBVIOUS

(* What a connecting caller adds to the backlog.                           *)
LEMMA AppendFacts ==
  ASSUME NEW S, NEW q \in Seq(S), NEW x \in S
  PROVE  /\ Append(q, x) \in Seq(S) /\ DOMAIN Append(q, x) = 1..Len(q) + 1
         /\ DOMAIN q = 1..Len(q) /\ Len(q) \in Nat
         /\ Append(q, x)[Len(q) + 1] = x /\ \A i \in DOMAIN q : Append(q, x)[i] = q[i]
OBVIOUS

(* The backlog holds requests.                                             *)
LEMMA ElementFacts ==
  ASSUME NEW S, NEW q \in Seq(S)
  PROVE  \A i \in DOMAIN q : q[i] \in S
OBVIOUS

(* Nobody has called.                                                      *)
LEMMA HelperInvInit == Init => HelperInv
<1> SUFFICES ASSUME Init PROVE HelperInv
  OBVIOUS
<1>1. HelperTypes
  BY HelperAssumption DEF Init, HelperTypes
<1> QED BY <1>1 DEF Init, HelperInv, ServedOnce, RunsAreLogged

(* Every step of the callers, the daemon and the host keeps it.            *)
LEMMA HelperInvStep == HelperInv /\ [Next]_vars => HelperInv'
<1> SUFFICES ASSUME HelperInv, [Next]_vars PROVE HelperInv'
  OBVIOUS
<1> USE DEF HelperInv, callers, host
<1>e. \A i \in DOMAIN backlog : backlog[i] \in Request
  BY ElementFacts DEF HelperTypes
<1>1. ASSUME NEW r \in Request, NEW a \in Action, Call(r, a) PROVE HelperInv'
  <2>1. /\ caller[r] = "idle" /\ verb' = [verb EXCEPT ![r] = a]
        /\ UNCHANGED <<waited, job, step, elapsed, outcome, journal, stopped>>
    BY <1>1 DEF Call
  <2>2. r # job /\ \A i \in DOMAIN backlog : backlog[i] # r
    BY <2>1, HelperAssumption DEF ServedOnce
  <2>3. CASE caller' = [caller EXCEPT ![r] = "waiting"] /\ backlog' = Append(backlog, r)
    <3>1. /\ backlog' \in Seq(Request) /\ DOMAIN backlog' = 1..Len(backlog) + 1
          /\ DOMAIN backlog = 1..Len(backlog) /\ Len(backlog) \in Nat
          /\ backlog'[Len(backlog) + 1] = r /\ \A i \in DOMAIN backlog : backlog'[i] = backlog[i]
      BY <2>3, AppendFacts DEF HelperTypes
    <3>2. \A i \in DOMAIN backlog' : i \in DOMAIN backlog \/ i = Len(backlog) + 1
      BY <3>1
    <3>3. caller'[r] = "waiting" /\ \A x \in Request : x # r => caller'[x] = caller[x]
      BY <2>3 DEF HelperTypes
    <3>4. HelperTypes'
      BY <2>1, <2>3, <3>1 DEF HelperTypes
    <3>5. \A i \in DOMAIN backlog' : caller'[backlog'[i]] \in {"waiting", "gone"} /\ backlog'[i] # job'
      <4> SUFFICES ASSUME NEW i \in DOMAIN backlog'
                   PROVE  caller'[backlog'[i]] \in {"waiting", "gone"} /\ backlog'[i] # job'
        OBVIOUS
      <4>1. CASE i \in DOMAIN backlog
        <5>1. backlog'[i] = backlog[i] /\ backlog[i] \in Request /\ backlog[i] # r
          BY <4>1, <3>1, <2>2, <1>e
        <5>2. backlog[i] # job
          BY <4>1, <5>1, HelperAssumption DEF ServedOnce
        <5> QED BY <2>1, <3>3, <4>1, <5>1, <5>2 DEF ServedOnce
      <4>2. CASE i = Len(backlog) + 1
        BY <2>1, <2>2, <3>1, <3>3, <4>2
      <4> QED BY <3>2, <4>1, <4>2
    <3>6. \A i, j \in DOMAIN backlog' : backlog'[i] = backlog'[j] => i = j
      BY <2>2, <3>1, <3>2 DEF ServedOnce
    <3>7. job' # None => caller'[job'] \in {"waiting", "gone"}
      BY <2>1, <2>2, <3>3 DEF ServedOnce, HelperTypes
    <3>8. ServedOnce'
      BY <2>1, <3>5, <3>6, <3>7 DEF ServedOnce
    <3> QED BY <2>1, <3>3, <3>4, <3>8 DEF RunsAreLogged
  <2>4. CASE caller' = [caller EXCEPT ![r] = "refused"] /\ backlog' = backlog
    <3>1. HelperTypes'
      BY <2>1, <2>4 DEF HelperTypes
    <3>2. caller'[r] = "refused" /\ \A x \in Request : x # r => caller'[x] = caller[x]
      BY <2>4 DEF HelperTypes
    <3>3. ServedOnce'
      BY <2>1, <2>2, <2>4, <3>2, <1>e DEF ServedOnce, HelperTypes
    <3> QED BY <2>1, <3>1, <3>2, <3>3 DEF RunsAreLogged
  <2> QED BY <1>1, <2>3, <2>4 DEF Call
<1>2. ASSUME NEW r \in Request, CallerGivesUp(r) PROVE HelperInv'
  <2>1. /\ caller[r] = "waiting" /\ caller' = [caller EXCEPT ![r] = "gone"]
        /\ UNCHANGED <<verb, waited, backlog, job, step, elapsed, outcome, journal, stopped>>
    BY <1>2 DEF CallerGivesUp
  <2>2. caller'[r] = "gone" /\ \A x \in Request : x # r => caller'[x] = caller[x]
    BY <2>1 DEF HelperTypes
  <2>3. HelperTypes'
    BY <2>1 DEF HelperTypes
  <2>4. ServedOnce'
    BY <2>1, <2>2, <1>e DEF ServedOnce, HelperTypes
  <2> QED BY <2>1, <2>2, <2>3, <2>4 DEF RunsAreLogged
<1>3. CASE Activate
  BY <1>3 DEF Activate, HelperTypes, ServedOnce, RunsAreLogged
<1>4. CASE Accept
  <2>1. /\ backlog # <<>> /\ job = None /\ job' = Head(backlog) /\ backlog' = Tail(backlog) /\ step' = 0 /\ elapsed' = 0
        /\ UNCHANGED <<caller, verb, waited, outcome, journal, stopped>>
    BY <1>4 DEF Accept
  <2>2. /\ job' \in Request /\ backlog' \in Seq(Request) /\ job' = backlog[1] /\ 1 \in DOMAIN backlog
        /\ \A i \in DOMAIN backlog' :
             i + 1 \in DOMAIN backlog /\ i \in Nat /\ i # 0 /\ backlog'[i] = backlog[i + 1]
    BY <2>1, TailFacts DEF HelperTypes
  <2>3. HelperTypes'
    BY <2>1, <2>2 DEF HelperTypes
  <2>4. ServedOnce'
    BY <2>1, <2>2 DEF ServedOnce
  <2>5. RunsAreLogged'
    BY <2>1, HelperAssumption DEF RunsAreLogged
  <2> QED BY <2>3, <2>4, <2>5
<1>5. CASE AcceptWouldBlock
  BY <1>5 DEF AcceptWouldBlock, BacklogAfterExit, HelperTypes, ServedOnce, RunsAreLogged
<1>6. ASSUME NEW o \in {"exit0", "error", "timeout"}, VerbReturns(o) PROVE HelperInv'
  <2>1. /\ job \in Request /\ job # None /\ step = 0 /\ step' = 1 /\ outcome' = [outcome EXCEPT ![job] = o]
        /\ UNCHANGED <<caller, verb, waited, backlog, job, elapsed, journal, stopped>>
    BY <1>6 DEF VerbReturns, HelperTypes
  <2>2. HelperTypes'
    BY <2>1 DEF HelperTypes
  <2>3. ServedOnce'
    BY <2>1 DEF ServedOnce
  <2>4. \A x \in Request : x # job => outcome'[x] = outcome[x]
    BY <2>1 DEF HelperTypes
  <2>5. caller[job] # "succeeded"
    BY <2>1 DEF ServedOnce
  <2> QED BY <2>1, <2>2, <2>3, <2>4, <2>5 DEF RunsAreLogged
<1>7. CASE LogsRequest
  <2>1. step = 1
    BY <1>7, StepFacts DEF LogsRequest, HelperTypes
  <2>2. /\ job \in Request /\ journal' = journal \cup {job} /\ step' = 2 /\ job' = job
        /\ UNCHANGED <<caller, verb, waited, backlog, elapsed, outcome, stopped>>
    BY <1>7, <2>1, StepFacts DEF LogsRequest, NextStep, HelperTypes
  <2> QED BY <2>1, <2>2 DEF HelperTypes, ServedOnce, RunsAreLogged
<1>8. CASE Answers
  <2>1. step = 2
    BY <1>8, StepFacts DEF Answers, HelperTypes
  <2> DEFINE v == IF Ok(outcome[job]) THEN "succeeded" ELSE "failed"
  <2>2. /\ job \in Request /\ job # None /\ caller' = [caller EXCEPT ![job] = v] /\ step' = 0 /\ job' = None
        /\ UNCHANGED <<verb, waited, backlog, elapsed, outcome, journal, stopped>>
    BY <1>8, <2>1, StepFacts DEF Answers, NextStep, HelperTypes
  <2>3. v \in {"succeeded", "failed"} /\ (v = "succeeded" => outcome[job] = "exit0")
    BY DEF Ok
  <2> HIDE DEF v
  <2>4. caller'[job] = v /\ \A x \in Request : x # job => caller'[x] = caller[x]
    BY <2>2 DEF HelperTypes
  <2>5. HelperTypes'
    BY <2>2, <2>3 DEF HelperTypes
  <2>6. job \in journal
    BY <2>1, <2>2 DEF ServedOnce
  <2>7. ServedOnce'
    BY <2>2, <2>4, <1>e DEF ServedOnce
  <2>8. RunsAreLogged'
    BY <2>1, <2>2, <2>3, <2>4, <2>6 DEF RunsAreLogged
  <2> QED BY <2>5, <2>7, <2>8
<1>9. CASE AnswerBreaksPipe
  <2>1. step = 2
    BY <1>9, StepFacts DEF AnswerBreaksPipe, HelperTypes
  <2>2. /\ backlog' = backlog /\ job' = None /\ step' = 0
        /\ UNCHANGED <<caller, verb, waited, elapsed, outcome, journal, stopped>>
    BY <1>9 DEF AnswerBreaksPipe, BacklogAfterExit
  <2> QED BY <2>1, <2>2 DEF HelperTypes, ServedOnce, RunsAreLogged
<1>10. CASE HostStops
  <2>1. /\ stopped' = stopped \cup Caught
        /\ caller' = [r \in Request |-> IF caller[r] = "waiting" THEN "gone" ELSE caller[r]]
        /\ backlog' = <<>> /\ job' = None /\ step' = 0
        /\ UNCHANGED <<verb, waited, elapsed, outcome, journal>>
    BY <1>10 DEF HostStops
  <2>2. Caught \subseteq Request /\ (job # None => job \in Caught)
    BY DEF Caught, HelperTypes
  <2>3. HelperTypes'
    BY <2>1, <2>2 DEF HelperTypes
  <2>4. ServedOnce'
    BY <2>1 DEF ServedOnce
  <2>5. \A r \in Request : r = job => job # None
    BY HelperAssumption
  <2> QED BY <2>1, <2>2, <2>3, <2>4, <2>5 DEF RunsAreLogged
<1>11. CASE Tick
  <2>1. /\ elapsed' = elapsed + 1
        /\ waited' = [r \in Request |-> IF caller[r] = "waiting" THEN waited[r] + 1 ELSE waited[r]]
        /\ \A r \in Request : caller[r] = "waiting" => waited[r] < ClientTimeout
        /\ UNCHANGED <<caller, verb, backlog, job, step, outcome, journal, stopped>>
    BY <1>11 DEF Tick
  <2>2. HelperTypes'
    BY <2>1, HelperAssumption DEF HelperTypes
  <2> QED BY <2>1, <2>2 DEF ServedOnce, RunsAreLogged
<1>12. CASE UNCHANGED vars
  BY <1>12 DEF vars, HelperTypes, ServedOnce, RunsAreLogged
<1> QED BY <1>1, <1>2, <1>3, <1>4, <1>5, <1>6, <1>7, <1>8, <1>9, <1>10, <1>11, <1>12 DEF Next, DaemonStep

(* The flags keep their types.                                             *)
LEMMA HelperFlagsStep == HelperFlags /\ [Next]_vars => HelperFlags'
<1> SUFFICES ASSUME HelperFlags, [Next]_vars PROVE HelperFlags'
  OBVIOUS
<1> USE DEF HelperFlags, host
<1>1. CASE \E r \in Request, a \in Action : Call(r, a)
  BY <1>1 DEF Call
<1>2. CASE \E r \in Request : CallerGivesUp(r)
  BY <1>2 DEF CallerGivesUp
<1>3. CASE DaemonStep
  BY <1>3 DEF DaemonStep, Activate, Accept, AcceptWouldBlock, VerbReturns, LogsRequest, Answers, AnswerBreaksPipe
<1>4. CASE HostStops \/ Tick \/ UNCHANGED vars
  BY <1>4 DEF HostStops, Tick, vars
<1> QED BY <1>1, <1>2, <1>3, <1>4 DEF Next

(* The types of the host helper, for every set of callers and actions.     *)
THEOREM TypeCorrectness == Spec => []TypeOK
<1>1. HelperInv /\ HelperFlags => TypeOK
  BY StepFacts DEF HelperInv, HelperTypes, HelperFlags, TypeOK
<1>2. Init => HelperFlags
  BY DEF Init, HelperFlags
<1> QED BY HelperInvInit, HelperInvStep, HelperFlagsStep, <1>1, <1>2, PTL DEF Spec

(* A caller that got an outcome, and a run that ended, are in the journal,
   whatever timeouts, lost answers and restarts of the daemon there are
   (serve_one in host-helper/helper.py).                                   *)
THEOREM JournalCorrectness == Spec => []RunsAreLogged
<1>1. HelperInv => RunsAreLogged
  BY DEF HelperInv
<1> QED BY HelperInvInit, HelperInvStep, <1>1, PTL DEF Spec

-----------------------------------------------------------------------------
(* The host helper implements AuditedVerbs.  A request has an outcome once its
   verb has run, which is after it left the backlog and before it is logged,
   and the host's stop catches none that has yet to call or to be served.    *)
AuditInv ==
  /\ \A i \in DOMAIN backlog : outcome[backlog[i]] = "none" /\ backlog[i] \notin stopped
  /\ \A r \in Request : caller[r] = "idle" => outcome[r] = "none" /\ r \notin stopped
  /\ \A r \in journal : outcome[r] # "none"
  /\ job # None =>
       /\ job \notin stopped
       /\ step = 0 <=> outcome[job] = "none"
       /\ step = 1 => job \notin journal

(* Nobody has called.                                                       *)
LEMMA AuditInvInit == Init => AuditInv
BY DEF Init, AuditInv

(* Every step of the callers, the daemon and the host keeps it.             *)
LEMMA AuditInvStep == HelperInv /\ AuditInv /\ [Next]_vars => AuditInv'
<1> SUFFICES ASSUME HelperInv, AuditInv, [Next]_vars PROVE AuditInv'
  OBVIOUS
<1> USE DEF AuditInv, callers, host
<1>t. HelperTypes /\ ServedOnce /\ RunsAreLogged
  BY DEF HelperInv
<1>e. \A i \in DOMAIN backlog : backlog[i] \in Request
  BY <1>t, ElementFacts DEF HelperTypes
<1>1. ASSUME NEW r \in Request, NEW a \in Action, Call(r, a) PROVE AuditInv'
  <2>1. /\ caller[r] = "idle" /\ UNCHANGED <<job, step, outcome, journal, stopped>>
        /\ caller'[r] # "idle" /\ \A x \in Request : x # r => caller'[x] = caller[x]
        /\ backlog' = backlog \/ backlog' = Append(backlog, r)
    BY <1>1, <1>t DEF Call, HelperTypes
  <2>2. \A i \in DOMAIN backlog' : backlog'[i] = r \/ \E k \in DOMAIN backlog : backlog'[i] = backlog[k]
    <3>1. CASE backlog' = backlog
      BY <3>1
    <3>2. CASE backlog' = Append(backlog, r)
      <4>1. backlog \in Seq(Request)
        BY <1>t DEF HelperTypes
      <4>2. /\ DOMAIN backlog' = 1..Len(backlog) + 1 /\ DOMAIN backlog = 1..Len(backlog)
            /\ Len(backlog) \in Nat /\ backlog'[Len(backlog) + 1] = r
            /\ \A i \in DOMAIN backlog : backlog'[i] = backlog[i]
        BY <3>2, <4>1, AppendFacts
      <4> QED BY <4>2
    <3> QED BY <2>1, <3>1, <3>2
  <2> QED BY <2>1, <2>2
<1>2. ASSUME NEW r \in Request, CallerGivesUp(r) PROVE AuditInv'
  <2>1. /\ caller'[r] = "gone" /\ \A x \in Request : x # r => caller'[x] = caller[x]
        /\ UNCHANGED <<backlog, job, step, outcome, journal, stopped>>
    BY <1>2, <1>t DEF CallerGivesUp, HelperTypes
  <2> QED BY <2>1
<1>3. CASE Activate
  BY <1>3 DEF Activate
<1>4. CASE Accept
  <2>1. /\ backlog # <<>> /\ job' = Head(backlog) /\ backlog' = Tail(backlog) /\ step' = 0
        /\ UNCHANGED <<caller, outcome, journal, stopped>>
    BY <1>4 DEF Accept
  <2>2. /\ job' = backlog[1] /\ 1 \in DOMAIN backlog
        /\ \A i \in DOMAIN backlog' : \E k \in DOMAIN backlog : backlog'[i] = backlog[k]
    BY <2>1, <1>t, TailFacts DEF HelperTypes
  <2> QED BY <2>1, <2>2
<1>5. CASE AcceptWouldBlock
  BY <1>5 DEF AcceptWouldBlock, BacklogAfterExit
<1>6. ASSUME NEW o \in {"exit0", "error", "timeout"}, VerbReturns(o) PROVE AuditInv'
  <2>1. /\ job \in Request /\ job # None /\ step = 0 /\ step' = 1 /\ job' = job
        /\ outcome' = [outcome EXCEPT ![job] = o] /\ o # "none"
        /\ UNCHANGED <<caller, backlog, journal, stopped>>
    BY <1>6, <1>t DEF VerbReturns, HelperTypes
  <2>2. outcome'[job] = o /\ \A x \in Request : x # job => outcome'[x] = outcome[x]
    BY <2>1, <1>t DEF HelperTypes
  <2>3. \A i \in DOMAIN backlog : backlog[i] # job
    BY <2>1, <1>t DEF ServedOnce
  <2>4. caller[job] # "idle" /\ outcome[job] = "none" /\ job \notin journal
    BY <2>1, <1>t DEF ServedOnce
  <2>5. \A i \in DOMAIN backlog' : outcome'[backlog'[i]] = "none" /\ backlog'[i] \notin stopped'
    BY <2>1, <2>2, <2>3, <1>e
  <2>6. \A x \in journal' : outcome'[x] # "none"
    BY <2>1, <2>2, <2>4, <1>t DEF HelperTypes
  <2>7. \A x \in Request : caller'[x] = "idle" => outcome'[x] = "none" /\ x \notin stopped'
    BY <2>1, <2>2, <2>4
  <2> QED BY <2>1, <2>2, <2>4, <2>5, <2>6, <2>7
<1>7. CASE LogsRequest
  <2>1. step = 1
    BY <1>7, <1>t, StepFacts DEF LogsRequest, HelperTypes
  <2>2. /\ job \in Request /\ job # None /\ journal' = journal \cup {job} /\ step' = 2 /\ job' = job
        /\ UNCHANGED <<caller, backlog, outcome, stopped>>
    BY <1>7, <1>t, <2>1, StepFacts DEF LogsRequest, NextStep, HelperTypes
  <2> QED BY <2>1, <2>2
<1>8. CASE Answers
  <2>1. step = 2
    BY <1>8, <1>t, StepFacts DEF Answers, HelperTypes
  <2>2. /\ job' = None /\ UNCHANGED <<backlog, outcome, journal, stopped>>
        /\ \A x \in Request : caller'[x] = "idle" => caller[x] = "idle"
    BY <1>8, <1>t, <2>1, StepFacts DEF Answers, NextStep, HelperTypes
  <2> QED BY <2>2
<1>9. CASE AnswerBreaksPipe
  BY <1>9 DEF AnswerBreaksPipe, BacklogAfterExit
<1>10. CASE HostStops
  <2>1. /\ stopped' = stopped \cup Caught /\ backlog' = <<>> /\ job' = None
        /\ caller' = [r \in Request |-> IF caller[r] = "waiting" THEN "gone" ELSE caller[r]]
        /\ UNCHANGED <<outcome, journal>>
    BY <1>10 DEF HostStops
  <2>2. \A r \in Request : caller[r] = "idle" => r \notin Caught
    BY <1>t, HelperAssumption DEF Caught, ServedOnce
  <2>3. \A r \in Request : caller'[r] = "idle" => caller[r] = "idle"
    BY <2>1
  <2> QED BY <2>1, <2>2, <2>3
<1>11. CASE Tick \/ UNCHANGED vars
  BY <1>11 DEF Tick, vars
<1> QED BY <1>1, <1>2, <1>3, <1>4, <1>5, <1>6, <1>7, <1>8, <1>9, <1>10, <1>11 DEF Next, DaemonStep

(* The requests that reached the socket.                                    *)
Asked == {r \in Request : caller[r] \notin {"idle", "refused"}}

(* The abstract steps, in the words of this module.                         *)
LEMMA AbstractSteps ==
  /\ UNCHANGED <<Asked, verb, outcome, journal, Told, stopping, stopped>> =>
       UNCHANGED Audit!auditVars
  /\ \A r \in Request, a \in Action :
       ( /\ r \notin Asked /\ Asked' \in {Asked, Asked \cup {r}}
         /\ verb' = [verb EXCEPT ![r] = a]
         /\ UNCHANGED <<outcome, journal, Told, stopping, stopped>> ) => Audit!AuditNext
  /\ \A r \in Request, o \in {"exit0", "error", "timeout"} :
       ( /\ r \in Asked \ stopped /\ outcome[r] = "none" /\ Audit!Unlogged = {}
         /\ outcome' = [outcome EXCEPT ![r] = o]
         /\ stopping' = (stopping \/ (verb[r] = Reboot /\ o = "exit0"))
         /\ UNCHANGED <<Asked, verb, journal, Told, stopped>> ) => Audit!AuditNext
  /\ \A r \in Request :
       ( /\ r \in Audit!Unlogged /\ journal' = journal \cup {r}
         /\ UNCHANGED <<Asked, verb, outcome, Told, stopping, stopped>> ) => Audit!AuditNext
  /\ \A r \in Request :
       ( /\ r \in journal \ stopped /\ Told[r] = "none"
         /\ Told' = [Told EXCEPT ![r] = IF outcome[r] = "exit0" THEN "succeeded" ELSE "failed"]
         /\ UNCHANGED <<Asked, verb, outcome, journal, stopping, stopped>> ) => Audit!AuditNext
  /\ ( /\ stopping /\ stopping' = FALSE
       /\ stopped \cup Audit!Unlogged \subseteq stopped' /\ stopped' \subseteq stopped \cup Asked
       /\ UNCHANGED <<Asked, verb, outcome, journal, Told>> ) => Audit!AuditNext
<1> USE DEF Asked, Audit!AuditNext
<1>1. UNCHANGED <<Asked, verb, outcome, journal, Told, stopping, stopped>> =>
        UNCHANGED Audit!auditVars
  BY DEF Audit!auditVars
<1>2. ASSUME NEW r \in Request, NEW a \in Action,
             r \notin Asked, Asked' \in {Asked, Asked \cup {r}}, verb' = [verb EXCEPT ![r] = a],
             UNCHANGED <<outcome, journal, Told, stopping, stopped>>
      PROVE  Audit!AuditNext
  BY <1>2 DEF Audit!Asks
<1>3. ASSUME NEW r \in Request, NEW o \in {"exit0", "error", "timeout"},
             r \in Asked \ stopped, outcome[r] = "none", Audit!Unlogged = {},
             outcome' = [outcome EXCEPT ![r] = o],
             stopping' = (stopping \/ (verb[r] = Reboot /\ o = "exit0")),
             UNCHANGED <<Asked, verb, journal, Told, stopped>>
      PROVE  Audit!AuditNext
  BY <1>3 DEF Audit!Runs
<1>4. ASSUME NEW r \in Request, r \in Audit!Unlogged, journal' = journal \cup {r},
             UNCHANGED <<Asked, verb, outcome, Told, stopping, stopped>>
      PROVE  Audit!AuditNext
  BY <1>4 DEF Audit!IsLogged
<1>5. ASSUME NEW r \in Request, r \in journal \ stopped, Told[r] = "none",
             Told' = [Told EXCEPT ![r] = IF outcome[r] = "exit0" THEN "succeeded" ELSE "failed"],
             UNCHANGED <<Asked, verb, outcome, journal, stopping, stopped>>
      PROVE  Audit!AuditNext
  BY <1>5 DEF Audit!IsTold
<1>6. ( /\ stopping /\ stopping' = FALSE
        /\ stopped \cup Audit!Unlogged \subseteq stopped' /\ stopped' \subseteq stopped \cup Asked
        /\ UNCHANGED <<Asked, verb, outcome, journal, Told>> ) => Audit!AuditNext
  BY DEF Audit!HostGoesDown
<1> HIDE DEF Asked, Audit!AuditNext
<1> QED BY <1>1, <1>2, <1>3, <1>4, <1>5, <1>6

(* What waits for its log entry is the run the daemon is at.                *)
LEMMA UnloggedFacts ==
  ASSUME HelperInv
  PROVE  \A r \in Request : r \in Audit!Unlogged => r = job /\ step = 1
BY DEF HelperInv, RunsAreLogged, Audit!Unlogged

(* Every step of the client, the daemon and the host is a step of
   AuditedVerbs or leaves it alone.                                         *)
LEMMA StepRefines ==
  HelperInv /\ AuditInv /\ [Next]_vars => [Audit!AuditNext]_(Audit!auditVars)
<1> SUFFICES ASSUME HelperInv, AuditInv, [Next]_vars
             PROVE  Audit!AuditNext \/ UNCHANGED Audit!auditVars
  OBVIOUS
<1> USE DEF callers, host
<1>t. HelperTypes /\ ServedOnce
  BY DEF HelperInv
<1>e. \A i \in DOMAIN backlog : backlog[i] \in Request
  BY <1>t, ElementFacts DEF HelperTypes
<1>s. ASSUME UNCHANGED <<caller, verb, outcome, journal, stopping, stopped>>
      PROVE  UNCHANGED Audit!auditVars
  BY <1>s, AbstractSteps DEF Asked, Told
<1>1. ASSUME NEW r \in Request, NEW a \in Action, Call(r, a)
      PROVE  Audit!AuditNext
  <2>1. /\ caller[r] = "idle" /\ verb' = [verb EXCEPT ![r] = a]
        /\ UNCHANGED <<outcome, journal, stopping, stopped>>
        /\ caller'[r] \in {"waiting", "refused"} /\ \A x \in Request : x # r => caller'[x] = caller[x]
    BY <1>1, <1>t DEF Call, HelperTypes
  <2>2. r \notin Asked /\ Asked' \in {Asked, Asked \cup {r}}
    BY <2>1 DEF Asked
  <2>3. Told' = Told
    BY <2>1 DEF Told
  <2> QED BY <2>1, <2>2, <2>3, AbstractSteps
<1>2. ASSUME NEW r \in Request, CallerGivesUp(r)
      PROVE  UNCHANGED Audit!auditVars
  <2>1. /\ caller[r] = "waiting" /\ caller'[r] = "gone"
        /\ \A x \in Request : x # r => caller'[x] = caller[x]
        /\ UNCHANGED <<verb, outcome, journal, stopping, stopped>>
    BY <1>2, <1>t DEF CallerGivesUp, HelperTypes
  <2>2. Asked' = Asked
    BY <2>1 DEF Asked
  <2>3. Told' = Told
    BY <2>1 DEF Told
  <2> QED BY <2>1, <2>2, <2>3, AbstractSteps
<1>3. CASE Activate \/ Accept \/ AcceptWouldBlock \/ AnswerBreaksPipe \/ Tick \/ UNCHANGED vars
  BY <1>3, <1>s DEF Activate, Accept, AcceptWouldBlock, AnswerBreaksPipe, Tick, vars
<1>4. ASSUME NEW o \in {"exit0", "error", "timeout"}, VerbReturns(o)
      PROVE  Audit!AuditNext
  <2>1. /\ job \in Request /\ job # None /\ step = 0 /\ outcome' = [outcome EXCEPT ![job] = o]
        /\ stopping' = (stopping \/ (verb[job] = Reboot /\ o = "exit0"))
        /\ UNCHANGED <<caller, verb, journal, stopped>>
    BY <1>4, <1>t DEF VerbReturns, HelperTypes
  <2>2. Audit!Unlogged = {}
    BY <2>1, UnloggedFacts DEF Audit!Unlogged
  <2>3. job \in Asked \ stopped /\ outcome[job] = "none"
    BY <2>1, <1>t DEF ServedOnce, AuditInv, Asked
  <2>4. UNCHANGED <<Asked, Told>>
    BY <2>1 DEF Asked, Told
  <2> QED BY <2>1, <2>2, <2>3, <2>4, AbstractSteps
<1>5. CASE LogsRequest
  <2>1. /\ job \in Request /\ job # None /\ step = 1 /\ journal' = journal \cup {job}
        /\ UNCHANGED <<caller, verb, outcome, stopping, stopped>>
    BY <1>5, <1>t, StepFacts DEF LogsRequest, HelperTypes
  <2>2. job \in Audit!Unlogged
    BY <2>1 DEF AuditInv, Audit!Unlogged
  <2>3. UNCHANGED <<Asked, Told>>
    BY <2>1 DEF Asked, Told
  <2> QED BY <2>1, <2>2, <2>3, AbstractSteps
<1>6. CASE Answers
  <2> DEFINE v == IF outcome[job] = "exit0" THEN "succeeded" ELSE "failed"
  <2>1. /\ job \in Request /\ job # None /\ step = 2 /\ caller[job] = "waiting"
        /\ caller' = [caller EXCEPT ![job] = v]
        /\ UNCHANGED <<verb, outcome, journal, stopping, stopped>>
    BY <1>6, <1>t, StepFacts DEF Answers, Ok, HelperTypes
  <2>2. job \in journal \ stopped
    BY <2>1, <1>t DEF ServedOnce, AuditInv
  <2>3. v \in {"succeeded", "failed"}
    OBVIOUS
  <2> HIDE DEF v
  <2>4. caller'[job] = v /\ \A x \in Request : x # job => caller'[x] = caller[x]
    BY <2>1, <1>t DEF HelperTypes
  <2>5. Told[job] = "none"
    BY <2>1 DEF Told
  <2>6. Told' = [Told EXCEPT ![job] = v]
    BY <2>1, <2>3, <2>4 DEF Told
  <2>7. Asked' = Asked
    BY <2>1, <2>3, <2>4 DEF Asked
  <2> QED BY <2>1, <2>2, <2>5, <2>6, <2>7, AbstractSteps DEF v
<1>7. CASE HostStops
  <2>1. /\ stopping /\ stopping' = FALSE /\ stopped' = stopped \cup Caught
        /\ caller' = [r \in Request |-> IF caller[r] = "waiting" THEN "gone" ELSE caller[r]]
        /\ UNCHANGED <<verb, outcome, journal>>
    BY <1>7 DEF HostStops
  <2>2. Audit!Unlogged \subseteq Caught
    BY UnloggedFacts DEF Caught, Audit!Unlogged
  <2>3. Caught \subseteq Asked
    BY <1>t, HelperAssumption DEF Caught, Asked, ServedOnce
  <2>4. UNCHANGED <<Asked, Told>>
    BY <2>1 DEF Asked, Told
  <2> QED BY <2>1, <2>2, <2>3, <2>4, AbstractSteps
<1> QED BY <1>1, <1>2, <1>3, <1>4, <1>5, <1>6, <1>7 DEF Next, DaemonStep

(* Nobody has asked, nothing has run.                                       *)
LEMMA InitRefines == Init => Audit!AuditInit
BY HelperAssumption DEF Init, Audit!AuditInit, Told

(* Every behaviour of the client, the socket and the daemon is one that
   AuditedVerbs allows, for every set of callers, actions and limits: a verb
   runs at most once, is logged before the next one runs and before its caller
   is told, and the caller is told its own outcome (serve, serve_one,
   call_host_helper).                                                       *)
THEOREM AuditRefinement == Spec => ImplementsAudit
<1>1. HelperInv /\ AuditInv /\ [Next]_vars => HelperInv' /\ AuditInv'
  BY HelperInvStep, AuditInvStep
<1> QED BY HelperInvInit, AuditInvInit, InitRefines, StepRefines, <1>1, PTL
        DEF Spec, ImplementsAudit, Audit!AuditSpec

(* What a caller was told is the outcome of its own verb, and in the log.   *)
ToldTruly ==
  \A r \in Request :
    Told[r] # "none" => r \in journal /\ (Told[r] = "succeeded" <=> outcome[r] = "exit0")

(* Of the verbs that no stop of the host caught, all but one are in the log. *)
LoggedInTurn == \A r, s \in Audit!Unlogged : r = s

(* What AuditedVerbs knows besides: only what ran is logged.                *)
PromiseInv ==
  /\ outcome \in [Request -> {"none", "exit0", "error", "timeout"}]
  /\ DOMAIN Told = Request
  /\ \A r \in journal : outcome[r] # "none"
  /\ ToldTruly /\ LoggedInTurn

(* AuditedVerbs is worth implementing (serve, serve_one, README.md:82 of the
   helper): whatever implements it tells no caller an outcome that is not its
   own or not in the log, and never runs two verbs that the log has not.    *)
THEOREM AuditPromise == ImplementsAudit => [](ToldTruly /\ LoggedInTurn)
<1>1. Audit!AuditInit => PromiseInv
  BY DEF Audit!AuditInit, PromiseInv, ToldTruly, LoggedInTurn, Audit!Unlogged, Told
<1>2. PromiseInv /\ [Audit!AuditNext]_(Audit!auditVars) => PromiseInv'
  <2> SUFFICES ASSUME PromiseInv, [Audit!AuditNext]_(Audit!auditVars)
               PROVE  PromiseInv'
    OBVIOUS
  <2> USE DEF PromiseInv, ToldTruly, LoggedInTurn, Audit!Unlogged
  <2>t. DOMAIN Told' = Request
    BY DEF Told
  <2>1. ASSUME NEW r \in Request, NEW a \in Action, Audit!Asks(r, a) PROVE PromiseInv'
    BY <2>1, <2>t DEF Audit!Asks
  <2>2. ASSUME NEW r \in Request, NEW o \in {"exit0", "error", "timeout"}, Audit!Runs(r, o)
        PROVE  PromiseInv'
    <3>1. /\ outcome[r] = "none" /\ Audit!Unlogged = {}
          /\ outcome' = [outcome EXCEPT ![r] = o]
          /\ UNCHANGED <<journal, Told, stopped>>
      BY <2>2 DEF Audit!Runs
    <3>2. outcome'[r] = o /\ o # "none" /\ \A x \in Request : x # r => outcome'[x] = outcome[x]
      BY <3>1
    <3>3. r \notin journal /\ Told[r] = "none"
      BY <3>1
    <3>4. outcome' \in [Request -> {"none", "exit0", "error", "timeout"}]
      BY <3>1
    <3>5. \A x \in Audit!Unlogged' : x = r
      BY <3>1, <3>2
    <3>6. ToldTruly'
      BY <3>1, <3>2, <3>3
    <3>7. \A x \in journal' : outcome'[x] # "none"
      BY <3>1, <3>2, <3>3
    <3> QED BY <2>t, <3>4, <3>5, <3>6, <3>7
  <2>3. ASSUME NEW r \in Request, Audit!IsLogged(r) PROVE PromiseInv'
    BY <2>3, <2>t DEF Audit!IsLogged
  <2>4. ASSUME NEW r \in Request, Audit!IsTold(r) PROVE PromiseInv'
    <3> DEFINE v == IF outcome[r] = "exit0" THEN "succeeded" ELSE "failed"
    <3>1. /\ r \in journal /\ Told' = [Told EXCEPT ![r] = v]
          /\ UNCHANGED <<outcome, journal, stopped>>
      BY <2>4 DEF Audit!IsTold
    <3>2. v = "succeeded" <=> outcome[r] = "exit0"
      OBVIOUS
    <3> HIDE DEF v
    <3>3. Told'[r] = v /\ \A x \in Request : x # r => Told'[x] = Told[x]
      BY <3>1
    <3>4. ToldTruly'
      BY <3>1, <3>2, <3>3
    <3> QED BY <2>t, <3>1, <3>4
  <2>5. CASE Audit!HostGoesDown
    BY <2>5, <2>t DEF Audit!HostGoesDown
  <2>6. CASE UNCHANGED Audit!auditVars
    BY <2>6, <2>t DEF Audit!auditVars
  <2> QED BY <2>1, <2>2, <2>3, <2>4, <2>5, <2>6 DEF Audit!AuditNext
<1>3. PromiseInv => ToldTruly /\ LoggedInTurn
  BY DEF PromiseInv
<1> QED BY <1>1, <1>2, <1>3, PTL DEF ImplementsAudit, Audit!AuditSpec
=============================================================================
