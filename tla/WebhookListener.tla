-------------------------- MODULE WebhookListener --------------------------
(***************************************************************************)
(* scripts/plex-webhook-listener.py: each of Plex's webhook calls has a    *)
(* handler thread that acknowledges first and then parses, fetches the     *)
(* poster and puts the event into post_queue; one worker thread posts the  *)
(* queue to Discord, paced, with one retry after a 429.                    *)
(*                                                                         *)
(* Discord is external.  A post comes back accepted, refused (429: not     *)
(* shown), or with another error, when the message may have been shown all *)
(* the same (a timeout on the answer).                                     *)
(***************************************************************************)
EXTENDS Integers, Sequences, FiniteSets

CONSTANTS
  Event,       \* webhook calls of Plex
  Readable,    \* the answers to Retry-After: TRUE when float() takes it
  HasUrl,      \* what .env holds at a start: TRUE with a DISCORD_WEBHOOK_URL of its own
  MaxCrashes,  \* bound: times the process ends
  None

ASSUME ListenerAssumption ==
  Readable \subseteq BOOLEAN /\ HasUrl \subseteq BOOLEAN /\ MaxCrashes \in Nat /\ None \notin Event

VARIABLES
  handler,     \* per event: what its handler thread has come to
  queue,       \* post_queue
  configured,  \* the process has a DISCORD_WEBHOOK_URL
  worker,      \* the worker thread's place
  posting,     \* the event it took from the queue, or None
  shown,       \* per event: how often Discord shows it
  handled,     \* history: events the worker is done with
  crashes

vars == <<handler, queue, configured, worker, posting, shown, handled, crashes>>
threads == <<configured, worker, posting, handled>>

-----------------------------------------------------------------------------
(* The handler threads: do_POST() sends 200, then ...                      *)
Acknowledge(e) ==
  /\ handler[e] = "none"
  /\ handler' = [handler EXCEPT ![e] = "acked"]
  /\ UNCHANGED <<queue, threads, shown, crashes>>

\* ... drops what is not a readable library.new event, ...
Drop(e) ==
  /\ handler[e] = "acked"
  /\ handler' = [handler EXCEPT ![e] = "dropped"]
  /\ UNCHANGED <<queue, threads, shown, crashes>>

\* ... or ends in post_queue.put(), with or without a poster.  The fetch takes
\* up to 15 s, so events overtake each other.
Enqueue(e) ==
  /\ handler[e] = "acked"
  /\ handler' = [handler EXCEPT ![e] = "queued"]
  /\ queue' = Append(queue, e)
  /\ UNCHANGED <<threads, shown, crashes>>

-----------------------------------------------------------------------------
(* worker() and post_discord().                                            *)
Take ==
  /\ worker = "idle" /\ queue # <<>> /\ configured
  /\ posting' = Head(queue) /\ queue' = Tail(queue)
  /\ worker' = "post"
  /\ UNCHANGED <<handler, configured, shown, handled, crashes>>

\* With nowhere to post it the event is done with.
Discard ==
  /\ worker = "idle" /\ queue # <<>> /\ ~configured
  /\ handled' = handled \cup {Head(queue)} /\ queue' = Tail(queue)
  /\ UNCHANGED <<handler, configured, worker, posting, shown, crashes>>

Shows(e, n) == shown' = [shown EXCEPT ![e] = @ + n]

\* Where a post that did not come back with success leads.
RetryAnyError(from, answer) == IF from = "post" THEN "backoff" ELSE "pace"
DieOnSecondError(from, answer) ==
  IF from = "retry" THEN "dead" ELSE IF answer = "429" THEN "backoff" ELSE "pace"
AfterError(from, answer) == IF from = "post" /\ answer = "429" THEN "backoff" ELSE "pace"

Accepted ==
  /\ worker \in {"post", "retry"}
  /\ Shows(posting, 1)
  /\ worker' = "pace"
  /\ UNCHANGED <<handler, queue, configured, posting, handled, crashes>>

RateLimited ==
  /\ worker \in {"post", "retry"}
  /\ worker' = AfterError(worker, "429")
  /\ UNCHANGED <<handler, queue, configured, posting, shown, handled, crashes>>

OtherError ==
  /\ worker \in {"post", "retry"}
  /\ \E n \in {0, 1} : Shows(posting, n)
  /\ worker' = AfterError(worker, "other")
  /\ UNCHANGED <<handler, queue, configured, posting, handled, crashes>>

\* float(Retry-After) and the sleep: outside the retry's own try, so a value
\* that float() cannot take ends the thread and nothing starts another.
Backoff ==
  /\ worker = "backoff"
  /\ \E ok \in Readable :
       /\ worker' = IF ok THEN "retry" ELSE "raised"
       /\ posting' = IF ok THEN posting ELSE None
  /\ UNCHANGED <<handler, queue, configured, shown, handled, crashes>>

\* task_done() and the pause.
Pace ==
  /\ worker = "pace"
  /\ handled' = handled \cup {posting}
  /\ worker' = "idle" /\ posting' = None
  /\ UNCHANGED <<handler, queue, configured, shown, crashes>>

-----------------------------------------------------------------------------
\* The process ends and systemd starts it again: the queue was in memory.
Lost == {e \in Event : handler[e] = "acked" \/ e = posting
                       \/ \E i \in DOMAIN queue : queue[i] = e}

Crash ==
  /\ crashes < MaxCrashes
  /\ crashes' = crashes + 1
  /\ handler' = [e \in Event |-> IF e \in Lost THEN "lost" ELSE handler[e]]
  /\ queue' = <<>> /\ worker' = "idle" /\ posting' = None /\ configured' \in HasUrl
  /\ UNCHANGED <<shown, handled>>

Init ==
  /\ handler = [e \in Event |-> "none"] /\ queue = <<>>
  /\ worker = "idle" /\ posting = None /\ configured \in HasUrl
  /\ shown = [e \in Event |-> 0] /\ handled = {} /\ crashes = 0

WorkerStep == Take \/ Discard \/ Accepted \/ RateLimited \/ OtherError \/ Backoff \/ Pace

Next ==
  \/ \E e \in Event : Acknowledge(e) \/ Drop(e) \/ Enqueue(e)
  \/ WorkerStep
  \/ Crash

Spec == Init /\ [][Next]_vars

\* Threads are scheduled; every request to Discord and Plex has a timeout.
FairSpec ==
  /\ Spec
  /\ WF_vars(WorkerStep)
  /\ \A e \in Event : WF_vars(Drop(e) \/ Enqueue(e))

-----------------------------------------------------------------------------
(* No event is shown twice, although a post whose answer was lost may have
   been shown: only a 429, which Discord did not show, is tried again.       *)
NeverShownTwice == \A e \in Event : shown[e] <= 1

(* An event that was acknowledged is dropped as unusable, posted (or given up
   after its retry), or lost with the process: a worker leaves an event in the
   queue only by a Retry-After it cannot read, never by any other answer.     *)
AcknowledgedIsHandled ==
  \A e \in Event :
    handler[e] = "acked" ~>
      handler[e] \in {"dropped", "lost"} \/ e \in handled \/ worker = "raised"

-----------------------------------------------------------------------------
\* The worker has not had its last answer.
Trying == {"post", "backoff", "retry"}

\* Events whose fate is open: with their handler, in the queue, being posted.
Pending ==
  {e \in Event : handler[e] = "acked"} \cup {queue[i] : i \in DOMAIN queue}
    \cup {e \in {posting} : worker \in Trying}

Delivery == INSTANCE AtMostOnce WITH
  Message <- Event,
  arrived <- {e \in Event : handler[e] # "none"},
  pending <- Pending

(* Acknowledging, queueing, posting and retrying are steps of AtMostOnce: an event
   is shown only while its fate is open, which a post that may have been shown, or
   the end of the process, closes for good.                                    *)
ImplementsAtMostOnce == Delivery!DeliverySpec
=============================================================================
