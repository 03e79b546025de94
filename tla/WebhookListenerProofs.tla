------------------------ MODULE WebhookListenerProofs -----------------------
(*****************************************************************************)
(* Proofs about the webhook listener, for every set of events and every     *)
(* size of its queue.                                                       *)
(*****************************************************************************)
EXTENDS WebhookListener, TLAPS

(* Types of the handlers, the queue and the worker.                        *)
ListenerTypes ==
  /\ handler \in [Event -> {"none", "acked", "dropped", "queued", "lost"}]
  /\ queue \in Seq(Event)
  /\ worker \in {"idle", "post", "backoff", "retry", "pace", "raised"}
  /\ posting \in Event \cup {None}
  /\ shown \in [Event -> Nat]

(* Event e has not reached the worker.                                     *)
Fresh(e) == handler[e] \in {"none", "acked"} \/ \E i \in DOMAIN queue : queue[i] = e

(* An event is in one place: not yet queued, once in the queue, or with the    *)
(* worker; and it is not shown before the worker has its last answer.          *)
ListenerInv ==
  /\ ListenerTypes
  /\ \A i \in DOMAIN queue : handler[queue[i]] = "queued"
  /\ \A i, j \in DOMAIN queue : queue[i] = queue[j] => i = j
  /\ worker \in Trying \cup {"pace"} => posting # None
  /\ posting # None => handler[posting] = "queued" /\ \A i \in DOMAIN queue : queue[i] # posting
  /\ \A e \in Event : shown[e] <= 1
  /\ \A e \in Event : Fresh(e) => shown[e] = 0
  /\ worker \in Trying => shown[posting] = 0

(* No event has come.                                                      *)
LEMMA ListenerInvInit == Init => ListenerInv
BY ListenerAssumption DEF Init, ListenerInv, ListenerTypes, Fresh, Trying

(* What is left when the worker takes the first event.                     *)
LEMMA TailFacts ==
  ASSUME NEW S, NEW q \in Seq(S), q # <<>>
  PROVE  /\ Head(q) \in S /\ Tail(q) \in Seq(S) /\ Head(q) = q[1] /\ 1 \in DOMAIN q
         /\ \A i \in DOMAIN Tail(q) : i + 1 \in DOMAIN q /\ i \in Nat /\ i # 0 /\ Tail(q)[i] = q[i + 1]
OBVIOUS

(* What a handler adds to the queue.                                       *)
LEMMA AppendFacts ==
  ASSUME NEW S, NEW q \in Seq(S), NEW x \in S
  PROVE  /\ Append(q, x) \in Seq(S) /\ DOMAIN Append(q, x) = 1..Len(q) + 1
         /\ DOMAIN q = 1..Len(q) /\ Len(q) \in Nat
         /\ Append(q, x)[Len(q) + 1] = x /\ \A i \in DOMAIN q : Append(q, x)[i] = q[i]
OBVIOUS

(* What an answer of Discord leads to.                                         *)
LEMMA AnswerFacts ==
  ASSUME ListenerInv, worker \in {"post", "retry"}, UNCHANGED <<handler, queue, posting>>,
         \/ worker' \in {"pace"} /\ \E n \in {0, 1} : Shows(posting, n)
         \/ worker' \in Trying \cup {"pace"} /\ shown' = shown
  PROVE  ListenerInv'
<1> USE DEF ListenerInv
<1>1. posting \in Event /\ shown[posting] = 0
  BY DEF ListenerTypes, Trying
<1>2. CASE worker' \in {"pace"} /\ \E n \in {0, 1} : Shows(posting, n)
  <2>1. PICK n \in {0, 1} : shown' = [shown EXCEPT ![posting] = @ + n]
    BY <1>2 DEF Shows
  <2>2. /\ shown' \in [Event -> Nat] /\ shown'[posting] <= 1
        /\ \A e \in Event : e # posting => shown'[e] = shown[e]
    BY <2>1, <1>1 DEF ListenerTypes
  <2>3. ~Fresh(posting)
    BY <1>1 DEF Fresh, Trying
  <2>4. \A e \in Event : Fresh(e)' <=> Fresh(e)
    BY DEF Fresh
  <2>5. \A e \in Event : shown'[e] <= 1
    BY <2>2
  <2> QED BY <1>2, <2>2, <2>3, <2>4, <2>5 DEF ListenerTypes, Trying
<1>3. CASE worker' \in Trying \cup {"pace"} /\ shown' = shown
  BY <1>1, <1>3 DEF ListenerTypes, Fresh, Trying
<1> QED BY <1>2, <1>3

(* Every step of the handlers, the worker and the process keeps it.        *)
LEMMA ListenerInvStep == ListenerInv /\ [Next]_vars => ListenerInv'
<1> SUFFICES ASSUME ListenerInv, [Next]_vars PROVE ListenerInv'
  OBVIOUS
<1> USE DEF ListenerInv
<1>1. ASSUME NEW e \in Event, Acknowledge(e) PROVE ListenerInv'
  BY <1>1 DEF Acknowledge, threads, ListenerTypes, Fresh, Trying
<1>2. ASSUME NEW e \in Event, Drop(e) PROVE ListenerInv'
  BY <1>2 DEF Drop, threads, ListenerTypes, Fresh, Trying
<1>3. ASSUME NEW e \in Event, Enqueue(e) PROVE ListenerInv'
  <2>1. /\ handler[e] = "acked" /\ handler' = [handler EXCEPT ![e] = "queued"]
        /\ queue' = Append(queue, e) /\ UNCHANGED <<worker, posting, shown>>
    BY <1>3 DEF Enqueue, threads
  <2>2. /\ queue' \in Seq(Event) /\ DOMAIN queue' = 1..Len(queue) + 1
        /\ DOMAIN queue = 1..Len(queue) /\ Len(queue) \in Nat
        /\ queue'[Len(queue) + 1] = e /\ \A i \in DOMAIN queue : queue'[i] = queue[i]
    BY <2>1, AppendFacts DEF ListenerTypes
  <2>3. \A i \in DOMAIN queue' : i \in DOMAIN queue \/ i = Len(queue) + 1
    BY <2>2
  <2>a. \A i \in DOMAIN queue : queue[i] \in Event
    BY <2>2 DEF ListenerTypes
  <2>b. e # posting
    BY <2>1, ListenerAssumption
  <2>c. \A i \in DOMAIN queue : queue[i] # e
    BY <2>1
  <2>4. e # posting /\ \A i \in DOMAIN queue : queue[i] # e /\ queue[i] \in Event
    BY <2>a, <2>b, <2>c
  <2>5. ListenerTypes'
    BY <2>1, <2>2 DEF ListenerTypes
  <2>6. \A x \in Event : Fresh(x)' => Fresh(x)
    BY <2>1, <2>2, <2>3 DEF Fresh, ListenerTypes
  <2>7. \A i \in DOMAIN queue' : handler'[queue'[i]] = "queued" /\ queue'[i] # posting'
    <3> SUFFICES ASSUME NEW i \in DOMAIN queue'
                 PROVE  handler'[queue'[i]] = "queued" /\ queue'[i] # posting'
      OBVIOUS
    <3>0. handler'[e] = "queued" /\ \A x \in Event : x # e => handler'[x] = handler[x]
      BY <2>1 DEF ListenerTypes
    <3>1. CASE i \in DOMAIN queue
      <4>1. queue'[i] = queue[i] /\ queue[i] \in Event /\ queue[i] # e
        BY <2>2, <2>4, <3>1
      <4>2. handler[queue[i]] = "queued"
        BY <3>1
      <4>3. queue[i] # posting
        BY <3>1, <4>1, ListenerAssumption
      <4> QED BY <2>1, <3>0, <4>1, <4>2, <4>3
    <3>2. CASE i = Len(queue) + 1
      BY <2>1, <2>2, <2>4, <3>0, <3>2
    <3> QED BY <2>3, <3>1, <3>2
  <2>8. \A i, j \in DOMAIN queue' : queue'[i] = queue'[j] => i = j
    BY <2>2, <2>3, <2>4
  <2>9. posting' # None => handler'[posting'] = "queued"
    BY <2>1, <2>4 DEF ListenerTypes
  <2> QED BY <2>1, <2>5, <2>6, <2>7, <2>8, <2>9
<1>4. CASE Take
  <2>1. /\ queue # <<>> /\ posting' = Head(queue) /\ queue' = Tail(queue) /\ worker' = "post"
        /\ UNCHANGED <<handler, shown>>
    BY <1>4 DEF Take
  <2>2. /\ posting' \in Event /\ queue' \in Seq(Event) /\ posting' = queue[1] /\ 1 \in DOMAIN queue
        /\ \A i \in DOMAIN queue' : i + 1 \in DOMAIN queue /\ i \in Nat /\ i # 0 /\ queue'[i] = queue[i + 1]
    BY <2>1, TailFacts DEF ListenerTypes
  <2>3. ListenerTypes'
    BY <2>1, <2>2 DEF ListenerTypes
  <2>4. \A x \in Event : Fresh(x)' => Fresh(x)
    BY <2>1, <2>2 DEF Fresh
  <2>5. \A i \in DOMAIN queue' : handler'[queue'[i]] = "queued" /\ queue'[i] # posting'
    BY <2>1, <2>2
  <2>6. \A i, j \in DOMAIN queue' : queue'[i] = queue'[j] => i = j
    BY <2>2
  <2>7. Fresh(posting') /\ handler'[posting'] = "queued"
    BY <2>1, <2>2 DEF Fresh
  <2> QED BY <2>1, <2>2, <2>3, <2>4, <2>5, <2>6, <2>7, ListenerAssumption
<1>4a. CASE Discard
  <2>1. queue # <<>> /\ queue' = Tail(queue) /\ UNCHANGED <<handler, worker, posting, shown>>
    BY <1>4a DEF Discard
  <2>2. /\ queue' \in Seq(Event)
        /\ \A i \in DOMAIN queue' : i + 1 \in DOMAIN queue /\ i \in Nat /\ i # 0 /\ queue'[i] = queue[i + 1]
    BY <2>1, TailFacts DEF ListenerTypes
  <2>3. ListenerTypes'
    BY <2>1, <2>2 DEF ListenerTypes
  <2>4. \A x \in Event : Fresh(x)' => Fresh(x)
    BY <2>1, <2>2 DEF Fresh
  <2>6. \A i \in DOMAIN queue' : handler'[queue'[i]] = "queued"
    BY <2>1, <2>2
  <2>7. \A i, j \in DOMAIN queue' : queue'[i] = queue'[j] => i = j
    BY <2>2
  <2>8. posting' # None => handler'[posting'] = "queued" /\ \A i \in DOMAIN queue' : queue'[i] # posting'
    BY <2>1, <2>2
  <2> QED BY <2>1, <2>3, <2>4, <2>6, <2>7, <2>8
<1>5. CASE Accepted
  BY <1>5, AnswerFacts DEF Accepted
<1>6. CASE RateLimited
  BY <1>6, AnswerFacts DEF RateLimited, AfterError, Trying
<1>7. CASE OtherError
  BY <1>7, AnswerFacts DEF OtherError, AfterError
<1>8. CASE Backoff
  <2>1. /\ worker = "backoff" /\ UNCHANGED <<handler, queue, shown>>
        /\ \/ worker' = "retry" /\ posting' = posting
           \/ worker' = "raised" /\ posting' = None
    BY <1>8 DEF Backoff
  <2> QED BY <2>1 DEF ListenerTypes, Fresh, Trying
<1>9. CASE Pace
  BY <1>9 DEF Pace, ListenerTypes, Fresh, Trying
<1>10. CASE Crash
  <2>1. /\ handler' = [e \in Event |-> IF e \in Lost THEN "lost" ELSE handler[e]]
        /\ queue' = <<>> /\ worker' = "idle" /\ posting' = None /\ shown' = shown
    BY <1>10 DEF Crash
  <2>2. \A e \in Event : Fresh(e)' => Fresh(e)
    BY <2>1 DEF Fresh
  <2>3. ListenerTypes'
    BY <2>1 DEF ListenerTypes
  <2> QED BY <2>1, <2>2, <2>3 DEF Trying
<1>11. CASE UNCHANGED vars
  <2>1. UNCHANGED <<handler, queue, worker, posting, shown>>
    BY <1>11 DEF vars, threads
  <2> QED BY <2>1 DEF ListenerTypes, Fresh
<1> QED BY <1>1, <1>2, <1>3, <1>4, <1>4a, <1>5, <1>6, <1>7, <1>8, <1>9, <1>10, <1>11
       DEF Next, WorkerStep

(* No event is shown twice in Discord, whatever is retried and whichever
   answer is lost (post_discord), for every set of events and size of the
   queue.                                                                  *)
THEOREM ListenerCorrectness == Spec => []NeverShownTwice
<1>1. ListenerInv => NeverShownTwice
  BY DEF ListenerInv, NeverShownTwice
<1> QED BY ListenerInvInit, ListenerInvStep, <1>1, PTL DEF Spec

-----------------------------------------------------------------------------
(* The listener implements AtMostOnce.  Its events that came are:           *)
Arrived == {e \in Event : handler[e] # "none"}

(* The abstract steps, in the words of this module.                         *)
LEMMA AbstractSteps ==
  /\ (Arrived' = Arrived /\ Pending' \subseteq Pending /\ shown' = shown) => Delivery!AreGivenUp
  /\ \A e \in Event :
       ( /\ e \notin Arrived /\ Arrived' = Arrived \cup {e}
         /\ Pending' = Pending \cup {e} /\ shown' = shown ) => Delivery!Arrives(e)
  /\ \A e \in Event :
       ( /\ e \in Pending /\ Pending' = Pending \ {e} /\ Arrived' = Arrived
         /\ shown' = [shown EXCEPT ![e] = @ + 1] ) => Delivery!IsShown(e)
BY DEF Arrived, Delivery!AreGivenUp, Delivery!Arrives, Delivery!IsShown

(* A post that Discord shows closes the fate of the event it is about.      *)
LEMMA ShownRefines ==
  ASSUME ListenerInv, worker \in {"post", "retry"}, worker' = "pace", Shows(posting, 1),
         UNCHANGED <<handler, queue, posting>>
  PROVE  Delivery!DeliveryNext
<1>1. /\ posting \in Event /\ handler[posting] = "queued"
      /\ \A i \in DOMAIN queue : queue[i] # posting
  BY DEF ListenerInv, ListenerTypes, Trying
<1>2. posting \in Pending /\ Pending' = Pending \ {posting}
  BY <1>1 DEF Pending, Trying
<1>3. Arrived' = Arrived /\ shown' = [shown EXCEPT ![posting] = @ + 1]
  BY DEF Arrived, Shows
<1> QED BY <1>1, <1>2, <1>3, AbstractSteps DEF Delivery!DeliveryNext

(* Every step of the listener is a step of AtMostOnce or leaves it alone.   *)
LEMMA StepRefines == ListenerInv /\ [Next]_vars => Delivery!DeliveryNext
<1> SUFFICES ASSUME ListenerInv, [Next]_vars PROVE Delivery!DeliveryNext
  OBVIOUS
<1>a. ASSUME Arrived' = Arrived, Pending' \subseteq Pending, shown' = shown
      PROVE  Delivery!DeliveryNext
  BY <1>a, AbstractSteps DEF Delivery!DeliveryNext
<1>1. ASSUME NEW e \in Event, Acknowledge(e) PROVE Delivery!DeliveryNext
  <2>1. /\ handler[e] = "none" /\ handler' = [handler EXCEPT ![e] = "acked"]
        /\ UNCHANGED <<queue, worker, posting, shown>>
    BY <1>1 DEF Acknowledge, threads
  <2>2. handler'[e] = "acked" /\ \A x \in Event : x # e => handler'[x] = handler[x]
    BY <2>1 DEF ListenerInv, ListenerTypes
  <2>3. e \notin Arrived /\ Arrived' = Arrived \cup {e}
    BY <2>1, <2>2 DEF Arrived
  <2>4. Pending' = Pending \cup {e}
    BY <2>1, <2>2 DEF Pending
  <2> QED BY <2>1, <2>3, <2>4, AbstractSteps DEF Delivery!DeliveryNext
<1>2. ASSUME NEW e \in Event, Drop(e) \/ Enqueue(e) PROVE Delivery!DeliveryNext
  <2>1. /\ handler[e] = "acked" /\ UNCHANGED <<worker, posting, shown>>
        /\ \/ handler' = [handler EXCEPT ![e] = "dropped"] /\ queue' = queue
           \/ handler' = [handler EXCEPT ![e] = "queued"] /\ queue' = Append(queue, e)
    BY <1>2 DEF Drop, Enqueue, threads
  <2>2. /\ handler'[e] \in {"dropped", "queued"}
        /\ \A x \in Event : x # e => handler'[x] = handler[x]
    BY <2>1 DEF ListenerInv, ListenerTypes
  <2>3. Arrived' = Arrived
    BY <2>1, <2>2 DEF Arrived
  <2>4. \A i \in DOMAIN queue' : queue'[i] = e \/ \E k \in DOMAIN queue : queue'[i] = queue[k]
    BY <2>1, AppendFacts DEF ListenerInv, ListenerTypes
  <2>5. Pending' \subseteq Pending
    BY <2>1, <2>2, <2>4 DEF Pending
  <2> QED BY <1>a, <2>1, <2>3, <2>5
<1>3. CASE Take \/ Discard
  <2>1. /\ queue # <<>> /\ queue' = Tail(queue) /\ UNCHANGED <<handler, shown>>
        /\ posting' = Head(queue) \/ (posting' = posting /\ worker' = worker)
    BY <1>3 DEF Take, Discard
  <2>2. /\ 1 \in DOMAIN queue /\ Head(queue) = queue[1]
        /\ \A i \in DOMAIN queue' : \E k \in DOMAIN queue : queue'[i] = queue[k]
    BY <2>1, TailFacts DEF ListenerInv, ListenerTypes
  <2> QED BY <1>a, <2>1, <2>2 DEF Arrived, Pending
<1>4. CASE Accepted
  BY <1>4, ShownRefines DEF Accepted
<1>5. CASE RateLimited
  BY <1>5, <1>a DEF RateLimited, Arrived, Pending, Trying
<1>6. CASE OtherError
  <2>1. /\ worker \in {"post", "retry"} /\ worker' = "pace" /\ UNCHANGED <<handler, queue, posting>>
        /\ Shows(posting, 0) \/ Shows(posting, 1)
    BY <1>6 DEF OtherError, AfterError
  <2>2. CASE Shows(posting, 1)
    BY <2>1, <2>2, ShownRefines
  <2>3. CASE Shows(posting, 0)
    <3>1. posting \in Event
      BY <2>1 DEF ListenerInv, ListenerTypes, Trying
    <3>2. shown' = shown
      BY <2>3, <3>1 DEF Shows, ListenerInv, ListenerTypes
    <3> QED BY <1>a, <2>1, <3>2 DEF Arrived, Pending, Trying
  <2> QED BY <2>1, <2>2, <2>3
<1>7. CASE Backoff
  BY <1>7, <1>a DEF Backoff, Arrived, Pending, Trying
<1>8. CASE Pace
  BY <1>8, <1>a DEF Pace, Arrived, Pending, Trying
<1>9. CASE Crash
  <2>1. /\ handler' = [e \in Event |-> IF e \in Lost THEN "lost" ELSE handler[e]]
        /\ queue' = <<>> /\ worker' = "idle" /\ posting' = None /\ shown' = shown
    BY <1>9 DEF Crash
  <2>2. \A e \in Lost : handler[e] # "none"
    BY ListenerAssumption DEF Lost, ListenerInv
  <2>3. Arrived' = Arrived
    BY <2>1, <2>2 DEF Arrived
  <2>4. \A e \in Event : handler'[e] # "acked"
    BY <2>1 DEF Lost
  <2>5. Pending' = {}
    BY <2>1, <2>4 DEF Pending, Trying
  <2> QED BY <1>a, <2>1, <2>3, <2>5
<1>10. CASE UNCHANGED vars
  BY <1>10, <1>a DEF vars, threads, Arrived, Pending
<1> QED BY <1>1, <1>2, <1>3, <1>4, <1>5, <1>6, <1>7, <1>8, <1>9, <1>10 DEF Next, WorkerStep

(* Nothing has come and nothing is shown.                                   *)
LEMMA InitRefines == Init => Delivery!DeliveryInit
BY DEF Init, Delivery!DeliveryInit, Pending, Trying

(* Every behaviour of the listener is one that AtMostOnce allows: an event is
   shown only while its fate is open, whatever is retried, refused, lost or
   discarded (worker, post_discord), for every set of events.               *)
THEOREM DeliveryRefinement == Spec => ImplementsAtMostOnce
<1>1. ListenerInv /\ [Next]_vars => [Delivery!DeliveryNext]_(Delivery!deliveryVars)
  BY StepRefines
<1> QED BY ListenerInvInit, ListenerInvStep, InitRefines, <1>1, PTL
        DEF Spec, ImplementsAtMostOnce, Delivery!DeliverySpec

(* What AtMostOnce knows of an event: until it came, and while its fate is   *)
(* open, it is not shown; after that once at most.                          *)
DeliveryInv ==
  /\ shown \in [Event -> Nat] /\ Pending \subseteq Arrived
  /\ \A e \in Event : shown[e] <= 1 /\ (e \notin Arrived \/ e \in Pending => shown[e] = 0)

(* AtMostOnce is as strong as its name (post_discord): whatever implements it
   shows no event twice.                                                    *)
THEOREM DeliveryPromise == ImplementsAtMostOnce => []NeverShownTwice
<1>1. Delivery!DeliveryInit => DeliveryInv
  BY DEF Delivery!DeliveryInit, DeliveryInv
<1>2. DeliveryInv /\ [Delivery!DeliveryNext]_(Delivery!deliveryVars) => DeliveryInv'
  <2> SUFFICES ASSUME DeliveryInv, [Delivery!DeliveryNext]_(Delivery!deliveryVars)
               PROVE  DeliveryInv'
    OBVIOUS
  <2> USE DEF DeliveryInv, Arrived
  <2>1. CASE Delivery!AreGivenUp
    BY <2>1 DEF Delivery!AreGivenUp
  <2>2. ASSUME NEW e \in Event, Delivery!Arrives(e) PROVE DeliveryInv'
    BY <2>2 DEF Delivery!Arrives
  <2>3. ASSUME NEW e \in Event, Delivery!IsShown(e) PROVE DeliveryInv'
    <3>1. /\ e \in Pending /\ Pending' = Pending \ {e} /\ UNCHANGED Arrived
          /\ shown' = [shown EXCEPT ![e] = @ + 1]
      BY <2>3 DEF Delivery!IsShown
    <3>2. shown'[e] = 1 /\ \A x \in Event : x # e => shown'[x] = shown[x]
      BY <3>1
    <3>3. e \in Arrived' /\ e \notin Pending'
      BY <3>1, <2>3 DEF Delivery!IsShown
    <3>4. shown' \in [Event -> Nat]
      BY <3>1
    <3>5. Arrived' = Arrived /\ Pending' \subseteq Arrived'
      BY <3>1
    <3>6. \A x \in Event : x # e => shown'[x] <= 1 /\ (x \notin Arrived' \/ x \in Pending' => shown'[x] = 0)
      BY <3>1, <3>2, <3>5
    <3>7. shown'[e] <= 1
      BY <3>2
    <3> HIDE DEF Arrived
    <3> QED BY <3>3, <3>4, <3>5, <3>6, <3>7
  <2>4. CASE UNCHANGED Delivery!deliveryVars
    BY <2>4 DEF Delivery!deliveryVars
  <2> QED BY <2>1, <2>2, <2>3, <2>4 DEF Delivery!DeliveryNext
<1>3. DeliveryInv => NeverShownTwice
  BY DEF DeliveryInv, NeverShownTwice
<1> QED BY <1>1, <1>2, <1>3, PTL DEF ImplementsAtMostOnce, Delivery!DeliverySpec
=============================================================================
