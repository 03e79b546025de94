---------------------------- MODULE QueueStatus ----------------------------
(***************************************************************************)
(* queue_app.services.aggregate_queue_status(): sample what every download *)
(* has left, wait, read every queue again and sort each record into        *)
(* downloading, stalled, queued or importing by what was observed.  The    *)
(* queues move on between the calls, and any call may fail by itself.      *)
(***************************************************************************)
EXTENDS Integers

CONSTANTS
  Download,    \* records of the queues
  SourceOf,    \* record -> the app whose queue holds it
  Nzbdav,      \* of the apps, NzbDAV
  Size         \* what a record has left at first

ASSUME QueueStatusAssumption == Size \in Nat \ {0}

VARIABLES
  phase,       \* record: "absent", "waiting", "downloading" or "importing"
  sizeleft,    \* record: what is left of it
  aggregatePc, \* 0 no request, 1 first samples, 2 second readings, 3 answered
  sampled,     \* apps read at this stage
  before,      \* first samples: record -> its rest, 0 when it has none
  bucketOf,    \* the answer: record -> its bucket, "none" when it is in none
  atFirst,     \* history: what was left when its app's first sample was due
  atSecond     \* history: the same at the second reading

queueVars == <<phase, sizeleft, aggregatePc, sampled, before, bucketOf, atFirst, atSecond>>

Source == {SourceOf[d] : d \in Download}
Records(s) == {d \in Download : SourceOf[d] = s}
InQueue(d) == phase[d] # "absent"
Over(f, set, value(_)) == [d \in Download |-> IF d \in set THEN value(d) ELSE f[d]]

-----------------------------------------------------------------------------
Arrives(d) ==
  /\ phase[d] = "absent"
  /\ phase' = [phase EXCEPT ![d] = "waiting"]
  /\ sizeleft' = [sizeleft EXCEPT ![d] = Size]
  /\ UNCHANGED <<aggregatePc, sampled, before, bucketOf, atFirst, atSecond>>

\* Its transfer starts or is held back.
StartsOrWaits(d) ==
  /\ phase[d] \in {"waiting", "downloading"}
  /\ phase' = [phase EXCEPT ![d] = IF @ = "waiting" THEN "downloading" ELSE "waiting"]
  /\ UNCHANGED <<sizeleft, aggregatePc, sampled, before, bucketOf, atFirst, atSecond>>

Shrinks(d) ==
  /\ phase[d] = "downloading" /\ sizeleft[d] > 0
  /\ sizeleft' = [sizeleft EXCEPT ![d] = @ - 1]
  /\ UNCHANGED <<phase, aggregatePc, sampled, before, bucketOf, atFirst, atSecond>>

\* Fetched: the app waits for its import (importPending), then it leaves.
Fetched(d) ==
  /\ phase[d] = "downloading" /\ sizeleft[d] = 0
  /\ phase' = [phase EXCEPT ![d] = "importing"]
  /\ UNCHANGED <<sizeleft, aggregatePc, sampled, before, bucketOf, atFirst, atSecond>>

Leaves(d) ==
  /\ InQueue(d)
  /\ phase' = [phase EXCEPT ![d] = "absent"]
  /\ sizeleft' = [sizeleft EXCEPT ![d] = 0]
  /\ UNCHANGED <<aggregatePc, sampled, before, bucketOf, atFirst, atSecond>>

-----------------------------------------------------------------------------
AggregateStarts ==
  /\ aggregatePc \in {0, 3}
  /\ aggregatePc' = 1 /\ sampled' = {}
  /\ before' = [d \in Download |-> 0] /\ bucketOf' = [d \in Download |-> "none"]
  /\ atFirst' = [d \in Download |-> 0] /\ atSecond' = [d \in Download |-> 0]
  /\ UNCHANGED <<phase, sizeleft>>

\* _nzbdav_mbleft_snapshot() takes the slots that are downloading,
\* _arr_sizeleft_snapshot() every record with something left.
Sampled(d) == InQueue(d) /\ (SourceOf[d] = Nzbdav => phase[d] = "downloading")

\* A failed sample is an empty one.
TakesSample(s) ==
  /\ aggregatePc = 1 /\ s \in Source \ sampled
  /\ \/ before' = Over(before, {d \in Records(s) : Sampled(d)}, LAMBDA d : sizeleft[d])
     \/ UNCHANGED before
  /\ atFirst' = Over(atFirst, Records(s), LAMBDA d : sizeleft[d])
  /\ sampled' = sampled \cup {s}
  /\ UNCHANGED <<phase, sizeleft, aggregatePc, bucketOf, atSecond>>

\* time.sleep(QUEUE_SAMPLE_SECONDS).
Sleeps ==
  /\ aggregatePc = 1 /\ sampled = Source
  /\ aggregatePc' = 2 /\ sampled' = {}
  /\ UNCHANGED <<phase, sizeleft, before, bucketOf, atFirst, atSecond>>

\* _bucket_arr_item() and _bucket_nzbdav_item().
NotSmaller(d) == IF before[d] >= sizeleft[d] THEN "downloading" ELSE "stalled"
ByProgress(d) == IF before[d] > sizeleft[d] THEN "downloading" ELSE "stalled"
ArrBucket(d) ==
  CASE phase[d] = "importing" -> "importing"
    [] phase[d] # "importing" /\ sizeleft[d] = 0 -> "queued"
    [] OTHER -> ByProgress(d)
NzbdavBucket(d) ==
  CASE sizeleft[d] = 0 -> "importing"
    [] phase[d] = "waiting" /\ sizeleft[d] > 0 -> "queued"
    [] OTHER -> ByProgress(d)
BucketFor(d) == IF SourceOf[d] = Nzbdav THEN NzbdavBucket(d) ELSE ArrBucket(d)

\* A source that cannot be read is reported "unreachable", without records.
ReadsQueue(s) ==
  /\ aggregatePc = 2 /\ s \in Source \ sampled
  /\ \/ bucketOf' = Over(bucketOf, {d \in Records(s) : InQueue(d)}, BucketFor)
     \/ UNCHANGED bucketOf
  /\ atSecond' = Over(atSecond, Records(s), LAMBDA d : sizeleft[d])
  /\ sampled' = sampled \cup {s}
  /\ UNCHANGED <<phase, sizeleft, aggregatePc, before, atFirst>>

AggregateAnswers ==
  /\ aggregatePc = 2 /\ sampled = Source
  /\ aggregatePc' = 3 /\ sampled' = {}
  /\ UNCHANGED <<phase, sizeleft, before, bucketOf, atFirst, atSecond>>

-----------------------------------------------------------------------------
QueueInit ==
  /\ phase = [d \in Download |-> "absent"] /\ sizeleft = [d \in Download |-> 0]
  /\ aggregatePc = 0 /\ sampled = {}
  /\ before = [d \in Download |-> 0] /\ bucketOf = [d \in Download |-> "none"]
  /\ atFirst = [d \in Download |-> 0] /\ atSecond = [d \in Download |-> 0]

QueueNext ==
  \/ \E d \in Download : \/ Arrives(d) \/ StartsOrWaits(d) \/ Shrinks(d)
                         \/ Fetched(d) \/ Leaves(d)
  \/ AggregateStarts \/ Sleeps \/ AggregateAnswers
  \/ \E s \in Source : TakesSample(s) \/ ReadsQueue(s)

QueueSpec == QueueInit /\ [][QueueNext]_queueVars

QueueTypeOK ==
  /\ phase \in [Download -> {"absent", "waiting", "downloading", "importing"}]
  /\ sizeleft \in [Download -> 0..Size] /\ before \in [Download -> 0..Size]
  /\ aggregatePc \in 0..3 /\ sampled \subseteq Source
  /\ bucketOf \in [Download -> {"none", "downloading", "stalled", "queued", "importing"}]

(* What is called downloading got smaller while the request watched, and what
   is called stalled did not, unless the first sample did not have it: a sample
   that failed, or was taken before it started, never invents progress
   (aggregate_queue_status: "the observed delta").                            *)
BucketsAreObserved ==
  \A d \in Download :
    /\ bucketOf[d] = "downloading" => atSecond[d] < atFirst[d]
    /\ bucketOf[d] = "stalled" => before[d] = 0 \/ atSecond[d] >= atFirst[d]
=============================================================================
