---------------------------- MODULE ServiceProofs ---------------------------
(*****************************************************************************)
(* Proofs about the services of the panel and the scripts that provision    *)
(* and configure: for each, its inductive invariant, that it holds          *)
(* initially and is kept by every step, and the theorems it gives; then, of *)
(* the run that has these components and those of ReportProofs in it, that  *)
(* it is a behaviour of each of them.                                       *)
(*****************************************************************************)
EXTENDS MCJobs, ReportProofs, SequenceTheorems, TLAPS

-----------------------------------------------------------------------------
(* Queue repair and the starvation check (ArrQueue).                       *)

(* The records a repair can be.                                            *)
RepairRecord ==
  [pc : {"idle", "items", "delete", "search"}, left : SUBSET Item, at : SUBSET Item,
   monitored : BOOLEAN, attempt : 0..2, search : SUBSET Item]

(* The searches an app can hold.                                           *)
SearchRecord == [items : SUBSET Item, status : {"queued", "started"}]

(* A repair deletes one item at a time, and one that has ended has nothing
   to search.                                                              *)
RepairLocals(l) ==
  /\ l.at = {} <=> l.pc # "delete"
  /\ l.pc = "idle" => l.search = {}

(* The records the check can be.                                           *)
CheckRecord ==
  [pc : {"idle", "starved", "cancelling", "next_app"}, targets : SUBSET SearchRecord]

(* A repair answers for the item it deletes only if it found it monitored
   and can search for it.                                                  *)
Holds(l, q) == (l.monitored /\ q \in l.at \ Unmatched) \/ q \in l.search

(* Somebody answers for item q: a repair, a search, or the record of what
   became of it.                                                           *)
Accounted(q) ==
  \/ \E r \in Repair : Holds(repair[r], q)
  \/ \E s \in searches : q \in s.items
  \/ q \in searched
  \/ q \in excused
  \/ q \in cancelled

(* Types of the queue, the searches, the check and the repairs.            *)
ArrTypes ==
  /\ arrQueue \subseteq Item /\ owed \subseteq Item /\ searched \subseteq Item
  /\ excused \subseteq Item /\ cancelled \subseteq Item
  /\ searches \subseteq SearchRecord /\ check \in CheckRecord
  /\ repair \in [Repair -> RepairRecord]
  /\ \A r \in Repair : RepairLocals(repair[r])

(* Every item taken out of the queue is answered for.                      *)
ArrInv == ArrTypes /\ \A q \in owed : Accounted(q)

(* A repair that has not started is in order and answers for nothing.      *)
LEMMA NoRepairFacts ==
  NoRepair \in RepairRecord /\ RepairLocals(NoRepair) /\ \A q : ~Holds(NoRepair, q)
BY DEF NoRepair, RepairRecord, RepairLocals, Holds

(* The queue starts with nothing owed.                                     *)
LEMMA ArrInvInit == ArrInit => ArrInv
<1> SUFFICES ASSUME ArrInit PROVE ArrInv
  OBVIOUS
<1>1. NoCheck \in CheckRecord
  BY DEF NoCheck, CheckRecord
<1>2. \A r \in Repair : repair[r] = NoRepair
  BY DEF ArrInit
<1> QED BY <1>1, <1>2, NoRepairFacts DEF ArrInit, ArrInv, ArrTypes

(* A repair may move on as long as what it answers for, it still answers
   for, or hands to a search, or is excused of.                            *)
LEMMA RepairMoves ==
  ASSUME ArrInv, NEW r \in Repair, NEW l \in RepairRecord, RepairLocals(l),
         repair' = [repair EXCEPT ![r] = l],
         searches \subseteq searches', UNCHANGED <<searched, cancelled>>, excused \subseteq excused',
         \A q \in owed : Holds(repair[r], q) =>
           Holds(l, q) \/ q \in excused' \/ \E s \in searches' : q \in s.items,
         \A q \in owed' : q \in owed \/ Holds(l, q) \/ q \in excused'
  PROVE  /\ repair' \in [Repair -> RepairRecord]
         /\ \A p \in Repair : RepairLocals(repair'[p])
         /\ \A q \in owed' : Accounted(q)'
<1>1. repair'[r] = l /\ \A p \in Repair : p # r => repair'[p] = repair[p]
  BY DEF ArrInv, ArrTypes
<1>2. /\ repair' \in [Repair -> RepairRecord]
      /\ \A p \in Repair : RepairLocals(repair'[p])
  BY <1>1 DEF ArrInv, ArrTypes
<1>3. ASSUME NEW q \in owed' PROVE Accounted(q)'
  <2>1. CASE q \in owed
    <3>1. Accounted(q)
      BY <2>1 DEF ArrInv
    <3>2. CASE \E p \in Repair : Holds(repair[p], q)
      <4>1. PICK p \in Repair : Holds(repair[p], q)
        BY <3>2
      <4>2. CASE p = r
        BY <4>1, <4>2, <1>1 DEF Accounted, Holds
      <4>3. CASE p # r
        BY <4>1, <4>3, <1>1 DEF Accounted, Holds
      <4> QED BY <4>2, <4>3
    <3>3. CASE ~\E p \in Repair : Holds(repair[p], q)
      BY <3>1, <3>3 DEF Accounted
    <3> QED BY <3>2, <3>3
  <2>2. CASE q \notin owed
    BY <2>2, <1>1 DEF Accounted, Holds
  <2> QED BY <2>1, <2>2
<1> QED BY <1>2, <1>3

(* The app may move on as long as a search that leaves its list is carried
   out or cancelled.                                                       *)
LEMMA AppMoves ==
  ASSUME ArrInv, UNCHANGED repair,
         \A s \in searches : s \in searches'
           \/ (\E t \in searches' : t.items = s.items)
           \/ s.items \cap owed \subseteq searched' \cup cancelled',
         \A q \in owed' : q \in owed,
         \A q \in owed' : q \in searched => q \in searched',
         \A q \in owed' : q \in excused => q \in excused',
         \A q \in owed' : q \in cancelled => q \in cancelled'
  PROVE  \A q \in owed' : Accounted(q)'
BY DEF ArrInv, Accounted, Holds

(* What the app does keeps it.                                             *)
LEMMA AppStepKeepsArrInv ==
  ASSUME ArrInv, AppStep PROVE ArrInv'
<1> USE DEF ArrInv, ArrTypes
<1>1. ASSUME NEW q \in Item, BecomesStuck(q) PROVE ArrInv'
  BY <1>1, AppMoves DEF BecomesStuck, Settles
<1>2. ASSUME NEW s \in searches, SearchStarts(s) PROVE ArrInv'
  <2> DEFINE t == [s EXCEPT !.status = "started"]
  <2>1. t \in SearchRecord /\ t.items = s.items
    BY DEF SearchRecord
  <2>2. searches' = (searches \ {s}) \cup {t} /\ UNCHANGED <<arrQueue, repair, check, owed, searched, excused, cancelled>>
    BY <1>2 DEF SearchStarts, owedVars
  <2> HIDE DEF t
  <2> QED BY <2>1, <2>2, AppMoves
<1>3. ASSUME NEW s \in searches, SearchEnds(s) PROVE ArrInv'
  BY <1>3, AppMoves DEF SearchEnds
<1>4. CASE Backfill
  <2>1. [items |-> Bulk, status |-> "queued"] \in SearchRecord
    BY DEF Bulk, SearchRecord
  <2> QED BY <1>4, <2>1, AppMoves DEF Backfill, owedVars
<1> QED BY <1>1, <1>2, <1>3, <1>4 DEF AppStep

(* What a repair does keeps it.                                            *)
LEMMA RepairStepKeepsArrInv ==
  ASSUME ArrInv, NEW r \in Repair, RepairStep(r) PROVE ArrInv'
<1>a. repair[r] \in RepairRecord /\ RepairLocals(repair[r])
  BY DEF ArrInv, ArrTypes
<1>c. ASSUME arrQueue' \subseteq arrQueue, owed' \subseteq Item, searched' = searched, cancelled' = cancelled,
             check' = check, searches' \subseteq SearchRecord, excused' \subseteq Item,
             repair' \in [Repair -> RepairRecord], \A p \in Repair : RepairLocals(repair'[p]),
             \A q \in owed' : Accounted(q)'
      PROVE  ArrInv'
  BY <1>c DEF ArrInv, ArrTypes
<1>d. /\ arrQueue \subseteq Item /\ owed \subseteq Item /\ excused \subseteq Item
      /\ searches \subseteq SearchRecord /\ repair \in [Repair -> RepairRecord]
  BY DEF ArrInv, ArrTypes
<1>1. CASE RepairStarts(r)
  <2>1. PICK items \in SUBSET arrQueue \ {{}} :
          repair' = [repair EXCEPT ![r] = [NoRepair EXCEPT !.pc = "items", !.left = items]]
    BY <1>1, Zenon DEF RepairStarts
  <2> DEFINE l == [NoRepair EXCEPT !.pc = "items", !.left = items]
  <2>2. l \in RepairRecord /\ RepairLocals(l)
    <3>1. items \in SUBSET Item
      BY <2>1, <1>d
    <3>2. NoRepair \in RepairRecord /\ NoRepair.at = {} /\ NoRepair.search = {}
      BY NoRepairFacts DEF NoRepair
    <3> QED BY <3>1, <3>2 DEF RepairRecord, RepairLocals
  <2>3. repair' = [repair EXCEPT ![r] = l]
    BY <2>1
  <2>4. \A q : ~Holds(repair[r], q)
    BY <1>1, <1>a DEF RepairStarts, RepairLocals, Holds
  <2> HIDE DEF l
  <2>5. UNCHANGED <<arrQueue, searches, check, owed, searched, excused, cancelled>>
    BY <1>1 DEF RepairStarts, owedVars
  <2>6. /\ repair' \in [Repair -> RepairRecord] /\ \A p \in Repair : RepairLocals(repair'[p])
        /\ \A q \in owed' : Accounted(q)'
    BY <2>2, <2>3, <2>4, <2>5, RepairMoves
  <2> QED BY <1>c, <1>d, <2>5, <2>6
<1>2. ASSUME NEW q \in Item, ChecksMonitored(r, q) PROVE ArrInv'
  <2>0. (IF q \in Unmatched THEN {TRUE} ELSE BOOLEAN) \subseteq BOOLEAN
    OBVIOUS
  <2>1. PICK reply \in BOOLEAN :
          repair' = [repair EXCEPT ![r].pc = "delete", ![r].left = @ \ {q}, ![r].at = {q},
                                   ![r].monitored = reply, ![r].attempt = 1]
    BY <1>2, <2>0, Zenon DEF ChecksMonitored
  <2> DEFINE first == 1
             l == [repair[r] EXCEPT !.pc = "delete", !.left = @ \ {q}, !.at = {q},
                                    !.monitored = reply, !.attempt = first]
  <2>3. repair' = [repair EXCEPT ![r] = l]
    BY <2>1, <1>d
  <2>2. l \in RepairRecord /\ l.pc = "delete" /\ l.at = {q} /\ l.search = repair[r].search
    <3>1. first \in 0..2
      OBVIOUS
    <3> HIDE DEF first
    <3> QED BY <1>a, <3>1 DEF RepairRecord
  <2> HIDE DEF l
  <2>4. RepairLocals(l)
    BY <2>2 DEF RepairLocals
  <2>5. \A x : Holds(repair[r], x) => Holds(l, x)
    BY <1>2, <1>a, <2>2 DEF ChecksMonitored, RepairLocals, Holds
  <2>6. UNCHANGED <<arrQueue, searches, check, owed, searched, excused, cancelled>>
    BY <1>2 DEF ChecksMonitored, owedVars
  <2>7. /\ repair' \in [Repair -> RepairRecord] /\ \A p \in Repair : RepairLocals(repair'[p])
        /\ \A x \in owed' : Accounted(x)'
    BY <2>2, <2>3, <2>4, <2>5, <2>6, RepairMoves
  <2> QED BY <1>c, <1>d, <2>6, <2>7
<1>b. ASSUME NEW search \in SUBSET Item, repair[r].pc = "delete", repair' = WithItem(r, search),
             UNCHANGED <<searches, searched, cancelled>>, excused \subseteq excused', owed \subseteq owed',
             \A q \in (repair[r].at \ Unmatched) \cap owed' :
                repair[r].monitored => q \in search \cup excused',
             \A q \in owed' : q \in owed \/ (q \in repair[r].at \ Unmatched /\ repair[r].monitored)
      PROVE  /\ repair' \in [Repair -> RepairRecord]
             /\ \A p \in Repair : RepairLocals(repair'[p])
             /\ \A q \in owed' : Accounted(q)'
  <2> DEFINE next == IF repair[r].left = {} THEN "search" ELSE "items"
             l == [repair[r] EXCEPT !.pc = next, !.at = {}, !.search = @ \cup search]
  <2>2. repair' = [repair EXCEPT ![r] = l]
    BY <1>b, <1>d, Zenon DEF WithItem
  <2>5. next \in {"search", "items"}
    OBVIOUS
  <2> HIDE DEF next
  <2>1. /\ l \in RepairRecord /\ l.pc \in {"search", "items"} /\ l.at = {}
        /\ l.search = repair[r].search \cup search
    BY <1>a, <2>5 DEF RepairRecord
  <2> HIDE DEF l
  <2>3. RepairLocals(l)
    BY <2>1 DEF RepairLocals
  <2>4. \A x \in owed : Holds(repair[r], x) => Holds(l, x) \/ x \in excused'
    BY <1>b, <2>1 DEF Holds
  <2>6. \A q \in owed' : q \in owed \/ Holds(l, q) \/ q \in excused'
    BY <1>b, <2>1 DEF Holds
  <2> QED BY <1>b, <2>1, <2>2, <2>3, <2>4, <2>6, RepairMoves
<1>3. CASE DeleteAnswers(r)
  <2> DEFINE search == IF repair[r].monitored THEN repair[r].at \ Unmatched ELSE {}
  <2>1. search \in SUBSET Item /\ (repair[r].monitored => repair[r].at \ Unmatched \subseteq search)
    BY <1>a DEF RepairRecord
  <2>2. repair' = WithItem(r, search) /\ Deleted(r) /\ repair[r].pc = "delete"
        /\ UNCHANGED <<searches, check, searched, excused, cancelled>>
    BY <1>3 DEF DeleteAnswers
  <2> HIDE DEF search
  <2>3. /\ arrQueue' \subseteq arrQueue /\ owed' \subseteq Item /\ owed \subseteq owed'
        /\ \A q \in owed' : q \in owed \/ (q \in repair[r].at \ Unmatched /\ repair[r].monitored)
    BY <1>a, <1>d, <2>2 DEF Deleted, RepairRecord
  <2>4. /\ repair' \in [Repair -> RepairRecord] /\ \A p \in Repair : RepairLocals(repair'[p])
        /\ \A q \in owed' : Accounted(q)'
    BY <1>b, <2>1, <2>2, <2>3
  <2> QED BY <1>c, <1>d, <2>2, <2>3, <2>4
<1>4. CASE DeleteTimesOut(r)
  <2>1. repair[r].pc = "delete" /\ (Deleted(r) \/ UNCHANGED <<arrQueue, owed>>)
        /\ UNCHANGED <<searches, check, searched, cancelled>>
    BY <1>4 DEF DeleteTimesOut
  <2>2. /\ arrQueue' \subseteq arrQueue /\ owed' \subseteq Item /\ owed \subseteq owed'
        /\ \A q \in owed' : q \in owed \/ (q \in repair[r].at \ Unmatched /\ repair[r].monitored)
    BY <1>a, <1>d, <2>1 DEF Deleted, RepairRecord
  <2>3. CASE repair[r].attempt = 1 /\ repair' = [repair EXCEPT ![r].attempt = 2] /\ UNCHANGED excused
    <3> DEFINE l == [repair[r] EXCEPT !.attempt = 2]
    <3>1. /\ l \in RepairRecord /\ l.pc = "delete" /\ l.at = repair[r].at
          /\ l.search = repair[r].search /\ l.monitored = repair[r].monitored
      BY <1>a, <2>1 DEF RepairRecord
    <3>2. repair' = [repair EXCEPT ![r] = l]
      BY <2>3, <1>d
    <3> HIDE DEF l
    <3>3. RepairLocals(l)
      BY <1>a, <2>1, <3>1 DEF RepairLocals
    <3>4. \A q : Holds(repair[r], q) <=> Holds(l, q)
      BY <3>1 DEF Holds
    <3>5. \A q \in owed' : q \in owed \/ Holds(l, q)
      BY <2>2, <3>1 DEF Holds
    <3>6. /\ repair' \in [Repair -> RepairRecord] /\ \A p \in Repair : RepairLocals(repair'[p])
          /\ \A q \in owed' : Accounted(q)'
      BY <2>1, <2>2, <2>3, <3>1, <3>2, <3>3, <3>4, <3>5, RepairMoves
    <3> QED BY <1>c, <1>d, <2>1, <2>2, <2>3, <3>6
  <2>4. CASE GivesUp(r)
    <3>1. repair' = WithItem(r, {}) /\ excused' = excused \cup (repair[r].at \cap owed')
      BY <2>4 DEF GivesUp, Excuses
    <3>2. /\ repair' \in [Repair -> RepairRecord] /\ \A p \in Repair : RepairLocals(repair'[p])
          /\ \A q \in owed' : Accounted(q)'
      BY <1>b, <2>1, <2>2, <3>1
    <3> QED BY <1>c, <1>d, <2>1, <2>2, <3>1, <3>2
  <2> QED BY <1>4, <2>3, <2>4 DEF DeleteTimesOut
<1>5. CASE DeleteFails(r)
  <2>1. repair[r].pc = "delete" /\ (Deleted(r) \/ UNCHANGED <<arrQueue, owed>>)
        /\ UNCHANGED <<searches, check, searched, cancelled>>
        /\ repair' = WithItem(r, {}) /\ excused' = excused \cup (repair[r].at \cap owed')
    BY <1>5 DEF DeleteFails, Excuses
  <2>2. /\ arrQueue' \subseteq arrQueue /\ owed' \subseteq Item /\ owed \subseteq owed'
        /\ \A q \in owed' : q \in owed \/ (q \in repair[r].at \ Unmatched /\ repair[r].monitored)
    BY <1>a, <1>d, <2>1 DEF Deleted, RepairRecord
  <2>3. /\ repair' \in [Repair -> RepairRecord] /\ \A p \in Repair : RepairLocals(repair'[p])
        /\ \A q \in owed' : Accounted(q)'
    BY <1>b, <2>1, <2>2
  <2> QED BY <1>c, <1>d, <2>1, <2>2, <2>3
<1>6. CASE TriggersSearch(r)
  <2> DEFINE s == [items |-> repair[r].search, status |-> "queued"]
  <2>1. s \in SearchRecord /\ s.items = repair[r].search
    BY <1>a DEF SearchRecord, RepairRecord
  <2>2. repair[r].at = {}
    BY <1>6, <1>a DEF TriggersSearch, RepairLocals
  <2>3. repair' = [repair EXCEPT ![r] = NoRepair]
        /\ searches' = (IF repair[r].search = {} THEN searches ELSE searches \cup {s})
        /\ UNCHANGED <<arrQueue, check, owed, searched, excused, cancelled>>
    BY <1>6 DEF TriggersSearch, Submitted, owedVars
  <2> HIDE DEF s
  <2>4. \A q : Holds(repair[r], q) => \E t \in searches' : q \in t.items
    BY <2>1, <2>2, <2>3 DEF Holds
  <2>5. /\ repair' \in [Repair -> RepairRecord] /\ \A p \in Repair : RepairLocals(repair'[p])
        /\ \A q \in owed' : Accounted(q)'
    BY <2>3, <2>4, NoRepairFacts, RepairMoves
  <2> QED BY <1>c, <1>d, <2>1, <2>3, <2>5
<1>7. CASE SearchTriggerFails(r)
  <2>1. \A q \in owed : Holds(repair[r], q) => q \in excused'
    BY <1>7, <1>a DEF SearchTriggerFails, Excuses, RepairLocals, Holds
  <2>2. /\ repair' = [repair EXCEPT ![r] = NoRepair] /\ excused \subseteq excused' /\ excused' \subseteq Item
        /\ UNCHANGED <<arrQueue, searches, check, owed, searched, cancelled>>
    BY <1>7, <1>d DEF SearchTriggerFails, Excuses
  <2>3. /\ repair' \in [Repair -> RepairRecord] /\ \A p \in Repair : RepairLocals(repair'[p])
        /\ \A q \in owed' : Accounted(q)'
    BY <2>1, <2>2, NoRepairFacts, RepairMoves
  <2> QED BY <1>c, <1>d, <2>2, <2>3
<1>8. CASE RepairAbandoned(r)
  <2>1. \A q \in owed : Holds(repair[r], q) => q \in excused'
    BY <1>8 DEF RepairAbandoned, Excuses, Holds
  <2>2. /\ repair' = [repair EXCEPT ![r] = NoRepair] /\ excused \subseteq excused' /\ excused' \subseteq Item
        /\ UNCHANGED <<arrQueue, searches, check, owed, searched, cancelled>>
    BY <1>8, <1>d DEF RepairAbandoned, Excuses
  <2>3. /\ repair' \in [Repair -> RepairRecord] /\ \A p \in Repair : RepairLocals(repair'[p])
        /\ \A q \in owed' : Accounted(q)'
    BY <2>1, <2>2, NoRepairFacts, RepairMoves
  <2> QED BY <1>c, <1>d, <2>2, <2>3
<1> QED BY <1>1, <1>2, <1>3, <1>4, <1>5, <1>6, <1>7, <1>8 DEF RepairStep

(* What the starvation check does keeps it: a search that it cancels is on
   record for its items.                                                   *)
LEMMA CheckKeepsArrInv ==
  ASSUME ArrInv,
         \/ Detects \/ ReadsBacklog \/ CheckAnswers \/ CheckRaises
         \/ \E s \in check.targets : Cancels(s)
  PROVE  ArrInv'
<1> USE DEF ArrInv, ArrTypes
<1>1. CASE Detects \/ ReadsBacklog \/ CheckAnswers \/ CheckRaises
  <2>1. check' \in CheckRecord
    <3>1. NoCheck \in CheckRecord
          /\ [NoCheck EXCEPT !.pc = "starved"] \in CheckRecord
          /\ [NoCheck EXCEPT !.pc = "next_app"] \in CheckRecord
      BY DEF NoCheck, CheckRecord
    <3>2. [pc |-> "cancelling", targets |-> Backlog] \in CheckRecord
      BY DEF Backlog, CheckRecord
    <3> QED BY <1>1, <3>1, <3>2 DEF Detects, ReadsBacklog, CheckAnswers, CheckRaises
  <2>2. UNCHANGED <<arrQueue, searches, repair, owed, searched, excused, cancelled>>
    BY <1>1 DEF Detects, ReadsBacklog, CheckAnswers, CheckRaises, owedVars
  <2>3. \A q \in owed' : Accounted(q)'
    BY <2>2, AppMoves
  <2> QED BY <2>1, <2>2, <2>3
<1>2. ASSUME NEW s \in check.targets, Cancels(s) PROVE ArrInv'
  <2>1. check' \in CheckRecord
    BY <1>2 DEF Cancels, NoCheck, CheckRecord
  <2>2. UNCHANGED <<arrQueue, repair, owed, searched, excused>>
    BY <1>2 DEF Cancels
  <2>3. /\ cancelled' \subseteq Item /\ cancelled \subseteq cancelled' /\ searches' \subseteq searches
        /\ \A x \in searches : x \in searches' \/ x.items \cap owed \subseteq cancelled'
    BY <1>2 DEF Cancels
  <2>4. \A q \in owed' : Accounted(q)'
    BY <2>2, <2>3, AppMoves
  <2> QED BY <2>1, <2>2, <2>3, <2>4
<1> QED BY <1>1, <1>2

(* Every step keeps it.                                                    *)
LEMMA ArrInvStep == ArrInv /\ [ArrNext]_arrVars => ArrInv'
<1>1. ASSUME ArrInv, UNCHANGED arrVars PROVE ArrInv'
  BY <1>1, AppMoves DEF ArrInv, ArrTypes, arrVars, owedVars
<1> QED BY <1>1, AppStepKeepsArrInv, RepairStepKeepsArrInv, CheckKeepsArrInv DEF ArrNext

(* No item that a repair took out of the queue and has to search again is
   lost silently but by a starvation check that cancels its search, whatever
   repairs and checks overlap (blocklist_and_research, clear_search_backlog),
   for every set of items, matched or not, and of repairs.                 *)
THEOREM RepairCorrectness == ArrSpec => []NothingLostSilently
<1>1. ArrInv => NothingLostSilently
  BY DEF ArrInv, ArrTypes, Accounted, Holds, NothingLostSilently, InHand, InSearches
<1> QED BY ArrInvInit, ArrInvStep, <1>1, PTL DEF ArrSpec

(* The types of the queue, the searches and the repairs.                   *)
THEOREM ArrTypeCorrectness == ArrSpec => []ArrTypeOK
<1>1. ArrInv => ArrTypeOK
  BY DEF ArrInv, ArrTypes, ArrTypeOK, RepairRecord, RepairLocals, SearchRecord, CheckRecord
<1> QED BY ArrInvInit, ArrInvStep, <1>1, PTL DEF ArrSpec

-----------------------------------------------------------------------------
(* Deletion of failed history entries (NzbHistory).                        *)

(* The records a caller of delete_failures can be.                         *)
PruneRecord ==
  [pc : {"idle", "deleting", "returned", "raised"}, listed : SUBSET Entry, left : SUBSET Entry,
   deleted : SUBSET Entry, errors : SUBSET Entry, raised : BOOLEAN]

(* Until a thread raises, every entry listed is still to be deleted or counted.  *)
PruneLocals(q) ==
  /\ q.left \subseteq q.listed
  /\ q.left \cap (q.deleted \cup q.errors) = {}
  /\ q.deleted \cap q.errors = {}
  /\ q.deleted \subseteq q.listed
  /\ ~q.raised => q.listed = q.left \cup q.deleted \cup q.errors
  /\ q.pc # "deleting" => q.left = {}
  /\ q.pc = "returned" => ~q.raised

(* Each caller counts in order; what it listed had failed, what it counts as
   deleted is deleted.                                                     *)
PruneInv ==
  /\ entries \in [Entry -> {"none", "Failed", "Completed", "deleted"}]
  /\ pruner \in [Pruner -> PruneRecord]
  /\ \A p \in Pruner :
       /\ PruneLocals(pruner[p])
       /\ \A e \in pruner[p].listed : entries[e] \in {"Failed", "deleted"}
       /\ \A e \in pruner[p].deleted : entries[e] = "deleted"

(* A caller that has not started is in order.                              *)
LEMMA NoPruneFacts == NoPrune \in PruneRecord /\ PruneLocals(NoPrune)
                      /\ NoPrune.listed = {} /\ NoPrune.deleted = {}
BY DEF NoPrune, PruneRecord, PruneLocals

(* The history starts in order.                                            *)
LEMMA PruneInvInit == HistoryInit => PruneInv
BY NoPruneFacts DEF HistoryInit, PruneInv

(* Every step of NzbDAV and of the callers keeps it.                       *)
LEMMA PruneInvStep == PruneInv /\ [HistoryNext]_historyVars => PruneInv'
<1> SUFFICES ASSUME PruneInv, [HistoryNext]_historyVars PROVE PruneInv'
  OBVIOUS
<1> USE DEF PruneInv
<1>1. ASSUME NEW e \in Entry, DownloadEnds(e)
      PROVE  PruneInv'
  BY <1>1 DEF DownloadEnds, PruneRecord, PruneLocals
<1>2. ASSUME NEW e \in Entry, NEW p \in Pruner, DeletesOne(p, e)
      PROVE  PruneInv'
  <2>1. PICK applied \in BOOLEAN, reply \in {"status true", "status false", "broken", "not json"} :
          LET outcome == Outcome(applied, reply) IN
       /\ Possible(e, applied, reply)
       /\ entries' = IF applied THEN [entries EXCEPT ![e] = "deleted"] ELSE entries
       /\ pruner' = [pruner EXCEPT ![p].left = @ \ {e},
            ![p].deleted = IF outcome = "deleted" THEN @ \cup {e} ELSE @,
            ![p].errors = IF outcome = "error" THEN @ \cup {e} ELSE @,
            ![p].raised = @ \/ outcome = "raised"]
    BY <1>2 DEF DeletesOne
  <2> DEFINE outcome == Outcome(applied, reply)
             q == [pruner[p] EXCEPT !.left = @ \ {e},
                    !.deleted = IF outcome = "deleted" THEN @ \cup {e} ELSE @,
                    !.errors = IF outcome = "error" THEN @ \cup {e} ELSE @,
                    !.raised = @ \/ outcome = "raised"]
  <2>2. PruneLocals(pruner[p]) /\ pruner[p] \in PruneRecord /\ e \in pruner[p].left
        /\ pruner[p].pc = "deleting"
    BY <1>2 DEF DeletesOne
  <2>3. outcome \in {"deleted", "error", "raised"}
    BY DEF Outcome
  <2>4. /\ q \in PruneRecord /\ q.pc = "deleting" /\ q.listed = pruner[p].listed
        /\ q.left = pruner[p].left \ {e}
        /\ q.deleted = IF outcome = "deleted" THEN pruner[p].deleted \cup {e} ELSE pruner[p].deleted
        /\ q.errors = IF outcome = "error" THEN pruner[p].errors \cup {e} ELSE pruner[p].errors
        /\ q.raised = (pruner[p].raised \/ outcome = "raised")
    BY <2>2 DEF PruneRecord
  <2>5. entries' \in [Entry -> {"none", "Failed", "Completed", "deleted"}]
        /\ \A x \in Entry : entries'[x] = entries[x] \/ (x = e /\ applied /\ entries'[x] = "deleted")
    BY <2>1
  <2>7. entries[e] \in {"Failed", "deleted"}
    BY <2>2 DEF PruneLocals
  <2>6. outcome = "deleted" => entries'[e] = "deleted"
    BY <2>1, <2>7 DEF Outcome, Possible, InHistory
  <2> HIDE DEF q, outcome
  <2>8. PruneLocals(q)
    <3> DEFINE o == pruner[p]
    <3>1. o.raised \in BOOLEAN /\ q.raised \in BOOLEAN /\ e \in o.left
      BY <2>2, <2>4 DEF PruneRecord
    <3>2. /\ o.left \subseteq o.listed /\ o.left \cap (o.deleted \cup o.errors) = {}
          /\ o.deleted \cap o.errors = {} /\ o.deleted \subseteq o.listed
          /\ ~o.raised => o.listed = o.left \cup o.deleted \cup o.errors
      BY <2>2 DEF PruneLocals
    <3> HIDE DEF o
    <3>3. CASE outcome = "deleted"
      <4>1. q.left \cup q.deleted \cup q.errors = o.left \cup o.deleted \cup o.errors
        BY <2>4, <3>1, <3>3 DEF o
      <4>3. ~q.raised => ~o.raised
        BY <2>4, <3>1, <3>3 DEF o
      <4>4. ~q.raised => q.listed = q.left \cup q.deleted \cup q.errors
        BY <2>4, <3>2, <4>1, <4>3 DEF o
      <4>5. q.left \cap (q.deleted \cup q.errors) = {} /\ q.deleted \cap q.errors = {}
        BY <2>4, <3>1, <3>2, <3>3 DEF o
      <4>6. q.left \subseteq q.listed /\ q.deleted \subseteq q.listed
        BY <2>4, <3>1, <3>2, <3>3 DEF o
      <4> QED BY <2>4, <4>4, <4>5, <4>6 DEF PruneLocals
    <3>4. CASE outcome = "error"
      <4>1. q.left \cup q.deleted \cup q.errors = o.left \cup o.deleted \cup o.errors
        BY <2>4, <3>1, <3>4 DEF o
      <4>3. ~q.raised => ~o.raised
        BY <2>4, <3>1, <3>4 DEF o
      <4>4. ~q.raised => q.listed = q.left \cup q.deleted \cup q.errors
        BY <2>4, <3>2, <4>1, <4>3 DEF o
      <4>5. q.left \cap (q.deleted \cup q.errors) = {} /\ q.deleted \cap q.errors = {}
        BY <2>4, <3>1, <3>2, <3>4 DEF o
      <4>6. q.left \subseteq q.listed /\ q.deleted \subseteq q.listed
        BY <2>4, <3>1, <3>2, <3>4 DEF o
      <4> QED BY <2>4, <4>4, <4>5, <4>6 DEF PruneLocals
    <3>5. CASE outcome = "raised"
      BY <2>4, <3>1, <3>2, <3>5 DEF PruneLocals, o
    <3> QED BY <2>3, <3>3, <3>4, <3>5
  <2>9. pruner' = [pruner EXCEPT ![p] = q]
    BY <2>1 DEF q, outcome
  <2>10. \A x \in q.deleted : x \in pruner[p].deleted \/ (x = e /\ outcome = "deleted")
    BY <2>4
  <2>11. q.listed = pruner[p].listed
    BY <2>4
  <2>12. pruner'[p] = q /\ \A r \in Pruner : r # p => pruner'[r] = pruner[r]
    BY <2>9
  <2>13. \A r \in Pruner : \A x \in pruner'[r].listed : entries'[x] \in {"Failed", "deleted"}
    BY <2>5, <2>11, <2>12 DEF PruneRecord
  <2>14. \A r \in Pruner : \A x \in pruner'[r].deleted : entries'[x] = "deleted"
    BY <2>5, <2>6, <2>10, <2>12 DEF PruneRecord
  <2> QED BY <2>4, <2>5, <2>8, <2>9, <2>12, <2>13, <2>14
<1>3. ASSUME NEW p \in Pruner, ListsFailures(p)
      PROVE  PruneInv'
  <2> DEFINE q == [NoPrune EXCEPT !.pc = "deleting", !.listed = FailedEntries, !.left = FailedEntries]
  <2>1. q \in PruneRecord /\ PruneLocals(q) /\ q.listed = FailedEntries /\ q.deleted = {}
    BY <1>3 DEF NoPrune, PruneRecord, PruneLocals, FailedEntries, ListsFailures
  <2>2. pruner' = [pruner EXCEPT ![p] = q] /\ entries' = entries
    BY <1>3 DEF ListsFailures
  <2> HIDE DEF q
  <2> QED BY <2>1, <2>2 DEF FailedEntries
<1>4. ASSUME NEW p \in Pruner, PruneReturns(p)
      PROVE  PruneInv'
  BY <1>4 DEF PruneReturns, PruneLocals, PruneRecord
<1>5. ASSUME NEW p \in Pruner, PruneIsCalledAgain(p) \/ PrunerKilled(p)
      PROVE  PruneInv'
  BY <1>5, NoPruneFacts DEF PruneIsCalledAgain, PrunerKilled
<1>6. CASE UNCHANGED historyVars
  BY <1>6 DEF historyVars
<1> QED BY <1>1, <1>2, <1>3, <1>4, <1>5, <1>6 DEF HistoryNext

(* When a call returns, every failed entry it listed is counted, and what it
   counts as deleted is gone (delete_failures), for every number of entries
   and callers.                                                            *)
THEOREM DeletionCorrectness == HistorySpec => []CountedDeletionsAreReal
<1>1. PruneInv => CountedDeletionsAreReal
  BY DEF PruneInv, PruneLocals, CountedDeletionsAreReal, InHistory
<1> QED BY PruneInvInit, PruneInvStep, <1>1, PTL DEF HistorySpec

(* The types of the history and of its callers.                            *)
THEOREM HistoryTypeCorrectness == HistorySpec => []HistoryTypeOK
<1>1. PruneInv => HistoryTypeOK
  BY DEF PruneInv, PruneRecord, PruneLocals, HistoryTypeOK
<1> QED BY PruneInvInit, PruneInvStep, <1>1, PTL DEF HistorySpec

-----------------------------------------------------------------------------
(* The aggregated queue (QueueStatus).                                     *)

(* The buckets a download can be in.                                       *)
Bucket == {"none", "downloading", "stalled", "queued", "importing"}

(* What each sample saw, and what the bucket of a download says of the two.*)
QueueInv ==
  /\ QueueTypeOK
  /\ atFirst \in [Download -> 0..Size] /\ atSecond \in [Download -> 0..Size]
  /\ \A d \in Download :
       /\ before[d] \in {0, atFirst[d]}
       /\ aggregatePc = 1 => bucketOf[d] = "none"
       /\ aggregatePc = 1 /\ SourceOf[d] \notin sampled => before[d] = 0
       /\ aggregatePc = 2 /\ SourceOf[d] \notin sampled => bucketOf[d] = "none"
       /\ bucketOf[d] = "downloading" => before[d] > atSecond[d]
       /\ bucketOf[d] = "stalled" => before[d] <= atSecond[d]

(* What the bucket chosen for a download says of its two samples.          *)
LEMMA BucketForFacts ==
  ASSUME NEW d \in Download
  PROVE  /\ BucketFor(d) \in Bucket
         /\ BucketFor(d) = "downloading" => before[d] > sizeleft[d]
         /\ BucketFor(d) = "stalled" => ~(before[d] > sizeleft[d])
BY DEF BucketFor, NzbdavBucket, ArrBucket, ByProgress, Bucket

(* An aggregation starts with no bucket and no sample.                     *)
LEMMA QueueInvInit == QueueInit => QueueInv
BY QueueStatusAssumption DEF QueueInit, QueueInv, QueueTypeOK

(* Every step of the downloads and of the aggregation keeps it.            *)
LEMMA QueueInvStep == QueueInv /\ [QueueNext]_queueVars => QueueInv'
<1> SUFFICES ASSUME QueueInv, [QueueNext]_queueVars PROVE QueueInv'
  OBVIOUS
<1> USE QueueStatusAssumption DEF QueueInv, QueueTypeOK
<1>1. ASSUME NEW d \in Download, Arrives(d) PROVE QueueInv'
  BY <1>1 DEF Arrives
<1>2. ASSUME NEW d \in Download, StartsOrWaits(d) PROVE QueueInv'
  BY <1>2 DEF StartsOrWaits
<1>3. ASSUME NEW d \in Download, Shrinks(d) PROVE QueueInv'
  BY <1>3 DEF Shrinks
<1>4. ASSUME NEW d \in Download, Fetched(d) PROVE QueueInv'
  BY <1>4 DEF Fetched
<1>5. ASSUME NEW d \in Download, Leaves(d) PROVE QueueInv'
  BY <1>5 DEF Leaves
<1>6. CASE AggregateStarts
  BY <1>6 DEF AggregateStarts
<1>7. CASE Sleeps
  BY <1>7 DEF Sleeps, Source
<1>8. CASE AggregateAnswers
  BY <1>8 DEF AggregateAnswers
<1>9. ASSUME NEW s \in Source, TakesSample(s) PROVE QueueInv'
  <2>1. /\ aggregatePc = 1 /\ s \in Source \ sampled
        /\ sampled' = sampled \cup {s}
        /\ UNCHANGED <<phase, sizeleft, aggregatePc, bucketOf, atSecond>>
    BY <1>9 DEF TakesSample
  <2>2. atFirst' = [d \in Download |-> IF d \in Records(s) THEN sizeleft[d] ELSE atFirst[d]]
    BY <1>9 DEF TakesSample, Over
  <2>3. \/ before' = [d \in Download |-> IF d \in Records(s) /\ Sampled(d) THEN sizeleft[d] ELSE before[d]]
        \/ before' = before
    BY <1>9 DEF TakesSample, Over
  <2>4. \A d \in Download : d \in Records(s) <=> SourceOf[d] = s
    BY DEF Records
  <2>5. before' \in [Download -> 0..Size] /\ atFirst' \in [Download -> 0..Size]
    BY <2>2, <2>3
  <2>6. ASSUME NEW d \in Download
        PROVE  /\ before'[d] \in {0, atFirst'[d]}
               /\ SourceOf[d] \notin sampled' => before'[d] = 0
    BY <2>1, <2>2, <2>3, <2>4
  <2> QED BY <2>1, <2>5, <2>6
<1>10. ASSUME NEW s \in Source, ReadsQueue(s) PROVE QueueInv'
  <2>1. /\ aggregatePc = 2 /\ s \in Source \ sampled
        /\ sampled' = sampled \cup {s}
        /\ UNCHANGED <<phase, sizeleft, aggregatePc, before, atFirst>>
    BY <1>10 DEF ReadsQueue
  <2>2. atSecond' = [d \in Download |-> IF d \in Records(s) THEN sizeleft[d] ELSE atSecond[d]]
    BY <1>10 DEF ReadsQueue, Over
  <2>3. \/ bucketOf' = [d \in Download |-> IF d \in Records(s) /\ InQueue(d) THEN BucketFor(d) ELSE bucketOf[d]]
        \/ bucketOf' = bucketOf
    BY <1>10 DEF ReadsQueue, Over
  <2>4. \A d \in Download : d \in Records(s) <=> SourceOf[d] = s
    BY DEF Records
  <2>5. bucketOf' \in [Download -> Bucket] /\ atSecond' \in [Download -> 0..Size]
    BY <2>2, <2>3, BucketForFacts DEF Bucket
  <2>6. ASSUME NEW d \in Download
        PROVE  /\ SourceOf[d] \notin sampled' => bucketOf'[d] = "none"
               /\ bucketOf'[d] = "downloading" => before'[d] > atSecond'[d]
               /\ bucketOf'[d] = "stalled" => before'[d] <= atSecond'[d]
    BY <2>1, <2>2, <2>3, <2>4, BucketForFacts
  <2> QED BY <2>1, <2>5, <2>6 DEF Bucket
<1>11. CASE UNCHANGED queueVars
  BY <1>11 DEF queueVars
<1> QED BY <1>1, <1>2, <1>3, <1>4, <1>5, <1>6, <1>7, <1>8, <1>9, <1>10, <1>11 DEF QueueNext

(* Downloading means seen to get smaller and stalled means not, for a sample
   that failed too (aggregate_queue_status), for every set of downloads and
   sources.                                                                *)
THEOREM BucketCorrectness == QueueSpec => []BucketsAreObserved
<1>1. QueueInv => BucketsAreObserved
  <2> SUFFICES ASSUME QueueInv, NEW d \in Download
               PROVE  /\ bucketOf[d] = "downloading" => atSecond[d] < atFirst[d]
                      /\ bucketOf[d] = "stalled" => before[d] = 0 \/ atSecond[d] >= atFirst[d]
    BY DEF BucketsAreObserved
  <2>1. before[d] \in Nat /\ atFirst[d] \in Nat /\ atSecond[d] \in Nat /\ before[d] \in {0, atFirst[d]}
    BY QueueStatusAssumption DEF QueueInv, QueueTypeOK
  <2>2. /\ bucketOf[d] = "downloading" => before[d] > atSecond[d]
        /\ bucketOf[d] = "stalled" => before[d] <= atSecond[d]
    BY DEF QueueInv
  <2> QED BY <2>1, <2>2
<1> QED BY QueueInvInit, QueueInvStep, <1>1, PTL DEF QueueSpec

(* The types of the queue, the samples and the buckets.                    *)
THEOREM QueueTypeCorrectness == QueueSpec => []QueueTypeOK
<1>1. QueueInv => QueueTypeOK
  BY DEF QueueInv
<1> QED BY QueueInvInit, QueueInvStep, <1>1, PTL DEF QueueSpec

-----------------------------------------------------------------------------
(* The settings of the panel (PanelSettings).                              *)

(* A patch's locals: what it has persisted is in the data it will answer.   *)
PatchLocals(q) ==
  /\ q.pc \in {"idle", "persist", "answered"}
  /\ q.data \in [SettingKey -> Setting]
  /\ DOMAIN q.patch \subseteq SettingKey /\ q.left \subseteq DOMAIN q.patch
  /\ \A k \in DOMAIN q.patch : q.patch[k] \in Setting
  /\ q.pc # "persist" => q.left = {}
  /\ \A k \in DOMAIN q.patch \ q.left : q.data[k] = q.patch[k]

(* The records a patch can be.                                             *)
PatchRecord ==
  [pc : {"idle", "persist", "answered"},
   patch : UNION {[K -> Setting] : K \in SUBSET SettingKey},
   left : SUBSET SettingKey, data : [SettingKey -> Setting]]

(* The row of every setting is the last value set, and each patch is in
   order.                                                                  *)
PatchInv ==
  /\ row = lastSet
  /\ row \in [SettingKey -> Setting]
  /\ patcher \in [Patcher -> PatchRecord]
  /\ \A p \in Patcher : PatchLocals(patcher[p])

(* A patch that has not started is in order.                               *)
LEMMA NoPatchFacts == NoPatch \in PatchRecord /\ PatchLocals(NoPatch)
<1>1. NoPatch.patch = << >> /\ DOMAIN NoPatch.patch = {}
  BY DEF NoPatch
<1>2. << >> \in [{} -> Setting]
  OBVIOUS
<1> QED BY <1>1, <1>2, SettingsAssumption DEF NoPatch, PatchRecord, PatchLocals

(* PanelSettings starts in order.                                          *)
LEMMA PatchInvInit == SettingsInit => PatchInv
<1> SUFFICES ASSUME SettingsInit PROVE PatchInv
  OBVIOUS
<1> QED BY NoPatchFacts, SettingsAssumption DEF SettingsInit, PatchInv

(* Every step of a patch, a restart of the panel and the remembered values
   keep it.                                                                *)
LEMMA PatchInvStep == PatchInv /\ [SettingsNext]_settingVars => PatchInv'
<1> SUFFICES ASSUME PatchInv, [SettingsNext]_settingVars PROVE PatchInv'
  OBVIOUS
<1> USE DEF PatchInv
<1>1. ASSUME NEW p \in Patcher, PatchStarts(p)
      PROVE  PatchInv'
  <2>1. PICK keys \in SUBSET SettingKey \ {{}} : \E patch \in [keys -> Setting] :
          patcher' = [patcher EXCEPT ![p] =
            [pc |-> "persist", patch |-> patch, left |-> keys, data |-> row]]
    BY <1>1 DEF PatchStarts
  <2>2. PICK patch \in [keys -> Setting] :
          patcher' = [patcher EXCEPT ![p] =
            [pc |-> "persist", patch |-> patch, left |-> keys, data |-> row]]
    BY <2>1
  <2> DEFINE q == [pc |-> "persist", patch |-> patch, left |-> keys, data |-> row]
  <2>3. q \in PatchRecord /\ PatchLocals(q)
    BY <2>2 DEF PatchRecord, PatchLocals
  <2> HIDE DEF q
  <2>4. patcher' = [patcher EXCEPT ![p] = q]
    BY <2>2 DEF q
  <2> QED BY <1>1, <2>3, <2>4 DEF PatchStarts
<1>2. ASSUME NEW p \in Patcher, NEW k \in SettingKey, Persists(p, k)
      PROVE  PatchInv'
  <2> DEFINE q == [patcher[p] EXCEPT !.left = @ \ {k}, !.data[k] = patcher[p].patch[k]]
  <2>1. patcher[p] \in PatchRecord /\ PatchLocals(patcher[p]) /\ k \in patcher[p].left
        /\ patcher[p].pc = "persist"
    BY <1>2 DEF Persists
  <2>2. patcher[p].patch[k] \in Setting
    BY <2>1 DEF PatchLocals
  <2>3. q \in PatchRecord /\ q.patch = patcher[p].patch /\ q.left = patcher[p].left \ {k}
        /\ q.data = [patcher[p].data EXCEPT ![k] = patcher[p].patch[k]] /\ q.pc = "persist"
    BY <2>1, <2>2 DEF PatchRecord
  <2>4. PatchLocals(q)
    BY <2>1, <2>2, <2>3 DEF PatchLocals
  <2>5. patcher' = [patcher EXCEPT ![p] = q]
    BY <1>2 DEF Persists
  <2> HIDE DEF q
  <2> QED BY <1>2, <2>2, <2>3, <2>4, <2>5 DEF Persists, Persisted
<1>3. ASSUME NEW p \in Patcher, PatchAnswers(p) \/ PatchForgotten(p)
      PROVE  PatchInv'
  <2> DEFINE q == [patcher[p] EXCEPT !.pc = "answered"]
  <2>1. patcher[p] \in PatchRecord /\ PatchLocals(patcher[p])
    BY <1>3
  <2>2. CASE PatchAnswers(p)
    <3>1. q \in PatchRecord /\ q.patch = patcher[p].patch /\ q.left = patcher[p].left
          /\ q.data = patcher[p].data /\ q.pc = "answered"
      BY <2>1 DEF PatchRecord
    <3>2. PatchLocals(q)
      BY <2>1, <2>2, <3>1 DEF PatchLocals, PatchAnswers
    <3>3. patcher' = [patcher EXCEPT ![p] = q]
      BY <2>2 DEF PatchAnswers
    <3> HIDE DEF q
    <3> QED BY <2>2, <3>1, <3>2, <3>3 DEF PatchAnswers
  <2>3. CASE PatchForgotten(p)
    BY <2>3, NoPatchFacts DEF PatchForgotten
  <2> QED BY <1>3, <2>2, <2>3
<1>4. CASE PanelRestarts
  BY <1>4, NoPatchFacts DEF PanelRestarts
<1>5. ASSUME NEW v \in Remembered, LoadsRecent(v) \/ PersistsRecent(v)
      PROVE  PatchInv'
  BY <1>5 DEF LoadsRecent, PersistsRecent
<1>6. CASE UNCHANGED settingVars
  BY <1>6 DEF settingVars
<1> QED BY <1>1, <1>2, <1>3, <1>4, <1>5, <1>6 DEF SettingsNext

(* Whatever patches overlap, the row is the last value set and an answered
   patch shows its own values (update_settings), for every set of settings,
   values and callers.                                                     *)
THEOREM PatchCorrectness == SettingsSpec => []PatchesDoNotUndoEachOther
<1>1. PatchInv => PatchesDoNotUndoEachOther
  BY DEF PatchInv, PatchLocals, PatchesDoNotUndoEachOther
<1> QED BY PatchInvInit, PatchInvStep, <1>1, PTL DEF SettingsSpec

(* The lists of remembered values: no value twice, and no more than Keep.    *)
RecentList(list) == list \in Seq(Remembered) /\ IsInjective(list) /\ Len(list) <= Keep

(* The list on file and the copies callers hold are such lists or stand for
   none; the one in DEFAULTS always is one.                                  *)
RecentInv ==
  /\ row \in [SettingKey -> Setting] /\ lastSet \in [SettingKey -> Setting]
  /\ recent = NoRow \/ RecentList(recent)
  /\ RecentList(defaults)
  /\ reader \in [Remembered -> {reader[v] : v \in Remembered}]
  /\ \A v \in Remembered : reader[v] \in {NotLoaded, NoRow} \/ RecentList(reader[v])

(* Removing a value from a list that has it once leaves every other value
   once, and the value nowhere.                                              *)
LEMMA RemoveFirstFacts ==
  ASSUME NEW list \in Seq(Remembered), IsInjective(list), NEW v \in Remembered
  PROVE  /\ RemoveFirst(list, v) \in Seq(Remembered)
         /\ IsInjective(RemoveFirst(list, v))
         /\ \A i \in DOMAIN RemoveFirst(list, v) : RemoveFirst(list, v)[i] # v
<1> DEFINE n == Len(list)
<1>1. n \in Nat /\ DOMAIN list = 1..n /\ \A i \in 1..n : list[i] \in Remembered
  BY LenProperties, ElementOfSeq
<1>2. \A i, j \in 1..n : list[i] = list[j] => i = j
  BY <1>1 DEF IsInjective
<1>3. CASE ~ \E i \in 1..n : list[i] = v
  BY <1>1, <1>3 DEF RemoveFirst
<1>4. ASSUME NEW i \in 1..n, list[i] = v
      PROVE  /\ RemoveFirst(list, v) \in Seq(Remembered)
             /\ IsInjective(RemoveFirst(list, v))
             /\ \A k \in DOMAIN RemoveFirst(list, v) : RemoveFirst(list, v)[k] # v
  <2> DEFINE front == SubSeq(list, 1, i - 1)
             back  == SubSeq(list, i + 1, n)
             rest  == front \o back
  <2>1. {k \in 1..n : list[k] = v} = {i}
    BY <1>2, <1>4
  <2>2. SelectInSeq(list, LAMBDA x : x = v) = i
    <3>1. Min({i}) = i
      BY <1>1 DEF Min
    <3> QED BY <2>1, <3>1 DEF SelectInSeq
  <2>3. RemoveFirst(list, v) = rest
    BY <1>4, <2>2 DEF RemoveFirst, RemoveAt
  <2>4. front \in Seq(Remembered) /\ Len(front) = i - 1 /\ \A k \in 1..(i - 1) : front[k] = list[k]
    BY <1>1, SubSeqProperties
  <2>5. /\ back \in Seq(Remembered) /\ Len(back) = n - i
        /\ \A k \in 1..(n - i) : back[k] = list[i + k]
    <3>1. i + 1 \in Int /\ n \in Int /\ \A k \in (i + 1)..n : list[k] \in Remembered
      BY <1>1
    <3>2. /\ back \in Seq(Remembered)
          /\ Len(back) = IF i + 1 <= n THEN n - (i + 1) + 1 ELSE 0
          /\ \A k \in 1..(n - (i + 1) + 1) : back[k] = list[(i + 1) + k - 1]
      BY <3>1, SubSeqProperties
    <3>a. i \in Nat /\ n \in Nat /\ i <= n /\ Len(back) = IF i + 1 <= n THEN n - (i + 1) + 1 ELSE 0
      BY <1>1, <3>2
    <3> HIDE DEF back, n
    <3>3. Len(back) = n - i
      BY <3>a
    <3>4. n - (i + 1) + 1 = n - i
      BY <3>a
    <3>5. ASSUME NEW k \in 1..(n - i)
          PROVE  back[k] = list[i + k]
      <4>1. (i + 1) + k - 1 = i + k
        BY <3>a
      <4> QED BY <3>2, <3>4, <4>1
    <3> QED BY <3>2, <3>3, <3>5
  <2> HIDE DEF front, back
  <2>6. /\ rest \in Seq(Remembered) /\ Len(rest) = n - 1
        /\ \A k \in 1..(n - 1) : rest[k] = IF k <= i - 1 THEN front[k] ELSE back[k - (i - 1)]
    <3>1. /\ rest \in Seq(Remembered) /\ Len(rest) = Len(front) + Len(back)
          /\ \A k \in 1..(Len(front) + Len(back)) :
               rest[k] = IF k <= Len(front) THEN front[k] ELSE back[k - Len(front)]
      BY <2>4, <2>5, ConcatProperties
    <3>2. Len(front) + Len(back) = n - 1 /\ Len(front) = i - 1
      BY <1>1, <2>4, <2>5
    <3> HIDE DEF rest
    <3> QED BY <3>1, <3>2
  <2>7. \A k \in 1..(n - 1) : rest[k] = IF k < i THEN list[k] ELSE list[k + 1]
    BY <1>1, <2>4, <2>5, <2>6
  <2>8. DOMAIN rest = 1..(n - 1)
    BY <2>6, LenProperties
  <2> HIDE DEF rest
  <2>9. \A k, l \in 1..(n - 1) : rest[k] = rest[l] => k = l
    BY <1>1, <1>2, <2>7
  <2>10. \A k \in 1..(n - 1) : rest[k] # v
    BY <1>1, <1>2, <1>4, <2>7
  <2> QED BY <2>3, <2>6, <2>8, <2>9, <2>10 DEF IsInjective
<1> QED BY <1>3, <1>4

(* A value remembered goes to the front, and the list stays in order.        *)
LEMMA RememberFacts ==
  ASSUME NEW list, RecentList(list), NEW v \in Remembered
  PROVE  RecentList(Remember(list, v))
<1> DEFINE rest    == RemoveFirst(list, v)
           toFront == <<v>> \o rest
           n       == IF Len(toFront) < Keep THEN Len(toFront) ELSE Keep
           kept    == SubSeq(toFront, 1, n)
<1>1. /\ rest \in Seq(Remembered) /\ IsInjective(rest)
      /\ \A i \in DOMAIN rest : rest[i] # v
  BY RemoveFirstFacts DEF RecentList
<1> HIDE DEF rest
<1>2. Len(rest) \in Nat /\ DOMAIN rest = 1..Len(rest)
  BY <1>1, LenProperties
<1>3. <<v>> \in Seq(Remembered) /\ Len(<<v>>) = 1 /\ <<v>>[1] = v
  OBVIOUS
<1>4. /\ toFront \in Seq(Remembered) /\ Len(toFront) = 1 + Len(rest)
      /\ \A i \in 1..(1 + Len(rest)) : toFront[i] = IF i <= 1 THEN <<v>>[i] ELSE rest[i - 1]
  BY <1>1, <1>3, ConcatProperties
<1>5. \A i \in 1..(1 + Len(rest)) : toFront[i] = IF i = 1 THEN v ELSE rest[i - 1]
  BY <1>2, <1>3, <1>4
<1>6. \A i \in 1..(1 + Len(rest)) : toFront[i] \in Remembered
  BY <1>2, <1>4, LenProperties
<1> HIDE DEF toFront
<1>7. \A i, j \in 1..(1 + Len(rest)) : toFront[i] = toFront[j] => i = j
  BY <1>1, <1>2, <1>5 DEF IsInjective
<1>8. n \in Nat /\ n <= 1 + Len(rest) /\ n <= Keep
  BY <1>2, <1>4, SettingsAssumption
<1> HIDE DEF n
<1>9. kept \in Seq(Remembered) /\ Len(kept) = n /\ \A i \in 1..n : kept[i] = toFront[i]
  BY <1>6, <1>8, <1>2, SubSeqProperties
<1> HIDE DEF kept
<1>10. DOMAIN kept = 1..n
  BY <1>9, LenProperties
<1>11. IsInjective(kept)
  BY <1>2, <1>7, <1>8, <1>9, <1>10 DEF IsInjective
<1>12. kept = Remember(list, v)
  BY DEF kept, n, toFront, rest, Remember
<1> QED BY <1>8, <1>9, <1>11, <1>12 DEF RecentList

(* The lists start empty or without a row.                                   *)
LEMMA RecentInvInit == SettingsInit => RecentInv
<1> SUFFICES ASSUME SettingsInit PROVE RecentInv
  OBVIOUS
<1>1. << >> \in Seq(Remembered) /\ Len(<< >>) = 0 /\ DOMAIN << >> = {}
  OBVIOUS
<1>2. RecentList(<< >>)
  BY <1>1, SettingsAssumption DEF RecentList, IsInjective
<1> QED BY <1>2, SettingsAssumption DEF SettingsInit, RecentInv

(* A step of a patch, a caller that loads or persists a list, and a restart
   keep them.                                                                *)
LEMMA RecentInvStep == PatchInv /\ RecentInv /\ [SettingsNext]_settingVars => RecentInv'
<1> SUFFICES ASSUME PatchInv, RecentInv, [SettingsNext]_settingVars PROVE RecentInv'
  OBVIOUS
<1> USE DEF RecentInv
<1>1. row' \in [SettingKey -> Setting] /\ lastSet' \in [SettingKey -> Setting]
  BY PatchInvStep DEF PatchInv
<1>2. RecentList(<< >>)
  <2>1. << >> \in Seq(Remembered) /\ Len(<< >>) = 0 /\ DOMAIN << >> = {}
    OBVIOUS
  <2> QED BY <2>1, SettingsAssumption DEF RecentList, IsInjective
<1>3. ASSUME NEW v \in Remembered, LoadsRecent(v)
      PROVE  RecentInv'
  BY <1>1, <1>3 DEF LoadsRecent
<1>4. ASSUME NEW v \in Remembered, PersistsRecent(v)
      PROVE  RecentInv'
  <2> DEFINE mine == IF reader[v] = NoRow THEN defaults ELSE reader[v]
  <2>1. RecentList(mine)
    BY <1>4 DEF PersistsRecent
  <2>2. RecentList(recent')
    BY <1>4, <2>1, RememberFacts DEF PersistsRecent
  <2> QED BY <1>1, <1>4, <2>2 DEF PersistsRecent
<1>5. CASE PanelRestarts
  BY <1>1, <1>2, <1>5 DEF PanelRestarts
<1>6. ASSUME NEW p \in Patcher,
             \/ PatchStarts(p) \/ PatchAnswers(p) \/ PatchForgotten(p)
             \/ \E k \in SettingKey : Persists(p, k)
      PROVE  RecentInv'
  BY <1>1, <1>6 DEF PatchStarts, PatchAnswers, PatchForgotten, Persists
<1>7. CASE UNCHANGED settingVars
  BY <1>7 DEF settingVars
<1> QED BY <1>3, <1>4, <1>5, <1>6, <1>7 DEF SettingsNext

(* However callers that remember values overlap, and whatever copies they
   hold, the list on file has no value twice and is never longer than keep
   (remember_value), for every set of values and every length.               *)
THEOREM SettingsTypeCorrectness == SettingsSpec => []SettingsTypeOK
<1>1. RecentInv => SettingsTypeOK
  <2> SUFFICES ASSUME RecentInv, NEW list \in {recent, defaults} \ {NoRow}
               PROVE  IsInjective(list) /\ ToSet(list) \subseteq Remembered /\ Len(list) <= Keep
    BY DEF RecentInv, SettingsTypeOK
  <2>1. RecentList(list)
    BY DEF RecentInv
  <2>2. \A i \in DOMAIN list : list[i] \in Remembered
    BY <2>1, LenProperties DEF RecentList
  <2> QED BY <2>1, <2>2 DEF RecentList, ToSet
<1>2. PatchInv /\ RecentInv /\ [SettingsNext]_settingVars => PatchInv' /\ RecentInv'
  BY PatchInvStep, RecentInvStep
<1> QED BY PatchInvInit, RecentInvInit, <1>1, <1>2, PTL DEF SettingsSpec

-----------------------------------------------------------------------------
(* Edits of the apps' configuration pages (ConfigEdits).                   *)

(* The records an editor can be.                                           *)
EditorRecord == [pc : {"idle", "get", "put"}, left : SUBSET PageApp, copy : PageType]

(* The app an editor visits next.                                          *)
Foremost(ahead) == CHOOSE a \in ahead : TRUE

(* A page nobody else edited is the copy, or the copy another editor put back. *)
Agrees(copy, p) == copy.other = p.other /\ p.setting \in {"due", "set"}

(* An editor about to write holds a copy in which the setting is still due.*)
HoldsCopy(l) == l.pc = "put" => l.left # {} /\ l.copy.setting = "due"

(* The copy of an editor agrees with page p, if p is the page of the app it
   visits.                                                                 *)
CopyAgrees(l, a, p) == l.pc = "put" /\ a = Foremost(l.left) => Agrees(l.copy, p)

(* On a page the owner left alone, every copy still agrees with the page.  *)
EditInv ==
  /\ EditTypeOK
  /\ \A e \in Editor :
       /\ HoldsCopy(editor[e])
       /\ \A a \in PageApp \ contested : CopyAgrees(editor[e], a, page[a])

(* A page is its setting and the rest of it.                               *)
LEMMA PageFacts ==
  ASSUME NEW p \in PageType
  PROVE  /\ p = [setting |-> p.setting, other |-> p.other]
         /\ \A s \in {"due", "set", "own"} :
              /\ [p EXCEPT !.setting = s] \in PageType
              /\ [p EXCEPT !.setting = s] = [setting |-> s, other |-> p.other]
BY DEF PageType

(* An editor may become l when l's copy agrees, and nobody else's copy is
   put out by the page it wrote.                                           *)
LEMMA Becoming ==
  ASSUME EditInv, NEW e \in Editor, NEW l \in EditorRecord, Becomes(e, l),
         kind' \in PageSetting \cup {"none"}, page' \in [PageApp -> PageType],
         HoldsCopy(l),
         \A a \in PageApp \ contested : CopyAgrees(l, a, page'[a]),
         \A f \in Editor \ {e} : \A a \in PageApp \ contested : CopyAgrees(editor[f], a, page'[a])
  PROVE  EditInv'
<1> USE DEF EditInv, EditTypeOK
<1>1. editor'[e] = l /\ \A f \in Editor \ {e} : editor'[f] = editor[f]
  BY DEF Becomes
<1>2. editor' \in [Editor -> EditorRecord] /\ contested' \subseteq Held'
  BY DEF Becomes, EditorRecord
<1>3. ASSUME NEW f \in Editor, NEW a \in PageApp \ contested' PROVE CopyAgrees(editor'[f], a, page'[a])
  <2> SUFFICES ASSUME editor'[f].pc = "put", a = Foremost(editor'[f].left)
               PROVE  CopyAgrees(editor'[f], a, page'[a])
    BY DEF CopyAgrees
  <2>1. a \in Held'
    BY DEF Held, Visits, Foremost
  <2>2. a \notin contested
    BY <2>1 DEF Becomes
  <2> QED BY <1>1, <2>2
<1> QED BY <1>1, <1>2, <1>3 DEF EditorRecord

(* No editor has started.                                                  *)
LEMMA EditInvInit == EditInit => EditInv
BY DEF EditInit, EditInv, EditTypeOK, HoldsCopy, CopyAgrees, Idle, Fresh, PageType, Held, PageSetting

(* An editor that is idle, or on its way to the next app, holds no copy.   *)
LEMMA LocalsFacts ==
  /\ Idle \in EditorRecord /\ HoldsCopy(Idle) /\ \A a, p : CopyAgrees(Idle, a, p)
  /\ \A ahead \in SUBSET PageApp : /\ Visiting(ahead) \in EditorRecord /\ HoldsCopy(Visiting(ahead))
                                 /\ \A a, p : CopyAgrees(Visiting(ahead), a, p)
BY DEF Idle, Visiting, Fresh, EditorRecord, PageType, HoldsCopy, CopyAgrees

(* A page that the owner edits is contested from then on.                  *)
LEMMA OwnerEditsKeeps == ASSUME EditInv, NEW a \in PageApp, OwnerEdits(a) PROVE EditInv'
<1> USE DEF EditInv, EditTypeOK
<1>1. /\ page' \in [PageApp -> PageType] /\ \A b \in PageApp : b # a => page'[b] = page[b]
      /\ contested' = (IF a \in Held THEN contested \cup {a} ELSE contested)
      /\ UNCHANGED <<kind, editor>>
  BY DEF OwnerEdits
<1>2. Held' = Held
  BY <1>1 DEF Held, Visits
<1>3. contested' \subseteq Held' /\ contested \subseteq contested'
  BY <1>1, <1>2
<1>4. ASSUME NEW e \in Editor, NEW b \in PageApp \ contested' PROVE CopyAgrees(editor[e], b, page'[b])
  <2>1. CASE b = a
    <3>1. a \notin Held
      BY <1>1, <2>1, <1>4
    <3> QED BY <3>1, <2>1 DEF Held, Visits, CopyAgrees, Foremost
  <2>2. CASE b # a
    BY <1>1, <1>3, <2>2
  <2> QED BY <2>1, <2>2
<1> QED BY <1>1, <1>3, <1>4

\* What an editor does to the pages: nothing, or the setting of the one it holds.

(* An editor writes the page it visits, or its write is lost.              *)
OnePut(e) ==
  /\ editor[e].pc = "put"
  /\ Puts(e, Visits(e)) \/ UNCHANGED page

(* A write puts back a page with the setting due as the same page with it
   set.                                                                    *)
LEMMA PutFacts ==
  ASSUME EditInv, NEW e \in Editor, OnePut(e)
  PROVE  /\ page' \in [PageApp -> PageType]
         /\ \A a \in PageApp \ contested : page'[a] # page[a] =>
              page[a].setting = "due" /\ page'[a] = [page[a] EXCEPT !.setting = "set"]
<1> USE DEF EditInv, EditTypeOK
<1> DEFINE v == Visits(e)
           c == editor[e].copy
<1>1. v \in PageApp /\ c \in PageType /\ v = Foremost(editor[e].left)
  BY DEF OnePut, HoldsCopy, EditorRecord, Visits, Foremost
<1>2. CASE Puts(e, v)
  <2>1. page' = [page EXCEPT ![v] = [c EXCEPT !.setting = "set"]]
    BY <1>2 DEF Puts
  <2> HIDE DEF v, c
  <2>2. [c EXCEPT !.setting = "set"] = [setting |-> "set", other |-> c.other]
        /\ [c EXCEPT !.setting = "set"] \in PageType
    BY <1>1, PageFacts
  <2>3. page' \in [PageApp -> PageType] /\ \A a \in PageApp : a # v => page'[a] = page[a]
    BY <2>1, <2>2
  <2>4. ASSUME v \notin contested, page'[v] # page[v]
        PROVE  page[v].setting = "due" /\ page'[v] = [page[v] EXCEPT !.setting = "set"]
    <3>1. Agrees(c, page[v])
      BY <1>1, <2>4 DEF OnePut, CopyAgrees, c
    <3>4. page[v] \in PageType
      BY <1>1
    <3>2. page[v] = [setting |-> page[v].setting, other |-> c.other]
          /\ [page[v] EXCEPT !.setting = "set"] = [setting |-> "set", other |-> c.other]
      BY <3>1, <3>4, PageFacts DEF Agrees
    <3>3. page'[v] = [setting |-> "set", other |-> c.other]
      BY <1>1, <2>1, <2>2
    <3> QED BY <2>4, <3>1, <3>2, <3>3 DEF Agrees
  <2> QED BY <2>3, <2>4
<1>3. CASE UNCHANGED page
  BY <1>3
<1> QED BY <1>2, <1>3 DEF OnePut

(* After such a write the copies of the other editors still agree.         *)
LEMMA OthersAgree ==
  ASSUME EditInv, NEW f \in Editor, NEW a \in PageApp \ contested,
         page'[a] # page[a] => page[a].setting = "due" /\ page'[a] = [page[a] EXCEPT !.setting = "set"]
  PROVE  CopyAgrees(editor[f], a, page'[a])
<1>1. page[a] \in PageType /\ CopyAgrees(editor[f], a, page[a])
  BY DEF EditInv, EditTypeOK
<1>2. [page[a] EXCEPT !.setting = "set"] = [setting |-> "set", other |-> page[a].other]
  BY <1>1, PageFacts
<1> QED BY <1>1, <1>2 DEF CopyAgrees, Agrees

\* One step of any of the three editors.

(* The steps of one editor.                                                *)
EditorStep(e) == EditStarts(e) \/ ReadsPage(e) \/ WritesPage(e) \/ BinAnswerLost(e) \/ EditEnds(e)

(* Every step of an editor keeps the invariant and only turns due into set.*)
LEMMA EditorStepFacts ==
  ASSUME EditInv, NEW e \in Editor, EditorStep(e)
  PROVE  /\ EditInv'
         /\ \A a \in PageApp \ contested : page'[a] # page[a] =>
              page[a].setting = "due" /\ page'[a] = [page[a] EXCEPT !.setting = "set"]
<1> USE DEF EditInv, EditTypeOK
<1>1. CASE EditStarts(e)
  <2>1. kind' \in PageSetting \cup {"none"} /\ page' = page
    BY <1>1 DEF EditStarts, PageSetting
  <2>2. PICK ahead \in Targets(kind') : Becomes(e, Visiting(ahead))
    BY <1>1 DEF EditStarts
  <2>3. ahead \in SUBSET PageApp
    BY <2>2 DEF Targets
  <2> QED BY <2>1, <2>2, <2>3, LocalsFacts, Becoming
<1>2. CASE ReadsPage(e)
  <2> DEFINE a == Visits(e)
             ahead == editor[e].left
             l == [pc |-> "put", left |-> ahead, copy |-> page[a]]
  <2>1. a \in PageApp /\ ahead \in SUBSET PageApp /\ a \in ahead /\ a = Foremost(ahead)
        /\ UNCHANGED <<kind, page>>
    BY <1>2 DEF ReadsPage, Visits, Foremost, EditorRecord
  <2>2. Becomes(e, Visiting(ahead \ {a})) \/ (~AlreadySet(page[a]) /\ Becomes(e, l))
    BY <1>2 DEF ReadsPage
  <2> HIDE DEF a, ahead
  <2>3. CASE Becomes(e, Visiting(ahead \ {a}))
    <3>1. ahead \ {a} \in SUBSET PageApp
      BY <2>1
    <3> QED BY <2>1, <2>3, <3>1, LocalsFacts, Becoming
  <2>4. CASE ~AlreadySet(page[a]) /\ Becomes(e, l)
    <3>1. l \in EditorRecord /\ HoldsCopy(l) /\ \A b \in PageApp : CopyAgrees(l, b, page'[b])
      BY <2>1, <2>4 DEF EditorRecord, HoldsCopy, CopyAgrees, Agrees, AlreadySet
    <3> HIDE DEF l
    <3> QED BY <2>1, <2>4, <3>1, Becoming
  <2> QED BY <2>2, <2>3, <2>4
<1>3. CASE WritesPage(e) \/ BinAnswerLost(e) \/ EditEnds(e)
  <2>1. UNCHANGED kind /\ (OnePut(e) \/ UNCHANGED page)
    BY <1>3 DEF WritesPage, BinAnswerLost, EditEnds, OnePut
  <2>2. PICK l \in {Idle} \cup {Visiting(ahead) : ahead \in SUBSET PageApp} : Becomes(e, l)
    BY <1>3 DEF WritesPage, BinAnswerLost, EditEnds, EditorRecord
  <2>3. l \in EditorRecord /\ HoldsCopy(l) /\ \A a, p : CopyAgrees(l, a, p)
    BY LocalsFacts
  <2>4. /\ page' \in [PageApp -> PageType]
        /\ \A a \in PageApp \ contested : page'[a] # page[a] =>
             page[a].setting = "due" /\ page'[a] = [page[a] EXCEPT !.setting = "set"]
    BY <2>1, PutFacts
  <2>5. \A f \in Editor \ {e} : \A a \in PageApp \ contested : CopyAgrees(editor[f], a, page'[a])
    BY <2>4, OthersAgree
  <2> QED BY <2>1, <2>2, <2>3, <2>4, <2>5, Becoming
<1> QED BY <1>1, <1>2, <1>3 DEF EditorStep

(* The next-state relation, in these steps.                                *)
LEMMA EditNextSteps ==
  EditNext <=>
    \/ \E a \in PageApp : OwnerEdits(a)
    \/ \E e \in Editor : \/ EditStarts(e) \/ EnableRecycleBin(e) \/ ResetLogLevels(e)
                         \/ DisableAutoRedownload(e) \/ EditEnds(e)
BY DEF EditNext

(* Every step keeps the invariant.                                         *)
LEMMA EditInvStep == EditInv /\ [EditNext]_editVars => EditInv'
<1>1. ASSUME EditInv, UNCHANGED editVars PROVE EditInv'
  <2>1. Held' = Held
    BY <1>1 DEF editVars, Held, Visits
  <2>2. UNCHANGED <<kind, page, editor, contested>>
    BY <1>1 DEF editVars
  <2> QED BY <1>1, <2>1, <2>2 DEF EditInv, EditTypeOK
<1>2. ASSUME EditInv, NEW e \in Editor, EditStarts(e) \/ EnableRecycleBin(e) \/ ResetLogLevels(e)
                       \/ DisableAutoRedownload(e) \/ EditEnds(e)
      PROVE EditorStep(e)
  BY <1>2 DEF EnableRecycleBin, ResetLogLevels, DisableAutoRedownload, EditorStep
<1> QED BY <1>1, <1>2, EditorStepFacts, OwnerEditsKeeps, EditNextSteps

(* Every step that changes an uncontested page turns due into set.         *)
LEMMA EditsConfinedStep ==
  ASSUME EditInv, [EditNext]_editVars, NEW a \in PageApp \ contested,
         editor' # editor, page'[a] # page[a]
  PROVE  page[a].setting = "due" /\ page'[a] = [page[a] EXCEPT !.setting = "set"]
<1>1. PICK e \in Editor : EditorStep(e)
  BY DEF EditNext, editVars, OwnerEdits, EnableRecycleBin, ResetLogLevels, DisableAutoRedownload, EditorStep
<1> QED BY <1>1, EditorStepFacts

(* An editor changes a page only from due to set, whoever else edits it
   (enable_recycle_bin, reset_log_levels, disable_autoredownload_if_storm),
   for every set of apps and editors.                                      *)
THEOREM EditCorrectness == EditSpec => EditsAreConfined
<1>1. EditInv /\ [EditNext]_editVars =>
       [\A a \in PageApp \ contested :
       editor' # editor /\ page'[a] # page[a] =>
         /\ page[a].setting = "due"
         /\ page'[a] = [page[a] EXCEPT !.setting = "set"]]_editVars
  BY EditsConfinedStep
<1> QED BY EditInvInit, EditInvStep, <1>1, PTL DEF EditSpec, EditsAreConfined

(* The types of the pages and of the editors.                              *)
THEOREM EditTypeCorrectness == EditSpec => []EditTypeOK
<1>1. EditInv => EditTypeOK
  BY DEF EditInv
<1> QED BY EditInvInit, EditInvStep, <1>1, PTL DEF EditSpec

-----------------------------------------------------------------------------
(* The provisioning scripts (Provisioning).                                *)

(* What the script found is still so, unless the database was rebuilt or the
   backend removed under it; and no instance is passed by without a failure. *)
RunInv ==
  /\ Running("cleanuparr", "write") => left # {} /\ seen \in {0, 1} /\ (seen = 0 => rows[Visited] = 0)
  /\ script = "cleanuparr" /\ ~failures /\ ~rebuilt => Instance \ left \subseteq wired
  /\ Running("watchstate", "add") => backend = 0
  /\ Running("watchstate", "hook") => seen # 0 /\ backend \in {0, seen}

(* Types of the places of the two scripts and of what they provision.      *)
PlaceTypes ==
  /\ rows \in [Instance -> Nat] /\ wired \subseteq Instance /\ hunting \subseteq Instance
  /\ left \subseteq Instance
  /\ script \in {"none", "cleanuparr", "watchstate"}
  /\ step \in {"none", "look", "write", "list", "add", "hook", "done"}
  /\ seen \in 0..MaxToken /\ backend \in 0..MaxToken /\ issued \in 0..MaxToken /\ hook \in 0..MaxToken

(* Types of the flags.                                                     *)
FlagTypes ==
  failures \in BOOLEAN /\ rebuilt \in BOOLEAN /\ clean \in BOOLEAN /\ detached \in BOOLEAN

(* What is checked, and what the running script knows.                     *)
ProvisionInv == PlaceTypes /\ FlagTypes /\ RunInv /\ RerunsConverge

(* Nothing is provisioned and no script runs.                              *)
LEMMA ProvisionInvInit == ProvisionInit => ProvisionInv
<1> SUFFICES ASSUME ProvisionInit PROVE ProvisionInv
  OBVIOUS
<1> USE ProvisionAssumption DEF ProvisionInit
<1>1. PlaceTypes
  BY DEF PlaceTypes
<1>4. FlagTypes
  BY DEF FlagTypes
<1>2. RunInv
  BY DEF RunInv, Running
<1>3. RerunsConverge
  BY DEF RerunsConverge, InstancesConverge, WebhookIsNotOrphaned, Running
<1> QED BY <1>1, <1>2, <1>3, <1>4 DEF ProvisionInv

(* What happens around cleanuparr and its script keeps it.                 *)
LEMMA CleanuparrStep ==
  ASSUME ProvisionInv,
         \/ \E n \in Instance : LooksUpInstance(n) \/ WritesInstance(n) \/ InstanceAnswerLost(n)
         \/ DatabaseRebuilt \/ ProvisionStarts \/ ProvisionReturns
  PROVE  ProvisionInv'
<1> USE ProvisionAssumption DEF ProvisionInv, PlaceTypes, FlagTypes, RunInv, RerunsConverge,
       InstancesConverge, WebhookIsNotOrphaned, Running, cleanuparr, watchstate
<1>1. ASSUME NEW n \in Instance, LooksUpInstance(n) PROVE ProvisionInv'
  <2>1. /\ script = "cleanuparr" /\ left # {} /\ n = Visited /\ n \in left
        /\ UNCHANGED <<rows, wired, hunting, rebuilt, backend, issued, hook, detached, script, clean>>
    BY <1>1 DEF LooksUpInstance, Visited
  <2>2. CASE seen' = Existing(n) /\ step' = "write" /\ UNCHANGED <<left, failures>>
    <3>1. Visited' = n
      BY <2>1, <2>2 DEF Visited
    <3>2. seen' \in 0..MaxToken /\ seen' \in {0, 1} /\ (seen' = 0 => rows[n] = 0)
      BY <2>2 DEF Existing
    <3> QED BY <2>1, <2>2, <3>1, <3>2
  <2>3. CASE failures' = TRUE /\ left' = left \ {n} /\ UNCHANGED <<seen, step>>
    BY <1>1, <2>1, <2>3 DEF LooksUpInstance
  <2> QED BY <1>1, <2>2, <2>3 DEF LooksUpInstance
<1>2. ASSUME NEW n \in Instance, WritesInstance(n) PROVE ProvisionInv'
  <2>1. PlaceTypes'
    BY <1>2 DEF WritesInstance, StoresInstance
  <2>4. FlagTypes'
    BY <1>2 DEF WritesInstance, StoresInstance
  <2>2. RunInv'
    BY <1>2 DEF WritesInstance, StoresInstance
  <2>3. RerunsConverge'
    <3>1. n = Visited /\ rows[n] \in Nat /\ seen \in {0, 1} /\ (seen = 0 => rows[n] = 0)
      BY <1>2 DEF WritesInstance
    <3>2. rows' = rows \/ (rows[n] = 0 /\ rows' = [rows EXCEPT ![n] = @ + 1])
      BY <1>2, <3>1 DEF WritesInstance, StoresInstance
    <3>3. \A m \in Instance : rows'[m] <= 1
      BY <3>1, <3>2
    <3>4. clean' => wired' = Instance
      BY <1>2 DEF WritesInstance
    <3>5. WebhookIsNotOrphaned'
      BY <1>2 DEF WritesInstance
    <3> QED BY <3>3, <3>4, <3>5
  <2> QED BY <2>1, <2>2, <2>3, <2>4
<1>3. ASSUME NEW n \in Instance, InstanceAnswerLost(n) PROVE ProvisionInv'
  <2>1. PlaceTypes'
    BY <1>3 DEF InstanceAnswerLost, StoresInstance, Ended
  <2>4. FlagTypes'
    BY <1>3 DEF InstanceAnswerLost, StoresInstance, Ended
  <2>2. RunInv'
    BY <1>3 DEF InstanceAnswerLost, StoresInstance, Ended
  <2>3. RerunsConverge'
    <3>1. n = Visited /\ rows[n] \in Nat /\ seen \in {0, 1} /\ (seen = 0 => rows[n] = 0)
      BY <1>3 DEF InstanceAnswerLost
    <3>2. rows' = rows \/ (rows[n] = 0 /\ rows' = [rows EXCEPT ![n] = @ + 1])
      BY <1>3, <3>1 DEF InstanceAnswerLost, StoresInstance, Ended
    <3>3. \A m \in Instance : rows'[m] <= 1
      BY <3>1, <3>2
    <3>4. clean' => wired' = Instance
      BY <1>3 DEF InstanceAnswerLost, Ended
    <3>5. WebhookIsNotOrphaned'
      BY <1>3 DEF InstanceAnswerLost, Ended
    <3> QED BY <3>3, <3>4, <3>5
  <2> QED BY <2>1, <2>2, <2>3, <2>4
<1>4. CASE DatabaseRebuilt
  <2>1. PlaceTypes'
    BY <1>4 DEF DatabaseRebuilt, Visited
  <2>4. FlagTypes'
    BY <1>4 DEF DatabaseRebuilt, Visited
  <2>2. RunInv'
    BY <1>4 DEF DatabaseRebuilt, Visited
  <2>3. RerunsConverge'
    BY <1>4 DEF DatabaseRebuilt, Visited
  <2> QED BY <2>1, <2>2, <2>3, <2>4
<1>5. CASE ProvisionStarts
  <2>1. PlaceTypes'
    BY <1>5 DEF ProvisionStarts
  <2>4. FlagTypes'
    BY <1>5 DEF ProvisionStarts
  <2>2. RunInv'
    BY <1>5 DEF ProvisionStarts
  <2>3. RerunsConverge'
    BY <1>5 DEF ProvisionStarts
  <2> QED BY <2>1, <2>2, <2>3, <2>4
<1>6. CASE ProvisionReturns
  <2>1. PlaceTypes'
    BY <1>6 DEF ProvisionReturns, ExitsZero, Ended
  <2>4. FlagTypes'
    BY <1>6 DEF ProvisionReturns, ExitsZero, Ended
  <2>2. RunInv'
    BY <1>6 DEF ProvisionReturns, ExitsZero, Ended
  <2>3. RerunsConverge'
    BY <1>6 DEF ProvisionReturns, ExitsZero, Ended
  <2> QED BY <2>1, <2>2, <2>3, <2>4
<1> QED BY <1>1, <1>2, <1>3, <1>4, <1>5, <1>6

(* What happens around WatchState and its script keeps it.                 *)
LEMMA WatchStateStep ==
  ASSUME ProvisionInv,
         \/ RemovesBackend \/ WatchStarts \/ ListsBackends
         \/ AddsBackend \/ AddAnswerLost \/ RegistersWebhook \/ HookAnswerLost \/ WatchReturns
  PROVE  ProvisionInv'
<1> USE ProvisionAssumption DEF ProvisionInv, PlaceTypes, FlagTypes, RunInv, RerunsConverge,
       InstancesConverge, WebhookIsNotOrphaned, Running, cleanuparr, watchstate
<1>1. CASE RemovesBackend
  <2>1. PlaceTypes'
    BY <1>1 DEF RemovesBackend, Visited
  <2>4. FlagTypes'
    BY <1>1 DEF RemovesBackend, Visited
  <2>2. RunInv'
    BY <1>1 DEF RemovesBackend, Visited
  <2>3. RerunsConverge'
    BY <1>1 DEF RemovesBackend, Visited
  <2> QED BY <2>1, <2>2, <2>3, <2>4
<1>2. CASE WatchStarts
  <2>1. PlaceTypes'
    BY <1>2 DEF WatchStarts
  <2>4. FlagTypes'
    BY <1>2 DEF WatchStarts
  <2>2. RunInv'
    BY <1>2 DEF WatchStarts
  <2>3. RerunsConverge'
    BY <1>2 DEF WatchStarts
  <2> QED BY <2>1, <2>2, <2>3, <2>4
<1>3. CASE ListsBackends
  <2>1. PlaceTypes'
    BY <1>3 DEF ListsBackends, FoundBackend
  <2>4. FlagTypes'
    BY <1>3 DEF ListsBackends, FoundBackend
  <2>2. RunInv'
    BY <1>3 DEF ListsBackends, FoundBackend
  <2>3. RerunsConverge'
    BY <1>3 DEF ListsBackends, FoundBackend
  <2> QED BY <2>1, <2>2, <2>3, <2>4
<1>4. CASE AddsBackend
  <2>1. PlaceTypes'
    BY <1>4 DEF AddsBackend, Issues
  <2>4. FlagTypes'
    BY <1>4 DEF AddsBackend, Issues
  <2>2. RunInv'
    BY <1>4 DEF AddsBackend, Issues
  <2>3. RerunsConverge'
    BY <1>4 DEF AddsBackend, Issues
  <2> QED BY <2>1, <2>2, <2>3, <2>4
<1>5. CASE AddAnswerLost
  <2>1. PlaceTypes'
    BY <1>5 DEF AddAnswerLost, Issues, Ended
  <2>4. FlagTypes'
    BY <1>5 DEF AddAnswerLost, Issues, Ended
  <2>2. RunInv'
    BY <1>5 DEF AddAnswerLost, Issues, Ended
  <2>3. RerunsConverge'
    BY <1>5 DEF AddAnswerLost, Issues, Ended
  <2> QED BY <2>1, <2>2, <2>3, <2>4
<1>6. CASE RegistersWebhook
  <2>1. PlaceTypes'
    BY <1>6 DEF RegistersWebhook, Registers, GoesTo
  <2>4. FlagTypes'
    BY <1>6 DEF RegistersWebhook, Registers, GoesTo
  <2>2. RunInv'
    BY <1>6 DEF RegistersWebhook, Registers, GoesTo
  <2>3. RerunsConverge'
    BY <1>6 DEF RegistersWebhook, Registers, GoesTo
  <2> QED BY <2>1, <2>2, <2>3, <2>4
<1>7. CASE HookAnswerLost
  <2>1. PlaceTypes'
    BY <1>7 DEF HookAnswerLost, Registers, Ended
  <2>4. FlagTypes'
    BY <1>7 DEF HookAnswerLost, Registers, Ended
  <2>2. RunInv'
    BY <1>7 DEF HookAnswerLost, Registers, Ended
  <2>3. RerunsConverge'
    BY <1>7 DEF HookAnswerLost, Registers, Ended
  <2> QED BY <2>1, <2>2, <2>3, <2>4
<1>8. CASE WatchReturns
  <2>1. PlaceTypes'
    BY <1>8 DEF WatchReturns, Ended
  <2>4. FlagTypes'
    BY <1>8 DEF WatchReturns, Ended
  <2>2. RunInv'
    BY <1>8 DEF WatchReturns, Ended
  <2>3. RerunsConverge'
    BY <1>8 DEF WatchReturns, Ended
  <2> QED BY <2>1, <2>2, <2>3, <2>4
<1> QED BY <1>1, <1>2, <1>3, <1>4, <1>5, <1>6, <1>7, <1>8

(* Every step keeps it.                                                    *)
LEMMA ProvisionInvStep == ProvisionInv /\ [ProvisionNext]_provisionVars => ProvisionInv'
<1> USE ProvisionAssumption DEF ProvisionInv, PlaceTypes, FlagTypes, RunInv, RerunsConverge,
       InstancesConverge, WebhookIsNotOrphaned, Running
<1>1. ASSUME ProvisionInv, ScriptEnds PROVE ProvisionInv'
  <2>1. PlaceTypes'
    BY <1>1 DEF ScriptEnds, Ended, cleanuparr, watchstate
  <2>4. FlagTypes'
    BY <1>1 DEF ScriptEnds, Ended, cleanuparr, watchstate
  <2>2. RunInv'
    BY <1>1 DEF ScriptEnds, Ended, cleanuparr, watchstate
  <2>3. RerunsConverge'
    BY <1>1 DEF ScriptEnds, Ended, cleanuparr, watchstate
  <2> QED BY <2>1, <2>2, <2>3, <2>4
<1>2. ASSUME ProvisionInv, UNCHANGED provisionVars PROVE ProvisionInv'
  <2>1. PlaceTypes'
    BY <1>2 DEF provisionVars, cleanuparr, watchstate, Visited
  <2>4. FlagTypes'
    BY <1>2 DEF provisionVars, cleanuparr, watchstate, Visited
  <2>2. RunInv'
    BY <1>2 DEF provisionVars, cleanuparr, watchstate, Visited
  <2>3. RerunsConverge'
    BY <1>2 DEF provisionVars, cleanuparr, watchstate, Visited
  <2> QED BY <2>1, <2>2, <2>3, <2>4
<1> QED BY <1>1, <1>2, CleanuparrStep, WatchStateStep DEF ProvisionNext

(* Runs that died or lost an answer, and runs over what they left, neither
   double what is configured nor break it (both provisioning scripts), for
   every set of instances and number of tokens.                            *)
THEOREM ProvisionCorrectness == ProvisionSpec => []RerunsConverge
<1>1. ProvisionInv => RerunsConverge
  BY DEF ProvisionInv
<1> QED BY ProvisionInvInit, ProvisionInvStep, <1>1, PTL DEF ProvisionSpec

(* The types of what is provisioned and of the scripts.                    *)
THEOREM ProvisionTypeCorrectness == ProvisionSpec => []ProvisionTypeOK
<1>1. ProvisionInv => ProvisionTypeOK
  BY DEF ProvisionInv, PlaceTypes, FlagTypes, ProvisionTypeOK
<1> QED BY ProvisionInvInit, ProvisionInvStep, <1>1, PTL DEF ProvisionSpec

-----------------------------------------------------------------------------
(* The setup wizard (SetupWizard).                                         *)

(* .env says what the key was last given.                                  *)
Kept(k) == env[k] \in {meant[k], Shown(meant[k])}

(* A form in a tab shows what each key was last given, unless that was after
   the form was rendered or .env did not have it then.                     *)
FormShows(t) ==
  form[t] # NoLines =>
    \A k \in Key \ (stale[t] \cup overwritten) : form[t][k] = Shown(meant[k])

(* What a form being handled will write: the values entered in it, and of the
   other keys, but those it holds an older value of, what they were given. *)
WillWrite(k) ==
  /\ k \in entered => content[k] = posted[k]
  /\ k \notin entered \cup behind \cup overwritten => content[k] = Shown(meant[k])

(* The parts together.                                                     *)
WizardInv ==
  /\ WizardTypeOK
  /\ \A k \in Key \ overwritten : Kept(k)
  /\ \A t \in Tab : FormShows(t)
  /\ wizard = "writing" =>
       posted \in [Key -> Value \cup {Blank}] /\ content \in [Key -> Value] /\ \A k \in Key : WillWrite(k)

(* What is shown of a value, and the values an empty .env shows.           *)
LEMMA ShownFacts ==
  /\ \A v \in Value : Shown(v) = v
  /\ \A v \in Value \cup {Absent} : Shown(v) \in Value /\ Shown(Shown(v)) = Shown(v)
  /\ \A k : InitialValue(k) = Shown(env[k])
BY WizardAssumption DEF Shown, InitialValue

(* A key that .env has as it was given is rendered so.                     *)
LEMMA KeptFacts ==
  ASSUME WizardTypeOK, NEW k \in Key, Kept(k)
  PROVE  InitialValue(k) = Shown(meant[k])
BY ShownFacts DEF WizardTypeOK, Kept

(* The form over .env gives every key a value, whatever is blank.          *)
LEMMA MergedFacts ==
  ASSUME env \in [Key -> Value \cup {Absent}]
  PROVE  /\ [k \in Key |-> InitialValue(k)] \in [Key -> Value]
         /\ \A fields \in [Key -> Value \cup {Blank}] : Merged(fields) \in [Key -> Value]
BY WizardAssumption DEF Merged, InitialValue

(* The wizard starts on the .env that is there.                            *)
LEMMA WizardInvInit == WizardInit => WizardInv
<1> SUFFICES ASSUME WizardInit PROVE WizardInv
  OBVIOUS
<1>1. NoLines \in [Key -> Value \cup {Absent}]
  BY DEF NoLines
<1>2. WizardTypeOK
  BY <1>1 DEF WizardInit, WizardTypeOK
<1>3. (\A k \in Key : Kept(k)) /\ \A t \in Tab : FormShows(t)
  BY DEF WizardInit, Kept, FormShows
<1> QED BY <1>2, <1>3 DEF WizardInit, WizardInv

(* A key that is given a value is stale in every form that is out.         *)
LEMMA StalerFacts ==
  ASSUME WizardInv, NEW keys \in SUBSET Key, form' = form, stale' = Staler(keys),
         overwritten \subseteq overwritten' \cup keys,
         \A k \in Key \ keys : meant'[k] = meant[k]
  PROVE  stale' \in [Tab -> SUBSET Key] /\ \A t \in Tab : FormShows(t)'
<1> USE DEF WizardInv, WizardTypeOK
<1>1. stale' \in [Tab -> SUBSET Key]
  BY DEF Staler
<1>2. ASSUME NEW t \in Tab PROVE FormShows(t)'
  <2> SUFFICES ASSUME form[t] # NoLines, NEW k \in Key, k \notin stale'[t], k \notin overwritten'
               PROVE  form[t][k] = Shown(meant[k])'
    BY DEF FormShows, NoLines
  <2>1. stale'[t] = stale[t] \cup keys
    BY DEF Staler
  <2>2. k \notin stale[t] \cup overwritten /\ k \notin keys
    BY <2>1
  <2>3. form[t][k] = Shown(meant[k])
    BY <2>2 DEF FormShows
  <2> QED BY <2>2, <2>3 DEF Shown
<1> QED BY <1>1, <1>2

(* A hand edit of .env keeps it.                                           *)
LEMMA EditsEnvKeeps == ASSUME WizardInv, NEW k \in Key, EditsEnv(k) PROVE WizardInv'
<1> USE DEF WizardInv
<1>1. PICK v \in (Value \cup {Absent}) \ {env[k]} :
        env' = [env EXCEPT ![k] = v] /\ meant' = [meant EXCEPT ![k] = v]
  BY DEF EditsEnv
<1>2. /\ stale' = Staler({k}) /\ overwritten' = overwritten \ {k}
      /\ behind' = IF wizard = "writing" THEN behind \cup {k} ELSE behind
      /\ UNCHANGED <<form, wizard, posted, content, advice, hadKeys, entered>>
  BY DEF EditsEnv
<1>3. /\ env'[k] = v /\ meant'[k] = v
      /\ \A x \in Key \ {k} : env'[x] = env[x] /\ meant'[x] = meant[x]
      /\ env' \in [Key -> Value \cup {Absent}] /\ meant' \in [Key -> Value \cup {Absent}]
  BY <1>1 DEF WizardTypeOK
<1>4. stale' \in [Tab -> SUBSET Key] /\ \A t \in Tab : FormShows(t)'
  BY <1>2, <1>3, StalerFacts
<1>5. NoLines' = NoLines
  BY DEF NoLines
<1>6. WizardTypeOK'
  BY <1>2, <1>3, <1>4, <1>5 DEF WizardTypeOK
<1>7. ASSUME NEW x \in Key \ overwritten' PROVE Kept(x)'
  BY <1>2, <1>3 DEF Kept, Shown
<1>8. ASSUME wizard = "writing", NEW x \in Key PROVE WillWrite(x)'
  BY <1>2, <1>3, <1>8 DEF WillWrite, Shown
<1> QED BY <1>2, <1>4, <1>6, <1>7, <1>8

(* A form that is submitted will write what is entered in it.              *)
LEMMA SubmitsKeeps == ASSUME WizardInv, NEW t \in Tab, Submits(t) PROVE WizardInv'
<1> USE DEF WizardInv
<1>1. PICK k \in Key, v \in Value \cup {Blank} : posted' = [form[t] EXCEPT ![k] = v]
  BY DEF Submits
<1>2. /\ form[t] # NoLines /\ content' = Merged(posted') /\ hadKeys' = HasKeys(env)
      /\ wizard' = "writing" /\ form' = [form EXCEPT ![t] = NoLines]
      /\ entered' = {x \in Key : posted'[x] \notin {form[t][x], Blank}}
      /\ behind' = {x \in stale[t] : posted'[x] = form[t][x]}
      /\ stale' = [stale EXCEPT ![t] = {}]
      /\ UNCHANGED <<env, advice, meant, overwritten>>
  BY DEF Submits
<1>3. form[t] \in [Key -> Value] /\ posted' \in [Key -> Value \cup {Blank}]
  BY <1>1, <1>2 DEF WizardTypeOK
<1>4. content' \in [Key -> Value]
  BY <1>2, <1>3, MergedFacts DEF WizardTypeOK
<1>5. NoLines' = NoLines
  BY DEF NoLines
<1>6. WizardTypeOK'
  <2>1. hadKeys' \in BOOLEAN
    BY <1>2 DEF HasKeys
  <2>2. /\ form' \in [Tab -> [Key -> Value] \cup {NoLines}] /\ stale' \in [Tab -> SUBSET Key]
        /\ entered' \cup behind' \cup overwritten' \subseteq Key
    BY <1>2 DEF WizardTypeOK
  <2> QED BY <1>2, <1>3, <1>4, <1>5, <2>1, <2>2 DEF WizardTypeOK
<1>7. ASSUME NEW u \in Tab PROVE FormShows(u)'
  <2>1. u = t => form'[u] = NoLines'
    BY <1>2, <1>5 DEF WizardTypeOK
  <2>2. u # t => form'[u] = form[u] /\ stale'[u] = stale[u]
    BY <1>2 DEF WizardTypeOK
  <2> QED BY <1>2, <1>5, <2>1, <2>2 DEF FormShows, Shown
<1>8. ASSUME NEW x \in Key PROVE WillWrite(x)'
  <2>1. content'[x] = IF posted'[x] = Blank THEN InitialValue(x) ELSE posted'[x]
    BY <1>2 DEF Merged
  <2>2. x \in entered' => content'[x] = posted'[x]
    BY <1>2, <2>1
  <2>3. ASSUME x \notin entered' \cup behind' \cup overwritten' PROVE content'[x] = Shown(meant[x])
    <3>1. CASE posted'[x] = Blank
      <4>1. Kept(x)
        BY <1>2, <2>3
      <4> QED BY <2>1, <3>1, <4>1, KeptFacts
    <3>2. CASE posted'[x] # Blank
      <4>1. posted'[x] = form[t][x] /\ x \notin stale[t] \cup overwritten
        BY <1>2, <2>3, <3>2
      <4> QED BY <1>2, <2>1, <3>2, <4>1 DEF FormShows
    <3> QED BY <3>1, <3>2
  <2> QED BY <1>2, <2>2, <2>3 DEF WillWrite, Shown
<1>9. \A x \in Key \ overwritten' : Kept(x)'
  BY <1>2 DEF Kept, Shown
<1> QED BY <1>3, <1>4, <1>6, <1>7, <1>8, <1>9

(* What is written over .env is what the keys were given.                  *)
LEMMA ReplacesEnvKeeps == ASSUME WizardInv, ReplacesEnv PROVE WizardInv'
<1> USE DEF WizardInv
<1>1. /\ wizard = "writing" /\ wizard' = "answering" /\ env' = content
      /\ advice' \in {"recreate", "up"}
      /\ posted' = NoLines /\ content' = NoLines /\ hadKeys' = FALSE
      /\ meant' = [k \in Key |-> IF k \in entered THEN posted[k] ELSE meant[k]]
      /\ stale' = Staler(entered)
      /\ overwritten' = (overwritten \cup behind) \ entered
      /\ entered' = {} /\ behind' = {} /\ form' = form
  BY DEF ReplacesEnv
<1>2. content \in [Key -> Value] /\ \A k \in Key : WillWrite(k)
  BY <1>1
<1>3. meant' \in [Key -> Value \cup {Absent}]
  BY <1>1, <1>2 DEF WizardTypeOK, WillWrite
<1>4. \A k \in Key \ entered : meant'[k] = meant[k]
  BY <1>1
<1>5. stale' \in [Tab -> SUBSET Key] /\ \A t \in Tab : FormShows(t)'
  <2>1. entered \in SUBSET Key /\ overwritten \subseteq overwritten' \cup entered
    BY <1>1 DEF WizardTypeOK
  <2> QED BY <1>1, <1>4, <2>1, StalerFacts
<1>6. NoLines' = NoLines
  BY DEF NoLines
<1>7. WizardTypeOK'
  BY <1>1, <1>2, <1>3, <1>5, <1>6 DEF WizardTypeOK
<1>8. ASSUME NEW k \in Key \ overwritten' PROVE Kept(k)'
  <2>1. CASE k \in entered
    BY <1>1, <1>2, <2>1 DEF WillWrite, Kept
  <2>2. CASE k \notin entered
    <3>1. env'[k] = Shown(meant[k]) /\ meant'[k] = meant[k]
      BY <1>1, <1>2, <2>2 DEF WillWrite
    <3> QED BY <3>1 DEF Kept, Shown
  <2> QED BY <2>1, <2>2
<1> QED BY <1>1, <1>5, <1>7, <1>8

(* Every step of the tabs, the wizard and a hand edit keeps it.            *)
LEMMA WizardInvStep == WizardInv /\ [WizardNext]_wizardVars => WizardInv'
<1> SUFFICES ASSUME WizardInv, [WizardNext]_wizardVars PROVE WizardInv'
  OBVIOUS
<1> USE DEF WizardInv
<1>n. NoLines' = NoLines
  BY DEF NoLines
<1>1. ASSUME NEW t \in Tab, RendersForm(t) PROVE WizardInv'
  <2> DEFINE fields == [k \in Key |-> InitialValue(k)]
  <2>1. fields \in [Key -> Value] /\ \A k \in Key : fields[k] = InitialValue(k)
    BY MergedFacts DEF WizardTypeOK
  <2>2. /\ form' = [form EXCEPT ![t] = fields] /\ stale' = [stale EXCEPT ![t] = {}]
        /\ UNCHANGED <<env, wizard, posted, content, advice, hadKeys, meant, entered, behind, overwritten>>
        /\ wizard # "writing"
    BY <1>1 DEF RendersForm
  <2> HIDE DEF fields
  <2>3. WizardTypeOK'
    BY <1>n, <2>1, <2>2 DEF WizardTypeOK
  <2>4. ASSUME NEW u \in Tab PROVE FormShows(u)'
    <3>1. CASE u = t
      <4>1. form'[u] = fields /\ \A k \in Key \ overwritten : fields[k] = Shown(meant[k])
        BY <2>1, <2>2, <3>1, KeptFacts DEF WizardTypeOK
      <4> QED BY <2>2, <4>1 DEF FormShows, Shown
    <3>2. CASE u # t
      <4>1. form'[u] = form[u] /\ stale'[u] = stale[u]
        BY <2>2, <3>2 DEF WizardTypeOK
      <4> QED BY <1>n, <2>2, <4>1 DEF FormShows, Shown
    <3> QED BY <3>1, <3>2
  <2>5. \A k \in Key \ overwritten' : Kept(k)'
    BY <2>2 DEF Kept, Shown
  <2> QED BY <2>2, <2>3, <2>4, <2>5
<1>2. CASE WizardStarts \/ AnswersForm
  <2>1. /\ wizard' \in {"serving", "stopping"}
        /\ UNCHANGED <<env, form, posted, content, advice, hadKeys, meant, stale, entered, behind, overwritten>>
    BY <1>2 DEF WizardStarts, AnswersForm, givenVars
  <2> QED BY <1>n, <2>1 DEF WizardTypeOK, Kept, FormShows, Shown
<1>3. CASE WizardEnds
  <2>1. /\ wizard' = "down" /\ advice' = "none"
        /\ posted' = NoLines /\ content' = NoLines /\ hadKeys' = FALSE
        /\ entered' = {} /\ behind' = {} /\ UNCHANGED <<env, form, meant, stale, overwritten>>
    BY <1>3 DEF WizardEnds
  <2> QED BY <1>n, <2>1 DEF WizardTypeOK, Kept, FormShows, Shown
<1>4. CASE UNCHANGED wizardVars
  <2>1. /\ UNCHANGED <<env, form, wizard, posted, content, advice, hadKeys>>
        /\ UNCHANGED <<meant, stale, entered, behind, overwritten>>
    BY <1>4 DEF wizardVars, givenVars
  <2>2. WizardTypeOK'
    BY <1>n, <2>1 DEF WizardTypeOK
  <2>3. (\A k \in Key \ overwritten' : Kept(k)') /\ \A t \in Tab : FormShows(t)'
    BY <1>n, <2>1 DEF Kept, FormShows, Shown
  <2>4. \A k \in Key : WillWrite(k) => WillWrite(k)'
    BY <2>1 DEF WillWrite, Shown
  <2> QED BY <2>1, <2>2, <2>3, <2>4
<1> QED BY <1>1, <1>2, <1>3, <1>4, EditsEnvKeeps, SubmitsKeeps, ReplacesEnvKeeps DEF WizardNext

(* .env holds for each key the value last given to it, in a form or by hand,
   unless a form rendered before it was given, or one being handled when it
   was written by hand, has overwritten it (render_env_file,
   write_env_atomic), for every set of keys, values and tabs.              *)
THEOREM WizardCorrectness == WizardSpec => []AnswersAreKept
<1>1. WizardInv => AnswersAreKept
  BY DEF WizardInv, Kept, AnswersAreKept
<1> QED BY WizardInvInit, WizardInvStep, <1>1, PTL DEF WizardSpec

(* The types of .env, of the forms and of the wizard.                      *)
THEOREM WizardTypeCorrectness == WizardSpec => []WizardTypeOK
<1>1. WizardInv => WizardTypeOK
  BY DEF WizardInv
<1> QED BY WizardInvInit, WizardInvStep, <1>1, PTL DEF WizardSpec

-----------------------------------------------------------------------------
(* The installer of the Fish functions (FishInstall).                      *)

(* While only the run changes anything, every name is as it should be or on one
   of the run's lists.                                                         *)
InstallInv ==
  /\ FishTypeOK
  /\ installPc # "apply" => toLink = {} /\ toPrune = {}
  /\ installPc \in {"apply", "done"} /\ still =>
       /\ toLink \subseteq sources /\ toPrune \subseteq Command \ sources
       /\ \A n \in sources : installed[n] = "link" \/ n \in toLink
       /\ \A n \in Command \ sources : ~Present(n) \/ n \in toPrune
       /\ \A n \in Helper \ sources : installed[n] = planned[n]

(* No run has planned anything.                                            *)
LEMMA InstallInvInit == FishInit => InstallInv
BY DEF FishInit, InstallInv, FishTypeOK, Kind

(* Every step of a run, of the repository and of a user keeps it.          *)
LEMMA InstallInvStep == InstallInv /\ [FishNext]_fishVars => InstallInv'
<1> SUFFICES ASSUME InstallInv, [FishNext]_fishVars PROVE InstallInv'
  OBVIOUS
<1> USE FishAssumption DEF InstallInv, FishTypeOK, Kind, Name, Present
<1>1. ASSUME NEW n \in Name, RepoChanges(n) PROVE InstallInv'
  BY <1>1 DEF RepoChanges
<1>2. ASSUME NEW n \in Name, UserChanges(n) PROVE InstallInv'
  BY <1>2 DEF UserChanges, Changed
<1>3. ASSUME NEW n \in Name, Unlinks(n) PROVE InstallInv'
  BY <1>3 DEF Unlinks, Changed
<1>4. ASSUME NEW n \in Name, Links(n) PROVE InstallInv'
  BY <1>4 DEF Links, Changed
<1>5. ASSUME NEW n \in Name, Prunes(n) PROVE InstallInv'
  BY <1>5 DEF Prunes, Changed
<1>6. CASE Plans
  BY <1>6 DEF Plans, Keeps, Prunable
<1>7. CASE InstallReturns \/ InstallStops
  BY <1>7 DEF InstallReturns, InstallStops, InstallEnds
<1>8. CASE UNCHANGED fishVars
  BY <1>8 DEF fishVars
<1> QED BY <1>1, <1>2, <1>3, <1>4, <1>5, <1>6, <1>7, <1>8 DEF FishNext

(* A run under which nothing else changed leaves every source linked and no
   command without one (plan, apply, _is_prunable_name), for every set of
   commands and helpers.                                                   *)
THEOREM InstallCorrectness == FishSpec => []RunInstallsRepository
<1>1. InstallInv => RunInstallsRepository
  BY DEF InstallInv, RunInstallsRepository
<1> QED BY InstallInvInit, InstallInvStep, <1>1, PTL DEF FishSpec

(* The types of the directory and of the run's lists.                      *)
THEOREM FishTypeCorrectness == FishSpec => []FishTypeOK
<1>1. InstallInv => FishTypeOK
  BY DEF InstallInv
<1> QED BY InstallInvInit, InstallInvStep, <1>1, PTL DEF FishSpec

-----------------------------------------------------------------------------
(* The import of the toplists (ToplistsImport).                            *)

(* url t is still to be offered to app a by this run.                      *)
Ahead(a, t) == t \in urls \/ (importer = "targets" /\ current[1] = t /\ a \in targets)

(* What a run has not offered yet and did not read is not there, what it read
   is there still, and what it has offered is there: but for the owner's
   doing, and unless a registration failed.                                *)
ToplistInv ==
  /\ ToplistTypeOK
  /\ importer = "targets" => current \in Toplist \X ListTitle /\ current[1] \notin urls
  /\ exit # "none" => importer = "idle"
  /\ importer = "idle" => urls = {} /\ ~anyFailed
  /\ \A a \in ListApp, t \in Toplist :
       /\ ~HasRead(a) => existing[a] = {}
       /\ t \in wanted[a] => t \notin urls
       /\ \A n, o \in lists[a][t] : n = o \/ t \in doubled[a]
       /\ HasRead(a) /\ Ahead(a, t) /\ t \notin existing[a] =>
            lists[a][t] = {} \/ t \in doubled[a]
       /\ t \in existing[a] \ undone[a] => lists[a][t] # {}
       /\ exit \in {"none", "0"} /\ ~dryRun /\ ~anyFailed /\ t \in wanted[a] \ undone[a] =>
            lists[a][t] # {} \/ Ahead(a, t)

(* The empty history.                                                      *)
LEMMA NoUrlsFacts ==
  NoUrls \in [ListApp -> SUBSET Toplist] /\ \A a \in ListApp : NoUrls[a] = {}
BY DEF NoUrls

(* No run has begun and no app has a list.                                 *)
LEMMA ToplistInvInit == ToplistInit => ToplistInv
<1> SUFFICES ASSUME ToplistInit PROVE ToplistInv
  OBVIOUS
<1>1. /\ lists \in [ListApp -> [Toplist -> SUBSET ListName]]
      /\ \A a \in ListApp, t \in Toplist : lists[a][t] = {}
  BY DEF ToplistInit
<1>2. ToplistTypeOK
  BY <1>1, NoUrlsFacts DEF ToplistInit, ToplistTypeOK, Exit
<1> QED BY <1>1, <1>2, NoUrlsFacts DEF ToplistInit, ToplistInv, Ahead, HasRead

(* Every step of the owner and of a run keeps it.                          *)
LEMMA ToplistInvStep == ToplistInv /\ [ToplistNext]_toplistVars => ToplistInv'
<1> SUFFICES ASSUME ToplistInv, [ToplistNext]_toplistVars PROVE ToplistInv'
  OBVIOUS
<1> USE ToplistAssumption DEF ToplistInv, ToplistTypeOK, Ahead, HasRead, Exit, AddTo
<1>1. ASSUME NEW a \in ListApp, NEW t \in Toplist, OwnerAddsList(a, t) PROVE ToplistInv'
  BY <1>1 DEF OwnerAddsList, theRun, ListName
<1>2. ASSUME NEW a \in ListApp, NEW t \in Toplist, OwnerRemovesList(a, t) PROVE ToplistInv'
  BY <1>2 DEF OwnerRemovesList, theRun
<1>3. CASE ScrapesToplists
  BY <1>3, NoUrlsFacts DEF ScrapesToplists
<1>4. ASSUME NEW a \in ListApp, ReadsLists(a) PROVE ToplistInv'
  BY <1>4 DEF ReadsLists, HasUrl, ListApp
<1>5. CASE LooksUpToplist
  <2>1. PICK t \in urls, title \in ListTitle, kinds \in SUBSET ListApp :
          /\ urls' = urls \ {t} /\ current' = <<t, title>> /\ targets' = kinds
          /\ importer' = IF kinds = {} THEN "loop" ELSE "targets"
          /\ wanted' = [a \in ListApp |-> wanted[a] \cup (IF a \in kinds THEN {t} ELSE {})]
    BY <1>5 DEF LooksUpToplist
  <2>2. /\ wanted' \in [ListApp -> SUBSET Toplist]
        /\ \A a \in ListApp : wanted'[a] = wanted[a] \cup (IF a \in kinds THEN {t} ELSE {})
    BY <2>1
  <2>3. importer = "loop" /\ importer' \in {"loop", "targets"} /\ exit = "none"
    BY <1>5, <2>1 DEF LooksUpToplist
  <2>4. UNCHANGED <<lists, existing, dryRun, anyFailed, exit, doubled, undone>>
    BY <1>5 DEF LooksUpToplist
  <2>5. ToplistTypeOK'
    BY <2>1, <2>2, <2>3, <2>4
  <2>6. ASSUME NEW a \in ListApp, NEW u \in Toplist PROVE Ahead(a, u)' => u \in urls
    BY <2>1
  <2>7. ASSUME NEW a \in ListApp, NEW u \in Toplist, u \in wanted'[a], ~Ahead(a, u)'
        PROVE u \in wanted[a] /\ ~Ahead(a, u)
    <3>1. CASE u = t /\ a \in kinds
      <4>1. kinds # {} /\ current'[1] = t
        BY <2>1, <3>1
      <4> QED BY <2>1, <2>7, <3>1, <4>1
    <3>2. CASE u = t /\ a \notin kinds
      BY <2>1, <2>2, <2>7, <3>2
    <3>3. CASE u # t
      BY <2>1, <2>2, <2>3, <2>7, <3>3
    <3> QED BY <3>1, <3>2, <3>3
  <2>8. ASSUME NEW a \in ListApp, NEW u \in Toplist, u \in wanted'[a] PROVE u \notin urls'
    BY <2>1, <2>2, <2>8
  <2> QED BY <2>1, <2>3, <2>4, <2>5, <2>6, <2>7, <2>8
<1>6. ASSUME NEW a \in ListApp, SkipsTarget(a) PROVE ToplistInv'
  BY <1>6 DEF SkipsTarget, Target, Continues, AlreadyRegistered
<1>7. ASSUME NEW a \in ListApp, RegisterSucceeds(a) PROVE ToplistInv'
  BY <1>7 DEF RegisterSucceeds, MustRegister, Target, Takes, Continues, AlreadyRegistered, ListName
<1>8. ASSUME NEW a \in ListApp, RegisterRefused(a) PROVE ToplistInv'
  BY <1>8 DEF RegisterRefused, MustRegister, Target, Continues
<1>9. ASSUME NEW a \in ListApp, RegisterUnanswered(a) PROVE ToplistInv'
  <2>1. lists' \in [ListApp -> [Toplist -> SUBSET ListName]]
    <3>1. CASE Takes(a)
      <4>1. current \in Toplist \X ListTitle /\ current[2] \in ListName
        BY <1>9 DEF RegisterUnanswered, MustRegister, Target, ListName
      <4> QED BY <3>1, <4>1 DEF Takes
    <3>2. CASE UNCHANGED lists
      BY <3>2
    <3> QED BY <1>9, <3>1, <3>2 DEF RegisterUnanswered
  <2>2. /\ importer' = "idle" /\ exit' = "died" /\ urls' = {} /\ targets' = {} /\ anyFailed' = FALSE
        /\ existing' = NoUrls /\ current' = <<>>
        /\ UNCHANGED <<dryRun, wanted, doubled, undone>>
    BY <1>9 DEF RegisterUnanswered, ImportStops
  <2>3. \A b \in ListApp, t \in Toplist : \A n, o \in lists'[b][t] : n = o \/ t \in doubled[b]
    BY <1>9 DEF RegisterUnanswered, MustRegister, Target, Takes, AlreadyRegistered
  <2>4. ToplistTypeOK'
    <3>1. dryRun' \in BOOLEAN /\ anyFailed' \in BOOLEAN
      BY <2>2
    <3>2. existing' \in [ListApp -> SUBSET Toplist]
      BY <2>2, NoUrlsFacts
    <3>3. current' \in (Toplist \X ListTitle) \cup {<<>>}
      BY <2>2
    <3> QED BY <2>1, <2>2, <3>1, <3>2, <3>3
  <2> QED BY <2>2, <2>3, <2>4, NoUrlsFacts
<1>10. ASSUME ImportDies \/ ImportEnds PROVE ToplistInv'
  <2>1. /\ importer' = "idle" /\ urls' = {} /\ targets' = {} /\ anyFailed' = FALSE
        /\ existing' = NoUrls /\ current' = <<>>
        /\ UNCHANGED <<lists, dryRun, wanted, doubled, undone>>
    BY <1>10 DEF ImportDies, ImportEnds, ImportStops
  <2>2. exit' \in {"0", "1", "died"}
    BY <1>10 DEF ImportDies, ImportEnds, ImportStops, Result
  <2>3. exit' = "0" => importer = "loop" /\ urls = {} /\ ~anyFailed /\ exit = "none"
    BY <1>10 DEF ImportDies, ImportEnds, ImportStops, Result
  <2>4. ToplistTypeOK'
    <3>1. dryRun' \in BOOLEAN /\ anyFailed' \in BOOLEAN
      BY <2>1
    <3>2. existing' \in [ListApp -> SUBSET Toplist]
      BY <2>1, NoUrlsFacts
    <3>3. current' \in (Toplist \X ListTitle) \cup {<<>>}
      BY <2>1
    <3> QED BY <2>1, <2>2, <3>1, <3>2, <3>3
  <2> QED BY <2>1, <2>2, <2>3, <2>4, NoUrlsFacts
<1>11. CASE UNCHANGED toplistVars
  BY <1>11 DEF toplistVars, theRun
<1> QED BY <1>1, <1>2, <1>3, <1>4, <1>5, <1>6, <1>7, <1>8, <1>9, <1>10, <1>11 DEF ToplistNext

(* No app has a url twice but by the owner's doing, and a run that exits 0 has
   left every list in the apps of its kinds (already_registered, register), for
   every set of urls and titles and any number of runs.                    *)
THEOREM ToplistCorrectness == ToplistSpec => []ToplistsAreRegisteredOnce
<1>1. ToplistInv => ToplistsAreRegisteredOnce
  BY DEF ToplistInv, Ahead, ToplistsAreRegisteredOnce
<1> QED BY ToplistInvInit, ToplistInvStep, <1>1, PTL DEF ToplistSpec

(* The types of the apps' lists and of the run.                            *)
THEOREM ToplistTypeCorrectness == ToplistSpec => []ToplistTypeOK
<1>1. ToplistInv => ToplistTypeOK
  BY DEF ToplistInv
<1> QED BY ToplistInvInit, ToplistInvStep, <1>1, PTL DEF ToplistSpec

-----------------------------------------------------------------------------
(* The rename of the Fish commands (FishRename).                           *)

(* A run that came to its end, whatever it found.                          *)
RenameEnded == renameExit \in {"0", "1"}

(* An old name that is left is in the answer, came back, was passed over by
   a failing grep or is still to be grepped for; and while nobody interferes
   the steps done so far have done their work.                             *)
RenameLeft ==
  \A c \in Renamed :
    \/ ~Hits(c) \/ c \in leftovers \cup ungrepped \cup late
    \/ renamePc = "grep" /\ c \in pending
    \/ renamePc # "grep" /\ ~RenameEnded

RenameCalm ==
  /\ renamePc = "edit" => \A x \in InTree \ unedited : naming[x] = {}
  /\ renamePc \in {"move", "install", "grep"} \/ RenameEnded => \A x \in InTree : naming[x] = {}
  /\ renamePc = "move" => \A c \in Renamed \ pending : <<c, "old">> \notin functions
  /\ renamePc \in {"install", "grep"} \/ RenameEnded => functions \subseteq Renamed \X {"new"}
  /\ renamePc = "grep" \/ RenameEnded => loaded = functions

RenameInv ==
  /\ RenameTypeOK
  /\ renameExit # "none" => renamePc = "idle"
  /\ RenameLeft
  /\ calm => RenameCalm

(* No run has looked for anything.                                         *)
LEMMA RenameInvInit == RenameInit => RenameInv
BY DEF RenameInit, RenameInv, RenameLeft, RenameCalm, RenameTypeOK, RenameEnded, Function, Text

(* Somebody's change keeps it: what it brings back after the grep is late. *)
LEMMA IntrusionKeepsRenameInv ==
  ASSUME RenameInv, NEW oldNames \in SUBSET Renamed, Intrudes(oldNames),
         functions' \subseteq Function, naming' \in [Text -> SUBSET Renamed],
         untouched' \subseteq Renamed,
         \A c \in Renamed \ oldNames : Hits(c)' => Hits(c)
  PROVE  RenameInv'
<1>1. /\ UNCHANGED <<loaded, renamePc, unedited, pending, leftovers, renameExit, ungrepped>>
      /\ calm' = FALSE
      /\ late' = IF renamePc = "grep" THEN late \cup (oldNames \ pending)
                 ELSE IF renamePc = "idle" THEN late \cup oldNames ELSE late
  BY DEF Intrudes, rename
<1>2. late' \subseteq Renamed /\ late \subseteq late'
  BY <1>1 DEF RenameInv, RenameTypeOK
<1>3. RenameTypeOK'
  BY <1>1, <1>2 DEF RenameInv, RenameTypeOK
<1>4. ASSUME NEW c \in Renamed, Hits(c)'
      PROVE  \/ c \in leftovers \cup ungrepped \cup late'
             \/ renamePc = "grep" /\ c \in pending
             \/ renamePc # "grep" /\ ~RenameEnded
  <2>1. CASE c \in oldNames
    BY <1>1, <2>1 DEF RenameInv, RenameEnded
  <2>2. CASE c \notin oldNames
    BY <1>2, <1>4, <2>2 DEF RenameInv, RenameLeft
  <2> QED BY <2>1, <2>2
<1>5. RenameLeft'
  BY <1>1, <1>4 DEF RenameLeft, RenameEnded
<1> QED BY <1>1, <1>3, <1>5 DEF RenameInv

(* The run's own steps that leave the tree alone, or only move a file.     *)
LEMMA RunKeepsRenameInv ==
  ASSUME RenameInv,
         \/ RenameStarts \/ EditsAll \/ MovesAll \/ RunsInstaller \/ RenameEnds \/ RenameDies
         \/ \E c \in Renamed : MovesFile(c) \/ HasNoOldFile(c) \/ GrepsFor(c)
         \/ \E x \in Text : Edits(x) \/ DiesInWrite(x)
  PROVE  RenameInv'
<1> USE RenameAssumption
        DEF RenameInv, RenameLeft, RenameCalm, RenameTypeOK, RenameEnded, Function, Text, Hits, InTree
<1>1. ASSUME NEW x \in Text, Edits(x) PROVE RenameInv'
  BY <1>1 DEF Edits, Turn, RenameText
<1>2. ASSUME NEW x \in Text, DiesInWrite(x) PROVE RenameInv'
  BY <1>2 DEF DiesInWrite, Turn, Exits
<1>3. CASE RenameStarts
  BY <1>3 DEF RenameStarts, tree
<1>4. CASE EditsAll
  BY <1>4 DEF EditsAll, Enters, tree
<1>5. CASE MovesAll
  BY <1>5 DEF MovesAll, Enters, tree
<1>6. ASSUME NEW c \in Renamed, MovesFile(c) PROVE RenameInv'
  BY <1>6 DEF MovesFile, Enters
<1>7. ASSUME NEW c \in Renamed, HasNoOldFile(c) PROVE RenameInv'
  BY <1>7 DEF HasNoOldFile, Enters, tree
<1>8. CASE RunsInstaller
  BY <1>8 DEF RunsInstaller, Enters, tree
<1>9. ASSUME NEW c \in Renamed, GrepsFor(c) PROVE RenameInv'
  BY <1>9 DEF GrepsFor, Enters, tree
<1>10. CASE RenameEnds
  BY <1>10 DEF RenameEnds, Exits, tree
<1>11. CASE RenameDies
  BY <1>11 DEF RenameDies, Exits, tree
<1> QED BY <1>1, <1>2, <1>3, <1>4, <1>5, <1>6, <1>7, <1>8, <1>9, <1>10, <1>11

(* Every step of a run, cut short or not, and of somebody else keeps it.   *)
LEMMA RenameInvStep == RenameInv /\ [RenameNext]_renameVars => RenameInv'
<1> SUFFICES ASSUME RenameInv, [RenameNext]_renameVars PROVE RenameInv'
  OBVIOUS
<1>1. ASSUME NEW c \in Renamed, NEW x \in Text, TextChanges(x, c) PROVE RenameInv'
  <2>1. /\ functions' \subseteq Function /\ naming' \in [Text -> SUBSET Renamed]
        /\ untouched' \subseteq Renamed /\ Intrudes({c})
    BY <1>1 DEF TextChanges, RenameInv, RenameTypeOK
  <2>2. \A d \in Renamed \ {c} : Hits(d)' => Hits(d)
    BY <1>1 DEF TextChanges, RenameInv, RenameTypeOK, Hits, InTree
  <2> QED BY <2>1, <2>2, IntrusionKeepsRenameInv
<1>2. ASSUME NEW c \in Renamed, OthersChange(c) PROVE RenameInv'
  <2>1. /\ functions' \subseteq Function /\ naming' \in [Text -> SUBSET Renamed]
        /\ untouched' \subseteq Renamed /\ Intrudes({c})
    BY <1>2 DEF OthersChange, RenameInv, RenameTypeOK
  <2>2. \A d \in Renamed \ {c} : Hits(d)' => Hits(d)
    BY <1>2 DEF OthersChange, Hits, InTree
  <2> QED BY <2>1, <2>2, IntrusionKeepsRenameInv
<1>3. ASSUME NEW c \in Renamed, OldFileReturns(c) PROVE RenameInv'
  <2> DEFINE f == <<c, "old">>
  <2>1. f \in Function /\ f \in Text
    BY DEF Function, Text
  <2>2. /\ functions' = functions \cup {f} /\ naming' = [naming EXCEPT ![f] = {c}]
        /\ Intrudes({c}) /\ UNCHANGED untouched
    BY <1>3 DEF OldFileReturns
  <2> HIDE DEF f
  <2>3. functions' \subseteq Function /\ naming' \in [Text -> SUBSET Renamed] /\ untouched' \subseteq Renamed
    BY <2>1, <2>2 DEF RenameInv, RenameTypeOK
  <2>4. \A d \in Renamed \ {c} : Hits(d)' => Hits(d)
    BY <2>1, <2>2 DEF RenameInv, RenameTypeOK, Hits, InTree
  <2> QED BY <2>2, <2>3, <2>4, IntrusionKeepsRenameInv
<1>4. ASSUME NEW f \in functions, FunctionGoes(f) PROVE RenameInv'
  <2>1. /\ functions' \subseteq Function /\ naming' \in [Text -> SUBSET Renamed]
        /\ untouched' \subseteq Renamed /\ Intrudes({})
    BY <1>4 DEF FunctionGoes, RenameInv, RenameTypeOK
  <2>2. \A d \in Renamed : Hits(d)' => Hits(d)
    BY <1>4 DEF FunctionGoes, RenameInv, RenameTypeOK, Hits, InTree, Text
  <2> QED BY <2>1, <2>2, IntrusionKeepsRenameInv
<1>5. CASE UNCHANGED renameVars
  BY <1>5 DEF renameVars, tree, rename, RenameInv, RenameLeft, RenameCalm, RenameTypeOK, RenameEnded, Hits, InTree
<1> QED BY <1>1, <1>2, <1>3, <1>4, <1>5, RunKeepsRenameInv DEF RenameNext

(* A run that comes to its end names every old name that is left but those
   brought back behind it and those whose git grep failed; and when nobody
   interfered its texts, the files and what fish loads are as it says (main
   of fish-rename.py), for every set of commands and documents.            *)
THEOREM RenameCorrectness == RenameSpec => []RenameIsComplete
<1>1. RenameInv => RenameIsComplete
  BY DEF RenameInv, RenameLeft, RenameCalm, RenameEnded, RenameIsComplete, Hits
<1> QED BY RenameInvInit, RenameInvStep, <1>1, PTL DEF RenameSpec

(* The types of the tree and of the run.                                   *)
THEOREM RenameTypeCorrectness == RenameSpec => []RenameTypeOK
<1>1. RenameInv => RenameTypeOK
  BY DEF RenameInv
<1> QED BY RenameInvInit, RenameInvStep, <1>1, PTL DEF RenameSpec

-----------------------------------------------------------------------------
(* The status of WatchState (WatchStatus).                                 *)

(* The inductive invariant of get_status (WatchStatus).  WatchNumbers: the *)
(* history has the last import that ended or was emptied of it.            *)
(* WatchCounts: and so does the total of a reader that asked the task      *)
(* first.  WatchMissing: a backend nobody saw was missing while they looked. *)
(* WatchSilent: a request that is under way has answered nothing yet.      *)
WatchFlags == registered \in BOOLEAN /\ eventQueued \in BOOLEAN /\ importRuns \in BOOLEAN

WatchNumbers ==
  /\ importsDone \in 0..MaxImports /\ inHistory \in 0..MaxImports /\ emptiedAt \in 0..MaxImports
  /\ importRuns => importsDone < MaxImports
  /\ importsDone <= inHistory \/ importsDone <= emptiedAt
  /\ inHistory = 0 \/ emptiedAt <= inHistory
  /\ importRuns => inHistory <= importsDone + 1 /\ emptiedAt <= importsDone + 1
  /\ ~importRuns => inHistory <= importsDone /\ emptiedAt <= importsDone

WatchRequests ==
  /\ statusAt \in [Viewer -> Question \cup {"nothing"}] /\ statusPage \in [Viewer -> Page]
  /\ sawBackend \subseteq Viewer /\ sawQueued \subseteq Viewer /\ unbacked \subseteq Viewer

WatchReads ==
  /\ sawLast \in [Viewer -> 0..MaxImports] /\ sawTotal \in [Viewer -> 0..MaxImports]

WatchCounts ==
  \A v \in Viewer :
    /\ statusAt[v] = "history" => sawLast[v] <= importsDone
    /\ statusPage[v] \in {"idle", "queued"} => sawTotal[v] >= sawLast[v] \/ sawLast[v] <= emptiedAt

WatchMissing ==
  \A v \in Viewer :
    /\ statusAt[v] # "nothing" /\ ~registered => v \in unbacked
    /\ statusAt[v] \in {"task", "history"} /\ v \notin sawBackend => v \in unbacked
    /\ statusPage[v] = "unregistered" => v \in unbacked

WatchSilent == \A v \in Viewer : statusAt[v] # "nothing" => statusPage[v] = "none"

WatchInv ==
  WatchFlags /\ WatchNumbers /\ WatchRequests /\ WatchReads /\ WatchCounts
  /\ WatchMissing /\ WatchSilent

(* A fresh WatchState satisfies the invariant.                             *)
LEMMA WatchInvInit == WatchInit => WatchInv
<1> SUFFICES ASSUME WatchInit PROVE WatchInv
  OBVIOUS
<1>1. WatchFlags
  BY DEF WatchInit, WatchFlags
<1>2. WatchNumbers
  BY WatchAssumption DEF WatchInit, WatchNumbers
<1>3. WatchRequests
  BY DEF WatchInit, WatchRequests, Question, Page
<1>4. WatchReads
  BY WatchAssumption DEF WatchInit, WatchReads
<1>5. WatchCounts
  BY DEF WatchInit, WatchCounts
<1>6. WatchMissing /\ WatchSilent
  BY DEF WatchInit, WatchMissing, WatchSilent
<1> QED BY <1>1, <1>2, <1>3, <1>4, <1>5, <1>6 DEF WatchInv

(* WatchState's own steps: an import starts, writes, ends, the history is  *)
(* emptied, the backend comes or goes.                                     *)
LEMMA WatchStateMoves ==
  ASSUME WatchInv, ImportStarts \/ ImportWrites \/ ImportFinishes \/ HistoryEmptied \/ BackendChanges
  PROVE  WatchInv'
<1>1. WatchFlags'
  BY DEF WatchInv, WatchFlags, ImportStarts, ImportWrites, ImportFinishes, HistoryEmptied, BackendChanges
<1>2. WatchNumbers'
  BY WatchAssumption
  DEF WatchInv, WatchNumbers, ImportStarts, ImportWrites, ImportFinishes, HistoryEmptied, BackendChanges
<1>3. UNCHANGED <<statusAt, statusPage, sawBackend, sawQueued, sawLast, sawTotal>>
  BY DEF ImportStarts, ImportWrites, ImportFinishes, HistoryEmptied, BackendChanges, sawVars
<1>4. /\ unbacked \subseteq unbacked' /\ unbacked' \subseteq unbacked \cup Viewer
      /\ registered' = registered \/ \A v \in Viewer : statusAt[v] # "nothing" => v \in unbacked'
  BY DEF ImportStarts, ImportWrites, ImportFinishes, HistoryEmptied, BackendChanges
<1>5. WatchRequests' /\ WatchReads'
  BY <1>3, <1>4 DEF WatchInv, WatchRequests, WatchReads
<1>6. importsDone' >= importsDone /\ emptiedAt' >= emptiedAt
  BY WatchAssumption
  DEF WatchInv, WatchNumbers, ImportStarts, ImportWrites, ImportFinishes, HistoryEmptied, BackendChanges
<1>7. WatchCounts'
  <2>1. /\ importsDone \in Int /\ emptiedAt \in Int /\ importsDone' \in Int /\ emptiedAt' \in Int
        /\ \A v \in Viewer : sawLast[v] \in Int
    BY <1>2, WatchAssumption DEF WatchInv, WatchReads, WatchNumbers
  <2> SUFFICES ASSUME NEW v \in Viewer
               PROVE  /\ statusAt[v] = "history" => sawLast[v] <= importsDone'
                      /\ statusPage[v] \in {"idle", "queued"} =>
                           sawTotal[v] >= sawLast[v] \/ sawLast[v] <= emptiedAt'
    BY <1>3 DEF WatchCounts
  <2> QED BY <2>1, <1>6 DEF WatchInv, WatchCounts
<1>8. WatchMissing'
  BY <1>3, <1>4 DEF WatchInv, WatchMissing
<1>9. WatchSilent'
  BY <1>3 DEF WatchInv, WatchSilent
<1> QED BY <1>1, <1>2, <1>5, <1>7, <1>8, <1>9 DEF WatchInv

(* A request starts: it has seen nothing.                                  *)
LEMMA GetStatusStep ==
  ASSUME WatchInv, NEW v \in Viewer, GetStatus(v)
  PROVE  WatchInv'
<1> USE DEF GetStatus, StatusAnswers, watchState
<1>1. WatchFlags'
  BY DEF WatchInv, WatchFlags
<1>2. WatchNumbers'
  BY DEF WatchInv, WatchNumbers
<1>3. WatchRequests'
  BY DEF WatchInv, WatchRequests, Question, Page
<1>4. WatchReads'
  BY WatchAssumption DEF WatchInv, WatchReads
<1>5. WatchCounts'
  BY DEF WatchInv, WatchCounts, WatchRequests, WatchReads, WatchNumbers
<1>6. WatchMissing'
  BY DEF WatchInv, WatchMissing, WatchRequests
<1>7. WatchSilent'
  BY DEF WatchInv, WatchSilent, WatchRequests
<1> QED BY <1>1, <1>2, <1>3, <1>4, <1>5, <1>6, <1>7 DEF WatchInv

(* The three questions before the last: the task's answer names an import  *)
(* that has ended.                                                         *)
LEMMA AskStep ==
  ASSUME WatchInv, NEW v \in Viewer, AsksVersion(v) \/ AsksBackends(v) \/ AsksTask(v)
  PROVE  WatchInv'
<1> USE DEF AsksVersion, AsksBackends, AsksTask, Asked, watchState, sawVars
<1>1. WatchFlags'
  BY DEF WatchInv, WatchFlags
<1>2. WatchNumbers'
  BY DEF WatchInv, WatchNumbers
<1>3. WatchRequests'
  BY DEF WatchInv, WatchRequests, Question, Page
<1>4. WatchReads'
  BY DEF WatchInv, WatchReads, WatchNumbers
<1>5. WatchCounts'
  BY DEF WatchInv, WatchCounts, WatchRequests, WatchReads, WatchNumbers, WatchSilent
<1>6. WatchMissing'
  BY DEF WatchInv, WatchMissing, WatchRequests
<1>7. WatchSilent'
  BY DEF WatchInv, WatchSilent, WatchRequests
<1> QED BY <1>1, <1>2, <1>3, <1>4, <1>5, <1>6, <1>7 DEF WatchInv

(* The last question: its total is at least the import the task named, and *)
(* the answer is about the backend that was seen.                          *)
LEMMA AsksHistoryStep ==
  ASSUME WatchInv, NEW v \in Viewer, AsksHistory(v)
  PROVE  WatchInv'
<1> USE DEF AsksHistory, Asked, StatusAnswers, watchState
<1>m. /\ Message(v) \in {"unregistered", "queued", "idle"}
      /\ Message(v) = "unregistered" => v \notin sawBackend
  BY DEF Message
<1>1. WatchFlags'
  BY DEF WatchInv, WatchFlags
<1>2. WatchNumbers'
  BY DEF WatchInv, WatchNumbers
<1>3. WatchRequests'
  BY <1>m DEF WatchInv, WatchRequests, Question, Page
<1>4. WatchReads'
  BY DEF WatchInv, WatchReads, WatchNumbers
<1>5. WatchCounts'
  BY <1>m DEF WatchInv, WatchCounts, WatchRequests, WatchReads, WatchNumbers
<1>6. WatchMissing'
  BY <1>m DEF WatchInv, WatchMissing, WatchRequests
<1>7. WatchSilent'
  BY DEF WatchInv, WatchSilent, WatchRequests
<1> QED BY <1>1, <1>2, <1>3, <1>4, <1>5, <1>6, <1>7 DEF WatchInv

(* The answers that carry neither count nor backend.                       *)
LEMMA OtherAnswerStep ==
  ASSUME WatchInv, NEW v \in Viewer, QuestionFails(v) \/ QueueImport(v) \/ QueueImportFails(v)
  PROVE  WatchInv'
<1>1. /\ statusAt' = [statusAt EXCEPT ![v] = "nothing"]
      /\ statusPage' = [statusPage EXCEPT ![v] = "import queued"] \/ statusPage' = [statusPage EXCEPT ![v] = "error"]
      /\ UNCHANGED <<registered, importRuns, importsDone, inHistory, emptiedAt,
                     sawBackend, sawQueued, sawLast, sawTotal, unbacked>>
  BY DEF WatchInv, WatchRequests, QuestionFails, QueueImport, QueueImportFails, Asked, StatusAnswers,
         watchState, sawVars
<1>2. WatchFlags'
  BY DEF WatchInv, WatchFlags, QuestionFails, QueueImport, QueueImportFails, Asked, watchState
<1>3. WatchNumbers'
  BY <1>1 DEF WatchInv, WatchNumbers
<1>4. WatchRequests'
  BY <1>1 DEF WatchInv, WatchRequests, Question, Page
<1>5. WatchReads'
  BY <1>1 DEF WatchInv, WatchReads
<1>6. WatchCounts'
  BY <1>1 DEF WatchInv, WatchCounts, WatchRequests
<1>7. WatchMissing'
  BY <1>1 DEF WatchInv, WatchMissing, WatchRequests
<1>8. WatchSilent'
  BY <1>1 DEF WatchInv, WatchSilent, WatchRequests
<1> QED BY <1>2, <1>3, <1>4, <1>5, <1>6, <1>7, <1>8 DEF WatchInv

(* Every step of WatchState and its readers preserves the invariant.       *)
LEMMA WatchInvStep == WatchInv /\ [WatchNext]_watchVars => WatchInv'
<1> SUFFICES ASSUME WatchInv, [WatchNext]_watchVars PROVE WatchInv'
  OBVIOUS
<1>1. CASE UNCHANGED watchVars
  BY <1>1 DEF watchVars, watchState, sawVars, WatchInv, WatchFlags, WatchNumbers, WatchRequests,
              WatchReads, WatchCounts, WatchMissing, WatchSilent
<1>2. CASE WatchNext
  BY <1>2, WatchStateMoves, GetStatusStep, AskStep, AsksHistoryStep, OtherAnswerStep DEF WatchNext
<1> QED BY <1>1, <1>2

(* A status that names an import counts its items unless the history was   *)
(* emptied of them, and one that asks for provisioning was right to        *)
(* (watchstate/services.py get_status), for every number of clients.       *)
THEOREM StatusCorrectness == WatchSpec => []StatusCountsItsImport
<1>1. WatchInv => StatusCountsItsImport
  BY DEF WatchInv, WatchCounts, WatchMissing, StatusCountsItsImport
<1> QED BY WatchInvInit, WatchInvStep, <1>1, PTL DEF WatchSpec

(* The types of WatchState and of the requests (WatchStatus), by the same  *)
(* invariant.                                                              *)
THEOREM StatusTypeCorrectness == WatchSpec => []WatchTypeOK
<1>1. WatchInv => WatchTypeOK
  BY DEF WatchInv, WatchFlags, WatchNumbers, WatchRequests, WatchReads, WatchTypeOK
<1> QED BY WatchInvInit, WatchInvStep, <1>1, PTL DEF WatchSpec
-----------------------------------------------------------------------------
(* The components together (MCJobs).                                        *)

(* A step of the run is a step of the component it names and leaves every
   other component where it is.                                             *)
LEMMA JobsStep ==
  [JobsNext]_JobsVars =>
    /\ [ReportNext]_reportVars /\ [CheckNext]_checkVars
    /\ [UpstreamNext]_upstreamVars /\ [CveNext]_cveVars
    /\ [FileNext]_fileVars /\ [ReconcileNext]_reconcileVars
    /\ [OrphanNext]_orphanVars /\ [AuditNext]_auditVars
    /\ [ProvisionNext]_provisionVars /\ [WizardNext]_wizardVars
    /\ [FishNext]_fishVars /\ [ArrNext]_arrVars
    /\ [HistoryNext]_historyVars /\ [QueueNext]_queueVars
    /\ [SettingsNext]_settingVars /\ [BackupNext]_backupVars
    /\ [EditNext]_editVars /\ [ToplistNext]_toplistVars
    /\ [RenameNext]_renameVars /\ [WatchNext]_watchVars
<1>1. CASE JobsNext
  BY <1>1
     DEF JobsNext, OthersRest, ReportJob, CheckJob, UpstreamJob, CveJob, FileJob,
         ReconcileJob, OrphanJob, AuditJob, ProvisionJob, WizardJob, FishJob, ArrJob,
         HistoryJob, QueueJob, SettingsJob, BackupJob, EditJob, ToplistJob, RenameJob,
         WatchJob
<1>2. CASE UNCHANGED JobsVars
  BY <1>2 DEF JobsVars
<1> QED BY <1>1, <1>2

(* What the run explores is a behaviour of every component: what is proved of
   a component's own specification holds in the composition the run checks.  *)
THEOREM JobsImplementComponents ==
  JobsSpec =>
    /\ ReportSpec /\ CheckSpec /\ UpstreamSpec /\ CveSpec /\ FileSpec
    /\ ReconcileSpec /\ OrphanSpec /\ AuditSpec /\ ProvisionSpec /\ WizardSpec
    /\ FishSpec /\ ArrSpec /\ HistorySpec /\ QueueSpec /\ SettingsSpec
    /\ BackupSpec /\ EditSpec /\ ToplistSpec /\ RenameSpec /\ WatchSpec
<1>1. JobsInit =>
        /\ ReportInit /\ CheckInit /\ UpstreamInit /\ CveInit /\ FileInit
        /\ ReconcileInit /\ OrphanInit /\ AuditInit /\ ProvisionInit /\ WizardInit
        /\ FishInit /\ ArrInit /\ HistoryInit /\ QueueInit /\ SettingsInit
        /\ BackupInit /\ EditInit /\ ToplistInit /\ RenameInit /\ WatchInit
  BY DEF JobsInit
<1>2. JobsSpec => ReportSpec
  BY JobsStep, <1>1, PTL DEF JobsSpec, ReportSpec
<1>3. JobsSpec => CheckSpec
  BY JobsStep, <1>1, PTL DEF JobsSpec, CheckSpec
<1>4. JobsSpec => UpstreamSpec
  BY JobsStep, <1>1, PTL DEF JobsSpec, UpstreamSpec
<1>5. JobsSpec => CveSpec
  BY JobsStep, <1>1, PTL DEF JobsSpec, CveSpec
<1>6. JobsSpec => FileSpec
  BY JobsStep, <1>1, PTL DEF JobsSpec, FileSpec
<1>7. JobsSpec => ReconcileSpec
  BY JobsStep, <1>1, PTL DEF JobsSpec, ReconcileSpec
<1>8. JobsSpec => OrphanSpec
  BY JobsStep, <1>1, PTL DEF JobsSpec, OrphanSpec
<1>9. JobsSpec => AuditSpec
  BY JobsStep, <1>1, PTL DEF JobsSpec, AuditSpec
<1>10. JobsSpec => ProvisionSpec
  BY JobsStep, <1>1, PTL DEF JobsSpec, ProvisionSpec
<1>11. JobsSpec => WizardSpec
  BY JobsStep, <1>1, PTL DEF JobsSpec, WizardSpec
<1>12. JobsSpec => FishSpec
  BY JobsStep, <1>1, PTL DEF JobsSpec, FishSpec
<1>13. JobsSpec => ArrSpec
  BY JobsStep, <1>1, PTL DEF JobsSpec, ArrSpec
<1>14. JobsSpec => HistorySpec
  BY JobsStep, <1>1, PTL DEF JobsSpec, HistorySpec
<1>15. JobsSpec => QueueSpec
  BY JobsStep, <1>1, PTL DEF JobsSpec, QueueSpec
<1>16. JobsSpec => SettingsSpec
  BY JobsStep, <1>1, PTL DEF JobsSpec, SettingsSpec
<1>17. JobsSpec => BackupSpec
  BY JobsStep, <1>1, PTL DEF JobsSpec, BackupSpec
<1>18. JobsSpec => EditSpec
  BY JobsStep, <1>1, PTL DEF JobsSpec, EditSpec
<1>19. JobsSpec => ToplistSpec
  BY JobsStep, <1>1, PTL DEF JobsSpec, ToplistSpec
<1>20. JobsSpec => RenameSpec
  BY JobsStep, <1>1, PTL DEF JobsSpec, RenameSpec
<1>21. JobsSpec => WatchSpec
  BY JobsStep, <1>1, PTL DEF JobsSpec, WatchSpec
<1> QED BY <1>2, <1>3, <1>4, <1>5, <1>6, <1>7, <1>8, <1>9, <1>10, <1>11, <1>12, <1>13, <1>14, <1>15,
           <1>16, <1>17, <1>18, <1>19, <1>20, <1>21

(* What the run checks of the twenty components holds of the composition, for
   every value of the constants of all of them.                             *)
THEOREM JobsCorrectness ==
  JobsSpec =>
    /\ []RemovalsToldOnce /\ []FiledFailuresWereAnnounced /\ []ReleasesAlertedOnce
    /\ []CriticalRiseIsAlerted /\ []ReportHasEvidence /\ []BucketsAreTrue
    /\ []OnlyOrphansRemoved /\ []OutageIsNotUnmatched /\ []RerunsConverge
    /\ []AnswersAreKept /\ []RunInstallsRepository /\ []NothingLostSilently
    /\ []CountedDeletionsAreReal /\ []BucketsAreObserved /\ []PatchesDoNotUndoEachOther
    /\ []ReportedBackupsAreDone /\ EditsAreConfined /\ []ToplistsAreRegisteredOnce
    /\ []RenameIsComplete /\ []StatusCountsItsImport
BY JobsImplementComponents,
   ReportCorrectness, CheckCorrectness, UpstreamCorrectness, CveCorrectness,
   BadFilesCorrectness, ReconcileCorrectness, OrphanCorrectness, AuditCorrectness,
   ProvisionCorrectness, WizardCorrectness, InstallCorrectness, RepairCorrectness,
   DeletionCorrectness, BucketCorrectness, PatchCorrectness, BackupCorrectness,
   EditCorrectness, ToplistCorrectness, RenameCorrectness, StatusCorrectness

(* Every component keeps the types of its variables in the composition, for
   every value of the constants of all of them.                             *)
THEOREM JobsTypeCorrectness == JobsSpec => []JobsTypeOK
<1>1. JobsSpec =>
        /\ []ReportTypeOK /\ []CheckTypeOK /\ []UpstreamTypeOK
        /\ []CveTypeOK /\ []FileTypeOK /\ []ReconcileTypeOK
        /\ []OrphanTypeOK /\ []AuditTypeOK /\ []ProvisionTypeOK
        /\ []WizardTypeOK /\ []FishTypeOK /\ []ArrTypeOK
        /\ []HistoryTypeOK /\ []QueueTypeOK /\ []SettingsTypeOK
        /\ []BackupTypeOK /\ []EditTypeOK /\ []ToplistTypeOK
        /\ []RenameTypeOK /\ []WatchTypeOK
  BY JobsImplementComponents,
     ReportTypeCorrectness, CheckTypeCorrectness, UpstreamTypeCorrectness,
     CveTypeCorrectness, BadFilesTypeCorrectness, ReconcileTypeCorrectness,
     OrphanTypeCorrectness, AuditTypeCorrectness, ProvisionTypeCorrectness,
     WizardTypeCorrectness, FishTypeCorrectness, ArrTypeCorrectness,
     HistoryTypeCorrectness, QueueTypeCorrectness, SettingsTypeCorrectness,
     BackupTypeCorrectness, EditTypeCorrectness, ToplistTypeCorrectness,
     RenameTypeCorrectness, StatusTypeCorrectness
<1>2. /\ ReportTypeOK /\ CheckTypeOK /\ UpstreamTypeOK /\ CveTypeOK
      /\ FileTypeOK /\ ReconcileTypeOK /\ OrphanTypeOK /\ AuditTypeOK
      /\ ProvisionTypeOK /\ WizardTypeOK /\ FishTypeOK /\ ArrTypeOK
      /\ HistoryTypeOK /\ QueueTypeOK /\ SettingsTypeOK /\ BackupTypeOK
      /\ EditTypeOK /\ ToplistTypeOK /\ RenameTypeOK /\ WatchTypeOK
      => JobsTypeOK
  BY DEF JobsTypeOK
<1> QED BY <1>1, <1>2, PTL
=============================================================================
