------------------------------ MODULE ArrQueue ------------------------------
(***************************************************************************)
(* core/arr_client.py and core/import_starvation.py against one *arr app:  *)
(* blocklist_and_research() takes stuck records out of the app's queue and *)
(* has it search for them again, check_all() cancels queued searches when  *)
(* RefreshMonitoredDownloads has waited too long behind them.  Repairs may *)
(* overlap each other and the check; a call that timed out or broke may    *)
(* have been carried out, and the panel may end in between.                *)
(***************************************************************************)
EXTENDS Integers, FiniteSets

CONSTANTS
  Item,        \* queue records, named by their movie or episode
  Unmatched,   \* those the app knows no movie or episode for: their id is None
  Repair,      \* callers of blocklist_and_research
  MaxSearches  \* bound on the searches the app holds at once

ASSUME ArrQueueAssumption == MaxSearches \in Nat /\ Unmatched \subseteq Item

Bulk == {}     \* the items of a backfill's search: none of ours

VARIABLES
  arrQueue,    \* records in the app's queue
  searches,    \* search commands: [items, status]
  repair,      \* per caller: its locals
  check,       \* check_all's locals
  owed,        \* history: items a repair took out and has to search again
  searched,    \* history: owed items the app has searched for
  excused,     \* history: owed items an answer named, or a panel's end left
  cancelled    \* history: owed items whose search a starvation check cancelled

owedVars == <<owed, searched, excused, cancelled>>
arrVars == <<arrQueue, searches, repair, check, owedVars>>

NoRepair == [pc |-> "idle", left |-> {}, at |-> {}, monitored |-> TRUE, attempt |-> 0, search |-> {}]
NoCheck == [pc |-> "idle", targets |-> {}]
Settles(items) ==
  /\ owed' = owed \ items /\ searched' = searched \ items
  /\ excused' = excused \ items /\ cancelled' = cancelled \ items

-----------------------------------------------------------------------------
\* The app and its users.
BecomesStuck(q) ==
  /\ q \notin arrQueue
  /\ \A r \in Repair : q \notin repair[r].left \cup repair[r].at \cup repair[r].search
  /\ arrQueue' = arrQueue \cup {q}
  /\ Settles({q})
  /\ UNCHANGED <<searches, repair, check>>

Backfill ==
  /\ Cardinality(searches) < MaxSearches
  /\ searches' = searches \cup {[items |-> Bulk, status |-> "queued"]}
  /\ UNCHANGED <<arrQueue, repair, check, owedVars>>

\* One command runs at a time; a search that ends has looked for its items.
PoolIsFull == \E s \in searches : s.status = "started"

SearchStarts(s) ==
  /\ ~PoolIsFull /\ s.status = "queued"
  /\ searches' = (searches \ {s}) \cup {[s EXCEPT !.status = "started"]}
  /\ UNCHANGED <<arrQueue, repair, check, owedVars>>

SearchEnds(s) ==
  /\ s.status = "started"
  /\ searches' = searches \ {s}
  /\ searched' = searched \cup (s.items \cap owed)
  /\ UNCHANGED <<arrQueue, repair, check, owed, excused, cancelled>>

-----------------------------------------------------------------------------
\* blocklist_and_research().
RepairStarts(r) ==
  /\ repair[r].pc = "idle"
  /\ \E items \in SUBSET arrQueue \ {{}} :
       repair' = [repair EXCEPT ![r] = [NoRepair EXCEPT !.pc = "items", !.left = items]]
  /\ UNCHANGED <<arrQueue, searches, check, owedVars>>

\* item_is_monitored(): what the app, or its users, say at that moment; a record
\* without an id counts as monitored.
ChecksMonitored(r, q) ==
  /\ repair[r].pc = "items" /\ q \in repair[r].left
  /\ \E answer \in IF q \in Unmatched THEN {TRUE} ELSE BOOLEAN :
       repair' = [repair EXCEPT ![r].pc = "delete", ![r].left = @ \ {q}, ![r].at = {q},
                                ![r].monitored = answer, ![r].attempt = 1]
  /\ UNCHANGED <<arrQueue, searches, check, owedVars>>

\* A delete the app carried out leaves the item to this repair, if it is one to
\* be searched; an answer 404 finds it gone already.  One without an id is named
\* as fixed, and there is nothing to search for.
Deleted(r) ==
  /\ arrQueue' = arrQueue \ repair[r].at
  /\ owed' = IF repair[r].monitored
             THEN owed \cup ((repair[r].at \cap arrQueue) \ Unmatched) ELSE owed

WithItem(r, search) ==
  [repair EXCEPT ![r].pc = IF repair[r].left = {} THEN "search" ELSE "items",
                 ![r].at = {}, ![r].search = @ \cup search]

Excuses(items) == excused' = excused \cup (items \cap owed')

DeleteAnswers(r) ==
  /\ repair[r].pc = "delete"
  /\ Deleted(r)
  /\ repair' = WithItem(r, IF repair[r].monitored THEN repair[r].at \ Unmatched ELSE {})
  /\ UNCHANGED <<searches, check, searched, excused, cancelled>>

\* The first time-out is tried again, the second is an error like any other.
GivesUpSilently(r) == repair[r].attempt = 2 /\ repair' = WithItem(r, {}) /\ UNCHANGED excused
GivesUp(r) == repair[r].attempt = 2 /\ repair' = WithItem(r, {}) /\ Excuses(repair[r].at)

DeleteTimesOut(r) ==
  /\ repair[r].pc = "delete"
  /\ Deleted(r) \/ UNCHANGED <<arrQueue, owed>>
  /\ \/ /\ repair[r].attempt = 1 /\ repair' = [repair EXCEPT ![r].attempt = 2]
        /\ UNCHANGED excused
     \/ GivesUp(r)
  /\ UNCHANGED <<searches, check, searched, cancelled>>

DeleteFails(r) ==
  /\ repair[r].pc = "delete"
  /\ Deleted(r) \/ UNCHANGED <<arrQueue, owed>>
  /\ repair' = WithItem(r, {}) /\ Excuses(repair[r].at)
  /\ UNCHANGED <<searches, check, searched, cancelled>>

\* One command for all of them, none when there is nothing to search.
Submitted(items) == searches \cup {[items |-> items, status |-> "queued"]}

TriggersSearch(r) ==
  /\ repair[r].pc = "search"
  /\ repair[r].search = {} \/ Cardinality(searches) < MaxSearches
  /\ searches' = IF repair[r].search = {} THEN searches ELSE Submitted(repair[r].search)
  /\ repair' = [repair EXCEPT ![r] = NoRepair]
  /\ UNCHANGED <<arrQueue, check, owedVars>>

SearchTriggerFails(r) ==
  /\ repair[r].pc = "search" /\ repair[r].search # {}
  /\ repair' = [repair EXCEPT ![r] = NoRepair]
  /\ UNCHANGED <<arrQueue, searches, check, owed, searched, cancelled>>
  /\ Excuses(repair[r].search)

\* Nobody gets the answer of a request the panel died in.
RepairAbandoned(r) ==
  /\ repair[r].pc # "idle"
  /\ repair' = [repair EXCEPT ![r] = NoRepair]
  /\ UNCHANGED <<arrQueue, searches, check, owed, searched, cancelled>>
  /\ Excuses(repair[r].at \cup repair[r].search)

-----------------------------------------------------------------------------
\* detect(): one reading of the commands finds a RefreshMonitoredDownloads queued
\* for over STARVATION_THRESHOLD_SECONDS, which the app may have at any time.
Detects ==
  /\ check = NoCheck
  /\ check' = [NoCheck EXCEPT !.pc = "starved"]
  /\ UNCHANGED <<arrQueue, searches, repair, owedVars>>

\* clear_search_backlog() reads them again: whatever search is queued then, that
\* of a repair too.
Backlog == {s \in searches : s.status = "queued"}

ReadsBacklog ==
  /\ check.pc = "starved"
  /\ check' = IF Backlog = {} THEN [NoCheck EXCEPT !.pc = "next_app"]
              ELSE [pc |-> "cancelling", targets |-> Backlog]
  /\ UNCHANGED <<arrQueue, searches, repair, owedVars>>

\* One delete: cancelled, or refused because it has started or is gone.  Only
\* numbers are kept of it.
Cancels(s) ==
  /\ check.pc = "cancelling" /\ s \in check.targets
  /\ check' = IF check.targets = {s} THEN [NoCheck EXCEPT !.pc = "next_app"]
              ELSE [check EXCEPT !.targets = @ \ {s}]
  /\ \/ /\ searches' = searches \ {s}
        /\ cancelled' = cancelled \cup (IF s \in searches THEN s.items \cap owed ELSE {})
     \/ UNCHANGED <<searches, cancelled>>
  /\ UNCHANGED <<arrQueue, repair, owed, searched, excused>>

\* check_all() goes on to the other app and answers with the numbers ...
CheckAnswers ==
  /\ check.pc = "next_app" /\ check' = NoCheck
  /\ UNCHANGED <<arrQueue, searches, repair, owedVars>>

\* ... unless a reading fails, of this app or of the other: it raises, and the
\* numbers are lost.
CheckRaises ==
  /\ check.pc \in {"starved", "next_app"} /\ check' = NoCheck
  /\ UNCHANGED <<arrQueue, searches, repair, owedVars>>

-----------------------------------------------------------------------------
ArrInit ==
  /\ arrQueue = Item /\ searches = {}
  /\ repair = [r \in Repair |-> NoRepair] /\ check = NoCheck
  /\ owed = {} /\ searched = {} /\ excused = {} /\ cancelled = {}

AppStep ==
  \/ \E q \in Item : BecomesStuck(q)
  \/ \E s \in searches : SearchStarts(s) \/ SearchEnds(s)
  \/ Backfill

RepairStep(r) ==
  \/ RepairStarts(r) \/ DeleteAnswers(r) \/ DeleteTimesOut(r) \/ DeleteFails(r)
  \/ TriggersSearch(r) \/ SearchTriggerFails(r) \/ RepairAbandoned(r)
  \/ \E q \in Item : ChecksMonitored(r, q)

ArrNext ==
  \/ AppStep
  \/ \E r \in Repair : RepairStep(r)
  \/ Detects \/ ReadsBacklog \/ CheckAnswers \/ CheckRaises
  \/ \E s \in check.targets : Cancels(s)

ArrSpec == ArrInit /\ [][ArrNext]_arrVars

ArrTypeOK ==
  /\ arrQueue \cup owed \cup searched \cup excused \cup cancelled \subseteq Item
  /\ searches \cup check.targets \subseteq [items : SUBSET Item, status : {"queued", "started"}]
  /\ check.pc \in {"idle", "starved", "cancelling", "next_app"}
  /\ \A r \in Repair : /\ repair[r].pc \in {"idle", "items", "delete", "search"}
                       /\ repair[r].attempt \in 0..2
                       /\ repair[r].at = {} <=> repair[r].pc # "delete"

InHand == UNION {repair[r].at \cup repair[r].search : r \in Repair}
InSearches == UNION {s.items : s \in searches}

(* A monitored item with an id that a repair took out of the queue is searched
   again: with deletes that time out and are tried again, two repairs of one
   item and requests the panel dies in, it is in a repair's hands or in a search,
   or was searched, or an answer names it in an error.  The one thing that loses
   it without a word is a starvation check that cancels its search before it
   starts (a record without an id is removed and never searched for).          *)
NothingLostSilently ==
  owed \subseteq InHand \cup InSearches \cup searched \cup excused \cup cancelled

=============================================================================
