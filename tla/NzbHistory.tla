----------------------------- MODULE NzbHistory -----------------------------
(***************************************************************************)
(* Deleting NzbDAV's failed history entries: nzbdav.services.              *)
(* delete_failures() behind a panel route and the timer's script           *)
(* bearmount-prune-history.py.  Both list the history once and then delete *)
(* every "Failed" entry from twenty threads, each seeing what the other    *)
(* has done meanwhile.                                                     *)
(***************************************************************************)
EXTENDS Integers

CONSTANTS Entry, Pruner

VARIABLES
  entries,    \* NzbDAV's history: entry -> "none", "Failed", "Completed" or "deleted"
  pruner      \* per caller: its locals

historyVars == <<entries, pruner>>

NoPrune == [pc |-> "idle", listed |-> {}, left |-> {}, deleted |-> {}, errors |-> {}, raised |-> FALSE]
InHistory == {e \in Entry : entries[e] \in {"Failed", "Completed"}}
FailedEntries == {e \in Entry : entries[e] = "Failed"}

-----------------------------------------------------------------------------
\* A download ends; every one has an id of its own.
DownloadEnds(e) ==
  /\ entries[e] = "none"
  /\ \E s \in {"Failed", "Completed"} : entries' = [entries EXCEPT ![e] = s]
  /\ UNCHANGED pruner

\* The listing, from which everything follows.
ListsFailures(p) ==
  /\ pruner[p].pc = "idle"
  /\ pruner' = [pruner EXCEPT ![p] =
       [NoPrune EXCEPT !.pc = "deleting", !.listed = FailedEntries, !.left = FailedEntries]]
  /\ UNCHANGED entries

\* What one delete can come to: carried out or not, and what the thread makes
\* of the answer.  NzbDAV may call the delete of a missing entry either.
AnyStatusIsDeleted(applied, answer) == IF answer = "broken" THEN "error" ELSE "deleted"
Outcome(applied, answer) ==
  CASE answer = "status true" -> "deleted"
    [] answer \in {"status false", "broken"} -> "error"
    [] answer = "not json" -> "raised"

Possible(e, applied, answer) ==
  /\ answer = "status true" => applied \/ e \notin InHistory
  /\ answer = "status false" => ~applied
  /\ applied => e \in InHistory

DeletesOne(p, e) ==
  /\ pruner[p].pc = "deleting" /\ e \in pruner[p].left
  /\ \E applied \in BOOLEAN, answer \in {"status true", "status false", "broken", "not json"} :
       LET outcome == Outcome(applied, answer) IN
       /\ Possible(e, applied, answer)
       /\ entries' = IF applied THEN [entries EXCEPT ![e] = "deleted"] ELSE entries
       /\ pruner' = [pruner EXCEPT ![p].left = @ \ {e},
            ![p].deleted = IF outcome = "deleted" THEN @ \cup {e} ELSE @,
            ![p].errors = IF outcome = "error" THEN @ \cup {e} ELSE @,
            ![p].raised = @ \/ outcome = "raised"]

\* The pool has joined: the panel's answer, or the script's exit code.  An
\* answer that is not JSON raises out of both.
PruneReturns(p) ==
  /\ pruner[p].pc = "deleting" /\ pruner[p].left = {}
  /\ pruner' = [pruner EXCEPT ![p].pc = IF pruner[p].raised THEN "raised" ELSE "returned"]
  /\ UNCHANGED entries

PruneIsCalledAgain(p) ==
  /\ pruner[p].pc \in {"returned", "raised"}
  /\ pruner' = [pruner EXCEPT ![p] = NoPrune]
  /\ UNCHANGED entries

PrunerKilled(p) ==
  /\ pruner[p].pc = "deleting"
  /\ pruner' = [pruner EXCEPT ![p] = NoPrune]
  /\ UNCHANGED entries

-----------------------------------------------------------------------------
HistoryInit ==
  /\ entries = [e \in Entry |-> "none"]
  /\ pruner = [p \in Pruner |-> NoPrune]

HistoryNext ==
  \/ \E e \in Entry : DownloadEnds(e) \/ \E p \in Pruner : DeletesOne(p, e)
  \/ \E p \in Pruner : \/ ListsFailures(p) \/ PruneReturns(p)
                       \/ PruneIsCalledAgain(p) \/ PrunerKilled(p)

HistorySpec == HistoryInit /\ [][HistoryNext]_historyVars

HistoryTypeOK ==
  /\ entries \in [Entry -> {"none", "Failed", "Completed", "deleted"}]
  /\ \A p \in Pruner : /\ pruner[p].pc \in {"idle", "deleting", "returned", "raised"}
                       /\ pruner[p].left \subseteq pruner[p].listed
                       /\ pruner[p].deleted \cap pruner[p].errors = {}

(* When a call returns, every failed entry it listed is counted, and those it
   counts as deleted are gone, whatever the other caller deleted under its
   threads' hands (delete_failures, main of bearmount-prune-history.py).      *)
CountedDeletionsAreReal ==
  \A p \in Pruner : pruner[p].pc = "returned" =>
    /\ pruner[p].listed = pruner[p].deleted \cup pruner[p].errors
    /\ pruner[p].deleted \cap InHistory = {}
=============================================================================
