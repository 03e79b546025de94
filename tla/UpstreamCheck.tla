--------------------------- MODULE UpstreamCheck ---------------------------
(***************************************************************************)
(* scripts/check-upstream-updates.sh: look up the latest release of each   *)
(* upstream, compare with the stored versions, store, alert.  The lookups  *)
(* are "curl | jq": when jq cannot read the answer the version is          *)
(* "unknown"; when there is no answer, or an error object without the      *)
(* field, jq succeeds and the version is "" or "null" (NoAnswer).          *)
(***************************************************************************)
EXTENDS Integers

CONSTANTS Upstream, MaxRelease   \* MaxRelease bounds the number of releases

ASSUME UpstreamAssumption == MaxRelease \in Nat \ {0}

Unknown == 0
NoAnswer == -1
None == -2
Release == 1..MaxRelease
Answer == Release \cup {Unknown, NoAnswer}

VARIABLES
  latest,      \* per upstream: the release its registry names
  stored,      \* .upstream-versions.json
  upstreamPc,  \* 0 not running, 1 looking up, 2 and 3 see UpstreamEffects
  answer,      \* the answers of this run, for the upstreams looked up
  news,        \* new_versions: <<upstream, old, new>>
  lastTold,    \* history: per upstream, what its last delivered alert named
  silent,      \* history: what was filed or posted since then undelivered
  unfiled      \* history: upstreams whose news a run failed to store

upstreamVars == <<latest, stored, upstreamPc, answer, news, lastTold, silent, unfiled>>

AlertFirst == <<"alert", "store">>
UpstreamEffects == <<"store", "alert">>
Performing(effect) == upstreamPc \in {2, 3} /\ UpstreamEffects[upstreamPc - 1] = effect

Finishes == upstreamPc' = 0 /\ answer' = << >> /\ news' = {}
NextStep ==
  IF upstreamPc = 3 THEN Finishes ELSE upstreamPc' = 3 /\ UNCHANGED <<answer, news>>

InNews == {t[1] : t \in news}
Filed == {u \in Upstream : u \in DOMAIN answer /\ stored[u] = answer[u]}

\* The history of a post: delivered, or lost with the run.
Delivered ==
  /\ lastTold' = [u \in Upstream |-> IF u \in InNews THEN answer[u] ELSE lastTold[u]]
  /\ silent' = [u \in Upstream |-> IF u \in InNews THEN None ELSE silent[u]]
  /\ unfiled' = unfiled \ (InNews \cap Filed)
Lost ==
  /\ silent' = [u \in Upstream |-> IF u \in InNews THEN answer[u] ELSE silent[u]]
  /\ unfiled' = unfiled \ (InNews \cap Filed)
  /\ UNCHANGED lastTold

-----------------------------------------------------------------------------
\* GitHub's latest release, or the tag pushed last on Docker Hub: it may return
\* to an earlier one.
Releases(u) ==
  /\ \E v \in Release : latest' = [latest EXCEPT ![u] = v]
  /\ UNCHANGED <<stored, upstreamPc, answer, news, lastTold, silent, unfiled>>

UpstreamCheckStarts ==
  /\ upstreamPc = 0 /\ upstreamPc' = 1
  /\ UNCHANGED <<latest, stored, answer, news, lastTold, silent, unfiled>>

\* get_docker_hub_tag() or get_github_release().
LooksUp(u) ==
  /\ upstreamPc = 1 /\ u \notin DOMAIN answer
  /\ \E v \in {latest[u], Unknown, NoAnswer} :
       answer' = [x \in DOMAIN answer \cup {u} |-> IF x = u THEN v ELSE answer[x]]
  /\ UNCHANGED <<latest, stored, upstreamPc, news, lastTold, silent, unfiled>>

\* Every difference is news, but for an old version that was "unknown".
Compares ==
  /\ upstreamPc = 1 /\ DOMAIN answer = Upstream
  /\ news' = {<<u, stored[u], answer[u]>> :
                u \in {x \in Upstream : answer[x] # stored[x] /\ stored[x] # Unknown}}
  /\ upstreamPc' = 2
  /\ UNCHANGED <<latest, stored, answer, lastTold, silent, unfiled>>

\* "jq > tmp && mv": a jq or a redirect that fails ends neither the list nor,
\* under set -e, the script, which goes on to alert.  (A failing mv ends it.)
Stores ==
  /\ Performing("store")
  /\ \/ /\ stored' = answer
        /\ silent' = [u \in Upstream |-> IF stored[u] = Unknown THEN answer[u] ELSE silent[u]]
        /\ UNCHANGED unfiled
     \/ unfiled' = unfiled \cup InNews /\ UNCHANGED <<stored, silent>>
  /\ NextStep
  /\ UNCHANGED <<latest, lastTold>>

\* One post for all of them, if a webhook is set.  curl -s counts an HTTP error
\* as sent; a curl that fails ends the script (set -e).
Alerts ==
  /\ Performing("alert")
  /\ Delivered \/ Lost
  /\ NextStep
  /\ UNCHANGED <<latest, stored>>

\* Killed halfway, or ended by a failing mv.
UpstreamCheckDies ==
  /\ upstreamPc # 0
  /\ IF Performing("alert") THEN Lost ELSE UNCHANGED <<lastTold, silent, unfiled>>
  /\ Finishes
  /\ UNCHANGED <<latest, stored>>

-----------------------------------------------------------------------------
UpstreamInit ==
  /\ latest = [u \in Upstream |-> 1] /\ stored = [u \in Upstream |-> Unknown]
  /\ upstreamPc = 0 /\ answer = << >> /\ news = {}
  /\ lastTold = [u \in Upstream |-> None] /\ silent = [u \in Upstream |-> None]
  /\ unfiled = {}

UpstreamNext ==
  \/ \E u \in Upstream : Releases(u) \/ LooksUp(u)
  \/ UpstreamCheckStarts \/ Compares \/ Stores \/ Alerts \/ UpstreamCheckDies

UpstreamSpec == UpstreamInit /\ [][UpstreamNext]_upstreamVars

UpstreamTypeOK ==
  /\ latest \in [Upstream -> Release] /\ stored \in [Upstream -> Answer]
  /\ upstreamPc \in 0..3 /\ unfiled \subseteq Upstream
  /\ lastTold \in [Upstream -> Answer \cup {None}] /\ silent \in [Upstream -> Answer \cup {None}]

(* Between runs the version on file is the one last alerted or, its alert lost
   or left out because "unknown" was on file, the one filed since; and no two
   alerts of an upstream in a row name the same version unless another was filed
   between them unalerted.  The one exception is an upstream whose news a run
   could not store: that run alerts all the same, and so does the next.        *)
ReleasesAlertedOnce ==
  \A u \in Upstream \ unfiled :
    /\ upstreamPc = 0 /\ stored[u] # Unknown => stored[u] \in {lastTold[u], silent[u]}
    /\ Performing("alert") /\ u \in InNews => answer[u] # lastTold[u] \/ silent[u] # None

=============================================================================
