---------------------------- MODULE ReportProofs ----------------------------
(*****************************************************************************)
(* Proofs about the jobs that keep a state file or write a report: for      *)
(* each, its inductive invariant, that it holds initially and is kept by    *)
(* every step, and the theorems it gives.                                   *)
(*****************************************************************************)
EXTENDS LibraryReport, HealthCheck, UpstreamCheck, CveScan, ArrBackup, BadFilesReport,
        Reconcile, OrphanFolders, TmdbAudit, TLAPS

-----------------------------------------------------------------------------
(* The library delta report (LibraryReport).                               *)

(* The snapshots that can be on file.                                      *)
Snapshot == [sections : SUBSET Section, pairs : SUBSET Pair]

(* The records a run can be.                                               *)
RunRecord == [left : SUBSET Section, previous : Snapshot, current : Snapshot, removed : SUBSET Pair]

(* Types of Plex, the file and the run.                                    *)
ReportTypes ==
  /\ library \subseteq Pair /\ listed \subseteq Section
  /\ snapshot \in Snapshot /\ \A p \in snapshot.pairs : p[1] \in snapshot.sections
  /\ torn \in BOOLEAN
  /\ reportPc \in 0..3
  /\ run \in RunRecord

(* A run compares with the file it loaded, section by section.                  *)
Compared(r) ==
  /\ r.left \cap r.current.sections = {}
  /\ \A p \in r.removed \cup r.current.pairs : p[1] \in r.current.sections
  /\ r.removed \subseteq r.previous.pairs
  /\ r.removed \cap r.current.pairs = {}

(* What a run compared and found, what the file holds, and who was told of
   what.                                                                   *)
ReportInv ==
  /\ ReportTypes
  /\ Compared(run)
  /\ reportPc = 0 => run = NoRun
  /\ torn => reportPc = 0
  /\ reportPc \in {1, 2} =>
       /\ run.previous = snapshot
       /\ \A p \in run.previous.pairs :
            p[1] \in run.current.sections => p \in run.removed \cup run.current.pairs
  /\ reportPc = 3 => snapshot = run.current
  /\ told \cap (library \cup snapshot.pairs \cup run.current.pairs \cup run.removed) = {}
  /\ gone \subseteq told \cup Pending \cup run.removed \cup lost

(* A run that has not started has compared nothing.                        *)
LEMMA NoRunFacts ==
  /\ NoRun \in RunRecord /\ Compared(NoRun)
  /\ NoRun.left = {} /\ NoRun.removed = {} /\ NoRun.previous = NoSnapshot /\ NoRun.current = NoSnapshot
  /\ NoSnapshot \in Snapshot /\ NoSnapshot.pairs = {} /\ NoSnapshot.sections = {}
BY DEF NoRun, RunRecord, Compared, NoSnapshot, Snapshot

(* Nothing is on file and nobody was told anything.                        *)
LEMMA ReportInvInit == ReportInit => ReportInv
<1> SUFFICES ASSUME ReportInit PROVE ReportInv
  OBVIOUS
<1>1. ReportTypes
  <2>1. torn \in BOOLEAN
    BY DEF ReportInit
  <2>2. reportPc \in 0..3 /\ run \in RunRecord
    BY NoRunFacts DEF ReportInit
  <2> QED BY <2>1, <2>2, NoRunFacts DEF ReportInit, ReportTypes
<1> QED BY <1>1, NoRunFacts DEF ReportInit, ReportInv

(* A run saves, then posts.                                                *)
LEMMA DoingFacts ==
  ASSUME reportPc \in 0..3
  PROVE  (Doing("save") <=> reportPc = 2) /\ (Doing("post") <=> reportPc = 3)
<1>1. Order[1] = "save" /\ Order[2] = "post"
  BY DEF Order
<1> QED BY <1>1 DEF Doing

(* Every step of Plex and of a run keeps it.                               *)
LEMMA ReportInvStep == ReportInv /\ [ReportNext]_reportVars => ReportInv'
<1> SUFFICES ASSUME ReportInv, [ReportNext]_reportVars PROVE ReportInv'
  OBVIOUS
<1> USE DEF ReportInv, ReportTypes
<1>g. CASE ReportNext
  <2>0. gone' = (gone \cup Pending') \ library'
    BY <1>g DEF ReportNext
  <2>1. CASE PlexChanges
    <3>1. library' \subseteq Pair /\ listed' \subseteq Section
      <4>1. \A p \in Pair : Toggle(p, library) \subseteq Pair
        BY DEF Toggle
      <4>2. \A k \in Section : Toggle(k, listed) \subseteq Section
        BY DEF Toggle
      <4> QED BY <2>1, <4>1, <4>2 DEF PlexChanges
    <3>2. /\ told' = told \ library' /\ lost' = lost \ library'
          /\ UNCHANGED <<snapshot, torn, reportPc, run>>
      BY <2>1 DEF PlexChanges
    <3>3. gone' \subseteq told' \cup Pending' \cup run'.removed \cup lost'
      BY <2>0, <3>2 DEF Pending
    <3> QED BY <3>1, <3>2, <3>3
  <2>2. CASE ReportStarts
    <3> DEFINE r == [NoRun EXCEPT !.left = listed, !.previous = snapshot]
    <3>1. /\ r \in RunRecord /\ r.left = listed /\ r.previous = snapshot
          /\ r.current = NoSnapshot /\ r.removed = {}
      BY NoRunFacts DEF RunRecord
    <3>2. /\ reportPc = 0 /\ ~torn /\ reportPc' \in {1, 2} /\ run' = r
          /\ UNCHANGED <<library, listed, snapshot, torn, told, lost>>
      BY <2>2 DEF ReportStarts
    <3> HIDE DEF r
    <3>3. Compared(r)
      BY <3>1, NoRunFacts DEF Compared
    <3>4. gone' \subseteq told' \cup Pending' \cup run'.removed \cup lost'
      BY <2>0, <3>2, NoRunFacts DEF Pending
    <3> QED BY <3>1, <3>2, <3>3, <3>4, NoRunFacts
  <2>3. CASE Saves
    <3>1. reportPc = 2 /\ ~torn
      BY <2>3, DoingFacts DEF Saves
    <3>2. /\ snapshot' = run.current /\ reportPc' = 3
          /\ lost' = lost \cup (NotCompared \ library)
          /\ UNCHANGED <<library, listed, torn, told, run>>
      BY <2>3, <3>1 DEF Saves, Advances, Drops
    <3>3. run.current \in Snapshot /\ run.previous \in Snapshot
      BY DEF RunRecord
    <3>4. gone' \subseteq told' \cup Pending' \cup run'.removed \cup lost'
      BY <2>0, <3>1, <3>2, <3>3 DEF Pending, NotCompared
    <3>5. \A p \in snapshot'.pairs : p[1] \in snapshot'.sections
      BY <3>2 DEF Compared
    <3> QED BY <3>1, <3>2, <3>3, <3>4, <3>5
  <2>4. CASE Posts
    <3>1. reportPc = 3 /\ ~torn
      BY <2>4, DoingFacts DEF Posts
    <3>2. /\ reportPc' = 0 /\ run' = NoRun
          /\ told' = told \cup (run.removed \ library)
          /\ UNCHANGED <<library, listed, snapshot, torn, lost>>
      BY <2>4, <3>1 DEF Posts, Advances, Ends
    <3>3. gone' \subseteq told' \cup Pending' \cup run'.removed \cup lost'
      BY <2>0, <3>2 DEF Pending
    <3>4. run.removed \cap snapshot.pairs = {}
      BY <3>1 DEF Compared
    <3> QED BY <3>1, <3>2, <3>3, <3>4, NoRunFacts
  <2>5. CASE ReportFails
    <3>1. /\ reportPc # 0 /\ reportPc' = 0 /\ run' = NoRun /\ told' = told
          /\ lost' = lost \cup ((IF reportPc = 3 THEN run.removed ELSE {}) \ library)
          /\ UNCHANGED <<library, listed, snapshot, torn>>
      BY <2>5, DoingFacts DEF ReportFails, Ends, Drops
    <3>2. reportPc \in {1, 2} => run.removed \subseteq snapshot.pairs /\ ~torn
      BY DEF Compared
    <3>3. gone' \subseteq told' \cup Pending' \cup run'.removed \cup lost'
      BY <2>0, <3>1, <3>2 DEF Pending
    <3> QED BY <3>1, <3>3, NoRunFacts
  <2>6. CASE SaveTears
    <3>1. /\ reportPc = 2 /\ reportPc' = 0 /\ run' = NoRun /\ told' = told /\ torn' = TRUE
          /\ lost' = lost \cup (snapshot.pairs \ library)
          /\ UNCHANGED <<library, listed, snapshot>>
      BY <2>6, DoingFacts DEF SaveTears, Ends, Drops
    <3>2. run.removed \subseteq snapshot.pairs
      BY <3>1 DEF Compared
    <3>3. gone' \subseteq told' \cup Pending' \cup run'.removed \cup lost'
      BY <2>0, <3>1, <3>2 DEF Pending
    <3> QED BY <3>1, <3>3, NoRunFacts
  <2>7. ASSUME NEW k \in Section, ReadsSection(k) PROVE ReportInv'
    <3> DEFINE now == InSection(k, library)
               c == [sections |-> run.current.sections \cup {k}, pairs |-> run.current.pairs \cup now]
               r == [run EXCEPT !.left = @ \ {k}, !.current = c, !.removed = @ \cup RemovedFrom(k)]
    <3>1. run.current \in Snapshot /\ run.previous \in Snapshot /\ now \subseteq Pair
          /\ RemovedFrom(k) \subseteq Pair
      BY DEF RunRecord, InSection, RemovedFrom, Snapshot
    <3>2. c \in Snapshot /\ c.sections = run.current.sections \cup {k} /\ c.pairs = run.current.pairs \cup now
      BY <3>1 DEF Snapshot
    <3>3. /\ reportPc = 1 /\ k \in run.left /\ reportPc' \in {1, 2}
          /\ run' = [run EXCEPT !.left = @ \ {k}, !.current = [sections |-> @.sections \cup {k},
                    pairs |-> @.pairs \cup InSection(k, library)], !.removed = @ \cup RemovedFrom(k)]
          /\ UNCHANGED <<library, listed, snapshot, torn, told, lost>>
      BY <2>7 DEF ReadsSection
    <3>4. run' = r
      BY <3>3
    <3>5. \A p \in now : p[1] = k /\ p \in library
      BY DEF InSection
    <3>6. \A p \in RemovedFrom(k) : p[1] = k /\ p \in run.previous.pairs /\ p \notin library
      BY DEF InSection, RemovedFrom
    <3>7. \A p \in run.previous.pairs : p[1] = k => p \in RemovedFrom(k) \cup now
      <4>1. run.previous.sections = {} => run.previous.pairs = {}
        BY <3>3
      <4> QED BY <4>1 DEF InSection, RemovedFrom, IsBaseline
    <3> HIDE DEF now, c
    <3>8. /\ r \in RunRecord /\ r.left = run.left \ {k} /\ r.current = c /\ r.previous = run.previous
          /\ r.removed = run.removed \cup RemovedFrom(k)
      BY <3>1, <3>2 DEF RunRecord
    <3> HIDE DEF r
    <3>9. k \notin run.current.sections
      BY <3>3 DEF Compared
    <3>10. Compared(r)
      BY <3>2, <3>5, <3>6, <3>8, <3>9 DEF Compared
    <3>11. gone' \subseteq told' \cup Pending' \cup run'.removed \cup lost'
      BY <2>0, <3>3, <3>4, <3>8 DEF Pending
    <3>12. told \cap (run.previous.pairs \cup library) = {}
      BY <3>3
    <3>13. told' \cap (library' \cup snapshot'.pairs \cup run'.current.pairs \cup run'.removed) = {}
      BY <3>2, <3>3, <3>4, <3>5, <3>6, <3>8, <3>12
    <3>14. \A p \in r.previous.pairs : p[1] \in r.current.sections => p \in r.removed \cup r.current.pairs
      BY <3>2, <3>3, <3>7, <3>8
    <3>15. ReportTypes'
      BY <3>3, <3>4, <3>8
    <3>16. Compared(run')
      BY <3>4, <3>10
    <3>17. run'.previous = snapshot'
      BY <3>3, <3>4, <3>8
    <3>18. ~torn' /\ reportPc' \in {1, 2}
      BY <3>3
    <3> HIDE DEF ReportTypes
    <3> QED BY <3>4, <3>11, <3>13, <3>14, <3>15, <3>16, <3>17, <3>18
  <2> QED BY <1>g, <2>1, <2>2, <2>3, <2>4, <2>5, <2>6, <2>7 DEF ReportNext
<1>u. CASE UNCHANGED reportVars
  <2>1. /\ UNCHANGED <<library, listed, snapshot, torn, reportPc, run>>
        /\ UNCHANGED <<told, lost, gone>>
    BY <1>u DEF reportVars
  <2>2. Pending' = Pending
    BY <2>1 DEF Pending
  <2>3. ReportTypes'
    BY <2>1
  <2>4. Compared(run)'
    BY <2>1 DEF Compared
  <2>5. /\ reportPc' = 0 => run' = NoRun
        /\ reportPc' \in {1, 2} =>
             /\ run'.previous = snapshot'
             /\ \A p \in run'.previous.pairs :
                  p[1] \in run'.current.sections => p \in run'.removed \cup run'.current.pairs
        /\ reportPc' = 3 => snapshot' = run'.current
    BY <2>1
  <2>6. torn' => reportPc' = 0
    BY <2>1
  <2>7. told' \cap (library' \cup snapshot'.pairs \cup run'.current.pairs \cup run'.removed) = {}
    BY <2>1
  <2>8. gone' \subseteq told' \cup Pending' \cup run'.removed \cup lost'
    BY <2>1, <2>2
  <2> HIDE DEF ReportTypes
  <2> QED BY <2>3, <2>4, <2>5, <2>6, <2>7, <2>8
<1> QED BY <1>g, <1>u

(* A title that left Plex after a snapshot saw it is posted, pending or in
   the run's hands unless a failure dropped it, and never posted twice
   (plex-library-report.py, main), for every set of sections and titles.   *)
THEOREM ReportCorrectness == ReportSpec => []RemovalsToldOnce
<1>1. ReportInv => RemovalsToldOnce
  BY DEF ReportInv, RemovalsToldOnce
<1> QED BY ReportInvInit, ReportInvStep, <1>1, PTL DEF ReportSpec

(* The types of the library report.                                        *)
THEOREM ReportTypeCorrectness == ReportSpec => []ReportTypeOK
<1>1. ReportInv => ReportTypeOK
  BY DEF ReportInv, ReportTypes, ReportTypeOK, RunRecord, Snapshot, Compared
<1> QED BY ReportInvInit, ReportInvStep, <1>1, PTL DEF ReportSpec

-----------------------------------------------------------------------------
(* The container health check (HealthCheck).                               *)

(* What Discord was told is what the file says, or will say once it is saved:
   "missed" is what is bad and was not announced, "stale" what was and is not.  *)
Missed(bad) == bad \ announced \subseteq unheard

(* What was announced and is not in bad has recovered unannounced, or the
   run was cut short.                                                      *)
Stale(bad) == ~interrupted => announced \ bad \subseteq unheard

(* What was announced is what is on file, or will be once it is saved.     *)
CheckInv ==
  /\ unhealthy \subseteq Service /\ restarting \subseteq Service /\ badFile \subseteq Service
  /\ announced \subseteq Service /\ unheard \subseteq Service
  /\ poll \in [previous : SUBSET Service, current : SUBSET Service, seen : SUBSET Service]
  /\ checkPc \in 0..4
  /\ checkPc \in {2, 3, 4} => poll.previous = badFile
  /\ checkPc # 4 => Missed(badFile)
  /\ checkPc \in {0, 1, 2} => Stale(badFile)
  /\ checkPc = 3 => Missed(poll.current) /\ Stale(badFile \cup poll.current)
  /\ checkPc = 4 => Missed(poll.current) /\ Stale(poll.current)

(* The type of the flag.                                                   *)
CheckFlag == interrupted \in BOOLEAN

(* Nothing is bad, on file or announced.                                   *)
LEMMA CheckInvInit == CheckInit => CheckInv /\ CheckFlag
<1>1. CheckInit => CheckInv
  BY DEF CheckInit, CheckInv, NoPoll, Missed, Stale
<1>2. CheckInit => CheckFlag
  BY DEF CheckInit, CheckFlag
<1> QED BY <1>1, <1>2

(* A run announces what is bad, then what recovered, then saves.           *)
LEMMA PerformsFacts ==
  ASSUME checkPc \in 0..4
  PROVE  /\ Performs("bad") <=> checkPc = 2
         /\ Performs("recovered") <=> checkPc = 3
         /\ Performs("save") <=> checkPc = 4
<1>1. Effects[1] = "bad" /\ Effects[2] = "recovered" /\ Effects[3] = "save"
  BY DEF Effects
<1> QED BY <1>1 DEF Performs

(* Every step of the containers and of a run keeps it.                     *)
LEMMA CheckInvStep == CheckInv /\ [CheckNext]_checkVars => CheckInv'
<1> SUFFICES ASSUME CheckInv, [CheckNext]_checkVars PROVE CheckInv'
  OBVIOUS
<1> USE DEF CheckInv
<1>1. CASE ContainersChange
  BY <1>1 DEF ContainersChange, Missed, Stale
<1>2. CASE CheckStarts \/ DockerErrors
  BY <1>2 DEF CheckStarts, DockerErrors, Missed, Stale
<1>3. CASE ReadsContainers
  <2>1. /\ checkPc = 1 /\ checkPc' \in {0, 2} /\ poll' = [previous |-> badFile, current |-> Filtered,
                      seen |-> unhealthy \cup restarting]
        /\ UNCHANGED <<unhealthy, restarting, badFile, announced, unheard, interrupted>>
    BY <1>3 DEF ReadsContainers
  <2>2. Filtered \subseteq Service
    BY DEF Filtered
  <2> QED BY <2>1, <2>2 DEF Missed, Stale
<1>4. CASE AnnouncesBad
  <2>1. /\ checkPc = 2 /\ checkPc' = 3
        /\ \/ announced' = announced \cup NewlyBad /\ unheard' = unheard \ NewlyBad
           \/ announced' = announced /\ unheard' = unheard \cup NewlyBad
        /\ UNCHANGED <<unhealthy, restarting, badFile, poll, interrupted>>
    BY <1>4, PerformsFacts DEF AnnouncesBad, Announces, NextEffect
  <2>2. NewlyBad = poll.current \ badFile /\ NewlyBad \subseteq Service
    BY <2>1 DEF NewlyBad
  <2>3. Missed(badFile)' /\ Missed(poll.current)'
    BY <2>1, <2>2 DEF Missed
  <2>4. Stale(badFile \cup poll.current)'
    BY <2>1, <2>2 DEF Stale
  <2> QED BY <2>1, <2>2, <2>3, <2>4
<1>5. CASE AnnouncesRecovered
  <2>1. /\ checkPc = 3 /\ checkPc' = 4
        /\ \/ announced' = announced \ Recovered /\ unheard' = unheard \ Recovered
           \/ announced' = announced /\ unheard' = unheard \cup Recovered
        /\ UNCHANGED <<unhealthy, restarting, badFile, poll, interrupted>>
    BY <1>5, PerformsFacts DEF AnnouncesRecovered, Announces, NextEffect
  <2>2. Recovered = badFile \ poll.current /\ Recovered \subseteq Service
    BY <2>1 DEF Recovered
  <2>3. Missed(poll.current)'
    BY <2>1, <2>2 DEF Missed
  <2>4. Stale(poll.current)'
    BY <2>1, <2>2 DEF Stale
  <2> QED BY <2>1, <2>2, <2>3, <2>4
<1>6. CASE SavesBadSet
  <2>1. /\ checkPc = 4 /\ checkPc' = 0 /\ badFile' = poll.current
        /\ UNCHANGED <<unhealthy, restarting, poll, announced, unheard, interrupted>>
    BY <1>6, PerformsFacts DEF SavesBadSet, NextEffect
  <2> QED BY <2>1 DEF Missed, Stale
<1>7. CASE CheckDies
  <2>1. /\ checkPc \in {2, 3, 4} /\ checkPc' = 0 /\ interrupted'
        /\ badFile' \in {badFile, {}}
        /\ unheard' = unheard \cup (Recovered \ announced)
        /\ UNCHANGED <<unhealthy, restarting, poll, announced>>
    BY <1>7 DEF CheckDies
  <2>2. Recovered = badFile \ poll.current /\ Recovered \subseteq Service
    BY <2>1 DEF Recovered
  <2>3. Missed(badFile)'
    BY <2>1, <2>2 DEF Missed
  <2> QED BY <2>1, <2>2, <2>3 DEF Stale
<1>8. CASE UNCHANGED checkVars
  BY <1>8 DEF checkVars, Missed, Stale
<1> QED BY <1>1, <1>2, <1>3, <1>4, <1>5, <1>6, <1>7, <1>8 DEF CheckNext

(* The flag keeps its type.                                                *)
LEMMA CheckFlagStep == CheckFlag /\ [CheckNext]_checkVars => CheckFlag'
BY DEF CheckFlag, CheckNext, checkVars, ContainersChange, CheckStarts, DockerErrors, ReadsContainers, AnnouncesBad,
  AnnouncesRecovered, Announces, SavesBadSet, CheckDies

(* A failure on file was announced, unless the post was lost, wherever a run
   was cut (check-container-health.sh), for every set of services.         *)
THEOREM CheckCorrectness == CheckSpec => []FiledFailuresWereAnnounced
<1>1. CheckInv => FiledFailuresWereAnnounced
  BY DEF CheckInv, FiledFailuresWereAnnounced, Missed, Stale
<1> QED BY CheckInvInit, CheckInvStep, <1>1, PTL DEF CheckSpec

(* The types of the health check.                                          *)
THEOREM CheckTypeCorrectness == CheckSpec => []CheckTypeOK
<1>1. CheckInv /\ CheckFlag => CheckTypeOK
  BY DEF CheckFlag, CheckInv, CheckTypeOK
<1> QED BY CheckInvInit, CheckInvStep, CheckFlagStep, <1>1, PTL DEF CheckSpec

-----------------------------------------------------------------------------
(* The upstream release check (UpstreamCheck).                             *)

(* Types of the upstreams, the file and the run.                           *)
UpstreamTypes ==
  /\ latest \in [Upstream -> Release]
  /\ stored \in [Upstream -> Answer]
  /\ upstreamPc \in 0..3
  /\ DOMAIN answer \subseteq Upstream /\ answer \in [DOMAIN answer -> Answer]
  /\ unfiled \subseteq Upstream
  /\ lastTold \in [Upstream -> Answer \cup {None}] /\ silent \in [Upstream -> Answer \cup {None}]

(* What the run found new.                                                 *)
NewsInv ==
  /\ upstreamPc \in {0, 1} => news = {}
  /\ upstreamPc = 0 => DOMAIN answer = {}
  /\ upstreamPc \in {2, 3} => DOMAIN answer = Upstream
  /\ InNews \subseteq Upstream
  /\ upstreamPc = 2 => \A u \in Upstream :
       u \in InNews <=> answer[u] # stored[u] /\ stored[u] # Unknown

(* The version on file was alerted last, or is known not to have been.     *)
OnFile(u) == stored[u] # Unknown => stored[u] \in {lastTold[u], silent[u]}

(* What a run that stored its news alerts is on file, and is not what was
   alerted last.                                                           *)
InHandOf(u) ==
  /\ ~(upstreamPc = 3 /\ u \in InNews) => OnFile(u)
  /\ upstreamPc = 3 /\ u \in InNews =>
       stored[u] = answer[u] /\ (answer[u] # lastTold[u] \/ silent[u] # None)

(* The parts together.                                                     *)
UpstreamInv == UpstreamTypes /\ NewsInv /\ \A u \in Upstream \ unfiled : InHandOf(u)

(* Unknown, NoAnswer and None are no releases.                             *)
LEMMA Versions == /\ 1 \in Release /\ Release \subseteq Answer
                  /\ Unknown \in Answer /\ NoAnswer \in Answer /\ None \notin Answer
BY UpstreamAssumption DEF Release, Answer, Unknown, NoAnswer, None

(* A run that has not started has no answers.                              *)
LEMMA NoAnswers == DOMAIN << >> = {} /\ << >> \in [{} -> Answer]
OBVIOUS

(* Nothing is on file and no run has started.                              *)
LEMMA UpstreamInvInit == UpstreamInit => UpstreamInv
<1> SUFFICES ASSUME UpstreamInit PROVE UpstreamInv
  OBVIOUS
<1>1. UpstreamTypes
  BY Versions, NoAnswers DEF UpstreamInit, UpstreamTypes
<1>2. NewsInv /\ \A u \in Upstream : InHandOf(u)
  BY NoAnswers DEF UpstreamInit, NewsInv, InNews, InHandOf, OnFile
<1> QED BY <1>1, <1>2 DEF UpstreamInv

(* A run may end when its news has not been stored yet, was stored and then
   alerted, or was lost.                                                   *)
LEMMA FinishFacts ==
  ASSUME UpstreamInv, Finishes, UNCHANGED <<latest, stored>>,
         IF upstreamPc = 3 THEN Delivered \/ Lost ELSE UNCHANGED <<lastTold, silent, unfiled>>
  PROVE  UpstreamInv'
<1> USE DEF UpstreamInv
<1>1. answer' = << >> /\ news' = {} /\ upstreamPc' = 0
  BY DEF Finishes
<1>2. NewsInv'
  BY <1>1, NoAnswers DEF NewsInv, InNews
<1>3. CASE upstreamPc = 3
  <2>1. DOMAIN answer = Upstream /\ \A u \in Upstream : answer[u] \in Answer
    BY <1>3 DEF NewsInv, UpstreamTypes
  <2>2. /\ lastTold' \in [Upstream -> Answer \cup {None}] /\ silent' \in [Upstream -> Answer \cup {None}]
        /\ unfiled' = unfiled \ (InNews \cap Filed)
    BY <1>3, <2>1 DEF Delivered, Lost, UpstreamTypes
  <2>3. UpstreamTypes'
    BY <1>1, <2>2, NoAnswers DEF UpstreamTypes
  <2>4. ASSUME NEW u \in Upstream \ unfiled' PROVE OnFile(u)'
    <3>1. CASE u \in InNews
      <4>1. stored[u] = answer[u]
        BY <1>3, <2>2, <2>4, <3>1 DEF InHandOf, Filed
      <4>2. lastTold'[u] = answer[u] \/ silent'[u] = answer[u]
        BY <1>3, <3>1 DEF Delivered, Lost
      <4> QED BY <4>1, <4>2 DEF OnFile
    <3>2. CASE u \notin InNews
      <4>1. OnFile(u)
        BY <2>2, <2>4, <3>2 DEF InHandOf
      <4>2. lastTold'[u] = lastTold[u] /\ silent'[u] = silent[u]
        BY <1>3, <3>2 DEF Delivered, Lost, UpstreamTypes
      <4> QED BY <4>1, <4>2 DEF OnFile
    <3> QED BY <3>1, <3>2
  <2> QED BY <1>1, <1>2, <2>3, <2>4 DEF InHandOf
<1>4. CASE upstreamPc # 3
  <2>1. UNCHANGED <<lastTold, silent, unfiled>>
    BY <1>4
  <2>2. UpstreamTypes'
    BY <1>1, <2>1, NoAnswers DEF UpstreamTypes
  <2>3. ASSUME NEW u \in Upstream \ unfiled' PROVE InHandOf(u)'
    BY <1>1, <1>4, <2>1 DEF InHandOf, OnFile
  <2> QED BY <1>2, <2>2, <2>3
<1> QED BY <1>3, <1>4

(* Every step of the upstreams and of a run keeps it.                      *)
LEMMA UpstreamInvStep == UpstreamInv /\ [UpstreamNext]_upstreamVars => UpstreamInv'
<1> SUFFICES ASSUME UpstreamInv, [UpstreamNext]_upstreamVars PROVE UpstreamInv'
  OBVIOUS
<1> USE DEF UpstreamInv
<1>1. ASSUME NEW u \in Upstream, Releases(u) PROVE UpstreamInv'
  <2>1. latest' \in [Upstream -> Release]
    BY <1>1 DEF Releases, UpstreamTypes
  <2>2. UNCHANGED <<stored, upstreamPc, answer, news, lastTold, silent, unfiled>>
    BY <1>1 DEF Releases
  <2> QED BY <2>1, <2>2 DEF UpstreamTypes, NewsInv, InHandOf, OnFile, InNews
<1>2. CASE UpstreamCheckStarts
  <2>1. /\ upstreamPc = 0 /\ upstreamPc' = 1
        /\ UNCHANGED <<latest, stored, answer, news, lastTold, silent, unfiled>>
    BY <1>2 DEF UpstreamCheckStarts
  <2> QED BY <2>1 DEF UpstreamTypes, NewsInv, InHandOf, OnFile, InNews
<1>3. ASSUME NEW u \in Upstream, LooksUp(u) PROVE UpstreamInv'
  <2>1. PICK v \in {latest[u], Unknown, NoAnswer} :
          answer' = [x \in DOMAIN answer \cup {u} |-> IF x = u THEN v ELSE answer[x]]
    BY <1>3 DEF LooksUp
  <2>2. /\ upstreamPc = 1 /\ UNCHANGED <<latest, stored, upstreamPc, news, lastTold, silent, unfiled>>
    BY <1>3 DEF LooksUp
  <2>3. v \in Answer
    BY <2>1, Versions DEF UpstreamTypes
  <2>4. DOMAIN answer' = DOMAIN answer \cup {u} /\ answer' \in [DOMAIN answer' -> Answer]
    BY <2>1, <2>3 DEF UpstreamTypes
  <2>5. UpstreamTypes'
    BY <2>2, <2>4 DEF UpstreamTypes
  <2> QED BY <2>2, <2>5 DEF NewsInv, InHandOf, OnFile, InNews
<1>4. CASE Compares
  <2> DEFINE New == {x \in Upstream : answer[x] # stored[x] /\ stored[x] # Unknown}
  <2>1. /\ upstreamPc = 1 /\ DOMAIN answer = Upstream /\ upstreamPc' = 2
        /\ news' = {<<u, stored[u], answer[u]>> : u \in New}
        /\ UNCHANGED <<latest, stored, answer, lastTold, silent, unfiled>>
    BY <1>4 DEF Compares
  <2>2. \A t \in news' : t[1] \in New
    BY <2>1
  <2>3. ASSUME NEW u \in New PROVE \E t \in news' : t[1] = u
    <3> DEFINE t == <<u, stored[u], answer[u]>>
    <3>1. t[1] = u /\ t \in news'
      BY <2>1
    <3> QED BY <3>1
  <2>4. InNews' = New
    BY <2>2, <2>3 DEF InNews
  <2>5. UpstreamTypes' /\ NewsInv'
    BY <2>1, <2>4 DEF UpstreamTypes, NewsInv
  <2>6. \A u \in Upstream \ unfiled' : InHandOf(u)'
    BY <2>1 DEF InHandOf, OnFile
  <2> QED BY <2>5, <2>6
<1>5. CASE Stores
  <2>1. upstreamPc = 2 /\ DOMAIN answer = Upstream
    BY <1>5 DEF Stores, Performing, UpstreamEffects, UpstreamTypes, NewsInv
  <2>2. upstreamPc' = 3 /\ UNCHANGED <<latest, answer, news, lastTold>> /\ InNews' = InNews
    BY <1>5, <2>1 DEF Stores, NextStep, InNews
  <2>3. CASE stored' = answer /\ UNCHANGED unfiled
             /\ silent' = [u \in Upstream |-> IF stored[u] = Unknown THEN answer[u] ELSE silent[u]]
    <3>1. UpstreamTypes' /\ NewsInv'
      BY <2>1, <2>2, <2>3 DEF UpstreamTypes, NewsInv
    <3>2. ASSUME NEW u \in Upstream \ unfiled, u \in InNews PROVE InHandOf(u)'
      <4>1. answer[u] # stored[u] /\ stored[u] # Unknown /\ stored[u] \in Answer /\ OnFile(u)
        BY <2>1, <3>2 DEF NewsInv, UpstreamTypes, InHandOf
      <4>2. silent'[u] = silent[u] /\ stored'[u] = answer[u]
        BY <2>3, <4>1
      <4>3. answer[u] # lastTold[u] \/ silent[u] # None
        BY <4>1, Versions DEF OnFile
      <4> QED BY <2>2, <3>2, <4>2, <4>3 DEF InHandOf
    <3>3. ASSUME NEW u \in Upstream \ unfiled, u \notin InNews PROVE InHandOf(u)'
      <4>1. OnFile(u) /\ (answer[u] = stored[u] \/ stored[u] = Unknown)
        BY <2>1, <3>3 DEF NewsInv, InHandOf
      <4>2. OnFile(u)'
        BY <2>2, <2>3, <4>1 DEF OnFile
      <4> QED BY <2>2, <3>3, <4>2 DEF InHandOf
    <3> QED BY <2>3, <3>1, <3>2, <3>3
  <2>4. CASE unfiled' = unfiled \cup InNews /\ UNCHANGED <<stored, silent>>
    <3>1. UpstreamTypes' /\ NewsInv'
      BY <2>1, <2>2, <2>4 DEF UpstreamTypes, NewsInv
    <3>2. \A u \in Upstream \ unfiled' : InHandOf(u)'
      BY <2>1, <2>2, <2>4 DEF InHandOf, OnFile
    <3> QED BY <3>1, <3>2
  <2> QED BY <1>5, <2>3, <2>4 DEF Stores
<1>6. CASE Alerts
  <2>1. upstreamPc = 3
    BY <1>6 DEF Alerts, Performing, UpstreamEffects, UpstreamTypes
  <2>2. Finishes /\ UNCHANGED <<latest, stored>> /\ (Delivered \/ Lost)
    BY <1>6, <2>1 DEF Alerts, NextStep
  <2> QED BY <2>1, <2>2, FinishFacts
<1>7. CASE UpstreamCheckDies
  <2>1. Performing("alert") <=> upstreamPc = 3
    BY DEF Performing, UpstreamEffects, UpstreamTypes
  <2>2. Finishes /\ UNCHANGED <<latest, stored>>
        /\ IF upstreamPc = 3 THEN Lost ELSE UNCHANGED <<lastTold, silent, unfiled>>
    BY <1>7, <2>1 DEF UpstreamCheckDies
  <2> QED BY <2>2, FinishFacts
<1>8. CASE UNCHANGED upstreamVars
  <2>1. UNCHANGED <<latest, stored, upstreamPc, answer, news, lastTold, silent, unfiled>>
    BY <1>8 DEF upstreamVars
  <2> QED BY <2>1 DEF UpstreamTypes, NewsInv, InHandOf, OnFile, InNews
<1> QED BY <1>1, <1>2, <1>3, <1>4, <1>5, <1>6, <1>7, <1>8 DEF UpstreamNext

(* Unless a run failed to store its news, the version on file is the one
   alerted last or is known not to have been alerted, and no version is
   alerted twice in a row (check-upstream-updates.sh), for every set of
   upstreams and number of releases.                                       *)
THEOREM UpstreamCorrectness == UpstreamSpec => []ReleasesAlertedOnce
<1>1. UpstreamInv => ReleasesAlertedOnce
  <2> SUFFICES ASSUME UpstreamInv, NEW u \in Upstream \ unfiled
               PROVE  /\ upstreamPc = 0 /\ stored[u] # Unknown => stored[u] \in {lastTold[u], silent[u]}
                      /\ Performing("alert") /\ u \in InNews =>
                           answer[u] # lastTold[u] \/ silent[u] # None
    BY DEF ReleasesAlertedOnce
  <2>1. Performing("alert") => upstreamPc = 3
    BY DEF Performing, UpstreamEffects, UpstreamInv, UpstreamTypes
  <2>2. InHandOf(u)
    BY DEF UpstreamInv
  <2> QED BY <2>1, <2>2 DEF InHandOf, OnFile
<1> QED BY UpstreamInvInit, UpstreamInvStep, <1>1, PTL DEF UpstreamSpec

(* The types of the upstream check.                                        *)
THEOREM UpstreamTypeCorrectness == UpstreamSpec => []UpstreamTypeOK
<1>1. UpstreamInv => UpstreamTypeOK
  BY DEF UpstreamInv, UpstreamTypes, UpstreamTypeOK
<1> QED BY UpstreamInvInit, UpstreamInvStep, <1>1, PTL DEF UpstreamSpec

-----------------------------------------------------------------------------
(* The vulnerability scan (CveScan).                                       *)

(* The sums of a scan.                                                     *)
Sum == [critical : Nat, high : Nat]

(* Types of the images, the file and the scan.                             *)
CveTypes ==
  /\ vulns \in [Image -> Counts] /\ scanned \subseteq Image
  /\ scanPc \in 0..3
  /\ sums \in Sum
  /\ scans \in Sum \cup {NoScan} /\ previous \in Sum \cup {NoScan} /\ complete \in Sum \cup {NoScan}
  /\ previous # NoScan => scanPc = 3

(* Types of the flags.                                                     *)
CveFlags == missed \in BOOLEAN /\ warned \in BOOLEAN

(* Unless somebody was warned, no scan on file is above the last complete one.  *)
NotAbove(scan) ==
  complete # NoScan => scan # NoScan /\ (warned \/ scan.critical <= complete.critical)

(* The scan on file, or the one it replaces, is not above the last complete
   one.                                                                    *)
CveInv ==
  /\ CveTypes
  /\ scanPc # 3 => NotAbove(scans)
  /\ scanPc = 3 => scans = sums /\ NotAbove(previous)

(* Adding the counts of an image to a sum gives a sum.                     *)
LEMMA SumFacts ==
  /\ NoScan \notin Sum /\ Nothing \in Sum /\ Nothing.critical = 0
  /\ Counts \subseteq Sum /\ Nothing \in Counts
  /\ \A s \in Sum : \A c \in Sum : Plus(s, c) \in Sum
<1>1. NoScan.critical = -1 /\ Nothing \in Sum /\ Nothing.critical = 0
  BY DEF NoScan, Nothing, Sum
<1>2. NoScan \notin Sum
  BY <1>1 DEF Sum
<1>3. Counts \subseteq Sum /\ Nothing \in Counts
  BY CveAssumption DEF Counts, Sum, Nothing
<1>4. \A s \in Sum : \A c \in Sum : Plus(s, c) \in Sum
  BY DEF Plus, Sum
<1> QED BY <1>1, <1>2, <1>3, <1>4

(* No scan is on file.                                                     *)
LEMMA CveInvInit == CveInit => CveInv /\ CveFlags
<1> SUFFICES ASSUME CveInit PROVE CveInv /\ CveFlags
  OBVIOUS
<1>1. CveTypes
  BY SumFacts DEF CveInit, CveTypes
<1>2. CveFlags
  BY DEF CveInit, CveFlags
<1> QED BY <1>1, <1>2 DEF CveInit, CveInv, NotAbove

(* The end of a run keeps the types.                                       *)
LEMMA RunEndFacts ==
  ASSUME CveTypes, RunEnds, UNCHANGED vulns, scans' \in Sum \cup {NoScan}, complete' \in Sum \cup {NoScan}
  PROVE  CveTypes' /\ scanPc' = 0
BY SumFacts DEF CveTypes, RunEnds

(* Every step of the images and of a scan keeps it.                        *)
LEMMA CveInvStep == CveInv /\ [CveNext]_cveVars => CveInv'
<1> SUFFICES ASSUME CveInv, [CveNext]_cveVars PROVE CveInv'
  OBVIOUS
<1> USE DEF CveInv
<1>1. ASSUME NEW i \in Image, VulnsChange(i) PROVE CveInv'
  <2>1. PICK c \in Counts : vulns' = [vulns EXCEPT ![i] = c]
    BY <1>1 DEF VulnsChange
  <2>2. UNCHANGED <<scans, scanPc, scanned, sums, missed, previous, complete, warned>>
    BY <1>1 DEF VulnsChange
  <2>3. CveTypes'
    BY <2>1, <2>2 DEF CveTypes
  <2> QED BY <2>2, <2>3 DEF NotAbove
<1>2. CASE ScanStarts
  <2>1. /\ scanPc = 0 /\ scanPc' = 1
        /\ UNCHANGED <<vulns, scans, scanned, sums, missed, previous, complete, warned>>
    BY <1>2 DEF ScanStarts
  <2>2. CveTypes'
    BY <2>1 DEF CveTypes
  <2> QED BY <2>1, <2>2 DEF NotAbove
<1>3. ASSUME NEW i \in Image, ScansImage(i) PROVE CveInv'
  <2>1. /\ scanPc = 1 /\ scanPc' \in {1, 2} /\ scanned' = scanned \cup {i}
        /\ sums' = Plus(sums, vulns[i]) \/ sums' = sums
        /\ UNCHANGED <<vulns, scans, previous, complete, warned>>
    BY <1>3 DEF ScansImage
  <2>2. vulns[i] \in Sum
    BY SumFacts DEF CveTypes
  <2>3. CveTypes'
    BY <2>1, <2>2, SumFacts DEF CveTypes
  <2> QED BY <2>1, <2>3 DEF NotAbove
<1>4. CASE StoresScan
  <2>1. /\ scanPc = 2 /\ scanPc' = 3 /\ previous' = scans /\ scans' = sums
        /\ UNCHANGED <<vulns, scanned, sums, missed, complete, warned>>
    BY <1>4 DEF StoresScan, PreviousScan
  <2>2. CveTypes'
    BY <2>1 DEF CveTypes
  <2> QED BY <2>1, <2>2 DEF NotAbove
<1>5. CASE ComparesScans
  <2>1. /\ scanPc = 3 /\ Concludes(Surge) /\ RunEnds /\ UNCHANGED <<vulns, scans>>
        /\ scans = sums /\ sums \in Sum /\ NotAbove(previous)
    BY <1>5 DEF ComparesScans, CveTypes
  <2>2. CASE missed
    <3>1. warned' = (warned \/ Surge) /\ complete' = complete
      BY <2>1, <2>2 DEF Concludes
    <3>2. CveTypes' /\ scanPc' = 0
      BY <2>1, <3>1, RunEndFacts DEF CveTypes
    <3>3. ASSUME complete # NoScan, ~warned, ~Surge PROVE sums.critical <= complete.critical
      <4>1. previous # NoScan /\ previous.critical <= complete.critical
        BY <2>1, <3>3 DEF NotAbove
      <4>2. previous \in Sum /\ complete \in Sum
        BY <3>3, <4>1 DEF CveTypes
      <4>3. ~(sums.critical > previous.critical)
        BY <3>3, <4>1 DEF Surge, CriticalSurge
      <4> QED BY <2>1, <4>1, <4>2, <4>3 DEF Sum
    <3>4. NotAbove(scans)'
      BY <2>1, <3>1, <3>3, SumFacts DEF NotAbove
    <3> QED BY <3>2, <3>4
  <2>3. CASE ~missed
    <3>1. complete' = sums
      BY <2>1, <2>3 DEF Concludes
    <3>2. CveTypes' /\ scanPc' = 0
      BY <2>1, <3>1, RunEndFacts DEF CveTypes
    <3>3. NotAbove(scans)'
      BY <2>1, <3>1, SumFacts DEF NotAbove, Sum
    <3> QED BY <3>2, <3>3
  <2> QED BY <2>2, <2>3
<1>6. CASE ScanDies
  <2>1. CveTypes' /\ scanPc' = 0 /\ UNCHANGED <<scans, complete, warned>> /\ scanPc \in {1, 2}
    BY <1>6, RunEndFacts DEF ScanDies, CveTypes
  <2> QED BY <2>1 DEF NotAbove
<1>7. CASE DiesBeforeAlert
  <2>1. CveTypes' /\ scanPc' = 0 /\ UNCHANGED scans /\ warned' /\ scans \in Sum
    BY <1>7, RunEndFacts DEF DiesBeforeAlert, CveTypes
  <2> QED BY <2>1, SumFacts DEF NotAbove
<1>8. CASE ScanFileTears
  <2>1. CveTypes' /\ scanPc' = 0 /\ scans' = Nothing /\ UNCHANGED complete
    BY <1>8, RunEndFacts, SumFacts DEF ScanFileTears, CveTypes
  <2>2. complete # NoScan => Nothing.critical <= complete.critical
    BY SumFacts DEF CveTypes, Sum
  <2> QED BY <2>1, <2>2, SumFacts DEF NotAbove
<1>9. CASE UNCHANGED cveVars
  <2>1. UNCHANGED <<vulns, scans, scanPc, scanned, sums, missed, previous, complete, warned>>
    BY <1>9 DEF cveVars
  <2>2. CveTypes'
    BY <2>1 DEF CveTypes
  <2> QED BY <2>1, <2>2 DEF NotAbove
<1> QED BY <1>1, <1>2, <1>3, <1>4, <1>5, <1>6, <1>7, <1>8, <1>9 DEF CveNext

(* The flags keep their types.                                             *)
LEMMA CveFlagsStep == CveFlags /\ [CveNext]_cveVars => CveFlags'
BY DEF CveFlags, CveNext, cveVars, VulnsChange, ScansImage, ScanStarts, StoresScan, ComparesScans,
       ScanDies, DiesBeforeAlert, ScanFileTears, RunEnds, Concludes, Surge, CriticalSurge, HighSurge

(* A rise of the critical count between complete scans is alerted, whatever
   incomplete scans and torn files lie between, unless a run died before its
   alert (weekly-cve-scan.sh), for every set of images and counts.         *)
THEOREM CveCorrectness == CveSpec => []CriticalRiseIsAlerted
<1>1. CveInv => CriticalRiseIsAlerted
  <2> SUFFICES ASSUME CveInv, scanPc = 3, complete # NoScan, sums.critical > complete.critical, ~warned
               PROVE  Surge
    BY DEF CriticalRiseIsAlerted
  <2>1. previous # NoScan /\ previous.critical <= complete.critical
    BY DEF CveInv, NotAbove
  <2>2. previous \in Sum /\ complete \in Sum /\ sums \in Sum
    BY <2>1 DEF CveInv, CveTypes
  <2> QED BY <2>1, <2>2 DEF Surge, CriticalSurge, Sum
<1> QED BY CveInvInit, CveInvStep, <1>1, PTL DEF CveSpec

(* The types of the vulnerability scan.                                    *)
THEOREM CveTypeCorrectness == CveSpec => []CveTypeOK
<1>1. CveInv /\ CveFlags => CveTypeOK
  BY DEF CveInv, CveTypes, CveFlags, CveTypeOK
<1> QED BY CveInvInit, CveInvStep, CveFlagsStep, <1>1, PTL DEF CveSpec

-----------------------------------------------------------------------------
(* The backup run (ArrBackup).                                             *)

(* The states of an app's backup command.                                  *)
CommandState == {"none", "queued", "started", "completed", "failed"}

(* Types of the commands and of the run.                                   *)
BackupTypes ==
  /\ command \in [ArrApp -> CommandState] /\ answered \in CommandState
  /\ backupPc \in {"idle", "trigger", "poll", "post", "ended"}
  /\ turn \in DOMAIN ArrApps /\ polls \in 0..MaxPolls
  /\ result \in [ArrApp -> {"none", "ok", "failed"}]

(* The type of the flag.                                                   *)
BackupFlags == green \in BOOLEAN

(* The apps from the current one on have no result yet, and what was answered *)
(* as completed stays so.                                                     *)
BackupInv ==
  /\ BackupTypes
  /\ backupPc \in {"trigger", "poll"} => \A i \in turn..Len(ArrApps) : result[ArrApps[i]] = "none"
  /\ backupPc = "poll" => (answered = "completed" => command[Current] = "completed")
  /\ \A a \in ArrApp : result[a] = "ok" => command[a] = "completed"
  /\ backupPc = "ended" /\ green => \A a \in ArrApp : result[a] = "ok"

(* No app has a result.                                                    *)
LEMMA BackupInvInit == BackupInit => BackupInv
<1> SUFFICES ASSUME BackupInit PROVE BackupInv
  OBVIOUS
<1>1. BackupTypes
  BY BackupAssumption DEF BackupInit, BackupTypes, CommandState
<1> QED BY <1>1 DEF BackupInit, BackupInv

(* The run visits the apps of its list.                                    *)
LEMMA CurrentFacts ==
  ASSUME BackupInv
  PROVE  Current \in ArrApp
BY DEF BackupInv, BackupTypes, Current, ArrApp

(* The result of the current app leaves the next apps without one.             *)
LEMMA ResultFacts ==
  ASSUME BackupInv, NEW ok \in BOOLEAN, ResultIs(ok), backupPc \in {"trigger", "poll"},
         command' \in [ArrApp -> CommandState],
         \A a \in ArrApp : result[a] = "ok" => command'[a] = "completed",
         ok => command'[Current] = "completed"
  PROVE  BackupInv'
<1> USE DEF BackupInv, BackupTypes
<1>1. Current \in ArrApp
  BY CurrentFacts
<1> DEFINE v == IF ok THEN "ok" ELSE "failed"
<1>2. /\ result' = [result EXCEPT ![Current] = v]
      /\ backupPc' = (IF turn = Len(ArrApps) THEN "post" ELSE "trigger")
      /\ turn' = (IF turn = Len(ArrApps) THEN turn ELSE turn + 1)
      /\ UNCHANGED <<answered, polls, green>>
  BY DEF ResultIs
<1>3. v \in {"ok", "failed"} /\ (v = "ok" => command'[Current] = "completed")
  OBVIOUS
<1> HIDE DEF v
<1>4. result' \in [ArrApp -> {"none", "ok", "failed"}]
  BY <1>1, <1>2, <1>3
<1>5. turn' \in DOMAIN ArrApps
  BY <1>2, BackupAssumption
<1>6. BackupTypes'
  BY <1>2, <1>4, <1>5
<1>7. backupPc' = "trigger" => \A i \in turn'..Len(ArrApps) : result'[ArrApps[i]] = "none"
  <2> SUFFICES ASSUME backupPc' = "trigger", NEW i \in turn'..Len(ArrApps)
               PROVE  result'[ArrApps[i]] = "none"
    OBVIOUS
  <2>1. turn' = turn + 1 /\ turn \in 1..Len(ArrApps)
    BY <1>2, BackupAssumption
  <2>2. i \in turn..Len(ArrApps) /\ i # turn /\ i \in DOMAIN ArrApps
    BY <2>1, BackupAssumption
  <2>3. ArrApps[i] # Current /\ ArrApps[i] \in ArrApp
    BY <2>2, BackupAssumption DEF Current, ArrApp
  <2>4. result[ArrApps[i]] = "none"
    BY <2>2
  <2> QED BY <1>2, <2>3, <2>4
<1>8. \A a \in ArrApp : result'[a] = "ok" => command'[a] = "completed"
  BY <1>1, <1>2, <1>3
<1>9. backupPc' \notin {"poll", "ended"}
  BY <1>2
<1> HIDE DEF BackupTypes
<1> QED BY <1>6, <1>7, <1>8, <1>9

(* A request changes the command of an app that has no result.                 *)
LEMMA RequestFacts ==
  ASSUME BackupInv, backupPc = "trigger", Requested
  PROVE  /\ command' \in [ArrApp -> CommandState]
         /\ command'[Current] \in {"queued", "started"}
         /\ \A a \in ArrApp : result[a] = "ok" => command'[a] = "completed"
<1> USE DEF BackupInv, BackupTypes
<1>1. Current \in ArrApp /\ result[Current] = "none"
  BY CurrentFacts, BackupAssumption DEF Current
<1> QED BY <1>1 DEF Requested, Unfinished, CommandState

(* Every step of the apps and of a run keeps it.                           *)
LEMMA BackupInvStep == BackupInv /\ [BackupNext]_backupVars => BackupInv'
<1> SUFFICES ASSUME BackupInv, [BackupNext]_backupVars PROVE BackupInv'
  OBVIOUS
<1> USE DEF BackupInv
<1>1. ASSUME NEW a \in ArrApp, CommandProceeds(a) PROVE BackupInv'
  <2>1. PICK s \in {"failed", IF command[a] = "queued" THEN "started" ELSE "completed"} :
          command' = [command EXCEPT ![a] = s]
    BY <1>1 DEF CommandProceeds
  <2>2. s \in CommandState
    BY <2>1 DEF CommandState
  <2>3. command[a] # "completed" /\ UNCHANGED <<backupPc, turn, answered, polls, result, green>>
    BY <1>1 DEF CommandProceeds, Unfinished, GoesOn
  <2>4. command' \in [ArrApp -> CommandState] /\ \A b \in ArrApp : command[b] = "completed" => command'[b] = "completed"
    BY <2>1, <2>2, <2>3 DEF BackupTypes
  <2>5. Current' = Current /\ Current \in ArrApp
    BY <2>3, CurrentFacts DEF Current
  <2> QED BY <2>3, <2>4, <2>5 DEF BackupTypes
<1>2. CASE BackupStarts
  <2>1. turn' = 1 /\ 1 \in DOMAIN ArrApps
    BY <1>2, BackupAssumption DEF BackupStarts
  <2>2. result' = [a \in ArrApp |-> "none"] /\ backupPc' = "trigger"
        /\ UNCHANGED <<command, answered, polls, green>>
    BY <1>2 DEF BackupStarts
  <2>3. \A i \in 1..Len(ArrApps) : result'[ArrApps[i]] = "none"
    BY <2>2, BackupAssumption DEF ArrApp
  <2> QED BY <2>1, <2>2, <2>3 DEF BackupTypes
<1>3. CASE TriggersBackup
  <2>1. /\ backupPc = "trigger" /\ Requested /\ backupPc' = "poll" /\ answered' = command'[Current]
        /\ polls' = 0 /\ UNCHANGED <<turn, result, green>>
    BY <1>3 DEF TriggersBackup
  <2>2. Current' = Current /\ answered' \in {"queued", "started"}
    BY <2>1, RequestFacts DEF Current
  <2>3. BackupTypes'
    BY <2>1, <2>2, RequestFacts, BackupAssumption DEF BackupTypes, CommandState
  <2> QED BY <2>1, <2>2, <2>3, RequestFacts
<1>4. CASE TriggerFails
  <2>1. backupPc = "trigger" /\ ResultIs(FALSE) /\ (Requested \/ command' = command)
    BY <1>4 DEF TriggerFails
  <2> QED BY <2>1, RequestFacts, ResultFacts DEF BackupTypes
<1>5. CASE PollsCommand
  <2>1. /\ backupPc = "poll" /\ polls < MaxPolls /\ answered' = command[Current] /\ polls' = polls + 1
        /\ UNCHANGED <<command, backupPc, turn, result, green>>
    BY <1>5 DEF PollsCommand, StillWaits
  <2>2. Current' = Current /\ Current \in ArrApp
    BY <2>1, CurrentFacts DEF Current
  <2> QED BY <2>1, <2>2, BackupAssumption DEF BackupTypes
<1>6. CASE PollFails
  BY <1>6, ResultFacts DEF PollFails, StillWaits, BackupTypes
<1>7. CASE CommandConcluded
  <2>1. Ok(answered) \in BOOLEAN /\ (Ok(answered) => command[Current] = "completed")
        /\ command' = command /\ backupPc = "poll"
    BY <1>7 DEF CommandConcluded, Ok
  <2> QED BY <1>7, <2>1, ResultFacts DEF CommandConcluded, BackupTypes
<1>8. CASE PostsResults
  <2>1. /\ green' = (\A a \in ArrApp : result[a] = "ok") /\ backupPc' = "ended"
        /\ UNCHANGED <<command, turn, answered, polls, result>>
    BY <1>8 DEF PostsResults
  <2>2. green' => \A a \in ArrApp : result'[a] = "ok"
    BY <2>1
  <2>3. BackupTypes'
    BY <2>1 DEF BackupTypes
  <2> QED BY <2>1, <2>2, <2>3
<1>9. CASE BackupRaises
  BY <1>9 DEF BackupRaises, BackupTypes
<1>10. CASE UNCHANGED backupVars
  BY <1>10 DEF backupVars, BackupTypes, Current
<1> QED BY <1>1, <1>2, <1>3, <1>4, <1>5, <1>6, <1>7, <1>8, <1>9, <1>10 DEF BackupNext

(* The flag keeps its type.                                                *)
LEMMA BackupFlagsStep == BackupFlags /\ [BackupNext]_backupVars => BackupFlags'
BY DEF BackupFlags, BackupNext, backupVars, CommandProceeds, GoesOn, BackupStarts, TriggersBackup,
       TriggerFails, PollsCommand, PollFails, CommandConcluded, PostsResults, BackupRaises, ResultIs

(* A backup reported as done is one the app completed, and a green report
   covers every app (arr-app-backup.py, trigger_backup, main), for every
   list of apps and number of polls.                                       *)
THEOREM BackupCorrectness == BackupSpec => []ReportedBackupsAreDone
<1>1. BackupInv => ReportedBackupsAreDone
  BY DEF BackupInv, ReportedBackupsAreDone
<1> QED BY BackupInvInit, BackupInvStep, <1>1, PTL DEF BackupSpec

(* The types of the backup run.                                            *)
THEOREM BackupTypeCorrectness == BackupSpec => []BackupTypeOK
<1>1. BackupInv /\ BackupFlags => BackupTypeOK
  BY DEF BackupInv, BackupFlags, BackupTypes, BackupTypeOK, CommandState
<1>2. BackupInit => BackupFlags
  BY DEF BackupInit, BackupFlags
<1> QED BY BackupInvInit, BackupInvStep, BackupFlagsStep, <1>1, <1>2, PTL DEF BackupSpec

-----------------------------------------------------------------------------
(* The bad-files report (BadFilesReport).                                  *)

(* The dead files that have, or should have, a row by now. *)
Settled == {f \in Dead : Owner[f] \notin {Outside} \cup skipped \cup dueApps}

(* The run has started.                                                    *)
Working == {"verified", "attributing", "reported", "raised"}

(* Types of the files, the apps and the run.                               *)
FileTypes ==
  /\ held \subseteq File /\ index \subseteq File /\ commands \subseteq File
  /\ wasHeld \subseteq File /\ wasAbsent \subseteq File
  /\ badPc \in Working \cup {"idle"}
  /\ DOMAIN verdict \in {{}, File} /\ DOMAIN tracked \subseteq Dead
  /\ \A f \in DOMAIN tracked : tracked[f] \in {"yes", "no", "unknown"}
  /\ dueApps \subseteq {Owner[f] : f \in Dead} \ ({Outside} \cup skipped)
  /\ skipped \subseteq Range(Owner)
  /\ dueSeries \subseteq Range(SeriesOf) /\ unread \subseteq Range(SeriesOf)

(* While a Sonarr is read, each of its dead files has evidence or waits for its *)
(* series.                                                                      *)
Reading(a) ==
  /\ badPc = "attributing" /\ a \in dueApps \cap Sonarr
  /\ dueSeries \subseteq {SeriesOf[f] : f \in DeadOf(a)}
  /\ \A f \in DeadOf(a) :
       f \in index \cup wasAbsent \/ SeriesOf[f] \in dueSeries \cup unread

(* A row in the report is what an app once said of its file.               *)
RowEvidence ==
  \A f \in DOMAIN tracked :
    /\ tracked[f] = "yes" => f \in wasHeld
    /\ tracked[f] = "no" => f \in wasAbsent \/ SeriesOf[f] \in unread

(* What the run has read so far, and the rows it has written.              *)
FileInv ==
  /\ FileTypes
  /\ RowEvidence
  /\ badPc \in {"idle", "verified"} => tracked = NoRows /\ index = {} /\ dueSeries = {}
  /\ badPc = "idle" => verdict = NoRows
  /\ badPc \in Working => held \subseteq wasHeld /\ File \ held \subseteq wasAbsent
  /\ index \subseteq wasHeld
  /\ ~trusting => \A f \in Dead : Ext[f] # "disc"
  /\ badPc = "attributing" /\ dueSeries # {} => \E a \in Range(Owner) : Reading(a)
  /\ badPc \in {"attributing", "reported"} => DOMAIN tracked = Settled
  /\ badPc = "reported" => dueApps = {}
  /\ badPc = "reported" => commands = Emitted

(* No rows yet; every file has an owner and a series.                      *)
LEMMA FileFacts ==
  /\ DOMAIN NoRows = {} /\ NoRows \in [{} -> {"no"}]
  /\ \A f \in File : Owner[f] \in Range(Owner) /\ SeriesOf[f] \in Range(SeriesOf)
BY FileAssumption DEF NoRows, Range

(* The dead files are files.                                               *)
LEMMA DeadFacts ==
  ASSUME FileTypes
  PROVE  Dead \subseteq File /\ \A a : DeadOf(a) \subseteq Dead
BY DEF FileTypes, Dead, DeadOf

(* No run has started.                                                     *)
LEMMA FileInvInit == FileInit => FileInv
<1> SUFFICES ASSUME FileInit PROVE FileInv
  OBVIOUS
<1>1. Dead = {}
  BY FileFacts DEF FileInit, Dead
<1>2. FileTypes
  BY <1>1, FileFacts DEF FileInit, FileTypes
<1>3. RowEvidence
  BY FileFacts DEF FileInit, RowEvidence
<1> QED BY <1>1, <1>2, <1>3 DEF FileInit, FileInv, Working

(* The rows of an app that was answered, or was not. *)
LEMMA WritesFacts ==
  ASSUME FileInv, NEW a \in dueApps, NEW had, NEW reachable \in BOOLEAN,
         badPc = "attributing", Writes(a, had, reachable),
         UNCHANGED <<held, badPc, trusting, verdict, commands, skipped, wasHeld, wasAbsent>>,
         index' \subseteq File, index' \subseteq wasHeld,
         unread \subseteq unread', unread' \subseteq Range(SeriesOf),
         had \subseteq wasHeld,
         reachable => \A f \in DeadOf(a) \ had : f \in wasAbsent \/ SeriesOf[f] \in unread'
  PROVE  FileInv'
<1> USE DEF FileInv
<1> DEFINE row == [f \in DOMAIN tracked \cup DeadOf(a) |->
                     IF f \in DeadOf(a) THEN Rows(a, had, reachable)[f] ELSE tracked[f]]
<1>1. tracked' = row /\ dueApps' = dueApps \ {a} /\ dueSeries' = {}
  BY DEF Writes
<1>2. Dead' = Dead /\ Dead \subseteq File /\ DeadOf(a) \subseteq Dead /\ DeadOf(a)' = DeadOf(a)
  BY DeadFacts DEF Dead, DeadOf
<1>3. \A f \in DeadOf(a) :
        row[f] = IF f \in had THEN "yes" ELSE IF reachable THEN "no" ELSE "unknown"
  BY DEF Rows
<1>4. DOMAIN row = DOMAIN tracked \cup DeadOf(a) /\ \A f \in DOMAIN tracked \ DeadOf(a) : row[f] = tracked[f]
  OBVIOUS
<1> HIDE DEF row
<1>5. FileTypes'
  BY <1>1, <1>2, <1>3, <1>4 DEF FileTypes
<1>6. RowEvidence'
  BY <1>1, <1>2, <1>3, <1>4 DEF RowEvidence
<1>7. DOMAIN tracked' = Settled'
  <2>1. a \notin {Outside} \cup skipped
    BY DEF FileTypes
  <2>2. Settled' = {f \in Dead : Owner[f] \notin {Outside} \cup skipped \cup (dueApps \ {a})}
    BY <1>1, <1>2 DEF Settled
  <2>3. Settled' = Settled \cup DeadOf(a)
    BY <2>1, <2>2 DEF Settled, DeadOf
  <2> QED BY <1>1, <1>4, <2>3
<1> QED BY <1>1, <1>2, <1>5, <1>6, <1>7 DEF Working

(* Every step of the files, the apps and the run keeps it.                 *)
LEMMA FileInvStep == FileInv /\ [FileNext]_fileVars => FileInv'
<1> SUFFICES ASSUME FileInv, [FileNext]_fileVars PROVE FileInv'
  OBVIOUS
<1> USE DEF FileInv
<1>f. Dead \subseteq File /\ \A a : DeadOf(a) \subseteq Dead
  BY DeadFacts
<1>1. CASE RecordsChange
  <2>1. /\ badPc \in {"idle", "verified", "attributing"} /\ held' \subseteq File
        /\ UNCHANGED <<badPc, trusting, verdict, dueApps, dueSeries, index, tracked, commands, skipped, unread>>
    BY <1>1 DEF RecordsChange, FileTypes
  <2>2. /\ wasHeld \subseteq wasHeld' /\ wasAbsent \subseteq wasAbsent'
        /\ wasHeld' \subseteq File /\ wasAbsent' \subseteq File
        /\ badPc # "idle" => held' \subseteq wasHeld' /\ File \ held' \subseteq wasAbsent'
    BY <1>1, <2>1 DEF RecordsChange, FileTypes
  <2>3. Dead' = Dead /\ (\A a : DeadOf(a)' = DeadOf(a)) /\ Settled' = Settled /\ Emitted' = Emitted
    BY <2>1 DEF Dead, DeadOf, Settled, Emitted
  <2>4. FileTypes'
    BY <2>1, <2>2, <2>3 DEF FileTypes
  <2>5. RowEvidence'
    BY <2>1, <2>2 DEF RowEvidence
  <2>6. \A a : Reading(a) => Reading(a)'
    BY <2>1, <2>2, <2>3 DEF Reading
  <2> QED BY <2>1, <2>2, <2>3, <2>4, <2>5, <2>6 DEF Working
<1>2. CASE Verifies
  <2>1. /\ badPc = "idle" /\ badPc' = "verified" /\ wasHeld' = held /\ wasAbsent' = File \ held
        /\ UNCHANGED <<held, dueApps, dueSeries, index, tracked, commands, skipped, unread>>
        /\ DOMAIN verdict' = File
    BY <1>2 DEF Verifies
  <2>2. DOMAIN verdict = {} /\ Dead = {}
    BY <2>1, FileFacts DEF Dead
  <2>3. ~trusting' => \A f \in Dead' : Ext[f] # "disc"
    <3> SUFFICES ASSUME ~trusting' PROVE \A f \in Dead' : Ext[f] # "disc"
      OBVIOUS
    <3>1. PICK head \in [File -> FirstBytes] : verdict' = [f \in File |-> Verify(f, head[f])]
      BY <1>2 DEF Verifies
    <3>2. \A f \in File : \A h : Ext[f] = "disc" => Verify(f, h) = "UNPROBEABLE"
      BY DEF Verify
    <3> QED BY <3>1, <3>2 DEF Dead
  <2>4. dueApps = {} /\ dueSeries = {} /\ tracked = NoRows
    BY <2>1, <2>2 DEF FileTypes, Reading
  <2>5. FileTypes'
    BY <2>1, <2>4, FileFacts DEF FileTypes, Working
  <2> QED BY <2>1, <2>3, <2>4, <2>5, FileFacts DEF RowEvidence, Working
<1>3. CASE GroupsByApp
  <2>1. /\ badPc = "verified" /\ badPc' \in {"raised", "attributing"}
        /\ skipped' \subseteq {Owner[f] : f \in Dead}
        /\ dueApps' = {Owner[f] : f \in Dead} \ (skipped' \cup {Outside})
        /\ UNCHANGED <<held, trusting, verdict, dueSeries, index, tracked, commands,
                       wasHeld, wasAbsent, unread>>
    BY <1>3 DEF GroupsByApp
  <2>2. Dead' = Dead /\ dueSeries = {} /\ tracked = NoRows
    BY <2>1 DEF Dead, Reading
  <2>3. Settled' = {}
    BY <2>1, <2>2 DEF Settled
  <2>4. FileTypes'
    BY <2>1, <2>2, <1>f, FileFacts DEF FileTypes, Working
  <2> QED BY <2>1, <2>2, <2>3, <2>4, FileFacts DEF RowEvidence, Working
<1>4. CASE Reports
  <2>1. /\ badPc = "attributing" /\ dueApps = {} /\ badPc' = "reported" /\ commands' = Emitted
        /\ UNCHANGED <<held, trusting, verdict, dueApps, dueSeries, index, tracked,
                       skipped, wasHeld, wasAbsent, unread>>
    BY <1>4 DEF Reports
  <2>2. Dead' = Dead /\ Settled' = Settled /\ Emitted' = Emitted /\ dueSeries = {}
    BY <2>1 DEF Dead, Settled, Emitted, Reading
  <2>3. FileTypes'
    BY <2>1, <2>2, <1>f DEF FileTypes, Emitted, Working
  <2> QED BY <2>1, <2>2, <2>3 DEF RowEvidence, Working
<1>5. ASSUME NEW a \in Range(Owner), RadarrAnswers(a) PROVE FileInv'
  <2>1. /\ badPc = "attributing" /\ a \in dueApps /\ Writes(a, index', TRUE)
        /\ index' = index \cup {f \in held : Owner[f] = a}
        /\ UNCHANGED <<held, badPc, trusting, verdict, commands, skipped, wasHeld, wasAbsent, unread>>
    BY <1>5 DEF RadarrAnswers
  <2>2. index' \subseteq File /\ index' \subseteq wasHeld
    BY <2>1 DEF FileTypes, Working
  <2>3. \A f \in DeadOf(a) \ index' : f \in wasAbsent
    BY <2>1, <1>f DEF DeadOf, Working
  <2>4. unread \subseteq unread' /\ unread' \subseteq Range(SeriesOf)
    BY <2>1 DEF FileTypes
  <2> DEFINE had == index'
  <2>5. Writes(a, had, TRUE) /\ had \subseteq wasHeld /\ \A f \in DeadOf(a) \ had : f \in wasAbsent
    BY <2>1, <2>2, <2>3
  <2> HIDE DEF had
  <2> QED BY <2>1, <2>2, <2>4, <2>5, WritesFacts
<1>6. ASSUME NEW a \in Range(Owner), AppUnreachable(a) PROVE FileInv'
  <2>1. /\ badPc = "attributing" /\ a \in dueApps /\ Writes(a, {}, FALSE)
        /\ UNCHANGED <<held, badPc, trusting, verdict, index, commands, skipped, wasHeld, wasAbsent, unread>>
    BY <1>6 DEF AppUnreachable
  <2>2. index' \subseteq File /\ index' \subseteq wasHeld
    BY <2>1 DEF FileTypes
  <2>4. unread \subseteq unread' /\ unread' \subseteq Range(SeriesOf)
    BY <2>1 DEF FileTypes
  <2> QED BY <2>1, <2>2, <2>4, WritesFacts
<1>7. ASSUME NEW a \in Range(Owner), SonarrListsSeries(a) PROVE FileInv'
  <2>1. /\ badPc = "attributing" /\ a \in dueApps \cap Sonarr /\ dueSeries' = {SeriesOf[f] : f \in DeadOf(a)}
        /\ UNCHANGED <<held, badPc, trusting, verdict, dueApps, index, tracked, commands,
                       skipped, wasHeld, wasAbsent, unread>>
    BY <1>7 DEF SonarrListsSeries
  <2>2. Dead' = Dead /\ (\A b : DeadOf(b)' = DeadOf(b)) /\ Settled' = Settled /\ Emitted' = Emitted
    BY <2>1 DEF Dead, DeadOf, Settled, Emitted
  <2>3. Reading(a)'
    BY <2>1, <2>2 DEF Reading
  <2>4. dueSeries' \subseteq Range(SeriesOf)
    BY <2>1, <1>f, FileFacts
  <2>5. FileTypes'
    BY <2>1, <2>2, <2>4 DEF FileTypes
  <2> QED BY <2>1, <2>2, <2>3, <2>5 DEF RowEvidence, Working
<1>8. ASSUME NEW a \in Range(Owner), NEW s \in Range(SeriesOf), ReadsSeries(a, s) PROVE FileInv'
  <2>1. /\ badPc = "attributing" /\ a \in dueApps \cap Sonarr /\ s \in dueSeries
        /\ s \in {SeriesOf[f] : f \in DeadOf(a)}
        /\ UNCHANGED <<held, badPc, trusting, verdict, commands, skipped, wasHeld, wasAbsent>>
    BY <1>8 DEF ReadsSeries
  <2>2. CASE Writes(a, {}, FALSE) /\ UNCHANGED <<index, unread>>
    <3>1. index' \subseteq File /\ index' \subseteq wasHeld
      BY <2>1, <2>2 DEF FileTypes
    <3>2. unread \subseteq unread' /\ unread' \subseteq Range(SeriesOf)
      BY <2>2 DEF FileTypes
    <3>3. a \in dueApps /\ badPc = "attributing" /\ Writes(a, {}, FALSE)
      BY <2>1, <2>2
    <3>4. UNCHANGED <<held, badPc, trusting, verdict, commands, skipped, wasHeld, wasAbsent>>
      BY <2>1
    <3>5. {} \subseteq wasHeld /\ FALSE \in BOOLEAN
      OBVIOUS
    <3> QED BY <3>1, <3>2, <3>3, <3>4, <3>5, WritesFacts
  <2>3. CASE /\ \/ index' = index \cup {f \in held : Owner[f] = a /\ SeriesOf[f] = s} /\ UNCHANGED unread
                \/ unread' = unread \cup {s} /\ UNCHANGED index
             /\ IF dueSeries = {s} THEN Writes(a, index', TRUE)
                ELSE dueSeries' = dueSeries \ {s} /\ UNCHANGED <<tracked, dueApps>>
    <3>1. \/ index' = index \cup {f \in held : Owner[f] = a /\ SeriesOf[f] = s} /\ unread' = unread
          \/ index' = index /\ unread' = unread \cup {s}
      BY <2>3
    <3>2. index' \subseteq File /\ index' \subseteq wasHeld /\ index \subseteq index'
          /\ unread \subseteq unread' /\ unread' \subseteq Range(SeriesOf)
      BY <2>1, <3>1 DEF FileTypes, Working
    <3>3. Reading(a)
      <4>1. PICK b \in Range(Owner) : Reading(b)
        BY <2>1
      <4>2. PICK f \in DeadOf(a) : SeriesOf[f] = s
        BY <2>1
      <4>3. PICK g \in DeadOf(b) : SeriesOf[g] = s
        BY <2>1, <4>1 DEF Reading
      <4>4. Owner[f] = a /\ Owner[g] = b /\ f \in File /\ g \in File
        BY <1>f DEF DeadOf
      <4> QED BY <2>1, <4>1, <4>2, <4>3, <4>4, FileAssumption
    <3>4. \A f \in DeadOf(a) : SeriesOf[f] = s => f \in index' \cup wasAbsent \/ SeriesOf[f] \in unread'
      BY <2>1, <3>1, <1>f DEF DeadOf, Working
    <3>5. CASE dueSeries = {s}
      <4> DEFINE had == index'
      <4>1. Writes(a, had, TRUE)
        BY <2>3, <3>5
      <4>2. had \subseteq wasHeld /\ \A f \in DeadOf(a) \ had : f \in wasAbsent \/ SeriesOf[f] \in unread'
        BY <3>2, <3>3, <3>4, <3>5 DEF Reading
      <4> HIDE DEF had
      <4> QED BY <2>1, <3>2, <4>1, <4>2, WritesFacts
    <3>6. CASE dueSeries # {s}
      <4>1. dueSeries' = dueSeries \ {s} /\ UNCHANGED <<tracked, dueApps>>
        BY <2>3, <3>6
      <4>2. Dead' = Dead /\ (\A b : DeadOf(b)' = DeadOf(b)) /\ Settled' = Settled /\ Emitted' = Emitted
        BY <2>1, <4>1 DEF Dead, DeadOf, Settled, Emitted
      <4>3. Reading(a)'
        BY <2>1, <3>2, <3>3, <3>4, <4>1, <4>2 DEF Reading
      <4>4. FileTypes'
        BY <2>1, <3>2, <4>1, <4>2 DEF FileTypes
      <4>5. RowEvidence'
        BY <2>1, <3>2, <4>1 DEF RowEvidence
      <4> QED BY <2>1, <3>2, <4>1, <4>2, <4>3, <4>4, <4>5 DEF Working
    <3> QED BY <3>5, <3>6
  <2> QED BY <1>8, <2>2, <2>3 DEF ReadsSeries
<1>9. CASE AnswerRaises
  <2>1. /\ badPc = "attributing" /\ badPc' = "raised"
        /\ UNCHANGED <<held, trusting, verdict, dueApps, dueSeries, index, tracked, commands,
                       skipped, wasHeld, wasAbsent, unread>>
    BY <1>9 DEF AnswerRaises
  <2>2. Dead' = Dead
    BY <2>1 DEF Dead
  <2>3. FileTypes'
    BY <2>1, <2>2 DEF FileTypes, Working
  <2> QED BY <2>1, <2>2, <2>3 DEF RowEvidence, Working
<1>10. CASE UNCHANGED fileVars
  <2>1. UNCHANGED <<held, badPc, trusting, verdict, dueApps, dueSeries, index, tracked,
                    commands, skipped, wasHeld, wasAbsent, unread>>
    BY <1>10 DEF fileVars
  <2>2. Dead' = Dead /\ (\A a : DeadOf(a)' = DeadOf(a)) /\ Settled' = Settled /\ Emitted' = Emitted
    BY <2>1 DEF Dead, DeadOf, Settled, Emitted
  <2>3. FileTypes'
    BY <2>1, <2>2 DEF FileTypes
  <2>4. RowEvidence'
    BY <2>1 DEF RowEvidence
  <2>5. \A a : Reading(a) => Reading(a)'
    BY <2>1, <2>2 DEF Reading
  <2> QED BY <2>1, <2>2, <2>3, <2>4, <2>5
<1> QED BY <1>1, <1>2, <1>3, <1>4, <1>5, <1>6, <1>7, <1>8, <1>9, <1>10 DEF FileNext

(* A row of the report has evidence: a tracked file was held, an untracked
   one absent or its series unread, and the dead file that has no row is of a
   library whose app was passed over or of none (checkrr-badfiles-report.py),
   for every set of files, apps and series.                                *)
THEOREM BadFilesCorrectness == FileSpec => []ReportHasEvidence
<1>1. FileInv => ReportHasEvidence
  <2> SUFFICES ASSUME FileInv, badPc = "reported"
               PROVE  /\ commands \subseteq wasHeld /\ (~trusting => \A f \in commands : Ext[f] # "disc")
                      /\ \A f \in DOMAIN tracked :
                           tracked[f] = "no" => f \in wasAbsent \/ SeriesOf[f] \in unread
                      /\ {f \in Dead : Owner[f] \notin skipped \cup {Outside}} = DOMAIN tracked
    BY DEF ReportHasEvidence
  <2>1. commands = Emitted /\ DOMAIN tracked = Settled /\ dueApps = {}
    BY DEF FileInv
  <2> QED BY <2>1 DEF FileInv, RowEvidence, Emitted, Settled
<1> QED BY FileInvInit, FileInvStep, <1>1, PTL DEF FileSpec

(* The types of the bad-files report.                                      *)
THEOREM BadFilesTypeCorrectness == FileSpec => []FileTypeOK
<1>1. FileInv => FileTypeOK
  <2> SUFFICES ASSUME FileInv PROVE FileTypeOK
    OBVIOUS
  <2>1. dueApps \subseteq Range(Owner)
    BY DeadFacts, FileFacts DEF FileInv, FileTypes
  <2> QED BY <2>1 DEF FileInv, FileTypes, FileTypeOK
<1> QED BY FileInvInit, FileInvStep, <1>1, PTL DEF FileSpec

-----------------------------------------------------------------------------
(* The reconciliation of libraries, Plex and disk (Reconcile).             *)

(* Types of the library, the disk and the run.                             *)
ReconcileTypes ==
  /\ owned \subseteq Path /\ served \subseteq Path /\ onDisk \subseteq Path
  /\ arrPaths \subseteq Path /\ plexPaths \subseteq Path /\ found \subseteq Path
  /\ moved \subseteq Path /\ blind \subseteq Path /\ untested \subseteq Path
  /\ reconcilePc \in 0..6 /\ exitStatus \in 0..1
  /\ due \subseteq Range(Library) /\ problems \subseteq Range(Library)
  /\ warnings \subseteq Range(Library)
  /\ DOMAIN bucket \in {{}, Path}

(* What was read of a path that stayed as it is, and that no failed call hid.   *)
Steady == Path \ (moved \cup blind)

(* The app that owns path p has been read.                                 *)
AppRead(p) == reconcilePc > 1 \/ (reconcilePc = 1 /\ Library[p] \notin due)

(* The Plex library of path p has been read.                               *)
PlexRead(p) == reconcilePc > 2 \/ (reconcilePc = 2 /\ Library[p] \notin due)

(* The report is made of what was read; printed as text it has the problems,
   and its exit status says whether a path is missing or gone.             *)
Reported ==
  /\ reconcilePc \in {5, 6} => bucket = [p \in Path |-> BucketOf(p)]
  /\ reconcilePc = 5 =>
       /\ warnings = problems
       /\ exitStatus = 0 => \A p \in Path : BucketOf(p) \notin {"missing_from_plex", "file_gone"}

(* What was read of the paths that stayed as they were is right, but for
   the one that was never tested, and what a failed call hid is a problem in
   the report.                                                             *)
ReconcileInv ==
  /\ ReconcileTypes
  /\ reconcilePc \in {0, 1} => plexPaths = {}
  /\ reconcilePc = 0 => arrPaths = {}
  /\ reconcilePc = 0 => blind = {}
  /\ reconcilePc < 4 => found = {}
  /\ \A p \in Path \ moved :
       /\ p \in arrPaths => p \in owned
       /\ p \in plexPaths => p \in served
       /\ p \in found => p \in onDisk
  /\ \A p \in Steady :
       /\ AppRead(p) => (p \in owned => p \in arrPaths)
       /\ PlexRead(p) => (p \in served => p \in plexPaths)
       /\ reconcilePc >= 4 /\ p \in Swept \ untested => (p \in onDisk => p \in found)
  /\ \A p \in blind : p \notin moved => Library[p] \in problems \/ (reconcilePc >= 4 /\ p \in Swept)
  /\ \A p, q \in untested : p = q
  /\ Reported

(* No run has started.                                                     *)
LEMMA ReconcileInvInit == ReconcileInit => ReconcileInv
<1> SUFFICES ASSUME ReconcileInit PROVE ReconcileInv
  OBVIOUS
<1>1. ReconcileTypes
  BY DEF ReconcileInit, ReconcileTypes
<1> QED BY <1>1 DEF ReconcileInit, ReconcileInv, Steady, AppRead, PlexRead, Swept, Reported

(* Every path is in a library.                                             *)
LEMMA LibraryFacts == \A p \in Path : Library[p] \in Range(Library)
BY LibraryAssumption DEF Range

(* Every step of the libraries and of the run keeps it.                    *)
LEMMA ReconcileInvStep == ReconcileInv /\ [ReconcileNext]_reconcileVars => ReconcileInv'
<1> SUFFICES ASSUME ReconcileInv, [ReconcileNext]_reconcileVars PROVE ReconcileInv'
  OBVIOUS
<1> USE DEF ReconcileInv
<1>1. CASE WorldChanges
  <2>1. /\ reconcilePc \in 0..3
        /\ UNCHANGED <<reconcilePc, due, arrPaths, plexPaths, found, problems, bucket, warnings, exitStatus,
                      blind, untested>>
    BY <1>1 DEF WorldChanges, readVars, reconcileOutput
  <2>2. PICK q \in Path :
          /\ \/ owned' = Flip(q, owned) /\ UNCHANGED <<served, onDisk>>
             \/ served' = Flip(q, served) /\ UNCHANGED <<owned, onDisk>>
             \/ onDisk' = Flip(q, onDisk) /\ UNCHANGED <<owned, served>>
          /\ moved' = IF reconcilePc = 0 THEN {} ELSE moved \cup {q}
    BY <1>1 DEF WorldChanges
  <2>3. /\ owned' \subseteq Path /\ served' \subseteq Path /\ onDisk' \subseteq Path
        /\ moved' \subseteq Path
        /\ \A p : p # q => (p \in owned' <=> p \in owned)
        /\ \A p : p # q => (p \in served' <=> p \in served)
        /\ \A p : p # q => (p \in onDisk' <=> p \in onDisk)
    BY <2>2 DEF Flip, ReconcileTypes
  <2>4. ReconcileTypes'
    BY <2>1, <2>3 DEF ReconcileTypes
  <2>5. Swept' = Swept /\ (\A p : AppRead(p)' = AppRead(p)) /\ (\A p : PlexRead(p)' = PlexRead(p))
    BY <2>1 DEF Swept, AppRead, PlexRead
  <2>r. Reported'
    BY <2>1 DEF Reported
  <2>6. CASE reconcilePc = 0
    <3>1. \A p : ~AppRead(p) /\ ~PlexRead(p)
      BY <2>6 DEF AppRead, PlexRead
    <3> QED BY <2>1, <2>4, <2>5, <2>6, <2>r, <3>1 DEF Steady
  <2>7. CASE reconcilePc # 0
    <3>1. moved' = moved \cup {q}
      BY <2>2, <2>7
    <3>2. Steady' \subseteq Steady /\ q \notin Steady'
      BY <2>1, <3>1 DEF Steady
    <3>3. \A p \in Path \ moved' :
             /\ p \in arrPaths' => p \in owned'
             /\ p \in plexPaths' => p \in served'
             /\ p \in found' => p \in onDisk'
      BY <2>1, <2>3, <3>1
    <3>4. \A p \in Steady' :
             /\ AppRead(p)' => (p \in owned' => p \in arrPaths')
             /\ PlexRead(p)' => (p \in served' => p \in plexPaths')
             /\ reconcilePc' >= 4 /\ p \in Swept' \ untested' => (p \in onDisk' => p \in found')
      BY <2>1, <2>3, <2>5, <3>2
    <3>5. \A p \in blind' : p \notin moved' => Library[p] \in problems'
      BY <2>1, <3>1
    <3> HIDE DEF ReconcileInv
    <3> QED BY <2>1, <2>4, <2>5, <2>7, <2>r, <3>3, <3>4, <3>5 DEF ReconcileInv
  <2> QED BY <2>6, <2>7
<1>2. CASE ReconcileStarts
  <2>1. /\ reconcilePc = 0 /\ reconcilePc' = 1 /\ due' = Range(Library) /\ moved' = {}
        /\ UNCHANGED <<owned, served, onDisk, arrPaths, plexPaths, found, problems, bucket,
                      warnings, exitStatus, blind, untested>>
    BY <1>2 DEF ReconcileStarts, worldVars, readVars, reconcileOutput
  <2>2. \A p \in Path : ~AppRead(p)' /\ ~PlexRead(p)'
    BY <2>1, LibraryFacts DEF AppRead, PlexRead
  <2>3. ReconcileTypes'
    BY <2>1 DEF ReconcileTypes
  <2> QED BY <2>1, <2>2, <2>3 DEF Steady, Reported
<1>3. ASSUME NEW a \in Range(Library), AsksApp(a) PROVE ReconcileInv'
  <2>1. /\ reconcilePc = 1 /\ a \in due
        /\ UNCHANGED <<owned, served, onDisk, plexPaths, found, bucket, warnings, exitStatus,
                      moved, untested>>
    BY <1>3 DEF AsksApp, worldVars, reconcileOutput
  <2>2. \/ due' = Range(Library) /\ due = {a} /\ reconcilePc' = 2
        \/ due' = due \ {a} /\ reconcilePc' = 1
    BY <1>3, <2>1 DEF AsksApp, ThenNext
  <2>3. PICK read \in SUBSET InLibrary(a, owned) :
          /\ arrPaths' = arrPaths \cup read
          /\ \/ read = InLibrary(a, owned) /\ UNCHANGED <<problems, blind>>
             \/ problems' = problems \cup {a} /\ blind' = blind \cup InLibrary(a, owned \ read)
    BY <1>3 DEF AsksApp
  <2>4. read \subseteq owned
    BY DEF InLibrary
  <2>5. ReconcileTypes'
    BY <2>1, <2>2, <2>3, <2>4 DEF ReconcileTypes, InLibrary
  <2>6. blind \subseteq blind' /\ problems \subseteq problems'
        /\ \A p \in blind' : p \in blind \/ Library[p] \in problems'
    BY <2>3 DEF InLibrary
  <2>7. Steady' \subseteq Steady
    BY <2>1, <2>6 DEF Steady
  <2>8. \A p \in Steady' : /\ AppRead(p)' => (p \in owned' => p \in arrPaths')
                           /\ ~PlexRead(p)'
    <3> SUFFICES ASSUME NEW p \in Steady'
                 PROVE  /\ AppRead(p)' => (p \in owned' => p \in arrPaths')
                        /\ ~PlexRead(p)'
      OBVIOUS
    <3>0. p \in Steady /\ p \in Path
      BY <2>7 DEF Steady
    <3>1. ~PlexRead(p)'
      BY <2>2, <3>0, LibraryFacts DEF PlexRead
    <3>2. CASE Library[p] = a
      BY <2>1, <2>3, <3>0, <3>1, <3>2 DEF InLibrary, Steady
    <3>3. CASE Library[p] # a
      BY <2>1, <2>2, <2>3, <3>0, <3>1, <3>3 DEF AppRead
    <3> QED BY <3>1, <3>2, <3>3
  <2>9. \A p \in Path \ moved' : p \in arrPaths' => p \in owned'
    BY <2>1, <2>3, <2>4
  <2>10. \A p \in blind' : p \notin moved' => Library[p] \in problems'
    BY <2>1, <2>6
  <2> QED BY <2>1, <2>2, <2>5, <2>8, <2>9, <2>10 DEF Reported
<1>4. ASSUME NEW a \in Range(Library), AsksPlex(a) PROVE ReconcileInv'
  <2>1. /\ reconcilePc = 2 /\ a \in due
        /\ UNCHANGED <<owned, served, onDisk, arrPaths, found, bucket, warnings, exitStatus,
                      moved, untested>>
    BY <1>4 DEF AsksPlex, worldVars, reconcileOutput
  <2>2. \/ due' = Range(Library) /\ due = {a} /\ reconcilePc' = 3
        \/ due' = due \ {a} /\ reconcilePc' = 2
    BY <1>4, <2>1 DEF AsksPlex, ThenNext
  <2>3. \/ plexPaths' = plexPaths \cup InLibrary(a, served) /\ UNCHANGED <<problems, blind>>
        \/ /\ problems' = problems \cup {a} /\ blind' = blind \cup InLibrary(a, served)
           /\ plexPaths' = plexPaths
    BY <1>4 DEF AsksPlex
  <2>5. ReconcileTypes'
    BY <2>1, <2>2, <2>3 DEF ReconcileTypes, InLibrary
  <2>6. blind \subseteq blind' /\ problems \subseteq problems'
        /\ \A p \in blind' : p \in blind \/ Library[p] \in problems'
    BY <2>3 DEF InLibrary
  <2>7. Steady' \subseteq Steady
    BY <2>1, <2>6 DEF Steady
  <2>8. \A p \in Steady' : /\ p \in owned' => p \in arrPaths'
                           /\ PlexRead(p)' => (p \in served' => p \in plexPaths')
    <3> SUFFICES ASSUME NEW p \in Steady'
                 PROVE  /\ p \in owned' => p \in arrPaths'
                        /\ PlexRead(p)' => (p \in served' => p \in plexPaths')
      OBVIOUS
    <3>0. p \in Steady /\ p \in Path
      BY <2>7 DEF Steady
    <3>1. p \in owned' => p \in arrPaths'
      BY <2>1, <3>0 DEF AppRead
    <3>2. CASE Library[p] = a
      BY <2>1, <2>3, <3>0, <3>1, <3>2 DEF InLibrary, Steady
    <3>3. CASE Library[p] # a
      BY <2>1, <2>2, <2>3, <3>0, <3>1, <3>3 DEF PlexRead
    <3> QED BY <3>1, <3>2, <3>3
  <2>9. \A p \in Path \ moved' : p \in plexPaths' => p \in served'
    BY <2>1, <2>3 DEF InLibrary
  <2>10. \A p \in blind' : p \notin moved' => Library[p] \in problems'
    BY <2>1, <2>6
  <2> QED BY <2>1, <2>2, <2>5, <2>8, <2>9, <2>10 DEF Reported
<1>5. CASE Sweeps
  <2>1. /\ reconcilePc = 3 /\ reconcilePc' = 4 /\ due' = {}
        /\ UNCHANGED <<owned, served, onDisk, arrPaths, plexPaths, problems, bucket,
                      warnings, exitStatus, moved>>
    BY <1>5 DEF Sweeps, worldVars, reconcileOutput
  <2>2. found' \subseteq onDisk /\ blind' = blind \cup ((Swept \cap onDisk) \ (untested' \cup found'))
    BY <1>5 DEF Sweeps
  <2>u. untested' \subseteq Swept /\ \A p, q \in untested' : p = q
    <3>1. CASE Swept = {}
      BY <1>5, <3>1 DEF Sweeps
    <3>2. CASE Swept # {}
      BY <1>5, <3>2 DEF Sweeps
    <3> QED BY <3>1, <3>2
  <2>3. Swept' = Swept /\ Swept \subseteq Path
    BY <2>1 DEF Swept, ReconcileTypes
  <2>4. ReconcileTypes'
    BY <2>1, <2>2, <2>3, <2>u DEF ReconcileTypes
  <2>5. \A p \in Steady' : /\ p \in Steady /\ AppRead(p) /\ PlexRead(p)
                           /\ p \in Swept \ untested' /\ p \in onDisk => p \in found'
    BY <2>1, <2>2 DEF Steady, AppRead, PlexRead
  <2>6. \A p \in blind' : p \in blind \/ p \in Swept
    BY <2>2
  <2> QED BY <2>1, <2>2, <2>3, <2>u, <2>4, <2>5, <2>6 DEF Reported
<1>6. CASE ReconcileReports
  <2>1. /\ reconcilePc = 4 /\ reconcilePc' \in {5, 6} /\ bucket' = [p \in Path |-> BucketOf(p)]
        /\ UNCHANGED <<owned, served, onDisk, due, arrPaths, plexPaths, found, problems, moved,
                       blind, untested>>
    BY <1>6 DEF ReconcileReports, worldVars, readVars
  <2>w. /\ reconcilePc' = 5 => warnings' = problems
        /\ reconcilePc' = 5 /\ exitStatus' = 0 =>
             \A p \in Path : BucketOf(p) \notin {"missing_from_plex", "file_gone"}
        /\ warnings' \in {problems, {}} /\ exitStatus' \in 0..1
    BY <1>6 DEF ReconcileReports
  <2>2. Swept' = Swept /\ Steady' = Steady /\ \A p : BucketOf(p)' = BucketOf(p)
    BY <2>1 DEF Swept, Steady, BucketOf
  <2>3. ReconcileTypes'
    BY <2>1, <2>w DEF ReconcileTypes
  <2>4. \A p : AppRead(p) /\ PlexRead(p)
    BY <2>1 DEF AppRead, PlexRead
  <2>5. Reported'
    BY <2>1, <2>2, <2>w DEF Reported
  <2> QED BY <2>1, <2>2, <2>3, <2>4, <2>5
<1>7. CASE UNCHANGED reconcileVars
  <2>1. UNCHANGED <<owned, served, onDisk, reconcilePc, due, arrPaths, plexPaths, found,
                    problems, bucket, warnings, exitStatus, moved, blind, untested>>
    BY <1>7 DEF reconcileVars, worldVars, readVars, reconcileOutput
  <2>2. Swept' = Swept /\ Steady' = Steady /\ \A p : BucketOf(p)' = BucketOf(p)
    BY <2>1 DEF Swept, Steady, BucketOf
  <2>3. ReconcileTypes'
    BY <2>1 DEF ReconcileTypes
  <2>4. \A p : AppRead(p)' = AppRead(p) /\ PlexRead(p)' = PlexRead(p)
    BY <2>1 DEF AppRead, PlexRead
  <2>5. Reported'
    BY <2>1, <2>2 DEF Reported
  <2> QED BY <2>1, <2>2, <2>3, <2>4, <2>5
<1> QED BY <1>1, <1>2, <1>3, <1>4, <1>5, <1>6, <1>7 DEF ReconcileNext

(* The bucket of a path that did not change is right unless a failed call
   hid the path, of which a printed report warns, or it is the one path that
   is never tested, and an exit status of 0 is earned (plex-arr-reconcile.py),
   for every set of paths and libraries.                                   *)
THEOREM ReconcileCorrectness == ReconcileSpec => []BucketsAreTrue
<1>1. ReconcileInv => BucketsAreTrue
  <2> SUFFICES ASSUME ReconcileInv, reconcilePc \in {5, 6} PROVE BucketsAreTrue
    BY DEF BucketsAreTrue
  <2> USE DEF ReconcileInv
  <2>1. \A p \in Path : bucket[p] = BucketOf(p)
    BY DEF Reported
  <2>2. ASSUME NEW p \in Path \ (moved \cup blind \cup untested) PROVE BucketOf(p) = TrueBucket(p)
    <3>1. p \in Steady /\ AppRead(p) /\ PlexRead(p)
      BY <2>2 DEF Steady, AppRead, PlexRead
    <3>2. (p \in arrPaths <=> p \in owned) /\ (p \in plexPaths <=> p \in served)
      BY <2>2, <3>1
    <3>3. p \in Swept => (p \in found <=> p \in onDisk)
      BY <2>2, <3>1
    <3> QED BY <3>2, <3>3 DEF BucketOf, TrueBucket, Swept
  <2>3. ASSUME reconcilePc = 5 PROVE \A p \in blind \ (moved \cup Swept) : Library[p] \in warnings
    BY <2>3 DEF Reported
  <2>4. ASSUME reconcilePc = 5, exitStatus = 0, NEW p \in Path \ (moved \cup blind \cup untested)
        PROVE  TrueBucket(p) \notin {"missing_from_plex", "file_gone"}
    BY <2>2, <2>4 DEF Reported
  <2>5. \A p \in Path \ (moved \cup blind \cup untested) : bucket[p] = TrueBucket(p)
    BY <2>1, <2>2
  <2>6. \A p, q \in untested : p = q
    OBVIOUS
  <2> HIDE DEF ReconcileInv
  <2> QED BY <2>3, <2>4, <2>5, <2>6 DEF BucketsAreTrue
<1> QED BY ReconcileInvInit, ReconcileInvStep, <1>1, PTL DEF ReconcileSpec

(* The types of the reconciliation.                                        *)
THEOREM ReconcileTypeCorrectness == ReconcileSpec => []ReconcileTypeOK
<1>1. ReconcileInv => ReconcileTypeOK
  BY DEF ReconcileInv, ReconcileTypes, ReconcileTypeOK
<1> QED BY ReconcileInvInit, ReconcileInvStep, <1>1, PTL DEF ReconcileSpec

-----------------------------------------------------------------------------
(* Orphan folders (OrphanFolders).                                         *)

(* Types of Radarr, the disk and the run.                                  *)
FolderTypes ==
  /\ movies \subseteq Folder /\ folders \subseteq Folder /\ names \subseteq Folder
  /\ known \subseteq Folder /\ deletable \subseteq Folder /\ removed \subseteq Folder
  /\ failed \subseteq Folder /\ addedSince \subseteq Folder
  /\ elsewhere \subseteq movies /\ filled \subseteq folders
  /\ orphanPc \in 0..4

(* What the run will remove had no movie when it read the ids.             *)
OrphanInv ==
  /\ FolderTypes
  /\ destroyed = {}
  /\ orphanPc < 2 => deletable = {}
  /\ orphanPc < 2 => removed = {}
  /\ orphanPc >= 2 => movies \ known \subseteq addedSince
  /\ deletable \cap known = {} /\ removed \cap known = {}
  /\ orphanPc = 3 => names \subseteq deletable

(* No run has started.                                                     *)
LEMMA OrphanInvInit == OrphanInit => OrphanInv
BY DEF OrphanInit, OrphanInv, FolderTypes

(* Every step of Radarr, the disk and the run keeps it.                    *)
LEMMA OrphanInvStep == OrphanInv /\ [OrphanNext]_orphanVars => OrphanInv'
<1> SUFFICES ASSUME OrphanInv, [OrphanNext]_orphanVars PROVE OrphanInv'
  OBVIOUS
<1> USE DEF OrphanInv, FolderTypes, radarrVars, scriptVars
<1>1. ASSUME NEW f \in Folder, MovieAdded(f) PROVE OrphanInv'
  BY <1>1 DEF MovieAdded
<1>2. ASSUME NEW f \in Folder, FileArrives(f) PROVE OrphanInv'
  BY <1>2 DEF FileArrives
<1>3. ASSUME NEW f \in Folder, MovieDeleted(f) PROVE OrphanInv'
  BY <1>3 DEF MovieDeleted
<1>4. CASE ReadsUnmapped
  BY <1>4 DEF ReadsUnmapped
<1>5. CASE ReadsIds
  BY <1>5 DEF ReadsIds
<1>6. ASSUME NEW f \in Folder, Classifies(f) PROVE OrphanInv'
  BY <1>6 DEF Classifies, Candidate
<1>7. CASE StartsDeleting
  BY <1>7 DEF StartsDeleting
<1>8. ASSUME NEW f \in Folder, Removes(f) PROVE OrphanInv'
  <2>1. f \in deletable /\ f \notin known
    BY <1>8 DEF Removes
  <2>2. CASE RmdirSucceeds(f)
    BY <1>8, <2>1, <2>2 DEF Removes, RmdirSucceeds
  <2>3. CASE ~RmdirSucceeds(f)
    BY <1>8, <2>3 DEF Removes
  <2> QED BY <2>2, <2>3
<1>9. CASE UNCHANGED orphanVars
  BY <1>9 DEF orphanVars
<1> QED BY <1>1, <1>2, <1>3, <1>4, <1>5, <1>6, <1>7, <1>8, <1>9 DEF OrphanNext

(* No folder goes with a file in it, and a folder removed under Radarr's
   feet was added after the ids were read (radarr-orphan-empty-folders.py),
   for every set of folders.                                               *)
THEOREM OrphanCorrectness == OrphanSpec => []OnlyOrphansRemoved
<1>1. OrphanInv => OnlyOrphansRemoved
  BY DEF OrphanInv, FolderTypes, OnlyOrphansRemoved
<1> QED BY OrphanInvInit, OrphanInvStep, <1>1, PTL DEF OrphanSpec

(* The types of the orphan folder run.                                     *)
THEOREM OrphanTypeCorrectness == OrphanSpec => []OrphanTypeOK
<1>1. OrphanInv => OrphanTypeOK
  BY DEF OrphanInv, FolderTypes, OrphanTypeOK
<1> QED BY OrphanInvInit, OrphanInvStep, <1>1, PTL DEF OrphanSpec

-----------------------------------------------------------------------------
(* The TMDb audit (TmdbAudit).                                             *)

(* The records a search can be.                                            *)
Queried == [movie : Movie \cup {"none"}, withYear : BOOLEAN, attempt : 0..Retries]

(* Types of the movies, TMDb and the audit.                                *)
AuditTypes ==
  /\ auditPc \in {"idle", "searching", "written", "aborted"}
  /\ todoMovies \subseteq Movie /\ DOMAIN status \subseteq Movie
  /\ query \in Queried
  /\ asked \in [Movie -> SUBSET BOOLEAN] /\ answers \in [Movie -> SUBSET BOOLEAN]
  /\ results \in [Movie -> SUBSET Found]

(* A movie is waiting, searched or has its row; all its queries but the one
   being made were answered.                                               *)
AuditInv ==
  /\ AuditTypes
  /\ auditPc = "idle" => DOMAIN status = {}
  /\ DOMAIN status \cap todoMovies = {}
  /\ query # NoQuery =>
       /\ auditPc = "searching"
       /\ query.movie \in Movie \ (todoMovies \cup DOMAIN status)
       /\ asked[query.movie] = answers[query.movie] \cup {query.withYear}
  /\ \A m \in Movie : auditPc = "idle" \/ m \in todoMovies => answers[m] = {}
  /\ auditPc \in {"searching", "written"} =>
       \A m \in Movie \ (todoMovies \cup DOMAIN status) : query # NoQuery /\ query.movie = m
  /\ auditPc = "written" => todoMovies = {}
  /\ OutageIsNotUnmatched

(* The first query of a movie.                                             *)
LEMMA QueryFacts ==
  /\ NoQuery \in Queried
  /\ \A m \in Movie : \A y \in BOOLEAN :
       LET q == [movie |-> m, withYear |-> y, attempt |-> 1]
       IN  q \in Queried /\ q # NoQuery /\ q.movie = m /\ q.withYear = y
<1> DEFINE first == 1
<1>0. first \in 0..Retries /\ first # 0 /\ first = 1 /\ 0 \in 0..Retries
  BY AuditAssumption
<1> HIDE DEF first
<1>1. NoQuery \in Queried /\ NoQuery.attempt = 0
  BY <1>0 DEF NoQuery, Queried
<1>2. ASSUME NEW m \in Movie, NEW y \in BOOLEAN
      PROVE  LET q == [movie |-> m, withYear |-> y, attempt |-> first]
             IN  q \in Queried /\ q # NoQuery /\ q.movie = m /\ q.withYear = y
  <2> DEFINE q == [movie |-> m, withYear |-> y, attempt |-> first]
  <2>1. q \in Queried /\ q.movie = m /\ q.attempt = first /\ q.withYear = y
    BY <1>0 DEF Queried
  <2> QED BY <2>1, <1>0, <1>1
<1> QED BY <1>0, <1>1, <1>2

(* No movie has been searched.                                             *)
LEMMA AuditInvInit == AuditInit => AuditInv
<1> SUFFICES ASSUME AuditInit PROVE AuditInv
  OBVIOUS
<1>1. DOMAIN status = {}
  BY DEF AuditInit
<1>2. AuditTypes
  BY <1>1, QueryFacts DEF AuditInit, AuditTypes
<1> QED BY <1>1, <1>2 DEF AuditInit, AuditInv, OutageIsNotUnmatched

(* The row of a movie that leaves the ones waiting or the search.              *)
LEMMA RowFacts ==
  ASSUME AuditInv, NEW m \in Movie, NEW s, auditPc = "searching", auditPc' = auditPc,
         m \notin DOMAIN status, Row(m, s),
         \/ query = NoQuery /\ m \in todoMovies /\ todoMovies' = todoMovies \ {m}
         \/ query # NoQuery /\ m = query.movie /\ todoMovies' = todoMovies,
         asked' \in [Movie -> SUBSET BOOLEAN], answers' \in [Movie -> SUBSET BOOLEAN],
         results' \in [Movie -> SUBSET Found],
         \A x \in Movie \ {m} : UNCHANGED <<asked[x], answers[x], results[x]>>,
         s = "unmatched" => /\ asked'[m] # {} /\ answers'[m] = asked'[m]
                            /\ results'[m] = {} => FALSE \in answers'[m]
                            /\ Misses(results'[m])
  PROVE  AuditInv'
<1> USE DEF AuditInv
<1>1. /\ DOMAIN status' = DOMAIN status \cup {m} /\ status'[m] = s
      /\ \A x \in DOMAIN status : status'[x] = status[x]
      /\ query' = NoQuery
  BY DEF Row
<1>2. AuditTypes'
  BY <1>1, QueryFacts DEF AuditTypes
<1>3. OutageIsNotUnmatched'
  BY <1>1 DEF OutageIsNotUnmatched, Misses, Best, AuditTypes
<1>4. DOMAIN status' \cap todoMovies' = {}
  BY <1>1
<1>5. \A x \in Movie \ (todoMovies' \cup DOMAIN status') : FALSE
  BY <1>1
<1> QED BY <1>1, <1>2, <1>3, <1>4, <1>5

(* Every step of TMDb and of the audit keeps it.                           *)
LEMMA AuditInvStep == AuditInv /\ [AuditNext]_auditVars => AuditInv'
<1> SUFFICES ASSUME AuditInv, [AuditNext]_auditVars PROVE AuditInv'
  OBVIOUS
<1> USE DEF AuditInv
<1>1. CASE AuditStarts
  BY <1>1 DEF AuditStarts, AuditTypes, OutageIsNotUnmatched
<1>2. ASSUME NEW m \in Movie, AlreadyLinked(m) PROVE AuditInv'
  <2>1. /\ auditPc = "searching" /\ query = NoQuery /\ m \in todoMovies
        /\ todoMovies' = todoMovies \ {m} /\ Row(m, "matched")
        /\ UNCHANGED <<auditPc, asked, answers, results>>
    BY <1>2 DEF AlreadyLinked
  <2> QED BY <2>1, RowFacts DEF AuditTypes
<1>3. ASSUME NEW m \in Movie, Searches(m) PROVE AuditInv'
  <2>1. /\ auditPc = "searching" /\ query = NoQuery /\ m \in todoMovies /\ todoMovies' = todoMovies \ {m}
        /\ UNCHANGED <<auditPc, status, answers, results>>
    BY <1>3 DEF Searches
  <2>2. PICK year \in BOOLEAN : /\ query' = [movie |-> m, withYear |-> year, attempt |-> 1]
                               /\ asked' = [asked EXCEPT ![m] = {year}]
    BY <1>3 DEF Searches
  <2>3. /\ query' \in Queried /\ query' # NoQuery
        /\ query'.movie = m /\ query'.withYear = year
    BY <2>2, QueryFacts
  <2>4. asked' \in [Movie -> SUBSET BOOLEAN] /\ asked'[m] = {year}
        /\ \A x \in Movie \ {m} : asked'[x] = asked[x]
    BY <2>2 DEF AuditTypes
  <2>5. AuditTypes'
    BY <2>1, <2>3, <2>4 DEF AuditTypes
  <2>6. OutageIsNotUnmatched'
    BY <2>1, <2>4 DEF OutageIsNotUnmatched, Misses, Best, AuditTypes
  <2>7. asked'[m] = answers'[m] \cup {query'.withYear}
    BY <2>1, <2>3, <2>4
  <2> QED BY <2>1, <2>3, <2>5, <2>6, <2>7
<1>4. CASE AttemptFails
  <2>1. query # NoQuery /\ UNCHANGED <<auditPc, todoMovies, asked, answers, results>>
    BY <1>4 DEF AttemptFails
  <2>2. CASE query.attempt < Retries
    <3> DEFINE q == [query EXCEPT !.attempt = query.attempt + 1]
    <3>1. query' = q /\ status' = status
      BY <1>4, <2>2 DEF AttemptFails
    <3>2. query.attempt + 1 \in 0..Retries /\ query.attempt + 1 # 0
      BY <2>2, AuditAssumption DEF AuditTypes, Queried
    <3>3. q \in Queried /\ q.movie = query.movie /\ q.attempt = query.attempt + 1
          /\ q.withYear = query.withYear
      BY <3>2 DEF AuditTypes, Queried
    <3>4. q # NoQuery
      BY <3>2, <3>3 DEF NoQuery
    <3> HIDE DEF q
    <3>5. AuditTypes'
      BY <2>1, <3>1, <3>3 DEF AuditTypes
    <3> QED BY <2>1, <3>1, <3>3, <3>4, <3>5 DEF OutageIsNotUnmatched
  <2>3. CASE ~(query.attempt < Retries)
    <3>1. Row(query.movie, WhenExhausted) /\ WhenExhausted # "unmatched"
      BY <1>4, <2>3 DEF AttemptFails, WhenExhausted
    <3> QED BY <2>1, <3>1, RowFacts DEF AuditTypes
  <2> QED BY <2>2, <2>3
<1>5. CASE RetryAfterIsADate
  <2>1. auditPc' = "aborted" /\ query' = NoQuery /\ UNCHANGED <<todoMovies, status, asked,
                                                           answers, results>>
    BY <1>5 DEF RetryAfterIsADate
  <2>2. AuditTypes'
    BY <2>1, QueryFacts DEF AuditTypes
  <2> QED BY <2>1, <2>2 DEF OutageIsNotUnmatched
<1>6. CASE Answered
  <2>1. query # NoQuery /\ auditPc = "searching" /\ UNCHANGED <<auditPc, todoMovies>>
        /\ query.movie \in Movie /\ query.movie \notin DOMAIN status
    BY <1>6 DEF Answered
  <2>2. PICK cands \in SUBSET Found :
          /\ results' = [results EXCEPT ![query.movie] = cands]
          /\ answers' = [answers EXCEPT ![query.movie] = @ \cup {query.withYear}]
          /\ IF cands = {} /\ query.withYear
             THEN /\ query' = [query EXCEPT !.withYear = FALSE, !.attempt = 1]
                  /\ asked' = [asked EXCEPT ![query.movie] = @ \cup {FALSE}]
                  /\ UNCHANGED status
             ELSE /\ \/ Matches(cands) /\ Row(query.movie, "fixable")
                     \/ Misses(cands) /\ Row(query.movie, "unmatched")
                  /\ UNCHANGED asked
    BY <1>6 DEF Answered
  <2>y. query.withYear \in BOOLEAN
    BY DEF AuditTypes, Queried
  <2>3. /\ answers' \in [Movie -> SUBSET BOOLEAN] /\ results' \in [Movie -> SUBSET Found]
        /\ \A x \in Movie \ {query.movie} : answers'[x] = answers[x] /\ results'[x] = results[x]
        /\ answers'[query.movie] = answers[query.movie] \cup {query.withYear}
        /\ results'[query.movie] = cands
    BY <2>1, <2>2, <2>y DEF AuditTypes
  <2>a. answers'[query.movie] = asked[query.movie]
    BY <2>1, <2>3
  <2>4. CASE cands = {} /\ query.withYear
    <3> DEFINE first == 1
               q == [query EXCEPT !.withYear = FALSE, !.attempt = first]
    <3>1. first \in 0..Retries /\ first # 0
      BY AuditAssumption
    <3>2. query' = q /\ status' = status
      BY <2>2, <2>4
    <3> HIDE DEF first
    <3>3. q \in Queried /\ q.movie = query.movie /\ q.attempt = first /\ q.withYear = FALSE
      BY <3>1 DEF AuditTypes, Queried
    <3>4. q # NoQuery
      BY <3>1, <3>3 DEF NoQuery
    <3> HIDE DEF q
    <3>5. /\ asked' \in [Movie -> SUBSET BOOLEAN]
          /\ asked'[query.movie] = asked[query.movie] \cup {FALSE}
          /\ \A x \in Movie \ {query.movie} : asked'[x] = asked[x]
      <4>1. asked' = [asked EXCEPT ![query.movie] = @ \cup {FALSE}]
        BY <2>2, <2>4
      <4>2. asked \in [Movie -> SUBSET BOOLEAN] /\ query.movie \in Movie
        BY <2>1 DEF AuditTypes
      <4>3. asked[query.movie] \cup {FALSE} \in SUBSET BOOLEAN
        BY <4>2
      <4> QED BY <4>1, <4>2, <4>3
    <3>6. AuditTypes'
      BY <2>1, <2>3, <3>2, <3>3, <3>5 DEF AuditTypes
    <3>7. OutageIsNotUnmatched'
      <4>1. DOMAIN status \subseteq Movie \ {query.movie}
        BY <2>1 DEF AuditTypes
      <4>2. \A x \in DOMAIN status : UNCHANGED <<asked[x], answers[x], results[x]>>
        BY <2>3, <3>5, <4>1
      <4> QED BY <3>2, <4>2 DEF OutageIsNotUnmatched, Misses, Best
    <3>8. asked'[query'.movie] = answers'[query'.movie] \cup {query'.withYear}
      BY <2>a, <3>2, <3>3, <3>5
    <3>9. \A m \in Movie : auditPc' = "idle" \/ m \in todoMovies' => answers'[m] = {}
      BY <2>1, <2>3
    <3> QED BY <2>1, <3>2, <3>3, <3>4, <3>6, <3>7, <3>8, <3>9
  <2>5. CASE ~(cands = {} /\ query.withYear)
    <3>1. /\ \/ Row(query.movie, "fixable")
             \/ Misses(cands) /\ Row(query.movie, "unmatched")
          /\ UNCHANGED asked
      BY <2>2, <2>5
    <3>2. Misses(cands) => Misses(results'[query.movie])
      BY <2>3 DEF Misses, Best
    <3>3. asked'[query.movie] # {} /\ answers'[query.movie] = asked'[query.movie]
      BY <2>1, <2>a, <3>1
    <3>4. results'[query.movie] = {} => FALSE \in answers'[query.movie]
      BY <2>3, <2>5, <2>y
    <3>5. asked' \in [Movie -> SUBSET BOOLEAN]
          /\ \A x \in Movie \ {query.movie} : UNCHANGED <<asked[x], answers[x], results[x]>>
      BY <2>3, <3>1 DEF AuditTypes
    <3> QED BY <2>1, <2>3, <3>1, <3>2, <3>3, <3>4, <3>5, RowFacts
  <2> QED BY <2>4, <2>5
<1>7. CASE WritesAudit
  BY <1>7 DEF WritesAudit, AuditTypes, OutageIsNotUnmatched
<1>8. CASE UNCHANGED auditVars
  BY <1>8 DEF auditVars, AuditTypes, OutageIsNotUnmatched
<1> QED BY <1>1, <1>2, <1>3, <1>4, <1>5, <1>6, <1>7, <1>8 DEF AuditNext

(* An outage never looks like an unmatched movie: all its queries were
   answered, and an empty answer to the one with the year was not the last
   (audit-tmdb-links.py), for every set of movies and candidates and number
   of retries.                                                             *)
THEOREM AuditCorrectness == AuditSpec => []OutageIsNotUnmatched
<1>1. AuditInv => OutageIsNotUnmatched
  BY DEF AuditInv
<1> QED BY AuditInvInit, AuditInvStep, <1>1, PTL DEF AuditSpec

(* The types of the audit.                                                 *)
THEOREM AuditTypeCorrectness == AuditSpec => []AuditTypeOK
<1>1. AuditInv => AuditTypeOK
  BY DEF AuditInv, AuditTypes, AuditTypeOK, Queried
<1> QED BY AuditInvInit, AuditInvStep, <1>1, PTL DEF AuditSpec
=============================================================================
