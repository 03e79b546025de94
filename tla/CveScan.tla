------------------------------ MODULE CveScan ------------------------------
(***************************************************************************)
(* scripts/weekly-cve-scan.sh: scan every image, add up what was found,      *)
(* store the sums, compare with the scan before and alert on a surge.  An  *)
(* image that cannot be scanned counts as having nothing, and a run may    *)
(* die anywhere, also while it writes its file.                            *)
(***************************************************************************)
EXTENDS Integers

CONSTANTS
  Image,
  MaxCount,    \* bound on an image's vulnerabilities of one severity
  HighMargin   \* "Alert if +10 or more HIGH": 10

ASSUME CveAssumption == MaxCount \in Nat /\ HighMargin \in Nat

VARIABLES
  vulns,       \* image -> [critical, high]: what a scan would find
  scans,       \* the last scan file: its sums, or NoScan
  scanPc,      \* 0 not running, 1 scanning, 2 storing, 3 comparing
  scanned,     \* images this run has been through
  sums,        \* what it found in them: CRITICAL and HIGH
  missed,      \* this run failed to scan an image
  previous,    \* the scan file before this run's
  complete,    \* history: the sums of the last complete scan, or NoScan
  warned       \* history: since then an alert was sent, or lost with its run

cveVars == <<vulns, scans, scanPc, scanned, sums, missed, previous, complete, warned>>

Counts == [critical : 0..MaxCount, high : 0..MaxCount]
Nothing == [critical |-> 0, high |-> 0]
NoScan == [critical |-> -1, high |-> -1]
Plus(s, c) == [critical |-> s.critical + c.critical, high |-> s.high + c.high]

RunEnds == scanPc' = 0 /\ scanned' = {} /\ sums' = Nothing /\ missed' = FALSE /\ previous' = NoScan

-----------------------------------------------------------------------------
VulnsChange(i) ==
  /\ vulns' \in {[vulns EXCEPT ![i] = c] : c \in Counts}
  /\ UNCHANGED <<scans, scanPc, scanned, sums, missed, previous, complete, warned>>

ScanStarts ==
  /\ scanPc = 0 /\ scanPc' = 1
  /\ UNCHANGED <<vulns, scans, scanned, sums, missed, previous, complete, warned>>

\* trivy, or "{}" in its place.
ScansImage(i) ==
  /\ scanPc = 1 /\ i \notin scanned
  /\ \/ sums' = Plus(sums, vulns[i]) /\ UNCHANGED missed
     \/ missed' = TRUE /\ UNCHANGED sums
  /\ scanned' = scanned \cup {i}
  /\ scanPc' = IF scanned' = Image THEN 2 ELSE 1
  /\ UNCHANGED <<vulns, scans, previous, complete, warned>>

\* The newest file but the one just written.
PreviousOfAll == sums
PreviousScan == scans

StoresScan ==
  /\ scanPc = 2
  /\ previous' = PreviousScan
  /\ scans' = sums
  /\ scanPc' = 3
  /\ UNCHANGED <<vulns, scanned, sums, missed, complete, warned>>

CriticalSurge == sums.critical > previous.critical
HighSurge == sums.high > previous.high + HighMargin
Surge == previous # NoScan /\ (CriticalSurge \/ HighSurge)

\* What the history makes of a finished comparison.
Concludes(alerted) ==
  IF missed THEN warned' = (warned \/ alerted) /\ UNCHANGED complete
           ELSE warned' = FALSE /\ complete' = sums

\* Curl's failure ends the script too (set -e); the file is there already.
ComparesScans ==
  /\ scanPc = 3
  /\ Concludes(Surge)
  /\ RunEnds
  /\ UNCHANGED <<vulns, scans>>

ScanDies ==
  /\ scanPc \in {1, 2}
  /\ RunEnds
  /\ UNCHANGED <<vulns, scans, complete, warned>>

\* It died between its file and its alert: the next run compares with this file.
DiesBeforeAlert ==
  /\ scanPc = 3
  /\ warned' = TRUE
  /\ RunEnds
  /\ UNCHANGED <<vulns, scans, complete>>

\* It died while jq wrote: the empty file reads as no vulnerabilities.
ScanFileTears ==
  /\ scanPc = 2
  /\ scans' = Nothing
  /\ RunEnds
  /\ UNCHANGED <<vulns, complete, warned>>

-----------------------------------------------------------------------------
CveInit ==
  /\ vulns = [i \in Image |-> Nothing] /\ scans = NoScan
  /\ scanPc = 0 /\ scanned = {} /\ sums = Nothing /\ missed = FALSE /\ previous = NoScan
  /\ complete = NoScan /\ warned = FALSE

CveNext ==
  \/ \E i \in Image : VulnsChange(i) \/ ScansImage(i)
  \/ ScanStarts \/ StoresScan \/ ComparesScans
  \/ ScanDies \/ DiesBeforeAlert \/ ScanFileTears

CveSpec == CveInit /\ [][CveNext]_cveVars

CveTypeOK ==
  /\ vulns \in [Image -> Counts] /\ scanned \subseteq Image
  /\ scanPc \in 0..3 /\ missed \in BOOLEAN /\ warned \in BOOLEAN
  /\ previous # NoScan => scanPc = 3

(* Critical vulnerabilities that rose from one complete scan to the next are
   alerted on the way: the scans in between in which an image could not be
   scanned, or whose file was torn, cannot hide the rise, only a run that died
   before its alert can (weekly-cve-scan.sh, lines 85-149).                   *)
CriticalRiseIsAlerted ==
  scanPc = 3 /\ ~missed /\ complete # NoScan /\ sums.critical > complete.critical
    => Surge \/ warned
=============================================================================
