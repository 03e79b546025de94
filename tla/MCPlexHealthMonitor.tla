------------------------ MODULE MCPlexHealthMonitor ------------------------
(* A small instance of the Plex watchdog: one unit of time is one poll      *)
(* interval, thresholds keep the order of the code's (alert < restart <     *)
(* cooldown) at a scale where each is crossed within the bound.             *)
EXTENDS PlexHealthMonitor, TLC

MCGaps == {1, 2}
\* The percentages are only compared for equality.
MCSymmetry == Permutations(Progress)
=============================================================================
