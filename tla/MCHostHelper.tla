--------------------------- MODULE MCHostHelper ---------------------------
(* VERBS with its limits in units of 300 s: 60 s and 120 s count as one.    *)
EXTENDS HostHelper

CONSTANTS reboot, pacman_sync, pacman_upgrade

MCAction == {reboot, pacman_sync, pacman_upgrade}
MCLimit  == [a \in MCAction |-> IF a = pacman_upgrade THEN 6 ELSE 1]
=============================================================================
