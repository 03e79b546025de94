-------------------------- MODULE MCFleetRestart --------------------------
(* The compose project reduced to one container of each role and the panel, *)
(* which binds /mnt as well.                                                 *)
EXTENDS FleetRestart

CONSTANTS nzbdav, nzbdav_rclone, plex, prowlarr, panel

MCContainer  == {nzbdav, nzbdav_rclone, plex, prowlarr, panel}
MCPrereqs    == {nzbdav}
MCDependents == {plex}
MCBinders    == {nzbdav, plex, panel}
MCChecked    == {nzbdav, nzbdav_rclone}
=============================================================================
