CONSTANTS
  nzbdav = nzbdav
  nzbdav_rclone = nzbdav_rclone
  plex = plex
  prowlarr = prowlarr
  panel = panel
  Container <- MCContainer
  Panel = panel
  Prereqs <- MCPrereqs
  Provider = nzbdav_rclone
  Dependents <- MCDependents
  Binders <- MCBinders
  Checked <- MCChecked
  Worker = {w1, w2}
SPECIFICATION FairSpec
INVARIANTS
  StaleBindersAreOwed
  QuiescentFleetIsFresh
PROPERTIES
  ImplementsCascade
  RestartAllEnds
