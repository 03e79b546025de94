CONSTANTS
  reboot = reboot
  pacman_sync = pacman_sync
  pacman_upgrade = pacman_upgrade
  Request = {r1, r2, r3}
  Action <- MCAction
  Reboot = reboot
  Limit <- MCLimit
  ClientTimeout = 2
  None = None
SPECIFICATION FairSpec
\* Each request slot is used once; when all are, nothing is left to do.
CHECK_DEADLOCK FALSE
INVARIANTS
  RunsAreLogged
PROPERTIES
  PendingRequestsAreServed
  ImplementsAudit
