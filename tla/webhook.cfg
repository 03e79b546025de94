CONSTANTS
  e1 = e1
  e2 = e2
  e3 = e3
  Event <- MCEvent
  Readable = {TRUE, FALSE}
  HasUrl = {TRUE, FALSE}
  MaxCrashes = 1
  None = None
SPECIFICATION FairSpec
\* Plex may send nothing more.
CHECK_DEADLOCK FALSE
INVARIANTS
  NeverShownTwice
PROPERTIES
  AcknowledgedIsHandled
  ImplementsAtMostOnce
