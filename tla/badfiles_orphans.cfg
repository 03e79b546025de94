CONSTANTS
  File <- MCFile
  Ext <- MCExt
  Owner <- MCOwner
  SeriesOf <- MCSeriesOf
  Sonarr = {"sonarr"}
  Outside = "outside"
SPECIFICATION FileSpec
CHECK_DEADLOCK FALSE
INVARIANT OrphansAreConfirmed
