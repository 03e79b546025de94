CONSTANTS
  Section = {s1, s2}
  Title = {a}
  Service = {c1, c2}
  Upstream = {u1}
  MaxRelease = 3
  Image = {i1, i2}
  MaxCount = 1
  HighMargin = 1
  File <- MCFile
  Ext <- MCExt
  Owner <- MCOwner
  SeriesOf <- MCSeriesOf
  Sonarr = {"sonarr"}
  Outside = "outside"
  Path <- MCPath
  Library <- MCLibrary
  Unsupported = {"iso"}
  Folder = {f1, f2}
  Tagged = {f1, f2}
  Movie = {m1, m2}
  Found <- MCFound
  Retries = 3
  MinRatio = 60
  Instance = {n1, n2}
  MaxToken = 2
  Key = {k1, k2}
  PostBoot = {k2}
  Value = {changeme, v1}
  Example = changeme
  Blank = Blank
  Absent = Absent
  Tab = {t1, t2}
  Command = {x1}
  Helper = {h1}
  Item = {q1, q2}
  Unmatched = {q2}
  Repair = {r1, r2}
  MaxSearches = 1
  Entry = {e1, e2}
  Pruner = {p1, p2}
  Download = {"movie", "nzb"}
  SourceOf <- MCSourceOf
  Nzbdav = "nzbdav"
  Size = 2
  SettingKey = {g1, g2}
  Setting = {0, 1}
  Default = 0
  Patcher = {w1, w2}
  Remembered = {y1}
  Keep = 1
  ArrApps <- MCArrApps
  MaxPolls = 2
  PageApp = {b1, b2}
  Editor = {d1, d2}
  Toplist = {l1}
  ListTitle = {n1, n2}
  ByHand = ByHand
  Renamed = {z1}
  Doc = {x1}
  Viewer = {v1}
  MaxImports = 2
SPECIFICATION JobsSpec
CHECK_DEADLOCK FALSE
INVARIANTS
  RemovalsToldOnce
  FiledFailuresWereAnnounced
  ReleasesAlertedOnce
  CriticalRiseIsAlerted
  ReportHasEvidence
  BucketsAreTrue
  OnlyOrphansRemoved
  OutageIsNotUnmatched
  RerunsConverge
  AnswersAreKept
  RunInstallsRepository
  
  CountedDeletionsAreReal
  BucketsAreObserved
  PatchesDoNotUndoEachOther
  ReportedBackupsAreDone
  ToplistsAreRegisteredOnce
  RenameIsComplete
  StatusCountsItsImport
PROPERTY EditsAreConfined
