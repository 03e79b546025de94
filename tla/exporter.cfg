CONSTANTS
  l1 = l1
  l2 = l2
  c1 = c1
  c2 = c2
  Label <- MCLabel
  Config <- MCConfig
  Unset = Unset
SPECIFICATION FairSpec
INVARIANTS
  LabelsFromOneRound
  ConfigIsLastReported
PROPERTY ScrapesForever
