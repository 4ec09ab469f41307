SPECIFICATION FaultsSpec
CONSTANTS
  Observation = {o1, o2, o3}
  Few = {o1, o2}
  One = {i1}
  Incarnation = {i1, i2}
  MarkerMayFail = FALSE
  Faults = {"kill", "loss"}
  Token = {i2}
  NoIncarnation = noInc
  BundleId = {b1, b2}
  NoBundle = noBundle
  NoCheckpoint = noCheckpoint
  NoObservation = noObs
  Overlaps = FALSE
  MaxForeign = 2
INVARIANTS TypeOK JournalIsSound OneSource KeptSurvives FilesAgree HealthyReportIsComplete
PROPERTIES CommandsStay
