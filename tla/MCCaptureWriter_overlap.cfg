SPECIFICATION XSpec
CONSTANTS
  Observation = {o1, o2}
  Incarnation = {i1}
  MarkerMayFail = FALSE
  Faults = {}
  Token = {}
  NoIncarnation = noInc
  BundleId = {b1, b2}
  NoBundle = noBundle
  NoCheckpoint = noCheckpoint
  NoObservation = noObs
  Overlaps = TRUE
  MaxForeign = 2
INVARIANT AckedIsEvidence
