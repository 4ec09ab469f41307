SPECIFICATION KilledSpec
CONSTANTS
  Observation = {o1, o2, o3}
  Incarnation = {i1}
  MarkerMayFail = FALSE
  Faults = {"kill", "io"}
  Token = {}
  NoIncarnation = noInc
  BundleId = {b1, b2}
  NoBundle = noBundle
  NoCheckpoint = noCheckpoint
  NoObservation = noObs
INVARIANTS AckedIsEvidence ReturnedIsDurable HealthyIsComplete NeverRefused LossIsMarked
PROPERTIES ImplementsEvidenceLog RestartDrainsJournal
