SPECIFICATION Spec
CONSTANTS
  Observation = {o1, o2, o3}
  Incarnation = {i1}
  MarkerMayFail = TRUE
  Faults = {"kill"}
  Token = {}
  NoIncarnation = noInc
  BundleId = {b1, b2}
  NoBundle = noBundle
  NoCheckpoint = noCheckpoint
  NoObservation = noObs
INVARIANTS BindingIsDurable
