SPECIFICATION BundleSpec
CONSTANTS
  Proc = {p1, p2, p3}
  Rooted = {p3}
  SidecarPresent = TRUE
  Inode = {n1, n2}
  NoInode = noInode
  NoProc = noProc
  Signer = {p1, p2}
  MaxRecords = 2
  NoCopy = noCopy
  Pair = {p1, p2}
  PairSigner = {p2}
  PairInode = {n1, n2, n3}
  RecordLimit = 4
  MaxLines = 5
  MaxEdits = 2
  Stories <- MCStories
  MaxLog <- MCMaxLog
  MaxRaces = 1
CHECK_DEADLOCK FALSE
INVARIANTS MutualExclusion SignedIsCurrent FileIsSound  IncidentIsSound
PROPERTIES RemovingAloneGetsTheLock
