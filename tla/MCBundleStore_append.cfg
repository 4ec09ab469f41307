SPECIFICATION StoreSpec
CONSTANTS
  Proc = {p1, p2, p3}
  Rooted = {}
  SidecarPresent = TRUE
  Inode = {n1, n2}
  NoInode = noInode
  NoProc = noProc
  Signer = {}
  MaxRecords = 2
  NoCopy = noCopy
PROPERTY AppendOnly
