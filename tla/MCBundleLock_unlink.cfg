SPECIFICATION LockSpec
CONSTANTS
  Proc = {p1, p2, p3}
  Rooted = {}
  SidecarPresent = FALSE
  Inode = {n1, n2, n3, n4}
  NoInode = noInode
  NoProc = noProc
INVARIANT MutualExclusion
