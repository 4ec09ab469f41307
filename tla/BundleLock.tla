----------------------------- MODULE BundleLock -----------------------------
(***************************************************************************)
(* The advisory lock around bundle writes: flock(2) on a sidecar file      *)
(* beside the bundle (internal/bundle/lock.go, lock_open.go, lock_unix.go, *)
(* and lockPathRooted of rooted.go).                                       *)
(*                                                                         *)
(* flock locks the inode a process opened; the sidecar's name may by then  *)
(* stand for another inode, or for none.                                   *)
(***************************************************************************)
EXTENDS Naturals, FiniteSets

CONSTANTS
  Proc,            \* processes (or goroutines: each call opens its own descriptor)
  Rooted,          \* those that lock through lockPathRooted; the others use lockPath
  SidecarPresent,  \* a crashed writer left the sidecar before these runs began
  Inode,           \* inodes the sidecar can have; one is reused once nothing refers to it
  NoInode,
  NoProc

ASSUME ProcAssumption == Rooted \subseteq Proc /\ NoProc \notin Proc
ASSUME SidecarAssumption == SidecarPresent \in BOOLEAN
ASSUME InodeAssumption == Inode # {} /\ NoInode \notin Inode

VARIABLES
  name,     \* the inode the sidecar's name stands for
  holder,   \* holder[i]: whose descriptor holds the flock of inode i
  fd,       \* fd[p]: the inode p's descriptor refers to
  created,  \* created[p]: openLockFile created the sidecar for p
  lpc       \* lpc[p]: where p is in lockPath or release: see LockControl

lockVars == <<name, holder, fd, created, lpc>>

LockControl == {"idle", "create", "open", "flock", "wait", "locked", "remove"}

(***************************************************************************)
(* Type invariant.  A process has a descriptor exactly from the open to    *)
(* the close, so a sidecar that vanishes between openLockFile's two        *)
(* attempts never leaves it locking nothing.                               *)
(***************************************************************************)
LockTypeOK ==
  /\ name \in Inode \cup {NoInode}
  /\ holder \in [Inode -> Proc \cup {NoProc}]
  /\ fd \in [Proc -> Inode \cup {NoInode}]
  /\ created \in [Proc -> BOOLEAN]
  /\ lpc \in [Proc -> LockControl]
  /\ \A p \in Proc : lpc[p] \in {"flock", "locked"} <=> fd[p] # NoInode

LockInit ==
  /\ IF SidecarPresent THEN name \in Inode ELSE name = NoInode
  /\ holder = [i \in Inode |-> NoProc]
  /\ fd = [p \in Proc |-> NoInode]
  /\ created = [p \in Proc |-> FALSE]
  /\ lpc = [p \in Proc |-> "idle"]

Fresh(i) == i # name /\ \A p \in Proc : fd[p] # i

(* lockPath is called.                                                     *)
Begin(p) ==
  /\ lpc[p] = "idle"
  /\ lpc' = [lpc EXCEPT ![p] = "create"]
  /\ UNCHANGED <<name, holder, fd, created>>

(***************************************************************************)
(* The first OpenFile.  lockPath's is exclusive, and fails when the name   *)
(* exists; lockPathRooted's opens the file or creates it.                  *)
(***************************************************************************)
Create(p) ==
  /\ lpc[p] = "create"
  /\ \/ /\ name = NoInode
        /\ \E i \in Inode : Fresh(i) /\ name' = i /\ fd' = [fd EXCEPT ![p] = i]
        /\ created' = [created EXCEPT ![p] = p \notin Rooted]
        /\ lpc' = [lpc EXCEPT ![p] = "flock"]
     \/ /\ name # NoInode /\ p \in Rooted
        /\ fd' = [fd EXCEPT ![p] = name]
        /\ lpc' = [lpc EXCEPT ![p] = "flock"]
        /\ UNCHANGED <<name, created>>
     \/ /\ name # NoInode /\ p \notin Rooted
        /\ lpc' = [lpc EXCEPT ![p] = "open"]
        /\ UNCHANGED <<name, fd, created>>
  /\ UNCHANGED holder

(* openLockFile's second OpenFile; the name may have vanished since.       *)
Open(p) ==
  /\ lpc[p] = "open"
  /\ \/ /\ name # NoInode
        /\ fd' = [fd EXCEPT ![p] = name]
        /\ lpc' = [lpc EXCEPT ![p] = "flock"]
     \/ /\ name = NoInode
        /\ lpc' = [lpc EXCEPT ![p] = "create"]
        /\ UNCHANGED fd
  /\ UNCHANGED <<name, holder, created>>

(***************************************************************************)
(* The non-blocking flock of whatever inode the descriptor has.  On        *)
(* contention the descriptor is closed, and a sidecar this process created *)
(* stays behind.                                                           *)
(***************************************************************************)
Flock(p) ==
  /\ lpc[p] = "flock"
  /\ \/ /\ holder[fd[p]] = NoProc
        /\ holder' = [holder EXCEPT ![fd[p]] = p]
        /\ lpc' = [lpc EXCEPT ![p] = "locked"]
        /\ UNCHANGED <<fd, created>>
     \/ /\ holder[fd[p]] # NoProc
        /\ fd' = [fd EXCEPT ![p] = NoInode]
        /\ created' = [created EXCEPT ![p] = FALSE]
        /\ lpc' = [lpc EXCEPT ![p] = "wait"]
        /\ UNCHANGED holder
  /\ UNCHANGED name

(* AcquireWithRetry tries again after the interval, or gives up; so does   *)
(* every caller without a timeout.                                         *)
Retry(p) ==
  /\ lpc[p] = "wait"
  /\ lpc' = [lpc EXCEPT ![p] = "create"]
  /\ UNCHANGED <<name, holder, fd, created>>

GiveUp(p) ==
  /\ lpc[p] = "wait"
  /\ lpc' = [lpc EXCEPT ![p] = "idle"]
  /\ UNCHANGED <<name, holder, fd, created>>

(* release: LOCK_UN and close, ...                                         *)
KeepFlock(p) ==
  /\ lpc[p] = "locked"
  /\ fd' = [fd EXCEPT ![p] = NoInode]
  /\ lpc' = [lpc EXCEPT ![p] = IF created[p] THEN "remove" ELSE "idle"]
  /\ UNCHANGED <<name, holder, created>>
AlwaysRemoves(p) ==
  /\ lpc[p] = "locked"
  /\ holder' = [holder EXCEPT ![fd[p]] = NoProc]
  /\ fd' = [fd EXCEPT ![p] = NoInode]
  /\ lpc' = [lpc EXCEPT ![p] = "remove"]
  /\ UNCHANGED <<name, created>>
Unlock(p) ==
  /\ lpc[p] = "locked"
  /\ holder' = [holder EXCEPT ![fd[p]] = NoProc]
  /\ fd' = [fd EXCEPT ![p] = NoInode]
  /\ lpc' = [lpc EXCEPT ![p] = IF created[p] THEN "remove" ELSE "idle"]
  /\ UNCHANGED <<name, created>>

(* ... then os.Remove of the name, if this process created the sidecar.    *)
RemoveSidecar(p) ==
  /\ lpc[p] = "remove"
  /\ name' = NoInode
  /\ created' = [created EXCEPT ![p] = FALSE]
  /\ lpc' = [lpc EXCEPT ![p] = "idle"]
  /\ UNCHANGED <<holder, fd>>

(* The process ends: the kernel closes its descriptor and drops its flock, *)
(* and the sidecar stays.  Another process may take its place.             *)
LockCrash(p) ==
  /\ lpc[p] # "idle"
  /\ holder' = [i \in Inode |-> IF holder[i] = p THEN NoProc ELSE holder[i]]
  /\ fd' = [fd EXCEPT ![p] = NoInode]
  /\ created' = [created EXCEPT ![p] = FALSE]
  /\ lpc' = [lpc EXCEPT ![p] = "idle"]
  /\ UNCHANGED name

(* The steps a process takes by itself once it has called lockPath.        *)
LockStep(p) == Create(p) \/ Open(p) \/ Flock(p) \/ Retry(p) \/ Unlock(p) \/ RemoveSidecar(p)

LockNext == \E p \in Proc : Begin(p) \/ LockStep(p) \/ GiveUp(p) \/ LockCrash(p)

LockSpec == LockInit /\ [][LockNext]_lockVars

-----------------------------------------------------------------------------
(* Properties.                                                             *)

(***************************************************************************)
(* At most one process is inside the lock.                                 *)
(***************************************************************************)
MutualExclusion ==
  \A p, q \in Proc : lpc[p] = "locked" /\ lpc[q] = "locked" => p = q

(***************************************************************************)
(* A crashed writer, and the sidecar it left, never wedge the bundle: a    *)
(* process that goes on trying while all others are idle gets the lock.    *)
(***************************************************************************)
AloneGetsTheLock ==
  \A p \in Proc :
    ~<>[](lpc[p] \notin {"idle", "locked"} /\ \A q \in Proc \ {p} : lpc[q] = "idle")
=============================================================================
