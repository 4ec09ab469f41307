-------------------------- MODULE BundleLock_proofs --------------------------
(***************************************************************************)
(* flock on a sidecar excludes as long as nobody removes the sidecar: when *)
(* every process locks through lockPathRooted, or when the sidecar was     *)
(* there before, since release removes only a sidecar it created.  For any *)
(* number of processes, crashes included.                                  *)
(***************************************************************************)
EXTENDS BundleLock, TLAPS

Stable == Rooted = Proc \/ SidecarPresent

(***************************************************************************)
(* The inductive invariant: nobody is going to remove the name, so every   *)
(* open descriptor has the inode the name stands for, and the processes    *)
(* inside the lock are the holder of that one inode.                       *)
(***************************************************************************)
LockInv ==
  /\ LockTypeOK
  /\ SidecarPresent => name # NoInode
  /\ \A p \in Proc : ~created[p] /\ lpc[p] # "remove"
  /\ \A p \in Proc : fd[p] # NoInode => fd[p] = name
  /\ \A p \in Proc : lpc[p] = "locked" => holder[fd[p]] = p

(* No descriptor is open at the start.                                     *)
LEMMA LockInvInit == ASSUME Stable, LockInit PROVE LockInv
<1> USE ProcAssumption, SidecarAssumption, InodeAssumption
<1>1. name \in Inode \cup {NoInode} /\ (SidecarPresent => name # NoInode)
  BY DEF LockInit
<1> QED BY <1>1 DEF LockInit, LockInv, LockTypeOK, LockControl

(* No step of any process disturbs it: one case per action.                *)
LEMMA LockInvStep ==
  ASSUME Stable, LockInv, [LockNext]_lockVars PROVE LockInv'
<1> USE ProcAssumption, SidecarAssumption, InodeAssumption
<1> USE DEF LockInv, LockTypeOK, LockControl
<1>1. CASE UNCHANGED lockVars
  BY <1>1 DEF lockVars
<1>2. ASSUME NEW p \in Proc, Begin(p) PROVE LockInv'
  BY <1>2 DEF Begin
<1>3. ASSUME NEW p \in Proc, Create(p) PROVE LockInv'
  <2>1. CASE name = NoInode
    <3>1. p \in Rooted
      BY <2>1 DEF Stable
    <3>2. PICK i \in Inode : name' = i /\ fd' = [fd EXCEPT ![p] = i]
      BY <1>3, <2>1 DEF Create
    <3>3. /\ created' = [created EXCEPT ![p] = p \notin Rooted]
          /\ lpc' = [lpc EXCEPT ![p] = "flock"]
          /\ holder' = holder
      BY <1>3, <2>1 DEF Create
    <3> QED BY <2>1, <3>1, <3>2, <3>3
  <2>2. CASE name # NoInode
    BY <1>3, <2>2 DEF Create
  <2> QED BY <2>1, <2>2
<1>4. ASSUME NEW p \in Proc, Open(p) PROVE LockInv'
  BY <1>4 DEF Open
<1>5. ASSUME NEW p \in Proc, Flock(p) PROVE LockInv'
  <2>1. fd[p] \in Inode
    BY <1>5 DEF Flock
  <2>2. CASE holder[fd[p]] = NoProc
    <3>1. /\ holder' = [holder EXCEPT ![fd[p]] = p]
          /\ lpc' = [lpc EXCEPT ![p] = "locked"]
          /\ UNCHANGED <<name, fd, created>>
      BY <1>5, <2>2 DEF Flock
    <3>2. \A q \in Proc : lpc[q] # "locked"
      BY <2>1, <2>2
    <3>3. LockTypeOK'
      BY <1>5, <2>1, <3>1 DEF Flock
    <3> QED BY <2>1, <3>1, <3>2, <3>3
  <2>3. CASE holder[fd[p]] # NoProc
    <3>1. /\ fd' = [fd EXCEPT ![p] = NoInode]
          /\ created' = [created EXCEPT ![p] = FALSE]
          /\ lpc' = [lpc EXCEPT ![p] = "wait"]
          /\ UNCHANGED <<name, holder>>
      BY <1>5, <2>3 DEF Flock
    <3>2. LockTypeOK'
      BY <3>1
    <3>3. \A q \in Proc : /\ lpc'[q] = "locked" => lpc[q] = "locked" /\ fd'[q] = fd[q]
                          /\ fd'[q] # NoInode => fd'[q] = fd[q]
                          /\ ~created'[q] /\ lpc'[q] # "remove"
      BY <3>1
    <3> QED BY <3>1, <3>2, <3>3
  <2> QED BY <2>2, <2>3
<1>6. ASSUME NEW p \in Proc, Retry(p) \/ GiveUp(p) PROVE LockInv'
  BY <1>6 DEF Retry, GiveUp
<1>7. ASSUME NEW p \in Proc, Unlock(p) PROVE LockInv'
  BY <1>7 DEF Unlock
<1>8. ASSUME NEW p \in Proc, RemoveSidecar(p) PROVE LockInv'
  BY <1>8 DEF RemoveSidecar
<1>9. ASSUME NEW p \in Proc, LockCrash(p) PROVE LockInv'
  BY <1>9 DEF LockCrash
<1> QED
  BY <1>1, <1>2, <1>3, <1>4, <1>5, <1>6, <1>7, <1>8, <1>9 DEF LockNext, LockStep

(* Two processes inside the lock would both be the holder of one inode.    *)
LEMMA LockInvExcludes == ASSUME LockInv PROVE MutualExclusion
BY DEF LockInv, LockTypeOK, MutualExclusion

(***************************************************************************)
(* Mutual exclusion of lockPathRooted, and of lockPath beside a sidecar    *)
(* that a crash left behind.                                               *)
(***************************************************************************)
THEOREM StableSidecarExcludes ==
  ASSUME Stable PROVE LockSpec => []MutualExclusion
<1>1. LockInit => LockInv
  BY LockInvInit
<1>2. LockInv /\ [LockNext]_lockVars => LockInv'
  BY LockInvStep
<1>3. LockInv => MutualExclusion
  BY LockInvExcludes
<1> QED BY <1>1, <1>2, <1>3, PTL DEF LockSpec
=============================================================================
