-------------------------- MODULE BundleStore_proofs --------------------------
(***************************************************************************)
(* A signer signs the bundle it read, whatever other commands do, beside a *)
(* sidecar nobody removes: the lock is held from the read to the write.    *)
(***************************************************************************)
EXTENDS BundleStore, BundleLock_proofs

(***************************************************************************)
(* The inductive invariant: a signer has a copy only inside the lock, and  *)
(* until it is written that copy extends the file by the signature.        *)
(***************************************************************************)
StoreInv ==
  /\ LockInv
  /\ StoreTypeOK
  /\ \A p \in Proc : written[p] => lpc[p] = "locked"
  /\ \A p \in Signer : copy[p] # NoCopy =>
       lpc[p] = "locked" /\ (written[p] \/ copy[p] = Append(file, p))

(* Every step of a store is a step of the lock, or leaves the lock alone.  *)
LEMMA StoreNextIsLockNext ==
  ASSUME [StoreNext]_allVars PROVE [LockNext]_lockVars
BY DEF StoreNext, allVars, Load, Save, Acquire, Contended, Read, Rename, Release,
       Cleanup, Crash, LockNext, LockStep

(* A bundle with one more record is a bundle that ends with it.            *)
LEMMA AppendedLast ==
  ASSUME NEW s \in Seq(Proc), NEW p \in Proc
  PROVE  /\ Append(s, p) \in Seq(Proc)
         /\ Append(s, p) # <<>>
         /\ Append(s, p)[Len(Append(s, p))] = p
OBVIOUS

(* The store's types, one case per group of actions.                       *)
LEMMA StoreTypeStep ==
  ASSUME StoreTypeOK, [StoreNext]_allVars PROVE StoreTypeOK'
<1> USE NoCopyAssumption DEF StoreTypeOK
<1>1. CASE UNCHANGED storeVars
  BY <1>1 DEF storeVars
<1>2. ASSUME NEW p \in Proc, Load(p) \/ Read(p) PROVE StoreTypeOK'
  <2>1. /\ copy' = [copy EXCEPT ![p] = Append(file, p)]
        /\ file' = file /\ written' = written
    BY <1>2 DEF Load, Read
  <2> DEFINE c == Append(file, p)
  <2>2. c \in Seq(Proc) /\ c # <<>> /\ c[Len(c)] = p
    BY AppendedLast
  <2>3. copy' = [copy EXCEPT ![p] = c]
    BY <2>1
  <2> HIDE DEF c
  <2> QED BY <2>1, <2>2, <2>3
<1>3. ASSUME NEW p \in Proc, Rename(p) PROVE StoreTypeOK'
  BY <1>3 DEF Rename
<1>4. ASSUME NEW p \in Proc, Exit(p), UNCHANGED file PROVE StoreTypeOK'
  BY <1>4 DEF Exit
<1> QED
  BY <1>1, <1>2, <1>3, <1>4
  DEF StoreNext, allVars, Save, Acquire, Contended, Release, Cleanup, Crash

(* StoreInv is inductive: only a process inside the lock writes the file,  *)
(* and it is the only one there.                                           *)
LEMMA StoreInvStep ==
  ASSUME Stable, StoreInv, [StoreNext]_allVars PROVE StoreInv'
<1> USE SignerAssumption, NoCopyAssumption
<1>1. LockInv' /\ StoreTypeOK'
  BY LockInvStep, StoreNextIsLockNext, StoreTypeStep DEF StoreInv
<1>2. MutualExclusion
  BY LockInvExcludes DEF StoreInv
<1> DEFINE Rest ==
      /\ \A p \in Proc : written[p] => lpc[p] = "locked"
      /\ \A p \in Signer : copy[p] # NoCopy =>
           lpc[p] = "locked" /\ (written[p] \/ copy[p] = Append(file, p))
<1> SUFFICES Rest' BY <1>1 DEF StoreInv
<1>3. CASE UNCHANGED allVars
  BY <1>3 DEF StoreInv, allVars, lockVars, storeVars
<1>4. ASSUME NEW p \in Proc, Load(p) PROVE Rest'
  BY <1>4 DEF StoreInv, StoreTypeOK, Load, lockVars
<1>5. ASSUME NEW p \in Proc, Save(p) \/ Acquire(p) \/ Cleanup(p) PROVE Rest'
  <2>1. UNCHANGED storeVars /\ lpc[p] # "locked"
    BY <1>5 DEF Save, Begin, Acquire, Create, Open, Flock, Retry, Cleanup, RemoveSidecar
  <2>2. \A q \in Proc : lpc[q] = "locked" => lpc'[q] = "locked"
    BY <1>5, <2>1 DEF StoreInv, LockInv, LockTypeOK, Save, Begin, Acquire, Create,
                       Open, Flock, Retry, Cleanup, RemoveSidecar
  <2> QED BY <2>1, <2>2 DEF StoreInv, storeVars
<1>6. ASSUME NEW p \in Proc, Exit(p), UNCHANGED file,
             GiveUp(p) \/ Unlock(p) \/ LockCrash(p) PROVE Rest'
  <2>1. \A q \in Proc \ {p} : lpc'[q] = lpc[q]
    BY <1>6 DEF StoreInv, LockInv, LockTypeOK, GiveUp, Unlock, LockCrash
  <2>2. copy'[p] = NoCopy /\ ~written'[p]
    BY <1>6 DEF StoreInv, StoreTypeOK, Exit
  <2>3. \A q \in Proc \ {p} : copy'[q] = copy[q] /\ written'[q] = written[q]
    BY <1>6 DEF StoreInv, StoreTypeOK, Exit
  <2> QED BY <1>6, <2>1, <2>2, <2>3 DEF StoreInv
<1>7. ASSUME NEW p \in Proc, Read(p) PROVE Rest'
  BY <1>7 DEF StoreInv, StoreTypeOK, Read, lockVars
<1>8. ASSUME NEW p \in Proc, Rename(p) PROVE Rest'
  <2>1. \A q \in Proc \ {p} : lpc[q] # "locked"
    BY <1>2, <1>8 DEF MutualExclusion, Rename
  <2> QED BY <1>8, <2>1 DEF StoreInv, StoreTypeOK, Rename, lockVars
<1> QED
  BY <1>3, <1>4, <1>5, <1>6, <1>7, <1>8 DEF StoreNext, Contended, Release, Crash

(***************************************************************************)
(* Beside a sidecar nobody removes, a signature is written over exactly    *)
(* the bundle that was read and hashed.                                    *)
(***************************************************************************)
THEOREM SignatureCoversBundle ==
  ASSUME Stable PROVE StoreSpec => []SignedIsCurrent
<1>1. StoreInit => StoreInv
  BY LockInvInit, NoCopyAssumption, SignerAssumption
  DEF StoreInit, StoreInv, StoreTypeOK
<1>2. StoreInv /\ [StoreNext]_allVars => StoreInv'
  BY StoreInvStep
<1>3. StoreInv => SignedIsCurrent
  BY SignerAssumption DEF StoreInv, SignedIsCurrent
<1> QED BY <1>1, <1>2, <1>3, PTL DEF StoreSpec

(***************************************************************************)
(* When every writer reads inside the lock, as signers do, a completed     *)
(* write never drops a record.                                             *)
(***************************************************************************)
THEOREM LockedReadsAppend ==
  ASSUME Stable, Signer = Proc PROVE StoreSpec => AppendOnly
<1>1. StoreInit => StoreInv
  BY LockInvInit, NoCopyAssumption, SignerAssumption
  DEF StoreInit, StoreInv, StoreTypeOK
<1>2. StoreInv /\ [StoreNext]_allVars => StoreInv'
  BY StoreInvStep
<1>3. ASSUME StoreInv, [StoreNext]_allVars PROVE [IsPrefix(file, file')]_allVars
  <2>1. file \in Seq(Proc)
    BY <1>3 DEF StoreInv, StoreTypeOK
  <2>2. file' = file \/ \E p \in Proc : file' = Append(file, p)
    <3>1. CASE \E p \in Proc : Rename(p)
      BY <1>3, <3>1 DEF StoreInv, Rename
    <3>2. CASE ~ \E p \in Proc : Rename(p)
      BY <1>3, <3>2 DEF StoreNext, allVars, storeVars, Load, Save, Acquire, Contended,
                        Read, Release, Cleanup, Crash
    <3> QED BY <3>1, <3>2
  <2>3. IsPrefix(file, file)
    BY <2>1 DEF IsPrefix
  <2>4. ASSUME NEW p \in Proc PROVE IsPrefix(file, Append(file, p))
    BY <2>1 DEF IsPrefix
  <2> QED BY <2>2, <2>3, <2>4
<1> QED BY <1>1, <1>2, <1>3, PTL DEF StoreSpec, AppendOnly
=============================================================================
