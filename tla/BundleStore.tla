----------------------------- MODULE BundleStore -----------------------------
(***************************************************************************)
(* Processes that add a record to one bundle file under the lock.          *)
(*                                                                         *)
(* A command such as atb append loads the bundle, appends in memory, and   *)
(* takes the lock only to write (Load, then Save or SaveWithRetry of       *)
(* internal/bundle/bundle.go).  A signer reads inside the lock (sign.go).  *)
(* Both replace the whole file by an atomic rename, so readers see one     *)
(* complete bundle; the hash chain of what they write is always intact.    *)
(***************************************************************************)
EXTENDS BundleLock, SequencesExt

CONSTANTS
  Signer,      \* the processes that sign; the others append
  MaxRecords,  \* bound on the bundle's length
  NoCopy

ASSUME SignerAssumption == Signer \subseteq Proc
ASSUME MaxRecordsAssumption == MaxRecords \in Nat
ASSUME NoCopyAssumption == NoCopy \notin Seq(Proc)

VARIABLES
  file,    \* the bundle's records, each named by the process that added it
  copy,    \* copy[p]: the bundle p has in memory, its own record last
  written  \* written[p]: p has replaced the file, and only releases the lock

storeVars == <<file, copy, written>>
allVars == <<lockVars, storeVars>>

(***************************************************************************)
(* Type invariant.  The file is always a whole bundle, and a copy in       *)
(* memory ends with the record its process adds.                           *)
(***************************************************************************)
StoreTypeOK ==
  /\ file \in Seq(Proc)
  /\ copy \in [Proc -> Seq(Proc) \cup {NoCopy}]
  /\ written \in [Proc -> BOOLEAN]
  /\ \A p \in Proc : copy[p] # NoCopy => copy[p] # <<>> /\ copy[p][Len(copy[p])] = p

StoreInit ==
  /\ LockInit
  /\ file = <<>>
  /\ copy = [p \in Proc |-> NoCopy]
  /\ written = [p \in Proc |-> FALSE]

Exit(p) ==
  /\ copy' = [copy EXCEPT ![p] = NoCopy]
  /\ written' = [written EXCEPT ![p] = FALSE]

(* A command loads the bundle and appends its record in memory.            *)
Load(p) ==
  /\ p \notin Signer /\ lpc[p] = "idle" /\ copy[p] = NoCopy
  /\ Len(file) < MaxRecords
  /\ copy' = [copy EXCEPT ![p] = Append(file, p)]
  /\ UNCHANGED <<lockVars, file, written>>

(* It saves: the lock is taken for the copy it already has.                *)
Save(p) ==
  /\ p \in Signer \/ copy[p] # NoCopy
  /\ Begin(p)
  /\ UNCHANGED storeVars

(* SaveWithRetry retries the lock, and keeps the copy.                     *)
Acquire(p) ==
  /\ Create(p) \/ Open(p) \/ Flock(p) \/ Retry(p)
  /\ UNCHANGED storeVars

(* ErrBundleLocked: the command fails.                                     *)
Contended(p) == GiveUp(p) /\ Exit(p) /\ UNCHANGED file

(* signToWithSignerLimited reads the file once, and appends the signature. *)
ReadBeforeFlock(p) ==
  /\ p \in Signer /\ lpc[p] \in {"flock", "locked"} /\ copy[p] = NoCopy /\ ~written[p]
  /\ Len(file) < MaxRecords
  /\ copy' = [copy EXCEPT ![p] = Append(file, p)]
  /\ UNCHANGED <<lockVars, file, written>>
Read(p) ==
  /\ p \in Signer /\ lpc[p] = "locked" /\ copy[p] = NoCopy /\ ~written[p]
  /\ Len(file) < MaxRecords
  /\ copy' = [copy EXCEPT ![p] = Append(file, p)]
  /\ UNCHANGED <<lockVars, file, written>>

(* writeAtomic's rename.                                                   *)
Rename(p) ==
  /\ lpc[p] = "locked" /\ copy[p] # NoCopy /\ ~written[p]
  /\ file' = copy[p]
  /\ written' = [written EXCEPT ![p] = TRUE]
  /\ UNCHANGED <<lockVars, copy>>

(* The lock is released, after the write or because a step before it       *)
(* failed: a read, the verification, the signer, the temporary file.       *)
Release(p) == Unlock(p) /\ Exit(p) /\ UNCHANGED file

Cleanup(p) == RemoveSidecar(p) /\ UNCHANGED storeVars

Crash(p) == LockCrash(p) /\ Exit(p) /\ UNCHANGED file

StoreNext ==
  \E p \in Proc :
    \/ Load(p) \/ Save(p) \/ Acquire(p) \/ Contended(p)
    \/ Read(p) \/ Rename(p) \/ Release(p) \/ Cleanup(p) \/ Crash(p)

StoreSpec == StoreInit /\ [][StoreNext]_allVars

(* The steps a process takes by itself once it has begun to save or sign.  *)
StoreStep(p) == Acquire(p) \/ Read(p) \/ Rename(p) \/ Release(p) \/ Cleanup(p)

(* A process that has called lockPath keeps running until it crashes.      *)
StoreLiveSpec == StoreSpec /\ \A p \in Proc : WF_allVars(StoreStep(p))

-----------------------------------------------------------------------------
(* Properties.                                                             *)

(***************************************************************************)
(* What a signature is about to be written over is what was hashed: no     *)
(* other writer replaces the bundle between a signer's read and its write. *)
(***************************************************************************)
SignedIsCurrent ==
  \A p \in Signer :
    lpc[p] = "locked" /\ copy[p] # NoCopy /\ ~written[p] => copy[p] = Append(file, p)

(***************************************************************************)
(* A completed write keeps every record the bundle held.                   *)
(***************************************************************************)
AppendOnly == [][IsPrefix(file, file')]_allVars
=============================================================================
