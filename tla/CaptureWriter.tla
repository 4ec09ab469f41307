--------------------------- MODULE CaptureWriter ---------------------------
(***************************************************************************)
(* Capture, and another command that appends to the same bundle: atb       *)
(* append, snapshot or anchor (cmd/atb).  The command loads the bundle     *)
(* without the lock, appends one record, and saves under the lock; so does *)
(* the coordinator, whose part is Capture's.                               *)
(***************************************************************************)
EXTENDS Capture, FiniteSets

CONSTANTS
  Overlaps,     \* commands run while capture is up, not only between its runs
  MaxForeign    \* bound on the records commands append

ASSUME OverlapsAssumption == Overlaps \in BOOLEAN
ASSUME MaxForeignAssumption == MaxForeign \in Nat

VARIABLE copy   \* the bundle the command is about to save, or NoBundle

xvars == <<vars, copy>>

Up == pc \notin {"down", "stopped"}

ForeignRecords(b) == {n \in 1..Len(b.recs) : b.recs[n] = Foreign}

XInit == Init /\ copy = NoBundle

(* Load and AppendWithOptions; the bundle must exist.                      *)
WriterStartsOver ==
  /\ copy = NoBundle /\ bun # NoBundle
  /\ Overlaps \/ ~Up
  /\ Cardinality(ForeignRecords(bun)) < MaxForeign
  /\ copy' = [bun EXCEPT !.recs = <<Foreign>>]
  /\ UNCHANGED vars
WriterLoad ==
  /\ copy = NoBundle /\ bun # NoBundle
  /\ Overlaps \/ ~Up
  /\ Cardinality(ForeignRecords(bun)) < MaxForeign
  /\ copy' = [bun EXCEPT !.recs = Append(@, Foreign)]
  /\ UNCHANGED vars

(***************************************************************************)
(* Save: the lock, the rename and the fsync of the directory.  The         *)
(* coordinator's own save holds the lock until its fsync is done.          *)
(***************************************************************************)
WriterSave ==
  /\ copy # NoBundle /\ pc # "savesync"
  /\ bun' = copy /\ bunDisk' = {copy}
  /\ copy' = NoBundle
  /\ UNCHANGED <<jvars, cpFile, cpDisk, pc, coordVars, verdict, acked>>

(* ErrBundleLocked, an error, or the command is interrupted.               *)
WriterFails ==
  /\ copy # NoBundle
  /\ copy' = NoBundle
  /\ UNCHANGED vars

CaptureMoves ==
  /\ Next
  /\ Overlaps \/ copy = NoBundle
  /\ UNCHANGED copy

XNext == WriterLoad \/ WriterSave \/ WriterFails \/ CaptureMoves

XSpec == XInit /\ [][XNext]_xvars

-----------------------------------------------------------------------------
(* Properties.                                                             *)

(***************************************************************************)
(* Capture keeps the records commands appended between its runs: every     *)
(* recovery and commit builds on the bundle as it is, not as it was bound. *)
(***************************************************************************)
CommandRecordsStay ==
  [][bun # NoBundle =>
       bun' # NoBundle /\ Cardinality(ForeignRecords(bun)) <= Cardinality(ForeignRecords(bun'))]_xvars
=============================================================================
