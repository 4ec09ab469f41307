--------------------------- MODULE CaptureJournal ---------------------------
(***************************************************************************)
(* The durable observation journal of continuous capture                   *)
(* (internal/capturejournal/journal.go).                                   *)
(*                                                                         *)
(* The journal is an append-only NDJSON file.  One process owns it: it     *)
(* opens the file (reading it, and repairing a torn last line), appends    *)
(* lines with a write followed by an fsync, and closes it.  Two sidecar    *)
(* files disclose loss: a repair marker and a degradation marker.          *)
(*                                                                         *)
(* The file has two contents: what the running system shows of it (jFile,  *)
(* jTorn), and the leading lines that are known to be on stable storage    *)
(* (jSafe).  A killed process leaves the first; a power loss leaves any    *)
(* state between the two.                                                  *)
(***************************************************************************)
EXTENDS Naturals, Sequences

CONSTANTS
  Observation,    \* the distinct things the source emits, each emitted once
  Incarnation,    \* source incarnation tokens
  MarkerMayFail,  \* may the best-effort degradation marker fail to be written?
  Faults          \* which of "kill", "power", "io" and "loss" can happen

ASSUME MarkerMayFailAssumption == MarkerMayFail \in BOOLEAN
ASSUME FaultsAssumption == Faults \subseteq {"kill", "power", "io", "loss"}

(***************************************************************************)
(* Entry abstracts the payload, its digest and the hash chain to the       *)
(* observation itself: distinct observations have distinct digests, and    *)
(* readEntries accepts a line only at the position and after the           *)
(* predecessor it was written with.  The pair (inc, pos) is observation_id.*)
(***************************************************************************)
Entry == [pos : Nat, inc : Incarnation, obs : Observation]

VARIABLES
  jExists,         \* the journal file exists
  jFile,           \* its complete lines, as the running system shows them
  jSafe,           \* how many leading lines survive a power loss
  jTorn,           \* an unterminated fragment follows the complete lines
  repairMarker,    \* the .repair sidecar exists
  degradedMarker,  \* the .degraded sidecar exists
  jPhase,          \* where the owner is: see JournalPhase
  jMem,            \* Journal.entries of the open handle
  outcome          \* history: what became of each observation

jvars == <<jExists, jFile, jSafe, jTorn, repairMarker, degradedMarker,
           jPhase, jMem, outcome>>

(***************************************************************************)
(* "none": no process has a handle; "closed": its handle is closed;        *)
(* "marking" and "truncating" are the two halves of a torn-tail repair in  *)
(* Open; "written" is between the write and the fsync of Append; "failed"  *)
(* is Journal.failed.                                                      *)
(***************************************************************************)
JournalPhase == {"none", "closed", "marking", "truncating", "open", "written", "failed"}

(***************************************************************************)
(* "inflight": Append has not returned (and never will, after a crash);    *)
(* "torn": part of the line is in the file; "dropped": Append returned an  *)
(* error, or a repair cut the fragment; "refused": the journal was closed; *)
(* "journalled": Append returned the entry.                                *)
(***************************************************************************)
Outcome == {"new", "inflight", "torn", "dropped", "refused", "journalled"}

(***************************************************************************)
(* Type invariant.  What an fsync covered is never more than the file has. *)
(***************************************************************************)
JTypeOK ==
  /\ jExists \in BOOLEAN
  /\ jFile \in Seq(Entry)
  /\ jSafe \in 0..Len(jFile)
  /\ jTorn \in BOOLEAN
  /\ repairMarker \in BOOLEAN
  /\ degradedMarker \in BOOLEAN
  /\ jPhase \in JournalPhase
  /\ jMem \in Seq(Entry)
  /\ outcome \in [Observation -> Outcome]

JInit ==
  /\ jExists = FALSE
  /\ jFile = <<>>
  /\ jSafe = 0
  /\ jTorn = FALSE
  /\ repairMarker = FALSE
  /\ degradedMarker = FALSE
  /\ jPhase = "none"
  /\ jMem = <<>>
  /\ outcome = [o \in Observation |-> "new"]

jMarkers == <<repairMarker, degradedMarker>>
jDisk == <<jExists, jFile, jSafe, jTorn>>

-----------------------------------------------------------------------------
(* Open.                                                                   *)

(***************************************************************************)
(* Open up to readEntries.  A missing file is created, and a repair marker *)
(* left beside it is dropped; the degradation marker never is.             *)
(***************************************************************************)
OpenRead ==
  /\ jPhase \in {"none", "closed"}
  /\ jExists' = TRUE
  /\ repairMarker' = (repairMarker /\ jExists)
  /\ jMem' = jFile
  /\ jPhase' = IF jTorn THEN "marking" ELSE "open"
  /\ UNCHANGED <<jFile, jSafe, jTorn, degradedMarker, outcome>>

(* writeRepairMarker: the sidecar and its directory entry are fsynced.     *)
TruncateBeforeMarker ==
  /\ jPhase = "marking"
  /\ jTorn' = FALSE
  /\ outcome' = [o \in Observation |->
                   IF outcome[o] = "torn" THEN "dropped" ELSE outcome[o]]
  /\ jPhase' = "truncating"
  /\ UNCHANGED <<jExists, jFile, jSafe, jMarkers, jMem>>
WriteRepairMarker ==
  /\ jPhase = "marking"
  /\ repairMarker' = TRUE
  /\ jPhase' = "truncating"
  /\ UNCHANGED <<jDisk, degradedMarker, jMem, outcome>>

(* os.Truncate to the last complete line, after the marker.                *)
TruncateOneLineMore ==
  /\ jPhase = "truncating"
  /\ jTorn' = FALSE
  /\ jFile' = SubSeq(jFile, 1, Len(jFile) - 1)
  /\ outcome' = [o \in Observation |->
                   IF outcome[o] = "torn" THEN "dropped" ELSE outcome[o]]
  /\ jPhase' = "open"
  /\ UNCHANGED <<jExists, jSafe, jMarkers, jMem>>
TruncateTornTail ==
  /\ jPhase = "truncating"
  /\ jTorn' = FALSE
  /\ outcome' = [o \in Observation |->
                   IF outcome[o] = "torn" THEN "dropped" ELSE outcome[o]]
  /\ jPhase' = "open"
  /\ UNCHANGED <<jExists, jFile, jSafe, jMarkers, jMem>>

(***************************************************************************)
(* An error before Open returns: the handle is not kept.  syncDirChain can *)
(* fail after the file was created.                                        *)
(***************************************************************************)
OpenFails ==
  /\ "io" \in Faults
  /\ \/ jPhase \in {"marking", "truncating"} /\ UNCHANGED <<jExists, repairMarker>>
     \/ /\ jPhase \in {"none", "closed"} /\ ~jExists
        /\ jExists' = TRUE /\ repairMarker' = FALSE
  /\ jPhase' = "none"
  /\ jMem' = <<>>
  /\ UNCHANGED <<jFile, jSafe, jTorn, degradedMarker, outcome>>

-----------------------------------------------------------------------------
(* Append.                                                                 *)

(* writeDegradedMarker, whose error Append and markDegraded both ignore.   *)
MarkDegraded ==
  \/ degradedMarker' = TRUE
  \/ MarkerMayFail /\ degradedMarker' = degradedMarker

(* The entry Append stores: the next position, under the given incarnation.*)
NextEntry(o, i) == [pos |-> Len(jMem) + 1, inc |-> i, obs |-> o]

(* j.f.Write wrote the whole line; the fsync is still to come.             *)
WriteLine(o, i) ==
  /\ jPhase = "open"
  /\ outcome[o] = "new"
  /\ jFile' = Append(jFile, NextEntry(o, i))
  /\ outcome' = [outcome EXCEPT ![o] = "inflight"]
  /\ jPhase' = "written"
  /\ UNCHANGED <<jExists, jSafe, jTorn, jMarkers, jMem>>

(* j.f.Sync succeeded: the entry is durable, joins entries and is returned.*)
ReturnUnsynced ==
  /\ jPhase = "written"
  /\ jMem' = Append(jMem, jFile[Len(jFile)])
  /\ outcome' = [outcome EXCEPT ![jFile[Len(jFile)].obs] = "journalled"]
  /\ jPhase' = "open"
  /\ UNCHANGED <<jDisk, jMarkers>>
SyncLine ==
  /\ jPhase = "written"
  /\ jSafe' = Len(jFile)
  /\ jMem' = Append(jMem, jFile[Len(jFile)])
  /\ outcome' = [outcome EXCEPT ![jFile[Len(jFile)].obs] = "journalled"]
  /\ jPhase' = "open"
  /\ UNCHANGED <<jExists, jFile, jTorn, jMarkers>>

(***************************************************************************)
(* j.f.Write failed having written none or a part of the line: the journal *)
(* is failed, and the loss is recorded in the degradation marker.          *)
(***************************************************************************)
WriteFails(o) ==
  /\ "io" \in Faults
  /\ jPhase = "open"
  /\ outcome[o] = "new"
  /\ jTorn' \in {jTorn, TRUE}
  /\ outcome' = [outcome EXCEPT ![o] = "dropped"]
  /\ MarkDegraded
  /\ jPhase' = "failed"
  /\ UNCHANGED <<jExists, jFile, jSafe, repairMarker, jMem>>

(***************************************************************************)
(* j.f.Sync failed: the line is in the file but not known to be durable,   *)
(* and not in entries; the journal is failed and marked.                   *)
(***************************************************************************)
SyncErrorReturned ==
  /\ "io" \in Faults
  /\ jPhase = "written"
  /\ outcome' = [outcome EXCEPT ![jFile[Len(jFile)].obs] = "dropped"]
  /\ MarkDegraded
  /\ jPhase' = "open"
  /\ UNCHANGED <<jDisk, repairMarker, jMem>>
SyncFails ==
  /\ "io" \in Faults
  /\ jPhase = "written"
  /\ outcome' = [outcome EXCEPT ![jFile[Len(jFile)].obs] = "dropped"]
  /\ MarkDegraded
  /\ jPhase' = "failed"
  /\ UNCHANGED <<jDisk, repairMarker, jMem>>

(***************************************************************************)
(* The line exceeds maxLineBytes, or (journalObservation) the observation  *)
(* has no representation: nothing is written, the journal stays usable.    *)
(***************************************************************************)
RejectEntry(o) ==
  /\ jPhase = "open"
  /\ outcome[o] = "new"
  /\ outcome' = [outcome EXCEPT ![o] = "dropped"]
  /\ MarkDegraded
  /\ UNCHANGED <<jDisk, repairMarker, jPhase, jMem>>

(* Append on a failed journal: ErrJournalFailed, nothing else.             *)
AppendFailed(o) ==
  /\ jPhase = "failed"
  /\ outcome[o] = "new"
  /\ outcome' = [outcome EXCEPT ![o] = "dropped"]
  /\ UNCHANGED <<jDisk, jMarkers, jPhase, jMem>>

(* Append on a closed journal: ErrJournalClosed, nothing else.             *)
AppendClosed(o) ==
  /\ jPhase = "closed"
  /\ outcome[o] = "new"
  /\ outcome' = [outcome EXCEPT ![o] = "refused"]
  /\ UNCHANGED <<jDisk, jMarkers, jPhase, jMem>>

Close ==
  /\ jPhase \in {"open", "failed"}
  /\ jPhase' = "closed"
  /\ jMem' = <<>>
  /\ UNCHANGED <<jDisk, jMarkers, outcome>>

-----------------------------------------------------------------------------
(* The environment.                                                        *)

(* The process ends; what it wrote stays in the file system.               *)
JournalKilled ==
  /\ jPhase' = "none"
  /\ jMem' = <<>>
  /\ UNCHANGED <<jDisk, jMarkers, outcome>>

(* The process ends inside the write call of Append, part of a line behind.*)
JournalKilledWriting(o) ==
  /\ jPhase = "open"
  /\ outcome[o] = "new"
  /\ outcome' = [outcome EXCEPT ![o] = "torn"]
  /\ jTorn' = TRUE
  /\ jPhase' = "none"
  /\ jMem' = <<>>
  /\ UNCHANGED <<jExists, jFile, jSafe, jMarkers>>

(***************************************************************************)
(* The machine stops: some lines beyond jSafe are lost, the first of them  *)
(* possibly in part.  The markers were fsynced when they were written.     *)
(***************************************************************************)
JournalPowerLoss ==
  \E n \in jSafe..Len(jFile), t \in BOOLEAN :
    /\ t => (jTorn \/ n < Len(jFile))
    /\ jFile' = SubSeq(jFile, 1, n)
    /\ jSafe' = n
    /\ jTorn' = t
    /\ jPhase' = "none"
    /\ jMem' = <<>>
    /\ UNCHANGED <<jExists, jMarkers, outcome>>

JNext ==
  \/ OpenRead \/ WriteRepairMarker \/ TruncateTornTail \/ OpenFails
  \/ \E o \in Observation :
       \/ \E i \in Incarnation : WriteLine(o, i)
       \/ WriteFails(o)
       \/ RejectEntry(o)
       \/ AppendFailed(o)
       \/ AppendClosed(o)
  \/ SyncLine \/ SyncFails
  \/ Close
  \/ "kill" \in Faults /\ (JournalKilled \/ \E o \in Observation : JournalKilledWriting(o))
  \/ "power" \in Faults /\ JournalPowerLoss

JSpec == JInit /\ [][JNext]_jvars

-----------------------------------------------------------------------------
(* Properties.                                                             *)

(***************************************************************************)
(* An entry Append returned stays in the file, through kills, power losses *)
(* and repairs of later torn tails: "a returned entry is durable".         *)
(***************************************************************************)
ReturnedIsDurable ==
  \A o \in Observation : outcome[o] = "journalled" =>
    \E n \in 1..Len(jFile) : jFile[n].obs = o

(***************************************************************************)
(* Every line stands at its own position.  readEntries rejects the journal *)
(* for ever otherwise, so a failed write or fsync must end appending: the  *)
(* next entry would reuse a position the file already holds.               *)
(***************************************************************************)
PositionsAreDense == \A n \in 1..Len(jFile) : jFile[n].pos = n

(***************************************************************************)
(* No append goes behind a torn fragment, whatever interrupted its repair. *)
(***************************************************************************)
AppendsStartClean == jPhase \in {"open", "written"} => ~jTorn

(***************************************************************************)
(* A dropped observation, or a fragment cut by a repair, leaves a durable  *)
(* marker that no crash and no later open removes.                         *)
(***************************************************************************)
LossIsMarked ==
  \A o \in Observation : outcome[o] = "dropped" => repairMarker \/ degradedMarker
=============================================================================
