------------------------------ MODULE Capture ------------------------------
(***************************************************************************)
(* Continuous capture: the coordinator of `atb intercept`                  *)
(* (internal/proxy/capture.go) and the three files it keeps: the journal   *)
(* (CaptureJournal), the evidence bundle, and the acquisition checkpoint   *)
(* bound to a bundle head (internal/acquisition/checkpoint.go).            *)
(*                                                                         *)
(* An observation is journalled, then materialised into the bundle, then   *)
(* acknowledged by advancing the checkpoint.  The recorder mutex makes the *)
(* coordinator sequential; the adversary is the environment, which ends    *)
(* the process between any two writes, stops the machine, fails a system   *)
(* call, or removes a file while the process is down.                      *)
(***************************************************************************)
EXTENDS CaptureJournal

CONSTANTS
  Token,          \* incarnation tokens the operator may pass at startup
  NoIncarnation,  \* no token was passed
  BundleId,       \* random bundle ids of new manifests
  NoBundle,       \* no bundle file; also an unbound checkpoint
  NoCheckpoint,   \* no checkpoint file
  NoObservation   \* the payload of a record that capture did not write

ASSUME TokenAssumption == Token \subseteq Incarnation
(***************************************************************************)
(* A bundle is its manifest record, told apart by the random bundle id,    *)
(* and the records after it: materialised journal entries, and Foreign     *)
(* records other commands append.  Hashes chain records, so the hash of    *)
(* record n stands for the manifest and the first n records: a             *)
(* checkpoint's (head hash, record count) pair is the bundle it was bound  *)
(* to.                                                                     *)
(***************************************************************************)
Foreign == [pos |-> 0, inc |-> NoIncarnation, obs |-> NoObservation]
Record == Entry \cup {Foreign}
Bundle == [id : BundleId, recs : Seq(Record)]
Checkpoint == [pos : Nat, inc : Incarnation, head : Bundle \cup {NoBundle}]

ASSUME AbsentAssumption ==
  /\ NoIncarnation \notin Incarnation
  /\ NoObservation \notin Observation
  /\ NoBundle \notin Bundle
  /\ NoCheckpoint \notin Checkpoint

VARIABLES
  bun,        \* the bundle file, as the running system shows it
  bunDisk,    \* the contents a power loss may leave in it
  cpFile,     \* the checkpoint file, as the running system shows it
  cpDisk,     \* the contents a power loss may leave in it
  pc,         \* where the coordinator is: see Control
  mode,       \* which of recover and commitPending the coordinator runs
  fresh,      \* no checkpoint existed at startup
  inc,        \* the source incarnation (while opening: the operator's token)
  cpMem,      \* CheckpointManager.Checkpoint
  work,       \* the bundle being built in memory
  created,    \* no bundle file existed when it was loaded
  dirty,      \* appended > 0
  next,       \* position of the next pending entry
  knownGap,   \* captureCoordinator.knownGap
  state,      \* captureCoordinator.state
  verdict,    \* history: how the last startup ended
  acked       \* history: observations commit returned a record hash for

diskVars == <<bun, bunDisk, cpFile, cpDisk>>
coordVars == <<mode, fresh, inc, cpMem, work, created, dirty, next, knownGap, state>>
cvars == <<diskVars, pc, coordVars, verdict, acked>>
vars == <<jvars, cvars>>

Control == {"down", "stopped", "opening", "idle", "append", "load", "replay",
            "save", "savesync", "cpsave", "cpsync"}

(***************************************************************************)
(* Type invariant.  Every file content, on disk or in memory, is whole.    *)
(***************************************************************************)
TypeOK ==
  /\ JTypeOK
  /\ bun \in Bundle \cup {NoBundle}
  /\ bunDisk \in SUBSET (Bundle \cup {NoBundle})
  /\ cpFile \in Checkpoint \cup {NoCheckpoint}
  /\ cpDisk \in SUBSET (Checkpoint \cup {NoCheckpoint})
  /\ pc \in Control
  /\ mode \in {"start", "commit"}
  /\ fresh \in BOOLEAN
  /\ inc \in Incarnation \cup {NoIncarnation}
  /\ cpMem \in Checkpoint \cup {NoCheckpoint}
  /\ work \in Bundle \cup {NoBundle}
  /\ created \in BOOLEAN
  /\ dirty \in BOOLEAN
  /\ next \in Nat
  /\ knownGap \in BOOLEAN
  /\ state \in {"unknown", "healthy", "degraded"}
  /\ verdict \in {"none", "up", "refused", "error"}
  /\ acked \in SUBSET Observation

CInit ==
  /\ bun = NoBundle /\ bunDisk = {NoBundle}
  /\ cpFile = NoCheckpoint /\ cpDisk = {NoCheckpoint}
  /\ pc = "down"
  /\ mode = "start" /\ fresh = FALSE /\ inc = NoIncarnation
  /\ cpMem = NoCheckpoint /\ work = NoBundle
  /\ created = FALSE /\ dirty = FALSE /\ next = 0
  /\ knownGap = FALSE /\ state = "unknown"
  /\ verdict = "none" /\ acked = {}

Init == JInit /\ CInit

(* The process's memory is gone.                                           *)
Forget ==
  /\ mode' = "start" /\ fresh' = FALSE /\ inc' = NoIncarnation
  /\ cpMem' = NoCheckpoint /\ work' = NoBundle
  /\ created' = FALSE /\ dirty' = FALSE /\ next' = 0
  /\ knownGap' = FALSE /\ state' = "unknown"

-----------------------------------------------------------------------------
(* What the coordinator computes.                                          *)

(* indexAcquisition: the record that carries entry e's observation_id.     *)
SameId(r, e) == r.inc = e.inc /\ r.pos = e.pos
NotIndexed(b, e) == FALSE
Indexed(b, e) == \E n \in 1..Len(b.recs) : SameId(b.recs[n], e)
Committed(b, e) == Indexed(b, e) /\ \E n \in 1..Len(b.recs) : b.recs[n] = e

(* Ids of new manifests, and generated incarnations, are random: none that *)
(* a file still mentions is generated again.                               *)
UsedIds ==
  {b.id : b \in (bunDisk \cup {bun}) \ {NoBundle}}
    \cup {c.head.id : c \in {d \in (cpDisk \cup {cpFile, cpMem}) \ {NoCheckpoint} :
                               d.head # NoBundle}}
UsedIncarnations ==
  {jFile[n].inc : n \in 1..Len(jFile)}
    \cup (IF bun = NoBundle THEN {} ELSE {bun.recs[n].inc : n \in 1..Len(bun.recs)})

(* loadBundleForCapture: the file, or a new empty v3 bundle.               *)
LoadBound ==
  IF cpFile # NoCheckpoint /\ cpFile.head # NoBundle THEN {cpFile.head}
  ELSE IF bun = NoBundle THEN {[id |-> i, recs |-> <<>>] : i \in BundleId \ UsedIds}
  ELSE {bun}
LoadBundle ==
  IF bun = NoBundle THEN {[id |-> i, recs |-> <<>>] : i \in BundleId \ UsedIds}
                    ELSE {bun}

(* enableCapture: the operator's token, else the checkpoint's incarnation, *)
(* else the journal's, else a new one.                                     *)
Resolves(i) ==
  IF inc # NoIncarnation THEN i = inc
  ELSE IF ~fresh THEN i = cpFile.inc
  ELSE IF jMem # <<>> THEN i = jMem[1].inc
  ELSE i \notin UsedIncarnations

(* LoadOrCreate.                                                           *)
StartCheckpoint(i) ==
  IF fresh THEN [pos |-> 0, inc |-> i, head |-> NoBundle] ELSE cpFile

(* validateCheckpointPrefix: the bound head is a record of this bundle.    *)
ExactHead(c, b) == c.head # NoBundle => c.head = b
BindsPrefix(c, b) ==
  c.head # NoBundle =>
    /\ c.head.id = b.id
    /\ Len(c.head.recs) <= Len(b.recs)
    /\ \A n \in 1..Len(c.head.recs) : c.head.recs[n] = b.recs[n]

(* bundleHasAcquisition.                                                   *)
HasAcquisition(b) == \E n \in 1..Len(b.recs) : b.recs[n] # Foreign

(* journalAccountsForEvidence.                                             *)
JournalAccountsFor(b) ==
  \A n \in 1..Len(b.recs) : b.recs[n] # Foreign =>
    \E m \in 1..Len(jMem) : SameId(jMem[m], b.recs[n])

(* Evidence, but neither a journal nor a committed position to resume from.*)
NeverLost(c, b) == FALSE
OperationalStateLost(c, b) == HasAcquisition(b) /\ jMem = <<>> /\ c.pos = 0

(* ValidateSource and validateEntry: the checkpoint and every journal entry*)
(* belong to this incarnation.                                             *)
SameCheckpointSource(c, i) == c.inc = i
SameSource(c, i) == c.inc = i /\ \A n \in 1..Len(jMem) : jMem[n].inc = i

(* Every check of enableCapture and recover before the replay.             *)
Continuous(c, b, i) ==
  /\ SameSource(c, i)
  /\ BindsPrefix(c, b)
  /\ ~OperationalStateLost(c, b)
  /\ fresh => JournalAccountsFor(b)
  /\ c.pos <= Len(jMem)

(* EntriesFrom: the first entry the checkpoint does not cover.             *)
JournalEnd(c) == Len(jMem) + 1
FirstPending(c) == c.pos + 1

(* A durable marker beside the journal discloses a gap at startup.         *)
RepairDisclosed == repairMarker
GapDisclosed == repairMarker \/ degradedMarker

(* A new bundle that recover did not save is not bound: its manifest would *)
(* differ from the one the next start creates.                             *)
AlwaysBinds == TRUE
BindsUnsaved == ~(mode = "start" /\ created)

(* UpdateCheckpoint and BindBundle.                                        *)
Bound(c, b) == [c EXCEPT !.pos = Len(jMem), !.head = b]

-----------------------------------------------------------------------------
(* Startup: enableCapture and recover.                                     *)

(* acquisition.Load, then capturejournal.Open.                             *)
Start(tok) ==
  /\ pc \in {"down", "stopped"}
  /\ OpenRead
  /\ pc' = "opening"
  /\ fresh' = (cpFile = NoCheckpoint)
  /\ inc' = tok
  /\ verdict' = "none"
  /\ UNCHANGED <<diskVars, mode, cpMem, work, created, dirty, next, knownGap, state, acked>>

RepairStep ==
  /\ pc = "opening"
  /\ WriteRepairMarker \/ TruncateTornTail
  /\ UNCHANGED cvars

(* enableCapture returns an error: the coordinator is dropped.             *)
StartEnds(v) ==
  /\ pc' = "down"
  /\ verdict' = v
  /\ Forget
  /\ UNCHANGED <<diskVars, acked>>

StartFails ==
  /\ \/ pc \in {"down", "stopped"} /\ OpenFails
     \/ pc = "opening" /\ OpenFails
     \/ pc = "opening" /\ "io" \in Faults /\ Close
  /\ StartEnds("error")

(* The rest of enableCapture, and recover up to its replay loop.           *)
Recover ==
  /\ pc = "opening"
  /\ jPhase = "open"
  /\ \E i \in Incarnation, b \in LoadBundle :
       /\ Resolves(i)
       /\ LET c == StartCheckpoint(i) IN
          \/ /\ Continuous(c, b, i)
             /\ pc' = "replay" /\ mode' = "start"
             /\ inc' = i /\ cpMem' = c /\ next' = FirstPending(c)
             /\ work' = b /\ created' = (bun = NoBundle) /\ dirty' = FALSE
             /\ knownGap' = GapDisclosed
             /\ UNCHANGED <<jvars, diskVars, fresh, state, verdict, acked>>
          \/ ~Continuous(c, b, i) /\ Close /\ StartEnds("refused")

-----------------------------------------------------------------------------
(* The commit protocol: commit, commitPending, and the loop, the save and  *)
(* the checkpoint that recover shares with it.                             *)

(* commit fails before the entry is durable: the gap is sticky.            *)
Gap ==
  /\ pc' = "idle" /\ knownGap' = TRUE /\ state' = "degraded"
  /\ UNCHANGED <<diskVars, mode, fresh, inc, cpMem, work, created, dirty, next, verdict, acked>>

(* commit: journalObservation, up to the write of the line.                *)
Observe(o) ==
  /\ pc = "idle"
  /\ \/ /\ WriteLine(o, inc)
        /\ pc' = "append"
        /\ UNCHANGED <<diskVars, coordVars, verdict, acked>>
     \/ (WriteFails(o) \/ RejectEntry(o) \/ AppendFailed(o)) /\ Gap

(* The fsync that ends Journal.Append.                                     *)
Journal ==
  /\ pc = "append"
  /\ \/ /\ SyncLine
        /\ pc' = "load"
        /\ UNCHANGED <<diskVars, coordVars, verdict, acked>>
     \/ SyncFails /\ Gap

(* commitPending up to its loop over the entries after the checkpoint.     *)
CommitPending ==
  /\ pc = "load"
  /\ \E b \in LoadBundle : work' = b
  /\ pc' = "replay" /\ mode' = "commit"
  /\ created' = (bun = NoBundle) /\ dirty' = FALSE /\ next' = FirstPending(cpMem)
  /\ UNCHANGED <<jvars, diskVars, fresh, inc, cpMem, knownGap, state, verdict, acked>>

(* The locals of recover and commitPending are gone.                       *)
EndCall == work' = NoBundle /\ created' = FALSE /\ dirty' = FALSE /\ next' = 0

(* recover or commitPending returns an error.  A start ends with verdict v;*)
(* in a commit the durable entry stays in the backlog.                     *)
Abort(v) ==
  \/ mode = "start" /\ Close /\ StartEnds(v)
  \/ /\ mode = "commit" /\ pc' = "idle" /\ state' = "degraded" /\ EndCall
     /\ UNCHANGED <<jvars, diskVars, mode, fresh, inc, cpMem, knownGap, verdict, acked>>

(* One turn of the loop: skip a committed entry, append a missing one,     *)
(* fail on an entry whose identity carries another digest.                 *)
ReplayEntry ==
  /\ pc = "replay"
  /\ next <= Len(jMem)
  /\ \/ /\ Committed(work, jMem[next])
        /\ next' = next + 1
        /\ UNCHANGED <<jvars, diskVars, pc, mode, fresh, inc, cpMem, work, created, dirty,
                       knownGap, state, verdict, acked>>
     \/ /\ ~Indexed(work, jMem[next])
        /\ work' = [work EXCEPT !.recs = Append(@, jMem[next])]
        /\ dirty' = TRUE
        /\ next' = next + 1
        /\ UNCHANGED <<jvars, diskVars, pc, mode, fresh, inc, cpMem, created,
                       knownGap, state, verdict, acked>>
     \/ Indexed(work, jMem[next]) /\ ~Committed(work, jMem[next]) /\ Abort("refused")

(* The loop ends: save if anything was appended.                           *)
ReplayDone ==
  /\ pc = "replay"
  /\ next > Len(jMem)
  /\ pc' = IF dirty THEN "save" ELSE "cpsave"
  /\ cpMem' = IF ~dirty /\ BindsUnsaved THEN Bound(cpMem, work) ELSE cpMem
  /\ UNCHANGED <<jvars, diskVars, mode, fresh, inc, work, created, dirty, next,
                 knownGap, state, verdict, acked>>

(* Bundle.Save: the rename over the bundle path makes the new bundle       *)
(* visible, the fsync of the directory makes it durable.                   *)
SaveRenameOnly ==
  /\ pc = "save"
  /\ bun' = work
  /\ bunDisk' = bunDisk \cup {work}
  /\ cpMem' = Bound(cpMem, work)
  /\ pc' = "cpsave"
  /\ UNCHANGED <<jvars, cpFile, cpDisk, mode, fresh, inc, work, created, dirty, next,
                 knownGap, state, verdict, acked>>
SaveRename ==
  /\ pc = "save"
  /\ bun' = work
  /\ bunDisk' = bunDisk \cup {work}
  /\ pc' = "savesync"
  /\ UNCHANGED <<jvars, cpFile, cpDisk, coordVars, verdict, acked>>

SaveSync ==
  /\ pc = "savesync"
  /\ bunDisk' = {bun}
  /\ cpMem' = Bound(cpMem, work)
  /\ pc' = "cpsave"
  /\ UNCHANGED <<jvars, bun, cpFile, cpDisk, mode, fresh, inc, work, created, dirty, next,
                 knownGap, state, verdict, acked>>

(* Checkpoint.Save, likewise.                                              *)
CheckpointRename ==
  /\ pc = "cpsave"
  /\ cpFile' = cpMem
  /\ cpDisk' = cpDisk \cup {cpMem}
  /\ pc' = "cpsync"
  /\ UNCHANGED <<jvars, bun, bunDisk, coordVars, verdict, acked>>

(* The end of recover, and of commitPending and commit.                    *)
CheckpointSync ==
  /\ pc = "cpsync"
  /\ cpDisk' = {cpFile}
  /\ pc' = "idle"
  /\ state' = IF knownGap THEN "degraded" ELSE "healthy"
  /\ EndCall
  /\ verdict' = IF mode = "start" THEN "up" ELSE verdict
  /\ acked' = IF mode = "commit" THEN acked \cup {jMem[Len(jMem)].obs} ELSE acked
  /\ UNCHANGED <<jvars, bun, bunDisk, cpFile, mode, fresh, inc, cpMem, knownGap>>

(* Any of these system calls fails (Save also when the bundle is locked).  *)
(* What a rename made visible stays visible.                               *)
StoreFails ==
  /\ "io" \in Faults
  /\ pc \in {"load", "save", "savesync", "cpsave", "cpsync"}
  /\ Abort("error")

-----------------------------------------------------------------------------
(* The environment.                                                        *)

(* Proxy.Stop: closeCapture, which waits for the recorder mutex.           *)
Stop ==
  /\ pc = "idle"
  /\ Close
  /\ pc' = "stopped"
  /\ Forget
  /\ UNCHANGED <<diskVars, verdict, acked>>

(* captureStopped: an append after Stop is refused.                        *)
AppendStopped(o) ==
  /\ pc = "stopped"
  /\ AppendClosed(o)
  /\ UNCHANGED cvars

Kill ==
  /\ "kill" \in Faults
  /\ pc # "down"
  /\ \/ JournalKilled
     \/ pc = "idle" /\ \E o \in Observation : JournalKilledWriting(o)
  /\ pc' = "down"
  /\ Forget
  /\ UNCHANGED <<diskVars, verdict, acked>>

PowerLoss ==
  /\ "power" \in Faults
  /\ JournalPowerLoss
  /\ \E b \in bunDisk : bun' = b /\ bunDisk' = {b}
  /\ \E c \in cpDisk : cpFile' = c /\ cpDisk' = {c}
  /\ pc' = "down"
  /\ Forget
  /\ UNCHANGED <<verdict, acked>>

(* A file is removed while capture is not running.                          *)
LoseJournal ==
  /\ "loss" \in Faults /\ pc \in {"down", "stopped"} /\ jExists
  /\ jExists' = FALSE /\ jFile' = <<>> /\ jSafe' = 0 /\ jTorn' = FALSE
  /\ UNCHANGED <<jMarkers, jPhase, jMem, outcome, cvars>>

LoseCheckpoint ==
  /\ "loss" \in Faults /\ pc \in {"down", "stopped"} /\ cpFile # NoCheckpoint
  /\ cpFile' = NoCheckpoint /\ cpDisk' = {NoCheckpoint}
  /\ UNCHANGED <<jvars, bun, bunDisk, pc, coordVars, verdict, acked>>

LoseBundle ==
  /\ "loss" \in Faults /\ pc \in {"down", "stopped"} /\ bun # NoBundle
  /\ bun' = NoBundle /\ bunDisk' = {NoBundle}
  /\ UNCHANGED <<jvars, cpFile, cpDisk, pc, coordVars, verdict, acked>>

-----------------------------------------------------------------------------

(* The steps of a call in progress that do not depend on a fault.          *)
Step ==
  \/ RepairStep \/ Recover \/ Journal \/ CommitPending \/ ReplayEntry \/ ReplayDone
  \/ SaveRename \/ SaveSync \/ CheckpointRename \/ CheckpointSync

Fault == StartFails \/ StoreFails \/ Kill \/ PowerLoss
           \/ LoseJournal \/ LoseCheckpoint \/ LoseBundle

Next ==
  \/ \E tok \in Token \cup {NoIncarnation} : Start(tok)
  \/ \E o \in Observation : Observe(o) \/ AppendStopped(o)
  \/ Step
  \/ Stop
  \/ Fault

Spec == Init /\ [][Next]_vars

(***************************************************************************)
(* The process runs what it has begun, a supervisor restarts it when it is *)
(* down, and faults and stops are finitely many.                           *)
(***************************************************************************)
LiveSpec ==
  /\ Spec
  /\ WF_vars(Step)
  /\ WF_vars(Start(NoIncarnation))
  /\ <>[][~(Fault \/ Stop)]_vars

-----------------------------------------------------------------------------
(* Properties.                                                             *)

InEvidence(o, b) == b # NoBundle /\ \E n \in 1..Len(b.recs) : b.recs[n].obs = o
Running == pc \notin {"down", "stopped", "opening"}
Evidence == IF bun = NoBundle THEN <<>> ELSE bun.recs

(***************************************************************************)
(* An observation whose commit returned a record hash is in the bundle,    *)
(* now and after any power loss.                                           *)
(***************************************************************************)
AckedIsEvidence == \A o \in acked : \A b \in bunDisk \cup {bun} : InEvidence(o, b)

(***************************************************************************)
(* The bundle holds the journal's observations once each and in journal    *)
(* order, with none skipped, whatever commits failed or were cut short.    *)
(***************************************************************************)
EvidenceFollowsJournal ==
  /\ Len(Evidence) <= Len(jFile)
  /\ \A n \in 1..Len(Evidence) : Evidence[n] = jFile[n]

(***************************************************************************)
(* With no power loss and no file removed, the journal and the bundle      *)
(* implement the evidence log: observations are only added, and committed  *)
(* in order, across every crash, retry and recovery.                       *)
(***************************************************************************)
Log == INSTANCE EvidenceLog WITH log <- jFile, evidence <- Evidence
ImplementsEvidenceLog == Log!Spec

(***************************************************************************)
(* A live process reports healthy only when no observation it saw was      *)
(* dropped, in this process or in an earlier one, and every journalled     *)
(* observation is evidence.                                                *)
(***************************************************************************)
HealthyIsComplete ==
  pc = "idle" /\ state = "healthy" =>
    \A o \in Observation :
      /\ outcome[o] # "dropped"
      /\ outcome[o] = "journalled" => InEvidence(o, bun)

(***************************************************************************)
(* recover never fails closed on what crashes and failed writes leave      *)
(* behind: continuity is lost only with a file.                            *)
(***************************************************************************)
NeverRefused == verdict # "refused"

(***************************************************************************)
(* BindBundle's contract: a checkpoint never names a head that is not yet  *)
(* committed.  Whatever a power loss leaves of the two files, the          *)
(* checkpoint binds a prefix of the bundle.                                *)
(***************************************************************************)
BindingIsDurable ==
  \A c \in cpDisk \ {NoCheckpoint} : c.head # NoBundle =>
    \A b \in bunDisk : b # NoBundle /\ BindsPrefix(c, b)

(***************************************************************************)
(* The committed position is one the journal holds after any power loss,   *)
(* so recover never finds the checkpoint ahead of the journal.             *)
(***************************************************************************)
PositionIsDurable == \A c \in cpDisk \ {NoCheckpoint} : c.pos <= jSafe

(***************************************************************************)
(* An observation identity names one record of the bundle.                 *)
(***************************************************************************)
IdentityIsUnique ==
  \A m, n \in 1..Len(Evidence) :
    Evidence[m] # Foreign /\ SameId(Evidence[m], Evidence[n]) => m = n

(***************************************************************************)
(* Capture never runs over evidence its journal cannot account for: loss   *)
(* of the journal or the checkpoint fails closed.                          *)
(***************************************************************************)
RunsOnlyWithContinuity == Running /\ bun # NoBundle => JournalAccountsFor(bun)

(***************************************************************************)
(* One bundle never mixes observations of two source incarnations.         *)
(***************************************************************************)
OneSource ==
  \A m, n \in 1..Len(Evidence) :
    Foreign \notin {Evidence[m], Evidence[n]} => Evidence[m].inc = Evidence[n].inc

(***************************************************************************)
(* Under every fault the journal stays one dense, readable sequence, its   *)
(* appends start on a clean line, and an identity names one record.        *)
(***************************************************************************)
JournalIsSound == IdentityIsUnique /\ PositionsAreDense /\ AppendsStartClean

(***************************************************************************)
(* A journalled observation a restart finds uncommitted becomes evidence.  *)
(***************************************************************************)
RestartDrainsJournal ==
  \A o \in Observation :
    (~Running /\ outcome[o] = "journalled") ~> InEvidence(o, bun)

=============================================================================
