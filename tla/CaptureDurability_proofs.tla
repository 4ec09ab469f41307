---------------------- MODULE CaptureDurability_proofs ----------------------
(***************************************************************************)
(* An acknowledged observation is in the bundle after any number of kills, *)
(* power losses and failed system calls, as long as no file is removed.    *)
(***************************************************************************)
EXTENDS Capture_proofs

-----------------------------------------------------------------------------
(***************************************************************************)
(* Each observation is journalled at most once, and no bundle holds one    *)
(* that the source has not emitted.                                        *)
(***************************************************************************)
SeenOnly(s) ==
  \A n \in 1..Len(s) : s[n].obs \in Observation => outcome[s[n].obs] # "new"

Distinct(s) == \A m, n \in 1..Len(s) : s[m].obs = s[n].obs => m = n

ObservedOnce ==
  /\ SeenOnly(jFile) /\ SeenOnly(jMem)
  /\ Distinct(jFile) /\ Distinct(jMem)
  /\ \A b \in bunDisk \cup {bun, work} : b # NoBundle => SeenOnly(b.recs)

(* An observation, once emitted, stays so.                                 *)
LEMMA SeenStays ==
  ASSUME JTypeOK, WrittenIsLast, JStep, NEW o \in Observation, outcome[o] # "new"
  PROVE  outcome'[o] # "new"
<1> USE DEF JTypeOK, jDisk, jMarkers
<1>1. CASE OpenRead \/ WriteRepairMarker \/ OpenFails \/ Close \/ JournalKilled
           \/ JournalPowerLoss \/ UNCHANGED jvars
  BY <1>1 DEF OpenRead, WriteRepairMarker, OpenFails, Close, JournalKilled, JournalPowerLoss, jvars
<1>2. CASE TruncateTornTail
  BY <1>2 DEF TruncateTornTail
<1>3. ASSUME NEW p \in Observation, NEW i \in Incarnation, WriteLine(p, i)
      PROVE  outcome'[o] # "new"
  BY <1>3 DEF WriteLine
<1>4. ASSUME NEW p \in Observation,
             \/ WriteFails(p) \/ RejectEntry(p) \/ AppendFailed(p) \/ AppendClosed(p)
             \/ JournalKilledWriting(p)
      PROVE  outcome'[o] # "new"
  BY <1>4 DEF WriteFails, RejectEntry, AppendFailed, AppendClosed, JournalKilledWriting
<1>5. CASE SyncLine \/ SyncFails
  BY <1>5 DEF SyncLine, SyncFails
<1> QED
  BY <1>1, <1>2, <1>3, <1>4, <1>5 DEF JStep

(* So a sequence without unseen observations keeps none.                   *)
LEMMA SeenOnlyStays ==
  ASSUME JTypeOK, WrittenIsLast, JStep, NEW s, SeenOnly(s)
  PROVE  \A n \in 1..Len(s) : s[n].obs \in Observation => outcome'[s[n].obs] # "new"
BY SeenStays DEF SeenOnly

(* The journal's own part of ObservedOnce.                                 *)
LEMMA JournalOnceStep ==
  ASSUME JInv, JStep, SeenOnly(jFile), SeenOnly(jMem), Distinct(jFile), Distinct(jMem)
  PROVE  SeenOnly(jFile)' /\ SeenOnly(jMem)' /\ Distinct(jFile)' /\ Distinct(jMem)'
<1>0. JTypeOK /\ WrittenIsLast /\ MemoryFollowsFile
  BY DEF JInv
<1>1. CASE UNCHANGED <<jFile, jMem>>
  <2>1. SeenOnly(jFile)' /\ SeenOnly(jMem)'
    BY <1>0, <1>1, SeenOnlyStays DEF SeenOnly
  <2> QED
    BY <1>1, <2>1 DEF Distinct
<1>2. CASE jFile' = jFile /\ jMem' = <<>>
  <2>1. SeenOnly(jFile)'
    BY <1>0, <1>2, SeenOnlyStays DEF SeenOnly
  <2>2. SeenOnly(jMem)' /\ Distinct(jMem)'
    BY <1>2 DEF SeenOnly, Distinct
  <2> QED
    BY <1>2, <2>1, <2>2 DEF Distinct
<1>3. CASE jFile' = jFile /\ jMem' = jFile
  <2>1. SeenOnly(jFile)'
    BY <1>0, <1>3, SeenOnlyStays DEF SeenOnly
  <2> QED
    BY <1>3, <2>1 DEF Distinct, SeenOnly
<1>4. ASSUME NEW o \in Observation, NEW i \in Incarnation, WriteLine(o, i)
      PROVE  SeenOnly(jFile)' /\ SeenOnly(jMem)' /\ Distinct(jFile)' /\ Distinct(jMem)'
  <2>1. NextEntry(o, i) \in Entry /\ NextEntry(o, i).obs = o
    BY <1>0 DEF NextEntry, Entry, JTypeOK
  <2>2. jFile' = Append(jFile, NextEntry(o, i)) /\ jMem' = jMem
    BY <1>4 DEF WriteLine
  <2>3. Len(jFile') = Len(jFile) + 1 /\ jFile'[Len(jFile) + 1].obs = o
    BY <1>0, <2>1, <2>2 DEF JTypeOK
  <2>4. \A n \in 1..Len(jFile) : jFile'[n] = jFile[n] /\ jFile[n].obs \in Observation
    <3>1. \A n \in 1..Len(jFile) : jFile'[n] = jFile[n] /\ jFile[n] \in Entry
      BY <1>0, <2>1, <2>2 DEF JTypeOK
    <3> QED
      BY <3>1 DEF Entry
  <2>5. outcome[o] = "new" /\ outcome'[o] # "new"
    BY <1>0, <1>4 DEF WriteLine, JTypeOK
  <2>6. \A n \in 1..Len(jFile) : jFile[n].obs # o /\ outcome'[jFile[n].obs] # "new"
    BY <1>0, <2>4, <2>5, SeenOnlyStays DEF SeenOnly
  <2>7. Len(jFile) \in Nat
    BY <1>0 DEF JTypeOK
  <2>8. SeenOnly(jFile)' /\ Distinct(jFile)'
    BY <2>3, <2>4, <2>5, <2>6, <2>7 DEF SeenOnly, Distinct
  <2>9. SeenOnly(jMem)' /\ Distinct(jMem)'
    BY <1>0, <2>2, SeenOnlyStays DEF SeenOnly, Distinct
  <2> QED
    BY <2>8, <2>9
<1>5. CASE SyncLine
  BY <1>0, <1>3, <1>5 DEF SyncLine, MemoryFollowsFile
<1>6. CASE JournalPowerLoss
  <2>1. PICK n \in jSafe..Len(jFile) : jFile' = SubSeq(jFile, 1, n) /\ jMem' = <<>>
    BY <1>6 DEF JournalPowerLoss
  <2>2. Len(jFile') = n /\ n \in 0..Len(jFile) /\ \A m \in 1..n : jFile'[m] = jFile[m]
    BY <1>0, <2>1 DEF JTypeOK
  <2>3. SeenOnly(jFile)' /\ Distinct(jFile)'
    <3>1. \A m \in 1..Len(jFile) :
            jFile[m].obs \in Observation => outcome'[jFile[m].obs] # "new"
      BY <1>0, SeenOnlyStays
    <3>2. 1..n \subseteq 1..Len(jFile)
      BY <1>0, <2>2 DEF JTypeOK
    <3>3. SeenOnly(jFile)'
      BY <2>2, <3>1, <3>2 DEF SeenOnly
    <3>4. Distinct(jFile)'
      BY <2>2, <3>2 DEF Distinct
    <3> QED
      BY <3>3, <3>4
  <2>4. SeenOnly(jMem)' /\ Distinct(jMem)'
    BY <2>1 DEF SeenOnly, Distinct
  <2> QED
    BY <2>3, <2>4
<1> QED
  BY <1>1, <1>2, <1>3, <1>4, <1>5, <1>6 DEF JStep, OpenRead, WriteRepairMarker, TruncateTornTail,
     OpenFails, WriteFails, RejectEntry, AppendFailed, AppendClosed, JournalKilledWriting,
     SyncFails, Close, JournalKilled, jvars, jDisk

-----------------------------------------------------------------------------
(***************************************************************************)
(* The inductive invariant.  The entry being committed is not in the       *)
(* bundle when commitPending loads it, because it has just been emitted;   *)
(* so commitPending appends it, and therefore saves and syncs a bundle     *)
(* that holds it before it returns.  This is what rules out acknowledging  *)
(* an entry that an earlier, interrupted save left visible but not durable.*)
(***************************************************************************)
Newest == jMem[Len(jMem)].obs

CommitInv ==
  /\ Running => cpMem.pos <= Len(jMem)
  /\ pc = "append" => ~InEvidence(jFile[Len(jFile)].obs, bun)
  /\ pc = "load" => cpMem.pos < Len(jMem) /\ ~InEvidence(Newest, bun)
  /\ pc = "replay" /\ mode = "commit" =>
       /\ next <= Len(jMem) => ~InEvidence(Newest, work)
       /\ next > Len(jMem) => dirty /\ InEvidence(Newest, work)
  /\ pc \in {"save", "savesync"} /\ mode = "commit" => InEvidence(Newest, work)
  /\ pc = "savesync" => bun = work
  /\ pc \in {"cpsave", "cpsync"} /\ mode = "commit" =>
       \A b \in bunDisk \cup {bun} : InEvidence(Newest, b)

KeepsAcked == Building => \A o \in acked : InEvidence(o, work)

DurabilityInv ==
  /\ JInv /\ TypeInv
  /\ ObservedOnce
  /\ CommitInv
  /\ KeepsAcked
  /\ AckedIsEvidence

(* Appending an entry to a bundle keeps every observation it held.         *)
LEMMA AppendedEvidence ==
  ASSUME NEW b \in Bundle, NEW r \in Record, NEW a \in Bundle, a.recs = Append(b.recs, r)
  PROVE  /\ InEvidence(r.obs, a)
         /\ \A o : InEvidence(o, b) => InEvidence(o, a)
         /\ \A o : o # r.obs /\ ~InEvidence(o, b) => ~InEvidence(o, a)
<1>2. a # NoBundle /\ b # NoBundle
  BY AbsentAssumption
<1>3. b.recs \in Seq(Record)
  BY DEF Bundle
<1>4. /\ Len(a.recs) = Len(b.recs) + 1 /\ Len(b.recs) \in Nat
      /\ a.recs[Len(b.recs) + 1] = r
      /\ \A n \in 1..Len(b.recs) : a.recs[n] = b.recs[n]
  BY <1>3
<1>5. InEvidence(r.obs, a)
  <2>1. Len(b.recs) + 1 \in 1..Len(a.recs)
    BY <1>4
  <2> QED
    BY <1>2, <1>4, <2>1 DEF InEvidence
<1>6. ASSUME NEW o, InEvidence(o, b) PROVE InEvidence(o, a)
  BY <1>2, <1>4, <1>6 DEF InEvidence
<1>7. ASSUME NEW o, o # r.obs, ~InEvidence(o, b), InEvidence(o, a) PROVE FALSE
  <2>1. PICK n \in 1..Len(a.recs) : a.recs[n].obs = o
    BY <1>7 DEF InEvidence
  <2>2. n \in 1..Len(b.recs)
    BY <1>4, <1>7, <2>1
  <2> QED
    BY <1>2, <1>4, <1>7, <2>1, <2>2 DEF InEvidence
<1> QED
  BY <1>5, <1>6, <1>7

(* A bundle that appears is a known one, or work with the next entry.      *)
LEMMA BundleOrigins ==
  ASSUME TypeInv, [Next]_vars, ~LoseBundle,
         NEW b \in bunDisk' \cup {bun', work'}, b # NoBundle
  PROVE  \/ b \in bunDisk \cup {bun, work} \cup LoadBundle
         \/ /\ pc = "replay" /\ next <= Len(jMem) /\ UNCHANGED jvars
            /\ b = [work EXCEPT !.recs = Append(@, jMem[next])]
<1>1. CASE \/ \E tok \in Token \cup {NoIncarnation} : Start(tok)
           \/ \E o \in Observation : Observe(o) \/ AppendStopped(o)
           \/ RepairStep \/ Journal \/ ReplayDone \/ CheckpointRename \/ UNCHANGED vars
           \/ LoseJournal \/ LoseCheckpoint
  <2>1. UNCHANGED <<bun, bunDisk, work>>
    BY <1>1 DEF Start, Observe, AppendStopped, RepairStep, Journal, Gap, ReplayDone,
       CheckpointRename, LoseJournal, LoseCheckpoint, vars, cvars, diskVars, coordVars
  <2> QED
    BY <2>1
<1>2. CASE Recover \/ CommitPending
  <2>1. UNCHANGED <<bun, bunDisk>> /\ work' \in LoadBundle \cup {NoBundle}
    BY <1>2 DEF Recover, CommitPending, StartEnds, Forget, diskVars
  <2> QED
    BY <2>1
<1>3. CASE Stop \/ Kill \/ StoreFails \/ StartFails \/ CheckpointSync
  <2>1. bun' = bun /\ bunDisk' = bunDisk /\ work' = NoBundle
    BY <1>3 DEF Stop, Kill, StoreFails, StartFails, CheckpointSync, Abort, StartEnds, Forget,
       EndCall, diskVars
  <2> QED
    BY <2>1
<1>4. CASE PowerLoss
  BY <1>4 DEF PowerLoss, Forget
<1>5. CASE SaveRename \/ SaveSync
  BY <1>5 DEF SaveRename, SaveSync, coordVars
<1>6. CASE ReplayEntry
  <2>1. CASE \E v \in {"error", "refused"} : Abort(v)
    <3>1. bun' = bun /\ bunDisk' = bunDisk /\ work' = NoBundle
      BY <2>1 DEF Abort, StartEnds, Forget, EndCall, diskVars
    <3> QED
      BY <3>1
  <2>2. CASE UNCHANGED <<diskVars, work>>
    BY <2>2 DEF diskVars
  <2>3. CASE /\ work' = [work EXCEPT !.recs = Append(@, jMem[next])]
             /\ UNCHANGED <<jvars, diskVars>>
    BY <1>6, <2>3 DEF ReplayEntry, diskVars
  <2> QED
    BY <1>6, <2>1, <2>2, <2>3 DEF ReplayEntry
<1> QED
  BY <1>1, <1>2, <1>3, <1>4, <1>5, <1>6 DEF Next, Step, Fault

(* No step writes an observation to a second place in the journal.         *)
LEMMA ObservedOnceStep ==
  ASSUME JInv, TypeInv, ObservedOnce, [Next]_vars, ~LoseBundle, ~LoseJournal
  PROVE  ObservedOnce'
<1>1. JStep /\ JTypeOK /\ WrittenIsLast
  BY NextIsJStep DEF JInv
<1>2. ASSUME NEW b \in bunDisk' \cup {bun', work'}, b # NoBundle
      PROVE  SeenOnly(b.recs)'
  <2>1. CASE b \in bunDisk \cup {bun, work}
    BY <1>1, <1>2, <2>1, SeenOnlyStays DEF ObservedOnce, SeenOnly
  <2>2. CASE b \in LoadBundle
    <3>1. CASE bun = NoBundle
      BY <2>2, <3>1, LoadedBundle DEF TypeInv, TypeOK, SeenOnly
    <3>2. CASE bun # NoBundle
      BY <1>2, <2>1, <2>2, <3>2, LoadedBundle DEF TypeInv, TypeOK
    <3> QED
      BY <3>1, <3>2
  <2>3. CASE /\ pc = "replay" /\ next <= Len(jMem) /\ UNCHANGED jvars
             /\ b = [work EXCEPT !.recs = Append(@, jMem[next])]
    <3>1. work \in Bundle /\ next \in 1..Len(jMem) /\ jMem \in Seq(Entry)
      BY <2>3 DEF TypeInv, ControlInv, Building, TypeOK, JTypeOK
    <3>2. jMem[next] \in Entry /\ jMem[next] \in Record
      BY <3>1 DEF Record
    <3>3. b.recs = Append(work.recs, jMem[next]) /\ work.recs \in Seq(Record)
      BY <2>3, <3>1, <3>2, AppendedBundle DEF Bundle
    <3>4. SeenOnly(work.recs) /\ SeenOnly(jMem)
      BY <3>1, AbsentAssumption DEF ObservedOnce
    <3>5. SeenOnly(b.recs)
      <4>1. /\ Len(b.recs) = Len(work.recs) + 1 /\ Len(work.recs) \in Nat
            /\ b.recs[Len(work.recs) + 1] = jMem[next]
            /\ \A n \in 1..Len(work.recs) : b.recs[n] = work.recs[n]
        BY <3>2, <3>3
      <4> SUFFICES ASSUME NEW n \in 1..Len(b.recs), b.recs[n].obs \in Observation
                   PROVE  outcome[b.recs[n].obs] # "new"
        BY DEF SeenOnly
      <4>2. CASE n \in 1..Len(work.recs)
        BY <3>4, <4>1, <4>2 DEF SeenOnly
      <4>3. CASE n = Len(work.recs) + 1
        BY <3>1, <3>4, <4>1, <4>3 DEF SeenOnly
      <4> QED
        BY <4>1, <4>2, <4>3
    <3> QED
      BY <2>3, <3>5 DEF SeenOnly, jvars
  <2> QED
    BY <1>2, <2>1, <2>2, <2>3, BundleOrigins
<1> QED
  BY <1>1, <1>2, JournalOnceStep DEF ObservedOnce

(* The process ends, in a call or between two.                             *)
LEMMA DurabilityEnds ==
  ASSUME DurabilityInv, pc' \in {"down", "stopped"}, acked' = acked,
         bun' \in bunDisk \cup {bun}, bunDisk' \subseteq bunDisk \cup {bun}
  PROVE  CommitInv' /\ KeepsAcked' /\ AckedIsEvidence'
BY DEF DurabilityInv, CommitInv, KeepsAcked, AckedIsEvidence, Running, Building

(* A step that leaves the bundle, its durable contents and the acknowledged*)
(* observations alone.                                                     *)
LEMMA AckedUnchanged ==
  ASSUME AckedIsEvidence, UNCHANGED <<bun, bunDisk, acked>>
  PROVE  AckedIsEvidence'
BY DEF AckedIsEvidence

(* A failed call leaves the files as they were: nothing acknowledged is lost.*)
LEMMA DurabilityAborts ==
  ASSUME DurabilityInv, NEW v \in {"error", "refused"}, Abort(v),
         pc \in {"load", "replay", "save", "savesync", "cpsave", "cpsync"}
  PROVE  CommitInv' /\ KeepsAcked' /\ AckedIsEvidence'
<1>1. CASE Close /\ StartEnds(v)
  BY <1>1, DurabilityEnds DEF StartEnds, diskVars
<1>2. CASE /\ pc' = "idle" /\ EndCall
           /\ UNCHANGED <<jvars, diskVars, mode, fresh, inc, cpMem, knownGap, verdict, acked>>
  <2>1. CommitInv' /\ KeepsAcked'
    BY <1>2 DEF DurabilityInv, CommitInv, KeepsAcked, Running, Building, jvars
  <2> QED
    BY <1>2, <2>1, AckedUnchanged DEF DurabilityInv, diskVars
<1> QED
  BY <1>1, <1>2 DEF Abort

(* A bundle loaded for a commit holds every acknowledged observation.      *)
LEMMA LoadedKeepsAcked ==
  ASSUME TypeInv, AckedIsEvidence, NEW b \in LoadBundle
  PROVE  /\ \A o \in acked : InEvidence(o, b)
         /\ \A o : InEvidence(o, b) => InEvidence(o, bun)
<1>1. CASE bun = NoBundle
  <2>1. acked = {}
    BY <1>1 DEF AckedIsEvidence, InEvidence
  <2>2. b.recs = <<>>
    BY <1>1, LoadedBundle DEF TypeInv, TypeOK
  <2> QED
    BY <2>1, <2>2 DEF InEvidence
<1>2. CASE bun # NoBundle
  BY <1>2, LoadedBundle DEF TypeInv, TypeOK, AckedIsEvidence
<1> QED
  BY <1>1, <1>2

(* In a loop that has not reached the newest entry, the bundle lacks it.   *)
LEMMA CommitInvInLoop ==
  ASSUME pc' = "replay", jMem' = jMem, Len(jMem) \in Nat, next' \in Nat,
         cpMem'.pos <= Len(jMem),
         mode' = "commit" => next' <= Len(jMem) /\ ~InEvidence(Newest, work')
  PROVE  CommitInv'
<1>1. Newest' = Newest /\ Len(jMem') = Len(jMem)
  BY DEF Newest
<1>2. mode' = "commit" => ~(next' > Len(jMem'))
  BY <1>1
<1>3. mode' = "commit" => ~InEvidence(Newest', work')
  BY <1>1
<1> QED
  BY <1>1, <1>2, <1>3 DEF CommitInv

(* One turn of the loop over the pending entries.                          *)
LEMMA DurabilityReplays ==
  ASSUME DurabilityInv, ReplayEntry
  PROVE  CommitInv' /\ KeepsAcked' /\ AckedIsEvidence'
<1> USE DEF DurabilityInv
<1>0. /\ work \in Bundle /\ next \in 1..Len(jMem) /\ jMem \in Seq(Entry) /\ pc = "replay"
      /\ cpMem.pos <= Len(jMem) /\ Len(jMem) \in 1..Len(jMem)
  BY DEF ReplayEntry, TypeInv, ControlInv, Running, Building, TypeOK, JTypeOK, CommitInv
<1>1. jMem[next] \in Entry /\ jMem[next] \in Record
  BY <1>0 DEF Record
<1>2. CASE /\ Committed(work, jMem[next]) /\ next' = next + 1
           /\ UNCHANGED <<jvars, diskVars, pc, mode, fresh, inc, cpMem, work, created, dirty,
                          knownGap, state, verdict, acked>>
  <2>1. InEvidence(jMem[next].obs, work)
    BY <1>0, <1>2, AbsentAssumption DEF Committed, InEvidence
  <2>2. mode = "commit" => ~InEvidence(Newest, work)
    BY <1>0 DEF CommitInv
  <2>3. mode = "commit" => next' <= Len(jMem)
    BY <1>0, <1>2, <2>1, <2>2 DEF Newest
  <2>4. CommitInv'
    <3>1. /\ pc' = "replay" /\ UNCHANGED <<jMem, cpMem, mode, work>>
          /\ Len(jMem) \in Nat /\ next' \in Nat
      BY <1>0, <1>2 DEF jvars
    <3> QED
      BY <1>0, <2>2, <2>3, <3>1, CommitInvInLoop
  <2>5. KeepsAcked'
    BY <1>2 DEF KeepsAcked, Building
  <2> QED
    BY <1>2, <2>4, <2>5, AckedUnchanged DEF diskVars
<1>3. CASE /\ work' = [work EXCEPT !.recs = Append(@, jMem[next])]
           /\ dirty' = TRUE /\ next' = next + 1
           /\ UNCHANGED <<jvars, diskVars, pc, mode, fresh, inc, cpMem, created,
                          knownGap, state, verdict, acked>>
  <2>1. /\ InEvidence(jMem[next].obs, work')
        /\ \A o : InEvidence(o, work) => InEvidence(o, work')
        /\ \A o : o # jMem[next].obs /\ ~InEvidence(o, work) => ~InEvidence(o, work')
    <3>1. work' \in Bundle /\ work'.recs = Append(work.recs, jMem[next])
      BY <1>0, <1>1, <1>3, AppendedBundle
    <3> QED
      BY <1>0, <1>1, <3>1, AppendedEvidence
  <2>2. mode = "commit" => ~InEvidence(Newest, work)
    BY <1>0 DEF CommitInv
  <2>3. next' <= Len(jMem) => jMem[next].obs # Newest
    BY <1>0, <1>3 DEF ObservedOnce, Distinct, Newest
  <2>4. next' > Len(jMem) => jMem[next].obs = Newest
    BY <1>0, <1>3 DEF Newest
  <2>5. CommitInv'
    BY <1>0, <1>3, <2>1, <2>2, <2>3, <2>4 DEF CommitInv, Running, Newest, jvars, diskVars
  <2>6. KeepsAcked'
    BY <1>0, <1>3, <2>1 DEF KeepsAcked, Building
  <2> QED
    BY <1>3, <2>5, <2>6, AckedUnchanged DEF diskVars
<1> QED
  BY <1>0, <1>2, <1>3, DurabilityAborts DEF ReplayEntry

(* DurabilityInv is inductive: one case per action of Capture.             *)
LEMMA DurabilityStep ==
  ASSUME DurabilityInv, [Next]_vars, ~LoseBundle
  PROVE  CommitInv' /\ KeepsAcked' /\ AckedIsEvidence'
<1> USE DEF DurabilityInv
<1>0. TypeInv'
  BY TypeInvStep
<1>1. ASSUME NEW tok \in Token \cup {NoIncarnation}, Start(tok)
      PROVE  CommitInv' /\ KeepsAcked' /\ AckedIsEvidence'
  BY <1>1, AckedUnchanged DEF Start, CommitInv, KeepsAcked, Running, Building, diskVars
<1>2. CASE RepairStep
  BY <1>2, AckedUnchanged DEF RepairStep, CommitInv, KeepsAcked, Running, Building, cvars, diskVars
<1>3. CASE StartFails \/ Stop \/ Kill
  <2>1. pc' \in {"down", "stopped"} /\ UNCHANGED <<bun, bunDisk, acked>>
    BY <1>3 DEF StartFails, Stop, Kill, StartEnds, diskVars
  <2> QED
    BY <2>1, DurabilityEnds
<1>4. CASE PowerLoss
  <2>1. pc' = "down" /\ bun' \in bunDisk /\ bunDisk' \subseteq bunDisk /\ acked' = acked
    BY <1>4 DEF PowerLoss
  <2> QED
    BY <2>1, DurabilityEnds
<1>5. CASE Recover
  <2>1. CASE StartEnds("refused")
    BY <2>1, DurabilityEnds DEF StartEnds, diskVars
  <2>2. CASE \E i \in Incarnation, b \in LoadBundle :
               /\ Continuous(StartCheckpoint(i), b, i)
               /\ pc' = "replay" /\ mode' = "start" /\ cpMem' = StartCheckpoint(i) /\ work' = b
               /\ UNCHANGED <<jvars, diskVars, acked>>
    <3>1. CommitInv'
      BY <2>2 DEF Continuous, CommitInv, jvars, diskVars
    <3>2. KeepsAcked'
      BY <2>2, LoadedKeepsAcked DEF KeepsAcked
    <3> QED
      BY <2>2, <3>1, <3>2, AckedUnchanged DEF diskVars
  <2> QED
    BY <1>5, <2>1, <2>2 DEF Recover
<1>6. ASSUME NEW o \in Observation, Observe(o)
      PROVE  CommitInv' /\ KeepsAcked' /\ AckedIsEvidence'
  <2>1. CASE /\ WriteLine(o, inc) /\ pc' = "append"
             /\ UNCHANGED <<diskVars, coordVars, verdict, acked>>
    <3>1. inc \in Incarnation /\ jFile \in Seq(Entry) /\ Len(jMem) \in Nat
      BY <1>6 DEF Observe, TypeInv, ControlInv, Running, TypeOK, JTypeOK
    <3>2. NextEntry(o, inc) \in Entry /\ NextEntry(o, inc).obs = o
      BY <3>1 DEF NextEntry, Entry
    <3>3. jFile'[Len(jFile')].obs = o
      BY <2>1, <3>1, <3>2 DEF WriteLine
    <3>4. ~InEvidence(o, bun)
      BY <2>1 DEF WriteLine, ObservedOnce, SeenOnly, InEvidence
    <3>5. CommitInv' /\ KeepsAcked'
      BY <1>6, <2>1, <3>3, <3>4 DEF Observe, WriteLine, CommitInv, KeepsAcked, Running, Building,
         diskVars, coordVars
    <3> QED
      BY <2>1, <3>5, AckedUnchanged DEF diskVars
  <2>2. CASE (WriteFails(o) \/ RejectEntry(o) \/ AppendFailed(o)) /\ Gap
    <3>1. jMem' = jMem
      BY <2>2 DEF WriteFails, RejectEntry, AppendFailed
    <3>2. CommitInv' /\ KeepsAcked'
      BY <1>6, <2>2, <3>1 DEF Observe, Gap, CommitInv, KeepsAcked, Running, Building
    <3> QED
      BY <2>2, <3>2, AckedUnchanged DEF Gap, diskVars
  <2> QED
    BY <1>6, <2>1, <2>2 DEF Observe
<1>7. CASE Journal
  <2>1. CASE SyncLine /\ pc' = "load" /\ UNCHANGED <<diskVars, coordVars, verdict, acked>>
    <3>1. jFile \in Seq(Entry) /\ jMem \in Seq(Entry) /\ jFile # <<>>
      BY <2>1 DEF SyncLine, JInv, JTypeOK, WrittenIsLast
    <3>2. jFile[Len(jFile)] \in Entry
      BY <3>1
    <3>3. Len(jMem') = Len(jMem) + 1 /\ jMem'[Len(jMem')] = jFile[Len(jFile)]
      BY <2>1, <3>1, <3>2 DEF SyncLine
    <3>4. cpMem.pos \in Nat /\ cpMem.pos <= Len(jMem) /\ Len(jMem) \in Nat
      BY <1>7, <3>1 DEF Journal, TypeInv, ControlInv, Running, Checkpoint, CommitInv
    <3>5. cpMem.pos < Len(jMem') /\ cpMem.pos <= Len(jMem')
      BY <3>3, <3>4
    <3>6. CommitInv' /\ KeepsAcked'
      BY <1>7, <2>1, <3>3, <3>5 DEF Journal, CommitInv, KeepsAcked, Running, Building, Newest,
         diskVars, coordVars
    <3> QED
      BY <2>1, <3>6, AckedUnchanged DEF diskVars
  <2>2. CASE SyncFails /\ Gap
    <3>1. CommitInv' /\ KeepsAcked'
      BY <1>7, <2>2 DEF Journal, SyncFails, Gap, CommitInv, KeepsAcked, Running, Building
    <3> QED
      BY <2>2, <3>1, AckedUnchanged DEF Gap, diskVars
  <2> QED
    BY <1>7, <2>1, <2>2 DEF Journal
<1>8. CASE CommitPending
  <2>1. cpMem.pos \in Nat /\ cpMem.pos < Len(jMem) /\ Len(jMem) \in Nat /\ ~InEvidence(Newest, bun)
    BY <1>8 DEF CommitPending, TypeInv, TypeOK, JTypeOK, ControlInv, Running, Checkpoint, CommitInv
  <2>2. next' <= Len(jMem)
    BY <1>8, <2>1 DEF CommitPending, FirstPending
  <2>3. ~InEvidence(Newest, work') /\ \A o \in acked : InEvidence(o, work')
    BY <1>8, <2>1, LoadedKeepsAcked DEF CommitPending
  <2>4. CommitInv'
    <3>1. pc' = "replay" /\ UNCHANGED <<jMem, cpMem>>
      BY <1>8 DEF CommitPending, jvars
    <3>2. next' \in Nat /\ cpMem.pos <= Len(jMem)
      BY <1>8, <2>1 DEF CommitPending, FirstPending
    <3> QED
      BY <2>1, <2>2, <2>3, <3>1, <3>2, CommitInvInLoop
  <2>5. KeepsAcked'
    BY <1>8, <2>3 DEF CommitPending, KeepsAcked
  <2> QED
    BY <1>8, <2>4, <2>5, AckedUnchanged DEF CommitPending, diskVars
<1>9. CASE ReplayDone
  <2>1. cpMem'.pos <= Len(jMem)
    BY <1>9, BoundType DEF ReplayDone, CommitInv, TypeInv, TypeOK, JTypeOK, ControlInv, Running,
       Building
  <2>2. next > Len(jMem) /\ (mode = "commit" => dirty /\ InEvidence(Newest, work))
    BY <1>9 DEF ReplayDone, CommitInv
  <2>3. CommitInv' /\ KeepsAcked'
    BY <1>9, <2>1, <2>2 DEF ReplayDone, CommitInv, KeepsAcked, Building, Newest, jvars
  <2> QED
    BY <1>9, <2>3, AckedUnchanged DEF ReplayDone, diskVars
<1>10. CASE SaveRename
  <2>1. CommitInv' /\ KeepsAcked'
    BY <1>10 DEF SaveRename, CommitInv, KeepsAcked, Running, Building, Newest, jvars, coordVars
  <2>2. AckedIsEvidence'
    BY <1>10 DEF SaveRename, KeepsAcked, Building, AckedIsEvidence
  <2> QED
    BY <2>1, <2>2
<1>11. CASE SaveSync
  <2>1. cpMem'.pos <= Len(jMem)
    BY <1>11, BoundType DEF SaveSync, TypeInv, TypeOK, JTypeOK, ControlInv, Running, Building
  <2>2. bun = work /\ bun' = bun /\ bunDisk' = {bun}
    BY <1>11 DEF SaveSync, CommitInv
  <2>3. CommitInv' /\ KeepsAcked'
    BY <1>11, <2>1, <2>2 DEF SaveSync, CommitInv, KeepsAcked, Building, Newest, jvars
  <2>4. AckedIsEvidence'
    BY <1>11, <2>2 DEF SaveSync, AckedIsEvidence
  <2> QED
    BY <2>3, <2>4
<1>12. CASE CheckpointRename
  <2>1. CommitInv' /\ KeepsAcked'
    BY <1>12 DEF CheckpointRename, CommitInv, KeepsAcked, Running, Building, Newest, jvars,
       coordVars
  <2> QED
    BY <1>12, <2>1, AckedUnchanged DEF CheckpointRename
<1>13. CASE CheckpointSync
  <2>1. CommitInv' /\ KeepsAcked'
    BY <1>13 DEF CheckpointSync, CommitInv, KeepsAcked, Running, Building, jvars
  <2>2. \A o \in acked' : \A b \in bunDisk \cup {bun} : InEvidence(o, b)
    BY <1>13 DEF CheckpointSync, CommitInv, AckedIsEvidence, Newest
  <2> QED
    BY <1>13, <2>1, <2>2 DEF CheckpointSync, AckedIsEvidence
<1>14. CASE StoreFails
  BY <1>14, DurabilityAborts DEF StoreFails
<1>15. ASSUME NEW o \in Observation, AppendStopped(o)
       PROVE  CommitInv' /\ KeepsAcked' /\ AckedIsEvidence'
  BY <1>15, AckedUnchanged DEF AppendStopped, CommitInv, KeepsAcked, Running, Building, cvars,
     diskVars
<1>16. CASE LoseJournal \/ LoseCheckpoint
  BY <1>16, AckedUnchanged DEF LoseJournal, LoseCheckpoint, CommitInv, KeepsAcked, Running,
     Building, cvars, diskVars
<1>17. CASE UNCHANGED vars
  BY <1>17, AckedUnchanged DEF vars, cvars, diskVars, coordVars, jvars, CommitInv, KeepsAcked,
     Running, Building, Newest
<1> QED
  BY <1>1, <1>2, <1>3, <1>4, <1>5, <1>6, <1>7, <1>8, <1>9, <1>10, <1>11, <1>12, <1>13, <1>14,
     <1>15, <1>16, <1>17, DurabilityReplays DEF Next, Step, Fault

(***************************************************************************)
(* The acknowledgement promise of continuous capture: once commit returned *)
(* a record hash, the observation is in the bundle, and in every content   *)
(* of the bundle that a power loss could leave; for any interleaving of    *)
(* kills, power losses, I/O errors, stops and restarts.                    *)
(***************************************************************************)
THEOREM AcknowledgedSurvives == ASSUME "loss" \notin Faults PROVE Spec => []AckedIsEvidence
<1>1. Init => DurabilityInv
  <2> SUFFICES ASSUME Init PROVE DurabilityInv
    OBVIOUS
  <2>1. JInv /\ TypeInv
    BY JInvInit, TypeInvInit DEF Init
  <2>2. ObservedOnce
    BY DEF Init, JInit, CInit, ObservedOnce, SeenOnly, Distinct
  <2>3. CommitInv /\ KeepsAcked /\ AckedIsEvidence
    BY DEF Init, CInit, CommitInv, KeepsAcked, AckedIsEvidence, Running, Building
  <2> QED
    BY <2>1, <2>2, <2>3 DEF DurabilityInv
<1>2. DurabilityInv /\ [Next]_vars => DurabilityInv'
  <2> SUFFICES ASSUME DurabilityInv, [Next]_vars PROVE DurabilityInv'
    OBVIOUS
  <2>1. ~LoseBundle /\ ~LoseJournal
    BY DEF LoseBundle, LoseJournal
  <2>2. JInv' /\ TypeInv'
    BY <2>1, NextIsJStep, JInvStep, TypeInvStep DEF DurabilityInv
  <2>3. ObservedOnce'
    BY <2>1, ObservedOnceStep DEF DurabilityInv
  <2>4. CommitInv' /\ KeepsAcked' /\ AckedIsEvidence'
    BY <2>1, DurabilityStep
  <2> QED
    BY <2>2, <2>3, <2>4 DEF DurabilityInv
<1>3. DurabilityInv => AckedIsEvidence
  BY DEF DurabilityInv
<1> QED
  BY <1>1, <1>2, <1>3, PTL DEF Spec
=============================================================================
