---------------------- MODULE CaptureRefinement_proofs ----------------------
(***************************************************************************)
(* With no power loss and no file removed, continuous capture implements   *)
(* the evidence log: whatever kills, I/O errors, stops and restarts cut    *)
(* its commits short, the bundle is a prefix of the journal.               *)
(***************************************************************************)
EXTENDS Capture_proofs

Agrees(s, t) == Len(s) <= Len(t) /\ \A n \in 1..Len(s) : s[n] = t[n]

(***************************************************************************)
(* The inductive invariant.  The checkpoint never runs ahead of the bundle *)
(* (it may lag), so the loop of recover and commitPending starts inside    *)
(* the bundle or right behind it: it skips what the bundle holds, and the  *)
(* first entry it appends is the one after the bundle's last.              *)
(***************************************************************************)
OrderInv ==
  /\ Agrees(jMem, jFile)
  /\ Agrees(Evidence, jFile)
  /\ cpFile # NoCheckpoint => cpFile.pos <= Len(Evidence)
  /\ Running => Len(Evidence) <= Len(jMem) /\ cpMem.pos <= Len(Evidence)
  /\ Building => Agrees(work.recs, jMem)
  /\ pc = "replay" =>
       /\ next <= Len(work.recs) + 1 /\ next <= Len(jMem) + 1
       /\ IF dirty THEN Len(work.recs) > Len(Evidence) ELSE Len(work.recs) = Len(Evidence)
  /\ pc = "save" => Len(work.recs) = Len(jMem) /\ Len(work.recs) > Len(Evidence)
  /\ pc = "savesync" => Len(work.recs) = Len(jMem) /\ bun = work

RefInv == JInv /\ TypeInv /\ OrderInv

(* The evidence is a sequence of records.                                  *)
LEMMA EvidenceType == TypeOK => Evidence \in Seq(Record)
BY DEF TypeOK, Evidence, Bundle

(* The process ends, in a call or between two.                             *)
LEMMA OrderEnds ==
  ASSUME RefInv, pc' \in {"down", "stopped"}, jMem' = <<>>, UNCHANGED <<jFile, bun, cpFile>>
  PROVE  OrderInv'
<1>1. Evidence' = Evidence
  BY DEF Evidence
<1>2. Agrees(jMem, jFile)'
  BY DEF Agrees, RefInv, JInv, JTypeOK
<1> QED
  BY <1>1, <1>2 DEF RefInv, OrderInv, Agrees, Running, Building

(* A step of a process that leaves the files and the locals alone.         *)
LEMMA OrderKept ==
  ASSUME RefInv, pc' \in {"opening", "idle", "append", "load"},
         UNCHANGED <<jFile, jMem, bun, cpFile, cpMem>>,
         pc' # "opening" => Running
  PROVE  OrderInv'
<1>1. Evidence' = Evidence
  BY DEF Evidence
<1> QED
  BY <1>1 DEF RefInv, OrderInv, Agrees, Running, Building

(* A failed call changes neither the journal nor the bundle.               *)
LEMMA OrderAborts ==
  ASSUME RefInv, NEW v \in {"error", "refused"}, Abort(v), Running
  PROVE  OrderInv'
<1>1. CASE Close /\ StartEnds(v)
  BY <1>1, OrderEnds DEF Close, StartEnds, jDisk, diskVars
<1>2. CASE /\ pc' = "idle"
           /\ UNCHANGED <<jvars, diskVars, mode, fresh, inc, cpMem, knownGap, verdict, acked>>
  BY <1>2, OrderKept DEF jvars, diskVars
<1> QED
  BY <1>1, <1>2 DEF Abort

(* A bundle loaded by recover or commitPending is what the file holds.     *)
LEMMA LoadedEvidence ==
  ASSUME TypeInv, NEW b \in LoadBundle
  PROVE  b \in Bundle /\ b.recs = Evidence
BY LoadedBundle DEF TypeInv, TypeOK, Evidence

(* The loop starts inside the bundle, or right behind it.                  *)
LEMMA OrderStartsLoop ==
  ASSUME RefInv, NEW b \in LoadBundle, NEW c \in Checkpoint,
         c.pos <= Len(Evidence), Len(Evidence) <= Len(jMem),
         pc' = "replay", work' = b, cpMem' = c, next' = FirstPending(c), dirty' = FALSE,
         UNCHANGED <<jvars, bun, cpFile>>
  PROVE  OrderInv'
<1>1. Evidence' = Evidence /\ UNCHANGED <<jMem, jFile>>
  BY DEF Evidence, jvars
<1>2. b.recs = Evidence /\ Len(Evidence) \in Nat /\ c.pos \in Nat /\ Len(jMem) \in Nat
  BY LoadedEvidence, EvidenceType DEF RefInv, TypeInv, TypeOK, JTypeOK, Checkpoint
<1>3. Agrees(Evidence, jMem)
  BY <1>2 DEF RefInv, OrderInv, Agrees
<1>4. next' <= Len(Evidence) + 1 /\ next' <= Len(jMem) + 1
  BY <1>2 DEF FirstPending
<1>5. Agrees(jMem, jFile) /\ Agrees(Evidence, jFile)
      /\ (cpFile # NoCheckpoint => cpFile.pos <= Len(Evidence))
  BY DEF RefInv, OrderInv
<1> QED
  BY <1>1, <1>2, <1>3, <1>4, <1>5 DEF OrderInv, Agrees, Running, Building

(* One turn of the loop.                                                   *)
LEMMA OrderReplays ==
  ASSUME RefInv, ReplayEntry
  PROVE  OrderInv'
<1>0. /\ pc = "replay" /\ work \in Bundle /\ work.recs \in Seq(Record)
      /\ next \in 1..Len(jMem) /\ jMem \in Seq(Entry) /\ Running /\ Building
  BY DEF ReplayEntry, RefInv, TypeInv, ControlInv, Running, Building, TypeOK, JTypeOK, Bundle
<1>1. /\ Agrees(work.recs, jMem) /\ next <= Len(work.recs) + 1
      /\ Len(work.recs) \in Nat /\ Len(jMem) \in Nat /\ Evidence \in Seq(Record)
  BY <1>0, EvidenceType DEF RefInv, TypeInv, OrderInv
<1>2. \A n \in 1..Len(jMem) : jMem[n].pos = n
  BY <1>0 DEF RefInv, OrderInv, Agrees, JInv, JTypeOK, PositionsAreDense
<1>3. CASE /\ Committed(work, jMem[next]) /\ next' = next + 1
           /\ UNCHANGED <<jvars, diskVars, pc, mode, fresh, inc, cpMem, work, created, dirty,
                          knownGap, state, verdict, acked>>
  <2>1. PICK n \in 1..Len(work.recs) : work.recs[n] = jMem[next]
    BY <1>3 DEF Committed
  <2>2. n = next
    <3>1. n \in 1..Len(jMem) /\ work.recs[n] = jMem[n]
      BY <1>1 DEF Agrees
    <3> QED
      BY <1>0, <1>2, <2>1, <3>1
  <2>3. next' <= Len(work.recs) + 1 /\ next' <= Len(jMem) + 1
    BY <1>0, <1>1, <1>3, <2>2
  <2>4. Evidence' = Evidence
    BY <1>3 DEF Evidence, diskVars
  <2> QED
    BY <1>0, <1>3, <2>3, <2>4 DEF RefInv, OrderInv, Agrees, Running, Building, jvars, diskVars
<1>4. CASE /\ ~Indexed(work, jMem[next])
           /\ work' = [work EXCEPT !.recs = Append(@, jMem[next])]
           /\ dirty' = TRUE /\ next' = next + 1
           /\ UNCHANGED <<jvars, diskVars, pc, mode, fresh, inc, cpMem, created,
                          knownGap, state, verdict, acked>>
  <2>1. next = Len(work.recs) + 1
    <3>1. ~(next \in 1..Len(work.recs))
      BY <1>1, <1>4 DEF Indexed, SameId, Agrees
    <3> QED
      BY <1>0, <1>1, <3>1
  <2>2. jMem[next] \in Record
    BY <1>0 DEF Record
  <2>3. work'.recs = Append(work.recs, jMem[next])
    BY <1>0, <1>4, <2>2, AppendedBundle
  <2>4. /\ Len(work'.recs) = Len(work.recs) + 1
        /\ work'.recs[Len(work.recs) + 1] = jMem[next]
        /\ \A n \in 1..Len(work.recs) : work'.recs[n] = work.recs[n]
    BY <1>0, <2>2, <2>3
  <2>5. Agrees(work'.recs, jMem)
    <3>1. Len(work'.recs) <= Len(jMem)
      BY <1>0, <2>1, <2>4
    <3>2. ASSUME NEW n \in 1..Len(work'.recs) PROVE work'.recs[n] = jMem[n]
      <4>1. n \in 1..Len(work.recs) \/ n = next
        BY <1>1, <2>1, <2>4
      <4> QED
        BY <1>1, <2>1, <2>4, <4>1 DEF Agrees
    <3> QED
      BY <3>1, <3>2 DEF Agrees
  <2>6. Evidence' = Evidence
    BY <1>4 DEF Evidence, diskVars
  <2>7. Len(work'.recs) > Len(Evidence)
    <3>1. Len(work.recs) >= Len(Evidence) /\ Len(Evidence) \in Nat
      BY <1>0, <1>1 DEF RefInv, OrderInv
    <3> QED
      BY <1>1, <2>4, <3>1
  <2>8. next' <= Len(work'.recs) + 1 /\ next' <= Len(jMem) + 1
    BY <1>0, <1>1, <1>4, <2>1, <2>4
  <2>9. /\ Agrees(jMem, jFile) /\ Agrees(Evidence, jFile)
        /\ (cpFile # NoCheckpoint => cpFile.pos <= Len(Evidence))
        /\ Len(Evidence) <= Len(jMem) /\ cpMem.pos <= Len(Evidence)
    BY <1>0 DEF RefInv, OrderInv
  <2> QED
    BY <1>0, <1>4, <2>5, <2>6, <2>7, <2>8, <2>9 DEF OrderInv, Agrees, Running, Building, jvars,
       diskVars
<1> QED
  BY <1>0, <1>3, <1>4, OrderAborts DEF ReplayEntry

(* OrderInv is inductive: one case per action of Capture.                  *)
LEMMA OrderStep ==
  ASSUME RefInv, [Next]_vars, ~PowerLoss, ~LoseJournal, ~LoseCheckpoint, ~LoseBundle
  PROVE  OrderInv'
<1> USE DEF RefInv
<1>0. /\ jFile \in Seq(Entry) /\ jMem \in Seq(Entry) /\ Evidence \in Seq(Record)
      /\ Len(jMem) \in Nat /\ Len(jFile) \in Nat /\ Len(Evidence) \in Nat
  BY EvidenceType DEF JInv, JTypeOK, TypeInv
<1>1. ASSUME NEW tok \in Token \cup {NoIncarnation}, Start(tok)
      PROVE  OrderInv'
  <2>1. pc' = "opening" /\ jMem' = jFile /\ UNCHANGED <<jFile, bun, cpFile>>
    BY <1>1 DEF Start, OpenRead, diskVars
  <2>2. Evidence' = Evidence
    BY <2>1 DEF Evidence
  <2> QED
    BY <1>0, <2>1, <2>2 DEF OrderInv, Agrees, Running, Building
<1>2. CASE RepairStep
  BY <1>2, OrderKept DEF RepairStep, WriteRepairMarker, TruncateTornTail, cvars, diskVars,
     coordVars, jDisk
<1>3. CASE StartFails \/ Stop \/ Kill
  <2>1. pc' \in {"down", "stopped"} /\ jMem' = <<>> /\ UNCHANGED <<jFile, bun, cpFile>>
    BY <1>3 DEF StartFails, Stop, Kill, StartEnds, OpenFails, Close, JournalKilled,
       JournalKilledWriting, diskVars, jDisk
  <2> QED
    BY <2>1, OrderEnds
<1>4. CASE Recover
  <2>1. CASE Close /\ StartEnds("refused")
    BY <2>1, OrderEnds DEF Close, StartEnds, jDisk, diskVars
  <2>2. ASSUME NEW i \in Incarnation, NEW b \in LoadBundle,
               pc' = "replay", cpMem' = StartCheckpoint(i),
               next' = FirstPending(StartCheckpoint(i)), work' = b, dirty' = FALSE,
               UNCHANGED <<jvars, diskVars>>
        PROVE  OrderInv'
    <3>1. StartCheckpoint(i) \in Checkpoint /\ StartCheckpoint(i).pos <= Len(Evidence)
      <4>1. cpFile \in Checkpoint \cup {NoCheckpoint} /\ (fresh <=> cpFile = NoCheckpoint)
        BY <1>4 DEF Recover, TypeInv, TypeOK, ControlInv
      <4>2. StartCheckpoint(i) \in Checkpoint
        BY <4>1, StartCheckpointType
      <4>3. CASE fresh
        BY <1>0, <4>2, <4>3 DEF StartCheckpoint
      <4>4. CASE ~fresh
        BY <4>1, <4>2, <4>4 DEF StartCheckpoint, OrderInv
      <4> QED
        BY <4>3, <4>4
    <3>2. Len(Evidence) <= Len(jMem)
      BY <1>4 DEF Recover, JInv, MemoryFollowsFile, OrderInv, Agrees
    <3> QED
      BY <2>2, <3>1, <3>2, OrderStartsLoop DEF diskVars
  <2> QED
    BY <1>4, <2>1, <2>2 DEF Recover
<1>5. ASSUME NEW o \in Observation, Observe(o)
      PROVE  OrderInv'
  <2>1. CASE WriteLine(o, inc) /\ pc' = "append" /\ UNCHANGED <<diskVars, coordVars, verdict, acked>>
    <3>1. NextEntry(o, inc) \in Entry
      BY <1>0, <1>5 DEF Observe, TypeInv, ControlInv, Running, NextEntry, Entry
    <3>2. jFile' = Append(jFile, NextEntry(o, inc)) /\ jMem' = jMem
      BY <2>1 DEF WriteLine
    <3>3. Len(jFile') = Len(jFile) + 1 /\ \A n \in 1..Len(jFile) : jFile'[n] = jFile[n]
      BY <1>0, <3>1, <3>2
    <3>4. Evidence' = Evidence /\ UNCHANGED <<cpFile, cpMem>>
      BY <2>1 DEF Evidence, diskVars, coordVars
    <3>5. Agrees(jMem, jFile)' /\ Agrees(Evidence, jFile)'
      BY <1>0, <3>2, <3>3, <3>4 DEF OrderInv, Agrees
    <3> QED
      BY <1>5, <2>1, <3>2, <3>4, <3>5 DEF Observe, OrderInv, Running, Building
  <2>2. CASE (WriteFails(o) \/ RejectEntry(o) \/ AppendFailed(o)) /\ Gap
    <3>1. UNCHANGED <<jFile, jMem>>
      BY <2>2 DEF WriteFails, RejectEntry, AppendFailed, jDisk
    <3> QED
      BY <1>5, <2>2, <3>1, OrderKept DEF Observe, Gap, Running, diskVars
  <2> QED
    BY <1>5, <2>1, <2>2 DEF Observe
<1>6. CASE Journal
  <2>1. CASE SyncLine /\ pc' = "load" /\ UNCHANGED <<diskVars, coordVars, verdict, acked>>
    <3>1. jMem' = jFile /\ jFile' = jFile
      BY <2>1 DEF SyncLine, JInv, MemoryFollowsFile
    <3>2. Evidence' = Evidence /\ UNCHANGED <<cpFile, cpMem>>
      BY <2>1 DEF Evidence, diskVars, coordVars
    <3>3. Agrees(jFile, jFile) /\ Len(Evidence) <= Len(jFile)
      BY <1>0 DEF OrderInv, Agrees
    <3> QED
      BY <1>6, <2>1, <3>1, <3>2, <3>3 DEF Journal, OrderInv, Agrees, Running, Building
  <2>2. CASE SyncFails /\ Gap
    BY <1>6, <2>2, OrderKept DEF Journal, SyncFails, Gap, Running, diskVars, jDisk
  <2> QED
    BY <1>6, <2>1, <2>2 DEF Journal
<1>7. CASE CommitPending
  <2>1. PICK b \in LoadBundle : work' = b
    BY <1>7 DEF CommitPending
  <2>2. cpMem \in Checkpoint /\ cpMem.pos <= Len(Evidence) /\ Len(Evidence) <= Len(jMem)
    BY <1>7 DEF CommitPending, TypeInv, ControlInv, OrderInv, Running
  <2> QED
    BY <1>7, <2>1, <2>2, OrderStartsLoop DEF CommitPending, diskVars
<1>8. CASE ReplayDone
  <2>1. /\ work.recs \in Seq(Record) /\ Agrees(work.recs, jMem) /\ next <= Len(work.recs) + 1
        /\ next > Len(jMem) /\ next \in Nat
    BY <1>8 DEF ReplayDone, TypeInv, TypeOK, ControlInv, Building, OrderInv, Bundle
  <2>2. Len(work.recs) = Len(jMem)
    BY <1>0, <2>1 DEF Agrees
  <2>3. dirty => Len(work.recs) > Len(Evidence)
    BY <1>8 DEF ReplayDone, OrderInv
  <2>4. ~dirty => Len(work.recs) = Len(Evidence)
    BY <1>8 DEF ReplayDone, OrderInv
  <2>5. cpMem'.pos <= Len(Evidence)
    <3>1. cpMem.pos <= Len(Evidence) /\ cpMem \in Checkpoint /\ work \in Bundle
      BY <1>8 DEF ReplayDone, OrderInv, Running, TypeInv, ControlInv, Building
    <3>2. Bound(cpMem, work).pos = Len(jMem)
      BY <1>0, <3>1, BoundType
    <3> QED
      BY <1>0, <1>8, <2>2, <2>4, <3>1, <3>2 DEF ReplayDone
  <2>6. Evidence' = Evidence
    BY <1>8 DEF ReplayDone, Evidence, diskVars
  <2> QED
    BY <1>8, <2>1, <2>2, <2>3, <2>5, <2>6 DEF ReplayDone, OrderInv, Agrees, Running, Building,
       jvars, diskVars
<1>9. CASE SaveRename
  <2>1. Agrees(work.recs, jMem) /\ Len(work.recs) = Len(jMem) /\ Len(work.recs) > Len(Evidence)
    BY <1>9 DEF SaveRename, OrderInv, Building
  <2>2. work \in Bundle /\ work # NoBundle
    BY <1>9, AbsentAssumption DEF SaveRename, TypeInv, ControlInv, Building
  <2>3. Evidence' = work.recs
    BY <1>9, <2>2 DEF SaveRename, Evidence
  <2>4. Agrees(work.recs, jFile)
    BY <1>0, <2>1 DEF OrderInv, Agrees
  <2>5. cpMem.pos <= Len(work.recs) /\ (cpFile # NoCheckpoint => cpFile.pos <= Len(work.recs))
    <3>1. cpMem \in Checkpoint /\ cpMem.pos <= Len(Evidence)
      BY <1>9 DEF SaveRename, TypeInv, ControlInv, Running, OrderInv
    <3>2. cpFile # NoCheckpoint => cpFile \in Checkpoint /\ cpFile.pos <= Len(Evidence)
      BY DEF TypeInv, TypeOK, OrderInv
    <3> QED
      BY <1>0, <2>1, <3>1, <3>2 DEF Checkpoint
  <2> QED
    BY <1>0, <1>9, <2>1, <2>3, <2>4, <2>5 DEF SaveRename, OrderInv, Agrees, Running, Building,
       jvars, coordVars
<1>10. CASE SaveSync
  <2>1. bun = work /\ work \in Bundle /\ work # NoBundle /\ Len(work.recs) = Len(jMem)
    BY <1>10, AbsentAssumption DEF SaveSync, OrderInv, TypeInv, ControlInv, Building
  <2>2. Evidence = work.recs /\ Evidence' = Evidence
    BY <1>10, <2>1 DEF SaveSync, Evidence
  <2>3. cpMem'.pos <= Len(Evidence)
    BY <1>0, <1>10, <2>1, <2>2, BoundType DEF SaveSync, TypeInv, ControlInv, Running
  <2> QED
    BY <1>10, <2>1, <2>2, <2>3 DEF SaveSync, OrderInv, Agrees, Running, Building, jvars
<1>11. CASE CheckpointRename
  <2>1. Evidence' = Evidence
    BY <1>11 DEF CheckpointRename, Evidence
  <2> QED
    BY <1>11, <2>1 DEF CheckpointRename, OrderInv, Agrees, Running, Building, jvars, coordVars
<1>12. CASE CheckpointSync
  BY <1>12, OrderKept DEF CheckpointSync, Running, jvars
<1>13. CASE StoreFails
  BY <1>13, OrderAborts DEF StoreFails, Running
<1>14. ASSUME NEW o \in Observation, AppendStopped(o)
       PROVE  OrderInv'
  <2>1. Evidence' = Evidence /\ UNCHANGED <<jFile, jMem, cpFile, pc>> /\ pc = "stopped"
    BY <1>14 DEF AppendStopped, AppendClosed, Evidence, cvars, diskVars, jDisk
  <2> QED
    BY <2>1 DEF OrderInv, Agrees, Running, Building
<1>15. CASE UNCHANGED vars
  <2>1. Evidence' = Evidence
    BY <1>15 DEF Evidence, vars, cvars, diskVars
  <2> QED
    BY <1>15, <2>1 DEF vars, cvars, diskVars, coordVars, jvars, OrderInv, Agrees, Running, Building
<1> QED
  BY <1>1, <1>2, <1>3, <1>4, <1>5, <1>6, <1>7, <1>8, <1>9, <1>10, <1>11, <1>12, <1>13, <1>14,
     <1>15, OrderReplays DEF Next, Step, Fault

(* No files: the evidence is empty.                                        *)
LEMMA RefInvInit == Init => RefInv
<1> SUFFICES ASSUME Init PROVE RefInv
  OBVIOUS
<1>1. JInv /\ TypeInv
  BY JInvInit, TypeInvInit DEF Init
<1>2. OrderInv
  BY DEF Init, JInit, CInit, OrderInv, Agrees, Evidence, Running, Building
<1> QED
  BY <1>1, <1>2 DEF RefInv

(* RefInv is inductive: types, the journal and the order together.         *)
LEMMA RefInvStep ==
  ASSUME "power" \notin Faults, "loss" \notin Faults
  PROVE  RefInv /\ [Next]_vars => RefInv'
<1> SUFFICES ASSUME RefInv, [Next]_vars PROVE RefInv'
  OBVIOUS
<1>1. ~PowerLoss /\ ~LoseJournal /\ ~LoseCheckpoint /\ ~LoseBundle
  BY DEF PowerLoss, LoseJournal, LoseCheckpoint, LoseBundle
<1>2. JInv' /\ TypeInv'
  BY <1>1, NextIsJStep, JInvStep, TypeInvStep DEF RefInv
<1>3. OrderInv'
  BY <1>1, OrderStep
<1> QED
  BY <1>2, <1>3 DEF RefInv

(* A line written is an Observe, a bundle renamed into place is a Commit.  *)
LEMMA StepImplements ==
  ASSUME RefInv, [Next]_vars, ~PowerLoss, ~LoseJournal, ~LoseCheckpoint, ~LoseBundle
  PROVE  [Log!Next]_<<jFile, Evidence>>
<1>1. CASE UNCHANGED <<jFile, bun>>
  BY <1>1 DEF Evidence
<1>2. ASSUME NEW o \in Observation, WriteLine(o, inc), UNCHANGED bun, inc \in Incarnation
      PROVE  Log!Observe
  <2>1. jFile \in Seq(Entry) /\ NextEntry(o, inc) \in Entry
    BY <1>2 DEF RefInv, JInv, JTypeOK, NextEntry, Entry
  <2>2. Len(jFile') = Len(jFile) + 1 /\ \A n \in 1..Len(jFile) : jFile'[n] = jFile[n]
    BY <1>2, <2>1 DEF WriteLine
  <2>3. Len(jFile) <= Len(jFile')
    BY <2>1, <2>2
  <2> QED
    BY <1>2, <2>2, <2>3 DEF Log!Observe, Log!Prefix, Evidence
<1>3. CASE SaveRename
  <2>1. Agrees(work.recs, jMem) /\ Len(work.recs) > Len(Evidence)
    BY <1>3 DEF SaveRename, RefInv, OrderInv, Building
  <2>2. work \in Bundle /\ work # NoBundle /\ work.recs \in Seq(Record)
    BY <1>3, AbsentAssumption DEF SaveRename, RefInv, TypeInv, ControlInv, Building, Bundle
  <2>3. Evidence' = work.recs /\ jFile' = jFile
    BY <1>3, <2>2 DEF SaveRename, Evidence, jvars
  <2>4. /\ jFile \in Seq(Entry) /\ jMem \in Seq(Entry) /\ Evidence \in Seq(Record)
        /\ Agrees(jMem, jFile) /\ Agrees(Evidence, jFile)
    BY EvidenceType DEF RefInv, JInv, JTypeOK, TypeInv, OrderInv
  <2>5. Agrees(work.recs, jFile)
    BY <2>1, <2>2, <2>4 DEF Agrees
  <2>6. Agrees(Evidence, work.recs)
    BY <2>1, <2>2, <2>4, <2>5 DEF Agrees
  <2> QED
    BY <2>1, <2>3, <2>5, <2>6 DEF Agrees, Log!Next, Log!Commit, Log!Prefix
<1>4. ASSUME NEW o \in Observation, Observe(o)
      PROVE  [Log!Next]_<<jFile, Evidence>>
  <2>1. inc \in Incarnation /\ UNCHANGED bun
    BY <1>4 DEF Observe, Gap, RefInv, TypeInv, ControlInv, Running, diskVars
  <2>2. CASE WriteLine(o, inc)
    BY <1>2, <2>1, <2>2 DEF Log!Next
  <2>3. CASE WriteFails(o) \/ RejectEntry(o) \/ AppendFailed(o)
    BY <1>1, <2>1, <2>3 DEF WriteFails, RejectEntry, AppendFailed, jDisk
  <2> QED
    BY <1>4, <2>2, <2>3 DEF Observe
<1>5. CASE \/ \E tok \in Token \cup {NoIncarnation} : Start(tok)
           \/ \E o \in Observation : AppendStopped(o)
           \/ RepairStep \/ Journal \/ Stop \/ Kill \/ StartFails \/ UNCHANGED vars
  BY <1>1, <1>5 DEF Start, AppendStopped, RepairStep, Journal, Stop, Kill, StartFails, StartEnds,
     Gap, OpenRead, AppendClosed, WriteRepairMarker, TruncateTornTail, SyncLine, SyncFails, Close,
     JournalKilled, JournalKilledWriting, OpenFails, vars, cvars, diskVars, jvars, jDisk
<1>6. CASE Recover \/ CommitPending \/ ReplayEntry \/ ReplayDone \/ SaveSync
           \/ CheckpointRename \/ CheckpointSync \/ StoreFails
  <2>1. UNCHANGED <<jFile, bun>>
    BY <1>6 DEF Recover, CommitPending, ReplayEntry, ReplayDone, SaveSync, CheckpointRename,
       CheckpointSync, StoreFails, Abort, StartEnds, Close, diskVars, jvars, jDisk
  <2> QED
    BY <1>1, <2>1
<1> QED
  BY <1>3, <1>4, <1>5, <1>6 DEF Next, Step, Fault, Log!Next

(***************************************************************************)
(* The bundle holds the journal's observations in order and with none      *)
(* skipped or repeated, in every state that kills, I/O errors, stops and   *)
(* restarts can reach.                                                     *)
(***************************************************************************)
THEOREM EvidenceInOrder ==
  ASSUME "power" \notin Faults, "loss" \notin Faults
  PROVE  Spec => []EvidenceFollowsJournal
<1>1. RefInv => EvidenceFollowsJournal
  BY DEF RefInv, OrderInv, Agrees, EvidenceFollowsJournal
<1> QED
  BY <1>1, RefInvInit, RefInvStep, PTL DEF Spec

(***************************************************************************)
(* Continuous capture implements the evidence log: nothing leaves the      *)
(* journal or the bundle, and every save takes up the next observations.   *)
(***************************************************************************)
THEOREM CaptureImplementsLog ==
  ASSUME "power" \notin Faults, "loss" \notin Faults
  PROVE  Spec => ImplementsEvidenceLog
<1>1. Init => Log!Init
  BY DEF Init, JInit, CInit, Log!Init, Evidence
<1>2. RefInv /\ [Next]_vars => [Log!Next]_<<jFile, Evidence>>
  BY StepImplements DEF PowerLoss, LoseJournal, LoseCheckpoint, LoseBundle
<1> QED
  BY <1>1, <1>2, RefInvInit, RefInvStep, PTL DEF Spec, ImplementsEvidenceLog, Log!Spec
=============================================================================
