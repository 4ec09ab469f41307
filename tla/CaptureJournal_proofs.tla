----------------------- MODULE CaptureJournal_proofs -----------------------
(***************************************************************************)
(* Proofs about the observation journal, for any number of observations    *)
(* and incarnations and every combination of faults.                       *)
(***************************************************************************)
EXTENDS CaptureJournal, TLAPS

(* One step of the journal, whoever takes it.                              *)
JStep ==
  \/ OpenRead \/ WriteRepairMarker \/ TruncateTornTail \/ OpenFails
  \/ \E o \in Observation :
       \/ \E i \in Incarnation : WriteLine(o, i)
       \/ WriteFails(o) \/ RejectEntry(o) \/ AppendFailed(o) \/ AppendClosed(o)
       \/ JournalKilledWriting(o)
  \/ SyncLine \/ SyncFails \/ Close
  \/ JournalKilled \/ JournalPowerLoss
  \/ UNCHANGED jvars

(* The line whose fsync Append waits for is the last of the file.          *)
WrittenIsLast == jPhase = "written" => jFile # <<>>

(* Every step keeps the journal's variables in their types.                *)
LEMMA JStepTypeOK == JTypeOK /\ WrittenIsLast /\ JStep => JTypeOK' /\ WrittenIsLast'
<1> SUFFICES ASSUME JTypeOK, WrittenIsLast, JStep PROVE JTypeOK' /\ WrittenIsLast'
  OBVIOUS
<1> USE DEF JTypeOK, WrittenIsLast, JournalPhase, Outcome, jDisk, jMarkers
<1>1. CASE OpenRead
  BY <1>1 DEF OpenRead
<1>2. CASE WriteRepairMarker
  BY <1>2 DEF WriteRepairMarker
<1>3. CASE TruncateTornTail
  BY <1>3 DEF TruncateTornTail
<1>4. CASE OpenFails
  <2>1. jExists' \in BOOLEAN /\ repairMarker' \in BOOLEAN
    BY <1>4 DEF OpenFails
  <2>2. jPhase' = "none" /\ jMem' = <<>>
    BY <1>4 DEF OpenFails
  <2>3. UNCHANGED <<jFile, jSafe, jTorn, degradedMarker, outcome>>
    BY <1>4 DEF OpenFails
  <2> QED
    BY <2>1, <2>2, <2>3
<1>5. ASSUME NEW o \in Observation, NEW i \in Incarnation, WriteLine(o, i)
      PROVE  JTypeOK' /\ WrittenIsLast'
  <2>1. NextEntry(o, i) \in Entry
    BY DEF NextEntry, Entry
  <2>2. jFile' \in Seq(Entry) /\ Len(jFile') = Len(jFile) + 1
    BY <1>5, <2>1 DEF WriteLine
  <2>3. jSafe' = jSafe /\ jSafe \in 0..Len(jFile) /\ Len(jFile) \in Nat
    BY <1>5 DEF WriteLine
  <2>4. jSafe' \in 0..Len(jFile')
    BY <2>2, <2>3
  <2>5. jFile' # <<>>
    BY <2>2, <2>3
  <2> QED
    BY <1>5, <2>2, <2>4, <2>5 DEF WriteLine
<1>6. ASSUME NEW o \in Observation, WriteFails(o) PROVE JTypeOK' /\ WrittenIsLast'
  BY <1>6 DEF WriteFails, MarkDegraded
<1>7. ASSUME NEW o \in Observation, RejectEntry(o) PROVE JTypeOK' /\ WrittenIsLast'
  BY <1>7 DEF RejectEntry, MarkDegraded
<1>8. ASSUME NEW o \in Observation, AppendFailed(o) PROVE JTypeOK' /\ WrittenIsLast'
  BY <1>8 DEF AppendFailed
<1>9. ASSUME NEW o \in Observation, AppendClosed(o) PROVE JTypeOK' /\ WrittenIsLast'
  BY <1>9 DEF AppendClosed
<1>10. ASSUME NEW o \in Observation, JournalKilledWriting(o) PROVE JTypeOK' /\ WrittenIsLast'
  BY <1>10 DEF JournalKilledWriting
<1>11. CASE SyncLine
  <2>1. Len(jFile) \in 1..Len(jFile)
    BY <1>11 DEF SyncLine
  <2>2. jFile[Len(jFile)] \in Entry
    BY <2>1
  <2> QED
    BY <1>11, <2>2 DEF SyncLine, Entry
<1>12. CASE SyncFails
  <2>1. Len(jFile) \in 1..Len(jFile)
    BY <1>12 DEF SyncFails
  <2>2. jFile[Len(jFile)] \in Entry
    BY <2>1
  <2> QED
    BY <1>12, <2>2 DEF SyncFails, MarkDegraded, Entry
<1>13. CASE Close
  BY <1>13 DEF Close
<1>14. CASE JournalKilled
  BY <1>14 DEF JournalKilled
<1>15. CASE JournalPowerLoss
  <2>1. PICK n \in jSafe..Len(jFile), t \in BOOLEAN :
             /\ jFile' = SubSeq(jFile, 1, n) /\ jSafe' = n /\ jTorn' = t
             /\ jPhase' = "none" /\ jMem' = <<>>
             /\ UNCHANGED <<jExists, jMarkers, outcome>>
    BY <1>15 DEF JournalPowerLoss
  <2>2. jFile' \in Seq(Entry) /\ Len(jFile') = n
    BY <2>1
  <2> QED
    BY <2>1, <2>2
<1>16. CASE UNCHANGED jvars
  BY <1>16 DEF jvars
<1> QED
  BY <1>1, <1>2, <1>3, <1>4, <1>5, <1>6, <1>7, <1>8, <1>9, <1>10, <1>11, <1>12, <1>13,
     <1>14, <1>15, <1>16 DEF JStep

(* Every journal step is one of the steps the lemmas below consider.       *)
LEMMA JNextIsJStep == [JNext]_jvars => JStep
BY DEF JNext, JStep

-----------------------------------------------------------------------------
(***************************************************************************)
(* The inductive invariant.  Entries in memory are the file's, except that *)
(* the line being appended is not yet in memory, and that a failed journal *)
(* may have one line more in the file; that is why a failed journal must   *)
(* refuse appends.  Returned entries are among the lines an fsync covered. *)
(***************************************************************************)
MemoryFollowsFile ==
  /\ jPhase \in {"marking", "truncating", "open"} => jMem = jFile
  /\ jPhase = "written" => jFile = Append(jMem, jFile[Len(jFile)])

ReturnedIsSafe ==
  \A o \in Observation : outcome[o] = "journalled" =>
    \E n \in 1..jSafe : jFile[n].obs = o

JInv ==
  /\ JTypeOK
  /\ WrittenIsLast
  /\ MemoryFollowsFile
  /\ PositionsAreDense
  /\ AppendsStartClean
  /\ ReturnedIsSafe

(* No step makes Journal.entries differ from the file's complete lines.    *)
LEMMA MemoryStep == JInv /\ JStep => MemoryFollowsFile'
<1> SUFFICES ASSUME JInv, JStep PROVE MemoryFollowsFile'
  OBVIOUS
<1> USE DEF JInv, MemoryFollowsFile, jDisk, jMarkers
<1>1. CASE OpenRead
  BY <1>1 DEF OpenRead
<1>2. CASE WriteRepairMarker \/ TruncateTornTail \/ OpenFails
  BY <1>2 DEF WriteRepairMarker, TruncateTornTail, OpenFails
<1>3. ASSUME NEW o \in Observation, NEW i \in Incarnation, WriteLine(o, i)
      PROVE  MemoryFollowsFile'
  <2>1. NextEntry(o, i) \in Entry
    BY DEF NextEntry, Entry, JTypeOK
  <2>2. jFile' = Append(jFile, NextEntry(o, i)) /\ jMem' = jFile /\ jPhase' = "written"
    BY <1>3 DEF WriteLine
  <2>3. jFile'[Len(jFile')] = NextEntry(o, i)
    BY <2>1, <2>2 DEF JTypeOK
  <2> QED
    BY <2>2, <2>3
<1>4. ASSUME NEW o \in Observation,
             \/ WriteFails(o) \/ RejectEntry(o) \/ AppendFailed(o) \/ AppendClosed(o)
             \/ JournalKilledWriting(o)
      PROVE  MemoryFollowsFile'
  BY <1>4 DEF WriteFails, RejectEntry, AppendFailed, AppendClosed, JournalKilledWriting
<1>5. CASE SyncLine
  BY <1>5 DEF SyncLine
<1>6. CASE SyncFails \/ Close \/ JournalKilled
  BY <1>6 DEF SyncFails, Close, JournalKilled
<1>7. CASE JournalPowerLoss
  BY <1>7 DEF JournalPowerLoss
<1>8. CASE UNCHANGED jvars
  BY <1>8 DEF jvars
<1> QED
  BY <1>1, <1>2, <1>3, <1>4, <1>5, <1>6, <1>7, <1>8 DEF JStep

(* No step leaves a hole or a repeat in the positions.                     *)
LEMMA DenseStep == JInv /\ JStep => PositionsAreDense'
<1> SUFFICES ASSUME JInv, JStep PROVE PositionsAreDense'
  OBVIOUS
<1> USE DEF JInv, PositionsAreDense
<1>1. CASE UNCHANGED jFile
  BY <1>1
<1>2. ASSUME NEW o \in Observation, NEW i \in Incarnation, WriteLine(o, i)
      PROVE  PositionsAreDense'
  <2>1. NextEntry(o, i) \in Entry /\ NextEntry(o, i).pos = Len(jFile) + 1
    BY <1>2 DEF NextEntry, Entry, JTypeOK, WriteLine, MemoryFollowsFile
  <2>2. jFile' = Append(jFile, NextEntry(o, i))
    BY <1>2 DEF WriteLine
  <2> QED
    BY <2>1, <2>2 DEF JTypeOK
<1>3. CASE JournalPowerLoss
  <2>1. PICK n \in jSafe..Len(jFile) : jFile' = SubSeq(jFile, 1, n)
    BY <1>3 DEF JournalPowerLoss
  <2>2. Len(jFile') = n /\ \A m \in 1..n : jFile'[m] = jFile[m]
    BY <2>1 DEF JTypeOK
  <2> QED
    BY <2>1, <2>2 DEF JTypeOK
<1> QED
  BY <1>1, <1>2, <1>3
  DEF JStep, OpenRead, WriteRepairMarker, TruncateTornTail, OpenFails, WriteFails, RejectEntry,
      AppendFailed, AppendClosed, JournalKilledWriting, SyncLine, SyncFails, Close, JournalKilled,
      jvars, jDisk

(* No step leaves an open journal with a torn line.                        *)
LEMMA CleanStep == JInv /\ JStep => AppendsStartClean'
BY DEF JInv, AppendsStartClean, JStep, OpenRead, WriteRepairMarker, TruncateTornTail, OpenFails,
       WriteLine, WriteFails, RejectEntry, AppendFailed, AppendClosed, JournalKilledWriting,
       SyncLine, SyncFails, Close, JournalKilled, JournalPowerLoss, jvars, jDisk

(* No step takes a returned entry out of the fsynced prefix.               *)
LEMMA ReturnedStep == JInv /\ JStep => ReturnedIsSafe'
<1> SUFFICES ASSUME JInv, JStep, NEW q \in Observation, outcome'[q] = "journalled"
             PROVE  \E n \in 1..jSafe' : jFile'[n].obs = q
  BY DEF ReturnedIsSafe
<1> USE DEF JInv, ReturnedIsSafe, JTypeOK
<1>1. CASE outcome[q] = "journalled" /\ UNCHANGED <<jFile, jSafe>>
  BY <1>1
<1>2. ASSUME NEW o \in Observation, NEW i \in Incarnation, WriteLine(o, i)
      PROVE  \E n \in 1..jSafe' : jFile'[n].obs = q
  <2>1. outcome[q] = "journalled"
    BY <1>2 DEF WriteLine
  <2>2. PICK n \in 1..jSafe : jFile[n].obs = q
    BY <2>1
  <2>3. NextEntry(o, i) \in Entry
    BY DEF NextEntry, Entry
  <2>4. jFile'[n] = jFile[n] /\ jSafe' = jSafe
    BY <1>2, <2>3 DEF WriteLine
  <2> QED
    BY <2>2, <2>4
<1>3. CASE SyncLine
  <2>1. jSafe' = Len(jFile) /\ jFile' = jFile
    BY <1>3 DEF SyncLine
  <2>2. Len(jFile) \in 1..Len(jFile)
    BY <1>3 DEF SyncLine, WrittenIsLast
  <2>3. CASE q = jFile[Len(jFile)].obs
    BY <2>1, <2>2, <2>3
  <2>4. CASE q # jFile[Len(jFile)].obs
    <3>1. outcome[q] = "journalled"
      BY <1>3, <2>4 DEF SyncLine
    <3> QED
      BY <2>1, <3>1
  <2> QED
    BY <2>3, <2>4
<1>4. CASE JournalPowerLoss
  <2>1. PICK m \in jSafe..Len(jFile) : jFile' = SubSeq(jFile, 1, m) /\ jSafe' = m
    BY <1>4 DEF JournalPowerLoss
  <2>2. outcome[q] = "journalled"
    BY <1>4 DEF JournalPowerLoss
  <2>3. PICK n \in 1..jSafe : jFile[n].obs = q
    BY <2>2
  <2>4. n \in 1..m /\ jFile'[n] = jFile[n]
    BY <2>1
  <2> QED
    BY <2>1, <2>3, <2>4
<1>5. CASE TruncateTornTail
  <2>1. outcome[q] = "journalled" /\ UNCHANGED <<jFile, jSafe>>
    BY <1>5 DEF TruncateTornTail
  <2> QED
    BY <1>1, <2>1
<1>6. ASSUME NEW o \in Observation,
             \/ WriteFails(o) \/ RejectEntry(o) \/ AppendFailed(o) \/ AppendClosed(o)
             \/ JournalKilledWriting(o)
      PROVE  outcome[q] = "journalled" /\ UNCHANGED <<jFile, jSafe>>
  BY <1>6 DEF WriteFails, RejectEntry, AppendFailed, AppendClosed, JournalKilledWriting, jDisk
<1>7. CASE SyncFails
  <2>1. outcome[q] = "journalled"
    BY <1>7 DEF SyncFails
  <2> QED
    BY <1>1, <1>7, <2>1 DEF SyncFails, jDisk
<1>8. CASE OpenRead \/ WriteRepairMarker \/ OpenFails \/ Close \/ JournalKilled \/ UNCHANGED jvars
  BY <1>1, <1>8 DEF OpenRead, WriteRepairMarker, OpenFails, Close, JournalKilled, jvars, jDisk
<1> QED
  BY <1>1, <1>2, <1>3, <1>4, <1>5, <1>6, <1>7, <1>8 DEF JStep

(* An absent journal satisfies the invariant.                              *)
LEMMA JInvInit == JInit => JInv
<1> SUFFICES ASSUME JInit PROVE JInv
  OBVIOUS
<1>1. JTypeOK
  <2>1. jFile \in Seq(Entry) /\ jMem \in Seq(Entry) /\ jSafe \in 0..Len(jFile)
    BY DEF JInit
  <2>2. outcome \in [Observation -> Outcome]
    BY DEF JInit, Outcome
  <2> QED
    BY <2>1, <2>2 DEF JInit, JTypeOK, JournalPhase
<1>2. WrittenIsLast /\ MemoryFollowsFile /\ PositionsAreDense /\ AppendsStartClean
  BY DEF JInit, WrittenIsLast, MemoryFollowsFile, PositionsAreDense, AppendsStartClean
<1>3. ReturnedIsSafe
  BY DEF JInit, ReturnedIsSafe
<1> QED
  BY <1>1, <1>2, <1>3 DEF JInv

(* The invariant is inductive: the five lemmas above together.             *)
LEMMA JInvStep == JInv /\ JStep => JInv'
BY JStepTypeOK, MemoryStep, DenseStep, CleanStep, ReturnedStep DEF JInv

(* The invariant implies the properties the theorems are about.            *)
LEMMA JInvImplies == JInv => JTypeOK /\ PositionsAreDense /\ AppendsStartClean /\ ReturnedIsDurable
BY DEF JInv, JTypeOK, ReturnedIsSafe, ReturnedIsDurable

(***************************************************************************)
(* The journal's variables keep their types.                               *)
(***************************************************************************)
THEOREM JournalTypeCorrect == JSpec => []JTypeOK
BY JInvInit, JInvStep, JInvImplies, JNextIsJStep, PTL DEF JSpec

(***************************************************************************)
(* Every line stands at its own position, after any failed append, repair, *)
(* kill or power loss: readEntries never rejects a journal capture wrote.  *)
(***************************************************************************)
THEOREM JournalStaysReadable == JSpec => [](PositionsAreDense /\ AppendsStartClean)
BY JInvInit, JInvStep, JInvImplies, JNextIsJStep, PTL DEF JSpec

(***************************************************************************)
(* An entry Append returned is never lost.                                 *)
(***************************************************************************)
THEOREM ReturnedEntriesSurvive == JSpec => []ReturnedIsDurable
BY JInvInit, JInvStep, JInvImplies, JNextIsJStep, PTL DEF JSpec

-----------------------------------------------------------------------------
(***************************************************************************)
(* Disclosure, when the degradation marker can be written: a repair is     *)
(* marked before it cuts, and only a missing journal's repair marker is    *)
(* dropped, which no observation has yet reached.                          *)
(***************************************************************************)
MarkedInv ==
  /\ LossIsMarked
  /\ jPhase = "truncating" => repairMarker
  /\ jPhase = "failed" => degradedMarker
  /\ ~jExists => /\ jPhase \in {"none", "closed"}
                 /\ \A o \in Observation : outcome[o] # "dropped"

(* No step drops an observation, or cuts a line, without a durable marker. *)
LEMMA MarkedStep ==
  ASSUME MarkerMayFail = FALSE
  PROVE  JTypeOK /\ MarkedInv /\ JStep => MarkedInv'
<1> SUFFICES ASSUME JTypeOK, MarkedInv, JStep PROVE MarkedInv'
  OBVIOUS
<1> USE DEF JTypeOK, MarkedInv, LossIsMarked, jDisk, jMarkers
<1>1. CASE OpenRead
  BY <1>1 DEF OpenRead
<1>2. CASE WriteRepairMarker
  BY <1>2 DEF WriteRepairMarker
<1>3. CASE TruncateTornTail
  BY <1>3 DEF TruncateTornTail
<1>4. CASE OpenFails
  BY <1>4 DEF OpenFails
<1>5. ASSUME NEW o \in Observation, NEW i \in Incarnation, WriteLine(o, i)
      PROVE  MarkedInv'
  BY <1>5 DEF WriteLine
<1>6. ASSUME NEW o \in Observation, WriteFails(o) PROVE MarkedInv'
  BY <1>6 DEF WriteFails, MarkDegraded
<1>7. ASSUME NEW o \in Observation, RejectEntry(o) PROVE MarkedInv'
  BY <1>7 DEF RejectEntry, MarkDegraded
<1>8. ASSUME NEW o \in Observation, AppendFailed(o) \/ AppendClosed(o) \/ JournalKilledWriting(o)
      PROVE  MarkedInv'
  BY <1>8 DEF AppendFailed, AppendClosed, JournalKilledWriting
<1>9. CASE SyncLine
  BY <1>9 DEF SyncLine
<1>10. CASE SyncFails
  BY <1>10 DEF SyncFails, MarkDegraded
<1>11. CASE Close \/ JournalKilled \/ JournalPowerLoss \/ UNCHANGED jvars
  BY <1>11 DEF Close, JournalKilled, JournalPowerLoss, jvars
<1> QED
  BY <1>1, <1>2, <1>3, <1>4, <1>5, <1>6, <1>7, <1>8, <1>9, <1>10, <1>11 DEF JStep

(***************************************************************************)
(* When its marker can be written, the journal never loses an observation  *)
(* silently: every dropped one leaves a marker, and no later open, repair, *)
(* kill or power loss removes it.                                          *)
(***************************************************************************)
THEOREM LossIsDisclosed == ASSUME MarkerMayFail = FALSE PROVE JSpec => []LossIsMarked
<1>1. JInit => MarkedInv
  BY DEF JInit, MarkedInv, LossIsMarked
<1>2. MarkedInv => LossIsMarked
  BY DEF MarkedInv
<1>3. JSpec => []JTypeOK
  BY JournalTypeCorrect
<1> QED
  BY <1>1, <1>2, <1>3, MarkedStep, JNextIsJStep, PTL DEF JSpec
=============================================================================
