--------------------------- MODULE Capture_proofs ---------------------------
(***************************************************************************)
(* Proofs about continuous capture, for any number of observations,        *)
(* incarnations and bundle ids.                                            *)
(***************************************************************************)
EXTENDS Capture, CaptureJournal_proofs

-----------------------------------------------------------------------------
(***************************************************************************)
(* Type correctness, with what it needs of the control state: which        *)
(* locals of recover and commitPending are set, and that Append is the     *)
(* only place where a line is written and not yet synced.                  *)
(***************************************************************************)
Building == pc \in {"replay", "save", "savesync", "cpsave", "cpsync"}

ControlInv ==
  /\ jPhase = "written" <=> pc = "append"
  /\ pc = "opening" => (fresh <=> cpFile = NoCheckpoint)
  /\ Running => inc \in Incarnation /\ cpMem \in Checkpoint
  /\ Building => work \in Bundle
  /\ pc = "replay" => next >= 1
  /\ pc = "load" \/ (Building /\ mode = "commit") => jMem # <<>>

TypeInv == TypeOK /\ WrittenIsLast /\ ControlInv

(* A step of capture is a step of its journal, or removes the file.        *)
LEMMA NextIsJStep == TypeInv /\ [Next]_vars => JStep \/ LoseJournal
<1> SUFFICES ASSUME TypeInv, [Next]_vars, ~LoseJournal PROVE JStep
  OBVIOUS
<1>1. CASE \E tok \in Token \cup {NoIncarnation} : Start(tok)
  BY <1>1 DEF Start, JStep
<1>2. ASSUME NEW o \in Observation, Observe(o)
      PROVE  JStep
  <2>1. inc \in Incarnation
    BY <1>2 DEF Observe, TypeInv, ControlInv, Running
  <2> QED
    BY <1>2, <2>1 DEF Observe, JStep
<1>3. ASSUME NEW o \in Observation, AppendStopped(o)
      PROVE  JStep
  BY <1>3 DEF AppendStopped, JStep
<1>4. CASE Step
  BY <1>4 DEF Step, RepairStep, Recover, Journal, CommitPending, ReplayEntry, ReplayDone,
     SaveRename, SaveSync, CheckpointRename, CheckpointSync, Abort, JStep
<1>5. CASE Stop
  BY <1>5 DEF Stop, JStep
<1>6. CASE Fault
  BY <1>6 DEF Fault, StartFails, StoreFails, Abort, Kill, PowerLoss, LoseCheckpoint,
     LoseBundle, JStep
<1>7. CASE UNCHANGED vars
  BY <1>7 DEF vars, JStep
<1> QED
  BY <1>1, <1>2, <1>3, <1>4, <1>5, <1>6, <1>7 DEF Next

(* A new record makes a bundle of a bundle.                                *)
LEMMA AppendedBundle ==
  ASSUME NEW b \in Bundle, NEW r \in Record
  PROVE  /\ [b EXCEPT !.recs = Append(@, r)] \in Bundle
         /\ [b EXCEPT !.recs = Append(@, r)].id = b.id
         /\ [b EXCEPT !.recs = Append(@, r)].recs = Append(b.recs, r)
<1>1. b.recs \in Seq(Record) /\ b.id \in BundleId
  BY DEF Bundle
<1>2. Append(b.recs, r) \in Seq(Record)
  BY <1>1
<1> QED
  BY <1>1, <1>2 DEF Bundle

(* loadBundleForCapture returns a bundle.                                  *)
LEMMA LoadedBundle ==
  ASSUME bun \in Bundle \cup {NoBundle}, NEW b \in LoadBundle
  PROVE  /\ b \in Bundle
         /\ bun = NoBundle => b.recs = <<>>
         /\ bun # NoBundle => b = bun
<1>1. CASE bun = NoBundle
  <2>1. PICK i \in BundleId : b = [id |-> i, recs |-> <<>>]
    BY <1>1 DEF LoadBundle
  <2>2. <<>> \in Seq(Record)
    OBVIOUS
  <2> QED
    BY <1>1, <2>1, <2>2 DEF Bundle
<1>2. CASE bun # NoBundle
  BY <1>2 DEF LoadBundle
<1> QED
  BY <1>1, <1>2

(* UpdateCheckpoint and BindBundle return a checkpoint.                    *)
LEMMA BoundType ==
  ASSUME NEW c \in Checkpoint, NEW b \in Bundle, jMem \in Seq(Entry)
  PROVE  /\ Bound(c, b) \in Checkpoint
         /\ Bound(c, b).pos = Len(jMem)
         /\ Bound(c, b).head = b
         /\ Bound(c, b).inc = c.inc
<1>1. Len(jMem) \in Nat
  OBVIOUS
<1> DEFINE d == [c EXCEPT !.pos = Len(jMem)]
<1>2. d \in Checkpoint /\ d.pos = Len(jMem) /\ d.inc = c.inc
  BY <1>1 DEF Checkpoint
<1>3. Bound(c, b) = [d EXCEPT !.head = b]
  BY DEF Bound
<1> HIDE DEF d
<1>4. b \in Bundle \cup {NoBundle}
  OBVIOUS
<1>5. [d EXCEPT !.head = b] \in Checkpoint /\ [d EXCEPT !.head = b].head = b
      /\ [d EXCEPT !.head = b].pos = d.pos /\ [d EXCEPT !.head = b].inc = d.inc
  BY <1>2, <1>4 DEF Checkpoint
<1> QED
  BY <1>2, <1>3, <1>5

(* LoadOrCreate returns a checkpoint.                                      *)
LEMMA StartCheckpointType ==
  ASSUME cpFile \in Checkpoint \cup {NoCheckpoint}, fresh <=> cpFile = NoCheckpoint,
         NEW i \in Incarnation
  PROVE  StartCheckpoint(i) \in Checkpoint
BY DEF StartCheckpoint, Checkpoint

(* The first pending position is a position.                               *)
LEMMA FirstPendingType ==
  ASSUME NEW c \in Checkpoint
  PROVE  FirstPending(c) \in Nat /\ FirstPending(c) >= 1
BY DEF FirstPending, Checkpoint

(* No files and no process: the types hold.                                *)
LEMMA TypeInvInit == Init => TypeInv
<1> SUFFICES ASSUME Init PROVE TypeInv
  OBVIOUS
<1>1. JTypeOK /\ WrittenIsLast
  BY JInvInit DEF Init, JInv
<1>2. TypeOK
  BY <1>1 DEF Init, CInit, TypeOK, Control
<1>3. ControlInv
  BY DEF Init, JInit, CInit, ControlInv, Running, Building
<1> QED
  BY <1>1, <1>2, <1>3 DEF TypeInv

(* The process loses its memory.                                           *)
LEMMA ForgetTypes ==
  ASSUME TypeOK, JTypeOK', Forget, pc' \in {"down", "stopped"}, jPhase' # "written",
         bun' \in Bundle \cup {NoBundle}, bunDisk' \in SUBSET (Bundle \cup {NoBundle}),
         cpFile' \in Checkpoint \cup {NoCheckpoint},
         cpDisk' \in SUBSET (Checkpoint \cup {NoCheckpoint}),
         verdict' \in {"none", "up", "refused", "error"}, acked' = acked
  PROVE  TypeOK' /\ ControlInv'
<1>1. TypeOK'
  BY DEF Forget, TypeOK, Control
<1>2. ControlInv'
  BY DEF ControlInv, Running, Building
<1> QED
  BY <1>1, <1>2

(* TypeInv is inductive: one case per action of Capture.                   *)
LEMMA TypeInvStep == TypeInv /\ [Next]_vars => TypeInv'
<1> SUFFICES ASSUME TypeInv, [Next]_vars PROVE TypeInv'
  OBVIOUS
<1>0. JTypeOK' /\ WrittenIsLast'
  <2>1. CASE LoseJournal
    <3>1. jPhase # "written"
      BY <2>1 DEF LoseJournal, TypeInv, ControlInv
    <3>2. jFile' \in Seq(Entry) /\ jSafe' \in 0..Len(jFile')
      BY <2>1 DEF LoseJournal
    <3>3. jExists' \in BOOLEAN /\ jTorn' \in BOOLEAN
      BY <2>1 DEF LoseJournal
    <3>4. UNCHANGED <<repairMarker, degradedMarker, jPhase, jMem, outcome>>
      BY <2>1 DEF LoseJournal, jMarkers
    <3>5. JTypeOK
      BY DEF TypeInv, TypeOK
    <3> QED
      BY <3>1, <3>2, <3>3, <3>4, <3>5 DEF JTypeOK, WrittenIsLast
  <2>2. CASE JStep
    BY <2>2, JStepTypeOK DEF TypeInv, TypeOK
  <2> QED
    BY <2>1, <2>2, NextIsJStep
<1> SUFFICES TypeOK' /\ ControlInv'
  BY <1>0 DEF TypeInv
<1> USE DEF TypeInv
<1>1. ASSUME NEW tok \in Token \cup {NoIncarnation}, Start(tok)
      PROVE  TypeOK' /\ ControlInv'
  <2>1. tok \in Incarnation \cup {NoIncarnation}
    BY TokenAssumption
  <2>2. TypeOK'
    BY <1>0, <1>1, <2>1 DEF Start, TypeOK, Control, diskVars
  <2>3. ControlInv'
    BY <1>1 DEF Start, OpenRead, ControlInv, Running, Building, diskVars
  <2> QED
    BY <2>2, <2>3
<1>2. CASE RepairStep
  BY <1>0, <1>2 DEF RepairStep, WriteRepairMarker, TruncateTornTail, cvars, diskVars, coordVars,
     TypeOK, ControlInv, Running, Building
<1>3. CASE StartFails
  <2>1. jPhase' # "written"
    BY <1>3 DEF StartFails, OpenFails, Close
  <2> QED
    BY <1>0, <1>3, <2>1, ForgetTypes DEF StartFails, StartEnds, TypeOK, diskVars
<1>4. CASE Recover
  <2>1. PICK i \in Incarnation, b \in LoadBundle :
          LET c == StartCheckpoint(i) IN
          \/ /\ Continuous(c, b, i)
             /\ pc' = "replay" /\ mode' = "start"
             /\ inc' = i /\ cpMem' = c /\ next' = FirstPending(c)
             /\ work' = b /\ created' = (bun = NoBundle) /\ dirty' = FALSE
             /\ knownGap' = GapDisclosed
             /\ UNCHANGED <<jvars, diskVars, fresh, state, verdict, acked>>
          \/ ~Continuous(c, b, i) /\ Close /\ StartEnds("refused")
    BY <1>4 DEF Recover
  <2>2. CASE Close /\ StartEnds("refused")
    BY <1>0, <2>2, ForgetTypes DEF StartEnds, Close, TypeOK, diskVars
  <2>3. CASE /\ pc' = "replay" /\ mode' = "start"
             /\ inc' = i /\ cpMem' = StartCheckpoint(i) /\ next' = FirstPending(StartCheckpoint(i))
             /\ work' = b /\ created' = (bun = NoBundle) /\ dirty' = FALSE
             /\ knownGap' = GapDisclosed
             /\ UNCHANGED <<jvars, diskVars, fresh, state, verdict, acked>>
    <3>1. b \in Bundle
      BY LoadedBundle DEF TypeOK
    <3>2. StartCheckpoint(i) \in Checkpoint
      BY <1>4, StartCheckpointType DEF Recover, TypeOK, ControlInv
    <3>3. next' \in Nat /\ next' >= 1
      BY <2>3, <3>2, FirstPendingType
    <3>4. GapDisclosed \in BOOLEAN
      BY DEF GapDisclosed, TypeOK, JTypeOK
    <3>5. TypeOK'
      BY <1>0, <2>3, <3>1, <3>2, <3>3, <3>4 DEF TypeOK, Control, diskVars
    <3>6. ControlInv'
      BY <1>4, <2>3, <3>1, <3>2, <3>3 DEF Recover, ControlInv, Running, Building, jvars
    <3> QED
      BY <3>5, <3>6
  <2> QED
    BY <2>1, <2>2, <2>3
<1>5. ASSUME NEW o \in Observation, Observe(o)
      PROVE  TypeOK' /\ ControlInv'
  <2>1. CASE /\ WriteLine(o, inc) /\ pc' = "append"
             /\ UNCHANGED <<diskVars, coordVars, verdict, acked>>
    BY <1>0, <1>5, <2>1 DEF Observe, WriteLine, TypeOK, ControlInv, Control, Running, Building,
       diskVars, coordVars
  <2>2. CASE (WriteFails(o) \/ RejectEntry(o) \/ AppendFailed(o)) /\ Gap
    <3>1. jPhase' # "written" /\ pc = "idle"
      BY <1>5, <2>2 DEF Observe, WriteFails, RejectEntry, AppendFailed
    <3>2. TypeOK'
      BY <1>0, <2>2 DEF Gap, TypeOK, Control, diskVars
    <3>3. ControlInv'
      BY <2>2, <3>1 DEF Gap, ControlInv, Running, Building
    <3> QED
      BY <3>2, <3>3
  <2> QED
    BY <1>5, <2>1, <2>2 DEF Observe
<1>6. CASE Journal
  <2>1. CASE SyncLine /\ pc' = "load" /\ UNCHANGED <<diskVars, coordVars, verdict, acked>>
    <3>1. jMem' # <<>>
      BY <2>1, <1>0 DEF SyncLine, TypeOK, JTypeOK
    <3> QED
      BY <1>0, <1>6, <2>1, <3>1 DEF Journal, SyncLine, TypeOK, ControlInv, Control, Running,
         Building, diskVars, coordVars
  <2>2. CASE SyncFails /\ Gap
    BY <1>0, <1>6, <2>2 DEF Journal, Gap, SyncFails, TypeOK, ControlInv, Control, Running,
       Building, diskVars
  <2> QED
    BY <1>6, <2>1, <2>2 DEF Journal
<1>7. CASE CommitPending
  <2>1. work' \in Bundle
    BY <1>7, LoadedBundle DEF CommitPending, TypeOK
  <2>2. next' \in Nat /\ next' >= 1
    BY <1>7, FirstPendingType DEF CommitPending, ControlInv, Running
  <2>3. TypeOK'
    BY <1>0, <1>7, <2>1, <2>2 DEF CommitPending, TypeOK, Control, diskVars
  <2>4. ControlInv'
    BY <1>7, <2>1, <2>2 DEF CommitPending, ControlInv, Running, Building, jvars
  <2> QED
    BY <2>3, <2>4
<1>8. ASSUME NEW v \in {"error", "refused"}, Abort(v),
             pc \in {"load", "replay", "save", "savesync", "cpsave", "cpsync"}
      PROVE  TypeOK' /\ ControlInv'
  <2>1. CASE Close /\ StartEnds(v)
    BY <1>0, <2>1, ForgetTypes DEF StartEnds, Close, TypeOK, diskVars
  <2>2. CASE /\ mode = "commit" /\ pc' = "idle" /\ state' = "degraded" /\ EndCall
             /\ UNCHANGED <<jvars, diskVars, mode, fresh, inc, cpMem, knownGap, verdict, acked>>
    BY <1>0, <1>8, <2>2 DEF EndCall, TypeOK, ControlInv, Control, Running, Building, diskVars,
       jvars
  <2> QED
    BY <1>8, <2>1, <2>2 DEF Abort
<1>9. CASE ReplayEntry
  <2>1. jMem[next] \in Record
    BY <1>9 DEF ReplayEntry, ControlInv, TypeOK, JTypeOK, Record
  <2>2. CASE UNCHANGED work /\ next' = next + 1
             /\ UNCHANGED <<jvars, diskVars, pc, mode, fresh, inc, cpMem, created, dirty,
                            knownGap, state, verdict, acked>>
    BY <1>0, <1>9, <2>2 DEF ReplayEntry, TypeOK, ControlInv, Running, Building, diskVars, jvars
  <2>3. CASE /\ work' = [work EXCEPT !.recs = Append(@, jMem[next])]
             /\ dirty' = TRUE /\ next' = next + 1
             /\ UNCHANGED <<jvars, diskVars, pc, mode, fresh, inc, cpMem, created,
                            knownGap, state, verdict, acked>>
    <3>1. work' \in Bundle
      BY <1>9, <2>1, <2>3, AppendedBundle DEF ReplayEntry, ControlInv, Building
    <3>2. TypeOK'
      BY <1>0, <2>3, <3>1 DEF TypeOK, diskVars
    <3>3. ControlInv'
      BY <1>9, <2>3, <3>1 DEF ReplayEntry, TypeOK, ControlInv, Running, Building, diskVars, jvars
    <3> QED
      BY <3>2, <3>3
  <2> QED
    BY <1>8, <1>9, <2>2, <2>3 DEF ReplayEntry
<1>10. CASE ReplayDone
  <2>1. cpMem' \in Checkpoint
    BY <1>10, BoundType DEF ReplayDone, ControlInv, Running, Building, TypeOK, JTypeOK
  <2>2. pc' \in {"save", "cpsave"}
    BY <1>10 DEF ReplayDone
  <2>3. TypeOK'
    BY <1>0, <1>10, <2>1, <2>2 DEF ReplayDone, TypeOK, Control, diskVars
  <2>4. ControlInv'
    BY <1>10, <2>1, <2>2 DEF ReplayDone, ControlInv, Running, Building, jvars
  <2> QED
    BY <2>3, <2>4
<1>11. CASE SaveRename
  <2>1. work \in Bundle
    BY <1>11 DEF SaveRename, ControlInv, Building
  <2>2. TypeOK'
    BY <1>0, <1>11, <2>1 DEF SaveRename, TypeOK, Control, coordVars
  <2>3. ControlInv'
    BY <1>11 DEF SaveRename, ControlInv, Running, Building, jvars, coordVars
  <2> QED
    BY <2>2, <2>3
<1>12. CASE SaveSync
  <2>1. cpMem' \in Checkpoint
    BY <1>12, BoundType DEF SaveSync, ControlInv, Running, Building, TypeOK, JTypeOK
  <2>2. TypeOK'
    BY <1>0, <1>12, <2>1 DEF SaveSync, TypeOK, Control
  <2>3. ControlInv'
    BY <1>12, <2>1 DEF SaveSync, ControlInv, Running, Building, jvars
  <2> QED
    BY <2>2, <2>3
<1>13. CASE CheckpointRename
  BY <1>0, <1>13 DEF CheckpointRename, TypeOK, ControlInv, Control, Running, Building, coordVars,
     jvars
<1>14. CASE CheckpointSync
  <2>1. acked' \in SUBSET Observation
    <3>1. mode = "commit" => jMem[Len(jMem)] \in Entry
      BY <1>14 DEF CheckpointSync, ControlInv, Building, TypeOK, JTypeOK
    <3> QED
      BY <1>14, <3>1 DEF CheckpointSync, TypeOK, Entry
  <2>2. TypeOK'
    BY <1>0, <1>14, <2>1 DEF CheckpointSync, EndCall, TypeOK, Control
  <2>3. ControlInv'
    BY <1>14 DEF CheckpointSync, EndCall, ControlInv, Running, Building, jvars
  <2> QED
    BY <2>2, <2>3
<1>15. CASE StoreFails
  BY <1>8, <1>15 DEF StoreFails
<1>16. CASE Stop
  BY <1>0, <1>16, ForgetTypes DEF Stop, Close, TypeOK, diskVars
<1>17. ASSUME NEW o \in Observation, AppendStopped(o)
       PROVE  TypeOK' /\ ControlInv'
  BY <1>0, <1>17 DEF AppendStopped, AppendClosed, TypeOK, ControlInv, Running, Building, cvars,
     diskVars, coordVars
<1>18. CASE Kill
  <2>1. jPhase' # "written"
    BY <1>18 DEF Kill, JournalKilled, JournalKilledWriting
  <2> QED
    BY <1>0, <1>18, <2>1, ForgetTypes DEF Kill, TypeOK, diskVars
<1>19. CASE PowerLoss
  <2>1. jPhase' # "written"
    BY <1>19 DEF PowerLoss, JournalPowerLoss
  <2> QED
    BY <1>0, <1>19, <2>1, ForgetTypes DEF PowerLoss, TypeOK
<1>20. CASE LoseJournal \/ LoseCheckpoint \/ LoseBundle
  <2>1. CASE LoseJournal
    BY <1>0, <2>1 DEF LoseJournal, TypeOK, ControlInv, Running, Building, cvars, diskVars, coordVars
  <2>2. CASE LoseCheckpoint
    BY <1>0, <2>2 DEF LoseCheckpoint, TypeOK, ControlInv, Running, Building, coordVars, jvars
  <2>3. CASE LoseBundle
    BY <1>0, <2>3 DEF LoseBundle, TypeOK, ControlInv, Running, Building, coordVars, jvars
  <2> QED
    BY <1>20, <2>1, <2>2, <2>3
<1>21. CASE UNCHANGED vars
  BY <1>0, <1>21, SMTT(30) DEF vars, cvars, diskVars, coordVars, jvars, TypeOK, ControlInv, Running, Building
<1> QED
  BY <1>1, <1>2, <1>3, <1>4, <1>5, <1>6, <1>7, <1>9, <1>10, <1>11, <1>12, <1>13, <1>14, <1>15,
     <1>16, <1>17, <1>18, <1>19, <1>20, <1>21 DEF Next, Step, Fault

(***************************************************************************)
(* The variables of capture keep their types, under every fault.           *)
(***************************************************************************)
THEOREM CaptureTypeCorrect == Spec => []TypeOK
<1>1. TypeInv => TypeOK
  BY DEF TypeInv
<1> QED
  BY <1>1, TypeInvInit, TypeInvStep, PTL DEF Spec
=============================================================================
