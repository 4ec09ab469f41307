--------------------------- MODULE CaptureStatus ---------------------------
(***************************************************************************)
(* `atb capture status` (internal/proxy/status.go) beside a capture that   *)
(* may be running: the reader takes the degradation marker, the bundle,    *)
(* the journal and the checkpoint one after the other, with no lock, and   *)
(* the coordinator of Capture may move between any two of the reads.       *)
(***************************************************************************)
EXTENDS Capture

VARIABLES
  sPc,       \* what the reader reads next
  sMarker,   \* the degradation marker it read
  sBun,      \* the bundle it read
  sJrn,      \* the journal it read: entries and the repaired flag
  sResult,   \* the status it reported
  sBefore    \* history: outcome when the read began

svars == <<sPc, sMarker, sBun, sJrn, sResult, sBefore>>

NotReported == [state |-> "none", knownGap |-> FALSE, possibleGap |-> FALSE]

Report(st, known, possible) ==
  [state |-> st, knownGap |-> known, possibleGap |-> possible]

(* capturejournal.Read: a torn tail, or a repair marker beside a journal.  *)
JournalRead == [entries |-> jFile, repaired |-> jTorn \/ (jExists /\ repairMarker)]

(* A journal of one incarnation, the checkpoint's if there is one.         *)
Inconsistent(es, c) ==
  LET seen == {es[n].inc : n \in 1..Len(es)} IN
  es # <<>> /\ ((\E i, k \in seen : i # k) \/ (c # NoCheckpoint /\ c.inc \notin seen))

(* The verdict ReadCaptureStatus reaches on what it read, in its order.    *)
AssessBacklog(marker, b, j, c) ==
  LET pos == IF c = NoCheckpoint THEN 0 ELSE c.pos IN
  IF marker \/ Inconsistent(j.entries, c) THEN Report("degraded", TRUE, FALSE)
  ELSE IF Len(j.entries) = 0 THEN Report("not_established", FALSE, FALSE)
  ELSE IF Len(j.entries) > pos THEN Report("recovery_required", FALSE, FALSE)
  ELSE Report("healthy", FALSE, FALSE)
Assess(marker, b, j, c) ==
  LET pos  == IF c = NoCheckpoint THEN 0 ELSE c.pos
      last == Len(j.entries)
      live == HasAcquisition(b)
  IN  IF marker THEN Report("degraded", TRUE, FALSE)
      ELSE IF j.repaired THEN Report("degraded", TRUE, FALSE)
      ELSE IF Inconsistent(j.entries, c) THEN Report("degraded", TRUE, FALSE)
      ELSE IF last < pos THEN Report("degraded", FALSE, TRUE)
      ELSE IF last = 0 THEN IF live THEN Report("degraded", FALSE, TRUE)
                                    ELSE Report("not_established", FALSE, FALSE)
      ELSE IF last > pos THEN Report("recovery_required", FALSE, FALSE)
      ELSE IF c.head = NoBundle THEN Report("degraded", FALSE, TRUE)
      ELSE IF ~BindsPrefix(c, b) THEN Report("degraded", FALSE, FALSE)
      ELSE Report("healthy", FALSE, FALSE)

(* A missing bundle ends the read early.                                   *)
NoBundleStatus(marker) ==
  IF marker THEN Report("degraded", TRUE, FALSE) ELSE Report("unknown", FALSE, FALSE)

SInit ==
  /\ Init
  /\ sPc = "marker" /\ sMarker = FALSE /\ sBun = NoBundle
  /\ sJrn = [entries |-> <<>>, repaired |-> FALSE]
  /\ sResult = NotReported
  /\ sBefore = outcome

ReadMarker ==
  /\ sPc = "marker"
  /\ sMarker' = degradedMarker
  /\ sBefore' = outcome
  /\ sResult' = NotReported
  /\ sPc' = "bundle"
  /\ UNCHANGED <<vars, sBun, sJrn>>

(* The read ends: what it reports is all that is left of it.               *)
Reports(r) ==
  /\ sResult' = r
  /\ sPc' = "marker" /\ sMarker' = FALSE /\ sBun' = NoBundle
  /\ sJrn' = [entries |-> <<>>, repaired |-> FALSE]
  /\ UNCHANGED <<vars, sBefore>>

ReadBundle ==
  /\ sPc = "bundle"
  /\ \/ bun = NoBundle /\ Reports(NoBundleStatus(sMarker))
     \/ /\ bun # NoBundle /\ sBun' = bun /\ sPc' = "journal"
        /\ UNCHANGED <<vars, sMarker, sJrn, sResult, sBefore>>

ReadJournal ==
  /\ sPc = "journal"
  /\ sJrn' = JournalRead
  /\ sPc' = "checkpoint"
  /\ UNCHANGED <<vars, sMarker, sBun, sResult, sBefore>>

ReadCheckpoint ==
  /\ sPc = "checkpoint"
  /\ Reports(Assess(sMarker, sBun, sJrn, cpFile))

(* The report was delivered; the next capture step makes it history.       *)
CaptureStep ==
  /\ Next
  /\ sResult' = NotReported
  /\ UNCHANGED <<sPc, sMarker, sBun, sJrn, sBefore>>

SNext == ReadMarker \/ ReadBundle \/ ReadJournal \/ ReadCheckpoint \/ CaptureStep

SSpec == SInit /\ [][SNext]_<<vars, svars>>

-----------------------------------------------------------------------------
(* Properties.                                                             *)

(***************************************************************************)
(* A reader that reports healthy, while capture runs, crashes or recovers  *)
(* around it, tells the truth of the moment it began: nothing had been     *)
(* dropped, and everything journalled is evidence.                         *)
(***************************************************************************)
HealthyReportIsComplete ==
  sResult.state = "healthy" =>
    \A o \in Observation :
      /\ sBefore[o] # "dropped"
      /\ sBefore[o] = "journalled" => InEvidence(o, bun)
=============================================================================
