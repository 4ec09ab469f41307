-------------------------- MODULE MCCaptureFaults --------------------------
(***************************************************************************)
(* Capture in six circumstances, one per behaviour: kills, power losses    *)
(* and failed calls in any mixture; the same with files deleted; power     *)
(* losses alone; commands that append to the bundle between the runs of a  *)
(* capture that is killed; files deleted between runs, with operator       *)
(* tokens at the restart; and a status reader among the steps of a capture *)
(* that is killed.                                                         *)
(***************************************************************************)
EXTENDS CaptureWriter, CaptureStatus

CONSTANTS
  Few,      \* the observations of the behaviours with more than capture's own faults
  One       \* the incarnations of the behaviours that delete no file

VARIABLE part       \* the circumstances of this behaviour

Mixed == INSTANCE Capture
           WITH Faults <- {"kill", "power", "io"}, MarkerMayFail <- TRUE,
                Incarnation <- One, Token <- {}
All == INSTANCE Capture
         WITH Faults <- {"kill", "power", "loss", "io"}, MarkerMayFail <- TRUE
Power == INSTANCE Capture
           WITH Faults <- {"power"}, Incarnation <- One, Token <- {}
Commands == INSTANCE CaptureWriter
              WITH Faults <- {"kill", "io"}, Incarnation <- One, Token <- {}
Reader == INSTANCE CaptureStatus
            WITH Faults <- {"kill", "io"}, Incarnation <- One, Token <- {}

FaultsInit ==
    /\ XInit /\ SInit
    /\ part \in {"mixed", "all", "power", "commands", "loss", "reader"}

FewObserved == \A o \in Observation \ Few : outcome'[o] = "new"

FaultsNext ==
    /\ \/ part = "mixed" /\ Mixed!Next /\ FewObserved /\ UNCHANGED <<copy, svars>>
       \/ part = "all" /\ All!Next /\ FewObserved /\ UNCHANGED <<copy, svars>>
       \/ part = "power" /\ Power!Next /\ UNCHANGED <<copy, svars>>
       \/ part = "commands" /\ Commands!XNext /\ FewObserved /\ UNCHANGED svars
       \/ part = "loss" /\ Next /\ FewObserved /\ UNCHANGED <<copy, svars>>
       \/ part = "reader" /\ Reader!SNext /\ FewObserved /\ UNCHANGED copy
    /\ UNCHANGED part

FaultsSpec == FaultsInit /\ [][FaultsNext]_<<xvars, svars, part>>

-----------------------------------------------------------------------------
\* As long as no file is deleted, an entry Append returned stays in the
\* journal and an observation whose commit returned is evidence, whatever was
\* killed, lost its power or failed (Append, commit).
KeptSurvives == part \notin {"all", "loss"} => ReturnedIsDurable /\ AckedIsEvidence

\* With power losses alone, the checkpoint is bound to a durable bundle
\* (Checkpoint.Save runs after the bundle's directory fsync).
PowerKeepsBinding == part = "power" => BindingIsDurable

\* With power losses alone, the checkpoint never names a position that the
\* journal can lose (commit saves it after the journal's fsync).
PowerKeepsPosition == part = "power" => PositionIsDurable

\* Neither power losses alone nor commands between killed runs make recover
\* refuse to start.
StartsAgain == part \in {"power", "commands"} => NeverRefused

\* After a deletion, capture runs only over evidence its journal accounts for
\* (recover fails closed on a lost journal or checkpoint).
LossFailsClosed == part = "loss" => RunsOnlyWithContinuity

\* The journal, the checkpoint and the bundle agree: after power losses, so
\* that capture starts again; beside commands that wrote to its bundle; and
\* after a deletion, or capture does not run (recover).
FilesAgree == PowerKeepsBinding /\ PowerKeepsPosition /\ StartsAgain /\ LossFailsClosed

\* Capture drops no record that a command saved between its runs.
CommandsStay ==
    [][part = "commands" /\ bun # NoBundle =>
         bun' # NoBundle /\ Cardinality(ForeignRecords(bun)) <= Cardinality(ForeignRecords(bun'))]_xvars
=============================================================================
