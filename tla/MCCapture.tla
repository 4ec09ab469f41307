----------------------------- MODULE MCCapture -----------------------------
(* Capture on small sets; the configurations choose the faults.           *)
EXTENDS Capture

\* Next when no power fails and no file is deleted.
KilledNext ==
  \/ Start(NoIncarnation)
  \/ \E o \in Observation : Observe(o) \/ AppendStopped(o)
  \/ Step
  \/ Stop
  \/ StartFails
  \/ StoreFails
  \/ Kill

\* LiveSpec over KilledNext.
KilledSpec ==
  /\ Init /\ [][KilledNext]_vars
  /\ WF_vars(Step)
  /\ WF_vars(Start(NoIncarnation))
  /\ <>[][~(StartFails \/ StoreFails \/ Kill \/ Stop)]_vars
=============================================================================
