------------------------------ MODULE MCBundle ------------------------------
(***************************************************************************)
(* The bundle file in four circumstances, one per behaviour: writers       *)
(* beside a sidecar that was there before; writers that create and remove  *)
(* the sidecar; the lines of the file under commands and edits; and        *)
(* reports on incidents that read it while sessions record.                *)
(***************************************************************************)
EXTENDS BundleStore, BundleFormat, MCIncidents

CONSTANTS
    Pair,           \* the processes that create and remove the sidecar
    PairSigner,     \* those of them that sign
    PairInode       \* the inodes they may see

VARIABLES
    part,           \* the circumstances of this behaviour
    pName, pHolder, pFd, pCreated, pLpc, pFile, pCopy, pWritten

pairVars == <<pName, pHolder, pFd, pCreated, pLpc, pFile, pCopy, pWritten>>

\* The same store without a sidecar at the start.
Removing ==
    INSTANCE BundleStore
      WITH Proc <- Pair, Rooted <- {}, SidecarPresent <- FALSE, Inode <- PairInode,
           Signer <- PairSigner, name <- pName, holder <- pHolder, fd <- pFd,
           created <- pCreated, lpc <- pLpc, file <- pFile, copy <- pCopy, written <- pWritten

BundleInit ==
    /\ part \in {"stable", "removing", "format", "incident"}
    /\ StoreInit /\ Removing!StoreInit /\ FormatInit /\ IncidentInit
    /\ part # "stable" => name = CHOOSE i \in Inode : TRUE
    /\ part # "format" => text = Encode(AppendWithOptions(<<>>, Event("event", FALSE)))
    /\ part # "incident" => story = "people"

BundleNext ==
    /\ \/ part = "stable" /\ StoreNext /\ UNCHANGED <<pairVars, formatVars, incidentVars>>
       \/ part = "removing" /\ Removing!StoreNext /\ UNCHANGED <<allVars, formatVars, incidentVars>>
       \/ part = "format" /\ FormatNext /\ UNCHANGED <<allVars, pairVars, incidentVars>>
       \/ part = "incident" /\ IncidentNext /\ UNCHANGED <<allVars, pairVars, formatVars>>
    /\ UNCHANGED part

bundleVars == <<allVars, pairVars, formatVars, incidentVars, part>>

\* As in StoreLiveSpec: a process that has called lockPath keeps running.
BundleSpec ==
    /\ BundleInit /\ [][BundleNext]_bundleVars
    /\ \A p \in Pair : WF_bundleVars(/\ part = "removing" /\ Removing!StoreStep(p)
                                     /\ UNCHANGED <<allVars, formatVars, incidentVars, part>>)

-----------------------------------------------------------------------------
\* A stale or vanishing sidecar never wedges the bundle: a process that stays
\* the only one to want the lock gets it or gives up.
RemovingAloneGetsTheLock == Removing!AloneGetsTheLock
=============================================================================
