----------------------------- MODULE MCServices -----------------------------
(***************************************************************************)
(* The three servers that hold state between requests, one per behaviour:  *)
(* the capture proxy, the local agent, or the viewer.                      *)
(***************************************************************************)
EXTENDS ProxySessions, AgentSessions, ViewerAPI

VARIABLE part       \* the server of this behaviour

ServicesInit ==
    /\ part \in {"proxy", "agent", "viewer"}
    /\ ProxyInit /\ AgentInit /\ ViewerInit
    /\ part # "viewer" => onDisk /\ \A v \in Viewer : memory[v] = Started(onDisk, NoReport)

ServicesNext ==
    /\ \/ part = "proxy" /\ ProxyNext /\ UNCHANGED <<agentVars, viewerVars>>
       \/ part = "agent" /\ AgentNext /\ UNCHANGED <<proxyVars, viewerVars>>
       \/ part = "viewer" /\ ViewerNext /\ UNCHANGED <<proxyVars, agentVars>>
    /\ UNCHANGED part

ServicesSpec == ServicesInit /\ [][ServicesNext]_<<proxyVars, agentVars, viewerVars, part>>
=============================================================================
