----------------------------- MODULE MCAnswers -----------------------------
(***************************************************************************)
(* What ATB answers, one question per behaviour: a verification of a       *)
(* recorded workflow and the trust report on it, a conversation with the   *)
(* MCP server, or requests that are authorised while the issuer rotates    *)
(* its keys.                                                               *)
(***************************************************************************)
EXTENDS MCVerification, TrustReports, MCPServer, SigningKeys

VARIABLE part       \* the question of this behaviour

answersVars == <<trustVars, mcpVars, keyVars, part>>

AnswersInit ==
    /\ part \in {"verify", "mcp", "keys"}
    /\ TrustInit /\ McpInit /\ KeysInit
    /\ part # "verify" => target = "custom"
    /\ part # "mcp" => input = <<>>

\* A step of one of them leaves the others alone.
Verifying(A) == part = "verify" /\ A /\ UNCHANGED <<mcpVars, keyVars, part>>
Serving(A) == part = "mcp" /\ A /\ UNCHANGED <<trustVars, keyVars, part>>
Authorising(A) == part = "keys" /\ A /\ UNCHANGED <<trustVars, mcpVars, part>>

AnswersNext == Verifying(TrustNext) \/ Serving(McpNext) \/ Authorising(KeysNext)

\* McpFairness and KeysFairness.
AnswersFairness ==
    /\ WF_answersVars(Serving(ReadLine)) /\ WF_answersVars(Serving(SendLine))
    /\ WF_answersVars(Serving(TakeLine \/ LoopCancel))
    /\ WF_answersVars(Authorising(RefreshFetch)) /\ WF_answersVars(Authorising(RefreshStore))
    /\ \A r \in Request : WF_answersVars(Authorising(Refetch(r) \/ RefetchFetch(r) \/ RefetchStore(r)))

AnswersSpec == AnswersInit /\ [][AnswersNext]_answersVars /\ AnswersFairness

-----------------------------------------------------------------------------
\* Serve ends, with its input or when it is interrupted, although it reads in
\* a goroutine of its own (Serve).
ServeEnds == part = "mcp" => LoopEnds

\* Once the issuer stops rotating, the validator's keys become the published
\* ones (startRefresh).
ValidatorConverges == part = "keys" => KeysConverge
=============================================================================
