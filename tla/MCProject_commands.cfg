SPECIFICATION CommandsSpec
CONSTANTS
    Proc = {p1, p2}
    Past = past
    Command = {"init", "append", "corroborate", "snapshot", "sign", "anchor", "push", "archive", "retention"}
    MaxDay = 1
    MaxFaults = 1
    ChatSource = {"chat"}
    SpanSource = {"spans"}
    Contents <- ChatAndSpans
    MaxPasses = 2
    MaxEdits = 1
    MaxMishaps = 1
    Payloads <- SmallPayloads
SYMMETRY Symmetry
CHECK_DEADLOCK FALSE
INVARIANTS  CustodyIsTrue RetentionAudited ReconcilingIsExact  
PROPERTIES CommandsKeepRecords
