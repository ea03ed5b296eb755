SPECIFICATION Spec
CONSTANTS
    NoUnit = NoUnit
    None = None
    NoGap = NoGap
    IdOrder <- MCIdOrder
    ScoreScale = 238266
    Scopes = {"k", "j"}
    Sources = {"s1", "s2"}
    Procs = {p1, p2}
    Policies <- MCPolicies
    Revisions <- MCRevisions
    TermOrder <- MCTermOrder
    TermCap = 1
    MaxReceipts = 3
    FusePolicy <- MCServicePolicy
    Requests <- MCRequests
    MaxAppends = 4
    MaxRetries = 1
    Reporters = {a, b}
    Observations <- MCObservations
    MaxReports = 4
    MaxFaults = 2
    MaxListed = 2
    Callers = {c1, c2}
    RunIds = {"run"}
    BindingOrder <- MCBindingOrder
    PublicInputs <- MCPublicInputs
    Responses = {"yes", "no"}
    MaxCandidates = 2
    MaxCalls = 4
    NoRun = NoRun
    NoAnswer = NoAnswer
    MaxLines = 4
    NoParent = NoParent
CHECK_DEADLOCK FALSE
SYMMETRY MCSymmetry
INVARIANTS CountsAreTrue RetrievalIsFaithful DispatchIsTrue DocumentsAreExact ChunkingIsExact
PROPERTIES SearchIsExact EvidenceIsInScope EditsCompose
