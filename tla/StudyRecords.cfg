SPECIFICATION Spec
CONSTANTS
    None = None
    Clients = {c1, c2}
    Sessions = {"s1", "s2"}
    Interactions = {"i1", "i2"}
    InteractionOf <- MCInteractionOf
    Chunks = {"chunk"}
    Runs = {"r1", "r2"}
    CandidatesOf <- MCCandidatesOf
    OwnerSession <- MCOwnerSession
    GradeRuns = {"g1", "g2"}
    DraftOf <- MCDraftOf
    HumanContents <- MCHumanContents
    Responses <- MCResponses
    Statements <- MCStatements
    ScalarKinds = {"deadline"}
    Starts <- MCStarts
VIEW MCView
SYMMETRY Symmetry
INVARIANTS RecordsAreConsistent
PROPERTIES AnswersAreTrue AppendsAreSound
