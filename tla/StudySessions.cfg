\* Two processes: the commands of one session's life, or commands that compete for their keys.
SPECIFICATION MCSpec
CONSTANTS
    Clients = {p1, p2}
    Sessions = {"s"}
    Requests <- AllRequests
    MaxEvents = 7
    MaxRuns = 2
    None = None
    r1 = r1
    Profiles = {f1, f2}
    Texts = {t1, t2}
SYMMETRY Symmetry
INVARIANTS OneOwnerPerRun EndedIsFinal SequenceGuardsTheRead AnswersAreTrue
