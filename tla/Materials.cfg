SPECIFICATION Spec
CONSTANTS
    None = None
    Sources = {"s1"}
    Texts = {"crlf", "lf", "other", "blank"}
    Titles = {"t1"}
    NormalOf <- MCNormalOf
    Converters = {"v1"}
    Clients = {c1, c2}
    Sessions = {"a", "b"}
    SizeOf <- MCSizeOf
    max_snapshot_count = 2
    max_aggregate_bytes = 3
    ttl = 1
    MaxTime = 2
    Starts <- MCStarts
VIEW MCView
SYMMETRY MCSymmetry
INVARIANTS SourcesAreSound
PROPERTIES IngestAnswersAreTrue IndexIsExact
