\* Two processes share a current database, or one upgrades a v0.1 database alone.
SPECIFICATION MCSpec
CONSTANTS
    Clients = {p1, p2}
    Courses = {c1, c2}
    EventIds = {e1, e2, bad}
    Rejected = {bad}
    LegacyCourses = {c1}
    MaxEvents = 2
    MaxBatch = 2
    NoRow = NoRow
SYMMETRY ClientSymmetry
INVARIANTS ProjectionIsReplay AcknowledgedAppendsSurvive
PROPERTIES FailuresAreRaces ImplementsEventLog
