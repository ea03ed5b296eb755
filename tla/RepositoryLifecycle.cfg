SPECIFICATION Spec
CONSTANTS
    CourseOrder <- MCCourseOrder
    SourceOrder <- MCSourceOrder
    Manifest <- MCManifest
    ManifestConfig = m
    Texts = {"old", "new"}
    None = None
    Procs = {p1, p2}
    InitConfigs = {m, e}
    MaxInode = 2
    Starts <- MCStarts
CHECK_DEADLOCK FALSE
INVARIANTS InitialisationIsAtomic ReceiptsAreTrue ReconciliationConverges
PROPERTIES CommandsEnd
