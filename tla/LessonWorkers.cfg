SPECIFICATION Spec
CONSTANTS
    Procs = {p1, p2}
    Tasks <- MCTasks
    Responses = {r1}
    Outputs <- MCOutputs
    Unverified = {}
    Failures = {}
    Dialogues = 0
    MaxCrashes = 1
    Target = 3
    MaxSlots = 2
    Topics = 3
    Sizes <- MCSizes
    None = None
    MaxPages = 2
    Wrappers = {w1}
    Concurrency = 1
    Ceiling = 1
    Overviews = {"o"}
CHECK_DEADLOCK FALSE
INVARIANTS PlanIsExact
PROPERTIES LessonIsCoherent LessonSettles
