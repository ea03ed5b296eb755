SPECIFICATION SpecWorkers
CONSTANTS
    Procs = {p1, p2}
    Tasks = {t1}
    Responses = {r1, r2}
    Outputs = {o1, o2, o3}
    Unverified = {o2}
    Failures = {"terminated", "cancelled", "failed"}
    Dialogues = 1
    MaxCrashes = 2
    None = None
CHECK_DEADLOCK FALSE
INVARIANTS CompletedIsProved
PROPERTIES WorkersKeepProgress
