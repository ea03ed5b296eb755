SPECIFICATION MCSpec
CONSTANTS
    h1 = h1
    h2 = h2
    Hosts <- MCHosts
    Turns = {t1}
    Actions = {a}
    Responses = {r1, r2}
    Versions = 3
    Dialogues = 2
    Limits <- MCLimits
    MaxRetries = 2
    MaxCalls <- MCMaxCalls
    None = None
CHECK_DEADLOCK FALSE
INVARIANTS DialoguesSurvive ReportedIsReal
PROPERTIES CallsEnd
