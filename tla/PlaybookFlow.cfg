\* Every path of a tutor flow: gates, validators, dialogues, racing resumes.
SPECIFICATION FairSpec
CONSTANTS
    Drivers = {d1, d2}
    Runs = {r1}
    Steps <- FlowSteps
    Gate <- FlowGate
    Bindings <- MCBindings
    Installations <- MCInstallations
    Answers = {"a", "b"}
    Gates = {"yes", "no", "notbool"}
INVARIANTS StoredRunsLoad EffectsOnceInOrder ResultsAreDurable
PROPERTIES RunsSettle
