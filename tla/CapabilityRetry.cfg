\* Retried starts and resumes of one capability run, with drift and upgrade.
SPECIFICATION SpecGateway
CONSTANTS
    Drivers = {d1, d2}
    Runs = {"r1"}
    Steps <- AskTwiceSteps
    Gate <- AskTwiceGate
    Bindings <- MCBindings
    Installations <- MCInstallations
    Answers = {"a", "b"}
    Gates = {"yes"}
    Versions = 2
SYMMETRY Symmetry
INVARIANTS OutcomeBelongsToCaller RepliesStayTrue
