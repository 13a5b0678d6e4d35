SPECIFICATION Spec
CONSTANTS
    Runs = {r1}
    Starts = {{}, {r1}}
    MaxAudits = 3
INVARIANTS NothingSilentlyMissing AbandonedMeansOver
PROPERTIES RunsConclude SessionsEnd
