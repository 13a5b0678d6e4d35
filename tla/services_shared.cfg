SPECIFICATION Spec
CONSTANTS
    Runs = {r1, r2}
    Starts = {{r1, r2}}
    MaxAudits = 1
INVARIANTS OwnMetricsAudited
