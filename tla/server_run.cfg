CONSTANTS
    Runs = {r1, r2}
    Browsers = {b1}
    Readers = {s1}
    Lanes = {"agent"}
    MaxRuns = 1
    MaxEvents = 2
    MaxStreams = 1
SPECIFICATION FairSpec
INVARIANTS
    StreamFaithful
    OutcomeSettledWhenAnnounced
    NoEventDropped
    RegistryBounded
PROPERTIES
    KeepsPromise
    ClientsServed
