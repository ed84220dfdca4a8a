SPECIFICATION MCSpec
CONSTANTS
    job = job
    spare = spare
    Names = {job, spare}
    Targets = {job, spare}
    MaxWrites = 3
    MaxClock = 2
    MaxFaults = 1
    Book <- Books
    Setups <- Servers
    Broken = {2}
    Fetching = {}
INVARIANTS NInv TextSurvives RunsCurrent Informed
PROPERTIES EventuallyCurrent RunsFinish ShutdownEnds
