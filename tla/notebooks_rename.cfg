SPECIFICATION RenameSpec
CONSTANTS
    job = job
    spare = spare
    Names = {job, spare}
    Targets = {job, spare}
    MaxWrites = 2
    MaxClock = 2
    MaxFaults = 0
    Book <- Books
    Setups = {{"timer"}}
    Broken = {}
    Fetching = {}
INVARIANTS Resumed
