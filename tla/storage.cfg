SPECIFICATION StorageSpec
CONSTANTS
    s1 = s1
    s2 = s2
    r = r
    one = one
    two = two
    Scripts = {s1, s2}
    Server = {r}
    Home <- Homes
    Storage = storage
    Plays <- AllPlays
    Half = 8
    Base = 4
    Secret = {x, y}
    None = None
    Missing = Missing
    MaxDeaths = 1
    Octets = {65, 128, 187, 191, 239, 240}
    Units = {65, 233, 55357, 56832}
    MaxPiece = 2
    MaxBytes = 4
    MaxUnits = 3
    MaxRoom = 5
    Kinds = {"book", "lib", "app"}
    Codes <- AllCodes
    MaxCells = 2
    MaxSteps = 5
    Nil = Nil
    Threads = {thread1}
    Aliases = {package1, package2}
    Sources = {module1, script1}
    ScriptSources = {script1}
    Library = library1
    MaxTexts = 2
    BookKinds = {"book", "lib"}
    Titles = {"a", "b"}
    FirstFiles <- StoredFiles
    MaxBooks = 3
    MaxDeeds = 3
    MaxLost = 1
    MaxClock = 2
    Unset = Unset
    FileNames = {"a", "b", "d", "e", "t", ".h"}
    Tables <- AllTables
    Virtuals <- ScriptPaths
    Hidden = {".h"}
    Trees <- AllTrees
    Sizes = {0, 2}
    MaxTasks = 2
    MaxChanges = 1
INVARIANTS Owned Together EachShows OneSecret TextsWhole BookKept ImportsCurrent PageHonest RequestsKept NativesKept
PROPERTIES Answered ReadOnlyKept
CHECK_DEADLOCK FALSE
