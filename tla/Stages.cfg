SPECIFICATION Spec
CONSTANTS
    None = None
    Keys = {"k1", "k2"}
    Scopes = {"s1", "s2"}
    Tasks <- Policies
    Days <- Calendar
    Bucket <- Intervals
    MaxVersions = 3
    MaxFaults = 1
    CaptureScopes = {"a", "b", "c"}
    FilesOf <- Captures
    Contents = {1, 2}
    Disabled = {"c"}
    Required = {"a"}
    CleanOutput = {TRUE, FALSE}
    MaxCollections = 2
    Databases <- ByName
    FoldDatabase <- FoldedOf
    Queries = {"extensions"}
    Optional = {"publications"}
    Reads <- OfReads
    Adapters <- OfAdapters
    PgSwitches <- OffInPg
    MaxPgFaults = 2
    Hosts <- Outputs
    Inventories <- Surveys
    Selections <- Chosen
    HostSwitches <- OffInHost
    MaxHostFaults = 2
    Searches <- Asked
    Hides <- NotB
    Dirs = {"root", "a", "c", "vault"}
    Root = "root"
    Files = {"f", "g", "s", "h"}
    Names = {"a", "b", "x", "X"}
    Home <- Homes
    OwnDirs = {"vault"}
    Fold <- NameFold
    Trees <- Sources
    Turns <- Moves
    MaxDepth = 3
    MaxChanges = 2
    MaxScans = 2
    Engines = {"e", "f"}
    Branch <- Own
    Place <- Own
    Theirs = {"t"}
    StoredFiles = {"x", "y"}
    BaseFiles = {"x", "z"}
    Ignored <- IgnoreOf
    MaxGitRuns = 3
    MaxGitFaults = 1
    MaxMoves = 2
    Configs <- Loaded
    Component <- InPath
    Temp <- Staged
    MinDefault = 3
INVARIANTS
    BooksMatchArchive
    BucketsCovered
    
    FilesFound
    WorktreesSound
    LoadingSound
PROPERTIES
    NeverTooLittle
    SecondRunRemovesNothing
    OthersKept
CHECK_DEADLOCK FALSE
