SPECIFICATION Spec
CONSTANTS
    None = None
    Foreign = Foreign
    Inputs = 2
    Programs = 1
    Texts = {1, 2}
    Keep = 1
    MaxEdits = 2
    MaxMishaps = 1
    Files = {"a", "b"}
    Contents = {1}
    Clock = {1, 3}
    Interval = 2
    KeepResults = 1
    MaxChanges = 4
    First <- FirstNames
    Target <- Reserved
    Spare = {"c"}
    Start <- Homes
    Destinations = {"p", "q"}
    MaxTaskEdits = 2
    MaxSource <- Versions
    MaxKills = 1
    Paths = {1, 2}
    Blobs = {"a", "b"}
    Size <- SizeOf
    MaxFiles = 2
    MaxBytes = 2
    ScrubInterval = 2
    AgeLimit = 2
    ScrubGaps = {1}
    Oldest = 3
    MaxDisturbances = 3
    Backends = {"sysstat", "psutil"}
    KeepDays = 1
    MaxChunks = 2
    MaxCaptures = 4
    MaxSteps = 3
    MaxBack = 1
    MaxDeaths = 2
    Systems = {"Windows", "Linux", "Darwin"}
    Settings = {1, 2}
    MaxCalls = 4
    MaxUpsets = 3
    Alerts = {"load"}
    Channels = {"mail", "hook"}
    Route <- Channelled
    Dead = {"hook"}
    Readings = {"ok", "band", "critical", "none"}
    Visibilities = {"seen"}
    Mutes <- Unmuted
    Gaps = {1}
    Consecutive = 2
    ClearConsecutive = 1
    StaleAfter = 1
    Cooldown = 2
    DigestInterval = 1
    Limit = 2
    Batch = 1
    MaxExponent = 2
    MaxDelay = 3
    MaxFaults = 1
INVARIANTS
    RecoveryHolds
    RecordingHolds
    NothingDropped
PROPERTIES
    NothingLastLost
    EveryVersionChecked
    RecorderResumes
    EvidenceDecides
    ProblemTold
CHECK_DEADLOCK FALSE
