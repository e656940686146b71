SPECIFICATION Spec
CONSTANTS
    c1 = c1
    c2 = c2
    Contents = {c1, c2}
    First = c1
    None = None
    Modes = {"pull_request", "branch", "direct"}
    MaxCommits = 4
    MaxFaults = 1
INVARIANTS
    WorkKept
PROPERTIES
    NothingUnseenOverwritten
    PublishedMeansOffered
    PublicationRecovers
