CONSTANTS
    r1 = r1
    r2 = r2
    x2 = x2
    m1 = m1
    m2 = m2
    n1 = n1
    n2 = n2
    mine = mine
    Topo <- OneTopo
    Impl <- TwoImpl
    ProjectFile = "topogram.project.json"
    Rank <- Sorted
    Text = {x2, m1, m2, n1, n2, mine}
    Local = {mine}
    Absent = Absent
    Release = {r1, r2}
    Ships <- TwoReleases
    Refused = {}
    Commands = {"copy", "apply", "acceptCurrent", "acceptCandidate", "deleteCurrent", "trust", "detach", "generate"}
    MaxEdits = 1
    MaxKills = 1
SPECIFICATION FairSpec
INVARIANTS
    TypeOK
    LoadedIsWhole
    DriftExplained
    ResumeNotRefused
PROPERTIES
    UpdateLands
    DetachKeepsTrust
CHECK_DEADLOCK FALSE
