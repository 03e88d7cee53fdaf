CONSTANTS
    r1 = r1
    r2 = r2
    x2 = x2
    m1 = m1
    m2 = m2
    n1 = n1
    n2 = n2
    mine = mine
    Topo <- OneTopo
    Impl <- TwoImpl
    ProjectFile = "topogram.project.json"
    Rank <- Sorted
    Text = {x2, m1, m2, n1, n2, mine}
    Local = {mine}
    Absent = Absent
    Release = {r1, r2}
    Ships <- TwoReleases
    Refused = {}
    Commands = {"copy", "apply"}
    MaxEdits = 1
    MaxKills = 0
SPECIFICATION Spec
PROPERTIES
    LocalWorkKept
CHECK_DEADLOCK FALSE
