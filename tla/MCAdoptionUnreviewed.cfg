CONSTANTS
    v1 = v1
    v2 = v2
    Item <- Items
    Rank <- Ranks
    Kind <- Kinds
    Bundle <- Bundles
    Needs <- References
    Signature <- Twins
    Projection = {"api", "web", "ops"}
    Covers <- Covering
    Version = {v1, v2}
    Found <- TwoVersions
    Draft = {"draft"}
    Human = Human
    Edited = Edited
    Absent = Absent
    Selector <- FewSelectors
    InitProjections = {"api", "web"}
    MaxEdits = 1
    MaxKills = 1
SPECIFICATION Spec
INVARIANTS
    ReviewedAlways
CHECK_DEADLOCK FALSE
