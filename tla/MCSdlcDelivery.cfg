CONSTANTS
    Id <- MCId
    KindOf <- MCKindOf
    Actor = {"ann"}
    Step = {"s"}
    Seeds <- MCSeeds
    AuthorText <- MCAuthorText
    FileRank <- MCRank
    NoRecord = NoRecord
    Busy = {"task_a", "plan_p", "bug_g"}
    MaxSnapshots = 1
    MayRestart = {}
    MayEdit = {}
SPECIFICATION Spec
INVARIANTS
    DriftExplained
    ArchivedWorkFinished
PROPERTIES
    ReleaseDrains
CHECK_DEADLOCK FALSE
