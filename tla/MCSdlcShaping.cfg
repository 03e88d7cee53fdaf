CONSTANTS
    Id <- MCId
    KindOf <- MCKindOf
    Actor = {"ann"}
    Step = {"s"}
    Seeds <- MCSeeds
    AuthorText <- MCAuthorText
    FileRank <- MCRank
    NoRecord = NoRecord
    Busy = {"pitch_p", "req_r", "ac_c"}
    MaxSnapshots = 1
    MayRestart = {"pitch_p"}
    MayEdit = {"ac_c"}
SPECIFICATION Spec
INVARIANTS
    DriftExplained
CHECK_DEADLOCK FALSE
