CONSTANTS
    Id <- MCId
    KindOf <- MCKindOf
    Actor = {"ann"}
    Step = {"s"}
    Seeds <- MCSeeds
    AuthorText <- MCAuthorText
    FileRank <- MCRank
    NoRecord = NoRecord
    Busy = {"task_a", "task_b"}
    MaxSnapshots = 1
    MayRestart = {"task_a"}
    MayEdit = {}
SPECIFICATION Spec
INVARIANTS
    TypeOK
    DriftExplained
    BlockersFinished
    ProofStaysLive
PROPERTIES
    TransitionKeepsValid
CHECK_DEADLOCK FALSE
