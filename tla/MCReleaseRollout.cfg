CONSTANTS
    Consumers = 2
    Tracks = {1}
    OnMain = {1}
    MaxVersion = 2
    MaxEdits = 1
    MaxFaults = 1
SPECIFICATION FairSpec
INVARIANTS
    TypeOK
    OkMeansPushed
    WatchedMeansGreen
PROPERTIES
    PinsOnly
    UnpushedLands
CHECK_DEADLOCK FALSE
