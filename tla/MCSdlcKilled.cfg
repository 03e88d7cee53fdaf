CONSTANTS
    p1 = p1
    p2 = p2
    Task = {"task_a", "task_b"}
    Proc = {p1}
    ActorOf <- OneActor
    FirstText <- Unclaimed
    Absent = Absent
    Mangled = Mangled
    Commands = {"transition", "start", "archive", "unarchive"}
    Targets = {"done", "blocked", "claimed"}
    MaxCrashes = 1
    MaxTrail = 5
    MaxLines = 2
SPECIFICATION FairSpec
INVARIANTS
    TypeOK
    RecordKept
PROPERTIES
    ImplementsLedger
    ArchiveFinishes
CHECK_DEADLOCK FALSE
