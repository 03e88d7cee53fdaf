CONSTANTS
    p1 = p1
    p2 = p2
    Task = {"task_a"}
    Proc = {p1, p2}
    ActorOf <- TwoActors
    FirstText <- Unclaimed
    Absent = Absent
    Mangled = Mangled
    Commands = {"transition", "start", "archive"}
    Targets = {"done", "blocked", "claimed"}
    MaxCrashes = 1
    MaxTrail = 3
    MaxLines = 1
SPECIFICATION Spec
INVARIANTS
    RecordKept
    WorkClaimed
CHECK_DEADLOCK FALSE
