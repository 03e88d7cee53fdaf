CONSTANTS
    Table = {"tags", "tasks", "users"}
    TableRank <- Ranks
    Part = {"id", "pk", "name", "name_u", "id_i", "id_ui", "id_r"}
    PartKind <- PartKinds
    Def = {"text", "uuid"}
    Value = {"new", "open", "seen", "late", "done", "gone", "lost"}
    Absent = Absent
    Version = {"first", "tables", "column", "changed"}
    Wanted <- Versions
    InitVersion = "first"
    StatePath = "project"
    MaxEdits = 2
    MaxFaults = 0
SPECIFICATION Spec
PROPERTIES
    StopsForReview
CHECK_DEADLOCK FALSE
