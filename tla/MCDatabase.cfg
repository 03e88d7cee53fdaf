CONSTANTS
    Table = {"tags", "tasks", "users"}
    TableRank <- Ranks
    Part = {"id", "pk", "name", "name_u", "id_i", "id_ui", "id_r"}
    PartKind <- PartKinds
    Def = {"text", "uuid"}
    Value = {"new", "open", "seen", "late", "done", "gone", "lost"}
    Absent = Absent
    Version = {"first", "tables", "column", "changed"}
    Wanted <- Versions
    InitVersion = "first"
    StatePath = "bundle"
    MaxEdits = 2
    MaxFaults = 2
SPECIFICATION FairSpec
INVARIANTS
    TypeOK
    SnapshotBehind
    MigrationsFit
PROPERTIES
    EnumInOrder
    SettledStays
    TablesLand
CHECK_DEADLOCK FALSE
