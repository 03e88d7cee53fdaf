--------------------------- MODULE SchemaMigration ---------------------------
(***************************************************************************)
(* The additive migration between two snapshots of a database schema: what *)
(* can be generated, what has to be done by hand, and what the SQL does.   *)
(*                                                                         *)
(* A table is a function from its parts (columns, keys, indexes, relations)*)
(* to their definitions.  The Postgres rendering is the one modelled.      *)
(***************************************************************************)
EXTENDS Naturals, Sequences, Filtering

CONSTANTS
    Table, TableRank,  \* tables, in the order of their names
    Part, PartKind,    \* the parts a table may have
    Def,               \* definitions of a part
    Value,             \* the values of the enum
    Absent

Kinds == {"column", "primaryKey", "unique", "index", "uniqueIndex", "relation"}

ASSUME PartsAssumption ==
    /\ TableRank \in [Table -> Nat]
    /\ PartKind \in [Part -> Kinds]
    /\ Absent \notin Def \cup Value \cup Part \cup [Part -> Def \cup {Absent}]

TableSchema == [Part -> Def \cup {Absent}]
Schema == [tables : [Table -> TableSchema \cup {Absent}], enum : Seq(Value)]

NoTables == [tables |-> [t \in Table |-> Absent], enum |-> <<>>]
Tables(s) == {t \in Table : s.tables[t] # Absent}
Has(s, t, p) == s.tables[t] # Absent /\ s.tables[t][p] # Absent
-----------------------------------------------------------------------------
(* Enums *)

Values(q) == {q[n] : n \in 1..Len(q)}
Position(q, v) == CHOOSE n \in 1..Len(q) : q[n] = v
Nearest(S) == CHOOSE n \in S : \A m \in S : n <= m
Farthest(S) == CHOOSE n \in S : \A m \in S : n >= m

\* findInsertedEnumValues: the previous values are still there, in their order.
OnlyInserted(prev, next) == Kept(next, {n \in 1..Len(next) : next[n] \in Values(prev)}) = prev

\* Mutant: a value is placed behind its left neighbour whenever it has one.
PlacementBehind(next, v, prev) ==
    LET i == Position(next, v)
        later == {n \in (i + 1)..Len(next) : next[n] \in Values(prev)}
        earlier == {n \in 1..(i - 1) : next[n] \in Values(prev)}
    IN [before |-> IF later = {} \/ earlier # {} THEN Absent ELSE next[Nearest(later)],
        after |-> IF earlier = {} THEN Absent ELSE next[Nearest(earlier)]]

\* enumPlacement: before the next previous value, or else after the last one.
Placement(next, v, prev) ==
    LET i == Position(next, v)
        later == {n \in (i + 1)..Len(next) : next[n] \in Values(prev)}
        earlier == {n \in 1..(i - 1) : next[n] \in Values(prev)}
    IN [before |-> IF later = {} THEN Absent ELSE next[Nearest(later)],
        after |-> IF later # {} \/ earlier = {} THEN Absent ELSE next[Farthest(earlier)]]

Put(q, n, v) == SubSeq(q, 1, n - 1) \o <<v>> \o SubSeq(q, n, Len(q))

EnumOperations(prev, next) ==
    IF prev = <<>>
      THEN IF next = <<>> THEN {} ELSE {[type |-> "create_enum", values |-> next]}
      ELSE {[type |-> "add_value", value |-> v, at |-> Placement(next, v, prev), nth |-> Position(next, v)] :
               v \in Values(next) \ Values(prev)}
-----------------------------------------------------------------------------
(* buildDbMigrationPlan *)

\* A unique index of the projection is compared but never created; the
\* primary key of an existing table is not compared.
Added == {"column", "unique", "index", "relation"}
Compared == Added \cup {"uniqueIndex"}

CreateTable(t) == [type |-> "create_table", table |-> t]
AddPart(t, p) == [type |-> "add_part", table |-> t, part |-> p]

\* Parts that are gone or have another definition.
ManualParts(from, to) == {tp \in (Tables(from) \cap Tables(to)) \X Part :
    /\ PartKind[tp[2]] \in Compared /\ Has(from, tp[1], tp[2])
    /\ to.tables[tp[1]][tp[2]] # from.tables[tp[1]][tp[2]]}

Supported(from, to) ==
    /\ Tables(from) \subseteq Tables(to)
    /\ ManualParts(from, to) = {}
    /\ OnlyInserted(from.enum, to.enum)

\* With a new table come its columns and keys, then its indexes.
InTable == {"column", "primaryKey", "unique"}

TableOperations(from, to) ==
    {CreateTable(t) : t \in Tables(to) \ Tables(from)}
    \cup {AddPart(tp[1], tp[2]) : tp \in {tq \in Tables(to) \X Part :
             /\ Has(to, tq[1], tq[2])
             /\ IF tq[1] \in Tables(from)
                  THEN PartKind[tq[2]] \in Added /\ ~Has(from, tq[1], tq[2])
                  ELSE PartKind[tq[2]] \in Added \ InTable}}

Operations(from, to) == EnumOperations(from.enum, to.enum) \cup TableOperations(from, to)

\* The order of the statements: enums, then table by table, the relations of
\* new tables last.
Rank(from, op) ==
    CASE op.type = "create_enum" -> 0
      [] op.type = "add_value" -> op.nth
      [] op.type = "create_table" -> 1000 + 10 * TableRank[op.table]
      [] op.type = "add_part" /\ PartKind[op.part] = "relation" /\ op.table \notin Tables(from) -> 1000000
      [] OTHER -> 1000 + 10 * TableRank[op.table]
                    + (CASE PartKind[op.part] = "column" -> 1 [] PartKind[op.part] = "unique" -> 2
                         [] PartKind[op.part] = "index" -> 3 [] OTHER -> 4)

\* The statement fails: the table, column or index exists, or what it names does not.
Fails(s, op) ==
    CASE op.type = "create_enum" -> FALSE
      [] op.type = "add_value" ->
           /\ op.value \notin Values(s.enum)
           /\ \/ op.at.before # Absent /\ op.at.before \notin Values(s.enum)
              \/ op.at.after # Absent /\ op.at.after \notin Values(s.enum)
      [] op.type = "create_table" -> s.tables[op.table] # Absent
      [] OTHER -> \/ s.tables[op.table] = Absent
                  \/ PartKind[op.part] \in {"column", "index"} /\ Has(s, op.table, op.part)

\* renderSqlMigration, renderCreateEnumType, renderAddEnumValue, renderCreateTable.
EnumAfter(s, op) ==
    IF op.type = "create_enum" THEN (IF s.enum = <<>> THEN op.values ELSE s.enum)
    ELSE IF op.value \in Values(s.enum) THEN s.enum
    ELSE IF op.at.before # Absent THEN Put(s.enum, Position(s.enum, op.at.before), op.value)
    ELSE IF op.at.after # Absent THEN Put(s.enum, Position(s.enum, op.at.after) + 1, op.value)
    ELSE Append(s.enum, op.value)

TablesAfter(s, op, to) ==
    IF op.type = "create_table"
      THEN [s.tables EXCEPT ![op.table] =
              [p \in Part |-> IF PartKind[p] \in InTable THEN to.tables[op.table][p] ELSE Absent]]
      ELSE [s.tables EXCEPT ![op.table] =
              [@ EXCEPT ![op.part] = to.tables[op.table][op.part]]]

After(s, op, to) ==
    IF op.type \in {"create_enum", "add_value"} THEN [s EXCEPT !.enum = EnumAfter(s, op)]
    ELSE [s EXCEPT !.tables = TablesAfter(s, op, to)]
=============================================================================
