----------------------- MODULE DatabaseLifecycleProofs -----------------------
(***************************************************************************)
(* For any tables, parts, versions, kills and edits: the snapshot stays    *)
(* behind the database, the enum comes out in the order of the schema, the *)
(* tables of a migration fit those of the database, and what agrees stays  *)
(* in agreement.                                                           *)
(***************************************************************************)
EXTENDS DatabaseLifecycle, FilteringProofs

TablesType == [Table -> TableSchema \cup {Absent}]

\* What s has of the parts a migration adds, l has too.
Backs(l, s) ==
    \A t \in Table, p \in Part :
        PartKind[p] \in Added /\ Has(s, t, p) => l.tables[t] # Absent /\ l.tables[t][p] = s.tables[t][p]

\* A part of the desired schema is in the database or still to be made.
Coming(l, to, todo) ==
    \A t \in Table, p \in Part :
        PartKind[p] \in Added /\ Has(to, t, p) =>
            \/ l.tables[t] # Absent /\ l.tables[t][p] = to.tables[t][p]
            \/ AddPart(t, p) \in todo
            \/ PartKind[p] \in InTable /\ CreateTable(t) \in todo

Snapshot(s) == DOMAIN s = {"tables", "enum"} /\ s.tables \in TablesType

Fields == {"script", "pc", "from", "to", "v", "todo", "guess", "fresh", "start"}
Typed ==
    /\ want \in Version /\ bundle \in Version \cup {Absent}
    /\ Snapshot(live) /\ (current # Absent => Snapshot(current))
    /\ DOMAIN run = Fields
    /\ run.v \in Version /\ Snapshot(run.to) /\ Snapshot(run.from)
    /\ run.guess \in BOOLEAN /\ run.fresh \in BOOLEAN /\ suspect \in BOOLEAN

\* What a command that is past a point has made sure of.
Past ==
    /\ run.pc \in {"migrate", "plan"} => current # Absent
    /\ At("reconcile") => run.script \in {"bootstrap", "bootstrap-or-migrate"}
    /\ ~At("idle") /\ ~At("write") => bundle # Absent
    /\ At("reconcile") /\ run.script = "bootstrap" => current = Absent
    /\ run.pc \in {"sql", "push", "record"} => run.to = Wanted[run.v]
    /\ At("sql") => /\ run.todo \subseteq Operations(run.from, run.to)
                    /\ current # Absent => run.from = current
    /\ run.fresh => At("record")

\* The database follows the plan.
Following ==
    /\ current # Absent /\ ~suspect => Backs(live, current)
    /\ run.pc \in {"sql", "push", "record"} /\ current # Absent /\ ~suspect => Backs(run.to, current)
    /\ At("sql") /\ ~run.guess => Coming(live, run.to, run.todo)
    /\ run.pc \in {"push", "record"} /\ ~run.guess /\ ~suspect => Backs(live, run.to)
    /\ At("record") /\ run.fresh => Backs(live, run.to)

IInv == Typed /\ Past /\ Following

-----------------------------------------------------------------------------
LEMMA Parts ==
    /\ Absent \notin Part /\ Absent \notin Def
    /\ \A v \in Version : Snapshot(Wanted[v]) /\ Wanted[v] # Absent /\ Prisma(v) \in TablesType
    /\ Snapshot(NoTables)
    /\ \A s : Snapshot(s) => \A t \in Table : s.tables[t] \in TableSchema \cup {Absent}
    /\ Absent \notin TableSchema
    /\ Version # {} /\ Absent \notin Version
  <1>1. Absent \notin Part /\ Absent \notin Def /\ Absent \notin TableSchema /\ Absent \notin Version
    BY PartsAssumption, LifecycleAssumption DEF TableSchema
  <1>2. ASSUME NEW v \in Version PROVE Snapshot(Wanted[v]) /\ Wanted[v] # Absent /\ Prisma(v) \in TablesType
    <2>1. Wanted[v] \in Schema /\ Wanted[v] # Absent
      BY LifecycleAssumption
    <2>2. Snapshot(Wanted[v])
      BY <2>1 DEF Schema, Snapshot, TablesType
    <2>3. ASSUME NEW t \in Table, Wanted[v].tables[t] # Absent
          PROVE [p \in Part |-> IF PartKind[p] = "uniqueIndex" THEN Absent ELSE Wanted[v].tables[t][p]] \in TableSchema
      <3>1. Wanted[v].tables[t] \in TableSchema
        BY <2>2, <2>3 DEF Snapshot, TablesType
      <3> QED
        BY <3>1 DEF TableSchema
    <2> QED
      BY <2>1, <2>2, <2>3 DEF Prisma, TablesType
  <1>3. Snapshot(NoTables)
    BY DEF Snapshot, NoTables, TablesType
  <1>4. \A s : Snapshot(s) => \A t \in Table : s.tables[t] \in TableSchema \cup {Absent}
    BY DEF Snapshot, TablesType
  <1> QED
    BY <1>1, <1>2, <1>3, <1>4, LifecycleAssumption

\* A plan consists of enum operations, of tables that are new and of parts that
\* the table does not have yet or, in a new table, does not come with.
LEMMA OperationKinds ==
    ASSUME NEW from, NEW to, Snapshot(from), Snapshot(to), NEW op \in Operations(from, to)
    PROVE  \/ op.type \in {"create_enum", "add_value"}
           \/ \E t \in Tables(to) \ Tables(from) : op = CreateTable(t)
           \/ \E t \in Tables(to), p \in Part :
                 /\ op = AddPart(t, p) /\ Has(to, t, p) /\ PartKind[p] \in Added
                 /\ t \in Tables(from) => ~Has(from, t, p)
                 /\ t \notin Tables(from) => PartKind[p] \notin InTable
  <1>1. CASE op \in EnumOperations(from.enum, to.enum)
    BY <1>1 DEF EnumOperations
  <1>2. CASE op \in TableOperations(from, to)
    <2>1. CASE \E t \in Tables(to) \ Tables(from) : op = CreateTable(t)
      BY <2>1
    <2>2. CASE \E tp \in Tables(to) \X Part :
                  /\ op = AddPart(tp[1], tp[2]) /\ Has(to, tp[1], tp[2])
                  /\ IF tp[1] \in Tables(from)
                       THEN PartKind[tp[2]] \in Added /\ ~Has(from, tp[1], tp[2])
                       ELSE PartKind[tp[2]] \in Added \ InTable
      BY <2>2
    <2> QED
      BY <1>2, <2>1, <2>2 DEF TableOperations
  <1> QED
    BY <1>1, <1>2 DEF Operations

\* A statement that does not fail makes what it says and leaves the rest.
Made(s, op, to) ==
    /\ Snapshot(After(s, op, to))
    /\ \A t \in Table, p \in Part : Has(s, t, p) /\ op # AddPart(t, p) =>
          /\ After(s, op, to).tables[t] # Absent
          /\ After(s, op, to).tables[t][p] = s.tables[t][p]
    /\ \A t \in Table, p \in Part :
          op = AddPart(t, p) \/ (op = CreateTable(t) /\ PartKind[p] \in InTable) =>
             /\ After(s, op, to).tables[t] # Absent
             /\ After(s, op, to).tables[t][p] = to.tables[t][p]

LEMMA StatementMakes ==
    ASSUME NEW from, NEW to, NEW s, Snapshot(from), Snapshot(to), Snapshot(s),
           NEW op \in Operations(from, to), ~Fails(s, op)
    PROVE  Made(s, op, to)
  <1>1. CASE op.type \in {"create_enum", "add_value"}
    <2>1. After(s, op, to).tables = s.tables /\ DOMAIN After(s, op, to) = {"tables", "enum"}
      BY <1>1 DEF After, Snapshot
    <2>2. \A t \in Table, p \in Part : op # AddPart(t, p) /\ op # CreateTable(t)
      BY <1>1 DEF AddPart, CreateTable
    <2> QED
      BY <2>1, <2>2 DEF Snapshot, Has, Made
  <1>2. ASSUME NEW u \in Tables(to) \ Tables(from), op = CreateTable(u)
        PROVE  Made(s, op, to)
    <2> DEFINE table == [p \in Part |-> IF PartKind[p] \in InTable THEN to.tables[u][p] ELSE Absent]
    <2>1. u \in Table /\ to.tables[u] \in TableSchema
      BY DEF Tables, Snapshot, TablesType
    <2>2. table \in TableSchema /\ table # Absent
      BY <2>1, Parts DEF TableSchema
    <2>3. s.tables[u] = Absent
      BY <1>2 DEF Fails, CreateTable
    <2>4. op.type = "create_table" /\ op.table = u
      BY <1>2 DEF CreateTable
    <2>5. After(s, op, to) = [s EXCEPT !.tables = [s.tables EXCEPT ![u] = table]]
      BY <2>4 DEF After, TablesAfter
    <2>6. After(s, op, to).tables = [s.tables EXCEPT ![u] = table]
          /\ DOMAIN After(s, op, to) = {"tables", "enum"}
      BY <2>5 DEF Snapshot
    <2> HIDE DEF table
    <2>7. Snapshot(After(s, op, to))
      BY <2>1, <2>2, <2>6 DEF Snapshot, TablesType
    <2>8. ASSUME NEW t \in Table, NEW p \in Part, Has(s, t, p)
          PROVE  After(s, op, to).tables[t] = s.tables[t]
      BY <2>3, <2>6, <2>8 DEF Has, Snapshot, TablesType
    <2>9. ASSUME NEW t \in Table, NEW p \in Part,
                 op = AddPart(t, p) \/ (op = CreateTable(t) /\ PartKind[p] \in InTable)
          PROVE  After(s, op, to).tables[t] # Absent /\ After(s, op, to).tables[t][p] = to.tables[t][p]
      <3>1. t = u /\ PartKind[p] \in InTable
        BY <1>2, <2>9 DEF AddPart, CreateTable
      <3>2. After(s, op, to).tables[u] = table
        BY <2>1, <2>6 DEF Snapshot, TablesType
      <3> QED
        BY <3>1, <3>2, <2>2 DEF table
    <2> QED
      BY <2>7, <2>8, <2>9 DEF Made, Has
  <1>3. ASSUME NEW u \in Tables(to), NEW q \in Part, op = AddPart(u, q), Has(to, u, q)
        PROVE  Made(s, op, to)
    <2> DEFINE table == [s.tables[u] EXCEPT ![q] = to.tables[u][q]]
    <2>1. u \in Table /\ to.tables[u] \in TableSchema
      BY DEF Tables, Snapshot, TablesType
    <2>2. op.type = "add_part" /\ op.table = u /\ op.part = q
      BY <1>3 DEF AddPart
    <2>3. s.tables[u] \in TableSchema /\ s.tables[u] # Absent
      BY <2>1, <2>2 DEF Fails, Snapshot, TablesType
    <2>4. table \in TableSchema /\ table # Absent
      BY <2>1, <2>3, Parts DEF TableSchema
    <2>5. After(s, op, to) = [s EXCEPT !.tables = [s.tables EXCEPT ![u] = table]]
      BY <2>2 DEF After, TablesAfter
    <2>6. After(s, op, to).tables = [s.tables EXCEPT ![u] = table]
          /\ DOMAIN After(s, op, to) = {"tables", "enum"}
      BY <2>5 DEF Snapshot
    <2>7. table[q] = to.tables[u][q] /\ \A p \in Part : p # q => table[p] = s.tables[u][p]
      BY <2>3 DEF TableSchema
    <2> HIDE DEF table
    <2>8. Snapshot(After(s, op, to))
      BY <2>1, <2>4, <2>6 DEF Snapshot, TablesType
    <2>9. After(s, op, to).tables[u] = table
          /\ \A t \in Table : t # u => After(s, op, to).tables[t] = s.tables[t]
      BY <2>1, <2>6 DEF Snapshot, TablesType
    <2>10. ASSUME NEW t \in Table, NEW p \in Part, Has(s, t, p), op # AddPart(t, p)
           PROVE  After(s, op, to).tables[t] # Absent /\ After(s, op, to).tables[t][p] = s.tables[t][p]
      BY <1>3, <2>4, <2>7, <2>9, <2>10 DEF Has
    <2>11. ASSUME NEW t \in Table, NEW p \in Part, op = AddPart(t, p) \/ op = CreateTable(t)
           PROVE  After(s, op, to).tables[t] # Absent /\ After(s, op, to).tables[t][p] = to.tables[t][p]
      <3>1. t = u /\ p = q
        BY <1>3, <2>11 DEF AddPart, CreateTable
      <3> QED
        BY <3>1, <2>4, <2>7, <2>9
    <2> QED
      BY <2>8, <2>10, <2>11 DEF Made
  <1> QED
    BY <1>1, <1>2, <1>3, OperationKinds

\* A supported plan makes every part that is not there already, and keeps the rest.
LEMMA PlanCovers ==
    ASSUME NEW from, NEW to, NEW l, Snapshot(from), Snapshot(to),
           Supported(from, to), Backs(l, from)
    PROVE  Coming(l, to, Operations(from, to)) /\ Backs(to, from)
  <1>1. ASSUME NEW t \in Table, NEW p \in Part, PartKind[p] \in Added, Has(from, t, p)
        PROVE  to.tables[t] # Absent /\ to.tables[t][p] = from.tables[t][p]
    <2>1. t \in Tables(from) /\ t \in Tables(to)
      BY <1>1 DEF Supported, Tables, Has
    <2>2. <<t, p>> \notin ManualParts(from, to)
      BY DEF Supported
    <2> QED
      BY <1>1, <2>1, <2>2 DEF ManualParts, Compared, Tables
  <1>2. ASSUME NEW t \in Table, NEW p \in Part, PartKind[p] \in Added, Has(to, t, p),
               ~Has(from, t, p)
        PROVE  \/ AddPart(t, p) \in Operations(from, to)
               \/ PartKind[p] \in InTable /\ CreateTable(t) \in Operations(from, to)
    <2>1. t \in Tables(to)
      BY <1>2 DEF Has, Tables
    <2>2. CASE t \notin Tables(from) /\ PartKind[p] \in InTable
      BY <2>1, <2>2 DEF Operations, TableOperations
    <2>3. CASE t \in Tables(from) \/ PartKind[p] \notin InTable
      <3>1. <<t, p>> \in {tq \in Tables(to) \X Part :
               /\ Has(to, tq[1], tq[2])
               /\ IF tq[1] \in Tables(from)
                    THEN PartKind[tq[2]] \in Added /\ ~Has(from, tq[1], tq[2])
                    ELSE PartKind[tq[2]] \in Added \ InTable}
        BY <1>2, <2>1, <2>3
      <3> QED
        BY <3>1 DEF Operations, TableOperations
    <2> QED
      BY <2>2, <2>3
  <1> QED
    BY <1>1, <1>2 DEF Backs, Coming, Has

LEMMA PlanFromNothing ==
    ASSUME NEW to, NEW l, Snapshot(to)
    PROVE  Coming(l, to, Operations(NoTables, to))
  <1>1. Tables(NoTables) = {} /\ \A t \in Table, p \in Part : ~Has(NoTables, t, p)
    BY DEF Tables, NoTables, Has
  <1>2. ASSUME NEW t \in Table, NEW p \in Part, PartKind[p] \in Added, Has(to, t, p)
        PROVE  \/ AddPart(t, p) \in Operations(NoTables, to)
               \/ PartKind[p] \in InTable /\ CreateTable(t) \in Operations(NoTables, to)
    <2>1. t \in Tables(to)
      BY <1>2 DEF Has, Tables
    <2>2. CASE PartKind[p] \in InTable
      BY <1>1, <2>1, <2>2 DEF Operations, TableOperations
    <2>3. CASE PartKind[p] \notin InTable
      <3>1. <<t, p>> \in {tq \in Tables(to) \X Part :
               /\ Has(to, tq[1], tq[2])
               /\ IF tq[1] \in Tables(NoTables)
                    THEN PartKind[tq[2]] \in Added /\ ~Has(NoTables, tq[1], tq[2])
                    ELSE PartKind[tq[2]] \in Added \ InTable}
        BY <1>1, <1>2, <2>1, <2>3
      <3> QED
        BY <3>1 DEF Operations, TableOperations
    <2> QED
      BY <2>2, <2>3
  <1> QED
    BY <1>2 DEF Coming

LEMMA BacksItself == \A s : Backs(s, s)
  BY DEF Backs, Has

\* What Prisma makes of a version has everything a migration to it adds.
LEMMA PrismaBacks ==
    ASSUME NEW v \in Version, NEW e
    PROVE  /\ Snapshot([tables |-> Prisma(v), enum |-> e])
           /\ Backs([tables |-> Prisma(v), enum |-> e], Wanted[v])
  <1>1. Snapshot([tables |-> Prisma(v), enum |-> e])
    BY Parts DEF Snapshot
  <1>2. ASSUME NEW t \in Table, NEW p \in Part, PartKind[p] \in Added, Has(Wanted[v], t, p)
        PROVE  Prisma(v)[t] # Absent /\ Prisma(v)[t][p] = Wanted[v].tables[t][p]
    <2>1. Prisma(v)[t] = [q \in Part |-> IF PartKind[q] = "uniqueIndex" THEN Absent ELSE Wanted[v].tables[t][q]]
      BY <1>2 DEF Prisma, Has
    <2>2. Prisma(v)[t][p] = Wanted[v].tables[t][p]
      BY <2>1, <1>2 DEF Added
    <2>3. Prisma(v)[t] # Absent
      <3>1. Wanted[v].tables[t] \in TableSchema
        BY <1>2, Parts DEF Has
      <3>2. Prisma(v)[t] \in TableSchema
        BY <2>1, <3>1 DEF TableSchema
      <3> QED
        BY <3>2, Parts
    <2> QED
      BY <2>2, <2>3
  <1> QED
    BY <1>1, <1>2 DEF Backs

LEMMA BacksThrough ==
    ASSUME NEW a, NEW b, NEW c, Backs(a, b), Backs(b, c), Snapshot(c)
    PROVE  Backs(a, c)
  <1>1. ASSUME NEW t \in Table, NEW p \in Part, PartKind[p] \in Added, Has(c, t, p)
        PROVE  a.tables[t] # Absent /\ a.tables[t][p] = c.tables[t][p]
    <2>1. Has(b, t, p) /\ b.tables[t][p] = c.tables[t][p]
      BY <1>1 DEF Backs, Has
    <2> QED
      BY <2>1, <1>1 DEF Backs
  <1> QED
    BY <1>1 DEF Backs

LEMMA Guesses ==
    ASSUME want \in Version, NEW seen
    PROVE  Snapshot(Inferred(seen)) /\ Inferred(seen) # Absent
  <1>1. Snapshot(Wanted[want])
    BY Parts
  <1>2. [t \in Table |-> IF t \in seen THEN Wanted[want].tables[t] ELSE Absent] \in TablesType
    BY <1>1 DEF Snapshot, TablesType
  <1>3. Snapshot(Inferred(seen))
    BY <1>1, <1>2 DEF Snapshot, Inferred
  <1>4. Wanted[want] \in Schema
    BY LifecycleAssumption
  <1>5. Inferred(seen) \in Schema
    BY <1>2, <1>4 DEF Inferred, Schema, TablesType
  <1> QED
    BY <1>3, <1>5, LifecycleAssumption
-----------------------------------------------------------------------------
LEMMA IdleRun ==
    /\ DOMAIN Idle = Fields /\ Idle.pc = "idle" /\ Idle.v = InitVersion
    /\ Idle.from = NoTables /\ Idle.to = NoTables
    /\ Idle.guess = FALSE /\ Idle.fresh = FALSE
  BY DEF Idle, Fields

LEMMA Start == Init => IInv
  <1> SUFFICES ASSUME Init PROVE IInv
    OBVIOUS
  <1>1. Typed
    BY Parts, IdleRun, LifecycleAssumption DEF Init, Typed
  <1>2. Past /\ Following
    BY IdleRun DEF Init, Past, Following, At
  <1> QED
    BY <1>1, <1>2 DEF IInv

\* A command that has ended relies on nothing but the snapshot it left.
LEMMA Ended ==
    ASSUME IInv, want' \in Version, bundle' \in Version \cup {Absent}, suspect' \in BOOLEAN,
           Snapshot(live'), current' # Absent => Snapshot(current'),
           current' # Absent /\ ~suspect' => Backs(live', current'),
           run' = Idle
    PROVE  IInv'
  <1>1. Typed'
    BY IdleRun, Parts, LifecycleAssumption DEF Typed
  <1>2. Past' /\ Following'
    BY IdleRun DEF Past, Following, At
  <1> QED
    BY <1>1, <1>2 DEF IInv

LEMMA Preserved == IInv /\ [Next]_vars => IInv'
  <1> SUFFICES ASSUME IInv, [Next]_vars PROVE IInv'
    OBVIOUS
  <1> USE DEF IInv
  <1>1. ASSUME NEW script \in Scripts, Begin(script) PROVE IInv'
    <2>1. /\ DOMAIN run' = Fields /\ run'.v = InitVersion /\ run'.to = NoTables /\ run'.from = NoTables
          /\ run'.guess = FALSE /\ run'.fresh = FALSE
          /\ run'.pc \in {"migrate", "reconcile"}
          /\ run'.pc = "reconcile" => run'.script = script
      BY <1>1, IdleRun DEF Begin, Fields
    <2>4. /\ run'.pc = "migrate" => current # Absent
          /\ run'.pc = "reconcile" => script \in {"bootstrap", "bootstrap-or-migrate"}
          /\ script = "bootstrap" => current = Absent
      BY <1>1, IdleRun DEF Begin, Fields, Scripts
    <2>2. Typed'
      BY <1>1, <2>1, Parts, LifecycleAssumption DEF Begin, Typed
    <2>3. Past' /\ Following'
      BY <1>1, <2>1, <2>4 DEF Begin, Past, Following, At
    <2> QED
      BY <2>2, <2>3
  <1>2. CASE RecordUnseen
    <2>1. /\ DOMAIN run' = Fields /\ run'.v = want /\ run'.to = Wanted[want] /\ run'.from = run.from
          /\ run'.guess = TRUE /\ run'.fresh = run.fresh /\ run'.pc = "push" /\ run'.script = run.script
      BY <1>2 DEF RecordUnseen, Typed, Fields
    <2>2. Typed'
      BY <1>2, <2>1, Parts DEF RecordUnseen, Typed
    <2>3. Past' /\ Following'
      BY <1>2, <2>1 DEF RecordUnseen, Past, Following, At
    <2> QED
      BY <2>2, <2>3
  <1>3. CASE Unmatched \/ Compare
    <2>1. /\ DOMAIN run' = Fields /\ run'.v = run.v /\ run'.to = run.to /\ run'.from = run.from
          /\ run'.guess = run.guess /\ run'.fresh = run.fresh
          /\ run'.pc \in {"plan", "infer"} /\ (run'.pc = "plan" => current # Absent)
      BY <1>3 DEF Unmatched, Compare, Typed, Fields, Past, At
    <2>2. Typed'
      BY <1>3, <2>1 DEF Unmatched, Compare, Typed
    <2>3. Past' /\ Following'
      BY <1>3, <2>1 DEF Unmatched, Compare, Past, Following, At
    <2> QED
      BY <2>2, <2>3
  <1>4. CASE Greenfield
    <2>1. CASE run' = Idle
      BY <1>4, <2>1, Ended DEF Greenfield, Typed, Following
    <2>2. CASE current = Absent /\ run' = [run EXCEPT !.script = "bootstrap"]
      <3>1. /\ DOMAIN run' = Fields /\ run'.v = run.v /\ run'.to = run.to /\ run'.from = run.from
            /\ run'.guess = run.guess /\ run'.fresh = run.fresh /\ run'.pc = run.pc
            /\ run'.script = "bootstrap"
        BY <2>2 DEF Typed, Fields
      <3>2. Typed'
        BY <1>4, <3>1 DEF Greenfield, Typed
      <3>3. Past' /\ Following'
        BY <1>4, <2>2, <3>1 DEF Greenfield, Past, Following, At
      <3> QED
        BY <3>2, <3>3
    <2>3. CASE /\ run.script # "bootstrap-or-migrate"
               /\ run' = [run EXCEPT !.pc = "sql", !.from = NoTables, !.to = Wanted[want], !.v = want,
                                     !.todo = Operations(NoTables, Wanted[want])]
      <3>1. /\ DOMAIN run' = Fields /\ run'.v = want /\ run'.to = Wanted[want] /\ run'.from = NoTables
            /\ run'.guess = run.guess /\ run'.fresh = run.fresh /\ run'.pc = "sql"
            /\ run'.todo = Operations(NoTables, Wanted[want])
        BY <2>3 DEF Typed, Fields
      <3>2. current = Absent
        BY <1>4, <2>3 DEF Greenfield, Past
      <3>3. Coming(live, Wanted[want], Operations(NoTables, Wanted[want]))
        BY PlanFromNothing, Parts DEF Typed
      <3>4. Typed'
        BY <1>4, <3>1, Parts DEF Greenfield, Typed
      <3>5. Past' /\ Following'
        BY <1>4, <3>1, <3>2, <3>3 DEF Greenfield, Past, Following, At
      <3> QED
        BY <3>4, <3>5
    <2> QED
      BY <1>4, <2>1, <2>2, <2>3 DEF Greenfield
  <1>5. CASE Infer
    <2>1. CASE run' = Idle /\ UNCHANGED <<current, suspect>>
      BY <1>5, <2>1, Ended DEF Infer, Typed, Following
    <2>2. ASSUME NEW seen, current' = Inferred(seen), suspect' = TRUE,
                 run' = [run EXCEPT !.script = "migrate",
                                    !.pc = IF run.script = "migrate" THEN "plan" ELSE "migrate"]
          PROVE  IInv'
      <3>1. /\ DOMAIN run' = Fields /\ run'.v = run.v /\ run'.to = run.to /\ run'.from = run.from
            /\ run'.guess = run.guess /\ run'.fresh = run.fresh /\ run'.pc \in {"migrate", "plan"}
        BY <2>2 DEF Typed, Fields
      <3>2. Snapshot(current') /\ current' # Absent
        BY <2>2, Guesses DEF Typed
      <3>3. Typed'
        BY <1>5, <2>2, <3>1, <3>2 DEF Infer, Typed
      <3>4. Past' /\ Following'
        BY <1>5, <2>2, <3>1, <3>2 DEF Infer, Past, Following, At
      <3> QED
        BY <3>3, <3>4
    <2> QED
      BY <1>5, <2>1, <2>2 DEF Infer
  <1>6. CASE Plan
    <2>1. CASE run' = Idle
      BY <1>6, <2>1, Ended DEF Plan, Typed, Following
    <2>2. CASE /\ Supported(current, Wanted[want])
               /\ run' = [run EXCEPT !.pc = "sql", !.from = current, !.to = Wanted[want], !.v = want,
                               !.guess = suspect, !.todo = Operations(current, Wanted[want])]
      <3>1. /\ DOMAIN run' = Fields /\ run'.v = want /\ run'.to = Wanted[want] /\ run'.from = current
            /\ run'.guess = suspect /\ run'.fresh = run.fresh /\ run'.pc = "sql"
            /\ run'.todo = Operations(current, Wanted[want])
        BY <2>2 DEF Typed, Fields
      <3>2. Snapshot(current) /\ Snapshot(Wanted[want]) /\ Backs(current, current)
        BY <1>6, Parts, BacksItself DEF Plan, Past, Typed, At
      <3>3. Backs(Wanted[want], current)
        BY <2>2, <3>2, PlanCovers
      <3>4. ~suspect => Coming(live, Wanted[want], Operations(current, Wanted[want]))
        BY <1>6, <2>2, <3>2, PlanCovers DEF Plan, Past, Following, At
      <3>5. Typed'
        BY <1>6, <3>1, <3>2 DEF Plan, Typed
      <3>6. Past' /\ Following'
        BY <1>6, <3>1, <3>3, <3>4 DEF Plan, Past, Following, At
      <3> QED
        BY <3>5, <3>6
    <2> QED
      BY <1>6, <2>1, <2>2 DEF Plan
  <1>7. CASE Apply
    <2>1. PICK op \in run.todo :
             IF Fails(live, op) THEN run' = Idle /\ UNCHANGED live
             ELSE live' = After(live, op, run.to) /\ run' = [run EXCEPT !.todo = @ \ {op}]
      BY <1>7 DEF Apply
    <2>2. CASE run' = Idle /\ UNCHANGED live
      BY <1>7, <2>2, Ended DEF Apply, Typed, Following
    <2>3. CASE /\ ~Fails(live, op)
               /\ live' = After(live, op, run.to) /\ run' = [run EXCEPT !.todo = @ \ {op}]
      <3>1. /\ DOMAIN run' = Fields /\ run'.v = run.v /\ run'.to = run.to /\ run'.from = run.from
            /\ run'.guess = run.guess /\ run'.fresh = run.fresh /\ run'.pc = run.pc
            /\ run'.todo = run.todo \ {op}
        BY <2>3 DEF Typed, Fields
      <3>2. op \in Operations(run.from, run.to)
        BY <1>7 DEF Apply, Past
      <3>3. Made(live, op, run.to)
        BY <2>3, <3>2, StatementMakes DEF Typed
      <3>4. ASSUME current # Absent, ~suspect PROVE Backs(live', current)
        <4>1. \A t \in Table, p \in Part : Has(current, t, p) => op # AddPart(t, p)
          <5>1. current = run.from
            BY <1>7, <3>4 DEF Apply, Past
          <5>2. ASSUME NEW t \in Table, NEW p \in Part, op = AddPart(t, p), Has(current, t, p)
                PROVE  FALSE
            <6>1. t \in Tables(run.from) /\ Has(run.from, t, p)
              BY <5>1, <5>2 DEF Has, Tables
            <6>2. op.type = "add_part" /\ op.table = t /\ op.part = p
              BY <5>2 DEF AddPart
            <6>3. PICK u \in Tables(run.to), q \in Part :
                     op = AddPart(u, q) /\ (u \in Tables(run.from) => ~Has(run.from, u, q))
              BY <3>2, <6>2, OperationKinds DEF Typed, CreateTable
            <6> QED
              BY <6>1, <6>2, <6>3 DEF AddPart
          <5> QED
            BY <5>2
        <4>2. ASSUME NEW t \in Table, NEW p \in Part, PartKind[p] \in Added, Has(current, t, p)
              PROVE  live'.tables[t] # Absent /\ live'.tables[t][p] = current.tables[t][p]
          <5>1. Has(live, t, p) /\ live.tables[t][p] = current.tables[t][p]
            BY <3>4, <4>2 DEF Following, Backs, Has
          <5> QED
            BY <2>3, <3>3, <4>1, <4>2, <5>1 DEF Made
        <4> QED
          BY <4>2 DEF Backs
      <3>5. ASSUME ~run.guess PROVE Coming(live', run.to, run.todo \ {op})
        <4>1. Coming(live, run.to, run.todo)
          BY <1>7, <3>5 DEF Apply, Following
        <4>2. ASSUME NEW t \in Table, NEW p \in Part, PartKind[p] \in Added, Has(run.to, t, p)
              PROVE  \/ live'.tables[t] # Absent /\ live'.tables[t][p] = run.to.tables[t][p]
                     \/ AddPart(t, p) \in run.todo \ {op}
                     \/ PartKind[p] \in InTable /\ CreateTable(t) \in run.todo \ {op}
          <5>1. CASE live.tables[t] # Absent /\ live.tables[t][p] = run.to.tables[t][p]
            <6>1. Has(live, t, p)
              BY <4>2, <5>1 DEF Has
            <6> QED
              BY <2>3, <3>3, <5>1, <6>1 DEF Made
          <5>2. CASE AddPart(t, p) \in run.todo
            BY <2>3, <3>3, <5>2 DEF Made
          <5>3. CASE PartKind[p] \in InTable /\ CreateTable(t) \in run.todo
            BY <2>3, <3>3, <5>3 DEF Made
          <5> QED
            BY <4>1, <4>2, <5>1, <5>2, <5>3 DEF Coming
        <4> QED
          BY <4>2 DEF Coming
      <3>6. Snapshot(live')
        BY <2>3, <3>3 DEF Made
      <3>7. Typed'
        BY <1>7, <3>1, <3>6 DEF Apply, Typed
      <3>8. Past'
        BY <1>7, <3>1 DEF Apply, Past, At
      <3>9. Following'
        BY <1>7, <3>1, <3>4, <3>5 DEF Apply, Following, At
      <3> QED
        BY <3>7, <3>8, <3>9
    <2> QED
      BY <2>1, <2>2, <2>3
  <1>8. CASE Applied
    <2>1. /\ DOMAIN run' = Fields /\ run'.v = run.v /\ run'.to = run.to /\ run'.from = run.from
          /\ run'.guess = run.guess /\ run'.fresh = run.fresh /\ run'.pc = "push"
      BY <1>8 DEF Applied, Typed, Fields
    <2>2. ~run.guess => Backs(live, run.to)
      BY <1>8 DEF Applied, Following, Coming, Backs
    <2>3. Typed'
      BY <1>8, <2>1 DEF Applied, Typed
    <2>4. Past' /\ Following'
      BY <1>8, <2>1, <2>2 DEF Applied, Past, Following, At
    <2> QED
      BY <2>3, <2>4
  <1>9. CASE SkipPush
    <2>1. /\ DOMAIN run' = Fields /\ run'.v = run.v /\ run'.to = run.to /\ run'.from = run.from
          /\ run'.guess = run.guess /\ run'.fresh = run.fresh /\ run'.pc = "record"
      BY <1>9 DEF SkipPush, Typed, Fields
    <2>2. Typed'
      BY <1>9, <2>1 DEF SkipPush, Typed
    <2>3. Past' /\ Following'
      BY <1>9, <2>1 DEF SkipPush, Past, Following, At
    <2> QED
      BY <2>2, <2>3
  <1>10. CASE Push
    <2>1. /\ DOMAIN run' = Fields /\ run'.v = run.v /\ run'.to = run.to /\ run'.from = run.from
          /\ run'.guess = run.guess /\ run'.fresh = (bundle = run.v) /\ run'.pc = "record"
      BY <1>10 DEF Push, Typed, Fields
    <2>2. bundle \in Version /\ run.to = Wanted[run.v]
      BY <1>10 DEF Push, Typed, Past, At
    <2>3. Snapshot(live') /\ Backs(live', Wanted[bundle])
      BY <1>10, <2>2, PrismaBacks DEF Push
    <2>4. suspect' \in BOOLEAN /\ (~suspect' => ~suspect /\ bundle = run.v)
      BY <1>10 DEF Push, Typed
    <2>5. ASSUME current # Absent, ~suspect' PROVE Backs(live', current)
      <3>1. Backs(run.to, current) /\ live' = [tables |-> Prisma(bundle), enum |-> PushedEnum(bundle)]
        BY <1>10, <2>4, <2>5 DEF Push, Following, At
      <3>2. Backs(live', run.to) /\ Snapshot(current)
        BY <2>2, <2>3, <2>4, <2>5 DEF Typed
      <3> QED
        BY <3>1, <3>2, BacksThrough
    <2>6. Typed'
      BY <1>10, <2>1, <2>3, <2>4 DEF Push, Typed
    <2>7. Past'
      BY <1>10, <2>1 DEF Push, Past, At
    <2>8. Following'
      BY <1>10, <2>1, <2>2, <2>3, <2>4, <2>5 DEF Push, Following, At
    <2> QED
      BY <2>6, <2>7, <2>8
  <1>11. CASE PushRefused
    BY <1>11, Ended DEF PushRefused, Typed, Following
  <1>12. CASE Record
    <2>1. suspect' \in BOOLEAN /\ (~suspect' => run.fresh \/ (~suspect /\ ~run.guess))
      BY <1>12 DEF Record, Typed
    <2>2. ~suspect' => Backs(live', current')
      BY <1>12, <2>1 DEF Record, Following, At
    <2>3. Snapshot(current')
      BY <1>12 DEF Record, Typed
    <2> QED
      BY <1>12, <2>1, <2>2, <2>3, Ended DEF Record, Typed
  <1>13. CASE Wipe
    <2>1. /\ DOMAIN run' = Fields /\ run'.v = want /\ run'.to = NoTables /\ run'.from = NoTables
          /\ run'.guess = FALSE /\ run'.fresh = FALSE /\ run'.pc = "write"
      BY <1>13, IdleRun DEF Wipe, Fields
    <2>2. current' = Absent \/ UNCHANGED <<current, suspect>>
      BY <1>13 DEF Wipe
    <2>3. suspect' \in BOOLEAN
      BY <1>13 DEF Wipe, Typed
    <2>4. Typed'
      BY <1>13, <2>1, <2>2, <2>3, Parts DEF Wipe, Typed
    <2>5. Past' /\ Following'
      BY <1>13, <2>1, <2>2 DEF Wipe, Past, Following, At
    <2> QED
      BY <2>4, <2>5
  <1>14. CASE WriteBundle
    BY <1>14, Ended DEF WriteBundle, Typed, Following
  <1>15. ASSUME NEW v \in Version, Change(v) PROVE IInv'
    <2>1. Typed' /\ Past'
      BY <1>15 DEF Change, Typed, Past, At
    <2>2. Following'
      BY <1>15 DEF Change, Following, At
    <2> QED
      BY <2>1, <2>2
  <1>16. CASE MigrateByHand
    <2>1. Snapshot(live') /\ live' = current' /\ run' = run
      BY <1>16, Parts DEF MigrateByHand, Typed
    <2>2. Backs(live', current')
      BY <2>1, BacksItself
    <2>3. Typed'
      BY <1>16, <2>1 DEF MigrateByHand, Typed
    <2>4. Past' /\ Following'
      BY <1>16, <2>2 DEF MigrateByHand, Past, Following, At
    <2> QED
      BY <2>3, <2>4
  <1>17. CASE Kill
    BY <1>17, Ended DEF Kill, Typed, Following
  <1>18. CASE UNCHANGED vars
    BY <1>18 DEF vars, Typed, Past, Following, At
  <1> QED
    BY <1>1, <1>2, <1>3, <1>4, <1>5, <1>6, <1>7, <1>8, <1>9, <1>10, <1>11, <1>12, <1>13,
       <1>14, <1>15, <1>16, <1>17, <1>18 DEF Next, Step

\* Wherever a script is killed, whatever is edited and however often it is run
\* again: the snapshot claims no part the database does not have.
THEOREM SnapshotStaysBehind == Spec => []SnapshotBehind
  <1>1. IInv => SnapshotBehind
    BY DEF IInv, Following, Backs, SnapshotBehind
  <1> QED
    BY Start, Preserved, <1>1, PTL DEF Spec
-----------------------------------------------------------------------------
\* Past its plan a script works for the version that is wanted.
Aimed == run.pc \in {"sql", "push", "record"} => run.v = want

LEMMA AimedStart == Init => Aimed
  BY IdleRun DEF Init, Aimed

\* The version changes between commands only.
LEMMA AimedPreserved ==
    ASSUME IInv, Aimed, [Next]_vars
    PROVE  Aimed'
  <1> USE DEF IInv
  <1>1. ASSUME run'.pc \notin {"sql", "push", "record"} \/ (run'.v = want /\ want' = want) PROVE Aimed'
    BY <1>1 DEF Aimed
  <1>2. ASSUME NEW script \in Scripts, Begin(script) PROVE Aimed'
    <2>1. run'.pc \in {"migrate", "reconcile"}
      BY <1>2, IdleRun DEF Begin, Fields
    <2> QED
      BY <1>1, <2>1
  <1>3. CASE RecordUnseen
    <2>1. run'.v = want /\ want' = want
      BY <1>3 DEF RecordUnseen, Typed, Fields
    <2> QED
      BY <1>1, <2>1
  <1>4. CASE Unmatched \/ Compare \/ Infer
    <2>1. run'.pc \in {"plan", "infer", "migrate", "idle"}
      BY <1>4, IdleRun DEF Unmatched, Compare, Infer, Typed, Fields
    <2> QED
      BY <1>1, <2>1
  <1>5. CASE Greenfield
    <2>1. run'.pc \in {"idle", "reconcile"} \/ (run'.v = want /\ want' = want)
      BY <1>5, IdleRun DEF Greenfield, Typed, Fields, At
    <2> QED
      BY <1>1, <2>1
  <1>6. CASE Plan
    <2>1. run'.pc = "idle" \/ (run'.v = want /\ want' = want)
      BY <1>6, IdleRun DEF Plan, Typed, Fields
    <2> QED
      BY <1>1, <2>1
  <1>7. CASE Apply \/ Applied \/ SkipPush \/ Push
    <2>1. run.pc \in {"sql", "push"} /\ want' = want /\ (run'.pc = "idle" \/ run'.v = run.v)
      BY <1>7, IdleRun DEF Apply, Applied, SkipPush, Push, Typed, Fields, At
    <2> QED
      BY <1>1, <2>1 DEF Aimed
  <1>8. CASE PushRefused \/ Record \/ WriteBundle \/ Kill
    BY <1>1, <1>8, IdleRun DEF PushRefused, Record, WriteBundle, Kill
  <1>9. CASE Wipe
    <2>1. run'.pc = "write"
      BY <1>9, IdleRun DEF Wipe, Fields
    <2> QED
      BY <1>1, <2>1
  <1>10. CASE MigrateByHand \/ \E v \in Version : Change(v)
    BY <1>1, <1>10 DEF MigrateByHand, Change, At
  <1>11. CASE UNCHANGED vars
    BY <1>11 DEF vars, Aimed
  <1> QED
    BY <1>2, <1>3, <1>4, <1>5, <1>6, <1>7, <1>8, <1>9, <1>10, <1>11 DEF Next, Step

\* There is nothing to do between a schema and itself.
LEMMA NothingToDo ==
    ASSUME NEW s, Snapshot(s)
    PROVE  Operations(s, s) = {}
  <1>1. EnumOperations(s.enum, s.enum) = {}
    BY DEF EnumOperations
  <1>2. TableOperations(s, s) = {}
    BY DEF TableOperations
  <1> QED
    BY <1>1, <1>2 DEF Operations

\* The tables of a settled database are those of its snapshot, and pushing the
\* same Prisma schema again makes no difference.
LEMMA SettledTables ==
    ASSUME IInv, Settled
    PROVE  Tables(live) = Tables(current) /\ current # Absent
  <1>1. current = Wanted[want] /\ want \in Version /\ current # Absent
    BY Parts DEF Settled, IInv, Typed
  <1>2. ASSUME NEW t \in Table PROVE live.tables[t] = Absent <=> Wanted[want].tables[t] = Absent
    <2> DEFINE strip(x) == [p \in Part |-> IF PartKind[p] = "uniqueIndex" THEN Absent ELSE x[p]]
    <2>1. Prisma(want)[t] = IF live.tables[t] = Absent THEN Absent ELSE strip(live.tables[t])
      BY DEF Settled
    <2>2. Prisma(want)[t] = IF Wanted[want].tables[t] = Absent THEN Absent ELSE strip(Wanted[want].tables[t])
      BY DEF Prisma
    <2>3. ASSUME NEW x \in TableSchema PROVE strip(x) # Absent
      <3>1. strip(x) \in TableSchema
        BY <2>3 DEF TableSchema
      <3> QED
        BY <3>1, Parts
    <2>4. live.tables[t] \in TableSchema \cup {Absent} /\ Wanted[want].tables[t] \in TableSchema \cup {Absent}
      BY <1>1, Parts DEF IInv, Typed
    <2> HIDE DEF strip
    <2> QED
      BY <2>1, <2>2, <2>3, <2>4
  <1> QED
    BY <1>1, <1>2 DEF Tables

LEMMA PrismaTwice ==
    ASSUME NEW v \in Version
    PROVE  Prisma(v) = [t \in Table |-> IF Prisma(v)[t] = Absent THEN Absent ELSE
               [p \in Part |-> IF PartKind[p] = "uniqueIndex" THEN Absent ELSE Prisma(v)[t][p]]]
  <1>1. ASSUME NEW t \in Table
        PROVE  Prisma(v)[t] = IF Prisma(v)[t] = Absent THEN Absent ELSE
                   [p \in Part |-> IF PartKind[p] = "uniqueIndex" THEN Absent ELSE Prisma(v)[t][p]]
    BY DEF Prisma
  <1> QED
    BY <1>1 DEF Prisma

\* A guess at a settled database is the snapshot that was there.
LEMMA SettledGuess ==
    ASSUME IInv, Settled, NEW seen, Look(seen), Inferable(seen)
    PROVE  Inferred(seen) = current
  <1>1. current = Wanted[want] /\ want \in Version /\ Snapshot(current)
    BY Parts DEF Settled, IInv, Typed
  <1>2. seen = Tables(current)
    BY SettledTables DEF Look, Inferable
  <1>3. [t \in Table |-> IF t \in seen THEN Wanted[want].tables[t] ELSE Absent] = Wanted[want].tables
    BY <1>1, <1>2 DEF Tables, Snapshot, TablesType
  <1>4. Wanted[want] \in Schema
    BY <1>1, LifecycleAssumption
  <1> QED
    BY <1>1, <1>3, <1>4 DEF Inferred, Schema

LEMMA SettledStep ==
    ASSUME IInv, Aimed, Next, Settled, want' = want, bundle' = bundle
    PROVE  Settled'
  <1> USE DEF IInv
  <1>1. ASSUME UNCHANGED <<live, current>> PROVE Settled'
    BY <1>1 DEF Settled
  <1>2. Tables(live) = Tables(current) /\ current # Absent
    BY SettledTables
  <1>3. want \in Version /\ Snapshot(current)
    BY <1>2 DEF Typed
  <1>4. CASE Infer
    BY <1>1, <1>4, SettledGuess DEF Infer
  <1>5. CASE Apply
    <2>1. run.todo \subseteq Operations(run.from, run.to) /\ run.from = current
      BY <1>2, <1>5 DEF Apply, Past
    <2>2. run.to = current
      BY <1>5 DEF Apply, Past, Aimed, At, Settled
    <2> QED
      BY <1>3, <1>5, <2>1, <2>2, NothingToDo DEF Apply
  <1>6. CASE Push
    <2>1. live'.tables = Prisma(want) /\ current' = current
      BY <1>6 DEF Push, Settled
    <2> QED
      BY <1>3, <2>1, PrismaTwice DEF Settled
  <1>7. CASE Record
    <2>1. current' = Wanted[want] /\ live' = live
      BY <1>7 DEF Record, Past, Aimed, At
    <2> QED
      BY <2>1 DEF Settled
  <1>8. CASE MigrateByHand
    BY <1>8 DEF MigrateByHand, Settled, Prisma
  <1>9. CASE Wipe
    BY <1>9, <1>3, Parts DEF Wipe, Settled
  <1> QED
    BY <1>1, <1>4, <1>5, <1>6, <1>7, <1>8, <1>9
       DEF Next, Step, Begin, RecordUnseen, Unmatched, Compare, Greenfield, Plan, Applied, SkipPush,
           PushRefused, WriteBundle, Change, Kill

\* Once workspace, scripts, snapshot and database agree, no script that runs,
\* is killed or looks at a database that does not answer takes them apart,
\* wherever the snapshot lies.
THEOREM SettledDatabasesStay == Spec => SettledStays
  <1>1. IInv /\ Aimed /\ [Next]_vars => Aimed'
    BY AimedPreserved
  <1>2. IInv /\ Aimed /\ [Next]_vars =>
          [Settled /\ want' = want /\ bundle' = bundle => Settled']_vars
    BY SettledStep
  <1> QED
    BY Start, Preserved, AimedStart, <1>1, <1>2, PTL DEF Spec, SettledStays
-----------------------------------------------------------------------------
\* Before a migration is planned its snapshot has the tables of the database,
\* and the statements of the plan keep fitting while they run.
Fit ==
    /\ current # Absent => Tables(current) # {}
    /\ At("plan") => Tables(current) = Tables(live)
    /\ MigrationsFit

LEMMA FitStart == Init => Fit
  BY IdleRun DEF Init, Fit, MigrationsFit, At

\* The tables of a guess are those that were seen.
LEMMA GuessedTables ==
    ASSUME want \in Version, NEW seen, Inferable(seen)
    PROVE  Tables(Inferred(seen)) = seen
  <1>1. seen \subseteq Tables(Wanted[want])
    BY DEF Inferable
  <1>2. Wanted[want] \in Schema
    BY LifecycleAssumption
  <1>3. Inferred(seen).tables = [t \in Table |-> IF t \in seen THEN Wanted[want].tables[t] ELSE Absent]
    BY <1>2 DEF Inferred, Schema
  <1> QED
    BY <1>1, <1>3 DEF Tables

\* A plan from a snapshot that has the tables of the database fits it.
LEMMA PlanFits ==
    ASSUME NEW from, NEW to, NEW l, Snapshot(from), Snapshot(to), Tables(from) = Tables(l), NEW t \in Table
    PROVE  /\ CreateTable(t) \in Operations(from, to) => l.tables[t] = Absent
           /\ \A p \in Part : AddPart(t, p) \in Operations(from, to) =>
                 l.tables[t] # Absent \/ CreateTable(t) \in Operations(from, to)
  <1>1. ASSUME CreateTable(t) \in Operations(from, to) PROVE t \notin Tables(from)
    <2>1. PICK u \in Tables(to) \ Tables(from) : CreateTable(t) = CreateTable(u)
      BY <1>1, OperationKinds DEF CreateTable, AddPart
    <2> QED
      BY <2>1 DEF CreateTable
  <1>2. ASSUME NEW p \in Part, AddPart(t, p) \in Operations(from, to) PROVE t \in Tables(to)
    <2>1. PICK u \in Tables(to), q \in Part : AddPart(t, p) = AddPart(u, q)
      BY <1>2, OperationKinds DEF CreateTable, AddPart
    <2> QED
      BY <2>1 DEF AddPart
  <1>3. ASSUME t \in Tables(to) \ Tables(from) PROVE CreateTable(t) \in Operations(from, to)
    BY <1>3 DEF Operations, TableOperations
  <1> QED
    BY <1>1, <1>2, <1>3 DEF Tables

\* A statement leaves the tables it is not about alone, and what it is about is there.
LEMMA StatementTables ==
    ASSUME NEW from, NEW to, NEW s, Snapshot(from), Snapshot(to), Snapshot(s),
           NEW op \in Operations(from, to), ~Fails(s, op), NEW t \in Table
    PROVE  /\ s.tables[t] # Absent => After(s, op, to).tables[t] # Absent
           /\ s.tables[t] = Absent /\ op # CreateTable(t) => After(s, op, to).tables[t] = Absent
           /\ op = CreateTable(t) => After(s, op, to).tables[t] # Absent
  <1>1. CASE op.type \in {"create_enum", "add_value"}
    BY <1>1 DEF After, CreateTable, Snapshot
  <1>2. ASSUME NEW u \in Tables(to) \ Tables(from), op = CreateTable(u)
        PROVE  /\ u \in Table
               /\ \E table : table # Absent /\ After(s, op, to).tables = [s.tables EXCEPT ![u] = table]
    <2> DEFINE table == [p \in Part |-> IF PartKind[p] \in InTable THEN to.tables[u][p] ELSE Absent]
    <2>1. u \in Table /\ to.tables[u] \in TableSchema
      BY DEF Tables, Snapshot, TablesType
    <2>2. table \in TableSchema
      BY <2>1 DEF TableSchema
    <2>3. op.type = "create_table" /\ op.table = u
      BY <1>2 DEF CreateTable
    <2>4. After(s, op, to).tables = [s.tables EXCEPT ![u] = table]
      BY <2>3 DEF After, TablesAfter, Snapshot
    <2> QED
      BY <2>1, <2>2, <2>4, Parts
  <1>3. ASSUME NEW u \in Tables(to), NEW q \in Part, op = AddPart(u, q), Has(to, u, q)
        PROVE  /\ u \in Table /\ s.tables[u] # Absent
               /\ \E table : table # Absent /\ After(s, op, to).tables = [s.tables EXCEPT ![u] = table]
    <2> DEFINE table == [s.tables[u] EXCEPT ![q] = to.tables[u][q]]
    <2>1. u \in Table /\ to.tables[u] \in TableSchema
      BY DEF Tables, Snapshot, TablesType
    <2>2. op.type = "add_part" /\ op.table = u /\ op.part = q
      BY <1>3 DEF AddPart
    <2>3. s.tables[u] \in TableSchema /\ s.tables[u] # Absent
      BY <2>1, <2>2 DEF Fails, Snapshot, TablesType
    <2>4. table \in TableSchema
      BY <2>1, <2>3 DEF TableSchema
    <2>5. After(s, op, to).tables = [s.tables EXCEPT ![u] = table]
      BY <2>2 DEF After, TablesAfter, Snapshot
    <2> QED
      BY <2>1, <2>3, <2>4, <2>5, Parts
  <1>4. CASE \E u \in Tables(to) \ Tables(from) : op = CreateTable(u)
    <2>1. PICK u \in Tables(to) \ Tables(from) : op = CreateTable(u)
      BY <1>4
    <2>2. PICK table : table # Absent /\ After(s, op, to).tables = [s.tables EXCEPT ![u] = table]
      BY <1>2, <2>1
    <2>3. op = CreateTable(t) <=> t = u
      BY <2>1 DEF CreateTable
    <2> QED
      BY <2>2, <2>3 DEF Snapshot, TablesType
  <1>5. CASE \E u \in Tables(to), q \in Part : op = AddPart(u, q) /\ Has(to, u, q)
    <2>1. PICK u \in Tables(to), q \in Part : op = AddPart(u, q) /\ Has(to, u, q)
      BY <1>5
    <2>2. /\ s.tables[u] # Absent
          /\ \E table : table # Absent /\ After(s, op, to).tables = [s.tables EXCEPT ![u] = table]
      BY <1>3, <2>1
    <2>3. op # CreateTable(t)
      BY <2>1 DEF AddPart, CreateTable
    <2> QED
      BY <2>2, <2>3 DEF Snapshot, TablesType
  <1> QED
    BY <1>1, <1>4, <1>5, OperationKinds

\* Every step leaves statements that fit: a look that was answered, or a guess
\* of what was seen, comes before the plan.
LEMMA FitPreserved ==
    ASSUME \A v \in Version : Tables(Wanted[v]) # {}, IInv, Fit, [Next]_vars
    PROVE  Fit'
  <1> USE DEF IInv
  <1>1. ASSUME current' = Absent \/ current' = current \/ Tables(current') # {},
               run'.pc \notin {"plan", "sql"}
        PROVE  Fit'
    BY <1>1 DEF Fit, MigrationsFit, At
  <1>2. ASSUME NEW script \in Scripts, Begin(script) PROVE Fit'
    <2>1. run'.pc \in {"migrate", "reconcile"}
      BY <1>2, IdleRun DEF Begin, Fields
    <2> QED
      BY <1>1, <1>2, <2>1 DEF Begin
  <1>3. CASE RecordUnseen \/ Unmatched
    <2>1. run'.pc \in {"push", "infer"} /\ current' = current
      BY <1>3 DEF RecordUnseen, Unmatched, Typed, Fields
    <2> QED
      BY <1>1, <2>1
  <1>4. CASE Greenfield
    <2>1. /\ current' = current
          /\ run'.pc \in {"idle", "reconcile"} \/ (run'.pc = "sql" /\ current = Absent)
      BY <1>4, IdleRun DEF Greenfield, Typed, Fields, Past, At
    <2>2. CASE run'.pc = "sql" /\ current = Absent
      BY <2>1, <2>2 DEF Fit, MigrationsFit, At
    <2> QED
      BY <1>1, <2>1, <2>2
  <1>5. CASE Compare
    <2>1. /\ current' = current /\ live' = live /\ current # Absent
          /\ run'.pc = "infer" \/ (run'.pc = "plan" /\ Look(Tables(current)))
      BY <1>5 DEF Compare, Typed, Fields, Past, At
    <2>2. CASE run'.pc = "plan" /\ Look(Tables(current))
      BY <2>1, <2>2 DEF Fit, MigrationsFit, Look, Tables, At
    <2> QED
      BY <1>1, <2>1, <2>2
  <1>6. CASE Infer
    <2>1. CASE run' = Idle /\ UNCHANGED <<current, suspect>>
      BY <1>1, <2>1, IdleRun
    <2>2. ASSUME NEW seen \in SUBSET Table, Look(seen), Inferable(seen), current' = Inferred(seen),
                 run'.pc \in {"plan", "migrate"}
          PROVE  Fit'
      <3>1. Tables(current') = seen /\ seen = Tables(live) /\ seen # {} /\ live' = live
        <4>1. Tables(Inferred(seen)) = seen
          BY <2>2, GuessedTables DEF Typed
        <4> QED
          BY <1>6, <2>2, <4>1 DEF Look, Inferable, Infer
      <3> QED
        BY <2>2, <3>1 DEF Fit, MigrationsFit, Tables, At
    <2>3. ASSUME NEW seen \in SUBSET Table, Look(seen), Inferable(seen), current' = Inferred(seen),
                 run' = [run EXCEPT !.script = "migrate",
                                    !.pc = IF run.script = "migrate" THEN "plan" ELSE "migrate"]
          PROVE  Fit'
      BY <2>2, <2>3 DEF Typed, Fields
    <2> QED
      BY <1>6, <2>1, <2>3 DEF Infer
  <1>7. CASE Plan
    <2>1. CASE run' = Idle
      BY <1>1, <1>7, <2>1, IdleRun DEF Plan
    <2>2. CASE run' = [run EXCEPT !.pc = "sql", !.from = current, !.to = Wanted[want], !.v = want,
                               !.guess = suspect, !.todo = Operations(current, Wanted[want])]
      <3>1. run'.pc = "sql" /\ run'.todo = Operations(current, Wanted[want]) /\ live' = live /\ current' = current
        BY <1>7, <2>2 DEF Plan, Typed, Fields
      <3>2. Snapshot(current) /\ Snapshot(Wanted[want]) /\ Tables(current) = Tables(live)
        BY <1>7, Parts DEF Plan, Past, Typed, Fit, At
      <3> QED
        BY <3>1, <3>2, PlanFits DEF Fit, MigrationsFit, At
    <2> QED
      BY <1>7, <2>1, <2>2 DEF Plan
  <1>8. CASE Apply
    <2>1. PICK op \in run.todo :
             IF Fails(live, op) THEN run' = Idle /\ UNCHANGED live
             ELSE live' = After(live, op, run.to) /\ run' = [run EXCEPT !.todo = @ \ {op}]
      BY <1>8 DEF Apply
    <2>2. CASE Fails(live, op)
      BY <1>1, <1>8, <2>1, <2>2, IdleRun DEF Apply
    <2>3. CASE ~Fails(live, op)
      <3>1. /\ run'.pc = run.pc /\ At("sql") /\ run'.todo = run.todo \ {op} /\ current' = current
            /\ live' = After(live, op, run.to)
        BY <1>8, <2>1, <2>3 DEF Apply, Typed, Fields
      <3>2. op \in Operations(run.from, run.to) /\ Snapshot(run.from) /\ Snapshot(run.to) /\ Snapshot(live)
        BY <3>1 DEF Past, Typed
      <3>3. ASSUME current # Absent, NEW t \in Table
            PROVE  /\ CreateTable(t) \in run'.todo => live'.tables[t] = Absent
                   /\ \A p \in Part : AddPart(t, p) \in run'.todo =>
                         live'.tables[t] # Absent \/ CreateTable(t) \in run'.todo
        <4>1. /\ CreateTable(t) \in run.todo => live.tables[t] = Absent
              /\ \A p \in Part : AddPart(t, p) \in run.todo =>
                    live.tables[t] # Absent \/ CreateTable(t) \in run.todo
          BY <3>1, <3>3 DEF Fit, MigrationsFit
        <4>2. /\ live.tables[t] # Absent => live'.tables[t] # Absent
              /\ live.tables[t] = Absent /\ op # CreateTable(t) => live'.tables[t] = Absent
              /\ op = CreateTable(t) => live'.tables[t] # Absent
          BY <2>3, <3>1, <3>2, StatementTables
        <4> QED
          BY <3>1, <4>1, <4>2
      <3> QED
        BY <3>1, <3>3 DEF Fit, MigrationsFit, At
    <2> QED
      BY <2>2, <2>3
  <1>9. CASE Applied \/ SkipPush \/ Push
    <2>1. run'.pc \in {"push", "record"} /\ current' = current
      BY <1>9 DEF Applied, SkipPush, Push, Typed, Fields
    <2> QED
      BY <1>1, <2>1
  <1>10. CASE PushRefused \/ WriteBundle \/ Kill
    BY <1>1, <1>10, IdleRun DEF PushRefused, WriteBundle, Kill
  <1>11. CASE Record
    <2>1. run' = Idle /\ current' = Wanted[run.v] /\ run.v \in Version
      BY <1>11 DEF Record, Past, Typed, At
    <2> QED
      BY <1>1, <2>1, IdleRun
  <1>12. CASE Wipe
    <2>1. run'.pc = "write" /\ (current' = Absent \/ current' = current)
      BY <1>12, IdleRun DEF Wipe, Fields
    <2> QED
      BY <1>1, <2>1
  <1>13. ASSUME NEW v \in Version, Change(v) PROVE Fit'
    BY <1>13 DEF Change, Fit, MigrationsFit, At
  <1>14. CASE MigrateByHand
    <2>1. run' = run /\ At("idle") /\ current' = Wanted[want] /\ want \in Version
      BY <1>14 DEF MigrateByHand, Typed
    <2> QED
      BY <1>1, <2>1 DEF At
  <1>15. CASE UNCHANGED vars
    BY <1>15 DEF vars, Fit, MigrationsFit, At
  <1> QED
    BY <1>2, <1>3, <1>4, <1>5, <1>6, <1>7, <1>8, <1>9, <1>10, <1>11, <1>12, <1>13, <1>14, <1>15 DEF Next, Step

\* Whatever kills, pushes of other versions and unanswered looks have left: a
\* migration creates no table that is there, and extends none that is not there
\* and not about to be.  (A schema without tables cannot be told from a database
\* that does not answer.)
THEOREM MigrationsFitTheDatabase ==
    ASSUME \A v \in Version : Tables(Wanted[v]) # {}
    PROVE  Spec => []MigrationsFit
  <1>1. IInv /\ Fit /\ [Next]_vars => Fit'
    BY FitPreserved
  <1>2. Fit => MigrationsFit
    BY DEF Fit
  <1> QED
    BY Start, Preserved, FitStart, <1>1, <1>2, PTL DEF Spec
-----------------------------------------------------------------------------
(* Enums *)

\* A value that is in a sequence has a position there.
LEMMA PositionOf ==
    ASSUME NEW q, NEW v \in Values(q)
    PROVE  Position(q, v) \in 1..Len(q) /\ q[Position(q, v)] = v
  BY DEF Position, Values

\* The least and the greatest of a set of positions.
LEMMA NearestOf ==
    ASSUME NEW T, T \subseteq Nat, T # {}
    PROVE  Nearest(T) \in T /\ \A m \in T : Nearest(T) <= m
  BY LeastMember DEF Nearest

\* Two sequences behind each other.
LEMMA Joined ==
    ASSUME NEW S, NEW a \in Seq(S), NEW b \in Seq(S)
    PROVE  /\ a \o b \in Seq(S) /\ Len(a \o b) = Len(a) + Len(b)
           /\ Len(a) \in Nat /\ Len(b) \in Nat
           /\ \A k \in 1..Len(a) : (a \o b)[k] = a[k]
           /\ \A k \in 1..Len(b) : (a \o b)[Len(a) + k] = b[k]
  OBVIOUS

\* One element more, at position p.
Inserted(more, q, p, v) ==
    /\ Len(more) = Len(q) + 1
    /\ more[p] = v
    /\ \A k \in 1..Len(q) : IF k < p THEN more[k] = q[k] ELSE more[k + 1] = q[k]

\* A value put at a place stands there; what was there and behind moves on.
LEMMA PutInserts ==
    ASSUME NEW S, NEW q \in Seq(S), NEW p \in 1..(Len(q) + 1), NEW v \in S
    PROVE  Put(q, p, v) \in Seq(S) /\ Inserted(Put(q, p, v), q, p, v)
  <1> DEFINE front == SubSeq(q, 1, p - 1)
             back == SubSeq(q, p, Len(q))
             one == <<v>>
  <1>1. Len(q) \in Nat /\ p \in Nat /\ p >= 1 /\ p <= Len(q) + 1
    <2>1. Len(q) \in Nat
      OBVIOUS
    <2> QED
      BY <2>1
  <1>2. front \in Seq(S) /\ Len(front) = p - 1 /\ \A k \in 1..(p - 1) : front[k] = q[k]
    BY <1>1
  <1>3. back \in Seq(S) /\ Len(back) = Len(q) - p + 1
        /\ \A k \in 1..(Len(q) - p + 1) : back[k] = q[p + k - 1]
    BY <1>1
  <1>4. one \in Seq(S) /\ Len(one) = 1 /\ one[1] = v
    OBVIOUS
  <1>5. Put(q, p, v) = front \o one \o back
    BY DEF Put
  <1> HIDE DEF front, back, one
  <1>6. front \o one \in Seq(S) /\ Len(front \o one) = p /\ (front \o one)[p] = v
        /\ \A k \in 1..(p - 1) : (front \o one)[k] = q[k]
    <2>1. /\ front \o one \in Seq(S) /\ Len(front \o one) = Len(front) + Len(one)
          /\ \A k \in 1..Len(front) : (front \o one)[k] = front[k]
          /\ \A k \in 1..Len(one) : (front \o one)[Len(front) + k] = one[k]
      <3>1. front \in Seq(S) /\ one \in Seq(S)
        BY <1>2, <1>4
      <3>2. front \o one \in Seq(S)
        BY <3>1, Joined
      <3>3. Len(front \o one) = Len(front) + Len(one)
        BY <3>1, Joined
      <3>4. \A k \in 1..Len(front) : (front \o one)[k] = front[k]
        BY <3>1, Joined
      <3>5. \A k \in 1..Len(one) : (front \o one)[Len(front) + k] = one[k]
        BY <3>1, Joined
      <3> QED
        BY <3>2, <3>3, <3>4, <3>5
    <2>2. (front \o one)[Len(front) + 1] = v
      BY <1>4, <2>1
    <2> QED
      BY <1>1, <1>2, <1>4, <2>1, <2>2
  <1> DEFINE left == front \o one
  <1>7. Put(q, p, v) = left \o back
    BY <1>5
  <1>8. left \in Seq(S) /\ Len(left) = p /\ left[p] = v /\ \A k \in 1..(p - 1) : left[k] = q[k]
    BY <1>6
  <1> HIDE DEF left
  <1> DEFINE more == left \o back
  <1>9. /\ more \in Seq(S) /\ Len(more) = Len(q) + 1
        /\ \A k \in 1..p : more[k] = left[k]
        /\ \A k \in 1..Len(back) : more[p + k] = back[k]
    BY <1>1, <1>3, <1>8, Joined
  <1> HIDE DEF more
  <1>11. more[p] = v
    BY <1>1, <1>8, <1>9
  <1>12. ASSUME NEW k \in 1..Len(q)
         PROVE  IF k < p THEN more[k] = q[k] ELSE more[k + 1] = q[k]
    <2>1. CASE k < p
      BY <1>1, <1>8, <1>9, <2>1
    <2>2. CASE ~(k < p)
      <3>1. (k + 1) - p \in 1..(Len(q) - p + 1) /\ p + ((k + 1) - p) - 1 = k
            /\ p + ((k + 1) - p) = k + 1
        BY <1>1, <2>2
      <3>2. back[(k + 1) - p] = q[k] /\ more[k + 1] = back[(k + 1) - p]
        BY <1>3, <1>9, <3>1
      <3> QED
        BY <2>2, <3>2
    <2> QED
      BY <2>1, <2>2
  <1> QED
    BY <1>7, <1>9, <1>11, <1>12 DEF Inserted, more

\* A value appended stands behind all others.
LEMMA AppendInserts ==
    ASSUME NEW S, NEW q \in Seq(S), NEW v \in S
    PROVE  Append(q, v) \in Seq(S) /\ Inserted(Append(q, v), q, Len(q) + 1, v)
  <1>1. Len(q) \in Nat
    OBVIOUS
  <1>2. Append(q, v) \in Seq(S) /\ Len(Append(q, v)) = Len(q) + 1 /\ Append(q, v)[Len(q) + 1] = v
        /\ \A k \in 1..Len(q) : Append(q, v)[k] = q[k]
    OBVIOUS
  <1> QED
    BY <1>1, <1>2 DEF Inserted

\* The values of a sequence over a set are in the set.
LEMMA ValuesIn ==
    ASSUME NEW S, NEW q \in Seq(S)
    PROVE  Values(q) \subseteq S
  BY DEF Values

\* What a statement that does not fail does to the enum: it creates it, leaves
\* it alone, or puts a value of the next schema at some place.
LEMMA EnumStatement ==
    ASSUME NEW from \in Schema, NEW to \in Schema, NEW s \in Schema,
           NEW op \in Operations(from, to), ~Fails(s, op)
    PROVE  /\ After(s, op, to).enum \in Seq(Value)
           /\ \/ op.type \notin {"create_enum", "add_value"} /\ After(s, op, to).enum = s.enum
              \/ op.type = "create_enum" /\ op.values = to.enum /\ from.enum = <<>>
                    /\ After(s, op, to).enum = IF s.enum = <<>> THEN to.enum ELSE s.enum
              \/ op.type = "add_value" /\ op.value \in Values(to.enum) /\ from.enum # <<>>
                    /\ op.value \in Values(s.enum) /\ After(s, op, to).enum = s.enum
              \/ /\ op.type = "add_value" /\ op.value \in Values(to.enum) /\ from.enum # <<>>
                 /\ op.value \notin Values(s.enum)
                 /\ \E p \in 1..(Len(s.enum) + 1) :
                       /\ Inserted(After(s, op, to).enum, s.enum, p, op.value)
                       /\ op.at.before # Absent => p = Position(s.enum, op.at.before)
  <1>1. /\ from.enum \in Seq(Value) /\ to.enum \in Seq(Value) /\ s.enum \in Seq(Value)
        /\ DOMAIN s = {"tables", "enum"} /\ Len(s.enum) \in Nat
    BY DEF Schema
  <1>2. CASE op \in TableOperations(from, to)
    <2>1. op.type \notin {"create_enum", "add_value"}
      BY <1>2 DEF TableOperations, CreateTable, AddPart
    <2>2. After(s, op, to).enum = s.enum
      BY <1>1, <2>1 DEF After
    <2> QED
      BY <1>1, <2>1, <2>2
  <1>3. CASE op \in EnumOperations(from.enum, to.enum) /\ from.enum = <<>>
    <2>1. op.type = "create_enum" /\ op.values = to.enum
      BY <1>3 DEF EnumOperations
    <2>2. After(s, op, to).enum = IF s.enum = <<>> THEN to.enum ELSE s.enum
      BY <1>1, <2>1 DEF After, EnumAfter
    <2> QED
      BY <1>1, <1>3, <2>1, <2>2
  <1>4. CASE op \in EnumOperations(from.enum, to.enum) /\ from.enum # <<>>
    <2>1. op.type = "add_value" /\ op.value \in Values(to.enum) /\ op.value \in Value
      BY <1>1, <1>4, ValuesIn DEF EnumOperations
    <2>2. After(s, op, to).enum = EnumAfter(s, op)
      BY <1>1, <2>1 DEF After
    <2>3. CASE op.value \in Values(s.enum)
      BY <1>1, <1>4, <2>1, <2>2, <2>3 DEF EnumAfter
    <2>4. ASSUME op.value \notin Values(s.enum)
          PROVE  /\ EnumAfter(s, op) \in Seq(Value)
                 /\ \E p \in 1..(Len(s.enum) + 1) :
                       /\ Inserted(EnumAfter(s, op), s.enum, p, op.value)
                       /\ op.at.before # Absent => p = Position(s.enum, op.at.before)
      <3>1. /\ op.at.before # Absent => op.at.before \in Values(s.enum)
            /\ op.at.after # Absent => op.at.after \in Values(s.enum)
        BY <2>1, <2>4 DEF Fails
      <3>2. CASE op.at.before # Absent
        <4>1. Position(s.enum, op.at.before) \in 1..(Len(s.enum) + 1)
          BY <1>1, <3>1, <3>2, PositionOf
        <4>2. EnumAfter(s, op) = Put(s.enum, Position(s.enum, op.at.before), op.value)
          BY <2>1, <2>4, <3>2 DEF EnumAfter
        <4> QED
          BY <1>1, <2>1, <4>1, <4>2, PutInserts
      <3>3. CASE op.at.before = Absent /\ op.at.after # Absent
        <4>1. Position(s.enum, op.at.after) + 1 \in 1..(Len(s.enum) + 1)
          BY <1>1, <3>1, <3>3, PositionOf
        <4>2. EnumAfter(s, op) = Put(s.enum, Position(s.enum, op.at.after) + 1, op.value)
          BY <2>1, <2>4, <3>3 DEF EnumAfter
        <4> QED
          BY <1>1, <2>1, <3>3, <4>1, <4>2, PutInserts
      <3>4. CASE op.at.before = Absent /\ op.at.after = Absent
        <4>1. EnumAfter(s, op) = Append(s.enum, op.value) /\ Len(s.enum) + 1 \in 1..(Len(s.enum) + 1)
          BY <1>1, <2>1, <2>4, <3>4 DEF EnumAfter
        <4> QED
          BY <1>1, <2>1, <3>4, <4>1, AppendInserts
      <3> QED
        BY <3>2, <3>3, <3>4
    <2> QED
      BY <1>4, <2>1, <2>2, <2>3, <2>4
  <1> QED
    BY <1>2, <1>3, <1>4 DEF Operations

\* A statement that does not fail leaves a schema.
LEMMA StatementTyped ==
    ASSUME NEW from \in Schema, NEW to \in Schema, NEW s \in Schema,
           NEW op \in Operations(from, to), ~Fails(s, op)
    PROVE  After(s, op, to) \in Schema
  <1>1. Snapshot(from) /\ Snapshot(to) /\ Snapshot(s)
    BY DEF Schema, Snapshot, TablesType
  <1>2. Snapshot(After(s, op, to))
    BY <1>1, StatementMakes DEF Made
  <1>3. After(s, op, to).enum \in Seq(Value)
    BY EnumStatement
  <1>4. After(s, op, to) = [s EXCEPT !.enum = EnumAfter(s, op)]
        \/ After(s, op, to) = [s EXCEPT !.tables = TablesAfter(s, op, to)]
    BY DEF After
  <1> QED
    BY <1>2, <1>3, <1>4 DEF Schema, Snapshot, TablesType

\* What Prisma makes of the enum is an enum.
LEMMA PushTyped ==
    ASSUME live \in Schema, NEW v \in Version
    PROVE  [tables |-> Prisma(v), enum |-> PushedEnum(v)] \in Schema
  <1> DEFINE next == Wanted[v].enum
             missing == {n \in 1..Len(next) : next[n] \notin Values(live.enum)}
  <1>1. live.enum \in Seq(Value) /\ next \in Seq(Value)
    BY LifecycleAssumption DEF Schema
  <1>2. Kept(next, missing) \in Seq(Value)
    <2>1. missing \subseteq 1..Len(next)
      OBVIOUS
    <2> HIDE DEF missing
    <2> QED
      BY <1>1, <2>1, KeptPicks
  <1> HIDE DEF missing
  <1>3. live.enum \o Kept(next, missing) \in Seq(Value)
    BY <1>1, <1>2, Joined
  <1>4. PushedEnum(v) \in Seq(Value)
    BY <1>1, <1>3 DEF PushedEnum, missing
  <1> QED
    BY <1>4, Parts DEF Schema, TablesType

\* Every snapshot is a schema, and there are statements only while they run.
Schemas ==
    /\ live \in Schema /\ current \in Schema \cup {Absent}
    /\ run.from \in Schema /\ run.to \in Schema /\ run.start \in Schema
    /\ ~At("sql") => run.todo = {}

\* The empty database, the versions and what is guessed of them are schemas.
LEMMA SomeSchemas ==
    /\ NoTables \in Schema /\ Idle.todo = {} /\ Idle.start = NoTables
    /\ Absent \notin Schema
    /\ \A v \in Version : Wanted[v] \in Schema
    /\ want \in Version => \A seen : Inferred(seen) \in Schema
  <1>1. NoTables \in Schema
    BY DEF NoTables, Schema
  <1>2. ASSUME want \in Version, NEW seen
        PROVE  Inferred(seen) \in Schema
    <2>1. Wanted[want] \in Schema
      BY <1>2, LifecycleAssumption
    <2>2. [t \in Table |-> IF t \in seen THEN Wanted[want].tables[t] ELSE Absent] \in [Table -> TableSchema \cup {Absent}]
      BY <2>1 DEF Schema
    <2> QED
      BY <2>1, <2>2 DEF Inferred, Schema
  <1> QED
    BY <1>1, <1>2, LifecycleAssumption DEF Idle

\* At the start the database is empty and nothing runs.
LEMMA SchemasStart == Init => Schemas
  BY SomeSchemas, IdleRun DEF Init, Schemas

\* Every step leaves schemas, and statements only while they run.
LEMMA SchemasPreserved ==
    ASSUME IInv, Schemas, [Next]_vars
    PROVE  Schemas'
  <1> USE DEF IInv
  <1>1. ASSUME run' = Idle, live' \in Schema, current' \in Schema \cup {Absent} PROVE Schemas'
    BY <1>1, SomeSchemas, IdleRun DEF Schemas, At
  <1>2. ASSUME NEW script \in Scripts, Begin(script) PROVE Schemas'
    <2>1. /\ run'.from = NoTables /\ run'.to = NoTables /\ run'.start = live /\ run'.todo = {}
      BY <1>2, SomeSchemas, IdleRun DEF Begin, Fields
    <2> QED
      BY <1>2, <2>1, SomeSchemas DEF Begin, Schemas
  <1>3. CASE RecordUnseen
    <2>1. /\ run'.from = run.from /\ run'.to = Wanted[want] /\ run'.start = run.start /\ run'.todo = run.todo
      BY <1>3 DEF RecordUnseen, Typed, Fields
    <2> QED
      BY <1>3, <2>1, SomeSchemas DEF RecordUnseen, Schemas, At, Typed
  <1>4. CASE Unmatched \/ Compare \/ Infer
    <2>1. live' = live /\ ~At("sql")
      BY <1>4 DEF Unmatched, Compare, Infer, At
    <2>2. current' = current \/ current' \in Schema
      BY <1>4, SomeSchemas DEF Unmatched, Compare, Infer, Typed
    <2>3. \/ run' = Idle
          \/ /\ run'.from = run.from /\ run'.to = run.to /\ run'.start = run.start /\ run'.todo = run.todo
             /\ run'.pc # "sql"
      BY <1>4 DEF Unmatched, Compare, Infer, Typed, Fields
    <2> QED
      BY <1>1, <2>1, <2>2, <2>3 DEF Schemas, At
  <1>5. CASE Greenfield
    <2>1. /\ live' = live /\ current' = current /\ ~At("sql")
      BY <1>5 DEF Greenfield, At
    <2>2. \/ run' = Idle
          \/ /\ run'.from = run.from /\ run'.to = run.to /\ run'.start = run.start /\ run'.todo = run.todo
          \/ /\ run'.from = NoTables /\ run'.to = Wanted[want] /\ run'.start = run.start /\ run'.pc = "sql"
      BY <1>5 DEF Greenfield, Typed, Fields
    <2> QED
      BY <1>1, <2>1, <2>2, SomeSchemas DEF Schemas, At, Typed
  <1>6. CASE Plan
    <2>1. /\ live' = live /\ current' = current /\ current \in Schema
      BY <1>6 DEF Plan, Schemas, Past, At
    <2>2. \/ run' = Idle
          \/ /\ run'.from = current /\ run'.to = Wanted[want] /\ run'.start = run.start /\ run'.pc = "sql"
      BY <1>6 DEF Plan, Typed, Fields
    <2> QED
      BY <1>1, <2>1, <2>2, SomeSchemas DEF Schemas, At, Typed
  <1>7. CASE Apply
    <2>1. PICK op \in run.todo :
             IF Fails(live, op) THEN run' = Idle /\ UNCHANGED live
             ELSE live' = After(live, op, run.to) /\ run' = [run EXCEPT !.todo = @ \ {op}]
      BY <1>7 DEF Apply
    <2>2. CASE Fails(live, op)
      BY <1>1, <1>7, <2>1, <2>2 DEF Apply, Schemas
    <2>3. CASE ~Fails(live, op)
      <3>1. op \in Operations(run.from, run.to)
        BY <1>7 DEF Apply, Past
      <3>2. live' \in Schema
        BY <2>1, <2>3, <3>1, StatementTyped DEF Schemas
      <3>3. run'.from = run.from /\ run'.to = run.to /\ run'.start = run.start /\ run'.pc = run.pc
        BY <2>1, <2>3 DEF Typed, Fields
      <3> QED
        BY <1>7, <3>2, <3>3 DEF Apply, Schemas, At
    <2> QED
      BY <2>2, <2>3
  <1>8. CASE Applied \/ SkipPush
    <2>1. /\ run'.from = run.from /\ run'.to = run.to /\ run'.start = run.start /\ run'.todo = run.todo
          /\ run.todo = {} /\ live' = live /\ current' = current
      BY <1>8 DEF Applied, SkipPush, Typed, Fields, Schemas, At
    <2> QED
      BY <2>1 DEF Schemas
  <1>9. CASE Push
    <2>1. /\ run'.from = run.from /\ run'.to = run.to /\ run'.start = run.start /\ run'.todo = run.todo
          /\ run.todo = {} /\ current' = current
      BY <1>9 DEF Push, Typed, Fields, Schemas, At
    <2>2. live' \in Schema
      BY <1>9, PushTyped DEF Push, Typed, Past, Schemas, At
    <2> QED
      BY <2>1, <2>2 DEF Schemas
  <1>10. CASE PushRefused \/ Record \/ WriteBundle \/ Kill
    BY <1>1, <1>10 DEF PushRefused, Record, WriteBundle, Kill, Schemas
  <1>11. CASE Wipe
    <2>1. /\ run'.from = NoTables /\ run'.to = NoTables /\ run'.start = NoTables /\ run'.todo = {}
          /\ live' = live /\ (current' = Absent \/ current' = current)
      BY <1>11, IdleRun, SomeSchemas DEF Wipe, Fields
    <2> QED
      BY <2>1, SomeSchemas DEF Schemas
  <1>12. ASSUME NEW v \in Version, Change(v) PROVE Schemas'
    BY <1>12 DEF Change, Schemas, At
  <1>13. CASE MigrateByHand
    BY <1>13, SomeSchemas DEF MigrateByHand, Schemas, At, Typed
  <1>14. CASE UNCHANGED vars
    BY <1>14 DEF vars, Schemas, At
  <1> QED
    BY <1>2, <1>3, <1>4, <1>5, <1>6, <1>7, <1>8, <1>9, <1>10, <1>11, <1>12, <1>13, <1>14 DEF Next, Step

\* Database, snapshots and the running script keep their types: in particular
\* every enum stays a sequence of values, wherever statements put new ones.
THEOREM LifecycleTypeCorrect == Spec => []TypeOK
  <1>1. IInv /\ Schemas => TypeOK
    BY SomeSchemas DEF IInv, Typed, Past, Schemas, TypeOK, At
  <1>2. IInv /\ Schemas /\ [Next]_vars => Schemas'
    BY SchemasPreserved
  <1> QED
    BY Start, Preserved, SchemasStart, <1>1, <1>2, PTL DEF Spec
-----------------------------------------------------------------------------
(* The order of the enum *)

\* The value at n has one of the previous values at its place or behind it.
Fronted(next, prev, n) == \E k \in n..Len(next) : next[k] \in Values(prev)

\* Values that are both there stand as in the next schema, the later one being fronted.
Ordered(next, prev, found) ==
    \A m, n \in 1..Len(next) : \A i, j \in 1..Len(found) :
        m < n /\ Fronted(next, prev, n) /\ found[i] = next[m] /\ found[j] = next[n] => i < j

\* Behind a value that is missing, only previous ones are there.
InTurn(next, prev, found) ==
    \A m, n \in 1..Len(next) :
        m < n /\ next[m] \notin Values(found) => next[n] \in Values(prev) \/ next[n] \notin Values(found)

\* A value is there, or a statement adds it.
Adds(todo, next, found) ==
    \A n \in 1..Len(next) :
        next[n] \in Values(found) \/ \E op \in todo : op.type = "add_value" /\ op.value = next[n]

\* The enum of the database, while the statements for the next schema run.
Growing(next, prev, found, todo) ==
    /\ Once(found) /\ Values(prev) \subseteq Values(found)
    /\ Ordered(next, prev, found) /\ InTurn(next, prev, found) /\ Adds(todo, next, found)

\* The statements meet the database the script began with, and keep its enum in order.
EnumGrows ==
    /\ run.pc \in {"reconcile", "migrate", "infer", "plan"} => run.start = live
    /\ At("sql") /\ Once(run.to.enum) /\ Resumed(run.from.enum, run.start.enum, run.to.enum) =>
          IF run.from.enum = <<>>
            THEN \/ live.enum = run.to.enum
                 \/ live.enum = <<>> /\ \E op \in run.todo : op.type = "create_enum"
            ELSE Growing(run.to.enum, run.from.enum, live.enum, run.todo)

\* Where the elements of a sequence come from when one was inserted.
LEMMA InsertedFrom ==
    ASSUME NEW S, NEW q \in Seq(S), NEW more \in Seq(S), NEW p \in 1..(Len(q) + 1), NEW v \in S,
           Inserted(more, q, p, v)
    PROVE  /\ \A a \in 1..Len(more) :
                 \/ a = p /\ more[a] = v
                 \/ \E k \in 1..Len(q) : more[a] = q[k] /\ IF k < p THEN a = k ELSE a = k + 1
           /\ Values(more) = Values(q) \cup {v}
  <1>1. Len(q) \in Nat /\ p \in Nat /\ p >= 1 /\ p <= Len(q) + 1 /\ Len(more) = Len(q) + 1 /\ more[p] = v
    <2>1. Len(q) \in Nat
      OBVIOUS
    <2> QED
      BY <2>1 DEF Inserted
  <1>2. ASSUME NEW k \in 1..Len(q) PROVE IF k < p THEN more[k] = q[k] ELSE more[k + 1] = q[k]
    BY DEF Inserted
  <1>3. ASSUME NEW a \in 1..Len(more)
        PROVE  \/ a = p /\ more[a] = v
               \/ \E k \in 1..Len(q) : more[a] = q[k] /\ IF k < p THEN a = k ELSE a = k + 1
    <2>1. CASE a < p
      <3>1. a \in 1..Len(q)
        BY <1>1, <2>1
      <3> QED
        BY <1>2, <2>1, <3>1
    <2>2. CASE a > p
      <3>1. a - 1 \in 1..Len(q) /\ ~(a - 1 < p) /\ (a - 1) + 1 = a
        BY <1>1, <2>2
      <3>2. more[a] = q[a - 1]
        BY <1>2, <3>1
      <3> QED
        BY <3>1, <3>2
    <2>3. CASE a = p
      BY <1>1, <2>3
    <2> QED
      BY <1>1, <2>1, <2>2, <2>3
  <1>4. Values(more) \subseteq Values(q) \cup {v}
    BY <1>3 DEF Values
  <1>5. ASSUME NEW k \in 1..Len(q) PROVE q[k] \in Values(more)
    <2>1. k \in 1..Len(more) /\ k + 1 \in 1..Len(more)
      BY <1>1
    <2> QED
      BY <1>2, <2>1 DEF Values
  <1>6. v \in Values(more)
    <2>1. p \in 1..Len(more)
      BY <1>1
    <2> QED
      BY <1>1, <2>1 DEF Values
  <1>7. Values(q) \cup {v} \subseteq Values(more)
    BY <1>5, <1>6 DEF Values
  <1> QED
    BY <1>3, <1>4, <1>7

\* The first statement of a plan that is left adds the first value that is missing.
\* Put before the next previous value, it stands where the next schema has it.
LEMMA Grows ==
    ASSUME NEW next \in Seq(Value), NEW prev \in Seq(Value), NEW found \in Seq(Value),
           NEW more \in Seq(Value), NEW todo, NEW op \in todo,
           Once(next), prev # <<>>, Growing(next, prev, found, todo),
           op.type = "add_value",
           \A o \in todo : o.type = "add_value" => o \in EnumOperations(prev, next) /\ op.nth <= o.nth,
           op.value \notin Values(found),
           NEW p \in 1..(Len(found) + 1), Inserted(more, found, p, op.value),
           op.at.before # Absent => p = Position(found, op.at.before)
    PROVE  Growing(next, prev, more, todo \ {op})
  <1> DEFINE i == op.nth
             later == {n \in (i + 1)..Len(next) : next[n] \in Values(prev)}
  <1>1. Len(next) \in Nat /\ Len(found) \in Nat /\ p \in Nat /\ p >= 1
    OBVIOUS
  <1>2. /\ op.value \in Value /\ op.value \in Values(next) /\ op.value \notin Values(prev)
        /\ i = Position(next, op.value) /\ op.at = Placement(next, op.value, prev)
    <2>1. /\ op.value \in Values(next) /\ op.value \notin Values(prev)
          /\ i = Position(next, op.value) /\ op.at = Placement(next, op.value, prev)
      BY DEF EnumOperations
    <2> QED
      BY <2>1, ValuesIn
  <1>3. i \in 1..Len(next) /\ next[i] = op.value
    BY <1>2, PositionOf
  <1>4. \A n \in 1..Len(next) : next[n] = op.value => n = i
    BY <1>3 DEF Once
  <1>5. /\ Values(more) = Values(found) \cup {op.value}
        /\ \A a \in 1..Len(more) :
              \/ a = p /\ more[a] = op.value
              \/ \E k \in 1..Len(found) : more[a] = found[k] /\ IF k < p THEN a = k ELSE a = k + 1
    BY <1>2, InsertedFrom
  <1>6. \A k \in 1..Len(found) : found[k] # op.value
    BY DEF Values
  <1>7. \A n \in 1..Len(next) : n < i => next[n] \in Values(found)
    <2> SUFFICES ASSUME NEW n \in 1..Len(next), n < i, next[n] \notin Values(found) PROVE FALSE
      OBVIOUS
    <2>1. PICK o \in todo : o.type = "add_value" /\ o.value = next[n]
      BY DEF Growing, Adds
    <2>2. o \in EnumOperations(prev, next)
      BY <2>1
    <2>3. o.nth = Position(next, next[n]) /\ next[n] \in Values(next)
      BY <2>1, <2>2 DEF EnumOperations, Values
    <2>4. o.nth \in 1..Len(next) /\ next[o.nth] = next[n]
      BY <2>3, PositionOf
    <2>5. o.nth = n
      BY <2>4 DEF Once
    <2> QED
      BY <1>3, <2>1, <2>5
  <1>8. Once(more)
    <2> SUFFICES ASSUME NEW a \in 1..Len(more), NEW b \in 1..Len(more), more[a] = more[b] PROVE a = b
      BY DEF Once
    <2>1. CASE more[a] = op.value
      BY <1>5, <1>6, <2>1
    <2>2. CASE more[a] # op.value
      <3>1. PICK k \in 1..Len(found) : more[a] = found[k] /\ IF k < p THEN a = k ELSE a = k + 1
        BY <1>5, <2>2
      <3>2. PICK l \in 1..Len(found) : more[b] = found[l] /\ IF l < p THEN b = l ELSE b = l + 1
        BY <1>5, <2>2
      <3>3. k = l
        BY <3>1, <3>2 DEF Growing, Once
      <3> QED
        BY <3>1, <3>2, <3>3
    <2> QED
      BY <2>1, <2>2
  <1>9. Values(prev) \subseteq Values(more)
    BY <1>5 DEF Growing
  <1>10. InTurn(next, prev, more)
    <2> SUFFICES ASSUME NEW m \in 1..Len(next), NEW n \in 1..Len(next), m < n,
                        next[m] \notin Values(more), next[n] \notin Values(prev), next[n] \in Values(more)
                 PROVE  FALSE
      BY DEF InTurn
    <2>1. CASE n = i
      BY <1>5, <1>7, <2>1
    <2>2. CASE n # i
      <3>1. next[n] \in Values(found) /\ next[m] \notin Values(found)
        BY <1>4, <1>5, <2>2
      <3> QED
        BY <3>1 DEF Growing, InTurn
    <2> QED
      BY <2>1, <2>2
  <1>11. Adds(todo \ {op}, next, more)
    <2> SUFFICES ASSUME NEW n \in 1..Len(next), next[n] \notin Values(more)
                 PROVE  \E o \in todo \ {op} : o.type = "add_value" /\ o.value = next[n]
      BY DEF Adds
    <2>1. next[n] \notin Values(found) /\ next[n] # op.value
      BY <1>5
    <2> QED
      BY <2>1 DEF Growing, Adds
  <1>12. ASSUME Fronted(next, prev, i)
         PROVE  /\ Nearest(later) \in later /\ \A n \in later : Nearest(later) <= n
                /\ p \in 1..Len(found) /\ found[p] = next[Nearest(later)]
    <2>1. PICK k \in i..Len(next) : next[k] \in Values(prev)
      BY <1>12 DEF Fronted
    <2>2. k # i
      BY <1>2, <1>3, <2>1
    <2>3. k \in later /\ later \subseteq Nat
      BY <1>1, <1>3, <2>1, <2>2
    <2>4. Nearest(later) \in later /\ \A n \in later : Nearest(later) <= n
      <3> HIDE DEF later
      <3> QED
        BY <2>3, NearestOf
    <2>5. op.at.before = next[Nearest(later)]
      BY <1>2, <2>3 DEF Placement
    <2>6. next[Nearest(later)] \in Values(prev) /\ next[Nearest(later)] \in Value
      <3>1. next[Nearest(later)] \in Values(prev)
        BY <2>4
      <3> QED
        BY <3>1, ValuesIn
    <2>7. op.at.before # Absent /\ op.at.before \in Values(found)
      BY <2>5, <2>6, PartsAssumption DEF Growing
    <2> QED
      BY <2>4, <2>5, <2>7, PositionOf
  <1>13. Ordered(next, prev, more)
    <2> SUFFICES ASSUME NEW m \in 1..Len(next), NEW n \in 1..Len(next),
                        NEW a \in 1..Len(more), NEW b \in 1..Len(more),
                        m < n, Fronted(next, prev, n), more[a] = next[m], more[b] = next[n]
                 PROVE  a < b
      BY DEF Ordered
    <2>1. CASE m # i /\ n # i
      <3>1. PICK k \in 1..Len(found) : more[a] = found[k] /\ IF k < p THEN a = k ELSE a = k + 1
        BY <1>4, <1>5, <2>1
      <3>2. PICK l \in 1..Len(found) : more[b] = found[l] /\ IF l < p THEN b = l ELSE b = l + 1
        BY <1>4, <1>5, <2>1
      <3>3. k < l
        BY <3>1, <3>2 DEF Growing, Ordered
      <3> QED
        BY <1>1, <3>1, <3>2, <3>3
    <2>2. CASE n = i
      <3>1. m # i /\ more[a] # op.value
        BY <1>3, <1>4, <2>2
      <3>2. PICK k \in 1..Len(found) : more[a] = found[k] /\ IF k < p THEN a = k ELSE a = k + 1
        BY <1>5, <3>1
      <3>3. b = p
        BY <1>3, <1>5, <1>6, <2>2
      <3>4. /\ Nearest(later) \in (i + 1)..Len(next) /\ next[Nearest(later)] \in Values(prev)
            /\ p \in 1..Len(found) /\ found[p] = next[Nearest(later)]
        BY <1>12, <2>2
      <3> HIDE DEF later
      <3>5. Nearest(later) \in 1..Len(next) /\ m < Nearest(later)
        BY <1>1, <1>3, <2>2, <3>4
      <3>6. Fronted(next, prev, Nearest(later))
        BY <1>1, <3>4, <3>5 DEF Fronted
      <3>7. k < p
        BY <3>2, <3>4, <3>5, <3>6 DEF Growing, Ordered
      <3> QED
        BY <3>2, <3>3, <3>7
    <2>3. CASE m = i
      <3>1. Fronted(next, prev, i)
        BY <1>1, <1>3, <2>3 DEF Fronted
      <3>2. /\ Nearest(later) \in (i + 1)..Len(next) /\ \A l \in later : Nearest(later) <= l
            /\ next[Nearest(later)] \in Values(prev)
            /\ p \in 1..Len(found) /\ found[p] = next[Nearest(later)]
        BY <1>12, <3>1
      <3>3. a = p
        BY <1>3, <1>5, <1>6, <2>3
      <3>4. PICK l \in 1..Len(found) : more[b] = found[l] /\ IF l < p THEN b = l ELSE b = l + 1
        BY <1>3, <1>4, <1>5, <2>3
      <3>5. n >= Nearest(later)
        <4>1. next[n] \in Values(found) /\ next[i] \notin Values(found)
          BY <1>3, <3>4 DEF Values
        <4>2. next[n] \in Values(prev)
          BY <1>3, <2>3, <4>1 DEF Growing, InTurn
        <4>3. n \in later
          BY <1>1, <1>3, <2>3, <4>2
        <4> QED
          BY <3>2, <4>3
      <3>6. CASE n = Nearest(later)
        <4>1. l = p
          BY <3>2, <3>4, <3>6 DEF Growing, Once
        <4> QED
          BY <1>1, <3>3, <3>4, <4>1
      <3>7. CASE n > Nearest(later)
        <4>1. Nearest(later) \in 1..Len(next)
          BY <1>1, <1>3, <3>2
        <4>2. p < l
          BY <3>2, <3>4, <3>7, <4>1 DEF Growing, Ordered
        <4> QED
          BY <1>1, <3>3, <3>4, <4>2
      <3> QED
        BY <1>1, <1>3, <3>2, <3>5, <3>6, <3>7
    <2> QED
      BY <2>1, <2>2, <2>3
  <1> QED
    BY <1>8, <1>9, <1>10, <1>11, <1>13 DEF Growing

\* A plan begins with an enum that is ready for it.
LEMMA GrowthStarts ==
    ASSUME NEW next \in Seq(Value), NEW prev \in Seq(Value), NEW found \in Seq(Value), NEW todo,
           EnumOperations(prev, next) \subseteq todo,
           Once(next), prev # <<>>, Resumed(prev, found, next)
    PROVE  Growing(next, prev, found, todo)
  <1> DEFINE old == {n \in 1..Len(found) : found[n] \in Values(prev)}
             kept == {n \in 1..Len(next) : next[n] \in Values(found)}
  <1>1. Len(next) \in Nat /\ Len(found) \in Nat /\ Len(prev) \in Nat
    OBVIOUS
  <1>2. Kept(found, old) = prev /\ Kept(next, kept) = found
    BY DEF Resumed, OnlyInserted
  <1>3. old \subseteq 1..Len(found) /\ kept \subseteq 1..Len(next)
    OBVIOUS
  <1> HIDE DEF old, kept
  <1>4. PICK g \in [1..Len(prev) -> old] : \A k \in 1..Len(prev) : prev[k] = found[g[k]]
    <2>1. \E g \in [1..Len(Kept(found, old)) -> old] :
             /\ \A k \in 1..Len(Kept(found, old)) : Kept(found, old)[k] = found[g[k]]
             /\ \A j, k \in 1..Len(Kept(found, old)) : j < k => g[j] < g[k]
      BY <1>3, KeptPicks
    <2> QED
      BY <1>2, <2>1
  <1>5. PICK h \in [1..Len(found) -> kept] :
           /\ \A k \in 1..Len(found) : found[k] = next[h[k]]
           /\ \A j, k \in 1..Len(found) : j < k => h[j] < h[k]
    <2>1. \E h \in [1..Len(Kept(next, kept)) -> kept] :
             /\ \A k \in 1..Len(Kept(next, kept)) : Kept(next, kept)[k] = next[h[k]]
             /\ \A j, k \in 1..Len(Kept(next, kept)) : j < k => h[j] < h[k]
      BY <1>3, KeptPicks
    <2> QED
      BY <1>2, <2>1
  <1>6. Values(prev) \subseteq Values(found)
    <2> SUFFICES ASSUME NEW k \in 1..Len(prev) PROVE prev[k] \in Values(found)
      BY DEF Values
    <2>1. g[k] \in 1..Len(found)
      BY <1>3
    <2> QED
      BY <1>4, <2>1 DEF Values
  <1>7. \A k \in 1..Len(found) : h[k] \in 1..Len(next)
    BY <1>3
  <1>8. ASSUME NEW k \in 1..Len(found), NEW n \in 1..Len(next), found[k] = next[n] PROVE h[k] = n
    <2>1. h[k] \in 1..Len(next) /\ next[h[k]] = next[n]
      BY <1>5, <1>7, <1>8
    <2> QED
      BY <2>1 DEF Once
  <1>9. Once(found)
    <2> SUFFICES ASSUME NEW j \in 1..Len(found), NEW k \in 1..Len(found), found[j] = found[k] PROVE j = k
      BY DEF Once
    <2>1. h[j] = h[k]
      BY <1>5, <1>7 DEF Once
    <2>2. h[j] \in Nat /\ ~(j < k) /\ ~(k < j)
      BY <1>1, <1>5, <1>7, <2>1
    <2> QED
      BY <1>1, <2>2
  <1>10. Ordered(next, prev, found)
    <2> SUFFICES ASSUME NEW m \in 1..Len(next), NEW n \in 1..Len(next),
                        NEW j \in 1..Len(found), NEW k \in 1..Len(found),
                        m < n, found[j] = next[m], found[k] = next[n]
                 PROVE  j < k
      BY DEF Ordered
    <2>1. h[j] = m /\ h[k] = n
      BY <1>8
    <2>2. j # k /\ ~(k < j)
      BY <1>1, <1>5, <2>1
    <2> QED
      BY <1>1, <2>2
  <1>11. InTurn(next, prev, found)
    BY DEF Resumed, InTurn
  <1>12. Adds(todo, next, found)
    <2> SUFFICES ASSUME NEW n \in 1..Len(next), next[n] \notin Values(found)
                 PROVE  \E op \in todo : op.type = "add_value" /\ op.value = next[n]
      BY DEF Adds
    <2>1. next[n] \in Values(next) \ Values(prev)
      BY <1>6 DEF Values
    <2>2. [type |-> "add_value", value |-> next[n], at |-> Placement(next, next[n], prev),
           nth |-> Position(next, next[n])] \in EnumOperations(prev, next)
      BY <2>1 DEF EnumOperations
    <2> QED
      BY <2>2
  <1> QED
    BY <1>6, <1>9, <1>10, <1>11, <1>12 DEF Growing

\* At the start nothing runs.
LEMMA GrowsStart == Init => EnumGrows
  BY IdleRun DEF Init, EnumGrows, At

\* Every statement leaves the enum ready for the statements after it.
LEMMA GrowsPreserved ==
    ASSUME IInv, Schemas, EnumGrows, [Next]_vars
    PROVE  EnumGrows'
  <1> USE DEF IInv
  <1> DEFINE Resting == run'.pc \notin {"reconcile", "migrate", "infer", "plan", "sql"}
  <1>1. ASSUME Resting PROVE EnumGrows'
    BY <1>1 DEF EnumGrows, At
  <1>2. ASSUME run' = Idle PROVE EnumGrows'
    BY <1>1, <1>2, IdleRun
  <1>3. ASSUME NEW script \in Scripts, Begin(script) PROVE EnumGrows'
    <2>1. run'.start = live /\ run'.pc \in {"migrate", "reconcile"} /\ live' = live
      BY <1>3, IdleRun DEF Begin, Fields
    <2> QED
      BY <2>1 DEF EnumGrows, At
  <1>4. CASE Unmatched \/ Compare \/ Infer
    <2>1. live' = live /\ run.start = live
      BY <1>4 DEF Unmatched, Compare, Infer, At, EnumGrows
    <2>2. \/ run' = Idle
          \/ run'.start = run.start /\ run'.pc \in {"migrate", "infer", "plan"}
      BY <1>4 DEF Unmatched, Compare, Infer, Typed, Fields
    <2> QED
      BY <1>2, <2>1, <2>2 DEF EnumGrows, At
  <1>5. ASSUME run'.pc = "sql", run'.start = run.start, live' = live, run.start = live,
               live \in Schema, run'.from \in Schema, run'.to \in Schema,
               run'.todo = Operations(run'.from, run'.to)
        PROVE  EnumGrows'
    <2> DEFINE prev == run'.from.enum
               found == live.enum
               next == run'.to.enum
    <2>1. prev \in Seq(Value) /\ found \in Seq(Value) /\ next \in Seq(Value)
      BY <1>5 DEF Schema
    <2>2. EnumOperations(prev, next) \subseteq run'.todo
      BY <1>5 DEF Operations
    <2>3. ASSUME Once(next), Resumed(prev, found, next), prev # <<>> PROVE Growing(next, prev, found, run'.todo)
      BY <2>1, <2>2, <2>3, GrowthStarts
    <2>4. ASSUME Resumed(prev, found, next), prev = <<>>
          PROVE  \/ found = next
                 \/ found = <<>> /\ \E op \in run'.todo : op.type = "create_enum"
      <3>1. found = <<>>
        BY <2>4 DEF Resumed
      <3>2. CASE next # <<>>
        <4>1. [type |-> "create_enum", values |-> next] \in run'.todo
          BY <2>2, <2>4, <3>2 DEF EnumOperations
        <4> QED
          BY <3>1, <4>1
      <3> QED
        BY <3>1, <3>2
    <2> QED
      BY <1>5, <2>3, <2>4 DEF EnumGrows, At
  <1>6. CASE Greenfield
    <2>1. live' = live /\ run.start = live
      BY <1>6 DEF Greenfield, At, EnumGrows
    <2>2. \/ run' = Idle
          \/ run'.start = run.start /\ run'.pc = "reconcile"
          \/ /\ run'.from = NoTables /\ run'.to = Wanted[want] /\ run'.start = run.start /\ run'.pc = "sql"
             /\ run'.todo = Operations(NoTables, Wanted[want])
      BY <1>6 DEF Greenfield, Typed, Fields, At
    <2>3. NoTables \in Schema /\ Wanted[want] \in Schema
      BY SomeSchemas DEF Typed
    <2>4. CASE run'.start = run.start /\ run'.pc = "reconcile"
      BY <2>1, <2>4 DEF EnumGrows, At
    <2> QED
      BY <1>2, <1>5, <2>1, <2>2, <2>3, <2>4 DEF Schemas
  <1>7. CASE Plan
    <2>1. live' = live /\ run.start = live /\ current \in Schema
      BY <1>7 DEF Plan, At, EnumGrows, Schemas, Past
    <2>2. \/ run' = Idle
          \/ /\ run'.from = current /\ run'.to = Wanted[want] /\ run'.start = run.start /\ run'.pc = "sql"
             /\ run'.todo = Operations(current, Wanted[want])
      BY <1>7 DEF Plan, Typed, Fields
    <2>3. Wanted[want] \in Schema
      BY SomeSchemas DEF Typed
    <2> QED
      BY <1>2, <1>5, <2>1, <2>2, <2>3 DEF Schemas
  <1>8. CASE Apply
    <2>1. PICK op \in run.todo :
             /\ \A other \in run.todo : Rank(run.from, op) <= Rank(run.from, other)
             /\ IF Fails(live, op) THEN run' = Idle /\ UNCHANGED live
                ELSE live' = After(live, op, run.to) /\ run' = [run EXCEPT !.todo = @ \ {op}]
      BY <1>8 DEF Apply
    <2>2. CASE Fails(live, op)
      BY <1>2, <2>1, <2>2
    <2>3. CASE ~Fails(live, op)
      <3> DEFINE prev == run.from.enum
                 found == live.enum
                 next == run.to.enum
      <3>1. At("sql") /\ run.todo \subseteq Operations(run.from, run.to)
        BY <1>8 DEF Apply, Past
      <3>2. /\ run'.from = run.from /\ run'.to = run.to /\ run'.start = run.start /\ run'.pc = run.pc
            /\ run'.todo = run.todo \ {op} /\ live' = After(live, op, run.to)
        BY <2>1, <2>3 DEF Typed, Fields
      <3>3. prev \in Seq(Value) /\ found \in Seq(Value) /\ next \in Seq(Value)
        BY DEF Schemas, Schema
      <3>4. /\ live'.enum \in Seq(Value)
            /\ \/ op.type \notin {"create_enum", "add_value"} /\ live'.enum = found
               \/ op.type = "create_enum" /\ prev = <<>>
                     /\ live'.enum = IF found = <<>> THEN next ELSE found
               \/ op.type = "add_value" /\ prev # <<>>
                     /\ op.value \in Values(found) /\ live'.enum = found
               \/ /\ op.type = "add_value" /\ prev # <<>> /\ op.value \notin Values(found)
                  /\ \E p \in 1..(Len(found) + 1) :
                        /\ Inserted(live'.enum, found, p, op.value)
                        /\ op.at.before # Absent => p = Position(found, op.at.before)
        <4>1. /\ run.from \in Schema /\ run.to \in Schema /\ live \in Schema
              /\ op \in Operations(run.from, run.to)
          BY <3>1 DEF Schemas
        <4> QED
          BY <2>3, <3>2, <4>1, EnumStatement
      <3>5. ASSUME Once(next), Resumed(prev, run.start.enum, next), prev = <<>>
            PROVE  \/ live'.enum = next
                   \/ live'.enum = <<>> /\ \E o \in run'.todo : o.type = "create_enum"
        <4>1. \/ found = next
              \/ found = <<>> /\ \E o \in run.todo : o.type = "create_enum"
          BY <3>1, <3>5 DEF EnumGrows
        <4> QED
          BY <3>2, <3>4, <3>5, <4>1
      <3>6. ASSUME Once(next), Resumed(prev, run.start.enum, next), prev # <<>>
            PROVE  Growing(next, prev, live'.enum, run'.todo)
        <4>1. Growing(next, prev, found, run.todo)
          BY <3>1, <3>6 DEF EnumGrows
        <4>2. CASE live'.enum = found /\ (op.type # "add_value" \/ op.value \in Values(found))
          <5>1. Adds(run.todo \ {op}, next, found)
            BY <4>1, <4>2 DEF Growing, Adds
          <5> QED
            BY <3>2, <4>1, <4>2, <5>1 DEF Growing
        <4>3. CASE op.type = "add_value" /\ op.value \notin Values(found)
          <5>1. PICK p \in 1..(Len(found) + 1) :
                   /\ Inserted(live'.enum, found, p, op.value)
                   /\ op.at.before # Absent => p = Position(found, op.at.before)
            BY <3>4, <4>3
          <5>2. \A o \in run.todo : o.type = "add_value" => o \in EnumOperations(prev, next) /\ op.nth <= o.nth
            <6> SUFFICES ASSUME NEW o \in run.todo, o.type = "add_value"
                         PROVE  o \in EnumOperations(prev, next) /\ op.nth <= o.nth
              OBVIOUS
            <6>1. o \in EnumOperations(prev, next)
              BY <3>1 DEF Operations, TableOperations, CreateTable, AddPart
            <6>2. Rank(run.from, op) = op.nth /\ Rank(run.from, o) = o.nth
              BY <4>3 DEF Rank
            <6> QED
              BY <2>1, <6>1, <6>2
          <5> DEFINE more == live'.enum
          <5>3. more \in Seq(Value)
            BY <3>4
          <5>4. Inserted(more, found, p, op.value) /\ (op.at.before # Absent => p = Position(found, op.at.before))
            BY <5>1
          <5> HIDE DEF more, found, prev, next
          <5>5. Growing(next, prev, more, run.todo \ {op})
            BY <3>3, <3>6, <4>1, <4>3, <5>2, <5>3, <5>4, Grows
          <5> QED
            BY <3>2, <5>5 DEF more
        <4> QED
          BY <3>4, <3>6, <4>2, <4>3
      <3> QED
        BY <3>1, <3>2, <3>5, <3>6 DEF EnumGrows, At
    <2> QED
      BY <2>2, <2>3
  <1>9. CASE RecordUnseen \/ Applied \/ SkipPush \/ Push \/ Wipe
    <2>1. Resting
      BY <1>9, IdleRun DEF RecordUnseen, Applied, SkipPush, Push, Wipe, Typed, Fields
    <2> QED
      BY <1>1, <2>1
  <1>10. CASE PushRefused \/ Record \/ WriteBundle \/ Kill
    BY <1>2, <1>10 DEF PushRefused, Record, WriteBundle, Kill
  <1>11. CASE MigrateByHand \/ \E v \in Version : Change(v)
    <2>1. Resting
      BY <1>11 DEF MigrateByHand, Change, At
    <2> QED
      BY <1>1, <2>1
  <1>12. CASE UNCHANGED vars
    BY <1>12 DEF vars, EnumGrows, At
  <1> QED
    BY <1>3, <1>4, <1>6, <1>7, <1>8, <1>9, <1>10, <1>11, <1>12 DEF Next, Step

\* When a plan is through, the order is that of the next schema: it is that of
\* every step before, of an attempt that was killed too.
THEOREM EnumsComeInOrder == Spec => EnumInOrder
  <1> DEFINE prev == run.from.enum
             found == live.enum
             next == run.to.enum
  <1>1. ASSUME IInv, Schemas, EnumGrows, [Next]_vars, At("sql"), run'.pc = "push",
               Once(next), Resumed(prev, run.start.enum, next),
               NEW m \in 1..Len(next), NEW n \in 1..Len(next), m < n,
               prev = <<>> \/ \E k \in n..Len(next) : next[k] \in Values(prev)
        PROVE  Position(found, next[m]) < Position(found, next[n])
    <2>1. run.todo = {}
      <3>1. ASSUME Apply PROVE FALSE
        <4>1. run' = Idle \/ run'.pc = run.pc
          BY <1>1, <3>1 DEF Apply, IInv, Typed, Fields
        <4> QED
          BY <1>1, <4>1, IdleRun DEF At
      <3>2. Applied
        BY <1>1, <3>1, IdleRun DEF Next, Step, RecordUnseen, Unmatched, Greenfield, Compare, Infer, Plan, SkipPush, Push,
             PushRefused, Record, WriteBundle, Kill, Wipe, MigrateByHand, Begin, Change, vars, At
      <3> QED
        BY <3>2 DEF Applied
    <2>2. CASE prev = <<>>
      <3>1. found = next
        BY <1>1, <2>1, <2>2 DEF EnumGrows
      <3>2. next[m] \in Values(found) /\ next[n] \in Values(found)
        BY <3>1 DEF Values
      <3>3. Position(found, next[m]) = m /\ Position(found, next[n]) = n
        BY <1>1, <3>1, <3>2, PositionOf DEF Once
      <3> QED
        BY <1>1, <3>3
    <2>3. CASE prev # <<>>
      <3>1. Growing(next, prev, found, {})
        BY <1>1, <2>1, <2>3 DEF EnumGrows
      <3>2. next[m] \in Values(found) /\ next[n] \in Values(found)
        BY <3>1 DEF Growing, Adds
      <3>3. /\ Position(found, next[m]) \in 1..Len(found) /\ found[Position(found, next[m])] = next[m]
            /\ Position(found, next[n]) \in 1..Len(found) /\ found[Position(found, next[n])] = next[n]
        BY <3>2, PositionOf
      <3>4. Fronted(next, prev, n)
        BY <1>1, <2>3 DEF Fronted
      <3> QED
        BY <1>1, <3>1, <3>3, <3>4 DEF Growing, Ordered
    <2> QED
      BY <2>2, <2>3
  <1> DEFINE Sorted == /\ At("sql") /\ run'.pc = "push"
                       /\ Once(next) /\ Resumed(prev, run.start.enum, next)
                       => \A m, n \in 1..Len(next) :
                             /\ m < n
                             /\ prev = <<>> \/ \E k \in n..Len(next) : next[k] \in Values(prev)
                             => Position(found, next[m]) < Position(found, next[n])
  <1>2. IInv /\ Schemas /\ EnumGrows /\ [Next]_vars => [Sorted]_vars
    BY <1>1
  <1>3. [][Sorted]_vars => EnumInOrder
    BY PTL DEF EnumInOrder
  <1>4. Spec => [](IInv /\ Schemas /\ EnumGrows)
    BY Start, Preserved, SchemasStart, SchemasPreserved, GrowsStart, GrowsPreserved, PTL DEF Spec
  <1> QED
    BY <1>2, <1>3, <1>4, PTL DEF Spec
=============================================================================
