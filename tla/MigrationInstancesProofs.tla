---------------------- MODULE MigrationInstancesProofs ----------------------
(***************************************************************************)
(* What the scripts carry over from one table to another is not lost on    *)
(* the way: to which process instance a flow node instance belongs is      *)
(* known at every statement, a correlation that correlation/01 filled      *)
(* agrees with a flow node instance of its own, for every dialect, and     *)
(* one that correlation/04 has been over has the state that follows from   *)
(* its flow node instances.                                                *)
(***************************************************************************)
EXTENDS MigrationRowsProofs, WellFoundedInduction

-----------------------------------------------------------------------------
(* What a statement does to some columns of the rows.                      *)

\* The values that a row has in some columns.
Values(row, columns) == [c \in columns \intersect DOMAIN row |-> row[c]]

\* Those of the rows that have a value in a column of their own.
ValuesOf(rows, columns, key) ==
  {Values(row, columns) : row \in {r \in ToSet(rows) : key \in DOMAIN r}}

ValuesIn(db, x, columns, key) == ValuesOf(RowsOf(db, x), columns, key)

\* A table that is not there has none.
LEMMA ValuesWhere ==
  ASSUME NEW db, NEW x, NEW columns, NEW key
  PROVE  /\ x \in DOMAIN db =>
              ValuesIn(db, x, columns, key) = ValuesOf(db[x].rows, columns, key)
         /\ x \notin DOMAIN db => ValuesIn(db, x, columns, key) = {}
<1>1. ToSet(<<>>) = {}
  BY DEF ToSet
<1> QED
  BY <1>1 DEF ValuesIn, RowsOf, Exists, ValuesOf

\* A table that is as it was has the same.
LEMMA ValuesSame ==
  ASSUME NEW db, NEW after, NEW x, NEW columns, NEW key,
         x \in DOMAIN after <=> x \in DOMAIN db,
         x \in DOMAIN db => after[x] = db[x]
  PROVE  ValuesIn(after, x, columns, key) = ValuesIn(db, x, columns, key)
BY ValuesWhere

\* Two rows agree on a set of columns.
Agree(a, b, columns) ==
  /\ columns \intersect DOMAIN a = columns \intersect DOMAIN b
  /\ \A c \in columns \intersect DOMAIN b : a[c] = b[c]

\* Rows that are changed one by one in other columns.
LEMMA ValuesOfMapped ==
  ASSUME NEW rows, NEW mapped, NEW columns, NEW key, DOMAIN mapped = DOMAIN rows,
         \A i \in DOMAIN rows : Agree(mapped[i], rows[i], columns \union {key})
  PROVE  ValuesOf(mapped, columns, key) = ValuesOf(rows, columns, key)
<1>1. \A i \in DOMAIN rows : /\ Values(mapped[i], columns) = Values(rows[i], columns)
                             /\ key \in DOMAIN mapped[i] <=> key \in DOMAIN rows[i]
  BY DEF Agree, Values
<1> QED
  BY <1>1 DEF ValuesOf, ToSet

\* The rows of a table whose rows are changed one by one.
LEMMA ChangedOneByOne ==
  ASSUME NEW db, NEW s,
         DOMAIN db[s.table] = {"columns", "unique", "indexes", "rows"}
  PROVE  /\ s.op = "addColumn" =>
              Changed(db, s).rows =
                [i \in DOMAIN db[s.table].rows |-> With(db[s.table].rows[i], s.column, s.default)]
         /\ s.op \in {"changeColumn", "addIndex"} => Changed(db, s).rows = db[s.table].rows
         /\ s.op = "removeColumn" =>
              Changed(db, s).rows =
                [i \in DOMAIN db[s.table].rows |-> Without(db[s.table].rows[i], s.column)]
         /\ s.op = "setCell" =>
              Changed(db, s).rows = [db[s.table].rows EXCEPT ![s.position][s.column] = s.value]
         /\ s.op = "fillFrom" =>
              Changed(db, s).rows =
                [i \in DOMAIN db[s.table].rows |-> Filled(db, s, db[s.table].rows[i])]
<1> DEFINE table == db[s.table]
           new == Changed(db, s)
<1>1. s.op = "addColumn" =>
        new = [table EXCEPT !.columns = With(@, s.column, s.type),
                 !.rows = [i \in DOMAIN @ |-> With(@[i], s.column, s.default)]]
  BY Zenon DEF Changed, MapRows
<1>2. s.op = "changeColumn" => new = [table EXCEPT !.columns[s.column] = s.type]
  BY Zenon DEF Changed, MapRows
<1>3. s.op = "removeColumn" =>
        new = [table EXCEPT !.columns = Without(@, s.column),
                 !.rows = [i \in DOMAIN @ |-> Without(@[i], s.column)]]
  BY Zenon DEF Changed, MapRows
<1>4. s.op = "addIndex" => new = [table EXCEPT !.indexes = @ \union {s.columns}]
  BY Zenon DEF Changed, MapRows
<1>5. s.op = "setCell" => new = [table EXCEPT !.rows[s.position][s.column] = s.value]
  BY Zenon DEF Changed, MapRows
<1>6. s.op = "fillFrom" => new = [table EXCEPT !.rows = [i \in DOMAIN @ |-> Filled(db, s, @[i])]]
  BY Zenon DEF Changed, MapRows
<1>7. DOMAIN table = {"columns", "unique", "indexes", "rows"}
  OBVIOUS
<1> HIDE DEF new, table
<1> QED
  BY <1>1, <1>2, <1>3, <1>4, <1>5, <1>6, <1>7 DEF new, table

\* A statement that changes nothing of some columns of a table.
Spares(s, x, columns) ==
  s.table = x =>
    /\ s.op \in {"addColumn", "removeColumn", "setCell"} => s.column \notin columns
    /\ s.op = "fillFrom" => DOMAIN s.assignments \intersect columns = {}
    /\ s.op # "insertRow"

\* Its rows agree on those columns with what they were.
LEMMA ChangedSpares ==
  ASSUME NEW db, NEW s, s.op \in ChangesTable, Exists(db, s.table), WellFormed(db),
         NEW columns, Spares(s, s.table, columns)
  PROVE  LET rows == db[s.table].rows
             changed == Changed(db, s).rows
         IN  /\ DOMAIN changed = DOMAIN rows
             /\ \A i \in DOMAIN rows : Agree(changed[i], rows[i], columns)
<1> DEFINE table == db[s.table]
           new == Changed(db, s)
<1>1. DOMAIN table = {"columns", "unique", "indexes", "rows"}
  <2>1. IsTable(table)
    BY DEF WellFormed, IsDatabase, Exists
  <2> QED
    BY <2>1, TableOf
<1>a. /\ s.op = "addColumn" =>
           new.rows = [i \in DOMAIN table.rows |-> With(table.rows[i], s.column, s.default)]
      /\ s.op \in {"changeColumn", "addIndex"} => new.rows = table.rows
      /\ s.op = "removeColumn" =>
           new.rows = [i \in DOMAIN table.rows |-> Without(table.rows[i], s.column)]
      /\ s.op = "setCell" =>
           new.rows = [table.rows EXCEPT ![s.position][s.column] = s.value]
      /\ s.op = "fillFrom" =>
           new.rows = [i \in DOMAIN table.rows |-> Filled(db, s, table.rows[i])]
  BY <1>1, ChangedOneByOne
<1> HIDE DEF table, new
<1>2. CASE s.op = "addColumn"
  <2>1. new.rows = [i \in DOMAIN table.rows |-> With(table.rows[i], s.column, s.default)]
    BY <1>a, <1>2
  <2>2. s.column \notin columns
    BY <1>2 DEF Spares
  <2> QED
    BY <2>1, <2>2 DEF Agree, With, table, new
<1>3. CASE s.op \in {"changeColumn", "addIndex"}
  <2>1. new.rows = table.rows
    BY <1>a, <1>3
  <2> QED
    BY <2>1 DEF Agree, table, new
<1>4. CASE s.op = "removeColumn"
  <2>1. new.rows = [i \in DOMAIN table.rows |-> Without(table.rows[i], s.column)]
    BY <1>a, <1>4
  <2>2. s.column \notin columns
    BY <1>4 DEF Spares
  <2> QED
    BY <2>1, <2>2 DEF Agree, Without, table, new
<1>5. CASE s.op = "setCell"
  <2>1. new.rows = [table.rows EXCEPT ![s.position][s.column] = s.value]
    BY <1>a, <1>5
  <2>2. s.column \notin columns
    BY <1>5 DEF Spares
  <2> QED
    BY <2>1, <2>2 DEF Agree, table, new
<1>6. CASE s.op = "fillFrom"
  <2>1. new.rows = [i \in DOMAIN table.rows |-> Filled(db, s, table.rows[i])]
    BY <1>a, <1>6
  <2>2. DOMAIN s.assignments \intersect columns = {}
    BY <1>6 DEF Spares
  <2>3. ASSUME NEW row PROVE Agree(Filled(db, s, row), row, columns)
    BY <2>2 DEF Filled, Agree
  <2> QED
    BY <2>1, <2>3 DEF table, new
<1>7. s.op # "insertRow"
  BY DEF Spares
<1> QED
  BY <1>2, <1>3, <1>4, <1>5, <1>6, <1>7 DEF ChangesTable

\* The rows of two sequences joined.
LEMMA ValuesJoined ==
  ASSUME NEW p, NEW q, IsSequence(p), IsSequence(q), NEW columns, NEW key
  PROVE  ValuesOf(p \o q, columns, key) =
           ValuesOf(p, columns, key) \union ValuesOf(q, columns, key)
<1> DEFINE r == p \o q
<1>1. ToSet(r) = ToSet(p) \union ToSet(q)
  BY Concatenated
<1> HIDE DEF r
<1>2. ValuesOf(r, columns, key) = ValuesOf(p, columns, key) \union ValuesOf(q, columns, key)
  BY ONLY <1>1 DEF ValuesOf
<1> QED
  BY <1>2 DEF r

\* What copied rows have in some columns: what they had, or nothing of them.
LEMMA ValuesCopied ==
  ASSUME NEW rows, NEW brought, NEW copied, NEW columns, NEW key,
         brought = [i \in DOMAIN rows |-> [c \in copied |-> rows[i][c]]],
         \A i \in DOMAIN rows : copied \subseteq DOMAIN rows[i],
         key \in copied => columns \subseteq copied
  PROVE  ValuesOf(brought, columns, key) =
           IF key \in copied THEN ValuesOf(rows, columns, key) ELSE {}
<1>1. CASE key \in copied
  <2>1. DOMAIN brought = DOMAIN rows
    OBVIOUS
  <2>2. \A i \in DOMAIN rows : Agree(brought[i], rows[i], columns \union {key})
    BY <1>1 DEF Agree
  <2> QED
    BY <1>1, <2>1, <2>2, ValuesOfMapped
<1>2. CASE key \notin copied
  <2>1. \A row \in ToSet(brought) : DOMAIN row = copied
    BY DEF ToSet
  <2> QED
    BY <1>2, <2>1 DEF ValuesOf
<1> QED
  BY <1>1, <1>2

\* What a statement that succeeds makes of the values of a table's rows.
Resulting(db, s, x, columns, key) ==
  IF s.op = "dropTable" /\ x = s.table THEN {}
  ELSE IF s.op = "renameTable" /\ x = s.table THEN {}
  ELSE IF s.op = "renameTable" /\ x = s.to THEN ValuesIn(db, s.table, columns, key)
  ELSE IF s.op = "copyRows" /\ x = s.to /\ key \in s.columns
       THEN ValuesIn(db, x, columns, key) \union ValuesIn(db, s.table, columns, key)
  ELSE ValuesIn(db, x, columns, key)

\* It does so in columns that it spares.
LEMMA ValuesBy ==
  ASSUME NEW db, NEW s, WellFormed(db), Allowed(s), Succeeds(db, s),
         NEW x, NEW columns, NEW key, Spares(s, x, columns \union {key}),
         s.op = "copyRows" /\ x = s.to /\ key \in s.columns => columns \subseteq s.columns
  PROVE  ValuesIn(After(db, s), x, columns, key) = Resulting(db, s, x, columns, key)
<1> SUFFICES ValuesIn(After(db, s), x, columns, key) =
           IF s.op = "dropTable" /\ x = s.table THEN {}
           ELSE IF s.op = "renameTable" /\ x = s.table THEN {}
           ELSE IF s.op = "renameTable" /\ x = s.to THEN ValuesIn(db, s.table, columns, key)
           ELSE IF s.op = "copyRows" /\ x = s.to /\ key \in s.columns
                THEN ValuesIn(db, x, columns, key) \union ValuesIn(db, s.table, columns, key)
           ELSE ValuesIn(db, x, columns, key)
  BY DEF Resulting
<1> DEFINE after == After(db, s)
<1>0. \A y \in DOMAIN db : /\ IsSequence(db[y].rows)
                           /\ DOMAIN db[y] = {"columns", "unique", "indexes", "rows"}
  <2> SUFFICES ASSUME NEW y \in DOMAIN db
               PROVE  /\ IsSequence(db[y].rows)
                      /\ DOMAIN db[y] = {"columns", "unique", "indexes", "rows"}
    OBVIOUS
  <2>1. IsTable(db[y])
    BY DEF WellFormed, IsDatabase
  <2> QED
    BY <2>1, TableOf DEF IsSequence
<1>1. CASE s.op \in {"describeTable", "select"}
  BY <1>1, AfterBy
<1>2. CASE s.op = "createTable"
  <2> DEFINE new == [columns |-> s.columns, unique |-> s.unique, indexes |-> {},
                     rows |-> <<>>]
  <2>1. after = IF Exists(db, s.table) THEN db ELSE With(db, s.table, new)
    BY <1>2, AfterBy
  <2>2. ValuesOf(new.rows, columns, key) = {}
    BY DEF ValuesOf, ToSet
  <2> HIDE DEF new
  <2>3. CASE x = s.table /\ ~Exists(db, s.table)
    <3>1. x \in DOMAIN after /\ after[x] = new /\ x \notin DOMAIN db
      BY <2>1, <2>3 DEF With, Exists
    <3> QED
      BY <1>2, <2>2, <3>1, ValuesWhere
  <2>4. CASE ~(x = s.table /\ ~Exists(db, s.table))
    <3>1. (x \in DOMAIN after <=> x \in DOMAIN db) /\ (x \in DOMAIN db => after[x] = db[x])
      BY <2>1, <2>4 DEF With, Exists
    <3> QED
      BY <1>2, <3>1, ValuesSame
  <2> QED
    BY <2>3, <2>4
<1>3. CASE s.op = "dropTable"
  <2>1. after = Without(db, s.table)
    BY <1>3, AfterBy
  <2>2. CASE x = s.table
    BY <1>3, <2>1, <2>2, ValuesWhere DEF Without
  <2>3. CASE x # s.table
    BY <1>3, <2>1, <2>3, ValuesSame DEF Without
  <2> QED
    BY <2>2, <2>3
<1>4. CASE s.op = "renameTable"
  <2>1. after = With(Without(db, s.table), s.to, db[s.table])
    BY <1>4, AfterBy
  <2>2. PICK u \in Rebuilt : s.table = TemporaryOf[u] /\ s.to = u
    BY <1>4 DEF Allowed
  <2>3. s.table \in DOMAIN db /\ s.to # s.table
    BY <1>4, <2>2, Names DEF Succeeds, Exists
  <2>4. CASE x = s.table
    <3>1. x \notin DOMAIN after
      BY <2>1, <2>3, <2>4 DEF With, Without
    <3> QED
      BY <1>4, <2>4, <3>1, ValuesWhere
  <2>5. CASE x = s.to
    <3>1. x \in DOMAIN after /\ after[x] = db[s.table]
      BY <2>1, <2>5 DEF With
    <3> QED
      BY <1>4, <2>3, <2>5, <3>1, ValuesWhere
  <2>6. CASE x # s.to /\ x # s.table
    <3>1. (x \in DOMAIN after <=> x \in DOMAIN db) /\ (x \in DOMAIN db => after[x] = db[x])
      BY <2>1, <2>6 DEF With, Without
    <3> QED
      BY <1>4, <2>6, <3>1, ValuesSame
  <2> QED
    BY <2>4, <2>5, <2>6
<1>5. CASE s.op = "copyRows"
  <2>1. PICK u \in Rebuilt : /\ s.table = u /\ s.to = TemporaryOf[u]
                             /\ s.columns = DOMAIN MigratedColumns[u]
    BY <1>5 DEF Allowed
  <2> DEFINE brought == [i \in DOMAIN db[s.table].rows |->
                           [c \in s.columns |-> db[s.table].rows[i][c]]]
  <2>2. after = [db EXCEPT ![s.to].rows = @ \o brought]
    BY <1>5, AfterBy
  <2>3. Exists(db, s.table) /\ HasColumns(db, s.table, s.columns)
        /\ HasColumns(db, s.to, s.columns)
    BY <1>5, AppliesBy DEF Succeeds
  <2>4. Exists(db, s.to)
    BY <2>1, <2>3, Migrated DEF HasColumns, HasColumn
  <2>5. CASE x = s.to
    <3>1. \A i \in DOMAIN db[s.table].rows : s.columns \subseteq DOMAIN db[s.table].rows[i]
      <4>1. IsTable(db[s.table])
        BY <2>3 DEF WellFormed, IsDatabase, Exists
      <4>2. \A i \in DOMAIN db[s.table].rows :
              DOMAIN db[s.table].rows[i] = Stored(db[s.table].columns)
        BY <4>1, TableOf
      <4>3. s.columns \subseteq DOMAIN db[s.table].columns
        BY <2>3 DEF HasColumns, HasColumn
      <4>4. "id" \notin s.columns
        BY <2>1, Migrated
      <4> QED
        BY <4>2, <4>3, <4>4 DEF Stored
    <3>2. ValuesOf(brought, columns, key) =
            IF key \in s.columns THEN ValuesOf(db[s.table].rows, columns, key) ELSE {}
      BY <1>5, <2>5, <3>1, ValuesCopied
    <3>3. IsSequence(brought)
      <4>1. db[s.table].rows \in Seq(ToSet(db[s.table].rows))
        BY <1>0, <2>3 DEF IsSequence, Exists
      <4> QED
        BY <4>1, MappedRows DEF IsSequence
    <3> HIDE DEF brought
    <3>4. after[x].rows = db[x].rows \o brought /\ x \in DOMAIN after /\ IsSequence(db[x].rows)
      BY <1>0, <2>2, <2>4, <2>5 DEF Exists
    <3>5. ValuesOf(after[x].rows, columns, key) =
            ValuesOf(db[x].rows, columns, key) \union ValuesOf(brought, columns, key)
      BY <3>3, <3>4, ValuesJoined
    <3> HIDE DEF after
    <3>6. /\ ValuesIn(after, x, columns, key) = ValuesOf(after[x].rows, columns, key)
          /\ ValuesIn(db, x, columns, key) = ValuesOf(db[x].rows, columns, key)
          /\ ValuesIn(db, s.table, columns, key) = ValuesOf(db[s.table].rows, columns, key)
      <4>1. x \in DOMAIN after /\ x \in DOMAIN db /\ s.table \in DOMAIN db
        BY <2>3, <2>4, <2>5, <3>4 DEF Exists
      <4> QED
        BY ONLY <4>1, ValuesWhere
    <3>7. ValuesIn(after, x, columns, key) =
            ValuesIn(db, x, columns, key) \union
              (IF key \in s.columns THEN ValuesIn(db, s.table, columns, key) ELSE {})
      BY <3>2, <3>5, <3>6
    <3> QED
      BY <1>5, <2>5, <3>7 DEF after
  <2>6. CASE x # s.to
    <3> HIDE DEF brought
    <3>1. DOMAIN after = DOMAIN db /\ (x \in DOMAIN db => after[x] = db[x])
      BY <2>2, <2>6
    <3> QED
      BY <1>5, <2>6, <3>1, ValuesSame
  <2> QED
    BY <2>5, <2>6
<1>6. CASE s.op \in ChangesTable
  <2> DEFINE new == Changed(db, s)
  <2>1. after = [db EXCEPT ![s.table] = new]
    BY <1>6, AfterBy
  <2>2. Exists(db, s.table)
    BY <1>6 DEF Succeeds, ChangesTable
  <2>3. CASE x = s.table
    <3>1. /\ DOMAIN new.rows = DOMAIN db[x].rows
          /\ \A i \in DOMAIN db[x].rows : Agree(new.rows[i], db[x].rows[i], columns \union {key})
      BY <1>6, <2>2, <2>3, ChangedSpares
    <3> HIDE DEF new
    <3>2. ValuesOf(new.rows, columns, key) = ValuesOf(db[x].rows, columns, key)
      BY <3>1, ValuesOfMapped
    <3>3. x \in DOMAIN after /\ after[x] = new
      BY <2>1, <2>2, <2>3 DEF Exists
    <3> QED
      BY <1>6, <2>2, <2>3, <3>2, <3>3, ValuesWhere DEF ChangesTable, Exists
  <2>4. CASE x # s.table
    <3> HIDE DEF new
    <3>1. DOMAIN after = DOMAIN db /\ (x \in DOMAIN db => after[x] = db[x])
      BY <2>1, <2>4
    <3> QED
      BY <1>6, <2>4, <3>1, ValuesSame DEF ChangesTable
  <2> QED
    BY <2>3, <2>4
<1> QED
  BY <1>1, <1>2, <1>3, <1>4, <1>5, <1>6 DEF Allowed, Operations

-----------------------------------------------------------------------------
(* The rows that name a process instance.                                  *)

Instances == "FlowNodeInstances"
NewInstances == "FlowNodeInstances_New"
Tokens == "ProcessTokens"
NewTokens == "processtokens_new"

\* The columns that are carried over together, or some of them.
CarriedColumns == {"flowNodeInstanceId", "processInstanceId", "correlationId", "identity"}

AreCarried(columns) ==
  /\ {"flowNodeInstanceId", "processInstanceId"} \subseteq columns
  /\ columns \subseteq CarriedColumns

\* What the rows of a table say of it.
Said(db, x, columns) == ValuesIn(db, x, columns, "processInstanceId")

AllSaid(db, columns) ==
  {said \in UNION {Said(db, x, columns) : x \in InstanceTables} :
     said.processInstanceId # ""}

\* The four tables.
LEMMA InstanceNames ==
  /\ InstanceTables = {Instances, NewInstances, Tokens, NewTokens}
  /\ Instances # NewInstances /\ Instances # Tokens /\ Instances # NewTokens
  /\ NewInstances # Tokens /\ NewInstances # NewTokens /\ Tokens # NewTokens
  /\ Instances \in Rebuilt /\ TemporaryOf[Instances] = NewInstances
  /\ Tokens \in Rebuilt /\ TemporaryOf[Tokens] = NewTokens
  /\ Instances \in LiveTables /\ Tokens \in LiveTables
  /\ NewInstances \notin LiveTables /\ NewTokens \notin LiveTables
  /\ Instances # Tasks /\ Tokens # Tasks
  /\ \A u \in Rebuilt : /\ TemporaryOf[u] = NewInstances => u = Instances
                        /\ TemporaryOf[u] = NewTokens => u = Tokens
                        /\ u \notin {Instances, Tokens} =>
                             u \notin InstanceTables /\ TemporaryOf[u] \notin InstanceTables
BY DEF InstanceTables, Instances, NewInstances, Tokens, NewTokens, Rebuilt, LiveTables,
       TemporaryOf, Tasks

\* The columns that flow_node_instance/02 copies of each table.
LEMMA CopiedColumns ==
  /\ CarriedColumns \subseteq DOMAIN MigratedColumns[Tokens]
  /\ "flowNodeInstanceId" \in DOMAIN MigratedColumns[Instances]
  /\ "processInstanceId" \notin DOMAIN MigratedColumns[Instances]
<1>1. MigratedColumns[Tokens] = MigratedTokenColumns
      /\ MigratedColumns[Instances] = MigratedInstanceColumns
  BY DEF MigratedColumns, Rebuilt, LiveTables, Tokens, Instances
<1>2. CarriedColumns \subseteq DOMAIN MigratedTokenColumns
  BY DEF CarriedColumns, MigratedTokenColumns, Typed, Timestamps
<1>3. "flowNodeInstanceId" \in DOMAIN MigratedInstanceColumns
      /\ "processInstanceId" \notin DOMAIN MigratedInstanceColumns
  BY DEF MigratedInstanceColumns, Typed, Timestamps
<1> QED
  BY <1>1, <1>2, <1>3

\* The temporary table of the flow node instances has no such column.
LEMMA NothingSaidYet ==
  ASSUME NEW db, WellFormed(db), NEW columns PROVE Said(db, NewInstances, columns) = {}
<1>1. CASE ~Exists(db, NewInstances)
  BY <1>1, ValuesWhere DEF Said, Exists
<1>2. CASE Exists(db, NewInstances)
  <2>1. db[NewInstances].columns = With(MigratedColumns[Instances], "id", "INTEGER")
    BY <1>2, InstanceNames DEF WellFormed, TemporaryFits
  <2>2. "processInstanceId" \notin DOMAIN db[NewInstances].columns
    BY <2>1, CopiedColumns DEF With
  <2>3. IsTable(db[NewInstances])
    BY <1>2 DEF WellFormed, IsDatabase, Exists
  <2>4. \A row \in ToSet(db[NewInstances].rows) : "processInstanceId" \notin DOMAIN row
    BY <2>2, <2>3, TableOf DEF Stored, ToSet
  <2> QED
    BY <1>2, <2>4, ValuesWhere DEF Said, Exists, ValuesOf
<1> QED
  BY <1>1, <1>2

\* A statement that may occur in any script but flow_node_instance/03.
Neutral(name, s) ==
  \/ s.op \in {"describeTable", "select", "changeColumn", "addIndex"}
  \/ s.table \notin InstanceTables
  \/ s.op = "addColumn" /\ s.column \notin CarriedColumns
  \/ /\ s.op = "createTable"
     /\ s.table \in {Instances, Tokens} => name = "flow_node_instance/00"
     /\ s.table \in {NewInstances, NewTokens} => name = "flow_node_instance/02"
  \/ /\ s.op \in {"copyRows", "renameTable", "dropTable"}
     /\ name = "flow_node_instance/02"
     /\ s.op = "dropTable" => s.table \in {Instances, Tokens}

\* What it does to what the tables say.
LEMMA SaidBy ==
  ASSUME NEW db, NEW s, WellFormed(db), Allowed(s), Succeeds(db, s),
         NEW name, Neutral(name, s), NEW columns, AreCarried(columns)
  PROVE  LET H(x) == Said(db, x, columns)
             N(x) == Said(After(db, s), x, columns)
         IN  \/ \A x \in InstanceTables : N(x) = H(x)
             \/ /\ s.op = "dropTable" /\ s.table \in {Instances, Tokens}
                /\ N(s.table) = {}
                /\ \A x \in InstanceTables \ {s.table} : N(x) = H(x)
             \/ /\ s.op = "renameTable" /\ s.table = NewTokens /\ s.to = Tokens
                /\ H(Tokens) = {} /\ N(Tokens) = H(NewTokens) /\ N(NewTokens) = {}
                /\ \A x \in InstanceTables \ {Tokens, NewTokens} : N(x) = H(x)
             \/ /\ s.op = "copyRows" /\ s.table = Tokens /\ s.to = NewTokens
                /\ N(NewTokens) = H(NewTokens) \union H(Tokens)
                /\ \A x \in InstanceTables \ {NewTokens} : N(x) = H(x)
<1> DEFINE H(x) == Said(db, x, columns)
           N(x) == Said(After(db, s), x, columns)
<1>1. ASSUME NEW x \in InstanceTables
      PROVE  /\ Spares(s, x, columns \union {"processInstanceId"})
             /\ s.op = "copyRows" /\ x = s.to /\ "processInstanceId" \in s.columns =>
                  columns \subseteq s.columns
  <2>1. s.table = x => s.op \notin {"removeColumn", "setCell", "fillFrom", "insertRow"}
                       /\ (s.op = "addColumn" => s.column \notin columns \union {"processInstanceId"})
    BY DEF Neutral, AreCarried
  <2>2. s.op = "copyRows" /\ x = s.to /\ "processInstanceId" \in s.columns =>
          columns \subseteq s.columns
    <3> SUFFICES ASSUME s.op = "copyRows", x = s.to, "processInstanceId" \in s.columns
                 PROVE  columns \subseteq s.columns
      OBVIOUS
    <3>1. PICK u \in Rebuilt : s.table = u /\ s.to = TemporaryOf[u]
                               /\ s.columns = DOMAIN MigratedColumns[u]
      BY DEF Allowed
    <3>2. u \in {Instances, Tokens}
      BY <3>1, InstanceNames
    <3> QED
      BY <3>1, <3>2, CopiedColumns DEF AreCarried
  <2> QED
    BY <2>1, <2>2 DEF Spares
<1>2. \A x \in InstanceTables : N(x) =
        IF s.op = "dropTable" /\ x = s.table THEN {}
        ELSE IF s.op = "renameTable" /\ x = s.table THEN {}
        ELSE IF s.op = "renameTable" /\ x = s.to THEN H(s.table)
        ELSE IF s.op = "copyRows" /\ x = s.to /\ "processInstanceId" \in s.columns
             THEN H(x) \union H(s.table)
        ELSE H(x)
  <2> SUFFICES ASSUME NEW x \in InstanceTables
               PROVE  N(x) = IF s.op = "dropTable" /\ x = s.table THEN {}
                             ELSE IF s.op = "renameTable" /\ x = s.table THEN {}
                             ELSE IF s.op = "renameTable" /\ x = s.to THEN H(s.table)
                             ELSE IF s.op = "copyRows" /\ x = s.to
                                     /\ "processInstanceId" \in s.columns
                                  THEN H(x) \union H(s.table)
                             ELSE H(x)
    OBVIOUS
  <2> DEFINE key == "processInstanceId"
  <2>1. /\ Spares(s, x, columns \union {key})
        /\ s.op = "copyRows" /\ x = s.to /\ key \in s.columns => columns \subseteq s.columns
    BY <1>1
  <2> HIDE DEF key
  <2>a. WellFormed(db) /\ Allowed(s) /\ Succeeds(db, s)
    OBVIOUS
  <2>2. ValuesIn(After(db, s), x, columns, key) = Resulting(db, s, x, columns, key)
    BY ONLY <2>1, <2>a, ValuesBy
  <2> QED
    BY <2>2 DEF Said, key, Resulting
<1>3. H(NewInstances) = {}
  BY NothingSaidYet
<1>4. s.op = "renameTable" => ~Exists(db, s.to)
  BY AppliesBy DEF Succeeds
<1>5. \A x : ~Exists(db, x) => H(x) = {}
  BY ValuesWhere DEF Said, Exists
<1>6. s.op = "renameTable" => \E u \in Rebuilt : s.table = TemporaryOf[u] /\ s.to = u
  BY DEF Allowed
<1>7. s.op = "copyRows" => \E u \in Rebuilt : /\ s.table = u /\ s.to = TemporaryOf[u]
                                              /\ s.columns = DOMAIN MigratedColumns[u]
  BY DEF Allowed
<1>8. s.op = "dropTable" => s.table \notin InstanceTables \/ s.table \in {Instances, Tokens}
  BY DEF Neutral
<1> HIDE DEF H, N
<1>9. CASE s.op \notin {"dropTable", "renameTable", "copyRows"}
  <2>1. \A x \in InstanceTables : N(x) = H(x)
    BY <1>2, <1>9
  <2> QED
    BY <2>1 DEF H, N
<1>10. CASE s.op = "dropTable"
  <2>1. CASE s.table \in {Instances, Tokens}
    <3>1. N(s.table) = {} /\ \A x \in InstanceTables \ {s.table} : N(x) = H(x)
      BY <1>2, <1>10, <2>1, InstanceNames
    <3> QED
      BY <1>10, <2>1, <3>1 DEF H, N
  <2>2. CASE s.table \notin InstanceTables
    <3>1. \A x \in InstanceTables : N(x) = H(x)
      BY <1>2, <1>10, <2>2
    <3> QED
      BY <3>1 DEF H, N
  <2>3. s.table \in {Instances, Tokens} \/ s.table \notin InstanceTables
    BY ONLY <1>8, <1>10
  <2> QED
    BY <2>1, <2>2, <2>3
<1>11. CASE s.op = "renameTable"
  <2>1. PICK u \in Rebuilt : s.table = TemporaryOf[u] /\ s.to = u
    BY <1>6, <1>11
  <2>2. H(s.to) = {}
    BY <1>4, <1>5, <1>11
  <2>3. CASE u = Tokens
    <3>1. s.table = NewTokens /\ s.to = Tokens
      BY <2>1, <2>3, InstanceNames
    <3>2. /\ H(Tokens) = {} /\ N(Tokens) = H(NewTokens) /\ N(NewTokens) = {}
          /\ \A x \in InstanceTables \ {Tokens, NewTokens} : N(x) = H(x)
      BY <1>2, <1>11, <2>2, <3>1, InstanceNames
    <3> QED
      BY <1>11, <3>1, <3>2 DEF H, N
  <2>4. CASE u = Instances
    <3>1. \A x \in InstanceTables : N(x) = H(x)
      BY <1>2, <1>3, <1>11, <2>1, <2>2, <2>4, InstanceNames
    <3> QED
      BY <3>1 DEF H, N
  <2>5. CASE u \notin {Instances, Tokens}
    <3>1. \A x \in InstanceTables : N(x) = H(x)
      BY <1>2, <1>11, <2>1, <2>5, InstanceNames
    <3> QED
      BY <3>1 DEF H, N
  <2> QED
    BY <2>3, <2>4, <2>5
<1>12. CASE s.op = "copyRows"
  <2>1. PICK u \in Rebuilt : /\ s.table = u /\ s.to = TemporaryOf[u]
                             /\ s.columns = DOMAIN MigratedColumns[u]
    BY <1>7, <1>12
  <2>2. CASE u = Tokens
    <3>1. s.table = Tokens /\ s.to = NewTokens /\ "processInstanceId" \in s.columns
      BY <2>1, <2>2, InstanceNames, CopiedColumns DEF CarriedColumns
    <3>2. /\ N(NewTokens) = H(NewTokens) \union H(Tokens)
          /\ \A x \in InstanceTables \ {NewTokens} : N(x) = H(x)
      BY <1>2, <1>12, <3>1, InstanceNames
    <3> QED
      BY <1>12, <3>1, <3>2 DEF H, N
  <2>3. CASE u # Tokens
    <3>1. s.to \in InstanceTables => "processInstanceId" \notin s.columns
      BY <2>1, <2>3, InstanceNames, CopiedColumns
    <3>2. ASSUME NEW x \in InstanceTables PROVE N(x) = H(x)
      <4>1. ~(x = s.to /\ "processInstanceId" \in s.columns)
        BY <3>1
      <4> QED
        BY <1>2, <1>12, <4>1
    <3> QED
      BY <3>2 DEF H, N
  <2> QED
    BY <2>2, <2>3
<1> QED
  BY <1>9, <1>10, <1>11, <1>12 DEF H, N

-----------------------------------------------------------------------------
(* What has to be so for a process instance to be carried over.            *)

\* The flow node instances that are stored.
Nodes(db) ==
  {kept[2].flowNodeInstanceId :
     kept \in {k \in KeptRows(db, Instances) : "flowNodeInstanceId" \in DOMAIN k[2]}}

\* What is left of an interrupted copy is still there, every token is that of a
\* flow node instance, and all rows of one say the same of it.
InPlace(db, columns) ==
  /\ Exists(db, Instances) =>
       KeptIn(db, Instances, NewInstances) \subseteq KeptIn(db, Instances, Instances)
  /\ \A said \in Said(db, Tokens, columns) \union Said(db, NewTokens, columns) :
       said.processInstanceId # "" /\ said.flowNodeInstanceId \in Nodes(db)
  /\ \A said \in AllSaid(db, columns) : DOMAIN said = columns
  /\ \A a, b \in AllSaid(db, columns) :
       a.flowNodeInstanceId = b.flowNodeInstanceId => a = b

\* It is so after a statement that keeps what the tables say.
LEMMA InPlaceAfter ==
  ASSUME NEW db, NEW after, NEW columns, InPlace(db, columns),
         KeptRows(after, Instances) = KeptRows(db, Instances),
         AllSaid(after, columns) = AllSaid(db, columns),
         Said(after, Tokens, columns) \union Said(after, NewTokens, columns)
           \subseteq Said(db, Tokens, columns) \union Said(db, NewTokens, columns),
         Exists(after, Instances) =>
           KeptIn(after, Instances, NewInstances) \subseteq KeptIn(after, Instances, Instances)
  PROVE  InPlace(after, columns)
BY DEF InPlace, Nodes

\* What is left of a copy of the flow node instances is one, whatever statement
\* comes next.
LEMMA LeftoverStays ==
  ASSUME NEW db, NEW s, WellFormed(db), Allowed(s), Succeeds(db, s),
         Exists(db, Instances) =>
           KeptIn(db, Instances, NewInstances) \subseteq KeptIn(db, Instances, Instances),
         s.op = "insertRow" => s.table \notin InstanceTables,
         s.op = "createTable" /\ s.table = Instances => ~Exists(db, NewInstances),
         Exists(After(db, s), Instances)
  PROVE  KeptIn(After(db, s), Instances, NewInstances)
           \subseteq KeptIn(After(db, s), Instances, Instances)
<1> DEFINE after == After(db, s)
           K(x) == KeptIn(db, Instances, x)
           N(x) == KeptIn(after, Instances, x)
<1>1. Instances \in PlacesOf(Instances) /\ NewInstances \in PlacesOf(Instances)
      /\ Instances \in LiveTables
  BY InstanceNames DEF PlacesOf
<1>2. \A x \in {Instances, NewInstances} :
        N(x) = IF s.op = "dropTable" /\ x = s.table THEN {}
               ELSE IF s.op = "renameTable" /\ x = s.table THEN {}
               ELSE IF s.op = "renameTable" /\ x = s.to THEN K(s.table)
               ELSE IF s.op = "copyRows" /\ x = s.to THEN K(x) \union K(s.table)
               ELSE IF s.op = "insertRow" /\ x = s.table
                    THEN K(x) \union {KeptRow(s.row, Instances)}
               ELSE K(x)
  BY <1>1, KeptBy
<1>3. Exists(after, Instances) <=>
        IF s.op = "createTable" THEN Exists(db, Instances) \/ Instances = s.table
        ELSE IF s.op = "dropTable" THEN Exists(db, Instances) /\ Instances # s.table
        ELSE IF s.op = "renameTable"
             THEN Instances = s.to \/ (Exists(db, Instances) /\ Instances # s.table)
        ELSE Exists(db, Instances)
  BY ExistsBy
<1>4. ~Exists(db, NewInstances) => K(NewInstances) = {}
  BY KeptWhere DEF Exists
<1>5. s.op = "renameTable" => \E u \in Rebuilt : s.table = TemporaryOf[u] /\ s.to = u
  BY DEF Allowed
<1>6. s.op = "copyRows" => \E u \in Rebuilt : s.table = u /\ s.to = TemporaryOf[u]
  BY DEF Allowed
<1>7. Exists(db, Instances) => K(NewInstances) \subseteq K(Instances)
  OBVIOUS
<1> HIDE DEF K, N
<1>8. CASE s.op = "createTable"
  <2>1. N(Instances) = K(Instances) /\ N(NewInstances) = K(NewInstances)
    BY <1>2, <1>8
  <2> QED
    BY <1>3, <1>4, <1>7, <1>8, <2>1 DEF N
<1>9. CASE s.op = "dropTable"
  <2>1. Exists(db, Instances) /\ s.table # Instances
    BY <1>3, <1>9
  <2>2. N(Instances) = K(Instances) /\ N(NewInstances) \subseteq K(NewInstances)
    BY <1>2, <1>9, <2>1
  <2> QED
    BY <1>7, <2>1, <2>2 DEF N
<1>10. CASE s.op = "renameTable"
  <2>1. PICK u \in Rebuilt : s.table = TemporaryOf[u] /\ s.to = u
    BY <1>5, <1>10
  <2>2. CASE u = Instances
    <3>1. N(NewInstances) = {}
      BY <1>2, <1>10, <2>1, <2>2, InstanceNames
    <3> QED
      BY <3>1 DEF N
  <2>3. CASE u # Instances
    <3>1. /\ s.table \notin {Instances, NewInstances} /\ s.to \notin {Instances, NewInstances}
      BY <2>1, <2>3, InstanceNames DEF InstanceTables, Rebuilt
    <3>2. N(Instances) = K(Instances) /\ N(NewInstances) = K(NewInstances)
      BY <1>2, <1>10, <3>1
    <3>3. Exists(db, Instances)
      BY <1>3, <1>10, <3>1
    <3> QED
      BY <1>7, <3>2, <3>3 DEF N
  <2> QED
    BY <2>2, <2>3
<1>11. CASE s.op = "copyRows"
  <2>1. PICK u \in Rebuilt : s.table = u /\ s.to = TemporaryOf[u]
    BY <1>6, <1>11
  <2>2. Exists(db, Instances)
    BY <1>3, <1>11
  <2>3. CASE u = Instances
    <3>1. N(Instances) = K(Instances) /\ N(NewInstances) = K(NewInstances) \union K(Instances)
      BY <1>2, <1>11, <2>1, <2>3, InstanceNames
    <3> QED
      BY <1>7, <2>2, <3>1 DEF N
  <2>4. CASE u # Instances
    <3>1. s.to \notin {Instances, NewInstances}
      BY <2>1, <2>4, InstanceNames DEF InstanceTables, Rebuilt
    <3>2. N(Instances) = K(Instances) /\ N(NewInstances) = K(NewInstances)
      BY <1>2, <1>11, <3>1
    <3> QED
      BY <1>7, <2>2, <3>2 DEF N
  <2> QED
    BY <2>3, <2>4
<1>12. CASE s.op \notin {"createTable", "dropTable", "renameTable", "copyRows"}
  <2>1. Exists(db, Instances)
    BY <1>3, <1>12
  <2>2. N(Instances) = K(Instances) /\ N(NewInstances) = K(NewInstances)
    BY <1>2, <1>12, InstanceNames
  <2> QED
    BY <1>7, <2>1, <2>2 DEF N
<1> QED
  BY <1>8, <1>9, <1>10, <1>11, <1>12

\* A neutral statement keeps it so, provided that a table is dropped only when
\* the other one says what it said.
LEMMA NeutralKeeps ==
  ASSUME NEW db, NEW s, WellFormed(db), Allowed(s), Succeeds(db, s),
         NEW name, Neutral(name, s), NEW columns, AreCarried(columns), InPlace(db, columns),
         KeptRows(After(db, s), Instances) = KeptRows(db, Instances),
         s.op = "createTable" /\ s.table = Instances => ~Exists(db, NewInstances),
         s.op = "dropTable" /\ s.table = Tokens =>
           Said(db, Tokens, columns) \subseteq Said(db, NewTokens, columns),
         s.op = "dropTable" /\ s.table = Instances => Said(db, Instances, columns) = {}
  PROVE  /\ InPlace(After(db, s), columns)
         /\ AllSaid(After(db, s), columns) = AllSaid(db, columns)
         /\ Said(After(db, s), Instances, columns) \subseteq Said(db, Instances, columns)
<1> DEFINE after == After(db, s)
           H(x) == Said(db, x, columns)
           N(x) == Said(after, x, columns)
<1>1. \/ \A x \in InstanceTables : N(x) = H(x)
      \/ /\ s.op = "dropTable" /\ s.table \in {Instances, Tokens}
         /\ N(s.table) = {}
         /\ \A x \in InstanceTables \ {s.table} : N(x) = H(x)
      \/ /\ s.op = "renameTable" /\ s.table = NewTokens /\ s.to = Tokens
         /\ H(Tokens) = {} /\ N(Tokens) = H(NewTokens) /\ N(NewTokens) = {}
         /\ \A x \in InstanceTables \ {Tokens, NewTokens} : N(x) = H(x)
      \/ /\ s.op = "copyRows" /\ s.table = Tokens /\ s.to = NewTokens
         /\ N(NewTokens) = H(NewTokens) \union H(Tokens)
         /\ \A x \in InstanceTables \ {NewTokens} : N(x) = H(x)
  BY SaidBy
<1>2. /\ s.op = "dropTable" /\ s.table = Tokens => H(Tokens) \subseteq H(NewTokens)
      /\ s.op = "dropTable" /\ s.table = Instances => H(Instances) = {}
  OBVIOUS
<1>3. AllSaid(after, columns) = {said \in UNION {N(x) : x \in InstanceTables} :
                                   said.processInstanceId # ""}
      /\ AllSaid(db, columns) = {said \in UNION {H(x) : x \in InstanceTables} :
                                   said.processInstanceId # ""}
  BY DEF AllSaid
<1> HIDE DEF H, N
<1>4. UNION {N(x) : x \in InstanceTables} = UNION {H(x) : x \in InstanceTables}
      /\ N(Tokens) \union N(NewTokens) \subseteq H(Tokens) \union H(NewTokens)
      /\ N(Instances) \subseteq H(Instances)
  <2>1. UNION {N(x) : x \in InstanceTables} =
          N(Instances) \union N(NewInstances) \union N(Tokens) \union N(NewTokens)
    BY InstanceNames
  <2>2. UNION {H(x) : x \in InstanceTables} =
          H(Instances) \union H(NewInstances) \union H(Tokens) \union H(NewTokens)
    BY InstanceNames
  <2>3. CASE \A x \in InstanceTables : N(x) = H(x)
    <3>1. N(Instances) = H(Instances) /\ N(NewInstances) = H(NewInstances)
          /\ N(Tokens) = H(Tokens) /\ N(NewTokens) = H(NewTokens)
      BY <2>3, InstanceNames
    <3> QED
      BY <2>1, <2>2, <3>1
  <2>4. CASE /\ s.op = "dropTable" /\ s.table \in {Instances, Tokens}
             /\ N(s.table) = {}
             /\ \A x \in InstanceTables \ {s.table} : N(x) = H(x)
    <3>1. CASE s.table = Instances
      <4>1. N(Instances) = {} /\ H(Instances) = {} /\ N(NewInstances) = H(NewInstances)
            /\ N(Tokens) = H(Tokens) /\ N(NewTokens) = H(NewTokens)
        BY <1>2, <2>4, <3>1, InstanceNames
      <4> QED
        BY <2>1, <2>2, <4>1
    <3>2. CASE s.table = Tokens
      <4>1. N(Instances) = H(Instances) /\ N(NewInstances) = H(NewInstances)
            /\ N(Tokens) = {} /\ H(Tokens) \subseteq H(NewTokens)
            /\ N(NewTokens) = H(NewTokens)
        BY <1>2, <2>4, <3>2, InstanceNames
      <4> QED
        BY <2>1, <2>2, <4>1
    <3> QED
      BY <2>4, <3>1, <3>2
  <2>5. CASE /\ s.op = "renameTable" /\ s.table = NewTokens /\ s.to = Tokens
             /\ H(Tokens) = {} /\ N(Tokens) = H(NewTokens) /\ N(NewTokens) = {}
             /\ \A x \in InstanceTables \ {Tokens, NewTokens} : N(x) = H(x)
    <3>1. N(Instances) = H(Instances) /\ N(NewInstances) = H(NewInstances)
      BY <2>5, InstanceNames
    <3> QED
      BY <2>1, <2>2, <2>5, <3>1
  <2>6. CASE /\ s.op = "copyRows" /\ s.table = Tokens /\ s.to = NewTokens
             /\ N(NewTokens) = H(NewTokens) \union H(Tokens)
             /\ \A x \in InstanceTables \ {NewTokens} : N(x) = H(x)
    <3>1. N(Instances) = H(Instances) /\ N(NewInstances) = H(NewInstances)
          /\ N(Tokens) = H(Tokens)
      BY <2>6, InstanceNames
    <3> QED
      BY <2>1, <2>2, <2>6, <3>1
  <2> QED
    BY <1>1, <2>3, <2>4, <2>5, <2>6
<1>5. AllSaid(after, columns) = AllSaid(db, columns)
  BY <1>3, <1>4
<1>6. s.op = "insertRow" => s.table \notin InstanceTables
  BY DEF Neutral
<1>7. Exists(after, Instances) =>
        KeptIn(after, Instances, NewInstances) \subseteq KeptIn(after, Instances, Instances)
  BY <1>6, LeftoverStays DEF InPlace
<1> HIDE DEF after
<1>8. KeptRows(after, Instances) = KeptRows(db, Instances)
  BY DEF after
<1>9. InPlace(after, columns)
  BY <1>4, <1>5, <1>7, <1>8, InPlaceAfter DEF H, N
<1> QED
  BY <1>4, <1>5, <1>9 DEF H, N, after

-----------------------------------------------------------------------------
(* flow_node_instance/03 moves the columns to the flow node instances.     *)

\* Its first column, and the statement that fills all of them.
AddPlace == AddColumn(Instances, "processInstanceId", "STRING", "")
RemovePlace == RemoveColumn(Tokens, "processInstanceId")

Fills(s) ==
  /\ s.op = "fillFrom" /\ s.table = Instances /\ s.source = Tokens
  /\ s.match = {<<"flowNodeInstanceId", "flowNodeInstanceId">>}
  /\ s.required # {}
  /\ {"processInstanceId", "correlationId", "identity"} \subseteq DOMAIN s.assignments
  /\ "flowNodeInstanceId" \notin DOMAIN s.assignments
  /\ \A c \in {"processInstanceId", "correlationId", "identity"} : s.assignments[c] = c

\* The places of three sequences joined.
Joins(p, a, b, c) == p = a \o b \o c

\* Three sequences of five, one and five elements joined: what is where.
LEMMA JoinedPlaces ==
  ASSUME NEW a, NEW b, NEW c, IsSequence(a), IsSequence(b), IsSequence(c),
         Len(a) = 5, Len(b) = 1, Len(c) = 5, NEW p, Joins(p, a, b, c)
  PROVE  /\ DOMAIN p = 1..11
         /\ \A i \in 1..5 : p[i] = a[i]
         /\ p[6] = b[1]
         /\ \A i \in 7..11 : p[i] = c[i - 6]
<1> DEFINE ab == a \o b
<1>1. IsSequence(ab) /\ IsSequence(a) /\ IsSequence(b) /\ IsSequence(c)
  BY Concatenated DEF IsSequence
<1>2. DOMAIN ab = 1..6 /\ \A i \in 1..6 : ab[i] = IF i <= 5 THEN a[i] ELSE b[i - 5]
  <2>1. /\ DOMAIN ab = 1..(Len(a) + Len(b))
        /\ \A i \in 1..(Len(a) + Len(b)) : ab[i] = IF i <= Len(a) THEN a[i] ELSE b[i - Len(a)]
    BY <1>1, Places
  <2>2. Len(a) = 5 /\ Len(b) = 1
    OBVIOUS
  <2> HIDE DEF ab
  <2> QED
    BY ONLY <2>1, <2>2
<1>p. p = ab \o c
  BY DEF Joins
<1> HIDE DEF ab
<1>3. Len(ab) = 6
  BY <1>1, <1>2 DEF IsSequence
<1>4. DOMAIN p = 1..11 /\ \A i \in 1..11 : p[i] = IF i <= 6 THEN ab[i] ELSE c[i - 6]
  <2>1. /\ DOMAIN p = 1..(Len(ab) + Len(c))
        /\ \A i \in 1..(Len(ab) + Len(c)) :
             p[i] = IF i <= Len(ab) THEN ab[i] ELSE c[i - Len(ab)]
    BY <1>1, <1>p, Places
  <2>2. Len(c) = 5
    OBVIOUS
  <2> QED
    BY ONLY <1>3, <2>1, <2>2
<1>5. \A i \in 1..6 : p[i] = ab[i]
  BY ONLY <1>4
<1>6. \A i \in 1..5 : p[i] = a[i]
  BY ONLY <1>2, <1>5
<1>7. p[6] = b[1]
  <2>1. ab[6] = b[6 - 5] /\ 6 - 5 = 1
    BY ONLY <1>2
  <2> QED
    BY ONLY <1>5, <2>1
<1>8. \A i \in 7..11 : p[i] = c[i - 6]
  BY ONLY <1>4
<1> QED
  BY ONLY <1>4, <1>6, <1>7, <1>8

\* Its statements: the columns are added, filled and removed.
LEMMA MovingStatements ==
  /\ DOMAIN FlowNodeInstance03 = 1..11
  /\ FlowNodeInstance03[1] = AddPlace
  /\ \A i \in 2..5 : LET s == FlowNodeInstance03[i] IN
       /\ s.op = "addColumn" /\ s.table = Instances /\ s.column # "processInstanceId"
  /\ Fills(FlowNodeInstance03[6])
  /\ FlowNodeInstance03[7] = RemovePlace
  /\ \A i \in 8..11 : LET s == FlowNodeInstance03[i] IN
       /\ s.op = "removeColumn" /\ s.table = Tokens /\ s.column # "processInstanceId"
  /\ \A i \in 1..11 : IsAwaited(FlowNodeInstance03[i])
<1> DEFINE moved == <<"processInstanceId", "processModelId", "correlationId",
                      "identity", "caller">>
           target == [moved EXCEPT ![5] = "parentProcessInstanceId"]
           required == {"processInstanceId", "processModelId", "correlationId"}
           add == [i \in 1..5 |->
                     AddColumn("FlowNodeInstances", target[i],
                               IF target[i] = "identity" THEN "TEXT" ELSE "STRING",
                               IF target[i] \in required THEN "" ELSE Null)]
           assignments == [c \in ToSet(target) |->
                             moved[CHOOSE i \in 1..5 : target[i] = c]]
           fill == <<FillFrom("FlowNodeInstances", assignments, "ProcessTokens",
                       {<<"flowNodeInstanceId", "flowNodeInstanceId">>}, required)>>
           remove == [i \in 1..5 |-> RemoveColumn("ProcessTokens", moved[i])]
           p == add \o fill \o remove
<1>1. /\ moved[1] = "processInstanceId" /\ target[1] = "processInstanceId"
      /\ \A i \in 2..5 : moved[i] # "processInstanceId" /\ target[i] # "processInstanceId"
  OBVIOUS
<1>2. /\ DOMAIN target = 1..5
      /\ target[3] = "correlationId" /\ target[4] = "identity"
      /\ target[2] = "processModelId" /\ target[5] = "parentProcessInstanceId"
      /\ moved[3] = "correlationId" /\ moved[4] = "identity"
  OBVIOUS
<1>3. required # {} /\ target[1] \in required /\ target[1] # "identity"
  BY <1>1
<1>4. /\ {"processInstanceId", "correlationId", "identity"} \subseteq ToSet(target)
      /\ "flowNodeInstanceId" \notin ToSet(target)
  BY <1>1, <1>2 DEF ToSet
<1>5. \A c \in {"processInstanceId", "correlationId", "identity"} : assignments[c] = c
  <2>1. (CHOOSE i \in 1..5 : target[i] = "processInstanceId") = 1
    BY <1>1
  <2>2. (CHOOSE i \in 1..5 : target[i] = "correlationId") = 3
    BY <1>1, <1>2
  <2>3. (CHOOSE i \in 1..5 : target[i] = "identity") = 4
    BY <1>1, <1>2
  <2> QED
    BY <1>1, <1>2, <1>4, <2>1, <2>2, <2>3
<1>6. DOMAIN assignments = ToSet(target)
  OBVIOUS
<1> HIDE DEF moved, target, required, assignments
<1>7. /\ IsSequence(add) /\ Len(add) = 5 /\ IsSequence(remove) /\ Len(remove) = 5
      /\ IsSequence(fill) /\ Len(fill) = 1
  <2>1. DOMAIN add = 1..5 /\ add = [i \in 1..5 |-> add[i]]
    OBVIOUS
  <2>2. DOMAIN remove = 1..5 /\ remove = [i \in 1..5 |-> remove[i]]
    OBVIOUS
  <2>3. DOMAIN fill = 1..1 /\ fill = [i \in 1..1 |-> fill[i]]
    OBVIOUS
  <2> HIDE DEF add, remove, fill
  <2>4. add \in Seq(ToSet(add)) /\ remove \in Seq(ToSet(remove)) /\ fill \in Seq(ToSet(fill))
    BY <2>1, <2>2, <2>3, Sequence
  <2> QED
    BY <2>1, <2>2, <2>3, <2>4 DEF IsSequence
<1>8. add[1] = AddPlace /\ remove[1] = RemovePlace
  <2>1. /\ (IF target[1] = "identity" THEN "TEXT" ELSE "STRING") = "STRING"
        /\ (IF target[1] \in required THEN "" ELSE Null) = ""
    BY <1>3
  <2>2. add[1] = AddColumn("FlowNodeInstances", target[1],
                   IF target[1] = "identity" THEN "TEXT" ELSE "STRING",
                   IF target[1] \in required THEN "" ELSE Null)
    <3>1. 1 \in 1..5
      OBVIOUS
    <3> QED
      BY <3>1, Zenon
  <2>3. remove[1] = RemoveColumn("ProcessTokens", moved[1])
    OBVIOUS
  <2> QED
    BY <1>1, <2>1, <2>2, <2>3 DEF AddPlace, RemovePlace, Instances, Tokens
<1>a. \A i \in 1..5 : /\ add[i].op = "addColumn" /\ add[i].table = Instances
                      /\ add[i].column = target[i] /\ IsAwaited(add[i])
                      /\ remove[i].op = "removeColumn" /\ remove[i].table = Tokens
                      /\ remove[i].column = moved[i] /\ IsAwaited(remove[i])
  BY DEF AddColumn, RemoveColumn, Instances, Tokens, IsAwaited
<1>b. fill[1] = FillFrom("FlowNodeInstances", assignments, "ProcessTokens",
                  {<<"flowNodeInstanceId", "flowNodeInstanceId">>}, required)
  OBVIOUS
<1> HIDE DEF add, remove, fill
<1>9. /\ DOMAIN p = 1..11
      /\ \A i \in 1..5 : p[i] = add[i]
      /\ p[6] = fill[1]
      /\ \A i \in 7..11 : p[i] = remove[i - 6]
  <2>1. Joins(p, add, fill, remove)
    BY DEF Joins
  <2> HIDE DEF p
  <2> QED
    BY <1>7, <2>1, JoinedPlaces
<1> HIDE DEF p
<1>10. p[1] = AddPlace
  BY <1>8, <1>9
<1>11. \A i \in 2..5 : /\ p[i].op = "addColumn" /\ p[i].table = Instances
                       /\ p[i].column # "processInstanceId" /\ IsAwaited(p[i])
  BY <1>1, <1>a, <1>9
<1>12. Fills(p[6]) /\ IsAwaited(p[6])
  <2>1. p[6] = FillFrom("FlowNodeInstances", assignments, "ProcessTokens",
                 {<<"flowNodeInstanceId", "flowNodeInstanceId">>}, required)
    BY <1>b, <1>9
  <2> QED
    BY <2>1, <1>3, <1>4, <1>5, <1>6 DEF Fills, FillFrom, Instances, Tokens, IsAwaited
<1>13. p[7] = RemovePlace
  BY <1>8, <1>9
<1>14. ASSUME NEW i \in 8..11
       PROVE  /\ p[i].op = "removeColumn" /\ p[i].table = Tokens
              /\ p[i].column # "processInstanceId" /\ IsAwaited(p[i])
  <2>1. p[i] = remove[i - 6] /\ i - 6 \in 2..5
    BY <1>9
  <2> QED
    BY <1>1, <1>a, <2>1
<1>15. IsAwaited(AddPlace) /\ IsAwaited(RemovePlace)
  BY DEF IsAwaited, AddPlace, RemovePlace, AddColumn, RemoveColumn
<1>16. FlowNodeInstance03 = p
  BY Zenon DEF FlowNodeInstance03, p, add, fill, remove, moved, target, required, assignments
<1> QED
  BY <1>9, <1>10, <1>11, <1>12, <1>13, <1>14, <1>15, <1>16

\* What a table says of process instances, row by row.
LEMMA SaidRows ==
  ASSUME NEW db, NEW x, NEW columns, x \in DOMAIN db
  PROVE  /\ \A row \in ToSet(db[x].rows) : "processInstanceId" \in DOMAIN row =>
              Values(row, columns) \in Said(db, x, columns)
         /\ \A said \in Said(db, x, columns) : \E row \in ToSet(db[x].rows) :
              "processInstanceId" \in DOMAIN row /\ said = Values(row, columns)
BY ValuesWhere DEF Said, ValuesOf

\* A table names no process instance, or none at all, whatever columns one looks at.
Blank(db, x) ==
  \A said \in Said(db, x, {"processInstanceId"}) : said.processInstanceId = ""

\* That a table names none does not depend on the columns one looks at.
LEMMA BlankSaid ==
  ASSUME NEW db, NEW x, NEW columns, AreCarried(columns)
  PROVE  /\ Blank(db, x) => \A said \in Said(db, x, columns) : said.processInstanceId = ""
         /\ Said(db, x, columns) = {} <=> Said(db, x, {}) = {}
<1>1. CASE x \notin DOMAIN db
  BY <1>1, ValuesWhere DEF Said
<1>2. CASE x \in DOMAIN db
  <2> DEFINE Named(row) == row \in ToSet(db[x].rows) /\ "processInstanceId" \in DOMAIN row
             H(cs) == Said(db, x, cs)
  <2>1. \A cs : /\ \A row : Named(row) => Values(row, cs) \in H(cs)
                /\ \A said \in H(cs) : \E row : Named(row) /\ said = Values(row, cs)
    BY <1>2, SaidRows
  <2>2. \A row : Named(row) =>
          /\ Values(row, columns).processInstanceId = row.processInstanceId
          /\ Values(row, {"processInstanceId"}).processInstanceId = row.processInstanceId
    BY DEF Values, AreCarried
  <2>3. Blank(db, x) => \A said \in H({"processInstanceId"}) : said.processInstanceId = ""
    BY DEF Blank
  <2> HIDE DEF Named, H
  <2>4. Blank(db, x) => \A said \in H(columns) : said.processInstanceId = ""
    <3> SUFFICES ASSUME Blank(db, x), NEW said \in H(columns)
                 PROVE  said.processInstanceId = ""
      OBVIOUS
    <3>1. PICK row : Named(row) /\ said = Values(row, columns)
      BY <2>1
    <3>2. Values(row, {"processInstanceId"}) \in H({"processInstanceId"})
      BY <2>1, <3>1
    <3> QED
      BY <2>2, <2>3, <3>1, <3>2
  <2>5. H(columns) = {} <=> H({}) = {}
    BY <2>1
  <2> QED
    BY <2>4, <2>5 DEF H
<1> QED
  BY <1>1, <1>2

\* The tables that a statement does not change say what they said.
LEMMA OthersSay ==
  ASSUME NEW db, NEW s, WellFormed(db), Allowed(s), Succeeds(db, s), s.op \in ChangesTable,
         NEW x, x # s.table, NEW columns
  PROVE  Said(After(db, s), x, columns) = Said(db, x, columns)
<1>1. s.op \notin {"dropTable", "renameTable", "copyRows"}
  BY DEF ChangesTable
<1>2. Spares(s, x, columns \union {"processInstanceId"})
  BY DEF Spares
<1>3. ValuesIn(After(db, s), x, columns, "processInstanceId") =
        Resulting(db, s, x, columns, "processInstanceId")
  BY <1>1, <1>2, ValuesBy
<1> QED
  BY <1>1, <1>3 DEF Resulting, Said

\* What a change of other columns leaves of a table.
LEMMA SaidSpared ==
  ASSUME NEW db, NEW s, WellFormed(db), Allowed(s), Succeeds(db, s), s.op \in ChangesTable,
         NEW columns, Spares(s, s.table, columns \union {"processInstanceId"})
  PROVE  Said(After(db, s), s.table, columns) = Said(db, s.table, columns)
<1>1. s.op \notin {"dropTable", "renameTable", "copyRows"}
  BY DEF ChangesTable
<1>2. ValuesIn(After(db, s), s.table, columns, "processInstanceId") =
        Resulting(db, s, s.table, columns, "processInstanceId")
  BY <1>1, ValuesBy
<1> QED
  BY <1>1, <1>2 DEF Resulting, Said

\* The rows of the table that a statement changes.
Rewrites(db, s, rows, new) ==
  /\ s.op = "addColumn" => new = [i \in DOMAIN rows |-> With(rows[i], s.column, s.default)]
  /\ s.op = "removeColumn" => new = [i \in DOMAIN rows |-> Without(rows[i], s.column)]
  /\ s.op = "fillFrom" => new = [i \in DOMAIN rows |-> Filled(db, s, rows[i])]

\* The rows after a statement that changes them in place are those it rewrites.
LEMMA RowsChanged ==
  ASSUME NEW db, NEW s, WellFormed(db), s.op \in ChangesTable, Succeeds(db, s)
  PROVE  /\ s.table \in DOMAIN db /\ s.table \in DOMAIN After(db, s)
         /\ Applies(db, s)
         /\ IsTable(db[s.table])
         /\ Rewrites(db, s, db[s.table].rows, After(db, s)[s.table].rows)
<1>1. s.table \in DOMAIN db /\ Applies(db, s)
  BY DEF Succeeds, Exists, ChangesTable
<1>2. IsTable(db[s.table])
  BY <1>1 DEF WellFormed, IsDatabase
<1>3. After(db, s) = [db EXCEPT ![s.table] = Changed(db, s)]
  BY AfterBy
<1>4. DOMAIN db[s.table] = {"columns", "unique", "indexes", "rows"}
  BY <1>2, TableOf
<1>5. s.table \in DOMAIN After(db, s) /\ After(db, s)[s.table] = Changed(db, s)
  BY <1>1, <1>3
<1> DEFINE rows == db[s.table].rows
           new == Changed(db, s)
<1>6. /\ s.op = "addColumn" =>
           new.rows = [i \in DOMAIN rows |-> With(rows[i], s.column, s.default)]
      /\ s.op \in {"changeColumn", "addIndex"} => new.rows = rows
      /\ s.op = "removeColumn" =>
           new.rows = [i \in DOMAIN rows |-> Without(rows[i], s.column)]
      /\ s.op = "setCell" => new.rows = [rows EXCEPT ![s.position][s.column] = s.value]
      /\ s.op = "fillFrom" => new.rows = [i \in DOMAIN rows |-> Filled(db, s, rows[i])]
  BY <1>4, ChangedOneByOne
<1> HIDE DEF rows, new
<1> QED
  BY <1>1, <1>2, <1>5, <1>6 DEF rows, new, Rewrites

\* The column of the process instance is added: no flow node instance names one.
LEMMA PlaceAdded ==
  ASSUME NEW db, WellFormed(db), Succeeds(db, AddPlace), NEW columns
  PROVE  Said(db, Instances, columns) = {} /\ Blank(After(db, AddPlace), Instances)
<1> DEFINE s == AddPlace
           after == After(db, s)
<1>1. /\ s.op = "addColumn" /\ s.table = Instances /\ s.column = "processInstanceId"
      /\ s.default = "" /\ s.op \in ChangesTable
  BY DEF AddPlace, AddColumn, ChangesTable
<1>0. Succeeds(db, s)
  OBVIOUS
<1> HIDE DEF s
<1>a. /\ s.table \in DOMAIN db /\ s.table \in DOMAIN after /\ Applies(db, s)
      /\ IsTable(db[s.table])
      /\ after[s.table].rows =
           [i \in DOMAIN db[s.table].rows |-> With(db[s.table].rows[i], s.column, s.default)]
  <2>1. /\ s.table \in DOMAIN db /\ s.table \in DOMAIN after /\ Applies(db, s)
        /\ IsTable(db[s.table])
        /\ Rewrites(db, s, db[s.table].rows, after[s.table].rows)
    BY <1>0, <1>1, RowsChanged
  <2> QED
    BY <1>1, <2>1, Zenon DEF Rewrites
<1>2. /\ Instances \in DOMAIN db /\ Instances \in DOMAIN after /\ Applies(db, s)
      /\ IsTable(db[Instances])
      /\ after[Instances].rows =
           [i \in DOMAIN db[Instances].rows |->
              With(db[Instances].rows[i], "processInstanceId", "")]
  BY <1>1, <1>a
<1>3. "processInstanceId" \notin DOMAIN db[Instances].columns
  <2>1. s.op = "addColumn" => s.column \notin DOMAIN db[s.table].columns
    BY <1>2, AppliesBy
  <2> QED
    BY <1>1, <2>1
<1> HIDE DEF after
<1>4. Said(db, Instances, columns) = {}
  <2>1. \A row \in ToSet(db[Instances].rows) : "processInstanceId" \notin DOMAIN row
    BY <1>2, <1>3, TableOf DEF ToSet, Stored
  <2> QED
    BY <1>2, <2>1, SaidRows
<1>5. Blank(after, Instances)
  <2> DEFINE place == {"processInstanceId"}
             rows == after[Instances].rows
  <2>1. ASSUME NEW i \in DOMAIN rows PROVE Values(rows[i], place).processInstanceId = ""
    <3>1. rows[i] = With(db[Instances].rows[i], "processInstanceId", "")
      BY <1>2
    <3>2. "processInstanceId" \in DOMAIN rows[i] /\ rows[i]["processInstanceId"] = ""
      BY <3>1 DEF With
    <3> QED
      BY <3>2 DEF Values
  <2> HIDE DEF place
  <2>2. ASSUME NEW said \in Said(after, Instances, place)
        PROVE  \E row \in ToSet(rows) : said = Values(row, place)
    <3>1. said \in ValuesOf(rows, place, "processInstanceId")
      BY <1>2, ValuesWhere DEF Said
    <3> HIDE DEF rows
    <3> QED
      BY <3>1 DEF ValuesOf
  <2> HIDE DEF rows
  <2>3. \A said \in Said(after, Instances, place) : said.processInstanceId = ""
    BY <2>1, <2>2 DEF ToSet
  <2> QED
    BY <2>3 DEF Blank, place
<1> QED
  BY <1>4, <1>5 DEF after, s

\* Another column is added: it stays so.
LEMMA StaysBlank ==
  ASSUME NEW db, NEW s, WellFormed(db), Allowed(s), Succeeds(db, s), s.op = "addColumn",
         s.table = Instances, s.column # "processInstanceId", Blank(db, Instances)
  PROVE  Blank(After(db, s), Instances)
<1>1. s.op \in ChangesTable /\ Spares(s, s.table, {"processInstanceId"} \union {"processInstanceId"})
  BY DEF ChangesTable, Spares
<1>2. Said(After(db, s), s.table, {"processInstanceId"}) = Said(db, s.table, {"processInstanceId"})
  BY <1>1, SaidSpared
<1> QED
  BY <1>2 DEF Blank

\* The column is removed from the tokens: they name no process instance any more,
\* nor do they when other columns are removed.
LEMMA PlaceRemoved ==
  ASSUME NEW db, WellFormed(db), Succeeds(db, RemovePlace), NEW columns
  PROVE  Said(After(db, RemovePlace), Tokens, columns) = {}
<1> DEFINE s == RemovePlace
           after == After(db, s)
<1>1. /\ s.op = "removeColumn" /\ s.table = Tokens /\ s.column = "processInstanceId"
      /\ s.op \in ChangesTable
  BY DEF RemovePlace, RemoveColumn, ChangesTable
<1>0. Succeeds(db, s)
  OBVIOUS
<1> HIDE DEF s
<1>a. /\ s.table \in DOMAIN after
      /\ after[s.table].rows =
           [i \in DOMAIN db[s.table].rows |-> Without(db[s.table].rows[i], s.column)]
  <2>1. /\ s.table \in DOMAIN after
        /\ Rewrites(db, s, db[s.table].rows, after[s.table].rows)
    BY <1>0, <1>1, RowsChanged
  <2> QED
    BY <1>1, <2>1, Zenon DEF Rewrites
<1>2. /\ Tokens \in DOMAIN after
      /\ after[Tokens].rows =
           [i \in DOMAIN db[Tokens].rows |-> Without(db[Tokens].rows[i], "processInstanceId")]
  BY <1>1, <1>a
<1> HIDE DEF after
<1>b. \A i \in DOMAIN after[Tokens].rows :
        "processInstanceId" \notin DOMAIN after[Tokens].rows[i]
  BY <1>2 DEF Without
<1>3. \A row \in ToSet(after[Tokens].rows) : "processInstanceId" \notin DOMAIN row
  BY <1>b DEF ToSet
<1>4. Said(after, Tokens, columns) = {}
  BY <1>2, <1>3, SaidRows
<1> QED
  BY <1>4 DEF after, s

\* The tokens still name none after the removal of another column.
LEMMA StaysRemoved ==
  ASSUME NEW db, NEW s, WellFormed(db), Allowed(s), Succeeds(db, s), s.op = "removeColumn",
         s.table = Tokens, s.column # "processInstanceId", NEW columns, AreCarried(columns),
         Said(db, Tokens, columns) = {}
  PROVE  Said(After(db, s), Tokens, columns) = {}
<1>1. s.op \in ChangesTable /\ Spares(s, s.table, {} \union {"processInstanceId"})
  BY DEF ChangesTable, Spares
<1>2. Said(After(db, s), s.table, {}) = Said(db, s.table, {})
  BY <1>1, SaidSpared
<1> QED
  BY <1>2, BlankSaid

\* A set of positions has a first one.
LEMMA FirstOf == ASSUME NEW S, S \subseteq Nat, S # {} PROVE Min(S) \in S
<1> DEFINE before == OpToRel(<, Nat)
<1>1. IsWellFoundedOn(before, Nat)
  BY NatLessThanWellFounded
<1>2. \A x, y \in Nat : <<x, y>> \notin before => y <= x
  BY Z3 DEF OpToRel
<1> HIDE DEF before
<1>3. PICK x \in S : \A y \in S : ~(<<y, x>> \in before)
  BY <1>1, WFMin
<1>4. \E m : m \in S /\ \A y \in S : m <= y
  BY <1>2, <1>3
<1> QED
  BY <1>4 DEF Min

\* What the statement that fills the columns needs, and what its rows become: a
\* flow node instance gets the values of its first token.
LEMMA FillApplies ==
  ASSUME NEW db, NEW s, WellFormed(db), Fills(s), Succeeds(db, s)
  PROVE  /\ Instances \in DOMAIN db /\ Tokens \in DOMAIN db
         /\ \A row \in ToSet(db[Instances].rows) :
              CarriedColumns \subseteq DOMAIN row /\ Matches(db, s, row) # {}
         /\ \A token \in ToSet(db[Tokens].rows) : CarriedColumns \subseteq DOMAIN token
<1> DEFINE place == <<"flowNodeInstanceId", "flowNodeInstanceId">>
           moved == {"processInstanceId", "correlationId", "identity"}
           given == s.assignments
<1>1. /\ s.op = "fillFrom" /\ s.table = Instances /\ s.source = Tokens
      /\ s.match = {place} /\ s.required # {}
      /\ moved \subseteq DOMAIN given /\ \A c \in moved : given[c] = c
  BY DEF Fills
<1>2. Exists(db, s.table) /\ Applies(db, s)
  BY <1>1 DEF Succeeds
<1>3. /\ HasColumns(db, s.table, DOMAIN s.assignments \union {m[2] : m \in s.match})
      /\ HasColumns(db, s.source, {s.assignments[c] : c \in DOMAIN s.assignments}
                                    \union {m[1] : m \in s.match})
      /\ s.required # {} =>
           \A i \in DOMAIN db[s.table].rows : Matches(db, s, db[s.table].rows[i]) # {}
  BY <1>1, <1>2, Zenon DEF Applies
<1>4. CarriedColumns = moved \union {"flowNodeInstanceId"}
  BY DEF CarriedColumns
<1>5. place[1] = "flowNodeInstanceId" /\ place[2] = "flowNodeInstanceId"
  OBVIOUS
<1> HIDE DEF place, moved, given
<1>6. /\ CarriedColumns \subseteq DOMAIN given \union {m[2] : m \in s.match}
      /\ CarriedColumns \subseteq {given[c] : c \in DOMAIN given} \union {m[1] : m \in s.match}
  BY <1>1, <1>4, <1>5
<1>7. \A t \in {Instances, Tokens} : t \in DOMAIN db /\ CarriedColumns \subseteq DOMAIN db[t].columns
  <2>1. \A c \in CarriedColumns : HasColumn(db, Instances, c) /\ HasColumn(db, Tokens, c)
    BY <1>1, <1>3, <1>6 DEF HasColumns, given
  <2>2. "flowNodeInstanceId" \in CarriedColumns
    BY DEF CarriedColumns
  <2> QED
    BY <2>1, <2>2 DEF HasColumn, Exists
<1>8. ASSUME NEW t \in {Instances, Tokens}
      PROVE  \A row \in ToSet(db[t].rows) : CarriedColumns \subseteq DOMAIN row
  <2>1. t \in DOMAIN db /\ CarriedColumns \subseteq DOMAIN db[t].columns
    BY <1>7
  <2>2. IsTable(db[t])
    BY <2>1 DEF WellFormed, IsDatabase
  <2>3. \A i \in DOMAIN db[t].rows : DOMAIN db[t].rows[i] = Stored(db[t].columns)
    BY <2>2, TableOf
  <2>4. CarriedColumns \subseteq Stored(db[t].columns)
    BY <2>1 DEF Stored, CarriedColumns
  <2> QED
    BY <2>3, <2>4 DEF ToSet
<1>9. \A row \in ToSet(db[Instances].rows) : Matches(db, s, row) # {}
  BY <1>1, <1>3 DEF ToSet
<1> QED
  BY <1>7, <1>8, <1>9

\* flow_node_instance/03 gives a flow node instance what one of its tokens says.
LEMMA FilledRow ==
  ASSUME NEW db, NEW s, WellFormed(db), Fills(s), Succeeds(db, s),
         NEW row \in ToSet(db[Instances].rows), NEW columns, AreCarried(columns)
  PROVE  \E token \in ToSet(db[Tokens].rows) :
           /\ token.flowNodeInstanceId = row.flowNodeInstanceId
           /\ Values(Filled(db, s, row), columns) = Values(token, columns)
           /\ "processInstanceId" \in DOMAIN token
           /\ "processInstanceId" \in DOMAIN Filled(db, s, row)
<1> DEFINE found == Matches(db, s, row)
           rows == db[Tokens].rows
           first == Min(found)
           token == rows[first]
           filled == Filled(db, s, row)
<1>1. /\ s.source = Tokens /\ s.match = {<<"flowNodeInstanceId", "flowNodeInstanceId">>}
      /\ {"processInstanceId", "correlationId", "identity"} \subseteq DOMAIN s.assignments
      /\ "flowNodeInstanceId" \notin DOMAIN s.assignments
      /\ \A c \in {"processInstanceId", "correlationId", "identity"} : s.assignments[c] = c
  BY DEF Fills
<1>2. /\ Tokens \in DOMAIN db /\ CarriedColumns \subseteq DOMAIN row /\ found # {}
      /\ \A r \in ToSet(rows) : CarriedColumns \subseteq DOMAIN r
  BY FillApplies
<1>3. found = {i \in DOMAIN rows : rows[i].flowNodeInstanceId = row.flowNodeInstanceId}
  BY <1>1 DEF Matches
<1>4. rows \in Seq(ToSet(rows))
  <2>1. IsTable(db[Tokens])
    BY <1>2 DEF WellFormed, IsDatabase
  <2> QED
    BY <2>1, TableOf
<1>5. filled = [c \in DOMAIN row |->
                  IF c \notin DOMAIN s.assignments THEN row[c]
                  ELSE IF found = {} THEN Null ELSE token[s.assignments[c]]]
  BY <1>1 DEF Filled
<1> HIDE DEF found, rows, filled
<1>6. first \in found
  <2>1. DOMAIN rows \subseteq Nat
    BY <1>4
  <2> QED
    BY <1>2, <1>3, <2>1, FirstOf
<1>7. token \in ToSet(rows) /\ token.flowNodeInstanceId = row.flowNodeInstanceId
  BY <1>3, <1>6 DEF ToSet
<1> HIDE DEF first
<1>8. CarriedColumns \subseteq DOMAIN token
  BY <1>2, <1>7
<1> HIDE DEF token
<1>9. /\ DOMAIN filled = DOMAIN row
      /\ \A c \in CarriedColumns : filled[c] = token[c]
  <2>1. filled["flowNodeInstanceId"] = row["flowNodeInstanceId"]
    BY <1>1, <1>2, <1>5 DEF CarriedColumns
  <2>2. \A c \in {"processInstanceId", "correlationId", "identity"} : filled[c] = token[c]
    <3> SUFFICES ASSUME NEW c \in {"processInstanceId", "correlationId", "identity"}
                 PROVE  filled[c] = token[c]
      OBVIOUS
    <3>1. c \in DOMAIN row /\ c \in DOMAIN s.assignments /\ s.assignments[c] = c
      BY <1>1, <1>2 DEF CarriedColumns
    <3> QED
      BY <1>2, <1>5, <3>1
  <2> QED
    BY <1>5, <1>7, <2>1, <2>2 DEF CarriedColumns
<1>10. Values(filled, columns) = Values(token, columns)
  <2>1. columns \subseteq CarriedColumns
    BY DEF AreCarried
  <2>2. columns \intersect DOMAIN filled = columns /\ columns \intersect DOMAIN token = columns
    BY <1>2, <1>8, <1>9, <2>1
  <2> QED
    BY <1>9, <2>1, <2>2 DEF Values
<1>11. "processInstanceId" \in DOMAIN token /\ "processInstanceId" \in DOMAIN filled
  BY <1>2, <1>8, <1>9 DEF CarriedColumns
<1> QED
  BY <1>7, <1>10, <1>11 DEF rows, filled

\* After it the flow node instances say what their tokens say.
LEMMA FillSays ==
  ASSUME NEW db, NEW s, WellFormed(db), Fills(s), Succeeds(db, s),
         NEW columns, AreCarried(columns), InPlace(db, columns)
  PROVE  Said(After(db, s), Instances, columns) = Said(db, Tokens, columns)
<1> DEFINE after == After(db, s)
           rows == db[Instances].rows
           new == after[Instances].rows
           tokens == ToSet(db[Tokens].rows)
           H == Said(db, Tokens, columns)
           N == Said(after, Instances, columns)
<1>1. /\ Instances \in DOMAIN db /\ Tokens \in DOMAIN db
      /\ \A row \in ToSet(rows) : CarriedColumns \subseteq DOMAIN row
      /\ \A token \in tokens : CarriedColumns \subseteq DOMAIN token
  BY FillApplies
<1>2. Instances \in DOMAIN after /\ new = [i \in DOMAIN rows |-> Filled(db, s, rows[i])]
  <2>1. s.op = "fillFrom" /\ s.table = Instances /\ s.op \in ChangesTable
    BY DEF Fills, ChangesTable
  <2>2. s.table \in DOMAIN after /\ Rewrites(db, s, db[s.table].rows, after[s.table].rows)
    BY <2>1, RowsChanged
  <2> QED
    BY <2>1, <2>2 DEF Rewrites
<1>3. /\ \A token \in tokens : Values(token, columns) \in H
      /\ \A said \in H : \E token \in tokens : said = Values(token, columns)
  <2>1. /\ \A token \in tokens : "processInstanceId" \in DOMAIN token =>
             Values(token, columns) \in H
        /\ \A said \in H : \E token \in tokens :
             "processInstanceId" \in DOMAIN token /\ said = Values(token, columns)
    BY <1>1, SaidRows
  <2>2. "processInstanceId" \in CarriedColumns
    BY DEF CarriedColumns
  <2> QED
    BY <1>1, <2>1, <2>2
<1>4. /\ \A row \in ToSet(new) : "processInstanceId" \in DOMAIN row => Values(row, columns) \in N
      /\ \A said \in N : \E row \in ToSet(new) : said = Values(row, columns)
  BY <1>2, SaidRows
<1>5. \A row \in ToSet(rows) : \E token \in tokens :
        /\ token.flowNodeInstanceId = row.flowNodeInstanceId
        /\ Values(Filled(db, s, row), columns) = Values(token, columns)
        /\ "processInstanceId" \in DOMAIN Filled(db, s, row)
  BY FilledRow
<1>6. \A said \in H : said.processInstanceId # "" /\ said.flowNodeInstanceId \in Nodes(db)
  BY DEF InPlace
<1>7. \A a, b \in H : a.flowNodeInstanceId = b.flowNodeInstanceId => a = b
  <2>1. H \subseteq AllSaid(db, columns)
    BY <1>6, InstanceNames DEF AllSaid
  <2> QED
    BY <2>1 DEF InPlace
<1>8. \A node \in Nodes(db) : \E row \in ToSet(rows) : row.flowNodeInstanceId = node
  <2>1. KeptRows(db, Instances) = KeptIn(db, Instances, Instances)
    <3>1. KeptIn(db, Instances, NewInstances) \subseteq KeptIn(db, Instances, Instances)
      BY <1>1 DEF InPlace, Exists
    <3> QED
      BY <3>1, InstanceNames DEF KeptRows
  <2>2. ASSUME NEW node \in Nodes(db)
        PROVE  \E row \in ToSet(rows) : row.flowNodeInstanceId = node
    <3>1. PICK kept \in KeptIn(db, Instances, Instances) :
            "flowNodeInstanceId" \in DOMAIN kept[2] /\ node = kept[2].flowNodeInstanceId
      BY <2>1, <2>2 DEF Nodes
    <3>2. PICK row \in ToSet(rows) : kept = KeptRow(row, Instances)
      BY <1>1 DEF KeptIn, RowsOf, Exists
    <3> QED
      BY <3>1, <3>2 DEF KeptRow
  <2> QED
    BY <2>2
<1>9. \A token \in tokens :
        Values(token, columns).flowNodeInstanceId = token.flowNodeInstanceId
  BY <1>1 DEF Values, AreCarried, CarriedColumns
<1>10. \A row \in ToSet(rows) : Filled(db, s, row) \in ToSet(new)
  BY <1>2 DEF ToSet
<1>11. \A row \in ToSet(new) : \E old \in ToSet(rows) : row = Filled(db, s, old)
  BY <1>2 DEF ToSet
<1> HIDE DEF after, rows, new, tokens, H, N
<1>12. N \subseteq H
  <2> SUFFICES ASSUME NEW said \in N PROVE said \in H
    OBVIOUS
  <2>1. PICK row \in ToSet(new) : said = Values(row, columns)
    BY <1>4
  <2>2. PICK old \in ToSet(rows) : row = Filled(db, s, old)
    BY <1>11
  <2> QED
    BY <1>3, <1>5, <2>1, <2>2
<1>13. H \subseteq N
  <2> SUFFICES ASSUME NEW said \in H PROVE said \in N
    OBVIOUS
  <2>1. PICK row \in ToSet(rows) : row.flowNodeInstanceId = said.flowNodeInstanceId
    BY <1>6, <1>8
  <2>2. PICK token \in tokens :
          /\ token.flowNodeInstanceId = row.flowNodeInstanceId
          /\ Values(Filled(db, s, row), columns) = Values(token, columns)
          /\ "processInstanceId" \in DOMAIN Filled(db, s, row)
    BY <1>5
  <2>3. Values(token, columns) \in H
        /\ Values(token, columns).flowNodeInstanceId = said.flowNodeInstanceId
    BY <1>3, <1>9, <2>1, <2>2
  <2>4. said = Values(token, columns)
    BY <1>7, <2>3
  <2> QED
    BY <1>4, <1>10, <2>2, <2>4
<1> QED
  BY <1>12, <1>13 DEF H, N, after

\* What has to be so between two of its statements, the first k of which are done.
Moved(db, k, columns) ==
  /\ k \in 1..5 => Blank(db, Instances)
  /\ k = 6 => Said(db, Tokens, columns) \subseteq Said(db, Instances, columns)
  /\ k \in 7..11 => Said(db, Tokens, columns) = {}

\* What all four tables say, table by table.
LEMMA AllSaidParts ==
  ASSUME NEW db, NEW columns
  PROVE  AllSaid(db, columns) =
           {said \in Said(db, Instances, columns) \union Said(db, NewInstances, columns)
                       \union Said(db, Tokens, columns) \union Said(db, NewTokens, columns) :
              said.processInstanceId # ""}
BY InstanceNames DEF AllSaid

\* Each statement of flow_node_instance/03 leaves things as the next one needs them, and
\* all tables together say what they said.
LEMMA MoveGoesOn ==
  ASSUME NEW db, WellFormed(db), NEW k \in 0..10,
         Allowed(FlowNodeInstance03[k + 1]), Succeeds(db, FlowNodeInstance03[k + 1]),
         NEW columns, AreCarried(columns), InPlace(db, columns), Moved(db, k, columns)
  PROVE  LET after == After(db, FlowNodeInstance03[k + 1])
         IN  /\ Moved(after, k + 1, columns)
             /\ AllSaid(after, columns) = AllSaid(db, columns)
             /\ Said(after, Tokens, columns) \union Said(after, NewTokens, columns)
                  \subseteq Said(db, Tokens, columns) \union Said(db, NewTokens, columns)
<1> DEFINE s == FlowNodeInstance03[k + 1]
           after == After(db, s)
           H(x) == Said(db, x, columns)
           N(x) == Said(after, x, columns)
<1>0. WellFormed(db) /\ Allowed(s) /\ Succeeds(db, s)
  OBVIOUS
<1>1. /\ k = 0 => s = AddPlace
      /\ k \in 1..4 => s.op = "addColumn" /\ s.table = Instances /\ s.column # "processInstanceId"
      /\ k = 5 => Fills(s)
      /\ k = 6 => s = RemovePlace
      /\ k \in 7..10 => s.op = "removeColumn" /\ s.table = Tokens
                        /\ s.column # "processInstanceId"
  BY MovingStatements
<1> HIDE DEF s
<1>2. /\ s.op \in ChangesTable
      /\ k \in 0..5 => s.table = Instances
      /\ k \in 6..10 => s.table = Tokens
  <2>1. /\ AddPlace.op = "addColumn" /\ AddPlace.table = Instances
        /\ RemovePlace.op = "removeColumn" /\ RemovePlace.table = Tokens
    BY DEF AddPlace, RemovePlace, AddColumn, RemoveColumn
  <2>2. Fills(s) => s.op = "fillFrom" /\ s.table = Instances
    BY DEF Fills
  <2>3. {"addColumn", "removeColumn", "fillFrom"} \subseteq ChangesTable
    BY DEF ChangesTable
  <2>4. k = 0 \/ k \in 1..4 \/ k = 5 \/ k = 6 \/ k \in 7..10
    OBVIOUS
  <2>5. /\ k \in 0..5 => k = 0 \/ k \in 1..4 \/ k = 5
        /\ k \in 6..10 => k = 6 \/ k \in 7..10
    OBVIOUS
  <2> QED
    BY ONLY <1>1, <2>1, <2>2, <2>3, <2>4, <2>5
<1>3. \A x : x # s.table => N(x) = H(x)
  BY <1>0, <1>2, OthersSay
<1>4. N(NewInstances) = H(NewInstances) /\ N(NewTokens) = H(NewTokens)
      /\ (k \in 0..5 => N(Tokens) = H(Tokens)) /\ (k \in 6..10 => N(Instances) = H(Instances))
  BY <1>2, <1>3, InstanceNames
<1>5. /\ AllSaid(db, columns) = {said \in H(Instances) \union H(NewInstances) \union
                                   H(Tokens) \union H(NewTokens) : said.processInstanceId # ""}
      /\ AllSaid(after, columns) = {said \in N(Instances) \union N(NewInstances) \union
                                     N(Tokens) \union N(NewTokens) : said.processInstanceId # ""}
  BY AllSaidParts
<1>6. /\ Blank(db, Instances) => \A said \in H(Instances) : said.processInstanceId = ""
      /\ Blank(after, Instances) => \A said \in N(Instances) : said.processInstanceId = ""
  BY BlankSaid
<1>7. /\ k \in 1..5 => Blank(db, Instances)
      /\ k = 6 => H(Tokens) \subseteq H(Instances)
      /\ k \in 7..11 => H(Tokens) = {}
  BY DEF Moved
<1>8. /\ k = 0 => H(Instances) = {} /\ Blank(after, Instances)
      /\ k \in 1..4 => Blank(after, Instances)
      /\ k = 5 => N(Instances) = H(Tokens)
      /\ k \in 6..10 => N(Tokens) = {}
  <2>1. k = 0 => H(Instances) = {} /\ Blank(after, Instances)
    BY <1>0, <1>1, PlaceAdded
  <2>2. k \in 1..4 => Blank(after, Instances)
    BY <1>0, <1>1, <1>7, StaysBlank
  <2>3. k = 5 => N(Instances) = H(Tokens)
    BY <1>0, <1>1, FillSays
  <2>4. k = 6 => N(Tokens) = {}
    BY <1>0, <1>1, PlaceRemoved
  <2>5. k \in 7..10 => N(Tokens) = {}
    BY <1>0, <1>1, <1>7, StaysRemoved
  <2> QED
    BY <2>1, <2>2, <2>3, <2>4, <2>5
<1> DEFINE HI == H(Instances)
           NI == N(Instances)
           HT == H(Tokens)
           NT == N(Tokens)
           others == H(NewInstances) \union H(NewTokens)
<1>9. /\ N(Tokens) \union N(NewTokens) \subseteq H(Tokens) \union H(NewTokens)
      /\ k = 5 => NT \subseteq NI
  BY <1>4, <1>8
<1>10. /\ k \in 1..4 => k \in 1..5 /\ k \in 0..5
       /\ k = 0 => k \in 0..5
       /\ k = 5 => k \in 1..5 /\ k \in 0..5
       /\ k \in 6..10 => k = 6 \/ k \in 7..11
       /\ k \in 0..4 => k = 0 \/ k \in 1..4
  OBVIOUS
<1>f. ASSUME k \in 0..4
      PROVE  (\A said \in HI : said.processInstanceId = "")
             /\ (\A said \in NI : said.processInstanceId = "") /\ NT = HT
  BY <1>4, <1>6, <1>7, <1>8, <1>10, <1>f, Zenon
<1>g. ASSUME k = 5
      PROVE  (\A said \in HI : said.processInstanceId = "") /\ NI = HT /\ NT = HT
  BY <1>4, <1>6, <1>7, <1>8, <1>10, <1>g, Zenon
<1>h. ASSUME k \in 6..10
      PROVE  NI = HI /\ NT = {} /\ HT \subseteq HI
  <2>1. HT = {} \/ HT \subseteq HI
    BY <1>7, <1>10, <1>h, Zenon
  <2> QED
    BY <1>4, <1>8, <1>h, <2>1
<1>a. /\ AllSaid(db, columns) = {said \in HI \union HT \union others : said.processInstanceId # ""}
      /\ AllSaid(after, columns) = {said \in NI \union NT \union others : said.processInstanceId # ""}
  BY <1>4, <1>5
<1>c. k \in 0..4 \/ k = 5 \/ k \in 6..10
  OBVIOUS
<1> HIDE DEF HI, NI, HT, NT, others
<1>11. {said \in NI \union NT \union others : said.processInstanceId # ""}
       = {said \in HI \union HT \union others : said.processInstanceId # ""}
  <2>1. CASE k \in 0..4
    BY <1>f, <2>1
  <2>2. CASE k = 5
    BY <1>g, <2>2
  <2>3. CASE k \in 6..10
    BY <1>h, <2>3
  <2> QED
    BY <1>c, <2>1, <2>2, <2>3
<1>d. k + 1 = 6 => NT \subseteq NI
  BY <1>9
<1>e. k + 1 \in 7..11 => NT = {}
  <2>1. k + 1 \in 7..11 => k \in 6..10
    OBVIOUS
  <2> QED
    BY <1>h, <2>1
<1>12. Moved(after, k + 1, columns)
  <2>1. k + 1 \in 1..5 => k = 0 \/ k \in 1..4
    OBVIOUS
  <2>2. k + 1 \in 1..5 => Blank(after, Instances)
    BY <1>8, <2>1, Zenon
  <2> QED
    BY <1>d, <1>e, <2>2 DEF Moved, NT, NI, N
<1>13. AllSaid(after, columns) = AllSaid(db, columns)
  BY <1>a, <1>11
<1> QED
  BY <1>9, <1>12, <1>13 DEF s

-----------------------------------------------------------------------------
(* Which tables the scripts of a repository change.                        *)

TablesOf ==
  [r \in Repositories |->
    CASE r = "correlation" -> {"Correlations", "correlations_new"}
      [] r = "cronjob_history" -> {"CronjobHistory"}
      [] r = "external_task" -> TaskTables
      [] r = "flow_node_instance" -> InstanceTables
      [] r = "process_model" -> {"ProcessDefinitions", "ProcessDefinitions_New"}]

\* A sequence of statements about some tables.
IsAbout(p, tables) == IsSequence(p) /\ \A s \in ToSet(p) : s.table \in tables

\* No statement is about any tables.
LEMMA AboutNone == ASSUME NEW tables PROVE IsAbout(<<>>, tables)
BY NoPlan DEF IsAbout, IsPlan, ToSet

\* One statement about these tables.
LEMMA AboutOf1 == ASSUME NEW tables, NEW a, a.table \in tables PROVE IsAbout(<<a>>, tables)
<1> DEFINE p == <<a>>
<1>1. DOMAIN p = 1..1 /\ p = [i \in 1..1 |-> p[i]] /\ ToSet(p) = {a}
  BY DEF ToSet
<1> HIDE DEF p
<1>2. IsAbout(p, tables)
  BY <1>1, Sequence DEF IsAbout, IsSequence
<1> QED
  BY <1>2 DEF p

\* One sequence after the other.
LEMMA AboutJoined ==
  ASSUME NEW tables, NEW p, NEW q, IsAbout(p, tables), IsAbout(q, tables)
  PROVE  IsAbout(p \o q, tables)
<1> DEFINE r == p \o q
<1>1. IsSequence(r) /\ ToSet(r) = ToSet(p) \union ToSet(q)
  BY Concatenated DEF IsAbout
<1> HIDE DEF r
<1>2. IsAbout(r, tables)
  BY <1>1 DEF IsAbout
<1> QED
  BY <1>2 DEF r

\* Two statements.
LEMMA AboutOf2 ==
  ASSUME NEW tables, NEW a, NEW b, a.table \in tables, b.table \in tables
  PROVE  IsAbout(<<a, b>>, tables)
<1> DEFINE p == <<a, b>>
<1>1. DOMAIN p = 1..2 /\ p = [i \in 1..2 |-> p[i]] /\ ToSet(p) = {a, b}
  BY DEF ToSet
<1> HIDE DEF p
<1>2. IsAbout(p, tables)
  BY <1>1, Sequence DEF IsAbout, IsSequence
<1> QED
  BY <1>2 DEF p

\* Three statements.
LEMMA AboutOf3 ==
  ASSUME NEW tables, NEW a, NEW b, NEW c, a.table \in tables, b.table \in tables,
         c.table \in tables
  PROVE  IsAbout(<<a, b, c>>, tables)
<1> DEFINE p == <<a, b, c>>
<1>1. DOMAIN p = 1..3 /\ p = [i \in 1..3 |-> p[i]] /\ ToSet(p) = {a, b, c}
  BY DEF ToSet
<1> HIDE DEF p
<1>2. IsAbout(p, tables)
  BY <1>1, Sequence DEF IsAbout, IsSequence
<1> QED
  BY <1>2 DEF p

\* The table of each kind of statement.
LEMMA TableOfStatement ==
  ASSUME NEW table
  PROVE  /\ DescribeTable(table).table = table
         /\ \A columns, unique : CreateTable(table, columns, unique).table = table
         /\ DropTable(table).table = table
         /\ \A to : RenameTable(table, to).table = table
         /\ \A column, type, default : AddColumn(table, column, type, default).table = table
         /\ \A column, type : ChangeColumn(table, column, type).table = table
         /\ \A column : RemoveColumn(table, column).table = table
         /\ \A columns : AddIndex(table, columns).table = table
         /\ \A to, columns : CopyRows(table, to, columns).table = table
         /\ \A given, source, match, required :
              DoubleQuoted(FillFrom(table, given, source, match, required)).table = table
         /\ \A use : /\ Select(table, use).table = table
                     /\ Unquoted(Select(table, use)).table = table
         /\ NotAwaited(DropTable(table)).table = table
<1>1. /\ DescribeTable(table).table = table
      /\ \A columns, unique : CreateTable(table, columns, unique).table = table
      /\ DropTable(table).table = table
      /\ \A to : RenameTable(table, to).table = table
  BY DEF DescribeTable, CreateTable, DropTable, RenameTable
<1>2. /\ \A column, type, default : AddColumn(table, column, type, default).table = table
      /\ \A column, type : ChangeColumn(table, column, type).table = table
      /\ \A column : RemoveColumn(table, column).table = table
  BY DEF AddColumn, ChangeColumn, RemoveColumn
<1>3. /\ \A columns : AddIndex(table, columns).table = table
      /\ \A to, columns : CopyRows(table, to, columns).table = table
      /\ \A use : Select(table, use).table = table
  BY DEF AddIndex, CopyRows, Select
<1>4. \A given, source, match, required :
        DoubleQuoted(FillFrom(table, given, source, match, required)).table = table
  BY DEF DoubleQuoted, With, FillFrom
<1>5. \A use : Unquoted(Select(table, use)).table = table
  BY DEF Unquoted, With, Select
<1>6. NotAwaited(DropTable(table)).table = table
  BY DEF NotAwaited, With, DropTable
<1> QED
  BY <1>1, <1>2, <1>3, <1>4, <1>5, <1>6

\* The patterns the scripts share.
LEMMA AboutPatterns ==
  ASSUME NEW table, NEW tables, table \in tables
  PROVE  /\ \A db, columns, unique : IsAbout(CreateIfMissing(db, table, columns, unique), tables)
         /\ \A db, column, type : IsAbout(AddIfMissing(db, table, column, type), tables)
         /\ \A p : IsAbout(p, tables) => IsAbout(<<DescribeTable(table)>> \o p, tables)
         /\ \A temporary, columns, unique : temporary \in tables =>
              IsAbout(Rebuild(table, temporary, columns, unique), tables)
         /\ \A indexes : (\E n \in Nat : DOMAIN indexes = 1..n) =>
              IsAbout(AddIndexes(table, indexes), tables)
<1>1. \A db, columns, unique : IsAbout(CreateIfMissing(db, table, columns, unique), tables)
  BY AboutNone, AboutOf1, TableOfStatement DEF CreateIfMissing
<1>2. \A db, column, type : IsAbout(AddIfMissing(db, table, column, type), tables)
  BY AboutNone, AboutOf1, TableOfStatement DEF AddIfMissing
<1>3. \A p : IsAbout(p, tables) => IsAbout(<<DescribeTable(table)>> \o p, tables)
  BY AboutOf1, AboutJoined, TableOfStatement
<1>4. ASSUME NEW temporary \in tables, NEW columns, NEW unique
      PROVE  IsAbout(Rebuild(table, temporary, columns, unique), tables)
  <2> DEFINE a == CreateTable(temporary, With(columns, "id", "INTEGER"), unique)
             b == CopyRows(table, temporary, DOMAIN columns)
             c == DropTable(table)
             d == RenameTable(temporary, table)
             p == <<a, b, c, d>>
  <2>1. a.table \in tables /\ b.table \in tables /\ c.table \in tables /\ d.table \in tables
    BY TableOfStatement
  <2> HIDE DEF a, b, c, d
  <2>2. DOMAIN p = 1..4 /\ p = [i \in 1..4 |-> p[i]] /\ ToSet(p) = {a, b, c, d}
    BY DEF ToSet
  <2> HIDE DEF p
  <2>3. IsAbout(p, tables)
    BY <2>1, <2>2, Sequence DEF IsAbout, IsSequence
  <2> QED
    BY <2>3, Zenon DEF p, Rebuild, a, b, c, d
<1>5. ASSUME NEW indexes, NEW n \in Nat, DOMAIN indexes = 1..n
      PROVE  IsAbout(AddIndexes(table, indexes), tables)
  <2> DEFINE p == AddIndexes(table, indexes)
  <2>1. DOMAIN p = 1..n /\ p = [i \in 1..n |-> p[i]]
        /\ \A i \in 1..n : p[i].table = table
    BY <1>5 DEF AddIndexes, AddIndex
  <2> HIDE DEF p
  <2>2. IsAbout(p, tables)
    BY <2>1, Sequence DEF IsAbout, IsSequence, ToSet
  <2> QED
    BY <2>2 DEF p
<1> QED
  BY <1>1, <1>2, <1>3, <1>4, <1>5

\* The scripts of sequelize/migrations/correlation change the correlations only.
LEMMA CorrelationTables ==
  ASSUME NEW db
  PROVE  LET T == {"Correlations", "correlations_new"}
         IN  /\ IsAbout(Correlation00(db), T) /\ IsAbout(Correlation01(db), T)
             /\ IsAbout(Correlation02(db), T) /\ IsAbout(Correlation03(db), T)
             /\ IsAbout(Correlation04(db), T) /\ IsAbout(Correlation20190626, T)
             /\ IsAbout(Correlation20191127(db), T)
<1> DEFINE t == "Correlations"
           T == {"Correlations", "correlations_new"}
<1>0. t \in T /\ "correlations_new" \in T
  OBVIOUS
<1> HIDE DEF T
<1>1. IsAbout(Correlation00(db), T)
  BY <1>0, AboutPatterns DEF Correlation00
<1>2. IsAbout(Correlation01(db), T)
  <2> DEFINE p == AddIfMissing(db, t, "processModelId", "STRING")
             q == AddIfMissing(db, t, "processInstanceId", "STRING")
             r == AddIfMissing(db, t, "identity", "TEXT")
             f == FillCorrelations(db)
  <2>1. IsAbout(p, T) /\ IsAbout(q, T) /\ IsAbout(r, T)
    BY <1>0, AboutPatterns
  <2>2. IsAbout(f, T)
    <3> DEFINE a == DoubleQuoted(FillFrom("Correlations", [processModelId |-> "name"],
                      "ProcessDefinitions", {<<"hash", "processModelHash">>}, {}))
               b == DoubleQuoted(FillFrom("Correlations",
                      [processInstanceId |-> "processInstanceId"],
                      "ProcessTokens", {<<"correlationId", "correlationId">>}, {}))
               c == DoubleQuoted(FillFrom("Correlations", [identity |-> "identity"],
                      "ProcessTokens", {<<"correlationId", "correlationId">>,
                                        <<"processInstanceId", "processInstanceId">>}, {}))
    <3>1. a.table \in T /\ b.table \in T /\ c.table \in T
      BY <1>0 DEF DoubleQuoted, With, FillFrom
    <3> HIDE DEF a, b, c
    <3>2. IsAbout(<<a>>, T) /\ IsAbout(<<b, c>>, T) /\ IsAbout(<<>>, T)
      BY <3>1, AboutNone, AboutOf1, AboutOf2
    <3> DEFINE one == IF Exists(db, "ProcessDefinitions") THEN <<a>> ELSE <<>>
               two == IF Exists(db, "ProcessTokens") THEN <<b, c>> ELSE <<>>
    <3>3. IsAbout(one, T) /\ IsAbout(two, T)
      BY <3>2, Zenon
    <3> HIDE DEF one, two
    <3>4. IsAbout(one \o two, T)
      BY <3>3, AboutJoined
    <3> QED
      BY <3>4, Zenon DEF FillCorrelations, one, two, a, b, c
  <2> HIDE DEF p, q, r, f, t
  <2>3. IsAbout(p \o q \o r \o f, T)
    BY <2>1, <2>2, AboutJoined, Zenon
  <2>4. IsAbout(<<>>, T)
    BY AboutNone
  <2>5. \A x : IsAbout(x, T) => IsAbout(<<DescribeTable(t)>> \o x, T)
    BY <1>0, AboutPatterns
  <2> QED
    BY <2>3, <2>4, <2>5, Zenon DEF Correlation01, p, q, r, f, t
<1>3. IsAbout(Correlation02(db), T)
  BY <1>0, AboutPatterns, Zenon DEF Correlation02
<1>4. IsAbout(Correlation03(db), T)
  <2>1. IsAbout(<<>>, T)
    BY AboutNone
  <2>2. \A columns, unique : IsAbout(Rebuild(t, "correlations_new", columns, unique), T)
    BY <1>0, AboutPatterns
  <2>3. \A x : IsAbout(x, T) => IsAbout(<<DescribeTable(t)>> \o x, T)
    BY <1>0, AboutPatterns
  <2> QED
    BY <2>1, <2>2, <2>3, Zenon DEF Correlation03
<1>5. IsAbout(Correlation04(db), T)
  <2> DEFINE a == AddColumn("Correlations", "state", "STRING", "finished")
             b == AddColumn("Correlations", "error", "TEXT", Null)
             c == Unquoted(Select("Correlations", "sync states"))
             rest == IF Exists(db, "FlowNodeInstances") THEN <<c>> ELSE <<>>
  <2>1. a.table \in T /\ b.table \in T /\ c.table \in T
    BY <1>0 DEF AddColumn, Unquoted, With, Select
  <2> HIDE DEF a, b, c
  <2>2. IsAbout(<<a, b>>, T) /\ IsAbout(rest, T)
    BY <2>1, AboutNone, AboutOf1, AboutOf2
  <2> HIDE DEF rest
  <2>3. IsAbout(<<a, b>> \o rest, T)
    BY <2>2, AboutJoined
  <2>4. IsAbout(<<>>, T)
    BY AboutNone
  <2>5. \A x : IsAbout(x, T) => IsAbout(<<DescribeTable(t)>> \o x, T)
    BY <1>0, AboutPatterns
  <2> QED
    BY <2>3, <2>4, <2>5, Zenon DEF Correlation04, rest, a, b, c
<1>6. IsAbout(Correlation20190626, T)
  <2> DEFINE indexes == <<<<"correlationId">>, <<"processModelId">>, <<"processInstanceId">>,
               <<"parentProcessInstanceId">>, <<"state">>,
               <<"correlationId", "processInstanceId">>>>
  <2>1. DOMAIN indexes = 1..6
    OBVIOUS
  <2> HIDE DEF indexes
  <2>2. IsAbout(AddIndexes(t, indexes), T)
    BY <1>0, <2>1, AboutPatterns
  <2> QED
    BY <2>2, Zenon DEF Correlation20190626, indexes
<1>7. IsAbout(Correlation20191127(db), T)
  <2> DEFINE p == AddIfMissing(db, t, "terminatedBy", "STRING")
             q == AddIfMissing(db, t, "finishedAt", "DATE")
             d == <<DescribeTable(t)>>
  <2>1. IsAbout(p, T) /\ IsAbout(q, T) /\ IsAbout(d \o p, T)
    BY <1>0, AboutPatterns
  <2> HIDE DEF p, q, d
  <2>2. IsAbout((d \o p) \o q, T)
    BY <2>1, AboutJoined, Zenon
  <2> QED
    BY <2>2, Zenon DEF Correlation20191127, p, q, d
<1> QED
  BY <1>1, <1>2, <1>3, <1>4, <1>5, <1>6, <1>7 DEF T

\* Those of sequelize/migrations/cronjob_history and external_task likewise.
LEMMA TaskTablesOnly ==
  ASSUME NEW db
  PROVE  /\ IsAbout(CronjobHistory20190709(db), {"CronjobHistory"})
         /\ IsAbout(ExternalTask00(db), TaskTables) /\ IsAbout(ExternalTask01(db), TaskTables)
         /\ IsAbout(ExternalTask02(db), TaskTables) /\ IsAbout(ExternalTask20190626, TaskTables)
<1> DEFINE t == "ExternalTasks"
           T == TaskTables
<1>0. t \in T /\ "external_tasks_new" \in T
  BY DEF TaskTables
<1> HIDE DEF T
<1>1. IsAbout(CronjobHistory20190709(db), {"CronjobHistory"})
  BY AboutPatterns DEF CronjobHistory20190709
<1>2. IsAbout(ExternalTask00(db), T)
  BY <1>0, AboutPatterns DEF ExternalTask00
<1>3. IsAbout(<<>>, T) /\ \A x : IsAbout(x, T) => IsAbout(<<DescribeTable(t)>> \o x, T)
  BY <1>0, AboutNone, AboutPatterns
<1>4. IsAbout(ExternalTask01(db), T)
  <2>1. IsAbout(<<AddColumn(t, "identity", "TEXT", ""), AddColumn(t, "version", "INTEGER", Null),
                  AddColumn(t, "processModelId", "STRING", Null)>>, T)
    <3> DEFINE a == AddColumn(t, "identity", "TEXT", "")
               b == AddColumn(t, "version", "INTEGER", Null)
               c == AddColumn(t, "processModelId", "STRING", Null)
    <3>1. a.table \in T /\ b.table \in T /\ c.table \in T
      BY <1>0 DEF AddColumn
    <3> HIDE DEF a, b, c
    <3>2. IsAbout(<<a, b, c>>, T)
      BY <3>1, AboutOf3
    <3> QED
      BY <3>2 DEF a, b, c
  <2> QED
    BY <1>3, <2>1, Zenon DEF ExternalTask01
<1>5. IsAbout(ExternalTask02(db), T)
  <2> DEFINE a == NotAwaited(DropTable("external_tasks_new"))
             b == CreateTable("external_tasks_new",
                              With(MigratedTaskColumns, "id", "INTEGER"), {})
             c == Select("ExternalTasks", "copy tasks")
             d == DropTable("ExternalTasks")
             e == RenameTable("external_tasks_new", "ExternalTasks")
             p == <<a, b, c, d, e>>
  <2>1. a.table \in T /\ b.table \in T /\ c.table \in T /\ d.table \in T /\ e.table \in T
    BY <1>0 DEF NotAwaited, With, DropTable, CreateTable, Select, RenameTable
  <2> HIDE DEF a, b, c, d, e
  <2>2. DOMAIN p = 1..5 /\ p = [i \in 1..5 |-> p[i]] /\ ToSet(p) = {a, b, c, d, e}
    BY DEF ToSet
  <2> HIDE DEF p
  <2>3. IsAbout(p, T)
    BY <2>1, <2>2, Sequence DEF IsAbout, IsSequence
  <2> QED
    BY <1>3, <2>3, Zenon DEF ExternalTask02, p, a, b, c, d, e
<1>6. IsAbout(ExternalTask20190626, T)
  <2> DEFINE indexes == <<<<"externalTaskId">>,
               <<"correlationId", "processInstanceId", "flowNodeInstanceId">>,
               <<"topic", "state", "lockExpirationTime">>, <<"processModelId">>>>
  <2>1. DOMAIN indexes = 1..4
    OBVIOUS
  <2> HIDE DEF indexes
  <2>2. IsAbout(AddIndexes(t, indexes), T)
    BY <1>0, <2>1, AboutPatterns
  <2> QED
    BY <2>2, Zenon DEF ExternalTask20190626, indexes
<1> QED
  BY <1>1, <1>2, <1>4, <1>5, <1>6 DEF T

\* Those of sequelize/migrations/process_model.
LEMMA ModelTables ==
  ASSUME NEW db
  PROVE  LET T == {"ProcessDefinitions", "ProcessDefinitions_New"}
         IN  /\ IsAbout(ProcessModel00(db), T) /\ IsAbout(ProcessModel01(db), T)
             /\ IsAbout(ProcessModel02(db), T) /\ IsAbout(ProcessModel20190626, T)
             /\ IsAbout(ProcessModel20191108, T)
<1> DEFINE t == "ProcessDefinitions"
           T == {"ProcessDefinitions", "ProcessDefinitions_New"}
<1>0. t \in T /\ "ProcessDefinitions_New" \in T
  OBVIOUS
<1> HIDE DEF T
<1>1. IsAbout(<<>>, T) /\ \A x : IsAbout(x, T) => IsAbout(<<DescribeTable(t)>> \o x, T)
  BY <1>0, AboutNone, AboutPatterns
<1>2. IsAbout(ProcessModel00(db), T)
  BY <1>0, AboutPatterns DEF ProcessModel00
<1>3. IsAbout(ProcessModel01(db), T)
  <2> DEFINE a == AddColumn("ProcessDefinitions", "hash", "TEXT", "")
             b == ChangeColumn("ProcessDefinitions", "name", "STRING")
             p == IF HasColumn(db, "ProcessDefinitions", "hash") THEN <<>> ELSE <<a>>
             d == <<DescribeTable(t)>>
  <2>1. a.table \in T /\ b.table \in T
    BY <1>0 DEF AddColumn, ChangeColumn
  <2> HIDE DEF a, b
  <2>2. IsAbout(p, T) /\ IsAbout(<<b>>, T)
    BY <1>1, <2>1, AboutOf1
  <2>3. IsAbout(d \o p, T)
    BY <1>1, <2>2
  <2> HIDE DEF p, d
  <2>4. IsAbout((d \o p) \o <<b>>, T)
    BY <2>2, <2>3, AboutJoined, Zenon
  <2> QED
    BY <2>4, Zenon DEF ProcessModel01, p, d, a, b
<1>4. IsAbout(ProcessModel02(db), T)
  <2>1. \A columns, unique : IsAbout(Rebuild(t, "ProcessDefinitions_New", columns, unique), T)
    BY <1>0, AboutPatterns
  <2> QED
    BY <1>1, <2>1, Zenon DEF ProcessModel02
<1>5. IsAbout(ProcessModel20190626, T)
  <2> DEFINE indexes == <<<<"name">>, <<"hash">>>>
             b == <<ChangeColumn("ProcessDefinitions", "hash", "STRING")>>
  <2>1. DOMAIN indexes = 1..2
    OBVIOUS
  <2>2. IsAbout(b, T)
    BY <1>0, TableOfStatement, AboutOf1
  <2> HIDE DEF indexes, b
  <2>3. IsAbout(AddIndexes(t, indexes), T)
    BY <1>0, <2>1, AboutPatterns
  <2>4. IsAbout(b \o AddIndexes(t, indexes), T)
    BY <2>2, <2>3, AboutJoined
  <2> QED
    BY <2>4, Zenon DEF ProcessModel20190626, indexes, b
<1>6. IsAbout(ProcessModel20191108, T)
  BY <1>0, TableOfStatement, AboutOf1 DEF ProcessModel20191108
<1> QED
  BY <1>2, <1>3, <1>4, <1>5, <1>6 DEF T

-----------------------------------------------------------------------------
(* The scripts of sequelize/migrations/flow_node_instance.                 *)

\* A sequence of statements of a script that are about the tables of the flow node
\* instances and move no column.
IsNeutral(name, p) ==
  IsSequence(p) /\ \A s \in ToSet(p) : s.table \in InstanceTables /\ Neutral(name, s)

\* Nothing moves no column.
LEMMA NeutralNone == ASSUME NEW name PROVE IsNeutral(name, <<>>)
BY NoPlan DEF IsNeutral, IsPlan, ToSet

\* Nor does one sequence after the other, if neither does.
LEMMA NeutralJoined ==
  ASSUME NEW name, NEW p, NEW q, IsNeutral(name, p), IsNeutral(name, q)
  PROVE  IsNeutral(name, p \o q)
<1> DEFINE r == p \o q
<1>1. IsSequence(r) /\ ToSet(r) = ToSet(p) \union ToSet(q)
  BY Concatenated DEF IsNeutral
<1> HIDE DEF r
<1>2. IsNeutral(name, r)
  BY <1>1 DEF IsNeutral
<1> QED
  BY <1>2 DEF r

\* Statement by statement.
LEMMA NeutralBy ==
  ASSUME NEW name, NEW p, NEW n \in Nat, DOMAIN p = 1..n, p = [i \in 1..n |-> p[i]],
         \A i \in 1..n : p[i].table \in InstanceTables /\ Neutral(name, p[i])
  PROVE  IsNeutral(name, p)
<1>1. IsSequence(p)
  BY Sequence DEF IsSequence
<1>2. \A s \in ToSet(p) : s.table \in InstanceTables /\ Neutral(name, s)
  BY DEF ToSet
<1> QED
  BY <1>1, <1>2 DEF IsNeutral

\* The statements that they are made of.
LEMMA NeutralStatements ==
  ASSUME NEW name
  PROVE  /\ \A table, column, type, default : column \notin CarriedColumns =>
              Neutral(name, AddColumn(table, column, type, default))
         /\ \A table, column, type : Neutral(name, ChangeColumn(table, column, type))
         /\ \A table, columns : Neutral(name, AddIndex(table, columns))
         /\ \A table : Neutral(name, DescribeTable(table))
BY DEF Neutral, AddColumn, ChangeColumn, AddIndex, DescribeTable

\* A table is created by the first script and rebuilt by the third.
LEMMA NeutralRebuild ==
  ASSUME NEW table \in {Instances, Tokens}, NEW columns, NEW unique
  PROVE  IsNeutral("flow_node_instance/02",
                   Rebuild(table, TemporaryOf[table], columns, unique))
<1> DEFINE name == "flow_node_instance/02"
           temporary == TemporaryOf[table]
           a == CreateTable(temporary, With(columns, "id", "INTEGER"), unique)
           b == CopyRows(table, temporary, DOMAIN columns)
           c == DropTable(table)
           d == RenameTable(temporary, table)
           p == <<a, b, c, d>>
<1>1. /\ temporary \in {NewInstances, NewTokens} /\ table \in InstanceTables
      /\ temporary \in InstanceTables /\ temporary \notin {Instances, Tokens}
  BY InstanceNames
<1> HIDE DEF temporary
<1>2. /\ a.op = "createTable" /\ a.table = temporary
      /\ b.op = "copyRows" /\ b.table = table
      /\ c.op = "dropTable" /\ c.table = table
      /\ d.op = "renameTable" /\ d.table = temporary
  BY DEF CreateTable, CopyRows, DropTable, RenameTable
<1> HIDE DEF a, b, c, d
<1>3. Neutral(name, a) /\ Neutral(name, b) /\ Neutral(name, c) /\ Neutral(name, d)
  BY <1>1, <1>2 DEF Neutral
<1>4. DOMAIN p = 1..4 /\ p = [i \in 1..4 |-> p[i]]
      /\ p[1] = a /\ p[2] = b /\ p[3] = c /\ p[4] = d
  OBVIOUS
<1> HIDE DEF p, name
<1>5. \A i \in 1..4 : p[i].table \in InstanceTables /\ Neutral(name, p[i])
  <2>1. \A i \in 1..4 : i = 1 \/ i = 2 \/ i = 3 \/ i = 4
    OBVIOUS
  <2> QED
    BY <1>1, <1>2, <1>3, <1>4, <2>1
<1>6. IsNeutral(name, p)
  BY <1>4, <1>5, NeutralBy
<1> QED
  BY <1>6, Zenon DEF p, a, b, c, d, name, Rebuild, temporary

\* Indexes move no column.
LEMMA NeutralIndexes ==
  ASSUME NEW name, NEW table \in InstanceTables, NEW indexes, NEW n \in Nat,
         DOMAIN indexes = 1..n
  PROVE  IsNeutral(name, AddIndexes(table, indexes))
<1> DEFINE p == AddIndexes(table, indexes)
<1>1. DOMAIN p = 1..n /\ p = [i \in 1..n |-> p[i]]
      /\ \A i \in 1..n : p[i].table = table /\ p[i].op = "addIndex"
  BY DEF AddIndexes, AddIndex
<1> HIDE DEF p
<1>2. IsNeutral(name, p)
  BY <1>1, NeutralBy DEF Neutral
<1> QED
  BY <1>2 DEF p

\* None but flow_node_instance/03 moves a column.
LEMMA InstanceScriptsNeutral ==
  ASSUME NEW db
  PROVE  /\ IsNeutral("flow_node_instance/00", FlowNodeInstance00(db))
         /\ IsNeutral("flow_node_instance/01", FlowNodeInstance01(db))
         /\ IsNeutral("flow_node_instance/02", FlowNodeInstance02(db))
         /\ IsNeutral("flow_node_instance/2019-04-03", FlowNodeInstance20190403)
         /\ IsNeutral("flow_node_instance/2019-06-26", FlowNodeInstance20190626)
         /\ IsNeutral("flow_node_instance/2019-10-10", FlowNodeInstance20191010(db))
         /\ IsNeutral("flow_node_instance/2020-02-18", FlowNodeInstance20200218)
<1>0. /\ "FlowNodeInstances" \in InstanceTables /\ "ProcessTokens" \in InstanceTables
      /\ Instances = "FlowNodeInstances" /\ Tokens = "ProcessTokens"
      /\ TemporaryOf[Instances] = "FlowNodeInstances_New"
      /\ TemporaryOf[Tokens] = "processtokens_new"
  BY InstanceNames DEF Instances, Tokens, NewInstances, NewTokens
<1>1. ASSUME NEW name, NEW a, a.table \in InstanceTables, Neutral(name, a)
      PROVE  IsNeutral(name, <<a>>)
  <2> DEFINE p == <<a>>
  <2>1. DOMAIN p = 1..1 /\ p = [i \in 1..1 |-> p[i]] /\ \A i \in 1..1 : p[i] = a
    OBVIOUS
  <2> HIDE DEF p
  <2>2. IsNeutral(name, p)
    BY <1>1, <2>1, NeutralBy
  <2> QED
    BY <2>2 DEF p
<1>2. ASSUME NEW name, NEW a, NEW b, a.table \in InstanceTables, Neutral(name, a),
             b.table \in InstanceTables, Neutral(name, b)
      PROVE  IsNeutral(name, <<a, b>>)
  <2> DEFINE p == <<a, b>>
  <2>1. DOMAIN p = 1..2 /\ p = [i \in 1..2 |-> p[i]] /\ \A i \in 1..2 : p[i] = a \/ p[i] = b
    OBVIOUS
  <2> HIDE DEF p
  <2>2. \A i \in 1..2 : p[i].table \in InstanceTables /\ Neutral(name, p[i])
    BY <1>2, <2>1, Zenon
  <2>3. IsNeutral(name, p)
    BY <2>1, <2>2, NeutralBy
  <2> QED
    BY <2>3 DEF p
<1>3. ASSUME NEW name, NEW a, NEW b, NEW c, a.table \in InstanceTables, Neutral(name, a),
             b.table \in InstanceTables, Neutral(name, b),
             c.table \in InstanceTables, Neutral(name, c)
      PROVE  IsNeutral(name, <<a, b, c>>)
  <2> DEFINE p == <<a, b, c>>
  <2>1. DOMAIN p = 1..3 /\ p = [i \in 1..3 |-> p[i]]
        /\ \A i \in 1..3 : p[i] = a \/ p[i] = b \/ p[i] = c
    OBVIOUS
  <2> HIDE DEF p
  <2>2. \A i \in 1..3 : p[i].table \in InstanceTables /\ Neutral(name, p[i])
    BY <1>3, <2>1, Zenon
  <2>3. IsNeutral(name, p)
    BY <2>1, <2>2, NeutralBy
  <2> QED
    BY <2>3 DEF p
<1>4. \A name, table : table \in InstanceTables => IsNeutral(name, <<DescribeTable(table)>>)
  BY <1>1, NeutralStatements, TableOfStatement
<1>5. IsNeutral("flow_node_instance/00", FlowNodeInstance00(db))
  <2> DEFINE name == "flow_node_instance/00"
  <2>1. ASSUME NEW table \in {Instances, Tokens}, NEW columns, NEW unique
        PROVE  IsNeutral(name, CreateIfMissing(db, table, columns, unique))
    <3> DEFINE create == CreateTable(table, columns, unique)
    <3>1. create.op = "createTable" /\ create.table = table
      BY DEF CreateTable
    <3> HIDE DEF create
    <3>2. Neutral(name, create) /\ create.table \in InstanceTables
      BY <3>1, InstanceNames DEF Neutral
    <3>3. IsNeutral(name, <<create>>) /\ IsNeutral(name, <<>>)
      BY <1>1, <3>2, NeutralNone
    <3> QED
      BY <3>3, Zenon DEF CreateIfMissing, create
  <2> HIDE DEF name
  <2>2. \A columns, unique :
          /\ IsNeutral(name, CreateIfMissing(db, "FlowNodeInstances", columns, unique))
          /\ IsNeutral(name, CreateIfMissing(db, "ProcessTokens", columns, unique))
    BY <1>0, <2>1
  <2> QED
    BY <2>2, NeutralJoined, Zenon DEF FlowNodeInstance00, name
<1>6. IsNeutral("flow_node_instance/01", FlowNodeInstance01(db))
  <2> DEFINE name == "flow_node_instance/01"
             d == <<DescribeTable("FlowNodeInstances")>>
             a == AddColumn("FlowNodeInstances", "eventType", "STRING", Null)
             b == AddColumn("FlowNodeInstances", "previousFlowNodeInstanceId", "STRING", Null)
             c == AddColumn("FlowNodeInstances", "flowNodeType", "STRING", Null)
  <2>1. Neutral(name, a) /\ Neutral(name, b) /\ Neutral(name, c)
    BY NeutralStatements DEF CarriedColumns
  <2>2. a.table \in InstanceTables /\ b.table \in InstanceTables /\ c.table \in InstanceTables
    BY <1>0 DEF AddColumn
  <2>3. IsNeutral(name, d)
    BY <1>0, <1>4
  <2> HIDE DEF name, d, a, b, c
  <2>4. IsNeutral(name, <<a, b, c>>) /\ IsNeutral(name, <<>>)
    BY <1>3, <2>1, <2>2, NeutralNone
  <2>5. IsNeutral(name, d \o <<>>) /\ IsNeutral(name, d \o <<a, b, c>>)
    BY <2>3, <2>4, NeutralJoined, Zenon
  <2> QED
    BY <2>5, Zenon DEF FlowNodeInstance01, name, d, a, b, c
<1>7. IsNeutral("flow_node_instance/02", FlowNodeInstance02(db))
  <2> DEFINE name == "flow_node_instance/02"
             tokens == Rebuild("ProcessTokens", "processtokens_new", MigratedTokenColumns, {})
             instances == Rebuild("FlowNodeInstances", "FlowNodeInstances_New",
                                  MigratedInstanceColumns, {"flowNodeInstanceId"})
             p == IF HasIntegerId(db, "ProcessTokens") THEN <<>> ELSE tokens
             q == IF HasIntegerId(db, "FlowNodeInstances") THEN <<>> ELSE instances
             a == DescribeTable("FlowNodeInstances")
             b == DescribeTable("ProcessTokens")
  <2>1. IsNeutral(name, tokens) /\ IsNeutral(name, instances)
    BY <1>0, NeutralRebuild
  <2>2. IsNeutral(name, <<>>)
    BY NeutralNone
  <2> HIDE DEF tokens, instances
  <2>3. IsNeutral(name, p) /\ IsNeutral(name, q)
    BY <2>1, <2>2
  <2>4. /\ a.table \in InstanceTables /\ b.table \in InstanceTables
        /\ Neutral(name, a) /\ Neutral(name, b)
    BY <1>0, NeutralStatements DEF DescribeTable
  <2> HIDE DEF name, p, q, a, b
  <2>5. IsNeutral(name, <<a, b>>)
    BY <1>2, <2>4
  <2>6. IsNeutral(name, <<a, b>> \o p \o q)
    BY <2>3, <2>5, NeutralJoined, Zenon
  <2> QED
    BY <2>6, Zenon DEF FlowNodeInstance02, name, tokens, instances, p, q, a, b
<1>8. IsNeutral("flow_node_instance/2019-04-03", FlowNodeInstance20190403)
  <2> DEFINE a == ChangeColumn("FlowNodeInstances", "error", "TEXT")
  <2>1. a.table \in InstanceTables /\ Neutral("flow_node_instance/2019-04-03", a)
    BY <1>0, NeutralStatements DEF ChangeColumn
  <2> HIDE DEF a
  <2> QED
    BY <1>1, <2>1 DEF FlowNodeInstance20190403, a
<1>9. IsNeutral("flow_node_instance/2019-06-26", FlowNodeInstance20190626)
  <2> DEFINE name == "flow_node_instance/2019-06-26"
             indexes ==
        <<<<"correlationId">>, <<"flowNodeId">>, <<"flowNodeInstanceId">>,
          <<"processModelId">>, <<"processInstanceId">>, <<"state">>,
          <<"correlationId", "processModelId">>,
          <<"correlationId", "processModelId", "flowNodeId">>,
          <<"correlationId", "processModelId", "state">>,
          <<"correlationId", "state">>, <<"processModelId", "state">>,
          <<"processInstanceId", "flowNodeId">>, <<"processInstanceId", "state">>>>
             own == <<<<"flowNodeInstanceId">>>>
  <2>1. DOMAIN indexes = 1..13 /\ DOMAIN own = 1..1
    OBVIOUS
  <2> HIDE DEF name, indexes, own
  <2>2. IsNeutral(name, AddIndexes("FlowNodeInstances", indexes))
        /\ IsNeutral(name, AddIndexes("ProcessTokens", own))
    BY <1>0, <2>1, NeutralIndexes
  <2> QED
    BY <2>2, NeutralJoined, Zenon DEF FlowNodeInstance20190626, indexes, own, name
<1>10. IsNeutral("flow_node_instance/2019-10-10", FlowNodeInstance20191010(db))
  <2> DEFINE name == "flow_node_instance/2019-10-10"
             d == <<DescribeTable("FlowNodeInstances")>>
             a == AddColumn("FlowNodeInstances", "flowNodeName", "STRING", Null)
             b == AddColumn("FlowNodeInstances", "flowNodeLane", "STRING", Null)
  <2>1. Neutral(name, a) /\ Neutral(name, b)
    BY NeutralStatements DEF CarriedColumns
  <2>2. a.table \in InstanceTables /\ b.table \in InstanceTables
    BY <1>0 DEF AddColumn
  <2>3. IsNeutral(name, d)
    BY <1>0, <1>4
  <2> HIDE DEF name, d, a, b
  <2>4. IsNeutral(name, <<a, b>>) /\ IsNeutral(name, <<>>)
    BY <1>2, <2>1, <2>2, NeutralNone
  <2>5. IsNeutral(name, d \o <<>>) /\ IsNeutral(name, d \o <<a, b>>)
    BY <2>3, <2>4, NeutralJoined, Zenon
  <2> QED
    BY <2>5, Zenon DEF FlowNodeInstance20191010, name, d, a, b
<1>11. IsNeutral("flow_node_instance/2020-02-18", FlowNodeInstance20200218)
  <2> DEFINE a == ChangeColumn("FlowNodeInstances", "previousFlowNodeInstanceId", "TEXT")
  <2>1. a.table \in InstanceTables /\ Neutral("flow_node_instance/2020-02-18", a)
    BY <1>0, NeutralStatements DEF ChangeColumn
  <2> HIDE DEF a
  <2> QED
    BY <1>1, <2>1 DEF FlowNodeInstance20200218, a
<1> QED
  BY <1>5, <1>6, <1>7, <1>8, <1>9, <1>10, <1>11

\* flow_node_instance/03 changes the flow node instances and their tokens.
LEMMA MovingTables == \A s \in ToSet(FlowNodeInstance03) : s.table \in InstanceTables
<1>1. /\ AddPlace.table = Instances /\ RemovePlace.table = Tokens
  BY DEF AddPlace, RemovePlace, AddColumn, RemoveColumn
<1>2. \A s : Fills(s) => s.table = Instances
  BY DEF Fills
<1>3. ASSUME NEW i \in 1..11 PROVE FlowNodeInstance03[i].table \in {Instances, Tokens}
  <2>1. i = 1 \/ i \in 2..5 \/ i = 6 \/ i = 7 \/ i \in 8..11
    OBVIOUS
  <2> QED
    BY <1>1, <1>2, <2>1, MovingStatements
<1> QED
  BY <1>3, MovingStatements, InstanceNames DEF ToSet

\* What up() is going to do is about the tables of the script's repository.
LEMMA UpTables ==
  ASSUME NEW r \in Repositories, NEW name \in ToSet(ScriptsOf[r]), NEW db
  PROVE  IsAbout(Up(name, db), TablesOf[r])
<1>1. CASE r = "correlation"
  <2>1. name \in
        {"correlation/00", "correlation/01", "correlation/02", "correlation/03",
        "correlation/04", "correlation/2019-06-26",
        "correlation/2019-11-27"}
    BY <1>1 DEF ScriptsOf, Repositories, ToSet
  <2>2. TablesOf[r] = {"Correlations", "correlations_new"}
    BY <1>1 DEF TablesOf, Repositories
  <2>3. CASE name = "correlation/00"
    BY <2>2, <2>3, CorrelationTables, Zenon DEF Up
  <2>4. CASE name = "correlation/01"
    BY <2>2, <2>4, CorrelationTables, Zenon DEF Up
  <2>5. CASE name = "correlation/02"
    BY <2>2, <2>5, CorrelationTables, Zenon DEF Up
  <2>6. CASE name = "correlation/03"
    BY <2>2, <2>6, CorrelationTables, Zenon DEF Up
  <2>7. CASE name = "correlation/04"
    BY <2>2, <2>7, CorrelationTables, Zenon DEF Up
  <2>8. CASE name = "correlation/2019-06-26"
    BY <2>2, <2>8, CorrelationTables, Zenon DEF Up
  <2>9. CASE name = "correlation/2019-11-27"
    BY <2>2, <2>9, CorrelationTables, Zenon DEF Up
  <2> QED
    BY <2>1, <2>3, <2>4, <2>5, <2>6, <2>7, <2>8, <2>9
<1>2. CASE r = "cronjob_history"
  <2>1. name \in
        {"cronjob_history/2019-07-09"}
    BY <1>2 DEF ScriptsOf, Repositories, ToSet
  <2>2. TablesOf[r] = {"CronjobHistory"}
    BY <1>2 DEF TablesOf, Repositories
  <2>3. CASE name = "cronjob_history/2019-07-09"
    BY <2>2, <2>3, TaskTablesOnly, Zenon DEF Up
  <2> QED
    BY <2>1, <2>3
<1>3. CASE r = "external_task"
  <2>1. name \in
        {"external_task/00", "external_task/01", "external_task/02",
        "external_task/2019-06-26"}
    BY <1>3 DEF ScriptsOf, Repositories, ToSet
  <2>2. TablesOf[r] = TaskTables
    BY <1>3 DEF TablesOf, Repositories
  <2>3. CASE name = "external_task/00"
    BY <2>2, <2>3, TaskTablesOnly, Zenon DEF Up
  <2>4. CASE name = "external_task/01"
    BY <2>2, <2>4, TaskTablesOnly, Zenon DEF Up
  <2>5. CASE name = "external_task/02"
    BY <2>2, <2>5, TaskTablesOnly, Zenon DEF Up
  <2>6. CASE name = "external_task/2019-06-26"
    BY <2>2, <2>6, TaskTablesOnly, Zenon DEF Up
  <2> QED
    BY <2>1, <2>3, <2>4, <2>5, <2>6
<1>4. CASE r = "flow_node_instance"
  <2>1. name \in
        {"flow_node_instance/00", "flow_node_instance/01",
        "flow_node_instance/02", "flow_node_instance/03",
        "flow_node_instance/2019-04-03",
        "flow_node_instance/2019-06-26",
        "flow_node_instance/2019-10-10",
        "flow_node_instance/2020-02-18"}
    BY <1>4 DEF ScriptsOf, Repositories, ToSet
  <2>2. TablesOf[r] = InstanceTables
    BY <1>4 DEF TablesOf, Repositories
  <2>3. ASSUME IsNeutral(name, Up(name, db)) PROVE IsAbout(Up(name, db), InstanceTables)
    BY <2>3 DEF IsNeutral, IsAbout
  <2>4. CASE name = "flow_node_instance/00"
    <3>1. IsNeutral(name, Up(name, db))
      BY <2>4, InstanceScriptsNeutral, Zenon DEF Up
    <3> QED
      BY <2>2, <2>3, <3>1
  <2>5. CASE name = "flow_node_instance/01"
    <3>1. IsNeutral(name, Up(name, db))
      BY <2>5, InstanceScriptsNeutral, Zenon DEF Up
    <3> QED
      BY <2>2, <2>3, <3>1
  <2>6. CASE name = "flow_node_instance/02"
    <3>1. IsNeutral(name, Up(name, db))
      BY <2>6, InstanceScriptsNeutral, Zenon DEF Up
    <3> QED
      BY <2>2, <2>3, <3>1
  <2>7. CASE name = "flow_node_instance/03"
    <3>1. Up(name, db) = FlowNodeInstance03
      BY <2>7, Zenon DEF Up
    <3>2. IsSequence(FlowNodeInstance03)
      BY FlowNodeInstancePlans DEF IsPlan
    <3>3. \A s \in ToSet(FlowNodeInstance03) : s.table \in InstanceTables
      BY MovingTables
    <3> QED
      BY <2>2, <3>1, <3>2, <3>3 DEF IsAbout
  <2>8. CASE name = "flow_node_instance/2019-04-03"
    <3>1. IsNeutral(name, Up(name, db))
      BY <2>8, InstanceScriptsNeutral, Zenon DEF Up
    <3> QED
      BY <2>2, <2>3, <3>1
  <2>9. CASE name = "flow_node_instance/2019-06-26"
    <3>1. IsNeutral(name, Up(name, db))
      BY <2>9, InstanceScriptsNeutral, Zenon DEF Up
    <3> QED
      BY <2>2, <2>3, <3>1
  <2>10. CASE name = "flow_node_instance/2019-10-10"
    <3>1. IsNeutral(name, Up(name, db))
      BY <2>10, InstanceScriptsNeutral, Zenon DEF Up
    <3> QED
      BY <2>2, <2>3, <3>1
  <2>11. CASE name = "flow_node_instance/2020-02-18"
    <3>1. IsNeutral(name, Up(name, db))
      BY <2>11, InstanceScriptsNeutral, Zenon DEF Up
    <3> QED
      BY <2>2, <2>3, <3>1
  <2> QED
    BY <2>1, <2>4, <2>5, <2>6, <2>7, <2>8, <2>9, <2>10, <2>11
<1>5. CASE r = "process_model"
  <2>1. name \in
        {"process_model/00", "process_model/01", "process_model/02",
        "process_model/2019-06-26", "process_model/2019-11-08"}
    BY <1>5 DEF ScriptsOf, Repositories, ToSet
  <2>2. TablesOf[r] = {"ProcessDefinitions", "ProcessDefinitions_New"}
    BY <1>5 DEF TablesOf, Repositories
  <2>3. CASE name = "process_model/00"
    BY <2>2, <2>3, ModelTables, Zenon DEF Up
  <2>4. CASE name = "process_model/01"
    BY <2>2, <2>4, ModelTables, Zenon DEF Up
  <2>5. CASE name = "process_model/02"
    BY <2>2, <2>5, ModelTables, Zenon DEF Up
  <2>6. CASE name = "process_model/2019-06-26"
    BY <2>2, <2>6, ModelTables, Zenon DEF Up
  <2>7. CASE name = "process_model/2019-11-08"
    BY <2>2, <2>7, ModelTables, Zenon DEF Up
  <2> QED
    BY <2>1, <2>3, <2>4, <2>5, <2>6, <2>7
<1> QED
  BY <1>1, <1>2, <1>3, <1>4, <1>5 DEF Repositories

\* Only flow_node_instance/03 moves a column of these tables.
LEMMA UpNeutral ==
  ASSUME NEW name \in ScriptNames, name # "flow_node_instance/03", NEW db
  PROVE  \A s \in ToSet(Up(name, db)) : Neutral(name, s)
<1>1. PICK r \in Repositories : name \in ToSet(ScriptsOf[r])
  BY DEF ScriptNames
<1>2. CASE r # "flow_node_instance"
  <2>1. TablesOf[r] \intersect InstanceTables = {}
    BY <1>2 DEF TablesOf, Repositories, TaskTables, InstanceTables
  <2>2. \A s \in ToSet(Up(name, db)) : s.table \in TablesOf[r]
    BY <1>1, UpTables DEF IsAbout
  <2> QED
    BY <2>1, <2>2 DEF Neutral
<1>3. CASE r = "flow_node_instance"
  <2> SUFFICES IsNeutral(name, Up(name, db))
    BY DEF IsNeutral
  <2>1. name \in
        {"flow_node_instance/00", "flow_node_instance/01", "flow_node_instance/02",
        "flow_node_instance/2019-04-03", "flow_node_instance/2019-06-26",
        "flow_node_instance/2019-10-10", "flow_node_instance/2020-02-18"}
    BY <1>1, <1>3 DEF ScriptsOf, Repositories, ToSet
  <2>2. CASE name = "flow_node_instance/00"
    BY <2>2, InstanceScriptsNeutral, Zenon DEF Up
  <2>3. CASE name = "flow_node_instance/01"
    BY <2>3, InstanceScriptsNeutral, Zenon DEF Up
  <2>4. CASE name = "flow_node_instance/02"
    BY <2>4, InstanceScriptsNeutral, Zenon DEF Up
  <2>5. CASE name = "flow_node_instance/2019-04-03"
    BY <2>5, InstanceScriptsNeutral, Zenon DEF Up
  <2>6. CASE name = "flow_node_instance/2019-06-26"
    BY <2>6, InstanceScriptsNeutral, Zenon DEF Up
  <2>7. CASE name = "flow_node_instance/2019-10-10"
    BY <2>7, InstanceScriptsNeutral, Zenon DEF Up
  <2>8. CASE name = "flow_node_instance/2020-02-18"
    BY <2>8, InstanceScriptsNeutral, Zenon DEF Up
  <2> QED
    BY <2>1, <2>2, <2>3, <2>4, <2>5, <2>6, <2>7, <2>8
<1> QED
  BY <1>2, <1>3

\* What a script does with the rows it has selected moves no column either.
LEMMA ContinuationNeutral ==
  ASSUME NEW db, NEW s, NEW name, WellFormed(db), Succeeds(db, s) \/ s.op # "select"
  PROVE  \A x \in ToSet(Continuation(db, s)) : Neutral(name, x)
<1>1. CASE s.op # "select"
  <2>1. Continuation(db, s) = <<>>
    BY <1>1, ContinuationPlan
  <2> QED
    BY <2>1 DEF ToSet
<1>2. CASE s.op = "select"
  <2> DEFINE rows == db[s.table].rows
             queries == [i \in DOMAIN rows |->
                           QueryStates("active", i, rows[i].processInstanceId)]
  <2>1. \A use, i, instance : Neutral(name, QueryStates(use, i, instance))
    BY DEF QueryStates, With, DoubleQuoted, Select, Neutral
  <2>2. \A i, state : \A x \in ToSet(updateStateForId(i, state)) : Neutral(name, x)
    <3> TAKE i, state
    <3> DEFINE x == Caught(DoubleQuoted(SetCell("Correlations", i, "state", state)))
    <3>1. x.table = "Correlations"
      BY DEF Caught, DoubleQuoted, With, SetCell
    <3> HIDE DEF x
    <3>2. "Correlations" \notin InstanceTables
      BY DEF InstanceTables
    <3>3. Neutral(name, x)
      BY <3>1, <3>2 DEF Neutral
    <3>4. ToSet(<<x>>) = {x}
      BY DEF ToSet
    <3> QED
      BY <3>3, <3>4 DEF updateStateForId, x
  <2>3. CASE s.use = "copy tasks"
    <3>1. Continuation(db, s) = CopiesOf(rows)
      BY <1>2, <2>3, ContinuationPlan
    <3>2. \A row : InsertRow("external_tasks_new", row).table = "external_tasks_new"
      BY DEF InsertRow
    <3>3. \A x \in ToSet(CopiesOf(rows)) : x.table = "external_tasks_new"
      <4> HIDE DEF rows
      <4> QED
        BY <3>2 DEF CopiesOf, ToSet
    <3>4. "external_tasks_new" \notin InstanceTables
      BY DEF InstanceTables
    <3> QED
      BY <3>1, <3>3, <3>4 DEF Neutral
  <2>4. CASE s.use # "copy tasks"
    <3>1. \A x \in ToSet(queries) : Neutral(name, x)
      BY <2>1 DEF ToSet
    <3>2. \A x \in ToSet(SyncState(db, s)) : Neutral(name, x)
      <4>1. \A use, i, instance : ToSet(<<QueryStates(use, i, instance)>>)
                                    = {QueryStates(use, i, instance)}
        BY DEF ToSet
      <4>2. \A use, i, instance : \A x \in ToSet(<<QueryStates(use, i, instance)>>) :
              Neutral(name, x)
        BY <2>1, <4>1
      <4>3. \A x \in ToSet(<<>>) : Neutral(name, x)
        BY DEF ToSet
      <4> QED
        BY <2>2, <4>2, <4>3, ZenonT(30) DEF SyncState
    <3> HIDE DEF queries
    <3>3. Continuation(db, s) = queries \/ Continuation(db, s) = SyncState(db, s)
      BY <1>2, <2>4, ZenonT(30) DEF Continuation, queries, rows
    <3> QED
      BY <3>1, <3>2, <3>3
  <2> QED
    BY <2>3, <2>4
<1> QED
  BY <1>1, <1>2

-----------------------------------------------------------------------------
(* The inductive invariant.                                                *)

\* The tokens are dropped when their copies name the same process instances.
CopySays(p, db, columns) ==
  p # <<>> /\ Head(p).op = "dropTable" /\ Head(p).table = Tokens =>
    Said(db, Tokens, columns) \subseteq Said(db, NewTokens, columns)

\* What is left of flow_node_instance/03 after k statements.
IsLeft(p, k) ==
  /\ k \in 0..11
  /\ DOMAIN p = 1..(11 - k)
  /\ \A i \in 1..(11 - k) : p[i] = FlowNodeInstance03[k + i]

\* What is left of any script moves no column, or does so in order.
MovesInOrder(columns) ==
  /\ script # "flow_node_instance/03" => \A s \in ToSet(todo) : Neutral(script, s)
  /\ script = "flow_node_instance/03" =>
       \E k \in 0..11 : IsLeft(todo, k) /\ Moved(databases[Database], k, columns)

\* Only flow_node_instance/03 makes the flow node instances name a process
\* instance, and only flow_node_instance/02 makes their temporary table.
InstancesLogged(columns) ==
  \A d \in Databases :
    /\ Said(databases[d], Instances, columns) # {} => Logged("flow_node_instance", 3)
    /\ Exists(databases[d], NewInstances) => Logged("flow_node_instance", 1)

InstancesInv(columns) ==
  /\ \A d \in Databases : InPlace(databases[d], columns)
  /\ InstancesLogged(columns)
  /\ CopySays(todo, databases[Database], columns)
  /\ MovesInOrder(columns)

\* The scripts of the flow node instances run in their order.
LEMMA InstanceScriptRuns ==
  ASSUME RunnerInv
  PROVE  /\ script = "flow_node_instance/00" => ~Logged("flow_node_instance", 1)
         /\ script = "flow_node_instance/02" =>
              Logged("flow_node_instance", 1) /\ ~Logged("flow_node_instance", 3)
         /\ script = "flow_node_instance/03" => Logged("flow_node_instance", 3)
<1> DEFINE names == {"flow_node_instance/00", "flow_node_instance/02", "flow_node_instance/03"}
           f == "flow_node_instance"
<1>1. /\ ScriptsOf[f][1] = "flow_node_instance/00"
      /\ ScriptsOf[f][3] = "flow_node_instance/02"
      /\ ScriptsOf[f][4] = "flow_node_instance/03"
      /\ 1 \in DOMAIN ScriptsOf[f] /\ 3 \in DOMAIN ScriptsOf[f] /\ 4 \in DOMAIN ScriptsOf[f]
      /\ f \in Repositories
  BY DEF ScriptsOf, Repositories
<1>2. NoScript \notin names
  BY DEF NoScript
<1>3. ASSUME script \in names
      PROVE  /\ script = "flow_node_instance/00" => ~Logged(f, 1)
             /\ script = "flow_node_instance/02" => Logged(f, 1) /\ ~Logged(f, 3)
             /\ script = "flow_node_instance/03" => Logged(f, 3)
  <2>1. PICK i \in DOMAIN Scripts :
          /\ script = Scripts[i] /\ ~Logged(Repository, i)
          /\ \A j \in 1..(i - 1) : Logged(Repository, j)
    BY <1>2, <1>3 DEF RunnerInv, RunningScriptIsNext
  <2>2. Repository \in Repositories
    BY CurrentFacts DEF RunnerInv
  <2> HIDE DEF f
  <2>3. /\ script = "flow_node_instance/00" => Repository = f /\ i = 1
        /\ script = "flow_node_instance/02" => Repository = f /\ i = 3
        /\ script = "flow_node_instance/03" => Repository = f /\ i = 4
    BY <1>1, <2>1, <2>2, ScriptNamesUnique DEF Scripts
  <2> QED
    BY <1>3, <2>1, <2>3
<1> QED
  BY <1>3

\* What the log says of them stays.
LEMMA InstanceLogStays ==
  ASSUME RunnerInv, [Next]_vars
  PROVE  \A i \in {1, 3} : Logged("flow_node_instance", i) => Logged("flow_node_instance", i)'
<1>1. CASE UNCHANGED meta
  BY <1>1 DEF Databases, Logged, DatabaseOf
<1>2. CASE LogMigration
  <2>1. meta' = [meta EXCEPT ![Database] = @ \union {script}]
    BY <1>2 DEF LogMigration
  <2> QED
    BY <2>1 DEF Databases, Logged, DatabaseOf
<1> QED
  BY <1>1, <1>2
  DEF Next, Progress, vars, store, StartRuntime, BeginScript, SendUnawaited,
      ExecuteStatement, StatementFails, UnawaitedTakesEffect, FinishRepository, Stop

\* The tokens are copied: their copies name the same process instances.
LEMMA TokensCopied ==
  ASSUME NEW db, NEW s, WellFormed(db), Allowed(s), Succeeds(db, s),
         s.op = "copyRows", s.table = Tokens, NEW columns, AreCarried(columns)
  PROVE  Said(After(db, s), Tokens, columns) \subseteq Said(After(db, s), NewTokens, columns)
<1> DEFINE key == "processInstanceId"
<1>1. PICK u \in Rebuilt : /\ s.table = u /\ s.to = TemporaryOf[u]
                           /\ s.columns = DOMAIN MigratedColumns[u]
  BY DEF Allowed
<1>2. s.to = NewTokens /\ CarriedColumns \subseteq s.columns /\ Tokens # NewTokens
  BY <1>1, InstanceNames, CopiedColumns
<1>3. columns \subseteq s.columns /\ key \in s.columns
  BY <1>2 DEF AreCarried, CarriedColumns
<1>4. \A x : Spares(s, x, columns \union {key})
  BY DEF Spares
<1> HIDE DEF key
<1>5. /\ ValuesIn(After(db, s), Tokens, columns, key) = Resulting(db, s, Tokens, columns, key)
      /\ ValuesIn(After(db, s), NewTokens, columns, key)
           = Resulting(db, s, NewTokens, columns, key)
  BY <1>3, <1>4, ValuesBy
<1>6. /\ Resulting(db, s, Tokens, columns, key) = ValuesIn(db, Tokens, columns, key)
      /\ Resulting(db, s, NewTokens, columns, key)
           = ValuesIn(db, NewTokens, columns, key) \union ValuesIn(db, Tokens, columns, key)
  BY <1>2, <1>3 DEF Resulting
<1> QED
  BY <1>5, <1>6 DEF Said, key

\* A table that has nothing to do with them is dropped: they say what they said.
LEMMA OtherDropped ==
  ASSUME NEW db, NEW s, WellFormed(db), Allowed(s), Succeeds(db, s),
         s.op = "dropTable", s.table \notin InstanceTables
  PROVE  \A x \in InstanceTables : \A columns : Said(After(db, s), x, columns) = Said(db, x, columns)
<1> SUFFICES ASSUME NEW x \in InstanceTables, NEW columns
             PROVE  Said(After(db, s), x, columns) = Said(db, x, columns)
  OBVIOUS
<1> DEFINE key == "processInstanceId"
<1>1. Spares(s, x, columns \union {key}) /\ s.table # x
  BY DEF Spares
<1> HIDE DEF key
<1>2. ValuesIn(After(db, s), x, columns, key) = Resulting(db, s, x, columns, key)
  BY <1>1, ValuesBy
<1>3. Resulting(db, s, x, columns, key) = ValuesIn(db, x, columns, key)
  BY <1>1 DEF Resulting
<1> QED
  BY <1>2, <1>3 DEF Said, key

\* A statement that moves no column keeps what the invariant says of a database.
LEMMA NeutralStored ==
  ASSUME RunnerInv, NEW columns, AreCarried(columns), NEW db, NEW s,
         WellFormed(db), Allowed(s), Succeeds(db, s), Neutral(script, s), InPlace(db, columns),
         Said(db, Instances, columns) # {} => Logged("flow_node_instance", 3),
         Exists(db, NewInstances) => Logged("flow_node_instance", 1),
         KeptRows(After(db, s), Instances) = KeptRows(db, Instances),
         s.op = "dropTable" /\ s.table = Tokens =>
           Said(db, Tokens, columns) \subseteq Said(db, NewTokens, columns)
  PROVE  /\ InPlace(After(db, s), columns)
         /\ AllSaid(After(db, s), columns) = AllSaid(db, columns)
         /\ Said(After(db, s), Instances, columns) # {} => Logged("flow_node_instance", 3)
         /\ Exists(After(db, s), NewInstances) => Logged("flow_node_instance", 1)
<1>1. /\ s.op = "createTable" /\ s.table = Instances => script = "flow_node_instance/00"
      /\ s.op = "createTable" /\ s.table = NewInstances => script = "flow_node_instance/02"
      /\ s.op = "dropTable" /\ s.table = Instances => script = "flow_node_instance/02"
  BY InstanceNames DEF Neutral
<1>2. s.op = "createTable" /\ s.table = Instances => ~Exists(db, NewInstances)
  BY <1>1, InstanceScriptRuns
<1>3. s.op = "dropTable" /\ s.table = Instances => Said(db, Instances, columns) = {}
  BY <1>1, InstanceScriptRuns
<1>4. /\ InPlace(After(db, s), columns)
      /\ AllSaid(After(db, s), columns) = AllSaid(db, columns)
      /\ Said(After(db, s), Instances, columns) \subseteq Said(db, Instances, columns)
  BY <1>2, <1>3, NeutralKeeps
<1>5. Exists(After(db, s), NewInstances) => Logged("flow_node_instance", 1)
  <2> SUFFICES ASSUME Exists(After(db, s), NewInstances), ~Exists(db, NewInstances)
               PROVE  Logged("flow_node_instance", 1)
    OBVIOUS
  <2>1. ~(s.op = "renameTable" /\ s.to = NewInstances)
    BY InstanceNames DEF Allowed
  <2>2. s.op = "createTable" /\ s.table = NewInstances
    BY <2>1, ExistsBy
  <2> QED
    BY <1>1, <2>2, InstanceScriptRuns
<1> QED
  BY <1>4, <1>5

\* flow_node_instance/03 adds, fills and removes columns.
LEMMA MovesOnly ==
  ASSUME NEW i \in 1..11
  PROVE  FlowNodeInstance03[i].op \in {"addColumn", "fillFrom", "removeColumn"}
<1> DEFINE s == FlowNodeInstance03[i]
<1>1. i = 1 \/ i \in 2..5 \/ i = 6 \/ i = 7 \/ i \in 8..11
  OBVIOUS
<1>2. i = 1 => s.op = "addColumn"
  <2>1. AddPlace.op = "addColumn"
    BY DEF AddPlace, AddColumn
  <2> QED
    BY <2>1, MovingStatements
<1>3. i \in 2..5 => s.op = "addColumn"
  BY MovingStatements
<1>4. i = 6 => s.op = "fillFrom"
  BY MovingStatements DEF Fills
<1>5. i = 7 => s.op = "removeColumn"
  <2>1. RemovePlace.op = "removeColumn"
    BY DEF RemovePlace, RemoveColumn
  <2> QED
    BY <2>1, MovingStatements
<1>6. i \in 8..11 => s.op = "removeColumn"
  BY MovingStatements
<1> QED
  BY <1>1, <1>2, <1>3, <1>4, <1>5, <1>6

\* So does a statement of flow_node_instance/03.
LEMMA MoveStored ==
  ASSUME NEW columns, AreCarried(columns), NEW db, NEW k \in 0..10, NEW s,
         s = FlowNodeInstance03[k + 1], WellFormed(db), Allowed(s), Succeeds(db, s),
         InPlace(db, columns), Moved(db, k, columns),
         KeptRows(After(db, s), Instances) = KeptRows(db, Instances)
  PROVE  /\ InPlace(After(db, s), columns)
         /\ AllSaid(After(db, s), columns) = AllSaid(db, columns)
         /\ Exists(After(db, s), NewInstances) <=> Exists(db, NewInstances)
         /\ Moved(After(db, s), k + 1, columns)
         /\ s.op \in {"addColumn", "fillFrom", "removeColumn"}
<1>1. s.op \in {"addColumn", "fillFrom", "removeColumn"}
  <2>1. k + 1 \in 1..11
    OBVIOUS
  <2> QED
    BY <2>1, MovesOnly
<1>2. /\ Moved(After(db, s), k + 1, columns)
      /\ AllSaid(After(db, s), columns) = AllSaid(db, columns)
      /\ Said(After(db, s), Tokens, columns) \union Said(After(db, s), NewTokens, columns)
           \subseteq Said(db, Tokens, columns) \union Said(db, NewTokens, columns)
  BY MoveGoesOn
<1>3. \A y : Exists(After(db, s), y) <=> Exists(db, y)
  BY <1>1, ExistsBy
<1>4. Exists(After(db, s), Instances) =>
        KeptIn(After(db, s), Instances, NewInstances) \subseteq KeptIn(After(db, s), Instances, Instances)
  BY <1>1, LeftoverStays DEF InPlace
<1>5. InPlace(After(db, s), columns)
  BY <1>2, <1>4, InPlaceAfter
<1> QED
  BY <1>1, <1>2, <1>3, <1>5

\* What is left of flow_node_instance/03 after one more statement.
LEMMA OneStatementLess ==
  ASSUME NEW p, IsSequence(p), p # <<>>, NEW k, IsLeft(p, k)
  PROVE  /\ k \in 0..10 /\ Head(p) = FlowNodeInstance03[k + 1]
         /\ IsLeft(Tail(p), k + 1)
<1> DEFINE q == Tail(p)
           f == FlowNodeInstance03
<1>1. /\ Len(p) \in Nat /\ Len(p) > 0 /\ DOMAIN p = 1..Len(p) /\ Head(p) = p[1]
      /\ DOMAIN q = 1..(Len(p) - 1)
      /\ \A i \in 1..(Len(p) - 1) : q[i] = p[i + 1]
  BY TailOf
<1>2. k \in 0..11 /\ DOMAIN p = 1..(11 - k) /\ \A i \in 1..(11 - k) : p[i] = f[k + i]
  BY DEF IsLeft
<1> HIDE DEF q, f
<1>3. k \in 0..10 /\ Len(p) = 11 - k
  BY ONLY <1>1, <1>2
<1>4. Head(p) = f[k + 1]
  <2>1. 1 \in 1..(11 - k)
    BY ONLY <1>3
  <2> QED
    BY <1>1, <1>2, <2>1
<1>5. DOMAIN q = 1..(11 - (k + 1)) /\ k + 1 \in 0..11
  BY ONLY <1>1, <1>3
<1>6. ASSUME NEW i \in 1..(11 - (k + 1)) PROVE q[i] = f[(k + 1) + i]
  <2>1. i \in 1..(Len(p) - 1) /\ i + 1 \in 1..(11 - k) /\ k + (i + 1) = (k + 1) + i
    BY ONLY <1>3, i \in 1..(11 - (k + 1))
  <2>2. q[i] = p[i + 1] /\ p[i + 1] = f[k + (i + 1)]
    BY ONLY <1>1, <1>2, <2>1
  <2> QED
    BY ONLY <2>1, <2>2
<1> QED
  BY <1>3, <1>4, <1>5, <1>6 DEF IsLeft, q, f

\* No table is dropped first in what is ordered.
LEMMA OrderedSays ==
  ASSUME NEW p, IsOrdered(p), NEW db, NEW columns PROVE CopySays(p, db, columns)
<1> SUFFICES ASSUME p # <<>>, Head(p).op = "dropTable", Head(p).table = Tokens PROVE FALSE
  BY DEF CopySays
<1>1. /\ Len(p) \in Nat /\ Len(p) > 0 /\ DOMAIN p = 1..Len(p) /\ Head(p) = p[1]
  BY TailOf DEF IsOrdered
<1>2. 1 \in DOMAIN p
  BY ONLY <1>1
<1>3. Tokens \notin TaskTables
  BY DEF TaskTables, Tasks, Tokens
<1>4. Drops(p, 1)
  BY <1>1, <1>2, <1>3 DEF IsOrdered, Removes
<1> QED
  BY <1>4 DEF Drops

\* What is left after a statement is ordered, unless it copied rows.
LEMMA ExecutedOrdered ==
  ASSUME RunnerInv, TablesInv, RowsInv, ExecuteStatement, Head(todo).op # "copyRows"
  PROVE  IsOrdered(todo')
<1> DEFINE db == databases[Database]
           s == Head(todo)
<1>1. /\ todo # <<>> /\ IsRest(Tail(todo)) /\ WellFormed(db)
      /\ s.op # "setCell" => Succeeds(db, s)
      /\ todo' = Continuation(db, s) \o Tail(todo)
  BY Executed
<1>2. IsOrdered(Tail(todo))
  BY <1>1, SafeTail DEF TablesInv, RowsInv
<1>3. CASE s.op # "select"
  <2>1. todo' = Tail(todo)
    BY <1>1, <1>3, ContinuationPlan, NothingBefore DEF IsRest
  <2> QED
    BY <1>2, <2>1
<1>4. CASE s.op = "select"
  <2>1. IsOrdered(Continuation(db, s))
    BY <1>1, <1>4, ContinuationOrdered
  <2> QED
    BY <1>1, <1>2, <2>1, OrderedJoined
<1> QED
  BY <1>3, <1>4

\* After a statement the tokens are about to be dropped only if it copied them.
LEMMA ExecutedSays ==
  ASSUME RunnerInv, TablesInv, RowsInv, ExecuteStatement, NEW columns, AreCarried(columns)
  PROVE  CopySays(todo', databases'[Database], columns)
<1> DEFINE db == databases[Database]
           s == Head(todo)
           q == Tail(todo)
<1>1. CASE s.op # "copyRows"
  BY <1>1, ExecutedOrdered, OrderedSays
<1>2. CASE s.op = "copyRows"
  <2>1. /\ todo # <<>> /\ Allowed(s) /\ IsRest(q) /\ WellFormed(db) /\ Succeeds(db, s)
        /\ todo' = Continuation(db, s) \o q
        /\ databases'[Database] = After(db, s)
    BY <1>2, Executed
  <2>2. todo' = q
    BY <1>2, <2>1, ContinuationPlan, NothingBefore DEF IsRest
  <2> SUFFICES ASSUME q # <<>>, Head(q).op = "dropTable", Head(q).table = Tokens
               PROVE  Said(After(db, s), Tokens, columns)
                        \subseteq Said(After(db, s), NewTokens, columns)
    BY <2>1, <2>2 DEF CopySays
  <2>3. /\ Len(todo) \in Nat /\ Len(todo) > 0 /\ DOMAIN todo = 1..Len(todo) /\ s = todo[1]
        /\ DOMAIN q = 1..(Len(todo) - 1)
        /\ \A i \in 1..(Len(todo) - 1) : q[i] = todo[i + 1]
    BY <2>1, TailOf DEF TablesInv, IsRest
  <2>4. Len(q) \in Nat /\ Len(q) > 0 /\ DOMAIN q = 1..Len(q) /\ Head(q) = q[1]
    BY <2>1, TailOf DEF IsRest
  <2>5. IsSafe(todo, db)
    BY DEF RowsInv
  <2> HIDE DEF q, s, db
  <2>6. 2 \in DOMAIN todo /\ todo[2] = Head(q)
    BY ONLY <2>3, <2>4
  <2>7. Tokens \notin TaskTables
    BY DEF TaskTables, Tasks, Tokens
  <2>8. Drops(todo, 2)
    BY <2>5, <2>6, <2>7 DEF IsSafe, Removes
  <2>9. todo[2 - 1].table = todo[2].table /\ 2 - 1 = 1
    BY <2>8 DEF Drops
  <2>10. s.table = Tokens
    BY <2>3, <2>6, <2>9
  <2> QED
    BY <1>2, <2>1, <2>10, TokensCopied
<1> QED
  BY <1>1, <1>2

\* Where the databases are as they were, so is what is in them.
LEMMA InstancesUntouched ==
  ASSUME RunnerInv, NEW columns, InstancesInv(columns), [Next]_vars, UNCHANGED databases
  PROVE  /\ (\A d \in Databases : InPlace(databases[d], columns))'
         /\ InstancesLogged(columns)'
<1>1. Databases' = Databases
  BY LogStays
<1>2. /\ Logged("flow_node_instance", 1) => Logged("flow_node_instance", 1)'
      /\ Logged("flow_node_instance", 3) => Logged("flow_node_instance", 3)'
  BY InstanceLogStays
<1> QED
  BY <1>1, <1>2 DEF InstancesInv, InstancesLogged

\* The running database is the same one as long as the repository and the log's
\* layout are.
LEMMA SameDatabase ==
  ASSUME UNCHANGED <<meta, current>>
  PROVE  Databases' = Databases /\ Database' = Database
BY DEF Databases, Database, DatabaseOf, Repository

\* A statement that is waited for keeps the invariant.
LEMMA InstancesExecute ==
  ASSUME RunnerInv, TablesInv, RowsInv, NEW columns, AreCarried(columns),
         InstancesInv(columns), [Next]_vars, ExecuteStatement
  PROVE  /\ InstancesInv(columns)'
         /\ \A d \in Databases : AllSaid(databases'[d], columns) = AllSaid(databases[d], columns)
<1> DEFINE db == databases[Database]
           s == Head(todo)
           after == databases'[Database]
           log(i) == Logged("flow_node_instance", i)
<1>1. /\ todo # <<>> /\ Allowed(s) /\ IsRest(Tail(todo)) /\ WellFormed(db)
      /\ s.op # "setCell" => Succeeds(db, s)
      /\ todo' = Continuation(db, s) \o Tail(todo)
      /\ Databases' = Databases /\ Database' = Database /\ Database \in Databases
      /\ after = IF Succeeds(db, s) THEN After(db, s) ELSE db
      /\ \A d \in Databases \ {Database} : databases'[d] = databases[d]
  BY Executed
<1>2. script' = script
  BY DEF ExecuteStatement
<1>3. KeptRows(after, Instances) = KeptRows(db, Instances)
  BY <1>1, RowsStep, InstanceNames
<1>4. (log(1) => log(1)') /\ (log(3) => log(3)')
  BY InstanceLogStays
<1>5. CopySays(todo', after, columns)
  BY ExecutedSays
<1>6. /\ InPlace(db, columns)
      /\ Said(db, Instances, columns) # {} => log(3)
      /\ Exists(db, NewInstances) => log(1)
      /\ s.op = "dropTable" /\ s.table = Tokens =>
           Said(db, Tokens, columns) \subseteq Said(db, NewTokens, columns)
      /\ MovesInOrder(columns)
  BY <1>1 DEF InstancesInv, InstancesLogged, CopySays
<1>7. /\ \A d \in Databases : InPlace(databases[d], columns)
      /\ InstancesLogged(columns)
  BY DEF InstancesInv
<1>8. ToSet(todo') = ToSet(Continuation(db, s)) \union ToSet(Tail(todo))
  <2>1. IsSequence(Continuation(db, s)) /\ IsSequence(Tail(todo))
    BY <1>1, ContinuationPlan DEF IsRest
  <2>2. todo' = Continuation(db, s) \o Tail(todo)
    BY <1>1
  <2> HIDE DEF db, s
  <2> QED
    BY ONLY <2>1, <2>2, Concatenated
<1>9. ToSet(todo) = {s} \union ToSet(Tail(todo)) /\ IsSequence(todo)
  BY <1>1, HeadAndTail DEF TablesInv, IsRest
<1> HIDE DEF db, s, after, log
<1>10. ASSUME /\ InPlace(after, columns)
              /\ AllSaid(after, columns) = AllSaid(db, columns)
              /\ Said(after, Instances, columns) # {} => log(3)
              /\ Exists(after, NewInstances) => log(1)
              /\ MovesInOrder(columns)'
       PROVE  /\ InstancesInv(columns)'
              /\ \A d \in Databases :
                   AllSaid(databases'[d], columns) = AllSaid(databases[d], columns)
  <2>1. \A d \in Databases : d = Database \/ databases'[d] = databases[d]
    BY <1>1
  <2>2. \A d \in Databases : AllSaid(databases'[d], columns) = AllSaid(databases[d], columns)
    BY <1>10, <2>1 DEF db, after
  <2>3. \A d \in Databases : InPlace(databases'[d], columns)
    BY <1>7, <1>10, <2>1 DEF after
  <2>4. \A d \in Databases :
          /\ Said(databases'[d], Instances, columns) # {} => log(3)'
          /\ Exists(databases'[d], NewInstances) => log(1)'
    BY <1>4, <1>7, <1>10, <2>1 DEF after, InstancesLogged, log
  <2>5. InstancesLogged(columns)'
    BY <1>1, <2>4 DEF InstancesLogged, log
  <2>6. CopySays(todo, databases[Database], columns)'
    BY <1>1, <1>5 DEF after
  <2> QED
    BY <1>1, <1>10, <2>2, <2>3, <2>5, <2>6 DEF InstancesInv
<1>11. CASE script # "flow_node_instance/03"
  <2>1. \A x \in ToSet(todo) : Neutral(script, x)
    BY <1>6, <1>11 DEF MovesInOrder
  <2>2. MovesInOrder(columns)'
    <3>1. \A x \in ToSet(Continuation(db, s)) : Neutral(script, x)
      BY <1>1, ContinuationNeutral
    <3> QED
      BY <1>2, <1>8, <1>9, <1>11, <2>1, <3>1 DEF MovesInOrder
  <2>3. CASE Succeeds(db, s)
    <3>1. after = After(db, s)
      BY <1>1, <2>3
    <3>2. Neutral(script, s)
      BY <1>9, <2>1
    <3>3. /\ InPlace(after, columns)
          /\ AllSaid(after, columns) = AllSaid(db, columns)
          /\ Said(after, Instances, columns) # {} => log(3)
          /\ Exists(after, NewInstances) => log(1)
      BY <1>1, <1>3, <1>6, <2>3, <3>1, <3>2, NeutralStored DEF log
    <3> QED
      BY <1>10, <2>2, <3>3
  <2>4. CASE ~Succeeds(db, s)
    <3>1. after = db
      BY <1>1, <2>4
    <3> QED
      BY <1>6, <1>10, <2>2, <3>1
  <2> QED
    BY <2>3, <2>4
<1>12. CASE script = "flow_node_instance/03"
  <2>1. PICK k \in 0..11 : IsLeft(todo, k) /\ Moved(db, k, columns)
    BY <1>6, <1>12 DEF MovesInOrder, db
  <2>2. /\ k \in 0..10 /\ s = FlowNodeInstance03[k + 1] /\ IsLeft(Tail(todo), k + 1)
    BY <1>1, <1>9, <2>1, OneStatementLess DEF s
  <2>3. k + 1 \in 0..11 /\ k + 1 \in 1..11
    BY <2>2
  <2>4. s.op # "setCell" /\ s.op # "select"
    BY <2>2, <2>3, MovesOnly
  <2>5. Succeeds(db, s) /\ after = After(db, s)
    BY <1>1, <2>4
  <2>6. todo' = Tail(todo)
    BY <1>1, <2>4, ContinuationPlan, NothingBefore DEF IsRest
  <2>7. /\ InPlace(after, columns)
        /\ AllSaid(after, columns) = AllSaid(db, columns)
        /\ Exists(after, NewInstances) <=> Exists(db, NewInstances)
        /\ Moved(after, k + 1, columns)
    <3>1. /\ WellFormed(db) /\ Allowed(s) /\ Succeeds(db, s) /\ InPlace(db, columns)
          /\ Moved(db, k, columns) /\ k \in 0..10 /\ s = FlowNodeInstance03[k + 1]
          /\ KeptRows(After(db, s), Instances) = KeptRows(db, Instances)
      BY <1>1, <1>3, <1>6, <2>1, <2>2, <2>5
    <3>2. /\ InPlace(After(db, s), columns)
          /\ AllSaid(After(db, s), columns) = AllSaid(db, columns)
          /\ Exists(After(db, s), NewInstances) <=> Exists(db, NewInstances)
          /\ Moved(After(db, s), k + 1, columns)
      BY <3>1, MoveStored
    <3> QED
      BY <2>5, <3>2
  <2>8. log(3)
    BY <1>12, InstanceScriptRuns DEF log
  <2>9. MovesInOrder(columns)'
    BY <1>1, <1>2, <1>12, <2>2, <2>3, <2>6, <2>7 DEF MovesInOrder, after
  <2> QED
    BY <1>6, <1>10, <2>7, <2>8, <2>9
<1> QED
  BY <1>11, <1>12

\* Nor does one that nobody waits for disturb it: it drops another table.
LEMMA InstancesDropped ==
  ASSUME RunnerInv, TablesInv, RowsInv, NEW columns, AreCarried(columns),
         InstancesInv(columns), [Next]_vars, UnawaitedTakesEffect
  PROVE  /\ InstancesInv(columns)'
         /\ \A d \in Databases : AllSaid(databases'[d], columns) = AllSaid(databases[d], columns)
<1> DEFINE db == databases[Database]
           s == Head(unawaited)
           after == databases'[Database]
           log(i) == Logged("flow_node_instance", i)
<1>1. /\ Allowed(s) /\ s.op = "dropTable" /\ s.table = "external_tasks_new" /\ WellFormed(db)
      /\ Databases' = Databases /\ Database' = Database /\ Database \in Databases
      /\ after = IF Succeeds(db, s) THEN After(db, s) ELSE db
      /\ \A d \in Databases \ {Database} : databases'[d] = databases[d]
  BY TakesEffect
<1>2. script' = script /\ todo' = todo
  BY DEF UnawaitedTakesEffect
<1>3. KeptRows(after, Instances) = KeptRows(db, Instances)
  BY <1>1, RowsStep, InstanceNames
<1>4. (log(1) => log(1)') /\ (log(3) => log(3)')
  BY InstanceLogStays
<1>5. s.table \notin InstanceTables
  BY <1>1 DEF InstanceTables
<1>6. /\ InPlace(db, columns)
      /\ Said(db, Instances, columns) # {} => log(3)
      /\ Exists(db, NewInstances) => log(1)
      /\ CopySays(todo, db, columns)
      /\ MovesInOrder(columns)
  BY <1>1 DEF InstancesInv, InstancesLogged
<1>7. /\ \A d \in Databases : InPlace(databases[d], columns)
      /\ InstancesLogged(columns)
  BY DEF InstancesInv
<1>8. Neutral(script, s) /\ s.table # Tokens
  BY <1>5, InstanceNames DEF Neutral
<1> HIDE DEF db, s, after, log
<1>9. /\ InPlace(after, columns)
      /\ AllSaid(after, columns) = AllSaid(db, columns)
      /\ Said(after, Instances, columns) # {} => log(3)
      /\ Exists(after, NewInstances) => log(1)
      /\ \A x \in InstanceTables : \A c : Said(after, x, c) = Said(db, x, c)
  <2>1. CASE Succeeds(db, s)
    <3>1. after = After(db, s)
      BY <1>1, <2>1
    <3>2. /\ InPlace(after, columns)
          /\ AllSaid(after, columns) = AllSaid(db, columns)
          /\ Said(after, Instances, columns) # {} => log(3)
          /\ Exists(after, NewInstances) => log(1)
      BY <1>1, <1>3, <1>6, <1>8, <2>1, <3>1, NeutralStored DEF log
    <3>3. \A x \in InstanceTables : \A c : Said(after, x, c) = Said(db, x, c)
      BY <1>1, <1>5, <2>1, <3>1, OtherDropped
    <3> QED
      BY <3>2, <3>3
  <2>2. CASE ~Succeeds(db, s)
    <3>1. after = db
      BY <1>1, <2>2
    <3> QED
      BY <1>6, <3>1
  <2> QED
    BY <2>1, <2>2
<1>10. \A d \in Databases : d = Database \/ databases'[d] = databases[d]
  BY <1>1
<1>11. \A d \in Databases : AllSaid(databases'[d], columns) = AllSaid(databases[d], columns)
  BY <1>9, <1>10 DEF db, after
<1>12. \A d \in Databases : InPlace(databases'[d], columns)
  BY <1>7, <1>9, <1>10 DEF after
<1>13. InstancesLogged(columns)'
  <2>1. \A d \in Databases :
          /\ Said(databases'[d], Instances, columns) # {} => log(3)'
          /\ Exists(databases'[d], NewInstances) => log(1)'
    BY <1>4, <1>7, <1>9, <1>10 DEF after, InstancesLogged, log
  <2> QED
    BY <1>1, <2>1 DEF InstancesLogged, log
<1>14. CopySays(todo, databases[Database], columns)'
  <2>1. /\ Said(after, Tokens, columns) = Said(db, Tokens, columns)
        /\ Said(after, NewTokens, columns) = Said(db, NewTokens, columns)
    BY <1>9, InstanceNames
  <2>2. CopySays(todo, after, columns)
    BY <1>6, <2>1 DEF CopySays
  <2> QED
    BY <1>1, <1>2, <2>2 DEF after
<1>15. MovesInOrder(columns)'
  <2>1. \A k : Moved(db, k, columns) => Moved(after, k, columns)
    <3>1. Blank(db, Instances) => Blank(after, Instances)
      BY <1>9, InstanceNames DEF Blank
    <3>2. /\ Said(after, Tokens, columns) = Said(db, Tokens, columns)
          /\ Said(after, Instances, columns) = Said(db, Instances, columns)
      BY <1>9, InstanceNames
    <3> QED
      BY <3>1, <3>2 DEF Moved
  <2> QED
    BY <1>1, <1>2, <1>6, <2>1 DEF MovesInOrder, db, after
<1> QED
  BY <1>1, <1>11, <1>12, <1>13, <1>14, <1>15 DEF InstancesInv

\* Every step keeps the invariant, and what is said of process instances.
LEMMA InstancesStep ==
  ASSUME RunnerInv, TablesInv, RowsInv, NEW columns, AreCarried(columns),
         InstancesInv(columns), [Next]_vars
  PROVE  /\ InstancesInv(columns)'
         /\ \A d \in Databases : AllSaid(databases'[d], columns) = AllSaid(databases[d], columns)
<1>1. Databases' = Databases
  BY LogStays
<1>2. CASE StartRuntime \/ LogMigration \/ FinishRepository \/ Stop
  <2>1. UNCHANGED databases
    BY <1>2 DEF StartRuntime, LogMigration, FinishRepository, Stop, store
  <2>2. todo' = <<>> /\ script' = NoScript
    BY <1>2
    DEF StartRuntime, LogMigration, FinishRepository, Stop, RunnerInv,
        TodoBelongsToScript, RunningScriptIsNext
  <2>3. CopySays(todo, databases[Database], columns)'
    BY <2>2 DEF CopySays
  <2>4. MovesInOrder(columns)'
    BY <2>2 DEF MovesInOrder, NoScript, ToSet
  <2> QED
    BY <1>1, <2>1, <2>3, <2>4, InstancesUntouched DEF InstancesInv
<1>3. CASE BeginScript
  <2>1. PICK i \in DOMAIN Scripts :
          script' = Scripts[i] /\ todo' = Up(Scripts[i], databases[Database])
    BY <1>3 DEF BeginScript
  <2>2. UNCHANGED databases
    BY <1>3 DEF BeginScript, store
  <2>3. Scripts[i] \in ScriptNames
    BY CurrentFacts DEF RunnerInv
  <2>4. CopySays(todo, databases[Database], columns)'
    BY <2>1, <2>3, UpOrdered, OrderedSays
  <2>5. MovesInOrder(columns)'
    <3>1. CASE script' # "flow_node_instance/03"
      BY <2>1, <2>3, <3>1, UpNeutral DEF MovesInOrder
    <3>2. CASE script' = "flow_node_instance/03"
      <4>1. todo' = FlowNodeInstance03
        BY <2>1, <3>2, Zenon DEF Up
      <4>2. IsLeft(todo', 0)
        <5>1. /\ \A j \in 1..11 : 0 + j = j
              /\ 0 \in 0..11 /\ 11 - 0 = 11
          OBVIOUS
        <5> QED
          BY <4>1, <5>1, MovingStatements DEF IsLeft
      <4>3. \A x : Moved(x, 0, columns)
        BY DEF Moved
      <4>4. 0 \in 0..11
        OBVIOUS
      <4> QED
        BY <3>2, <4>2, <4>3, <4>4 DEF MovesInOrder
    <3> QED
      BY <3>1, <3>2
  <2> QED
    BY <1>1, <2>2, <2>4, <2>5, InstancesUntouched DEF InstancesInv
<1>4. CASE SendUnawaited
  <2>1. /\ todo # <<>> /\ ~IsAwaited(Head(todo)) /\ todo' = Tail(todo)
        /\ UNCHANGED <<databases, meta, current, script>>
    BY <1>4 DEF SendUnawaited, store
  <2>2. IsRest(todo) /\ IsSequence(todo) /\ Head(todo).op # "copyRows"
    BY <2>1, RestTail DEF TablesInv, Allowed, IsRest
  <2>3. CopySays(todo, databases[Database], columns)'
    <3>1. IsOrdered(todo')
      BY <2>1, <2>2, SafeTail DEF RowsInv
    <3> QED
      BY <3>1, OrderedSays
  <2>4. script # "flow_node_instance/03"
    <3> SUFFICES ASSUME script = "flow_node_instance/03" PROVE FALSE
      OBVIOUS
    <3>1. PICK k \in 0..11 : IsLeft(todo, k)
      BY DEF InstancesInv, MovesInOrder
    <3>2. k \in 0..10 /\ Head(todo) = FlowNodeInstance03[k + 1]
      BY <2>1, <2>2, <3>1, OneStatementLess
    <3>3. k + 1 \in 1..11
      BY <3>2
    <3> QED
      BY <2>1, <3>2, <3>3, MovingStatements
  <2>5. MovesInOrder(columns)'
    <3>1. \A s \in ToSet(todo) : Neutral(script, s)
      BY <2>4 DEF InstancesInv, MovesInOrder
    <3>2. ToSet(Tail(todo)) \subseteq ToSet(todo)
      BY <2>1, <2>2, HeadAndTail
    <3> QED
      BY <2>1, <2>4, <3>1, <3>2 DEF MovesInOrder
  <2> QED
    BY <1>1, <2>1, <2>3, <2>5, InstancesUntouched DEF InstancesInv
<1>5. CASE ExecuteStatement
  BY <1>5, InstancesExecute
<1>6. CASE UnawaitedTakesEffect
  BY <1>6, InstancesDropped
<1>7. CASE StatementFails \/ UNCHANGED vars
  <2>1. UNCHANGED <<databases, meta, current, script, todo>>
    BY <1>7 DEF StatementFails, store, vars
  <2>2. Database' = Database
    BY <2>1, SameDatabase
  <2>3. CopySays(todo, databases[Database], columns)' /\ MovesInOrder(columns)'
    BY <2>1, <2>2 DEF InstancesInv, MovesInOrder
  <2> QED
    BY <1>1, <2>1, <2>3, InstancesUntouched DEF InstancesInv
<1> QED
  BY <1>2, <1>3, <1>4, <1>5, <1>6, <1>7 DEF Next, Progress

-----------------------------------------------------------------------------
(* What the data that a start finds have to be.                            *)

\* What a row says of its process instance.
LEMMA ValuesSay ==
  ASSUME NEW row, NEW columns, AreCarried(columns), "processInstanceId" \in DOMAIN row
  PROVE  /\ Values(row, columns).processInstanceId = row.processInstanceId
         /\ "flowNodeInstanceId" \in DOMAIN row =>
              Values(row, columns).flowNodeInstanceId = row.flowNodeInstanceId
         /\ columns \subseteq DOMAIN row =>
              DOMAIN Values(row, columns) = columns /\ \A c \in columns : Values(row, columns)[c] = row[c]
         /\ DOMAIN Values(row, columns) = columns => columns \subseteq DOMAIN row
BY DEF Values, AreCarried

\* What the tables say is what their rows say.
LEMMA SaidByRows ==
  ASSUME NEW db, NEW columns, AreCarried(columns)
  PROVE  /\ \A x : Said(db, x, columns) = {Values(r, columns) : r \in NamingRows(db, x)}
         /\ AllSaid(db, columns) = {Values(r, columns) : r \in PlacedIn(db)}
<1>1. \A x : Said(db, x, columns) = {Values(r, columns) : r \in NamingRows(db, x)}
  BY DEF Said, ValuesIn, ValuesOf, NamingRows
<1>2. \A x : \A r \in NamingRows(db, x) :
        Values(r, columns).processInstanceId = r.processInstanceId
  BY ValuesSay DEF NamingRows
<1>3. AllSaid(db, columns) = {Values(r, columns) : r \in PlacedIn(db)}
  <2>1. ASSUME NEW said \in AllSaid(db, columns)
        PROVE  said \in {Values(r, columns) : r \in PlacedIn(db)}
    <3>1. PICK x \in InstanceTables : said \in Said(db, x, columns)
      BY DEF AllSaid
    <3>2. PICK r \in NamingRows(db, x) : said = Values(r, columns)
      BY <1>1, <3>1
    <3>3. r \in PlacedIn(db)
      BY <1>2, <3>2 DEF AllSaid, PlacedIn
    <3> QED
      BY <3>2, <3>3
  <2>2. ASSUME NEW r \in PlacedIn(db) PROVE Values(r, columns) \in AllSaid(db, columns)
    <3>1. PICK x \in InstanceTables : r \in NamingRows(db, x)
      BY DEF PlacedIn
    <3>2. Values(r, columns) \in Said(db, x, columns)
      BY <1>1, <3>1
    <3> QED
      BY <1>2, <3>1, <3>2 DEF AllSaid, PlacedIn
  <2> QED
    BY <2>1, <2>2
<1> QED
  BY <1>1, <1>3

\* Stored flow node instances and those in the temporary table are the nodes.
LEMMA NodesBy ==
  ASSUME NEW db, NEW u \in {Instances, NewInstances}, NEW row \in ToSet(RowsOf(db, u)),
         "flowNodeInstanceId" \in DOMAIN row
  PROVE  row.flowNodeInstanceId \in Nodes(db)
<1> DEFINE kept == KeptRow(row, Instances)
<1>1. "flowNodeInstanceId" \in KeptColumns[Instances]
  BY KeptFacts DEF KeptColumns, Instances
<1>2. kept \in KeptRows(db, Instances)
  <2>1. kept \in KeptIn(db, Instances, u)
    BY DEF KeptIn
  <2>2. u = Instances \/ u = TemporaryOf[Instances]
    BY InstanceNames
  <2> QED
    BY <2>1, <2>2, PlaceNames, InstanceNames DEF KeptRows, PlacesOf
<1>3. "flowNodeInstanceId" \in DOMAIN kept[2]
      /\ kept[2].flowNodeInstanceId = row.flowNodeInstanceId
  BY <1>1 DEF KeptRow
<1> HIDE DEF kept
<1> QED
  BY <1>2, <1>3 DEF Nodes

\* What a start finds is as the invariant needs it.
LEMMA InPlaceBy ==
  ASSUME NEW db, NEW columns, AreCarried(columns), InstancesFit(db), InstancesAgree(db, columns)
  PROVE  InPlace(db, columns)
<1>1. /\ \A x : Said(db, x, columns) = {Values(r, columns) : r \in NamingRows(db, x)}
      /\ AllSaid(db, columns) = {Values(r, columns) : r \in PlacedIn(db)}
  BY SaidByRows
<1>2. \A r \in PlacedIn(db) : /\ columns \subseteq DOMAIN r
                              /\ "flowNodeInstanceId" \in DOMAIN r
                              /\ "processInstanceId" \in DOMAIN r
  BY DEF InstancesAgree, PlacedIn, NamingRows
<1>3. ASSUME NEW x \in {Tokens, NewTokens}, NEW said \in Said(db, x, columns)
      PROVE  said.processInstanceId # "" /\ said.flowNodeInstanceId \in Nodes(db)
  <2>1. PICK r \in NamingRows(db, x) : said = Values(r, columns)
    BY <1>1, <1>3
  <2>2. /\ r.processInstanceId # ""
        /\ \E u \in {Instances, NewInstances} : \E row \in ToSet(RowsOf(db, u)) :
             "flowNodeInstanceId" \in DOMAIN row /\ row.flowNodeInstanceId = r.flowNodeInstanceId
    BY <1>3, <2>1 DEF InstancesFit, Tokens, NewTokens, Instances, NewInstances
  <2>3. r \in PlacedIn(db)
    BY <1>3, <2>1, <2>2, InstanceNames DEF PlacedIn
  <2>4. said.processInstanceId = r.processInstanceId /\ said.flowNodeInstanceId = r.flowNodeInstanceId
    BY <1>2, <2>1, <2>3, ValuesSay
  <2> QED
    BY <2>2, <2>4, NodesBy
<1>4. ASSUME NEW said \in AllSaid(db, columns) PROVE DOMAIN said = columns
  BY <1>1, <1>2, ValuesSay
<1>5. ASSUME NEW a \in AllSaid(db, columns), NEW b \in AllSaid(db, columns),
             a.flowNodeInstanceId = b.flowNodeInstanceId
      PROVE  a = b
  <2>1. PICK r \in PlacedIn(db) : a = Values(r, columns)
    BY <1>1, <1>5
  <2>2. PICK s \in PlacedIn(db) : b = Values(s, columns)
    BY <1>1, <1>5
  <2>3. r.flowNodeInstanceId = s.flowNodeInstanceId
    BY <1>2, <1>5, <2>1, <2>2, ValuesSay
  <2>4. \A c \in columns : r[c] = s[c]
    BY <2>3 DEF InstancesAgree
  <2>5. columns \subseteq DOMAIN r /\ columns \subseteq DOMAIN s
    BY <1>2
  <2>6. a = [c \in columns |-> r[c]] /\ b = [c \in columns |-> s[c]]
    <3>1. columns \intersect DOMAIN r = columns /\ columns \intersect DOMAIN s = columns
      BY <2>5
    <3> QED
      BY <2>1, <2>2, <3>1 DEF Values
  <2> QED
    BY <2>4, <2>6
<1>6. Exists(db, Instances) =>
        KeptIn(db, Instances, NewInstances) \subseteq KeptIn(db, Instances, Instances)
  BY DEF InstancesFit, Instances, NewInstances
<1> QED
  BY <1>3, <1>4, <1>5, <1>6 DEF InPlace

\* A flow node instance and its process instance.
PlaceColumns == {"flowNodeInstanceId", "processInstanceId"}

\* Both columns are among those that are carried over.
LEMMA PlaceCarried == AreCarried(PlaceColumns)
BY DEF AreCarried, PlaceColumns, CarriedColumns

\* Rows of one flow node instance agree on which one it is, too.
LEMMA AgreeOnInstances ==
  ASSUME NEW db, NEW columns, InstancesAgree(db, columns)
  PROVE  InstancesAgree(db, columns \union {"flowNodeInstanceId"})
<1> DEFINE placed == PlacedIn(db)
           all == columns \union {"flowNodeInstanceId"}
<1>1. \A r \in placed : all \subseteq DOMAIN r
  BY DEF InstancesAgree
<1>2. \A r, s \in placed : r.flowNodeInstanceId = s.flowNodeInstanceId =>
        \A c \in columns : r[c] = s[c]
  BY DEF InstancesAgree
<1> HIDE DEF placed
<1>3. \A r \in placed : all \union {"flowNodeInstanceId"} \subseteq DOMAIN r
  BY <1>1
<1>4. \A r, s \in placed : r.flowNodeInstanceId = s.flowNodeInstanceId =>
        \A c \in all : r[c] = s[c]
  BY <1>2
<1> QED
  BY <1>3, <1>4 DEF InstancesAgree, placed

\* What names no process instance says nothing.
LEMMA SomethingSaid ==
  ASSUME NEW db, NEW x, NEW columns, Said(db, x, columns) # {} PROVE NamingRows(db, x) # {}
BY DEF Said, ValuesIn, ValuesOf, NamingRows

\* Before the first start the engine has stored what it needs.
LEMMA InstancesInit ==
  ASSUME NEW columns, AreCarried(columns),
         \A s \in InitialStores : \A d \in DOMAIN s.databases :
           InstancesAgree(s.databases[d], columns)
  PROVE  Init => InstancesInv(columns)
<1> SUFFICES ASSUME Init PROVE InstancesInv(columns)
  OBVIOUS
<1>1. PICK s \in InitialStores : databases = s.databases /\ meta = s.meta
  BY DEF Init
<1>2. DOMAIN databases = Databases
  BY TablesInit DEF TablesInv
<1>3. \A d \in Databases :
        /\ InstancesFit(databases[d])
        /\ Exists(databases[d], NewInstances) => Logged("flow_node_instance", 1)
        /\ NamingRows(databases[d], Instances) # {} => Logged("flow_node_instance", 3)
  BY <1>1, <1>2, InitialInstancesAssumption
  DEF Logged, DatabaseOf, Databases, Instances, NewInstances
<1>4. \A d \in Databases : InPlace(databases[d], columns)
  <2>1. \A d \in Databases : InstancesAgree(databases[d], columns)
    BY <1>1, <1>2
  <2> QED
    BY <1>3, <2>1, InPlaceBy
<1>5. InstancesLogged(columns)
  <2>1. \A d \in Databases : Said(databases[d], Instances, columns) # {} =>
          NamingRows(databases[d], Instances) # {}
    BY SomethingSaid
  <2> QED
    BY <1>3, <2>1 DEF InstancesLogged
<1>6. CopySays(todo, databases[Database], columns)
  BY DEF Init, CopySays
<1>7. MovesInOrder(columns)
  BY DEF Init, MovesInOrder, NoScript, ToSet
<1> QED
  BY <1>4, <1>5, <1>6, <1>7 DEF InstancesInv

\* All rows of one flow node instance name the same process instance.
LEMMA PlacesInit == Init => InstancesInv(PlaceColumns)
<1>1. PlaceColumns = {"processInstanceId"} \union {"flowNodeInstanceId"}
  BY DEF PlaceColumns
<1>2. \A s \in InitialStores : \A d \in DOMAIN s.databases :
        InstancesAgree(s.databases[d], PlaceColumns)
  BY <1>1, InitialInstancesAssumption, AgreeOnInstances DEF InstancesFit
<1> QED
  BY <1>2, PlaceCarried, InstancesInit

\* Whatever the dialect, and wherever a start ends, all tables say the same of a
\* flow node instance, every token is that of one that is stored, and a table is
\* dropped or its column removed only when the next one has taken it over
\* (flow_node_instance/02 and 03).
THEOREM InstancesInvariant == Spec => []InstancesInv(PlaceColumns)
<1>1. RunnerInv /\ TablesInv /\ RowsInv /\ InstancesInv(PlaceColumns) /\ [Next]_vars
        => InstancesInv(PlaceColumns)'
  BY PlaceCarried, InstancesStep
<1> QED
  BY <1>1, PlacesInit, RunnerInvariant, TablesInvariant, RowsInvariant, PTL DEF Spec

\* The process instances that are known are those that the tables name.
LEMMA PlacedBy ==
  ASSUME NEW dbs, \A d \in Databases : InPlace(dbs[d], PlaceColumns)
  PROVE  Placed(dbs) =
           UNION {{<<said.flowNodeInstanceId, said.processInstanceId>> :
                     said \in AllSaid(dbs[d], PlaceColumns)} : d \in Databases}
<1> DEFINE place(r) == <<r.flowNodeInstanceId, r.processInstanceId>>
<1>1. ASSUME NEW d \in Databases
      PROVE  /\ AllSaid(dbs[d], PlaceColumns) = {Values(r, PlaceColumns) : r \in PlacedIn(dbs[d])}
             /\ \A r \in PlacedIn(dbs[d]) : place(Values(r, PlaceColumns)) = place(r)
  <2>1. AllSaid(dbs[d], PlaceColumns) = {Values(r, PlaceColumns) : r \in PlacedIn(dbs[d])}
    BY PlaceCarried, SaidByRows
  <2>2. ASSUME NEW r \in PlacedIn(dbs[d]) PROVE place(Values(r, PlaceColumns)) = place(r)
    <3>1. "processInstanceId" \in DOMAIN r
      BY DEF PlacedIn, NamingRows
    <3>2. DOMAIN Values(r, PlaceColumns) = PlaceColumns
      BY <2>1 DEF InPlace
    <3>3. "flowNodeInstanceId" \in DOMAIN r
      BY <3>1, <3>2, PlaceCarried, ValuesSay DEF PlaceColumns
    <3> QED
      BY <3>1, <3>3, PlaceCarried, ValuesSay
  <2> QED
    BY <2>1, <2>2
<1>2. Placed(dbs) = UNION {{place(r) : r \in PlacedIn(dbs[d])} : d \in Databases}
  BY DEF Placed, PlacedRows
<1>3. \A d \in Databases : {place(r) : r \in PlacedIn(dbs[d])}
                             = {place(said) : said \in AllSaid(dbs[d], PlaceColumns)}
  BY <1>1
<1> HIDE DEF place
<1>4. Placed(dbs) = UNION {{place(said) : said \in AllSaid(dbs[d], PlaceColumns)} : d \in Databases}
  BY <1>2, <1>3
<1> QED
  BY <1>4 DEF place

\* The process instance of a flow node instance is known at every statement, on
\* every dialect, in one database or five, and however often the process ends:
\* flow_node_instance/03 fills the column before it removes that of the tokens,
\* and flow_node_instance/02 copies both tables before it drops them.
THEOREM InstanceKnown == Spec => InstanceStaysKnown
<1>1. RunnerInv /\ TablesInv /\ RowsInv /\ InstancesInv(PlaceColumns)
        /\ InstancesInv(PlaceColumns)' /\ [Next]_vars
          => [Placed(databases) = Placed(databases')]_vars
  <2> SUFFICES ASSUME RunnerInv, TablesInv, RowsInv, InstancesInv(PlaceColumns),
                      InstancesInv(PlaceColumns)', [Next]_vars
               PROVE  Placed(databases) = Placed(databases')
    OBVIOUS
  <2>1. /\ Databases' = Databases
        /\ \A d \in Databases :
             AllSaid(databases'[d], PlaceColumns) = AllSaid(databases[d], PlaceColumns)
    BY LogStays, PlaceCarried, InstancesStep
  <2>2. \A d \in Databases : InPlace(databases[d], PlaceColumns) /\ InPlace(databases'[d], PlaceColumns)
    BY <2>1 DEF InstancesInv
  <2> DEFINE places(said) == {<<x.flowNodeInstanceId, x.processInstanceId>> : x \in said}
  <2>3. /\ Placed(databases) = UNION {places(AllSaid(databases[d], PlaceColumns)) : d \in Databases}
        /\ Placed(databases') = UNION {places(AllSaid(databases'[d], PlaceColumns)) : d \in Databases}
    BY <2>2, PlacedBy
  <2> HIDE DEF places
  <2> QED
    BY <2>1, <2>3
<1> QED
  BY <1>1, InstancesInvariant, RunnerInvariant, TablesInvariant, RowsInvariant, PTL
  DEF Spec, InstanceStaysKnown

-----------------------------------------------------------------------------
(* The correlations that correlation/01 fills.                             *)

CorrelationTableNames == {"Correlations", "correlations_new"}
FilledColumns == {"correlationId", "processInstanceId", "identity"}

\* What the correlations have in the columns that are filled.
StoredIn(db, x) == ValuesIn(db, x, FilledColumns, "createdAt")

AllStored(db) == UNION {StoredIn(db, x) : x \in CorrelationTableNames}

\* Every correlation agrees with a flow node instance of its own, if it has any.
FilledIn(db) ==
  AllSaid(db, CarriedColumns) # {} =>
    \A stored \in AllStored(db) :
      /\ DOMAIN stored = FilledColumns
      /\ IsFilled(stored, AllSaid(db, CarriedColumns))

\* A statement that leaves these columns alone.
SparesFilled(s) ==
  \A x \in CorrelationTableNames : Spares(s, x, FilledColumns \union {"createdAt"})

\* The last two statements of correlation/01.
FillInstance ==
  DoubleQuoted(FillFrom("Correlations", [processInstanceId |-> "processInstanceId"],
    Tokens, {<<"correlationId", "correlationId">>}, {}))

FillIdentity ==
  DoubleQuoted(FillFrom("Correlations", [identity |-> "identity"],
    Tokens, {<<"correlationId", "correlationId">>,
             <<"processInstanceId", "processInstanceId">>}, {}))

\* They are still to come.
EndsInFill(p) ==
  Len(p) >= 2 /\ p[Len(p) - 1] = FillInstance /\ p[Len(p)] = FillIdentity

\* What correlation/01 is made of.
Prepares(s) ==
  s.op \in {"describeTable", "addColumn", "fillFrom"} /\ s.table = "Correlations"

IsPrelude(p) == IsSequence(p) /\ \A s \in ToSet(p) : Prepares(s)

\* Every correlation that has tokens names the process instance of one.
InstanceFilled(db) ==
  \A row \in ToSet(RowsOf(db, "Correlations")), token \in ToSet(RowsOf(db, Tokens)) :
    token.correlationId = row.correlationId =>
      \E own \in ToSet(RowsOf(db, Tokens)) :
        /\ own.correlationId = row.correlationId
        /\ own.processInstanceId = row.processInstanceId

\* How far correlation/01 has come.
Filling(p, db) ==
  /\ IsPrelude(p)
  /\ \/ /\ FilledIn(db)
        /\ AllSaid(db, CarriedColumns) # {} => \A s \in ToSet(p) : s.op = "describeTable"
     \/ EndsInFill(p)
     \/ p = <<FillIdentity>> /\ InstanceFilled(db)

\* Only tokens name process instances, and no copy of the correlations was begun.
FirstRelease(db) ==
  /\ \A x \in InstanceTables \ {Tokens} : Said(db, x, CarriedColumns) = {}
  /\ ~Exists(db, "correlations_new")

HasFilledColumns(db) ==
  HasColumns(db, "Correlations", {"identity", "processModelId", "processInstanceId"})

\* A script that runs leaves the columns alone, or fills them step by step; once
\* correlation/01 is logged, or finds them there, they are filled.
FilledState(name, p, db, isLogged) ==
  /\ name = "correlation/00" =>
       \A s \in ToSet(p) : s.op = "createTable" /\ s.table = "Correlations"
  /\ name # "correlation/01" => \A s \in ToSet(p) : SparesFilled(s)
  /\ isLogged => FilledIn(db)
  /\ ~isLogged =>
       /\ FirstRelease(db)
       /\ name = "correlation/01" => Filling(p, db)
       /\ name # "correlation/01" /\ (Exists(db, "Correlations") => HasFilledColumns(db)) =>
            FilledIn(db)

\* The inductive invariant.
FilledInv ==
  Databases = {"correlation"} /\ restarts = 0 =>
    FilledState(script, todo, databases["correlation"], Logged("correlation", 2))

-----------------------------------------------------------------------------
(* Which statements leave these columns alone.                             *)

\* The tables of the correlations, and the columns that correlation/03 copies.
LEMMA CorrelationNames ==
  /\ "Correlations" \in Rebuilt /\ "Correlations" \in LiveTables
  /\ TemporaryOf["Correlations"] = "correlations_new"
  /\ \A u \in Rebuilt :
       (u \in CorrelationTableNames \/ TemporaryOf[u] \in CorrelationTableNames) =>
          u = "Correlations"
  /\ CorrelationTableNames \intersect InstanceTables = {}
  /\ "external_tasks_new" \notin CorrelationTableNames
  /\ FilledColumns \union {"createdAt"} \subseteq DOMAIN MigratedColumns["Correlations"]
<1>1. /\ "Correlations" \in Rebuilt /\ "Correlations" \in LiveTables
      /\ TemporaryOf["Correlations"] = "correlations_new"
      /\ \A u \in Rebuilt :
           (u \in CorrelationTableNames \/ TemporaryOf[u] \in CorrelationTableNames) =>
              u = "Correlations"
      /\ CorrelationTableNames \intersect InstanceTables = {}
      /\ "external_tasks_new" \notin CorrelationTableNames
  BY DEF CorrelationTableNames, InstanceTables, Rebuilt, LiveTables, TemporaryOf
<1>2. MigratedColumns["Correlations"] = MigratedCorrelationColumns
  BY DEF MigratedColumns, Rebuilt, LiveTables
<1>3. FilledColumns \union {"createdAt"} \subseteq DOMAIN MigratedCorrelationColumns
  BY DEF FilledColumns, MigratedCorrelationColumns, Typed, Timestamps
<1> QED
  BY <1>1, <1>2, <1>3

\* A statement about another table.
LEMMA OthersSpare ==
  ASSUME NEW s, s.table \notin CorrelationTableNames PROVE SparesFilled(s)
BY DEF SparesFilled, Spares

\* What correlations have in the columns is what some of them had.
LEMMA StoredBy ==
  ASSUME NEW db, NEW s, WellFormed(db), Allowed(s), Succeeds(db, s), SparesFilled(s)
  PROVE  AllStored(After(db, s)) \subseteq AllStored(db)
<1> SUFFICES ASSUME NEW x \in CorrelationTableNames
             PROVE  StoredIn(After(db, s), x) \subseteq AllStored(db)
  BY DEF AllStored
<1>1. s.op = "copyRows" /\ x = s.to =>
        s.table = "Correlations" /\ s.columns = DOMAIN MigratedColumns["Correlations"]
  BY CorrelationNames DEF Allowed
<1>2. s.op = "renameTable" /\ x = s.to => s.table = "correlations_new"
  BY CorrelationNames DEF Allowed
<1>3. s.op = "copyRows" /\ x = s.to /\ "createdAt" \in s.columns =>
        FilledColumns \subseteq s.columns
  BY <1>1, CorrelationNames
<1>4. Spares(s, x, FilledColumns \union {"createdAt"})
  BY DEF SparesFilled
<1>5. StoredIn(After(db, s), x) = Resulting(db, s, x, FilledColumns, "createdAt")
  BY <1>3, <1>4, ValuesBy DEF StoredIn
<1>6. "Correlations" \in CorrelationTableNames /\ "correlations_new" \in CorrelationTableNames
  BY DEF CorrelationTableNames
<1>7. /\ s.op = "copyRows" /\ x = s.to => StoredIn(db, s.table) \subseteq AllStored(db)
      /\ s.op = "renameTable" /\ x = s.to => StoredIn(db, s.table) \subseteq AllStored(db)
      /\ StoredIn(db, x) \subseteq AllStored(db)
  BY <1>1, <1>2, <1>6 DEF AllStored
<1> QED
  BY <1>5, <1>7 DEF Resulting, StoredIn

\* What is filled stays so, if what the flow node instances say does.
LEMMA FilledStays ==
  ASSUME NEW db, NEW after, FilledIn(db), AllStored(after) \subseteq AllStored(db),
         AllSaid(after, CarriedColumns) = AllSaid(db, CarriedColumns)
  PROVE  FilledIn(after)
BY DEF FilledIn

\* A sequence of statements that leave the columns alone.
IsSparing(p) == IsSequence(p) /\ \A s \in ToSet(p) : SparesFilled(s)

\* No statement at all.
LEMMA SparingNone == IsSparing(<<>>)
BY Sequence DEF IsSparing, IsSequence, ToSet

\* One statement.
LEMMA SparingOf1 == ASSUME NEW a, SparesFilled(a) PROVE IsSparing(<<a>>)
<1>1. ToSet(<<a>>) = {a} /\ <<a>> \in Seq({a})
  BY DEF ToSet
<1> QED
  BY <1>1 DEF IsSparing, IsSequence

\* One sequence after the other.
LEMMA SparingJoined ==
  ASSUME NEW p, NEW q, IsSparing(p), IsSparing(q) PROVE IsSparing(p \o q)
<1>1. IsSequence(p) /\ IsSequence(q)
  BY DEF IsSparing
<1>2. IsSequence(p \o q) /\ ToSet(p \o q) = ToSet(p) \union ToSet(q)
  BY <1>1, Concatenated
<1> QED
  BY <1>2 DEF IsSparing

\* Statements that compute nothing, and those that add another column.
LEMMA SparingStatements ==
  /\ \A s : s.op \in {"describeTable", "select", "createTable", "dropTable", "renameTable",
                      "copyRows", "addIndex", "changeColumn"} => SparesFilled(s)
  /\ \A s : s.op \in {"addColumn", "setCell"} /\ s.column \notin FilledColumns \union {"createdAt"}
              => SparesFilled(s)
BY DEF SparesFilled, Spares

\* A column that is not one of them is added, or is there.
LEMMA SparingAdd ==
  ASSUME NEW db, NEW table, NEW column, NEW type,
         column \notin FilledColumns \union {"createdAt"}
  PROVE  IsSparing(AddIfMissing(db, table, column, type))
<1> DEFINE s == AddColumn(table, column, type, Null)
<1>1. s.op = "addColumn" /\ s.column = column
  BY DEF AddColumn
<1> HIDE DEF s
<1>2. IsSparing(<<s>>)
  BY <1>1, SparingStatements, SparingOf1
<1> QED
  BY <1>2, SparingNone, Zenon DEF AddIfMissing, s

\* A description comes first.
LEMMA SparingDescribed ==
  ASSUME NEW table, NEW p, IsSparing(p) PROVE IsSparing(<<DescribeTable(table)>> \o p)
<1>1. DescribeTable(table).op = "describeTable"
  BY DEF DescribeTable
<1>2. IsSparing(<<DescribeTable(table)>>)
  BY <1>1, SparingStatements, SparingOf1
<1> QED
  BY <1>2, SparingJoined

\* Of the scripts of sequelize/migrations/correlation only correlation/01 computes them.
LEMMA CorrelationsSpare ==
  ASSUME NEW db
  PROVE  /\ IsSparing(Correlation00(db)) /\ IsSparing(Correlation02(db))
         /\ IsSparing(Correlation03(db)) /\ IsSparing(Correlation04(db))
         /\ IsSparing(Correlation20190626) /\ IsSparing(Correlation20191127(db))
<1> DEFINE t == "Correlations"
<1>1. IsSparing(Correlation00(db))
  <2>1. \A columns, unique : CreateTable(t, columns, unique).op = "createTable"
    BY DEF CreateTable
  <2>2. \A columns, unique : IsSparing(<<CreateTable(t, columns, unique)>>)
    BY <2>1, SparingStatements, SparingOf1
  <2>3. \A columns, unique : IsSparing(CreateIfMissing(db, t, columns, unique))
    BY <2>2, SparingNone, Zenon DEF CreateIfMissing
  <2> QED
    BY <2>3, Zenon DEF Correlation00
<1>2. IsSparing(Correlation02(db))
  <2>1. "parentProcessInstanceId" \notin FilledColumns \union {"createdAt"}
    BY DEF FilledColumns
  <2>2. IsSparing(AddIfMissing(db, t, "parentProcessInstanceId", "STRING"))
    BY <2>1, SparingAdd
  <2> QED
    BY <2>2, SparingDescribed, Zenon DEF Correlation02
<1>3. IsSparing(Correlation03(db))
  <2>1. ASSUME NEW columns, NEW unique
        PROVE  IsSparing(Rebuild(t, "correlations_new", columns, unique))
    <3> DEFINE a == CreateTable("correlations_new", With(columns, "id", "INTEGER"), unique)
               b == CopyRows(t, "correlations_new", DOMAIN columns)
               c == DropTable(t)
               d == RenameTable("correlations_new", t)
    <3>1. /\ a.op = "createTable" /\ b.op = "copyRows" /\ c.op = "dropTable"
          /\ d.op = "renameTable"
      BY DEF CreateTable, CopyRows, DropTable, RenameTable
    <3> HIDE DEF a, b, c, d
    <3>2. SparesFilled(a) /\ SparesFilled(b) /\ SparesFilled(c) /\ SparesFilled(d)
      BY <3>1, SparingStatements
    <3> DEFINE p == <<a, b, c, d>>
    <3>3. DOMAIN p = 1..4 /\ p = [i \in 1..4 |-> p[i]] /\ ToSet(p) = {a, b, c, d}
      BY DEF ToSet
    <3> HIDE DEF p
    <3>4. IsSparing(p)
      BY <3>2, <3>3, Sequence DEF IsSparing, IsSequence
    <3> QED
      BY <3>4, Zenon DEF Rebuild, p, a, b, c, d
  <2> QED
    BY <2>1, SparingNone, SparingDescribed, Zenon DEF Correlation03
<1>4. IsSparing(Correlation04(db))
  <2> DEFINE a == AddColumn(t, "state", "STRING", "finished")
             b == AddColumn(t, "error", "TEXT", Null)
             c == Unquoted(Select(t, "sync states"))
             rest == IF Exists(db, "FlowNodeInstances") THEN <<c>> ELSE <<>>
  <2>1. /\ a.op = "addColumn" /\ a.column = "state" /\ b.op = "addColumn" /\ b.column = "error"
        /\ c.op = "select"
    BY DEF AddColumn, Unquoted, With, Select
  <2> HIDE DEF a, b, c
  <2>2. SparesFilled(a) /\ SparesFilled(b) /\ SparesFilled(c)
    BY <2>1, SparingStatements DEF FilledColumns
  <2> DEFINE p == <<a, b>>
  <2>3. DOMAIN p = 1..2 /\ p = [i \in 1..2 |-> p[i]] /\ ToSet(p) = {a, b}
    BY DEF ToSet
  <2> HIDE DEF p
  <2>4. IsSparing(p)
    BY <2>2, <2>3, Sequence DEF IsSparing, IsSequence
  <2>5. IsSparing(rest)
    BY <2>2, SparingOf1, SparingNone
  <2> HIDE DEF rest
  <2>6. IsSparing(p \o rest)
    BY <2>4, <2>5, SparingJoined
  <2> QED
    BY <2>6, SparingNone, SparingDescribed, Zenon DEF Correlation04, p, rest, a, b, c
<1>5. IsSparing(Correlation20190626)
  <2> DEFINE indexes == <<<<"correlationId">>, <<"processModelId">>, <<"processInstanceId">>,
               <<"parentProcessInstanceId">>, <<"state">>,
               <<"correlationId", "processInstanceId">>>>
             p == AddIndexes(t, indexes)
  <2>1. DOMAIN indexes = 1..6
    OBVIOUS
  <2> HIDE DEF indexes
  <2>2. DOMAIN p = 1..6 /\ p = [i \in 1..6 |-> p[i]] /\ \A i \in 1..6 : p[i].op = "addIndex"
    BY <2>1 DEF AddIndexes, AddIndex
  <2> HIDE DEF p
  <2>3. IsSequence(p) /\ \A s \in ToSet(p) : s.op = "addIndex"
    BY <2>2, Sequence DEF IsSequence, ToSet
  <2>4. IsSparing(p)
    BY <2>3, SparingStatements DEF IsSparing
  <2> QED
    BY <2>4, Zenon DEF Correlation20190626, indexes, p
<1>6. IsSparing(Correlation20191127(db))
  <2> DEFINE d == <<DescribeTable(t)>>
             p == AddIfMissing(db, t, "terminatedBy", "STRING")
             q == AddIfMissing(db, t, "finishedAt", "DATE")
  <2>1. "terminatedBy" \notin FilledColumns \union {"createdAt"}
        /\ "finishedAt" \notin FilledColumns \union {"createdAt"}
    BY DEF FilledColumns
  <2>2. IsSparing(d \o p) /\ IsSparing(q)
    BY <2>1, SparingAdd, SparingDescribed
  <2> HIDE DEF d, p, q
  <2>3. IsSparing((d \o p) \o q)
    BY <2>2, SparingJoined
  <2> QED
    BY <2>3, Zenon DEF Correlation20191127, d, p, q
<1> QED
  BY <1>1, <1>2, <1>3, <1>4, <1>5, <1>6

\* No other script has anything to do with the correlations.
LEMMA UpSpares ==
  ASSUME NEW name \in ScriptNames, name # "correlation/01", NEW db
  PROVE  \A s \in ToSet(Up(name, db)) : SparesFilled(s)
<1>1. PICK r \in Repositories : name \in ToSet(ScriptsOf[r])
  BY DEF ScriptNames
<1>2. CASE r # "correlation"
  <2>1. IsAbout(Up(name, db), TablesOf[r])
    BY <1>1, UpTables
  <2>2. TablesOf[r] \intersect CorrelationTableNames = {}
    BY <1>2 DEF TablesOf, Repositories, CorrelationTableNames, TaskTables, InstanceTables
  <2> QED
    BY <2>1, <2>2, OthersSpare DEF IsAbout
<1>3. CASE r = "correlation"
  <2>1. name \in {"correlation/00", "correlation/02", "correlation/03", "correlation/04",
                  "correlation/2019-06-26", "correlation/2019-11-27"}
    BY <1>1, <1>3 DEF ScriptsOf, Repositories, ToSet
  <2>2. CASE name = "correlation/00"
    BY <2>2, CorrelationsSpare, Zenon DEF Up, IsSparing
  <2>3. CASE name = "correlation/02"
    BY <2>3, CorrelationsSpare, Zenon DEF Up, IsSparing
  <2>4. CASE name = "correlation/03"
    BY <2>4, CorrelationsSpare, Zenon DEF Up, IsSparing
  <2>5. CASE name = "correlation/04"
    BY <2>5, CorrelationsSpare, Zenon DEF Up, IsSparing
  <2>6. CASE name = "correlation/2019-06-26"
    BY <2>6, CorrelationsSpare, Zenon DEF Up, IsSparing
  <2>7. CASE name = "correlation/2019-11-27"
    BY <2>7, CorrelationsSpare, Zenon DEF Up, IsSparing
  <2> QED
    BY <2>1, <2>2, <2>3, <2>4, <2>5, <2>6, <2>7
<1> QED
  BY <1>2, <1>3

\* Nor does what a script goes on to do compute these columns: correlation/04 sets
\* the state.
LEMMA ContinuationSpares ==
  ASSUME NEW db, NEW s, WellFormed(db), Succeeds(db, s) \/ s.op # "select"
  PROVE  \A x \in ToSet(Continuation(db, s)) : SparesFilled(x)
<1>1. CASE s.op # "select"
  <2>1. Continuation(db, s) = <<>>
    BY <1>1, ContinuationPlan
  <2> QED
    BY <2>1 DEF ToSet
<1>2. CASE s.op = "select"
  <2> DEFINE rows == db[s.table].rows
             queries == [i \in DOMAIN rows |->
                           QueryStates("active", i, rows[i].processInstanceId)]
  <2>1. \A use, i, instance : SparesFilled(QueryStates(use, i, instance))
    <3>1. \A use, i, instance : QueryStates(use, i, instance).op = "select"
      BY DEF QueryStates, With, DoubleQuoted, Select
    <3> QED
      BY <3>1, SparingStatements
  <2>2. \A i, state : \A x \in ToSet(updateStateForId(i, state)) : SparesFilled(x)
    <3> TAKE i, state
    <3> DEFINE x == Caught(DoubleQuoted(SetCell("Correlations", i, "state", state)))
    <3>1. x.op = "setCell" /\ x.column = "state"
      BY DEF Caught, DoubleQuoted, With, SetCell
    <3> HIDE DEF x
    <3>2. SparesFilled(x)
      BY <3>1, SparingStatements DEF FilledColumns
    <3>3. ToSet(<<x>>) = {x}
      BY DEF ToSet
    <3> QED
      BY <3>2, <3>3 DEF updateStateForId, x
  <2>3. CASE s.use = "copy tasks"
    <3>1. Continuation(db, s) = CopiesOf(rows)
      BY <1>2, <2>3, ContinuationPlan
    <3>2. \A row : InsertRow("external_tasks_new", row).table = "external_tasks_new"
      BY DEF InsertRow
    <3>3. \A x \in ToSet(CopiesOf(rows)) : x.table = "external_tasks_new"
      <4> HIDE DEF rows
      <4> QED
        BY <3>2 DEF CopiesOf, ToSet
    <3> QED
      BY <3>1, <3>3, CorrelationNames, OthersSpare
  <2>4. CASE s.use # "copy tasks"
    <3>1. \A x \in ToSet(queries) : SparesFilled(x)
      BY <2>1 DEF ToSet
    <3>2. \A x \in ToSet(SyncState(db, s)) : SparesFilled(x)
      <4>1. \A use, i, instance : ToSet(<<QueryStates(use, i, instance)>>)
                                    = {QueryStates(use, i, instance)}
        BY DEF ToSet
      <4>2. \A use, i, instance : \A x \in ToSet(<<QueryStates(use, i, instance)>>) :
              SparesFilled(x)
        BY <2>1, <4>1
      <4>3. \A x \in ToSet(<<>>) : SparesFilled(x)
        BY DEF ToSet
      <4> QED
        BY <2>2, <4>2, <4>3, ZenonT(30) DEF SyncState
    <3> HIDE DEF queries
    <3>3. Continuation(db, s) = queries \/ Continuation(db, s) = SyncState(db, s)
      BY <1>2, <2>4, ZenonT(30) DEF Continuation, queries, rows
    <3> QED
      BY <3>1, <3>2, <3>3
  <2> QED
    BY <2>3, <2>4
<1> QED
  BY <1>1, <1>2

-----------------------------------------------------------------------------
(* correlation/01 fills the columns.                                       *)

\* All carried columns are carried.
LEMMA AllAreCarried == AreCarried(CarriedColumns)
BY DEF AreCarried, CarriedColumns

\* A statement about another table leaves alone what the flow node instances say.
LEMMA OthersKeep ==
  ASSUME NEW db, NEW s, WellFormed(db), Allowed(s), Succeeds(db, s),
         s.table \notin InstanceTables
  PROVE  \A x \in InstanceTables :
           Said(After(db, s), x, CarriedColumns) = Said(db, x, CarriedColumns)
<1>1. Neutral("correlation/01", s)
  BY DEF Neutral
<1>2. s.table \notin {Instances, Tokens, NewTokens}
  BY InstanceNames
<1> QED
  BY <1>1, <1>2, SaidBy, AllAreCarried

\* The tokens remain what alone names process instances.
LEMMA FirstReleaseStays ==
  ASSUME NEW db, NEW s, WellFormed(db), Allowed(s), Succeeds(db, s), FirstRelease(db),
         s.table \notin InstanceTables, s.op = "createTable" => s.table # "correlations_new"
  PROVE  FirstRelease(After(db, s))
<1>1. \A x \in InstanceTables \ {Tokens} : Said(After(db, s), x, CarriedColumns) = {}
  BY OthersKeep DEF FirstRelease
<1>2. s.op = "renameTable" => s.to # "correlations_new"
  BY CorrelationNames DEF Allowed, CorrelationTableNames
<1>3. ~Exists(After(db, s), "correlations_new")
  BY <1>2, ExistsBy DEF FirstRelease
<1> QED
  BY <1>1, <1>3 DEF FirstRelease

\* What all tables say is then what the tokens say.
LEMMA TokensSay ==
  ASSUME NEW db, FirstRelease(db), InPlace(db, CarriedColumns)
  PROVE  AllSaid(db, CarriedColumns) = Said(db, Tokens, CarriedColumns)
<1> DEFINE C == CarriedColumns
<1>1. Said(db, Instances, C) = {} /\ Said(db, NewInstances, C) = {} /\ Said(db, NewTokens, C) = {}
  BY InstanceNames DEF FirstRelease
<1>2. \A said \in Said(db, Tokens, C) : said.processInstanceId # ""
  BY DEF InPlace
<1>3. AllSaid(db, C) = {said \in Said(db, Tokens, C) : said.processInstanceId # ""}
  BY <1>1, AllSaidParts
<1> QED
  BY <1>2, <1>3

\* The two statements that fill the columns from the tokens.
LEMMA FillStatements ==
  /\ FillInstance.op = "fillFrom" /\ FillInstance.table = "Correlations"
  /\ FillInstance.source = Tokens
  /\ FillInstance.match = {<<"correlationId", "correlationId">>}
  /\ FillInstance.assignments = [processInstanceId |-> "processInstanceId"]
  /\ FillIdentity.op = "fillFrom" /\ FillIdentity.table = "Correlations"
  /\ FillIdentity.source = Tokens
  /\ FillIdentity.match = {<<"correlationId", "correlationId">>,
                           <<"processInstanceId", "processInstanceId">>}
  /\ FillIdentity.assignments = [identity |-> "identity"]
<1>1. \A given, match :
        LET s == DoubleQuoted(FillFrom("Correlations", given, Tokens, match, {}))
        IN  /\ s.op = "fillFrom" /\ s.table = "Correlations" /\ s.source = Tokens
            /\ s.match = match /\ s.assignments = given
  BY DEF DoubleQuoted, With, FillFrom
<1> QED
  BY <1>1 DEF FillInstance, FillIdentity

\* The tables of the correlations and of the tokens are others.
LEMMA CorrelationsAreNoTokens == "Correlations" # Tokens /\ "Correlations" \notin InstanceTables
BY DEF Tokens, InstanceTables

\* What a statement that fills columns needs of their tables.
LEMMA FillNeeds ==
  ASSUME NEW db, NEW s, WellFormed(db), s.op = "fillFrom", Succeeds(db, s), s.source = Tokens,
         s.table = "Correlations",
         NEW columns, columns \subseteq DOMAIN s.assignments \union {m[2] : m \in s.match},
         NEW columnsOf, columnsOf \subseteq {s.assignments[c] : c \in DOMAIN s.assignments}
                                              \union {m[1] : m \in s.match},
         "id" \notin columns \union columnsOf, columnsOf # {}
  PROVE  /\ "Correlations" \in DOMAIN db /\ Tokens \in DOMAIN db
         /\ \A row \in ToSet(db["Correlations"].rows) : columns \subseteq DOMAIN row
         /\ \A token \in ToSet(db[Tokens].rows) : columnsOf \subseteq DOMAIN token
         /\ DOMAIN After(db, s) = DOMAIN db /\ After(db, s)[Tokens] = db[Tokens]
         /\ After(db, s)["Correlations"].rows =
              [i \in DOMAIN db["Correlations"].rows |->
                 Filled(db, s, db["Correlations"].rows[i])]
<1>1. Exists(db, s.table) /\ Applies(db, s)
  BY DEF Succeeds
<1>2. /\ HasColumns(db, s.table, DOMAIN s.assignments \union {m[2] : m \in s.match})
      /\ HasColumns(db, s.source, {s.assignments[c] : c \in DOMAIN s.assignments}
                                    \union {m[1] : m \in s.match})
  BY <1>1, Zenon DEF Applies
<1>3. "Correlations" \in DOMAIN db /\ columns \subseteq DOMAIN db["Correlations"].columns
  BY <1>1, <1>2 DEF HasColumns, HasColumn, Exists
<1>4. Tokens \in DOMAIN db /\ columnsOf \subseteq DOMAIN db[Tokens].columns
  BY <1>2 DEF HasColumns, HasColumn, Exists
<1>5. ASSUME NEW t \in DOMAIN db, NEW C, C \subseteq DOMAIN db[t].columns, "id" \notin C
      PROVE  \A row \in ToSet(db[t].rows) : C \subseteq DOMAIN row
  <2>1. IsTable(db[t])
    BY DEF WellFormed, IsDatabase
  <2>2. \A i \in DOMAIN db[t].rows : DOMAIN db[t].rows[i] = Stored(db[t].columns)
    BY <2>1, TableOf
  <2>3. C \subseteq Stored(db[t].columns)
    BY <1>5 DEF Stored
  <2> QED
    BY <2>2, <2>3 DEF ToSet
<1>6. s.op \in ChangesTable
  BY DEF ChangesTable
<1>7. After(db, s) = [db EXCEPT ![s.table] = Changed(db, s)]
  BY <1>6, AfterBy
<1>8. Rewrites(db, s, db[s.table].rows, After(db, s)[s.table].rows)
  BY <1>6, RowsChanged
<1>9. After(db, s)["Correlations"].rows =
        [i \in DOMAIN db["Correlations"].rows |-> Filled(db, s, db["Correlations"].rows[i])]
  BY <1>8 DEF Rewrites
<1>10. DOMAIN After(db, s) = DOMAIN db /\ After(db, s)[Tokens] = db[Tokens]
  BY <1>3, <1>4, <1>7, CorrelationsAreNoTokens
<1> QED
  BY <1>3, <1>4, <1>5, <1>9, <1>10

\* A row that is filled: its values are those of one of the tokens that match it.
LEMMA FilledBy ==
  ASSUME NEW db, NEW s, WellFormed(db), s.source = Tokens, Tokens \in DOMAIN db, NEW row
  PROVE  /\ DOMAIN Filled(db, s, row) = DOMAIN row
         /\ \A c \in DOMAIN row \ DOMAIN s.assignments : Filled(db, s, row)[c] = row[c]
         /\ \A token \in ToSet(db[Tokens].rows) :
              (\A m \in s.match : token[m[1]] = row[m[2]]) =>
                \E own \in ToSet(db[Tokens].rows) :
                  /\ \A m \in s.match : own[m[1]] = row[m[2]]
                  /\ \A c \in DOMAIN row \intersect DOMAIN s.assignments :
                       Filled(db, s, row)[c] = own[s.assignments[c]]
<1> DEFINE found == Matches(db, s, row)
           rows == db[Tokens].rows
           filled == Filled(db, s, row)
<1>1. found = {i \in DOMAIN rows : \A m \in s.match : rows[i][m[1]] = row[m[2]]}
  BY DEF Matches
<1>2. rows \in Seq(ToSet(rows))
  <2>1. IsTable(db[Tokens])
    BY DEF WellFormed, IsDatabase
  <2> QED
    BY <2>1, TableOf
<1>3. filled = [c \in DOMAIN row |->
                  IF c \notin DOMAIN s.assignments THEN row[c]
                  ELSE IF found = {} THEN Null ELSE rows[Min(found)][s.assignments[c]]]
  BY DEF Filled
<1> HIDE DEF found, rows, filled
<1>4. ASSUME NEW token \in ToSet(rows), \A m \in s.match : token[m[1]] = row[m[2]]
      PROVE  \E own \in ToSet(rows) :
               /\ \A m \in s.match : own[m[1]] = row[m[2]]
               /\ \A c \in DOMAIN row \intersect DOMAIN s.assignments :
                    filled[c] = own[s.assignments[c]]
  <2>1. found # {}
    BY <1>1, <1>4 DEF ToSet
  <2>2. DOMAIN rows \subseteq Nat
    BY <1>2
  <2>3. Min(found) \in found
    BY <1>1, <2>1, <2>2, FirstOf
  <2> DEFINE own == rows[Min(found)]
  <2>4. own \in ToSet(rows) /\ \A m \in s.match : own[m[1]] = row[m[2]]
    BY <1>1, <2>3 DEF ToSet
  <2>5. \A c \in DOMAIN row \intersect DOMAIN s.assignments : filled[c] = own[s.assignments[c]]
    BY <1>3, <2>1
  <2> HIDE DEF own
  <2> QED
    BY <2>4, <2>5
<1>5. DOMAIN filled = DOMAIN row /\ \A c \in DOMAIN row \ DOMAIN s.assignments : filled[c] = row[c]
  BY <1>3
<1> QED
  BY <1>4, <1>5 DEF rows, filled

\* The first one gives each correlation the process instance of one of its tokens.
LEMMA InstanceFills ==
  ASSUME NEW db, WellFormed(db), Succeeds(db, FillInstance)
  PROVE  InstanceFilled(After(db, FillInstance))
<1> DEFINE s == FillInstance
           after == After(db, s)
           rows == db["Correlations"].rows
           tokens == ToSet(db[Tokens].rows)
           columns == {"correlationId", "processInstanceId"}
           pair == <<"correlationId", "correlationId">>
<1>1. /\ s.op = "fillFrom" /\ s.table = "Correlations" /\ s.source = Tokens
      /\ s.match = {pair} /\ s.assignments = [processInstanceId |-> "processInstanceId"]
  BY FillStatements
<1>2. pair[1] = "correlationId" /\ pair[2] = "correlationId"
  OBVIOUS
<1> HIDE DEF s, pair
<1>3. DOMAIN s.assignments = {"processInstanceId"}
      /\ s.assignments["processInstanceId"] = "processInstanceId"
  BY <1>1
<1>4. /\ columns \subseteq DOMAIN s.assignments \union {m[2] : m \in s.match}
      /\ columns \subseteq {s.assignments[c] : c \in DOMAIN s.assignments}
                             \union {m[1] : m \in s.match}
      /\ "id" \notin columns \union columns /\ columns # {}
  BY <1>1, <1>2, <1>3
<1>5. Succeeds(db, s)
  BY DEF s
<1>6. /\ "Correlations" \in DOMAIN db /\ Tokens \in DOMAIN db
      /\ \A row \in ToSet(rows) : columns \subseteq DOMAIN row
      /\ \A token \in tokens : columns \subseteq DOMAIN token
      /\ DOMAIN after = DOMAIN db /\ after[Tokens] = db[Tokens]
      /\ after["Correlations"].rows = [i \in DOMAIN rows |-> Filled(db, s, rows[i])]
  <2> HIDE DEF columns
  <2> QED
    BY <1>1, <1>4, <1>5, FillNeeds
<1> HIDE DEF after, rows
<1>7. /\ ToSet(RowsOf(after, Tokens)) = tokens
      /\ RowsOf(after, "Correlations") = [i \in DOMAIN rows |-> Filled(db, s, rows[i])]
  BY <1>6 DEF RowsOf, Exists
<1> HIDE DEF tokens
<1>8. ASSUME NEW i \in DOMAIN rows, NEW token \in tokens,
             token.correlationId = Filled(db, s, rows[i]).correlationId
      PROVE  \E own \in tokens :
               /\ own.correlationId = Filled(db, s, rows[i]).correlationId
               /\ own.processInstanceId = Filled(db, s, rows[i]).processInstanceId
  <2> DEFINE row == rows[i]
             filled == Filled(db, s, row)
  <2>1. columns \subseteq DOMAIN row
    BY <1>6 DEF ToSet
  <2>2. /\ \A c \in DOMAIN row \ DOMAIN s.assignments : filled[c] = row[c]
        /\ (\A m \in s.match : token[m[1]] = row[m[2]]) =>
             \E own \in tokens :
               /\ \A m \in s.match : own[m[1]] = row[m[2]]
               /\ \A c \in DOMAIN row \intersect DOMAIN s.assignments :
                    filled[c] = own[s.assignments[c]]
    BY <1>1, <1>6, <1>8, FilledBy DEF tokens
  <2> HIDE DEF row, filled
  <2>3. filled.correlationId = row.correlationId
    BY <1>3, <2>1, <2>2
  <2>4. \A m \in s.match : token[m[1]] = row[m[2]]
    BY <1>1, <1>2, <1>8, <2>3 DEF row, filled
  <2>5. PICK own \in tokens :
          /\ \A m \in s.match : own[m[1]] = row[m[2]]
          /\ \A c \in DOMAIN row \intersect DOMAIN s.assignments :
               filled[c] = own[s.assignments[c]]
    BY <2>2, <2>4
  <2>6. own.correlationId = row.correlationId
    BY <1>1, <1>2, <2>5
  <2>7. own.processInstanceId = filled.processInstanceId
    BY <1>3, <2>1, <2>5
  <2> QED
    BY <2>3, <2>6, <2>7 DEF row, filled
<1>9. InstanceFilled(after)
  BY <1>7, <1>8 DEF InstanceFilled, ToSet
<1> QED
  BY <1>9 DEF after, s

\* The second one gives it the identity of a token with that process instance.
LEMMA IdentityFills ==
  ASSUME NEW db, WellFormed(db), Succeeds(db, FillIdentity), InstanceFilled(db),
         FirstRelease(db), InPlace(db, CarriedColumns), NEW after,
         after = After(db, FillIdentity),
         AllSaid(after, CarriedColumns) = AllSaid(db, CarriedColumns)
  PROVE  FilledIn(after)
<1> DEFINE s == FillIdentity
           C == CarriedColumns
           rows == db["Correlations"].rows
           tokens == ToSet(db[Tokens].rows)
           one == <<"correlationId", "correlationId">>
           two == <<"processInstanceId", "processInstanceId">>
<1>1. /\ s.op = "fillFrom" /\ s.table = "Correlations" /\ s.source = Tokens
      /\ s.match = {one, two} /\ s.assignments = [identity |-> "identity"]
  BY FillStatements
<1>2. /\ one[1] = "correlationId" /\ one[2] = "correlationId"
      /\ two[1] = "processInstanceId" /\ two[2] = "processInstanceId"
  OBVIOUS
<1> HIDE DEF one, two
<1>3. DOMAIN s.assignments = {"identity"} /\ s.assignments["identity"] = "identity"
  BY <1>1
<1>4. Succeeds(db, s) /\ after = After(db, s)
  OBVIOUS
<1> HIDE DEF s
<1>5. /\ FilledColumns \subseteq DOMAIN s.assignments \union {m[2] : m \in s.match}
      /\ FilledColumns \subseteq {s.assignments[c] : c \in DOMAIN s.assignments}
                                   \union {m[1] : m \in s.match}
      /\ "id" \notin FilledColumns \union FilledColumns /\ FilledColumns # {}
  BY <1>1, <1>2, <1>3 DEF FilledColumns
<1>6. /\ "Correlations" \in DOMAIN db /\ Tokens \in DOMAIN db
      /\ \A row \in ToSet(rows) : FilledColumns \subseteq DOMAIN row
      /\ \A token \in tokens : FilledColumns \subseteq DOMAIN token
      /\ DOMAIN after = DOMAIN db
      /\ after["Correlations"].rows = [i \in DOMAIN rows |-> Filled(db, s, rows[i])]
  BY <1>1, <1>4, <1>5, FillNeeds
<1>7. AllStored(after) = ValuesOf(after["Correlations"].rows, FilledColumns, "createdAt")
  <2>1. StoredIn(after, "correlations_new") = {}
    BY <1>6, ValuesWhere DEF FirstRelease, Exists, StoredIn
  <2>2. StoredIn(after, "Correlations")
          = ValuesOf(after["Correlations"].rows, FilledColumns, "createdAt")
    BY <1>6, ValuesWhere DEF StoredIn
  <2> QED
    BY <2>1, <2>2 DEF AllStored, CorrelationTableNames
<1>8. AllSaid(after, C) = Said(db, Tokens, C)
  BY TokensSay
<1>9. \A said \in Said(db, Tokens, C) : \E token \in tokens : \A c \in FilledColumns : said[c] = token[c]
  <2> SUFFICES ASSUME NEW said \in Said(db, Tokens, C)
               PROVE  \E token \in tokens : \A c \in FilledColumns : said[c] = token[c]
    OBVIOUS
  <2>1. PICK token \in tokens : said = Values(token, C)
    BY <1>6, SaidRows
  <2>2. FilledColumns \subseteq C /\ FilledColumns \subseteq DOMAIN token
    BY <1>6 DEF FilledColumns, CarriedColumns
  <2> QED
    BY <2>1, <2>2 DEF Values
<1>10. \A token \in tokens : \E said \in Said(db, Tokens, C) : \A c \in FilledColumns : said[c] = token[c]
  <2> SUFFICES ASSUME NEW token \in tokens
               PROVE  \E said \in Said(db, Tokens, C) : \A c \in FilledColumns : said[c] = token[c]
    OBVIOUS
  <2>1. FilledColumns \subseteq C /\ FilledColumns \subseteq DOMAIN token
        /\ "processInstanceId" \in DOMAIN token
    BY <1>6 DEF FilledColumns, CarriedColumns
  <2>2. Values(token, C) \in Said(db, Tokens, C)
    BY <1>6, <2>1, SaidRows
  <2>3. \A c \in FilledColumns : Values(token, C)[c] = token[c]
    BY <2>1 DEF Values
  <2> QED
    BY <2>2, <2>3
<1> HIDE DEF rows, C
<1>11. ASSUME NEW i \in DOMAIN rows, NEW stored,
              stored = Values(Filled(db, s, rows[i]), FilledColumns)
       PROVE  DOMAIN stored = FilledColumns /\ IsFilled(stored, Said(db, Tokens, C))
  <2> DEFINE row == rows[i]
             filled == Filled(db, s, row)
  <2>1. FilledColumns \subseteq DOMAIN row
    BY <1>6 DEF ToSet
  <2>2. /\ DOMAIN filled = DOMAIN row
        /\ \A c \in DOMAIN row \ DOMAIN s.assignments : filled[c] = row[c]
        /\ \A token \in tokens :
             (\A m \in s.match : token[m[1]] = row[m[2]]) =>
               \E own \in tokens :
                 /\ \A m \in s.match : own[m[1]] = row[m[2]]
                 /\ \A c \in DOMAIN row \intersect DOMAIN s.assignments :
                      filled[c] = own[s.assignments[c]]
    BY <1>1, <1>6, FilledBy
  <2>3. stored = Values(filled, FilledColumns)
    BY <1>11
  <2> HIDE DEF filled
  <2>4. DOMAIN stored = FilledColumns /\ \A c \in FilledColumns : stored[c] = filled[c]
    BY <2>1, <2>2, <2>3 DEF Values
  <2>5. stored.correlationId = row.correlationId
        /\ stored.processInstanceId = row.processInstanceId
        /\ stored.identity = filled.identity
    BY <1>3, <2>1, <2>2, <2>4 DEF FilledColumns
  <2>6. ASSUME NEW said \in Said(db, Tokens, C), said.correlationId = stored.correlationId
        PROVE  \E other \in Said(db, Tokens, C) :
                 /\ other.correlationId = stored.correlationId
                 /\ other.processInstanceId = stored.processInstanceId
                 /\ other.identity = stored.identity
    <3>1. PICK token \in tokens : token.correlationId = row.correlationId
      BY <1>9, <2>5, <2>6 DEF FilledColumns
    <3>2. row \in ToSet(RowsOf(db, "Correlations")) /\ tokens = ToSet(RowsOf(db, Tokens))
      BY <1>6 DEF RowsOf, Exists, ToSet, rows
    <3>3. PICK first \in tokens : /\ first.correlationId = row.correlationId
                                  /\ first.processInstanceId = row.processInstanceId
      BY <3>1, <3>2 DEF InstanceFilled
    <3>4. \A m \in s.match : first[m[1]] = row[m[2]]
      BY <1>1, <1>2, <3>3
    <3>5. PICK own \in tokens :
            /\ \A m \in s.match : own[m[1]] = row[m[2]]
            /\ \A c \in DOMAIN row \intersect DOMAIN s.assignments :
                 filled[c] = own[s.assignments[c]]
      BY <2>2, <3>4
    <3>6. /\ own.correlationId = row.correlationId
          /\ own.processInstanceId = row.processInstanceId
          /\ own.identity = filled.identity
      BY <1>1, <1>2, <1>3, <2>1, <3>5 DEF FilledColumns
    <3>7. PICK other \in Said(db, Tokens, C) : \A c \in FilledColumns : other[c] = own[c]
      BY <1>10
    <3> QED
      BY <2>5, <3>6, <3>7 DEF FilledColumns
  <2> QED
    BY <2>4, <2>6 DEF IsFilled
<1>12. \A stored \in AllStored(after) :
         \E i \in DOMAIN rows : stored = Values(Filled(db, s, rows[i]), FilledColumns)
  BY <1>6, <1>7 DEF ValuesOf, ToSet
<1> QED
  BY <1>8, <1>11, <1>12 DEF FilledIn, C

\* One prelude after the other.
LEMMA PreludeJoined ==
  ASSUME NEW p, NEW q, IsPrelude(p), IsPrelude(q) PROVE IsPrelude(p \o q)
<1>1. IsSequence(p) /\ IsSequence(q)
  BY DEF IsPrelude
<1>2. IsSequence(p \o q) /\ ToSet(p \o q) = ToSet(p) \union ToSet(q)
  BY <1>1, Concatenated
<1> QED
  BY <1>2 DEF IsPrelude

\* A prelude of nothing, or of one statement.
LEMMA PreludeOf ==
  IsPrelude(<<>>) /\ \A s : Prepares(s) => IsPrelude(<<s>>)
<1>1. IsPrelude(<<>>)
  BY Sequence DEF IsPrelude, IsSequence, ToSet
<1>2. \A s : ToSet(<<s>>) = {s} /\ <<s>> \in Seq({s})
  BY DEF ToSet
<1> QED
  BY <1>1, <1>2 DEF IsPrelude, IsSequence

\* Whatever comes before the end.
LEMMA EndsJoined ==
  ASSUME NEW p, NEW q, IsSequence(p), IsSequence(q), EndsInFill(q)
  PROVE  EndsInFill(p \o q)
<1> DEFINE r == p \o q
<1>1. /\ Len(p) \in Nat /\ DOMAIN p = 1..Len(p)
      /\ Len(q) \in Nat /\ DOMAIN q = 1..Len(q)
      /\ DOMAIN r = 1..(Len(p) + Len(q))
      /\ \A i \in 1..(Len(p) + Len(q)) :
           r[i] = IF i <= Len(p) THEN p[i] ELSE q[i - Len(p)]
  BY Places
<1>2. IsSequence(r)
  BY Concatenated
<1> HIDE DEF r
<1>3. Len(r) = Len(p) + Len(q)
  <2>1. Len(r) \in Nat /\ DOMAIN r = 1..Len(r)
    BY <1>2 DEF IsSequence
  <2> QED
    BY <1>1, <2>1
<1>4. Len(q) >= 2 /\ q[Len(q) - 1] = FillInstance /\ q[Len(q)] = FillIdentity
  BY DEF EndsInFill
<1>5. Len(r) >= 2
  BY <1>1, <1>3, <1>4
<1>6. r[Len(r) - 1] = FillInstance
  <2>1. /\ Len(r) - 1 \in 1..(Len(p) + Len(q)) /\ ~(Len(r) - 1 <= Len(p))
        /\ (Len(r) - 1) - Len(p) = Len(q) - 1
    BY <1>1, <1>3, <1>4
  <2> QED
    BY <1>1, <1>4, <2>1
<1>7. r[Len(r)] = FillIdentity
  <2>1. Len(r) \in 1..(Len(p) + Len(q)) /\ ~(Len(r) <= Len(p)) /\ Len(r) - Len(p) = Len(q)
    BY <1>1, <1>3, <1>4
  <2> QED
    BY <1>1, <1>4, <2>1
<1> QED
  BY <1>5, <1>6, <1>7 DEF EndsInFill, r

\* A sequence of one element.
LEMMA OneLeft ==
  ASSUME NEW q, IsSequence(q), Len(q) = 1, NEW a, q[1] = a PROVE q = <<a>>
<1>1. q \in Seq(ToSet(q))
  BY DEF IsSequence
<1>2. DOMAIN q = 1..1 /\ q = [i \in 1..1 |-> q[i]]
  BY <1>1
<1>3. q = [i \in 1..1 |-> a]
  BY <1>2
<1> QED
  BY <1>3

\* The next statement comes before the two, or is the first of them.
LEMMA EndsTail ==
  ASSUME NEW p, IsSequence(p), EndsInFill(p)
  PROVE  EndsInFill(Tail(p)) \/ (Head(p) = FillInstance /\ Tail(p) = <<FillIdentity>>)
<1>1. p # <<>> /\ Len(p) >= 2
  BY DEF EndsInFill
<1>2. /\ Len(p) \in Nat /\ Head(p) = p[1] /\ DOMAIN Tail(p) = 1..(Len(p) - 1)
      /\ \A i \in 1..(Len(p) - 1) : Tail(p)[i] = p[i + 1]
      /\ IsSequence(Tail(p))
  BY <1>1, TailOf
<1>3. Len(Tail(p)) = Len(p) - 1
  <2>1. Len(Tail(p)) \in Nat /\ DOMAIN Tail(p) = 1..Len(Tail(p))
    BY <1>2 DEF IsSequence
  <2> QED
    BY <1>1, <1>2, <2>1
<1>4. p[Len(p) - 1] = FillInstance /\ p[Len(p)] = FillIdentity
  BY DEF EndsInFill
<1>5. CASE Len(p) > 2
  <2>1. /\ Len(p) - 1 >= 2
        /\ (Len(p) - 1) - 1 \in 1..(Len(p) - 1) /\ Len(p) - 1 \in 1..(Len(p) - 1)
        /\ ((Len(p) - 1) - 1) + 1 = Len(p) - 1 /\ (Len(p) - 1) + 1 = Len(p)
    BY <1>2, <1>5
  <2>2. Tail(p)[(Len(p) - 1) - 1] = FillInstance /\ Tail(p)[Len(p) - 1] = FillIdentity
    BY <1>2, <1>4, <2>1
  <2> QED
    BY <1>3, <2>1, <2>2 DEF EndsInFill
<1>6. CASE Len(p) = 2
  <2>1. Head(p) = FillInstance
    BY <1>2, <1>4, <1>6
  <2>2. Len(Tail(p)) = 1 /\ Tail(p)[1] = FillIdentity
    BY <1>2, <1>3, <1>4, <1>6
  <2>3. Tail(p) = <<FillIdentity>>
    BY <1>2, <2>2, OneLeft
  <2> QED
    BY <2>1, <2>3
<1>7. Len(p) > 2 \/ Len(p) = 2
  BY <1>1, <1>2
<1> QED
  BY <1>5, <1>6, <1>7, Zenon

\* correlation/01 fills the columns that it adds, if there are tokens to fill them from.
LEMMA FillingBegins ==
  ASSUME NEW db, FirstRelease(db),
         (Exists(db, "Correlations") => HasFilledColumns(db)) => FilledIn(db)
  PROVE  Filling(Up("correlation/01", db), db)
<1> DEFINE t == "Correlations"
           describe == <<DescribeTable(t)>>
           p == AddIfMissing(db, t, "processModelId", "STRING")
           q == AddIfMissing(db, t, "processInstanceId", "STRING")
           r == AddIfMissing(db, t, "identity", "TEXT")
           model == DoubleQuoted(FillFrom("Correlations", [processModelId |-> "name"],
                      "ProcessDefinitions", {<<"hash", "processModelHash">>}, {}))
           one == IF Exists(db, "ProcessDefinitions") THEN <<model>> ELSE <<>>
           ends == <<FillInstance, FillIdentity>>
           two == IF Exists(db, "ProcessTokens") THEN ends ELSE <<>>
           front == p \o q \o r
           rest == IF HasFilledColumns(db) THEN <<>> ELSE front \o (one \o two)
<1>1. Up("correlation/01", db) = describe \o rest
  BY Zenon DEF Up, Correlation01, FillCorrelations, HasFilledColumns, FillInstance,
               FillIdentity, Tokens
<1>2. /\ Prepares(DescribeTable(t)) /\ Prepares(model)
      /\ Prepares(FillInstance) /\ Prepares(FillIdentity)
      /\ \A column, type : Prepares(AddColumn(t, column, type, Null))
  <2>1. Prepares(DescribeTable(t)) /\ \A column, type : Prepares(AddColumn(t, column, type, Null))
    BY DEF Prepares, DescribeTable, AddColumn
  <2>2. Prepares(model)
    BY DEF Prepares, DoubleQuoted, With, FillFrom
  <2>3. Prepares(FillInstance) /\ Prepares(FillIdentity)
    BY FillStatements DEF Prepares
  <2> QED
    BY <2>1, <2>2, <2>3
<1>3. /\ DOMAIN ends = 1..2 /\ ends = [i \in 1..2 |-> ends[i]] /\ ToSet(ends) = {FillInstance, FillIdentity}
      /\ Len(ends) = 2 /\ ends[1] = FillInstance /\ ends[2] = FillIdentity
  BY DEF ToSet
<1>4. ToSet(describe) = {DescribeTable(t)} /\ DescribeTable(t).op = "describeTable"
  BY DEF ToSet, DescribeTable
<1> HIDE DEF model, ends
<1>5. IsSequence(ends)
  BY <1>3, Sequence DEF IsSequence
<1>6. IsPrelude(ends) /\ EndsInFill(ends)
  <2>1. 2 - 1 = 1
    OBVIOUS
  <2> QED
    BY <1>2, <1>3, <1>5, <2>1 DEF IsPrelude, EndsInFill
<1>7. IsPrelude(describe) /\ IsPrelude(one) /\ IsPrelude(two) /\ IsPrelude(<<>>)
  BY <1>2, <1>6, PreludeOf
<1>8. IsPrelude(p) /\ IsPrelude(q) /\ IsPrelude(r)
  BY <1>2, PreludeOf DEF AddIfMissing
<1> HIDE DEF describe, p, q, r, one, two
<1>9. IsPrelude(front) /\ IsPrelude(one \o two)
  BY <1>7, <1>8, PreludeJoined
<1> HIDE DEF front
<1>10. IsPrelude(rest)
  BY <1>7, <1>9, PreludeJoined
<1>11. IsPrelude(describe \o rest)
  <2> HIDE DEF rest
  <2> QED
    BY <1>7, <1>10, PreludeJoined
<1>12. CASE HasFilledColumns(db)
  <2>1. Exists(db, "Correlations") => HasFilledColumns(db)
    BY <1>12
  <2>2. FilledIn(db)
    BY <2>1
  <2>3. ToSet(rest) = {}
    BY <1>12 DEF ToSet
  <2> HIDE DEF rest
  <2>a. IsSequence(describe) /\ IsSequence(rest)
    BY <1>7, <1>10 DEF IsPrelude
  <2>b. ToSet(describe \o rest) = ToSet(describe) \union ToSet(rest)
    BY ONLY <2>a, Concatenated
  <2>4. ToSet(describe \o rest) = {DescribeTable(t)}
    BY <1>4, <2>3, <2>b
  <2>5. \A s \in ToSet(describe \o rest) : s.op = "describeTable"
    BY <1>4, <2>4
  <2> QED
    BY <1>1, <1>11, <2>2, <2>5 DEF Filling
<1>13. CASE ~HasFilledColumns(db) /\ Exists(db, "ProcessTokens")
  <2>1. two = ends
    BY <1>13 DEF two
  <2>2. rest = front \o (one \o two)
    BY <1>13
  <2> HIDE DEF rest
  <2>3. EndsInFill(one \o two)
    BY <1>5, <1>6, <1>7, <2>1, EndsJoined DEF IsPrelude
  <2>4. EndsInFill(rest)
    BY <1>9, <2>2, <2>3, EndsJoined DEF IsPrelude
  <2>5. EndsInFill(describe \o rest)
    BY <1>7, <1>10, <2>4, EndsJoined DEF IsPrelude
  <2> QED
    BY <1>1, <1>11, <2>5 DEF Filling
<1>14. CASE ~Exists(db, "ProcessTokens")
  <2>1. Said(db, Tokens, CarriedColumns) = {}
    BY <1>14, ValuesWhere DEF Said, Exists, Tokens
  <2>2. /\ Said(db, Instances, CarriedColumns) = {}
        /\ Said(db, NewInstances, CarriedColumns) = {}
        /\ Said(db, NewTokens, CarriedColumns) = {}
    BY InstanceNames DEF FirstRelease
  <2>3. AllSaid(db, CarriedColumns) = {}
    BY <2>1, <2>2, AllSaidParts
  <2> QED
    BY <1>1, <1>11, <2>3 DEF Filling, FilledIn
<1> QED
  BY <1>12, <1>13, <1>14

\* One statement later, correlation/01 is one statement further.
LEMMA FillingGoesOn ==
  ASSUME NEW db, NEW p, NEW after, WellFormed(db), IsRest(p), p # <<>>, Filling(p, db),
         Succeeds(db, Head(p)), after = After(db, Head(p)), FirstRelease(db),
         InPlace(db, CarriedColumns),
         AllSaid(after, CarriedColumns) = AllSaid(db, CarriedColumns)
  PROVE  Filling(Tail(p), after) /\ FirstRelease(after)
<1> DEFINE s == Head(p)
<1>1. IsSequence(p) /\ \A x \in ToSet(p) : Prepares(x)
  BY DEF Filling, IsPrelude
<1>2. ToSet(p) = {s} \union ToSet(Tail(p))
  BY <1>1, HeadAndTail
<1>3. Allowed(s) /\ IsSequence(Tail(p))
  BY RestTail DEF IsRest
<1>4. Prepares(s) /\ IsPrelude(Tail(p))
  BY <1>1, <1>2, <1>3 DEF IsPrelude
<1>5. Succeeds(db, s) /\ after = After(db, s)
  OBVIOUS
<1> HIDE DEF s
<1>6. FirstRelease(after)
  BY <1>3, <1>4, <1>5, FirstReleaseStays, CorrelationsAreNoTokens DEF Prepares
<1>7. CASE FilledIn(db)
           /\ (AllSaid(db, CarriedColumns) # {} => \A x \in ToSet(p) : x.op = "describeTable")
  <2>1. s.op = "describeTable" => after = db
    BY <1>5, AfterBy
  <2>2. FilledIn(after)
    BY <1>2, <1>7, <2>1 DEF FilledIn
  <2> QED
    BY <1>2, <1>4, <1>6, <1>7, <2>2 DEF Filling
<1>8. CASE EndsInFill(p)
  <2>1. EndsInFill(Tail(p)) \/ (s = FillInstance /\ Tail(p) = <<FillIdentity>>)
    BY <1>1, <1>8, EndsTail DEF s
  <2>2. s = FillInstance => InstanceFilled(after)
    BY <1>5, InstanceFills
  <2> QED
    BY <1>4, <1>6, <2>1, <2>2 DEF Filling
<1>9. CASE p = <<FillIdentity>> /\ InstanceFilled(db)
  <2>1. s = FillIdentity /\ Tail(p) = <<>>
    BY <1>9 DEF s
  <2>2. FilledIn(after)
    BY <1>5, <1>9, <2>1, IdentityFills
  <2>3. ToSet(Tail(p)) = {}
    BY <2>1 DEF ToSet
  <2> QED
    BY <1>4, <1>6, <2>2, <2>3 DEF Filling
<1> QED
  BY <1>7, <1>8, <1>9 DEF Filling

-----------------------------------------------------------------------------
(* The columns stay filled.                                                *)

\* The scripts of the correlations run in their order, before those of any other
\* repository.
LEMMA CorrelationScriptRuns ==
  ASSUME RunnerInv
  PROVE  /\ script \in {"correlation/00", "correlation/01"} =>
              ~Logged("correlation", 2) /\ Repository = "correlation"
         /\ status = "migrating" /\ ~Logged("correlation", 2) => Repository = "correlation"
         /\ status = "migrating" /\ ~Logged("correlation", 2) /\ script # NoScript =>
              script \in {"correlation/00", "correlation/01"}
<1> DEFINE r == "correlation"
           names == {"correlation/00", "correlation/01"}
<1>1. /\ ScriptsOf[r][1] = "correlation/00" /\ ScriptsOf[r][2] = "correlation/01"
      /\ DOMAIN ScriptsOf[r] = 1..7 /\ 1 \in DOMAIN ScriptsOf[r] /\ 2 \in DOMAIN ScriptsOf[r]
      /\ r \in Repositories
  BY DEF ScriptsOf, Repositories
<1>2. NoScript \notin names
  BY DEF NoScript
<1>3. /\ Repository \in Repositories /\ current \in 1..5
      /\ RepositoryOrder[1] = "correlation"
  BY CurrentFacts DEF RunnerInv, RepositoryOrder
<1>4. ASSUME script # NoScript
      PROVE  \E i \in DOMAIN Scripts :
               /\ script = Scripts[i] /\ ~Logged(Repository, i)
               /\ \A j \in 1..(i - 1) : Logged(Repository, j)
  BY <1>4 DEF RunnerInv, RunningScriptIsNext
<1>5. LogIsPrefix /\ RepositoriesInOrder
  BY DEF RunnerInv
<1> HIDE DEF r
<1>6. ASSUME script \in names PROVE ~Logged(r, 2) /\ Repository = r
  <2>1. PICK i \in DOMAIN Scripts : script = Scripts[i] /\ ~Logged(Repository, i)
    BY <1>2, <1>4, <1>6
  <2>2. Repository = r /\ i \in {1, 2}
    BY <1>1, <1>3, <1>6, <2>1, ScriptNamesUnique DEF Scripts
  <2>3. Logged(r, 2) => \A j \in 1..(2 - 1) : Logged(r, j)
    BY <1>1, <1>5 DEF LogIsPrefix
  <2>4. 1 \in 1..(2 - 1)
    OBVIOUS
  <2>5. Logged(r, 2) => Logged(r, 1)
    BY <2>3, <2>4
  <2> QED
    BY <2>1, <2>2, <2>5
<1>7. ASSUME status = "migrating", ~Logged(r, 2) PROVE Repository = r
  <2>1. \A k \in 1..(current - 1) : Complete(RepositoryOrder[k])
    BY <1>5, <1>7 DEF RepositoriesInOrder
  <2>2. ~Complete(r)
    BY <1>1, <1>7 DEF Complete
  <2>3. current # 1 => 1 \in 1..(current - 1)
    BY <1>3
  <2>4. current = 1
    BY <1>3, <2>1, <2>2, <2>3 DEF r
  <2> QED
    BY <1>3, <2>4 DEF Repository, r
<1>8. ASSUME status = "migrating", ~Logged(r, 2), script # NoScript PROVE script \in names
  <2>1. Repository = r
    BY <1>7, <1>8
  <2>2. PICK i \in DOMAIN Scripts :
          script = Scripts[i] /\ \A j \in 1..(i - 1) : Logged(Repository, j)
    BY <1>4, <1>8
  <2>3. i \in 1..7 /\ script = ScriptsOf[r][i]
    BY <1>1, <2>1, <2>2 DEF Scripts
  <2>4. i > 2 => 2 \in 1..(i - 1)
    BY <2>3
  <2>5. ~(i > 2)
    BY <1>8, <2>1, <2>2, <2>4
  <2>6. i = 1 \/ i = 2
    BY <2>3, <2>5
  <2> QED
    BY <1>1, <2>3, <2>6
<1> QED
  BY <1>6, <1>7, <1>8 DEF r

\* A statement that leaves the columns alone leaves what is filled so.
LEMMA SparedStays ==
  ASSUME NEW db, NEW s, NEW after, WellFormed(db), Allowed(s), SparesFilled(s),
         after = IF Succeeds(db, s) THEN After(db, s) ELSE db, FilledIn(db),
         AllSaid(after, CarriedColumns) = AllSaid(db, CarriedColumns)
  PROVE  FilledIn(after)
<1>1. CASE Succeeds(db, s)
  <2>1. after = After(db, s)
    BY <1>1
  <2>2. AllStored(after) \subseteq AllStored(db)
    BY <1>1, <2>1, StoredBy
  <2> QED
    BY <2>2, FilledStays
<1>2. CASE ~Succeeds(db, s)
  BY <1>2
<1> QED
  BY <1>1, <1>2

\* correlation/00 makes the table if it is missing.
LEMMA CreatesStay ==
  ASSUME NEW db, NEW s, NEW after, WellFormed(db), Allowed(s), Succeeds(db, s),
         SparesFilled(s), s.op = "createTable", s.table = "Correlations",
         after = After(db, s), AllSaid(after, CarriedColumns) = AllSaid(db, CarriedColumns),
         FirstRelease(db),
         (Exists(db, "Correlations") => HasFilledColumns(db)) => FilledIn(db)
  PROVE  /\ FirstRelease(after)
         /\ (Exists(after, "Correlations") => HasFilledColumns(after)) => FilledIn(after)
<1>1. FirstRelease(after)
  <2>1. s.table # "correlations_new" /\ s.table \notin InstanceTables
    BY CorrelationsAreNoTokens
  <2> QED
    BY <2>1, FirstReleaseStays
<1>2. CASE Exists(db, "Correlations")
  <2>1. after = db
    BY <1>2, AfterBy
  <2> QED
    BY <1>1, <2>1
<1>3. CASE ~Exists(db, "Correlations")
  <2>1. FilledIn(db)
    BY <1>3
  <2>2. FilledIn(after)
    BY <2>1, SparedStays
  <2> QED
    BY <1>1, <2>2
<1> QED
  BY <1>2, <1>3

\* A statement that is waited for keeps the invariant.
LEMMA FilledExecute ==
  ASSUME RunnerInv, TablesInv, RowsInv, InstancesInv(CarriedColumns), FilledInv,
         [Next]_vars, ExecuteStatement
  PROVE  FilledInv'
<1> DEFINE db == databases[Database]
           s == Head(todo)
           after == databases'[Database]
           C == CarriedColumns
           log == Logged("correlation", 2)
           rest == Tail(todo)
<1>1. /\ todo # <<>> /\ Allowed(s) /\ IsRest(rest) /\ WellFormed(db)
      /\ s.op # "setCell" => Succeeds(db, s)
      /\ todo' = Continuation(db, s) \o rest
      /\ Databases' = Databases /\ Database' = Database /\ Database \in Databases
      /\ after = IF Succeeds(db, s) THEN After(db, s) ELSE db
  BY Executed
<1>2. status = "migrating" /\ UNCHANGED <<script, meta, restarts>>
  BY DEF ExecuteStatement
<1>3. log' <=> log
  BY <1>2 DEF Logged, DatabaseOf, Databases
<1>4. AllSaid(after, C) = AllSaid(db, C)
  BY <1>1, AllAreCarried, InstancesExecute
<1>5. InPlace(db, C)
  BY <1>1 DEF InstancesInv
<1>6. ToSet(todo') = ToSet(Continuation(db, s)) \union ToSet(rest)
  <2>1. IsSequence(Continuation(db, s)) /\ IsSequence(rest)
    BY <1>1, ContinuationPlan DEF IsRest
  <2>2. todo' = Continuation(db, s) \o rest
    BY <1>1
  <2> HIDE DEF db, s, rest
  <2> QED
    BY ONLY <2>1, <2>2, Concatenated
<1>7. ToSet(todo) = {s} \union ToSet(rest) /\ IsRest(todo)
  BY <1>1, HeadAndTail DEF TablesInv, IsRest
<1>8. script # NoScript
  BY <1>1 DEF RunnerInv, TodoBelongsToScript
<1>9. \A x \in ToSet(Continuation(db, s)) : SparesFilled(x)
  BY <1>1, ContinuationSpares
<1>10. s.op # "select" => todo' = rest
  <2>1. s.op # "select" => Continuation(db, s) = <<>>
    BY <1>1, ContinuationPlan
  <2> QED
    BY <1>1, <2>1, NothingBefore DEF IsRest
<1> SUFFICES ASSUME Databases = {"correlation"}, restarts = 0
             PROVE  FilledState(script, todo', after, log')
  BY <1>1, <1>2 DEF FilledInv
<1>11. Database = "correlation"
  BY <1>1
<1>12. FilledState(script, todo, db, log)
  BY <1>11 DEF FilledInv
<1>a. s = Head(todo) /\ rest = Tail(todo)
  OBVIOUS
<1> HIDE DEF db, s, after, log, rest
<1>13. script = "correlation/00" =>
         /\ s.op = "createTable" /\ s.table = "Correlations"
         /\ \A x \in ToSet(todo') : x.op = "createTable" /\ x.table = "Correlations"
  BY <1>7, <1>10, <1>12 DEF FilledState
<1>14. script # "correlation/01" =>
         SparesFilled(s) /\ \A x \in ToSet(todo') : SparesFilled(x)
  BY <1>6, <1>7, <1>9, <1>12 DEF FilledState
<1>15. log => script # "correlation/01" /\ FilledIn(after)
  <2> SUFFICES ASSUME log PROVE script # "correlation/01" /\ FilledIn(after)
    OBVIOUS
  <2>1. script # "correlation/01"
    BY CorrelationScriptRuns DEF log
  <2>2. FilledIn(db)
    BY <1>12 DEF FilledState
  <2> QED
    BY <1>1, <1>4, <1>14, <2>1, <2>2, SparedStays
<1>16. ASSUME ~log
       PROVE  /\ FirstRelease(after)
              /\ script = "correlation/01" => Filling(todo', after)
              /\ script # "correlation/01"
                 /\ (Exists(after, "Correlations") => HasFilledColumns(after)) => FilledIn(after)
  <2>1. script = "correlation/00" \/ script = "correlation/01"
    BY <1>2, <1>8, <1>16, CorrelationScriptRuns DEF log
  <2>2. FirstRelease(db)
    BY <1>12, <1>16 DEF FilledState
  <2>3. CASE script = "correlation/00"
    <3>1. s.op = "createTable" /\ s.table = "Correlations" /\ SparesFilled(s)
      BY <1>13, <1>14, <2>3
    <3>2. (Exists(db, "Correlations") => HasFilledColumns(db)) => FilledIn(db)
      BY <1>12, <1>16, <2>3 DEF FilledState
    <3>3. Succeeds(db, s) /\ after = After(db, s)
      BY <1>1, <3>1
    <3> QED
      BY <1>1, <1>4, <2>2, <2>3, <3>1, <3>2, <3>3, CreatesStay
  <2>4. CASE script = "correlation/01"
    <3>1. Filling(todo, db)
      BY <1>12, <1>16, <2>4 DEF FilledState
    <3>2. Prepares(s)
      BY <1>7, <3>1 DEF Filling, IsPrelude
    <3>3. s.op # "setCell" /\ s.op # "select"
      BY <3>2 DEF Prepares
    <3>4. Succeeds(db, s) /\ after = After(db, s) /\ todo' = rest
      BY <1>1, <1>10, <3>3
    <3>5. Filling(rest, after) /\ FirstRelease(after)
      BY <1>1, <1>4, <1>5, <1>7, <1>a, <2>2, <3>1, <3>4, FillingGoesOn
    <3> QED
      BY <2>4, <3>4, <3>5
  <2> QED
    BY <2>1, <2>3, <2>4
<1> QED
  BY <1>3, <1>13, <1>14, <1>15, <1>16 DEF FilledState

\* A table that has nothing to do with them is dropped: they stay filled.
LEMMA FilledDropped ==
  ASSUME RunnerInv, TablesInv, RowsInv, InstancesInv(CarriedColumns), FilledInv,
         [Next]_vars, UnawaitedTakesEffect
  PROVE  FilledInv'
<1> DEFINE db == databases[Database]
           s == Head(unawaited)
           after == databases'[Database]
           C == CarriedColumns
           log == Logged("correlation", 2)
<1>1. /\ Allowed(s) /\ s.op = "dropTable" /\ s.table = "external_tasks_new" /\ WellFormed(db)
      /\ Databases' = Databases /\ Database' = Database /\ Database \in Databases
      /\ after = IF Succeeds(db, s) THEN After(db, s) ELSE db
  BY TakesEffect
<1>2. UNCHANGED <<script, meta, restarts, todo>>
  BY DEF UnawaitedTakesEffect
<1>3. log' <=> log
  BY <1>2 DEF Logged, DatabaseOf, Databases
<1>4. AllSaid(after, C) = AllSaid(db, C)
  BY <1>1, AllAreCarried, InstancesDropped
<1>5. SparesFilled(s) /\ s.table \notin InstanceTables
  BY <1>1, CorrelationNames, OthersSpare DEF InstanceTables
<1> SUFFICES ASSUME Databases = {"correlation"}, restarts = 0
             PROVE  FilledState(script, todo, after, log')
  BY <1>1, <1>2 DEF FilledInv
<1>6. FilledState(script, todo, db, log)
  BY <1>1 DEF FilledInv
<1> HIDE DEF db, s, after, log
<1>7. CASE ~Succeeds(db, s)
  <2>1. after = db
    BY <1>1, <1>7
  <2> QED
    BY <1>3, <1>6, <2>1 DEF FilledState
<1>8. CASE Succeeds(db, s)
  <2>1. after = After(db, s) /\ After(db, s) = Without(db, s.table)
    BY <1>1, <1>8, AfterBy
  <2>2. \A x \in {"Correlations", Tokens} :
          /\ Exists(after, x) <=> Exists(db, x)
          /\ Exists(db, x) => after[x] = db[x]
    BY <1>1, <2>1 DEF Without, Exists, Tokens
  <2>3. RowsOf(after, "Correlations") = RowsOf(db, "Correlations")
        /\ RowsOf(after, Tokens) = RowsOf(db, Tokens)
    BY <2>2 DEF RowsOf
  <2>4. HasFilledColumns(after) <=> HasFilledColumns(db)
    <3>1. Exists(after, "Correlations") <=> Exists(db, "Correlations")
      BY <2>2
    <3>2. Exists(db, "Correlations") => after["Correlations"] = db["Correlations"]
      BY <2>2
    <3> QED
      BY <3>1, <3>2 DEF HasFilledColumns, HasColumns, HasColumn
  <2>5. InstanceFilled(db) => InstanceFilled(after)
    BY <2>3 DEF InstanceFilled
  <2>6. FilledIn(db) => FilledIn(after)
    BY <1>1, <1>4, <1>5, SparedStays
  <2>7. FirstRelease(db) => FirstRelease(after)
    BY <1>1, <1>5, <1>8, <2>1, FirstReleaseStays
  <2>8. Filling(todo, db) => Filling(todo, after)
    BY <1>4, <2>5, <2>6 DEF Filling
  <2>9. Exists(after, "Correlations") <=> Exists(db, "Correlations")
    BY <2>2
  <2> QED
    BY <1>3, <1>6, <2>4, <2>6, <2>7, <2>8, <2>9 DEF FilledState
<1> QED
  BY <1>7, <1>8

\* correlation/00 is one statement, or none.
LEMMA CreatesOnly ==
  ASSUME NEW db
  PROVE  \A s \in ToSet(Up("correlation/00", db)) :
           s.op = "createTable" /\ s.table = "Correlations"
<1>1. \A columns, unique :
        LET s == CreateTable("Correlations", columns, unique)
        IN  s.op = "createTable" /\ s.table = "Correlations"
  BY DEF CreateTable
<1>2. \A columns, unique :
        \A s \in ToSet(CreateIfMissing(db, "Correlations", columns, unique)) :
          s.op = "createTable" /\ s.table = "Correlations"
  <2>1. \A a : ToSet(<<a>>) = {a}
    BY DEF ToSet
  <2>2. ToSet(<<>>) = {}
    BY DEF ToSet
  <2> QED
    BY <1>1, <2>1, <2>2 DEF CreateIfMissing
<1>3. \A s \in ToSet(Correlation00(db)) : s.op = "createTable" /\ s.table = "Correlations"
  BY <1>2, Zenon DEF Correlation00
<1>4. Up("correlation/00", db) = Correlation00(db)
  BY Zenon DEF Up
<1> QED
  BY <1>3, <1>4

\* Every step keeps the invariant.
LEMMA FilledStep ==
  ASSUME RunnerInv, TablesInv, RowsInv, InstancesInv(CarriedColumns), FilledInv, [Next]_vars
  PROVE  FilledInv'
<1> DEFINE db == databases["correlation"]
           log == Logged("correlation", 2)
<1>1. Databases' = Databases
  BY LogStays
<1>2. CASE StartRuntime \/ FinishRepository \/ StatementFails \/ UNCHANGED vars
  <2>1. UNCHANGED <<databases, meta, script, todo, restarts>>
    BY <1>2 DEF StartRuntime, FinishRepository, StatementFails, vars, store
  <2>2. log' <=> log
    BY <2>1 DEF Logged, DatabaseOf, Databases
  <2> HIDE DEF log
  <2> QED
    BY <1>1, <2>1, <2>2 DEF FilledInv, FilledState, log
<1>3. CASE Stop
  <2>1. restarts' = restarts + 1 /\ restarts \in Nat
    BY <1>3 DEF Stop, RunnerInv, RunnerTypeOK
  <2>2. restarts' # 0
    BY <2>1
  <2> QED
    BY <2>2 DEF FilledInv
<1>4. CASE BeginScript
  <2>1. PICK i \in DOMAIN Scripts :
          script' = Scripts[i] /\ todo' = Up(Scripts[i], databases[Database])
    BY <1>4 DEF BeginScript
  <2>2. script = NoScript /\ UNCHANGED <<databases, meta, restarts>>
    BY <1>4 DEF BeginScript, store
  <2>3. log' <=> log
    BY <2>2 DEF Logged, DatabaseOf, Databases
  <2>4. Scripts[i] \in ScriptNames /\ Database \in Databases
    BY CurrentFacts DEF RunnerInv
  <2> SUFFICES ASSUME Databases = {"correlation"}, restarts = 0
               PROVE  FilledState(script', todo', db, log')
    BY <1>1, <2>2 DEF FilledInv
  <2>5. FilledState(script, todo, db, log)
    BY DEF FilledInv
  <2>6. todo' = Up(script', db)
    BY <2>1, <2>4
  <2>7. script # "correlation/01" /\ script' \in ScriptNames
    BY <2>1, <2>2, <2>4 DEF NoScript
  <2> HIDE DEF db, log
  <2>8. script' = "correlation/00" =>
          \A s \in ToSet(todo') : s.op = "createTable" /\ s.table = "Correlations"
    BY <2>6, CreatesOnly
  <2>9. script' # "correlation/01" => \A s \in ToSet(todo') : SparesFilled(s)
    BY <2>6, <2>7, UpSpares
  <2>10. log => FilledIn(db)
    BY <2>5 DEF FilledState
  <2>11. ~log => /\ FirstRelease(db)
                 /\ (Exists(db, "Correlations") => HasFilledColumns(db)) => FilledIn(db)
    BY <2>5, <2>7 DEF FilledState
  <2>12. ~log /\ script' = "correlation/01" => Filling(todo', db)
    BY <2>6, <2>11, FillingBegins
  <2> QED
    BY <2>3, <2>8, <2>9, <2>10, <2>11, <2>12 DEF FilledState
<1>5. CASE SendUnawaited
  <2>1. /\ todo # <<>> /\ ~IsAwaited(Head(todo)) /\ todo' = Tail(todo)
        /\ UNCHANGED <<databases, meta, script, restarts>>
    BY <1>5 DEF SendUnawaited, store
  <2>2. log' <=> log
    BY <2>1 DEF Logged, DatabaseOf, Databases
  <2>3. Allowed(Head(todo)) /\ IsSequence(todo)
    BY <2>1, RestTail DEF TablesInv, IsRest
  <2>4. ToSet(todo) = {Head(todo)} \union ToSet(todo')
    BY <2>1, <2>3, HeadAndTail
  <2>5. Head(todo).op = "dropTable"
    BY <2>1, <2>3 DEF Allowed
  <2> SUFFICES ASSUME Databases = {"correlation"}, restarts = 0
               PROVE  FilledState(script, todo', db, log')
    BY <1>1, <2>1 DEF FilledInv
  <2>6. FilledState(script, todo, db, log)
    BY DEF FilledInv
  <2> HIDE DEF db, log
  <2>7. ~Filling(todo, db)
    BY <2>4, <2>5 DEF Filling, IsPrelude, Prepares
  <2> QED
    BY <2>2, <2>4, <2>6, <2>7 DEF FilledState
<1>6. CASE LogMigration
  <2>1. /\ status = "migrating" /\ script # NoScript /\ todo = <<>> /\ todo' = <<>>
        /\ script' = NoScript /\ UNCHANGED <<databases, restarts>>
    BY <1>6 DEF LogMigration
  <2>2. PICK k \in DOMAIN Scripts : script = Scripts[k]
    BY <2>1 DEF RunnerInv, RunningScriptIsNext
  <2>3. /\ "correlation" \in Repositories /\ 2 \in DOMAIN ScriptsOf["correlation"]
        /\ ScriptsOf["correlation"][2] = "correlation/01"
    BY DEF ScriptsOf, Repositories
  <2>4. log' <=> log \/ (Repository = "correlation" /\ k = 2)
    BY <1>6, <2>2, <2>3, LoggedAfter
  <2>5. script = "correlation/01" => Repository = "correlation" /\ ~log
    BY CorrelationScriptRuns
  <2>6. Repository \in Repositories
    BY CurrentFacts DEF RunnerInv
  <2>7. script = "correlation/01" <=> Repository = "correlation" /\ k = 2
    BY <2>2, <2>3, <2>6, ScriptNamesUnique DEF Scripts
  <2> SUFFICES ASSUME Databases = {"correlation"}, restarts = 0
               PROVE  FilledState(NoScript, <<>>, db, log')
    BY <1>1, <2>1 DEF FilledInv
  <2>8. FilledState(script, <<>>, db, log)
    BY <2>1 DEF FilledInv
  <2> HIDE DEF db, log
  <2>9. Filling(<<>>, db) => FilledIn(db)
    <3>1. ~EndsInFill(<<>>) /\ <<>> # <<FillIdentity>>
      BY DEF EndsInFill
    <3> QED
      BY <3>1 DEF Filling
  <2>10. ToSet(<<>>) = {} /\ NoScript # "correlation/00" /\ NoScript # "correlation/01"
    BY DEF ToSet, NoScript
  <2>11. log' => FilledIn(db)
    BY <2>4, <2>7, <2>8, <2>9 DEF FilledState
  <2>12. ~log' => /\ FirstRelease(db)
                  /\ (Exists(db, "Correlations") => HasFilledColumns(db)) => FilledIn(db)
    BY <2>4, <2>7, <2>8 DEF FilledState
  <2> QED
    BY <2>10, <2>11, <2>12 DEF FilledState
<1>7. CASE ExecuteStatement
  BY <1>7, FilledExecute
<1>8. CASE UnawaitedTakesEffect
  BY <1>8, FilledDropped
<1> QED
  BY <1>2, <1>3, <1>4, <1>5, <1>6, <1>7, <1>8 DEF Next, Progress

-----------------------------------------------------------------------------
(* What a start finds.                                                     *)

\* What correlations have in the columns is what their rows have.
LEMMA StoredByRows ==
  ASSUME NEW db, NEW x
  PROVE  /\ \A row \in ToSet(RowsOf(db, x)) : "createdAt" \in DOMAIN row =>
              Values(row, FilledColumns) \in StoredIn(db, x)
         /\ \A stored \in StoredIn(db, x) : \E row \in ToSet(RowsOf(db, x)) :
              stored = Values(row, FilledColumns)
BY DEF StoredIn, ValuesIn, ValuesOf

\* Three columns of a row are what the row has in them.
LEMMA ValuesFilled ==
  ASSUME NEW row, NEW columns, FilledColumns \subseteq columns, columns \subseteq DOMAIN row
  PROVE  /\ DOMAIN Values(row, columns) = columns
         /\ Values(row, columns).correlationId = row.correlationId
         /\ Values(row, columns).processInstanceId = row.processInstanceId
         /\ Values(row, columns).identity = row.identity
BY DEF Values, FilledColumns

\* A correlation agrees with the rows of a database if it agrees with what they say.
LEMMA FilledByRows ==
  ASSUME NEW db, \A r \in PlacedIn(db) : CarriedColumns \subseteq DOMAIN r,
         NEW row, FilledColumns \subseteq DOMAIN row
  PROVE  IsFilled(Values(row, FilledColumns), AllSaid(db, CarriedColumns))
           <=> IsFilled(row, PlacedIn(db))
<1> DEFINE stored == Values(row, FilledColumns)
           placed == PlacedIn(db)
           said == AllSaid(db, CarriedColumns)
<1>1. /\ stored.correlationId = row.correlationId
      /\ stored.processInstanceId = row.processInstanceId
      /\ stored.identity = row.identity
  BY ValuesFilled
<1>2. said = {Values(r, CarriedColumns) : r \in placed}
  BY AllAreCarried, SaidByRows
<1>3. \A r \in placed :
        /\ Values(r, CarriedColumns).correlationId = r.correlationId
        /\ Values(r, CarriedColumns).processInstanceId = r.processInstanceId
        /\ Values(r, CarriedColumns).identity = r.identity
  <2>1. FilledColumns \subseteq CarriedColumns
    BY DEF FilledColumns, CarriedColumns
  <2> QED
    BY <2>1, ValuesFilled
<1> HIDE DEF stored, placed, said
<1>4. IsFilled(stored, said) <=> IsFilled(row, placed)
  BY <1>1, <1>2, <1>3 DEF IsFilled
<1> QED
  BY <1>4 DEF stored, placed, said

\* What a start finds is as the invariant needs it.
LEMMA FilledInit ==
  ASSUME CorrelationsFit PROVE Init => InstancesInv(CarriedColumns) /\ FilledInv
<1> SUFFICES ASSUME Init PROVE InstancesInv(CarriedColumns) /\ FilledInv
  OBVIOUS
<1>1. PICK s \in InitialStores : databases = s.databases /\ meta = s.meta
  BY DEF Init
<1>2. DOMAIN databases = Databases
  BY TablesInit DEF TablesInv
<1>3. \A t \in InitialStores : \A d \in DOMAIN t.databases :
        InstancesAgree(t.databases[d], CarriedColumns)
  <2>1. {"processInstanceId", "correlationId", "identity"} \union {"flowNodeInstanceId"}
          = CarriedColumns
    BY DEF CarriedColumns
  <2>2. \A t \in InitialStores : \A d \in DOMAIN t.databases :
          InstancesAgree(t.databases[d], {"processInstanceId", "correlationId", "identity"})
    BY DEF CorrelationsFit
  <2> QED
    BY <2>1, <2>2, AgreeOnInstances
<1>4. InstancesInv(CarriedColumns)
  BY <1>3, AllAreCarried, InstancesInit
<1>5. FilledInv
  <2> SUFFICES ASSUME Databases = {"correlation"}
               PROVE  FilledState(script, todo, databases["correlation"], Logged("correlation", 2))
    BY DEF FilledInv
  <2> DEFINE db == databases["correlation"]
             log == Logged("correlation", 2)
  <2>1. /\ ~log => /\ \A t \in InstanceTables \ {"ProcessTokens"} : NamingRows(db, t) = {}
                   /\ ~Exists(db, "correlations_new")
        /\ log \/ HasFilledColumns(db) =>
             \A t \in CorrelationTableNames : \A row \in ToSet(RowsOf(db, t)) :
               FilledColumns \subseteq DOMAIN row /\ IsFilled(row, PlacedIn(db))
    BY <1>1, <1>2
    DEF CorrelationsFit, Logged, DatabaseOf, Databases, HasFilledColumns, CorrelationTableNames,
        FilledColumns
  <2>2. \A r \in PlacedIn(db) : CarriedColumns \subseteq DOMAIN r
    BY <1>1, <1>2, <1>3 DEF InstancesAgree
  <2>3. script = NoScript /\ todo = <<>>
    BY DEF Init
  <2> HIDE DEF db, log
  <2>4. log \/ HasFilledColumns(db) => FilledIn(db)
    <3> SUFFICES ASSUME log \/ HasFilledColumns(db), NEW stored \in AllStored(db)
                 PROVE  /\ DOMAIN stored = FilledColumns
                        /\ IsFilled(stored, AllSaid(db, CarriedColumns))
      BY DEF FilledIn
    <3>1. PICK x \in CorrelationTableNames : stored \in StoredIn(db, x)
      BY DEF AllStored
    <3>2. PICK row \in ToSet(RowsOf(db, x)) : stored = Values(row, FilledColumns)
      BY <3>1, StoredByRows
    <3>3. FilledColumns \subseteq DOMAIN row /\ IsFilled(row, PlacedIn(db))
      BY <2>1, <3>1, <3>2
    <3> QED
      BY <2>2, <3>2, <3>3, FilledByRows, ValuesFilled
  <2>5. ~log => FirstRelease(db)
    <3> SUFFICES ASSUME ~log, NEW x \in InstanceTables \ {Tokens}
                 PROVE  Said(db, x, CarriedColumns) = {}
      BY <2>1 DEF FirstRelease
    <3>1. NamingRows(db, x) = {}
      BY <2>1 DEF Tokens
    <3> QED
      BY <3>1, SomethingSaid
  <2>6. ~Exists(db, "Correlations") /\ ~log => FilledIn(db)
    <3> SUFFICES ASSUME ~Exists(db, "Correlations"), ~log PROVE AllStored(db) = {}
      BY DEF FilledIn
    <3>1. \A x \in CorrelationTableNames : x \notin DOMAIN db
      BY <2>1 DEF CorrelationTableNames, Exists
    <3>2. \A x \in CorrelationTableNames : StoredIn(db, x) = {}
      BY <3>1, ValuesWhere DEF StoredIn
    <3> QED
      BY <3>2 DEF AllStored
  <2>7. ToSet(<<>>) = {} /\ NoScript # "correlation/00" /\ NoScript # "correlation/01"
    BY DEF ToSet, NoScript
  <2> QED
    BY <2>3, <2>4, <2>5, <2>6, <2>7 DEF FilledState, db, log
<1> QED
  BY <1>4, <1>5

\* On every dialect, and wherever correlation/01 stands among its statements, the
\* correlations of a shared database are filled, or the rest of the script is there
\* to fill them: first with the process instance of one of their tokens, then with
\* the identity of that one (correlation/01, lines 24 to 31 and 84 to 110).
THEOREM FilledInvariant ==
  ASSUME CorrelationsFit PROVE Spec => [](InstancesInv(CarriedColumns) /\ FilledInv)
<1>1. Init => InstancesInv(CarriedColumns) /\ FilledInv
  BY FilledInit
<1>2. RunnerInv /\ TablesInv /\ RowsInv /\ InstancesInv(CarriedColumns) /\ FilledInv /\ [Next]_vars
        => InstancesInv(CarriedColumns)' /\ FilledInv'
  BY AllAreCarried, InstancesStep, FilledStep
<1> QED
  BY <1>1, <1>2, RunnerInvariant, TablesInvariant, RowsInvariant, PTL DEF Spec

\* Once correlation/01 is in SequelizeMeta, each correlation that has tokens in the
\* shared database agrees with one of them on process instance and identity, and
\* does so after every statement of every later script: correlation/03 copies all
\* three columns, flow_node_instance/03 moves those of the tokens with one another.
\* Only a restart before that, which finds the columns and leaves them empty, is not
\* covered.
THEOREM CorrelationsAlwaysFilled == ASSUME CorrelationsFit PROVE Spec => []CorrelationsFilled
<1>1. TablesInv /\ InstancesInv(CarriedColumns) /\ FilledInv => CorrelationsFilled
  <2> SUFFICES ASSUME TablesInv, InstancesInv(CarriedColumns), FilledInv,
                      Databases = {"correlation"}, restarts = 0, Logged("correlation", 2),
                      NEW row \in AllRows("Correlations")
               PROVE  IsFilled(row, PlacedRows(databases))
    BY DEF CorrelationsFilled
  <2> DEFINE db == databases["correlation"]
  <2>1. PlacedRows(databases) = PlacedIn(db) /\ row \in ToSet(RowsOf(db, "Correlations"))
    BY DEF PlacedRows, AllRows
  <2>2. FilledIn(db) /\ InPlace(db, CarriedColumns) /\ WellFormed(db)
    BY DEF FilledInv, FilledState, InstancesInv, TablesInv
  <2> HIDE DEF db
  <2>3. "createdAt" \in DOMAIN row
    <3>1. "Correlations" \in DOMAIN db /\ row \in ToSet(db["Correlations"].rows)
      BY <2>1 DEF RowsOf, Exists, ToSet
    <3>2. IsTable(db["Correlations"])
      BY <2>2, <3>1 DEF WellFormed, IsDatabase
    <3> QED
      BY <3>1, <3>2, TableOf DEF Stored, ToSet
  <2>4. Values(row, FilledColumns) \in AllStored(db)
    <3>1. "Correlations" \in CorrelationTableNames
      BY DEF CorrelationTableNames
    <3> QED
      BY <2>1, <2>3, <3>1, StoredByRows DEF AllStored
  <2>5. \A r \in PlacedIn(db) : CarriedColumns \subseteq DOMAIN r
    <3> SUFFICES ASSUME NEW r \in PlacedIn(db) PROVE CarriedColumns \subseteq DOMAIN r
      OBVIOUS
    <3>1. Values(r, CarriedColumns) \in AllSaid(db, CarriedColumns)
      BY AllAreCarried, SaidByRows
    <3>2. DOMAIN Values(r, CarriedColumns) = CarriedColumns /\ "processInstanceId" \in DOMAIN r
      BY <2>2, <3>1 DEF InPlace, PlacedIn, NamingRows
    <3> QED
      BY <3>2, AllAreCarried, ValuesSay
  <2>6. CASE AllSaid(db, CarriedColumns) = {}
    <3>1. PlacedIn(db) = {}
      BY <2>6, AllAreCarried, SaidByRows
    <3> QED
      BY <2>1, <3>1 DEF IsFilled
  <2>7. CASE AllSaid(db, CarriedColumns) # {}
    <3> DEFINE stored == Values(row, FilledColumns)
    <3>1. DOMAIN stored = FilledColumns /\ IsFilled(stored, AllSaid(db, CarriedColumns))
      BY <2>2, <2>4, <2>7 DEF FilledIn
    <3>2. FilledColumns \subseteq DOMAIN row
      BY <3>1 DEF Values
    <3> QED
      BY <2>1, <2>5, <3>1, <3>2, FilledByRows
  <2> QED
    BY <2>6, <2>7
<1> QED
  BY <1>1, FilledInvariant, TablesInvariant, PTL

-----------------------------------------------------------------------------
(* The states that correlation/04 gives the correlations.                  *)

StateColumns == {"processInstanceId", "state"}
ActiveStates == {"running", "suspended"}
FailedStates == {"error", "terminated"}

\* What the flow node instances say of their process instances.
InstanceStates(db) == ValuesIn(db, Instances, StateColumns, "processInstanceId")

StatesNamed(db) == \A said \in InstanceStates(db) : DOMAIN said = StateColumns

SaysOneOf(db, instance, states) ==
  \E said \in InstanceStates(db) :
    said.processInstanceId = instance /\ said.state \in states

StateFor(db, instance) ==
  IF SaysOneOf(db, instance, ActiveStates) THEN "running"
  ELSE IF SaysOneOf(db, instance, FailedStates) THEN "error"
       ELSE "finished"

CorrelationRows(db) == RowsOf(db, "Correlations")

IsSynced(db, row) ==
  StateColumns \subseteq DOMAIN row /\ row.state = StateFor(db, row.processInstanceId)

AllSynced(db) ==
  \A i \in DOMAIN CorrelationRows(db) : IsSynced(db, CorrelationRows(db)[i])

\* The rows of both tables agree on these columns with what they were.
Alike(db, after) ==
  \A x \in {"Correlations", Instances} :
    /\ DOMAIN RowsOf(after, x) = DOMAIN RowsOf(db, x)
    /\ \A i \in DOMAIN RowsOf(db, x) : Agree(RowsOf(after, x)[i], RowsOf(db, x)[i], StateColumns)

\* A statement that leaves these columns alone.
StateTables == {"Correlations", "correlations_new", Instances, NewInstances}

LeavesStates(s) ==
  /\ s.op = "select" => s.use = "copy tasks"
  /\ s.table \in StateTables =>
       \/ s.op \in {"describeTable", "addIndex", "changeColumn"}
       \/ s.op = "addColumn" /\ s.column \notin StateColumns

-----------------------------------------------------------------------------
(* Steps of correlation/04.                                                *)

AddState == AddColumn("Correlations", "state", "STRING", "finished")
AddError == AddColumn("Correlations", "error", "TEXT", Null)
SelectStates == Unquoted(Select("Correlations", "sync states"))

IsQuery(s, use, i, instance) ==
  /\ s.op = "select" /\ s.table = Instances /\ s.use = use
  /\ "quoting" \in DOMAIN s /\ s.quoting = "double"
  /\ s.position = i /\ s.processInstance = instance

IsUpdate(s, i, state) ==
  /\ s.op = "setCell" /\ s.table = "Correlations" /\ s.column = "state"
  /\ s.position = i /\ s.value = state /\ Understood(s)

\* It is about the state of the correlation in row i, and cannot get it wrong.
Settles(s, db, i) ==
  LET instance == CorrelationRows(db)[i].processInstanceId
  IN  \/ IsQuery(s, "active", i, instance)
      \/ IsQuery(s, "erroneous", i, instance) /\ ~SaysOneOf(db, instance, ActiveStates)
      \/ IsUpdate(s, i, StateFor(db, instance))

\* Each correlation has its state, or the one it was added with and a statement is
\* left that is going to settle it.
Syncing(p, db) ==
  /\ \A s \in ToSet(p) :
       s \in {AddError, SelectStates} \/ \E i \in DOMAIN CorrelationRows(db) : Settles(s, db, i)
  /\ \A i \in DOMAIN CorrelationRows(db) :
       LET row == CorrelationRows(db)[i]
       IN  /\ StateColumns \subseteq DOMAIN row
           /\ \/ row.state = StateFor(db, row.processInstanceId)
              \/ /\ row.state = "finished"
                 /\ \E s \in ToSet(p) : s = SelectStates \/ Settles(s, db, i)

\* The correlations have no state yet.
Stateless(db) ==
  /\ ~HasColumn(db, "Correlations", "state")
  /\ \A i \in DOMAIN CorrelationRows(db) : "processInstanceId" \in DOMAIN CorrelationRows(db)[i]

Preparing(p, db) ==
  /\ Stateless(db)
  /\ \E q : /\ IsSequence(q) /\ ToSet(q) \subseteq {AddError, SelectStates}
            /\ SelectStates \in ToSet(q) \/ InstanceStates(db) = {}
            /\ p = <<AddState>> \o q \/ p = <<DescribeTable("Correlations")>> \o (<<AddState>> \o q)

\* A script leaves the states alone, or is correlation/04.
StatesState(name, p, db, isLogged) ==
  /\ StatesNamed(db)
  /\ isLogged => AllSynced(db) /\ \A s \in ToSet(p) : LeavesStates(s)
  /\ ~isLogged =>
       \/ name = NoScript /\ Stateless(db)
       \/ name = "correlation/04" /\ (Preparing(p, db) \/ Syncing(p, db))

\* The inductive invariant.
StatesInv ==
  Databases = {"correlation"} /\ restarts = 0 =>
    \/ KeptRows(databases["correlation"], "Correlations") = {}
    \/ /\ Logged("correlation", 4) /\ Logged("flow_node_instance", 4)
       /\ StatesState(script, todo, databases["correlation"], Logged("correlation", 5))

-----------------------------------------------------------------------------
(* What the flow node instances say.                                       *)

\* Both the script and the property look at the rows for it.
LEMMA InstanceSays ==
  ASSUME NEW db, WellFormed(db), StatesNamed(db), NEW instance, NEW states
  PROVE  /\ Exists(db, Instances) =>
              (InstanceIn(db, instance, states) <=> SaysOneOf(db, instance, states))
         /\ (StatesOf(ToSet(RowsOf(db, Instances)), instance) \intersect states # {})
              <=> SaysOneOf(db, instance, states)
<1> DEFINE rows == RowsOf(db, Instances)
           naming == {r \in ToSet(rows) : "processInstanceId" \in DOMAIN r}
<1>1. InstanceStates(db) = {Values(r, StateColumns) : r \in naming}
  BY DEF InstanceStates, ValuesIn, ValuesOf
<1>2. \A r \in naming : /\ Values(r, StateColumns).processInstanceId = r.processInstanceId
                        /\ Values(r, StateColumns).state = r.state
  <2> SUFFICES ASSUME NEW r \in naming
               PROVE  /\ Values(r, StateColumns).processInstanceId = r.processInstanceId
                      /\ Values(r, StateColumns).state = r.state
    OBVIOUS
  <2>1. DOMAIN Values(r, StateColumns) = StateColumns
    BY <1>1 DEF StatesNamed
  <2> QED
    BY <2>1 DEF Values, StateColumns
<1> HIDE DEF rows
<1>3. SaysOneOf(db, instance, states) <=>
        \E r \in naming : r.processInstanceId = instance /\ r.state \in states
  BY <1>1, <1>2 DEF SaysOneOf
<1>4. (StatesOf(ToSet(rows), instance) \intersect states # {}) <=>
        \E r \in naming : r.processInstanceId = instance /\ r.state \in states
  BY DEF StatesOf
<1>5. ASSUME Exists(db, Instances)
      PROVE  InstanceIn(db, instance, states) <=>
               \E r \in naming : r.processInstanceId = instance /\ r.state \in states
  <2>1. rows = db[Instances].rows /\ IsTable(db[Instances])
    BY <1>5 DEF rows, RowsOf, WellFormed, IsDatabase, Exists
  <2>2. \A i \in DOMAIN rows : DOMAIN rows[i] = Stored(db[Instances].columns)
    BY <2>1, TableOf
  <2>3. \A i \in DOMAIN rows : "processInstanceId" \in DOMAIN rows[i] <=>
                                 HasColumn(db, Instances, "processInstanceId")
    BY <1>5, <2>2 DEF HasColumn, Stored
  <2>4. InstanceIn(db, instance, states) <=>
          /\ HasColumn(db, Instances, "processInstanceId")
          /\ \E i \in DOMAIN rows : rows[i].processInstanceId = instance /\ rows[i].state \in states
    BY <2>1 DEF InstanceIn, Instances
  <2> QED
    BY <2>3, <2>4 DEF ToSet
<1> QED
  BY <1>3, <1>4, <1>5 DEF rows

\* The state that the comment in correlation/04 expects.
LEMMA StateExpected ==
  ASSUME NEW db, WellFormed(db), StatesNamed(db), NEW instance
  PROVE  ExpectedState(ToSet(RowsOf(db, Instances)), instance) = StateFor(db, instance)
BY InstanceSays DEF ExpectedState, StateFor, ActiveStates, FailedStates

\* It stays the same where the rows agree with what they were.
LEMMA AlikeSays ==
  ASSUME NEW db, NEW after, Alike(db, after)
  PROVE  /\ InstanceStates(after) = InstanceStates(db)
         /\ \A instance, states : SaysOneOf(after, instance, states) <=> SaysOneOf(db, instance, states)
         /\ \A instance : StateFor(after, instance) = StateFor(db, instance)
         /\ StatesNamed(db) => StatesNamed(after)
<1>1. StateColumns \union {"processInstanceId"} = StateColumns
  BY DEF StateColumns
<1>2. InstanceStates(after) = InstanceStates(db)
  BY <1>1, ValuesOfMapped DEF Alike, InstanceStates, ValuesIn
<1> QED
  BY <1>2 DEF SaysOneOf, StateFor, StatesNamed

\* So do the correlations.
LEMMA AlikeCorrelations ==
  ASSUME NEW db, NEW after, Alike(db, after)
  PROVE  /\ DOMAIN CorrelationRows(after) = DOMAIN CorrelationRows(db)
         /\ \A i \in DOMAIN CorrelationRows(db) :
              LET new == CorrelationRows(after)[i]
                  row == CorrelationRows(db)[i]
              IN  /\ \A c \in StateColumns : c \in DOMAIN new <=> c \in DOMAIN row
                  /\ "processInstanceId" \in DOMAIN row =>
                       new.processInstanceId = row.processInstanceId
                  /\ "state" \in DOMAIN row => new.state = row.state
BY DEF Alike, CorrelationRows, Agree, StateColumns

\* What is synced stays so, and what is left to do settles the same.
LEMMA AlikeSynced ==
  ASSUME NEW db, NEW after, Alike(db, after)
  PROVE  /\ AllSynced(db) => AllSynced(after)
         /\ \A p : Syncing(p, db) => Syncing(p, after)
<1>1. AllSynced(db) => AllSynced(after)
  BY AlikeSays, AlikeCorrelations DEF AllSynced, IsSynced, StateColumns
<1>2. ASSUME NEW p, Syncing(p, db) PROVE Syncing(p, after)
  <2>1. \A i \in DOMAIN CorrelationRows(db) :
          StateColumns \subseteq DOMAIN CorrelationRows(db)[i]
    BY <1>2 DEF Syncing
  <2>2. \A i \in DOMAIN CorrelationRows(db) :
          /\ StateColumns \subseteq DOMAIN CorrelationRows(after)[i]
          /\ CorrelationRows(after)[i].processInstanceId = CorrelationRows(db)[i].processInstanceId
          /\ CorrelationRows(after)[i].state = CorrelationRows(db)[i].state
    BY <2>1, AlikeCorrelations DEF StateColumns
  <2>3. \A i \in DOMAIN CorrelationRows(db) : \A s : Settles(s, db, i) <=> Settles(s, after, i)
    BY <2>2, AlikeSays DEF Settles
  <2>4. \A i \in DOMAIN CorrelationRows(db) :
          LET row == CorrelationRows(after)[i]
          IN  /\ StateColumns \subseteq DOMAIN row
              /\ \/ row.state = StateFor(after, row.processInstanceId)
                 \/ /\ row.state = "finished"
                    /\ \E s \in ToSet(p) : s = SelectStates \/ Settles(s, after, i)
    BY <1>2, <2>2, <2>3, AlikeSays DEF Syncing
  <2>5. DOMAIN CorrelationRows(after) = DOMAIN CorrelationRows(db)
    BY AlikeCorrelations
  <2>6. \A s \in ToSet(p) : s \in {AddError, SelectStates}
          \/ \E i \in DOMAIN CorrelationRows(after) : Settles(s, after, i)
    BY <1>2, <2>3, <2>5 DEF Syncing
  <2> QED
    BY <2>4, <2>5, <2>6 DEF Syncing
<1> QED
  BY <1>1, <1>2

\* Tables that are as they were.
LEMMA SameAlike ==
  ASSUME NEW db, NEW after,
         \A x \in {"Correlations", Instances} :
           (x \in DOMAIN after <=> x \in DOMAIN db) /\ (x \in DOMAIN db => after[x] = db[x])
  PROVE  Alike(db, after) /\ (Stateless(db) => Stateless(after))
<1>1. \A x \in {"Correlations", Instances} : RowsOf(after, x) = RowsOf(db, x)
  BY DEF RowsOf, Exists
<1>2. HasColumn(after, "Correlations", "state") <=> HasColumn(db, "Correlations", "state")
  BY DEF HasColumn, Exists
<1> QED
  BY <1>1, <1>2 DEF Alike, Agree, Stateless, CorrelationRows

\* A statement that changes other columns of a table.
LEMMA OthersAlike ==
  ASSUME NEW db, NEW s, WellFormed(db), Allowed(s), Succeeds(db, s), s.op \in ChangesTable,
         s.table \in StateTables => Spares(s, s.table, StateColumns)
  PROVE  Alike(db, After(db, s))
<1> DEFINE after == After(db, s)
<1>1. after = [db EXCEPT ![s.table] = Changed(db, s)] /\ s.table \in DOMAIN db
  <2>1. s.op \notin {"createTable", "dropTable"}
    BY DEF ChangesTable
  <2> QED
    BY <2>1, AfterBy DEF Succeeds, Exists
<1> HIDE DEF after
<1> SUFFICES ASSUME NEW x \in {"Correlations", Instances}
             PROVE  /\ DOMAIN RowsOf(after, x) = DOMAIN RowsOf(db, x)
                    /\ \A i \in DOMAIN RowsOf(db, x) :
                         Agree(RowsOf(after, x)[i], RowsOf(db, x)[i], StateColumns)
  BY DEF Alike, after
<1>2. CASE s.table # x
  <2>1. RowsOf(after, x) = RowsOf(db, x)
    BY <1>1, <1>2 DEF RowsOf, Exists
  <2> QED
    BY <2>1 DEF Agree
<1>3. CASE s.table = x
  <2>1. x \in StateTables
    BY DEF StateTables
  <2>2. /\ DOMAIN Changed(db, s).rows = DOMAIN db[x].rows
        /\ \A i \in DOMAIN db[x].rows : Agree(Changed(db, s).rows[i], db[x].rows[i], StateColumns)
    BY <1>1, <1>3, <2>1, ChangedSpares DEF Exists
  <2>3. RowsOf(after, x) = Changed(db, s).rows /\ RowsOf(db, x) = db[x].rows
    BY <1>1, <1>3 DEF RowsOf, Exists
  <2> QED
    BY <2>2, <2>3
<1> QED
  BY <1>2, <1>3

\* A statement that leaves the columns alone.
LEMMA LeftAlike ==
  ASSUME NEW db, NEW s, WellFormed(db), Allowed(s), Succeeds(db, s), LeavesStates(s)
  PROVE  Alike(db, After(db, s))
<1>1. CASE s.op \in ChangesTable
  <2>1. s.table \in StateTables => Spares(s, s.table, StateColumns)
    BY DEF LeavesStates, Spares
  <2> QED
    BY <1>1, <2>1, OthersAlike
<1>2. CASE s.op \in {"describeTable", "select"}
  BY <1>2, AfterBy, SameAlike
<1>3. CASE s.op \in {"createTable", "dropTable", "renameTable", "copyRows"}
  <2>1. s.table \notin StateTables
    BY <1>3 DEF LeavesStates
  <2>2. s.op \in {"renameTable", "copyRows"} => s.to \notin {"Correlations", Instances}
    <3>1. \A t \in Rebuilt : /\ t \in {"Correlations", Instances} => TemporaryOf[t] \in StateTables
                             /\ TemporaryOf[t] \notin {"Correlations", Instances}
      BY DEF Rebuilt, LiveTables, TemporaryOf, StateTables, Instances, NewInstances
    <3> QED
      BY <2>1, <3>1 DEF Allowed
  <2> DEFINE after == After(db, s)
  <2>3. \A x \in {"Correlations", Instances} :
          (x \in DOMAIN after <=> x \in DOMAIN db) /\ (x \in DOMAIN db => after[x] = db[x])
    <3>0. s.table \notin {"Correlations", Instances}
      BY <2>1 DEF StateTables
    <3>1. CASE s.op = "createTable"
      <4> DEFINE new == [columns |-> s.columns, unique |-> s.unique, indexes |-> {},
                         rows |-> <<>>]
      <4>1. after = IF Exists(db, s.table) THEN db ELSE With(db, s.table, new)
        BY <3>1, AfterBy
      <4> HIDE DEF after, new
      <4> QED
        BY <3>0, <4>1 DEF With
    <3>2. CASE s.op = "dropTable"
      <4>1. after = Without(db, s.table)
        BY <3>2, AfterBy
      <4> HIDE DEF after
      <4> QED
        BY <3>0, <4>1 DEF Without
    <3>3. CASE s.op = "renameTable"
      <4>1. after = With(Without(db, s.table), s.to, db[s.table])
        BY <3>3, AfterBy
      <4> HIDE DEF after
      <4> QED
        BY <2>2, <3>0, <3>3, <4>1 DEF With, Without
    <3>4. CASE s.op = "copyRows"
      <4>1. after = [db EXCEPT ![s.to].rows =
                       @ \o [i \in DOMAIN db[s.table].rows |->
                               [c \in s.columns |-> db[s.table].rows[i][c]]]]
        BY <3>4, AfterBy
      <4>2. DOMAIN after = DOMAIN db /\ \A y \in DOMAIN db \ {s.to} : after[y] = db[y]
        BY <4>1
      <4> HIDE DEF after
      <4> QED
        BY <2>2, <3>4, <4>2
    <3> QED
      BY <1>3, <3>1, <3>2, <3>3, <3>4
  <2> QED
    BY <2>3, SameAlike
<1> QED
  BY <1>1, <1>2, <1>3 DEF Allowed, Operations


-----------------------------------------------------------------------------
(* correlation/04 settles the states.                                      *)

\* The statements it is made of.
LEMMA StateStatements ==
  /\ AddState.op = "addColumn" /\ AddState.table = "Correlations"
  /\ AddState.column = "state" /\ AddState.default = "finished"
  /\ AddError.op = "addColumn" /\ AddError.table = "Correlations" /\ AddError.column = "error"
  /\ SelectStates.op = "select" /\ SelectStates.table = "Correlations"
  /\ SelectStates.use = "sync states"
  /\ \A use, i, instance : IsQuery(QueryStates(use, i, instance), use, i, instance)
<1>1. /\ AddState.op = "addColumn" /\ AddState.table = "Correlations"
      /\ AddState.column = "state" /\ AddState.default = "finished"
      /\ AddError.op = "addColumn" /\ AddError.table = "Correlations" /\ AddError.column = "error"
  BY DEF AddState, AddError, AddColumn
<1>2. /\ SelectStates.op = "select" /\ SelectStates.table = "Correlations"
      /\ SelectStates.use = "sync states"
  BY DEF SelectStates, Unquoted, With, Select
<1>3. \A use, i, instance : IsQuery(QueryStates(use, i, instance), use, i, instance)
  BY DEF IsQuery, QueryStates, With, DoubleQuoted, Select, Instances
<1> QED
  BY <1>1, <1>2, <1>3

\* The update.
LEMMA UpdateStatement ==
  ASSUME NEW i, NEW state
  PROVE  \E s : /\ updateStateForId(i, state) = <<s>>
                /\ s.op = "setCell" /\ s.table = "Correlations" /\ s.column = "state"
                /\ s.position = i /\ s.value = state
                /\ "quoting" \in DOMAIN s /\ s.quoting = "double"
<1> DEFINE s == Caught(DoubleQuoted(SetCell("Correlations", i, "state", state)))
<1>1. /\ s.op = "setCell" /\ s.table = "Correlations" /\ s.column = "state"
      /\ s.position = i /\ s.value = state
      /\ "quoting" \in DOMAIN s /\ s.quoting = "double"
  BY DEF Caught, DoubleQuoted, With, SetCell
<1>2. updateStateForId(i, state) = <<s>>
  BY DEF updateStateForId
<1> HIDE DEF s
<1> QED
  BY <1>1, <1>2

\* What settles a state is a query or an update for one row.
LEMMA SettlesOne ==
  ASSUME NEW s, NEW db, NEW i, Settles(s, db, i)
  PROVE  /\ s.position = i /\ s # AddError /\ s # SelectStates
         /\ \A j : Settles(s, db, j) => j = i
<1>1. /\ s.position = i
      /\ \/ s.op = "select" /\ s.table = Instances
         \/ s.op = "setCell"
      /\ \A j : Settles(s, db, j) => s.position = j
  BY DEF Settles, IsQuery, IsUpdate
<1> QED
  BY <1>1, StateStatements DEF Instances

\* A statement has settled its states, or leaves that to more of them.
HandsOn(s, more, db) ==
  /\ \A x \in more : \E i \in DOMAIN CorrelationRows(db) : Settles(x, db, i)
  /\ \A i \in DOMAIN CorrelationRows(db) :
       LET row == CorrelationRows(db)[i]
       IN  (s = SelectStates \/ Settles(s, db, i)) /\ row.state = "finished" =>
             \/ row.state = StateFor(db, row.processInstanceId)
             \/ \E x \in more : Settles(x, db, i)

\* What is left settles the states if the statement before has settled its own or
\* left that to the next.
LEMMA SyncingNext ==
  ASSUME NEW db, NEW p, NEW q, NEW s, Syncing(p, db), NEW more, NEW rest,
         ToSet(p) = {s} \union rest, ToSet(q) = more \union rest,
         HandsOn(s, more, db)
  PROVE  Syncing(q, db)
<1>1. \A x \in ToSet(q) :
        x \in {AddError, SelectStates} \/ \E i \in DOMAIN CorrelationRows(db) : Settles(x, db, i)
  BY DEF Syncing, HandsOn
<1>2. ASSUME NEW i \in DOMAIN CorrelationRows(db)
      PROVE  LET row == CorrelationRows(db)[i]
             IN  /\ StateColumns \subseteq DOMAIN row
                 /\ \/ row.state = StateFor(db, row.processInstanceId)
                    \/ /\ row.state = "finished"
                       /\ \E x \in ToSet(q) : x = SelectStates \/ Settles(x, db, i)
  <2> DEFINE row == CorrelationRows(db)[i]
  <2>1. /\ StateColumns \subseteq DOMAIN row
        /\ \/ row.state = StateFor(db, row.processInstanceId)
           \/ /\ row.state = "finished"
              /\ \E x \in ToSet(p) : x = SelectStates \/ Settles(x, db, i)
    BY DEF Syncing
  <2>2. (s = SelectStates \/ Settles(s, db, i)) /\ row.state = "finished" =>
          \/ row.state = StateFor(db, row.processInstanceId)
          \/ \E x \in more : Settles(x, db, i)
    BY DEF HandsOn
  <2> HIDE DEF row
  <2>3. \/ row.state = StateFor(db, row.processInstanceId)
        \/ /\ row.state = "finished"
           /\ \E x \in ToSet(q) : x = SelectStates \/ Settles(x, db, i)
    BY <2>1, <2>2
  <2> QED
    BY <2>1, <2>3 DEF row
<1> QED
  BY <1>1, <1>2 DEF Syncing

\* The query for the active flow node instances, and the one for those that failed.
LEMMA QuerySettles ==
  ASSUME NEW db, NEW s, WellFormed(db), StatesNamed(db), Succeeds(db, s),
         NEW i \in DOMAIN CorrelationRows(db), Settles(s, db, i), s.op = "select"
  PROVE  LET row == CorrelationRows(db)[i]
             more == ToSet(Continuation(db, s))
         IN  /\ \A x \in more : Settles(x, db, i)
             /\ row.state = "finished" =>
                  \/ row.state = StateFor(db, row.processInstanceId)
                  \/ \E x \in more : Settles(x, db, i)
<1> DEFINE row == CorrelationRows(db)[i]
           instance == row.processInstanceId
           is(states) == InstanceIn(db, instance, states)
<1>1. /\ s.table = Instances /\ s.processInstance = instance /\ s.position = i
      /\ "quoting" \in DOMAIN s /\ s.quoting = "double"
      /\ \/ s.use = "active"
         \/ s.use = "erroneous" /\ ~SaysOneOf(db, instance, ActiveStates)
  BY DEF Settles, IsQuery, IsUpdate
<1>2. Exists(db, Instances) /\ Understood(s)
  BY <1>1 DEF Succeeds
<1>3. \A states : is(states) <=> SaysOneOf(db, instance, states)
  BY <1>2, InstanceSays
<1>4. /\ StateFor(db, instance) = "running" <=> is(ActiveStates)
      /\ StateFor(db, instance) = "error" <=> ~is(ActiveStates) /\ is(FailedStates)
      /\ StateFor(db, instance) = "finished" <=> ~is(ActiveStates) /\ ~is(FailedStates)
  BY <1>3 DEF StateFor
<1>5. Continuation(db, s) = SyncState(db, s)
  <2>1. s.use # "sync states" /\ s.use # "copy tasks"
    BY <1>1
  <2> QED
    BY <2>1, Zenon DEF Continuation
<1>6. ASSUME NEW state, state = StateFor(db, instance)
      PROVE  \E x : updateStateForId(i, state) = <<x>> /\ ToSet(<<x>>) = {x} /\ Settles(x, db, i)
  <2>1. PICK x : /\ updateStateForId(i, state) = <<x>>
                 /\ x.op = "setCell" /\ x.table = "Correlations" /\ x.column = "state"
                 /\ x.position = i /\ x.value = state
                 /\ "quoting" \in DOMAIN x /\ x.quoting = "double"
    BY UpdateStatement
  <2>2. Understood(x)
    BY <1>1, <1>2, <2>1 DEF Understood
  <2>3. Settles(x, db, i)
    BY <1>6, <2>1, <2>2 DEF Settles, IsUpdate
  <2>4. ToSet(<<x>>) = {x}
    BY DEF ToSet
  <2> QED
    BY <2>1, <2>3, <2>4
<1>7. CASE s.use = "active" /\ is(ActiveStates)
  <2>1. Continuation(db, s) = updateStateForId(i, "running")
    BY <1>1, <1>5, <1>7, Zenon DEF SyncState, ActiveStates
  <2>2. PICK x : updateStateForId(i, "running") = <<x>> /\ ToSet(<<x>>) = {x} /\ Settles(x, db, i)
    BY <1>4, <1>6, <1>7
  <2> HIDE DEF row
  <2> QED
    BY <2>1, <2>2 DEF row
<1>8. CASE s.use = "active" /\ ~is(ActiveStates)
  <2> DEFINE x == QueryStates("erroneous", i, instance)
  <2>1. Continuation(db, s) = <<x>>
    BY <1>1, <1>5, <1>8, Zenon DEF SyncState, ActiveStates
  <2>2. Settles(x, db, i)
    BY <1>3, <1>8, StateStatements DEF Settles
  <2>3. ToSet(<<x>>) = {x}
    BY DEF ToSet
  <2> HIDE DEF row, x
  <2> QED
    BY <2>1, <2>2, <2>3 DEF row
<1>9. CASE s.use = "erroneous" /\ is(FailedStates)
  <2>1. Continuation(db, s) = updateStateForId(i, "error")
    BY <1>1, <1>5, <1>9, Zenon DEF SyncState, FailedStates
  <2>2. PICK x : updateStateForId(i, "error") = <<x>> /\ ToSet(<<x>>) = {x} /\ Settles(x, db, i)
    <3>1. StateFor(db, instance) = "error"
      BY <1>1, <1>3, <1>4, <1>9
    <3> QED
      BY <1>6, <3>1
  <2> HIDE DEF row
  <2> QED
    BY <2>1, <2>2 DEF row
<1>10. CASE s.use = "erroneous" /\ ~is(FailedStates)
  <2>1. Continuation(db, s) = <<>>
    BY <1>1, <1>5, <1>10, Zenon DEF SyncState, FailedStates
  <2>2. StateFor(db, instance) = "finished"
    BY <1>1, <1>3, <1>4, <1>10
  <2>3. ToSet(<<>>) = {}
    BY DEF ToSet
  <2> HIDE DEF row
  <2> QED
    BY <2>1, <2>2, <2>3 DEF row
<1> QED
  BY <1>1, <1>7, <1>8, <1>9, <1>10


\* The update of a state.
LEMMA UpdateSettles ==
  ASSUME NEW db, NEW s, WellFormed(db), Allowed(s), NEW i \in DOMAIN CorrelationRows(db),
         Settles(s, db, i), s.op = "setCell", NEW p, NEW q, Syncing(p, db),
         ToSet(p) = {s} \union ToSet(q)
  PROVE  /\ Succeeds(db, s)
         /\ InstanceStates(After(db, s)) = InstanceStates(db)
         /\ Syncing(q, After(db, s))
<1> DEFINE rows == CorrelationRows(db)
           after == After(db, s)
           value == StateFor(db, rows[i].processInstanceId)
<1>1. /\ s.table = "Correlations" /\ s.column = "state" /\ s.position = i
      /\ s.value = value /\ Understood(s)
  BY DEF Settles, IsQuery, IsUpdate
<1>2. /\ "Correlations" \in DOMAIN db /\ rows = db["Correlations"].rows
      /\ IsTable(db["Correlations"])
  <2>1. "Correlations" \in DOMAIN db
    <3>1. DOMAIN <<>> = {}
      OBVIOUS
    <3> QED
      BY <3>1 DEF CorrelationRows, RowsOf, Exists
  <2> QED
    BY <2>1 DEF CorrelationRows, RowsOf, Exists, WellFormed, IsDatabase
<1>3. \A j \in DOMAIN rows : StateColumns \subseteq DOMAIN rows[j]
  BY DEF Syncing
<1>4. "state" \in DOMAIN db["Correlations"].columns
        /\ DOMAIN db["Correlations"] = {"columns", "unique", "indexes", "rows"}
  <2>1. DOMAIN rows[i] = Stored(db["Correlations"].columns)
        /\ DOMAIN db["Correlations"] = {"columns", "unique", "indexes", "rows"}
    BY <1>2, TableOf
  <2> QED
    BY <1>3, <2>1 DEF Stored, StateColumns
<1>5. Succeeds(db, s)
  BY <1>1, <1>2, <1>4 DEF Succeeds, Exists, Applies
<1>6. after = [db EXCEPT !["Correlations"] =
                 [db["Correlations"] EXCEPT !.rows[i]["state"] = value]]
  <2>1. Changed(db, s) = [db[s.table] EXCEPT !.rows[s.position][s.column] = s.value]
    BY Zenon DEF Changed
  <2>2. after = [db EXCEPT ![s.table] = Changed(db, s)]
    BY AfterBy DEF ChangesTable
  <2> HIDE DEF after, value
  <2> QED
    BY <1>1, <2>1, <2>2
<1> HIDE DEF after, value
<1>7. /\ CorrelationRows(after) = [rows EXCEPT ![i]["state"] = value]
      /\ RowsOf(after, Instances) = RowsOf(db, Instances)
  BY <1>2, <1>4, <1>6 DEF CorrelationRows, RowsOf, Exists, Instances
<1>8. InstanceStates(after) = InstanceStates(db)
  BY <1>7 DEF InstanceStates, ValuesIn
<1>9. /\ \A instance, states : SaysOneOf(after, instance, states) <=> SaysOneOf(db, instance, states)
      /\ \A instance : StateFor(after, instance) = StateFor(db, instance)
  BY <1>8 DEF SaysOneOf, StateFor
<1> HIDE DEF rows
<1>10. /\ DOMAIN CorrelationRows(after) = DOMAIN rows
       /\ \A j \in DOMAIN rows :
            /\ StateColumns \subseteq DOMAIN CorrelationRows(after)[j]
            /\ CorrelationRows(after)[j].processInstanceId = rows[j].processInstanceId
            /\ CorrelationRows(after)[j].state = IF j = i THEN value ELSE rows[j].state
  BY <1>3, <1>7 DEF StateColumns
<1>11. \A j \in DOMAIN rows : \A x : Settles(x, db, j) <=> Settles(x, after, j)
  BY <1>9, <1>10 DEF Settles, rows
<1>12. \A j : Settles(s, db, j) => j = i
  BY SettlesOne
<1>13. s # SelectStates
  BY SettlesOne
<1>14. \A x \in ToSet(q) :
         x \in {AddError, SelectStates} \/ \E j \in DOMAIN CorrelationRows(after) : Settles(x, after, j)
  <2>1. \A x \in ToSet(q) :
          x \in {AddError, SelectStates} \/ \E j \in DOMAIN rows : Settles(x, db, j)
    BY DEF Syncing, rows
  <2> QED
    BY <1>10, <1>11, <2>1
<1>15. ASSUME NEW j \in DOMAIN rows
       PROVE  LET row == CorrelationRows(after)[j]
              IN  /\ StateColumns \subseteq DOMAIN row
                  /\ \/ row.state = StateFor(after, row.processInstanceId)
                     \/ /\ row.state = "finished"
                        /\ \E x \in ToSet(q) : x = SelectStates \/ Settles(x, after, j)
  <2>1. \/ rows[j].state = StateFor(db, rows[j].processInstanceId)
        \/ /\ rows[j].state = "finished"
           /\ \E x \in ToSet(p) : x = SelectStates \/ Settles(x, db, j)
    BY DEF Syncing, rows
  <2>2. CASE j = i
    BY <1>9, <1>10, <2>2 DEF value
  <2>3. CASE j # i
    <3>1. \/ rows[j].state = StateFor(db, rows[j].processInstanceId)
          \/ /\ rows[j].state = "finished"
             /\ \E x \in ToSet(q) : x = SelectStates \/ Settles(x, after, j)
      BY <1>11, <1>12, <1>13, <2>1, <2>3
    <3>2. /\ StateColumns \subseteq DOMAIN CorrelationRows(after)[j]
          /\ CorrelationRows(after)[j].processInstanceId = rows[j].processInstanceId
          /\ CorrelationRows(after)[j].state = rows[j].state
      BY <1>10, <2>3
    <3> QED
      BY <1>9, <3>1, <3>2
  <2> QED
    BY <2>2, <2>3
<1>16. Syncing(q, after)
  BY <1>10, <1>14, <1>15 DEF Syncing
<1> QED
  BY <1>5, <1>8, <1>16 DEF after

\* One statement later, correlation/04 is one statement further.
LEMMA SyncingGoesOn ==
  ASSUME NEW db, NEW p, NEW s, NEW q, WellFormed(db), StatesNamed(db), Syncing(p, db),
         IsRest(p), p # <<>>, s = Head(p), q = Continuation(db, s) \o Tail(p),
         NEW after, after = IF Succeeds(db, s) THEN After(db, s) ELSE db,
         s.op # "setCell" => Succeeds(db, s)
  PROVE  Syncing(q, after) /\ StatesNamed(after)
<1>1. Allowed(s) /\ IsSequence(Tail(p)) /\ ToSet(p) = {s} \union ToSet(Tail(p))
  BY RestTail, HeadAndTail DEF IsRest
<1>2. ToSet(q) = ToSet(Continuation(db, s)) \union ToSet(Tail(p))
  <2>1. IsSequence(Continuation(db, s))
    BY ContinuationPlan DEF IsRest
  <2> QED
    BY <1>1, <2>1, Concatenated
<1>3. s.op # "select" => ToSet(q) = ToSet(Tail(p))
  <2>1. s.op # "select" => Continuation(db, s) = <<>>
    BY ContinuationPlan
  <2>2. ToSet(<<>>) = {}
    BY DEF ToSet
  <2> QED
    BY <1>2, <2>1, <2>2
<1>4. s \in {AddError, SelectStates} \/ \E i \in DOMAIN CorrelationRows(db) : Settles(s, db, i)
  BY <1>1 DEF Syncing
<1>5. CASE s = AddError
  <2>1. s.op = "addColumn" /\ s.table = "Correlations" /\ s.column \notin StateColumns
        /\ s # SelectStates /\ \A i : ~Settles(s, db, i)
    <3>1. s.op = "addColumn" /\ s.table = "Correlations" /\ s.column = "error"
      BY <1>5, StateStatements
    <3>2. s # SelectStates
      BY <3>1, StateStatements
    <3> QED
      BY <1>5, <3>1, <3>2, SettlesOne DEF StateColumns
  <2>2. ToSet(q) = {} \union ToSet(Tail(p))
    BY <1>3, <2>1
  <2>a. HandsOn(s, {}, db)
    BY <2>1 DEF HandsOn
  <2>3. Syncing(q, db)
    BY <1>1, <2>2, <2>a, SyncingNext
  <2>4. Alike(db, after)
    <3>1. LeavesStates(s)
      BY <2>1 DEF LeavesStates
    <3> QED
      BY <1>1, <2>1, <3>1, LeftAlike
  <2> QED
    BY <2>3, <2>4, AlikeSynced, AlikeSays
<1>6. CASE s = SelectStates
  <2>1. s.op = "select" /\ s.table = "Correlations" /\ s.use = "sync states"
    BY <1>6, StateStatements
  <2> DEFINE rows == db["Correlations"].rows
             queries == [i \in DOMAIN rows |->
                           QueryStates("active", i, rows[i].processInstanceId)]
  <2>2. after = db /\ rows = CorrelationRows(db)
    <3>1. Succeeds(db, s)
      BY <2>1
    <3>2. Exists(db, "Correlations")
      BY <2>1, <3>1 DEF Succeeds
    <3> QED
      BY <2>1, <3>1, <3>2, AfterBy DEF CorrelationRows, RowsOf
  <2>3. Continuation(db, s) = queries
    <3>1. s.op = "select" /\ s.use = "sync states" /\ s.table = "Correlations"
      BY <2>1
    <3> QED
      BY <3>1, Zenon DEF Continuation
  <2>4. \A i \in DOMAIN rows : Settles(queries[i], db, i)
    BY <2>2, StateStatements DEF Settles
  <2>5. ToSet(queries) = {queries[i] : i \in DOMAIN rows}
    BY DEF ToSet
  <2> HIDE DEF rows, queries
  <2>6. \A x \in ToSet(queries) : \E i \in DOMAIN CorrelationRows(db) : Settles(x, db, i)
    BY <2>2, <2>4, <2>5
  <2>7. \A i \in DOMAIN CorrelationRows(db) : \E x \in ToSet(queries) : Settles(x, db, i)
    BY <2>2, <2>4, <2>5
  <2>8. HandsOn(s, ToSet(queries), db)
    BY <2>6, <2>7 DEF HandsOn
  <2>9. ToSet(q) = ToSet(queries) \union ToSet(Tail(p))
    BY <1>2, <2>3
  <2>10. Syncing(q, db)
    BY <1>1, <2>8, <2>9, SyncingNext
  <2> QED
    BY <2>2, <2>10
<1>7. ASSUME NEW i \in DOMAIN CorrelationRows(db), Settles(s, db, i), s.op = "select"
      PROVE  Syncing(q, after) /\ StatesNamed(after)
  <2>1. Succeeds(db, s) /\ after = db
    BY <1>7, AfterBy
  <2>2. s # SelectStates /\ \A j : Settles(s, db, j) => j = i
    BY <1>7, SettlesOne
  <2> DEFINE more == ToSet(Continuation(db, s))
             row == CorrelationRows(db)[i]
  <2>3. /\ \A x \in more : Settles(x, db, i)
        /\ row.state = "finished" =>
             \/ row.state = StateFor(db, row.processInstanceId)
             \/ \E x \in more : Settles(x, db, i)
    BY <1>7, <2>1, QuerySettles
  <2>4. \A j \in DOMAIN CorrelationRows(db) :
          LET r == CorrelationRows(db)[j]
          IN  (s = SelectStates \/ Settles(s, db, j)) /\ r.state = "finished" =>
                \/ r.state = StateFor(db, r.processInstanceId)
                \/ \E x \in more : Settles(x, db, j)
    BY <2>2, <2>3
  <2>5. \A x \in more : \E j \in DOMAIN CorrelationRows(db) : Settles(x, db, j)
    BY <2>3
  <2> HIDE DEF more
  <2>6. ToSet(q) = more \union ToSet(Tail(p))
    BY <1>2 DEF more
  <2>7. HandsOn(s, more, db)
    BY <2>4, <2>5 DEF HandsOn
  <2>8. Syncing(q, db)
    BY <1>1, <2>6, <2>7, SyncingNext
  <2> QED
    BY <2>1, <2>8
<1>8. ASSUME NEW i \in DOMAIN CorrelationRows(db), Settles(s, db, i), s.op = "setCell"
      PROVE  Syncing(q, after) /\ StatesNamed(after)
  <2>1. ToSet(p) = {s} \union ToSet(q)
    BY <1>1, <1>3, <1>8
  <2>2. /\ Succeeds(db, s)
        /\ InstanceStates(After(db, s)) = InstanceStates(db)
        /\ Syncing(q, After(db, s))
    BY <1>1, <1>8, <2>1, UpdateSettles
  <2> QED
    BY <2>2 DEF StatesNamed
<1>9. \A i : Settles(s, db, i) => s.op \in {"select", "setCell"}
  BY DEF Settles, IsQuery, IsUpdate
<1> QED
  BY <1>4, <1>5, <1>6, <1>7, <1>8, <1>9


\* The state is added, and what follows settles it.
LEMMA PreparingGoesOn ==
  ASSUME NEW db, NEW p, NEW s, NEW q, WellFormed(db), StatesNamed(db), Preparing(p, db),
         IsRest(p), p # <<>>, s = Head(p), q = Continuation(db, s) \o Tail(p),
         NEW after, after = IF Succeeds(db, s) THEN After(db, s) ELSE db,
         s.op # "setCell" => Succeeds(db, s)
  PROVE  (Preparing(q, after) \/ Syncing(q, after)) /\ StatesNamed(after)
<1>1. PICK r : /\ IsSequence(r) /\ ToSet(r) \subseteq {AddError, SelectStates}
               /\ SelectStates \in ToSet(r) \/ InstanceStates(db) = {}
               /\ p = <<AddState>> \o r \/ p = <<DescribeTable("Correlations")>> \o (<<AddState>> \o r)
  BY DEF Preparing
<1>2. IsSequence(<<AddState>> \o r)
  <2>1. <<AddState>> \in Seq({AddState}) /\ ToSet(<<AddState>>) = {AddState}
    BY DEF ToSet
  <2> QED
    BY <1>1, <2>1, Concatenated DEF IsSequence
<1>3. ASSUME s.op # "select", IsSequence(Tail(p)) PROVE q = Tail(p)
  <2>1. Continuation(db, s) = <<>>
    BY <1>3, ContinuationPlan
  <2> QED
    BY <1>3, <2>1, NothingBefore
<1>4. CASE p = <<DescribeTable("Correlations")>> \o (<<AddState>> \o r)
  <2>1. s = DescribeTable("Correlations") /\ Tail(p) = <<AddState>> \o r
    BY <1>2, <1>4, OneBefore
  <2>2. s.op = "describeTable"
    BY <2>1 DEF DescribeTable
  <2>3. after = db /\ q = <<AddState>> \o r
    BY <1>2, <1>3, <2>1, <2>2, AfterBy
  <2> QED
    BY <1>1, <2>3 DEF Preparing
<1>5. CASE p = <<AddState>> \o r
  <2>1. s = AddState /\ Tail(p) = r
    BY <1>1, <1>5, OneBefore
  <2>2. s.op = "addColumn" /\ s.table = "Correlations" /\ s.column = "state"
        /\ s.default = "finished"
    BY <2>1, StateStatements
  <2>3. Succeeds(db, s) /\ after = After(db, s) /\ q = r
    BY <1>1, <1>3, <2>1, <2>2
  <2>4. "Correlations" \in DOMAIN db /\ IsTable(db["Correlations"])
    BY <2>2, <2>3 DEF Succeeds, Exists, WellFormed, IsDatabase
  <2> DEFINE rows == CorrelationRows(db)
  <2>5. /\ CorrelationRows(after) = [i \in DOMAIN rows |-> With(rows[i], "state", "finished")]
        /\ RowsOf(after, Instances) = RowsOf(db, Instances)
    <3>1. s.op \in ChangesTable
      BY <2>2 DEF ChangesTable
    <3>2. After(db, s) = [db EXCEPT ![s.table] = Changed(db, s)]
      BY <3>1, AfterBy
    <3>3. /\ "Correlations" \in DOMAIN after
          /\ Rewrites(db, s, db["Correlations"].rows, after["Correlations"].rows)
      BY <2>2, <2>3, <3>1, RowsChanged
    <3>4. after["Correlations"].rows = [i \in DOMAIN db["Correlations"].rows |->
                                          With(db["Correlations"].rows[i], "state", "finished")]
      BY <2>2, <3>3, Zenon DEF Rewrites
    <3>5. /\ DOMAIN after = DOMAIN db
          /\ Instances \in DOMAIN db => after[Instances] = db[Instances]
      BY <2>2, <2>3, <3>2 DEF Instances
    <3> QED
      BY <2>4, <3>4, <3>5 DEF CorrelationRows, RowsOf, Exists
  <2>6. InstanceStates(after) = InstanceStates(db)
    BY <2>5 DEF InstanceStates, ValuesIn
  <2>7. \A i \in DOMAIN rows : "processInstanceId" \in DOMAIN rows[i]
    BY DEF Preparing, Stateless
  <2> HIDE DEF rows
  <2>8. /\ DOMAIN CorrelationRows(after) = DOMAIN rows
        /\ \A i \in DOMAIN rows : /\ StateColumns \subseteq DOMAIN CorrelationRows(after)[i]
                                  /\ CorrelationRows(after)[i].state = "finished"
    <3>1. \A row : DOMAIN With(row, "state", "finished") = DOMAIN row \union {"state"}
                   /\ With(row, "state", "finished").state = "finished"
      BY DEF With
    <3> DEFINE new == CorrelationRows(after)
    <3>2. new = [i \in DOMAIN rows |-> With(rows[i], "state", "finished")]
      BY <2>5
    <3> HIDE DEF new
    <3>3. DOMAIN new = DOMAIN rows /\ \A i \in DOMAIN rows : new[i] = With(rows[i], "state", "finished")
      BY <3>2
    <3>4. ASSUME NEW i \in DOMAIN rows
          PROVE  StateColumns \subseteq DOMAIN new[i] /\ new[i].state = "finished"
      <4>1. DOMAIN new[i] = DOMAIN rows[i] \union {"state"} /\ new[i].state = "finished"
        BY <3>1, <3>3
      <4> QED
        BY <2>7, <4>1 DEF StateColumns
    <3> QED
      BY <3>3, <3>4 DEF new
  <2>9. InstanceStates(after) = {} => \A instance : StateFor(after, instance) = "finished"
    BY DEF StateFor, SaysOneOf
  <2>10. Syncing(r, after)
    BY <1>1, <2>6, <2>8, <2>9 DEF Syncing
  <2> QED
    BY <2>3, <2>6, <2>10 DEF StatesNamed
<1> QED
  BY <1>1, <1>4, <1>5

\* Two statements before others.
LEMMA TwoBefore ==
  ASSUME NEW S, NEW a \in S, NEW b \in S, NEW r \in Seq(S)
  PROVE  <<a, b>> \o r = <<a>> \o (<<b>> \o r)
<1> DEFINE p == <<a, b>> \o r
           q == <<a>> \o (<<b>> \o r)
<1>1. /\ <<a, b>> \in Seq(S) /\ <<a>> \in Seq(S) /\ <<b>> \in Seq(S)
      /\ Len(<<a, b>>) = 2 /\ Len(<<a>>) = 1 /\ Len(<<b>>) = 1
  OBVIOUS
<1>2. p \in Seq(S) /\ q \in Seq(S)
  BY <1>1
<1>3. Len(p) = 2 + Len(r) /\ Len(q) = 1 + (1 + Len(r))
  BY <1>1
<1>4. p[1] = a /\ p[2] = b /\ q[1] = a /\ q[2] = b
  BY <1>1
<1>5. \A i \in 3..(2 + Len(r)) : p[i] = r[i - 2] /\ q[i] = r[i - 2]
  BY <1>1
<1> HIDE DEF p, q
<1>6. \A i \in 1..Len(p) : p[i] = q[i]
  BY <1>2, <1>3, <1>4, <1>5
<1>7. p = q
  BY <1>2, <1>3, <1>6
<1> QED
  BY <1>7 DEF p, q

\* correlation/04 looks for the flow node instances when it starts.
LEMMA PreparingBegins ==
  ASSUME NEW db, Stateless(db) PROVE Preparing(Up("correlation/04", db), db)
<1> DEFINE rest == IF Exists(db, "FlowNodeInstances") THEN <<SelectStates>> ELSE <<>>
           describe == DescribeTable("Correlations")
           q == <<AddError>> \o rest
<1>1. Up("correlation/04", db) = <<describe>> \o (<<AddState, AddError>> \o rest)
  <2>1. ~HasColumns(db, "Correlations", {"state", "error"})
    BY DEF Stateless, HasColumns
  <2>2. Up("correlation/04", db) = Correlation04(db)
    BY Zenon DEF Up
  <2> QED
    BY <2>1, <2>2, Zenon DEF Correlation04, AddState, AddError, SelectStates
<1>2. <<AddState, AddError>> \o rest = <<AddState>> \o q
  <2> DEFINE S == {AddState, AddError, SelectStates}
  <2>1. rest \in Seq(S)
    <3>1. <<SelectStates>> \in Seq(S) /\ <<>> \in Seq(S)
      OBVIOUS
    <3> HIDE DEF S
    <3> QED
      BY <3>1
  <2>2. AddState \in S /\ AddError \in S
    OBVIOUS
  <2> HIDE DEF S, rest
  <2>3. <<AddState, AddError>> \o rest = <<AddState>> \o (<<AddError>> \o rest)
    BY <2>1, <2>2, TwoBefore
  <2> QED
    BY <2>3
<1>3. ToSet(q) = {AddError} \union ToSet(rest) /\ IsSequence(q)
  <2>1. \A a : <<a>> \in Seq({a}) /\ ToSet(<<a>>) = {a}
    BY DEF ToSet
  <2>2. IsSequence(rest) /\ IsSequence(<<AddError>>)
    BY <2>1, NoPlan DEF IsSequence, IsPlan
  <2> HIDE DEF rest
  <2> QED
    BY <2>1, <2>2, Concatenated
<1>4. /\ Exists(db, Instances) => ToSet(rest) = {SelectStates}
      /\ ~Exists(db, Instances) => ToSet(rest) = {}
  BY DEF ToSet, Instances
<1>5. ~Exists(db, Instances) => InstanceStates(db) = {}
  BY ValuesWhere DEF InstanceStates, Exists
<1> HIDE DEF rest, q
<1> QED
  BY <1>1, <1>2, <1>3, <1>4, <1>5 DEF Preparing

-----------------------------------------------------------------------------
(* The other scripts leave the states alone.                               *)

\* A sequence of statements that leave the states alone.
IsLeaving(p) == IsSequence(p) /\ \A s \in ToSet(p) : LeavesStates(s)

\* Which statements do.
LEMMA LeavingStatements ==
  /\ \A s : s.op \in {"describeTable", "addIndex", "changeColumn"} => LeavesStates(s)
  /\ \A s : s.op = "addColumn" /\ s.column \notin StateColumns => LeavesStates(s)
  /\ \A s : s.op # "select" /\ s.table \notin StateTables => LeavesStates(s)
BY DEF LeavesStates

\* No statement at all.
LEMMA LeavingNone == IsLeaving(<<>>)
BY Sequence DEF IsLeaving, IsSequence, ToSet

\* Some statements.
LEMMA LeavingBy ==
  ASSUME NEW p, NEW n \in Nat, DOMAIN p = 1..n, p = [i \in 1..n |-> p[i]],
         \A i \in 1..n : LeavesStates(p[i])
  PROVE  IsLeaving(p)
BY Sequence DEF IsLeaving, IsSequence, ToSet

\* One statement, two, or three.
LEMMA LeavingOf ==
  ASSUME NEW a, NEW b, NEW c, LeavesStates(a)
  PROVE  /\ IsLeaving(<<a>>)
         /\ LeavesStates(b) => IsLeaving(<<a, b>>)
         /\ LeavesStates(b) /\ LeavesStates(c) => IsLeaving(<<a, b, c>>)
<1>1. IsLeaving(<<a>>)
  <2> DEFINE p == <<a>>
  <2>1. DOMAIN p = 1..1 /\ p = [i \in 1..1 |-> p[i]] /\ \A i \in 1..1 : p[i] = a
    OBVIOUS
  <2> HIDE DEF p
  <2>2. IsLeaving(p)
    BY <2>1, LeavingBy
  <2> QED
    BY <2>2 DEF p
<1>2. ASSUME LeavesStates(b) PROVE IsLeaving(<<a, b>>)
  <2> DEFINE p == <<a, b>>
  <2>1. DOMAIN p = 1..2 /\ p = [i \in 1..2 |-> p[i]] /\ ToSet(p) = {a, b}
    BY DEF ToSet
  <2> HIDE DEF p
  <2>2. IsLeaving(p)
    BY <1>2, <2>1, Sequence DEF IsLeaving, IsSequence
  <2> QED
    BY <2>2 DEF p
<1>3. ASSUME LeavesStates(b), LeavesStates(c) PROVE IsLeaving(<<a, b, c>>)
  <2> DEFINE p == <<a, b, c>>
  <2>1. DOMAIN p = 1..3 /\ p = [i \in 1..3 |-> p[i]] /\ ToSet(p) = {a, b, c}
    BY DEF ToSet
  <2> HIDE DEF p
  <2>2. IsLeaving(p)
    BY <1>3, <2>1, Sequence DEF IsLeaving, IsSequence
  <2> QED
    BY <2>2 DEF p
<1> QED
  BY <1>1, <1>2, <1>3

\* One sequence after the other.
LEMMA LeavingJoined ==
  ASSUME NEW p, NEW q, IsLeaving(p), IsLeaving(q) PROVE IsLeaving(p \o q)
<1>1. IsSequence(p) /\ IsSequence(q)
  BY DEF IsLeaving
<1>2. IsSequence(p \o q) /\ ToSet(p \o q) = ToSet(p) \union ToSet(q)
  BY <1>1, Concatenated
<1> QED
  BY <1>2 DEF IsLeaving

\* The patterns the scripts share.
LEMMA LeavingPatterns ==
  ASSUME NEW table
  PROVE  /\ \A column, type, default : column \notin StateColumns =>
              LeavesStates(AddColumn(table, column, type, default))
         /\ \A column, type : LeavesStates(ChangeColumn(table, column, type))
         /\ \A p : IsLeaving(p) => IsLeaving(<<DescribeTable(table)>> \o p)
         /\ \A db, column, type : column \notin StateColumns =>
              IsLeaving(AddIfMissing(db, table, column, type))
         /\ \A indexes : (\E n \in Nat : DOMAIN indexes = 1..n) =>
              IsLeaving(AddIndexes(table, indexes))
         /\ \A db, columns, unique : table \notin StateTables =>
              IsLeaving(CreateIfMissing(db, table, columns, unique))
         /\ \A temporary, columns, unique :
              table \notin StateTables /\ temporary \notin StateTables =>
                IsLeaving(Rebuild(table, temporary, columns, unique))
<1>1. ASSUME NEW column, NEW type, NEW default, column \notin StateColumns
      PROVE  LeavesStates(AddColumn(table, column, type, default))
  <2> DEFINE s == AddColumn(table, column, type, default)
  <2>1. s.op = "addColumn" /\ s.column = column
    BY DEF AddColumn
  <2> HIDE DEF s
  <2>2. LeavesStates(s)
    BY <1>1, <2>1, LeavingStatements
  <2> QED
    BY <2>2 DEF s
<1>2. \A column, type : LeavesStates(ChangeColumn(table, column, type))
  <2>1. \A column, type : ChangeColumn(table, column, type).op = "changeColumn"
    BY DEF ChangeColumn
  <2> QED
    BY <2>1, LeavingStatements
<1>3. ASSUME NEW p, IsLeaving(p) PROVE IsLeaving(<<DescribeTable(table)>> \o p)
  <2> DEFINE s == DescribeTable(table)
  <2>1. s.op = "describeTable"
    BY DEF DescribeTable
  <2> HIDE DEF s
  <2>2. LeavesStates(s)
    BY <2>1, LeavingStatements
  <2>3. IsLeaving(<<s>>)
    BY <2>2, LeavingOf
  <2> QED
    BY <1>3, <2>3, LeavingJoined DEF s
<1>4. ASSUME NEW db, NEW column, NEW type, column \notin StateColumns
      PROVE  IsLeaving(AddIfMissing(db, table, column, type))
  <2>1. IsLeaving(<<AddColumn(table, column, type, Null)>>)
    BY <1>1, <1>4, LeavingOf
  <2> QED
    BY <2>1, LeavingNone, Zenon DEF AddIfMissing
<1>5. ASSUME NEW indexes, NEW n \in Nat, DOMAIN indexes = 1..n
      PROVE  IsLeaving(AddIndexes(table, indexes))
  <2> DEFINE p == AddIndexes(table, indexes)
  <2>1. DOMAIN p = 1..n /\ p = [i \in 1..n |-> p[i]] /\ \A i \in 1..n : p[i].op = "addIndex"
    BY <1>5 DEF AddIndexes, AddIndex
  <2> HIDE DEF p
  <2>2. \A i \in 1..n : LeavesStates(p[i])
    BY <2>1, LeavingStatements
  <2>3. IsLeaving(p)
    BY <2>1, <2>2, LeavingBy
  <2> QED
    BY <2>3 DEF p
<1>6. ASSUME NEW db, NEW columns, NEW unique, table \notin StateTables
      PROVE  IsLeaving(CreateIfMissing(db, table, columns, unique))
  <2> DEFINE s == CreateTable(table, columns, unique)
  <2>1. s.op = "createTable" /\ s.table = table
    BY DEF CreateTable
  <2> HIDE DEF s
  <2>2. LeavesStates(s)
    BY <1>6, <2>1, LeavingStatements
  <2>3. IsLeaving(<<s>>)
    BY <2>2, LeavingOf
  <2> QED
    BY <2>3, LeavingNone, Zenon DEF CreateIfMissing, s
<1>7. ASSUME NEW temporary, NEW columns, NEW unique,
             table \notin StateTables, temporary \notin StateTables
      PROVE  IsLeaving(Rebuild(table, temporary, columns, unique))
  <2> DEFINE a == CreateTable(temporary, With(columns, "id", "INTEGER"), unique)
             b == CopyRows(table, temporary, DOMAIN columns)
             c == DropTable(table)
             d == RenameTable(temporary, table)
             p == <<a, b, c, d>>
  <2>1. /\ a.op = "createTable" /\ b.op = "copyRows" /\ c.op = "dropTable"
        /\ d.op = "renameTable"
        /\ {a.table, b.table, c.table, d.table} = {temporary, table}
    BY DEF CreateTable, CopyRows, DropTable, RenameTable
  <2> HIDE DEF a, b, c, d
  <2>2. LeavesStates(a) /\ LeavesStates(b) /\ LeavesStates(c) /\ LeavesStates(d)
    BY <1>7, <2>1, LeavingStatements
  <2>3. DOMAIN p = 1..4 /\ p = [i \in 1..4 |-> p[i]] /\ ToSet(p) = {a, b, c, d}
    BY DEF ToSet
  <2> HIDE DEF p
  <2>4. IsLeaving(p)
    BY <2>2, <2>3, Sequence DEF IsLeaving, IsSequence
  <2> QED
    BY <2>4, Zenon DEF p, Rebuild, a, b, c, d
<1> QED
  BY <1>1, <1>2, <1>3, <1>4, <1>5, <1>6, <1>7

\* Of the scripts of sequelize/migrations/correlation the last two.
LEMMA CorrelationsLeave ==
  ASSUME NEW db PROVE IsLeaving(Correlation20190626) /\ IsLeaving(Correlation20191127(db))
<1> DEFINE t == "Correlations"
<1>1. IsLeaving(Correlation20190626)
  <2> DEFINE indexes == <<<<"correlationId">>, <<"processModelId">>, <<"processInstanceId">>,
               <<"parentProcessInstanceId">>, <<"state">>,
               <<"correlationId", "processInstanceId">>>>
  <2>1. DOMAIN indexes = 1..6
    OBVIOUS
  <2> HIDE DEF indexes
  <2>2. IsLeaving(AddIndexes(t, indexes))
    BY <2>1, LeavingPatterns
  <2> QED
    BY <2>2, Zenon DEF Correlation20190626, indexes
<1>2. IsLeaving(Correlation20191127(db))
  <2> DEFINE d == <<DescribeTable(t)>>
             p == AddIfMissing(db, t, "terminatedBy", "STRING")
             q == AddIfMissing(db, t, "finishedAt", "DATE")
  <2>1. "terminatedBy" \notin StateColumns /\ "finishedAt" \notin StateColumns
    BY DEF StateColumns
  <2>2. IsLeaving(p) /\ IsLeaving(q)
    BY <2>1, LeavingPatterns
  <2> HIDE DEF p, q
  <2>3. IsLeaving(d \o p)
    BY <2>2, LeavingPatterns
  <2> HIDE DEF d
  <2>4. IsLeaving((d \o p) \o q)
    BY <2>2, <2>3, LeavingJoined
  <2> QED
    BY <2>4, Zenon DEF Correlation20191127, d, p, q
<1> QED
  BY <1>1, <1>2

\* Of those of sequelize/migrations/flow_node_instance the ones after
\* flow_node_instance/03.
LEMMA InstancesLeave ==
  ASSUME NEW db
  PROVE  /\ IsLeaving(FlowNodeInstance20190403) /\ IsLeaving(FlowNodeInstance20190626)
         /\ IsLeaving(FlowNodeInstance20191010(db)) /\ IsLeaving(FlowNodeInstance20200218)
<1> DEFINE t == "FlowNodeInstances"
<1>1. \A column, type : IsLeaving(<<ChangeColumn(t, column, type)>>)
  BY LeavingPatterns, LeavingOf
<1>2. IsLeaving(FlowNodeInstance20190403) /\ IsLeaving(FlowNodeInstance20200218)
  BY <1>1 DEF FlowNodeInstance20190403, FlowNodeInstance20200218
<1>3. IsLeaving(FlowNodeInstance20190626)
  <2> DEFINE indexes ==
        <<<<"correlationId">>, <<"flowNodeId">>, <<"flowNodeInstanceId">>,
          <<"processModelId">>, <<"processInstanceId">>, <<"state">>,
          <<"correlationId", "processModelId">>,
          <<"correlationId", "processModelId", "flowNodeId">>,
          <<"correlationId", "processModelId", "state">>,
          <<"correlationId", "state">>, <<"processModelId", "state">>,
          <<"processInstanceId", "flowNodeId">>, <<"processInstanceId", "state">>>>
             own == <<<<"flowNodeInstanceId">>>>
  <2>1. DOMAIN indexes = 1..13 /\ DOMAIN own = 1..1
    OBVIOUS
  <2> HIDE DEF indexes, own
  <2>2. IsLeaving(AddIndexes(t, indexes)) /\ IsLeaving(AddIndexes("ProcessTokens", own))
    BY <2>1, LeavingPatterns
  <2>3. IsLeaving(AddIndexes(t, indexes) \o AddIndexes("ProcessTokens", own))
    BY <2>2, LeavingJoined
  <2> QED
    BY <2>3, Zenon DEF FlowNodeInstance20190626, indexes, own
<1>4. IsLeaving(FlowNodeInstance20191010(db))
  <2> DEFINE d == <<DescribeTable(t)>>
             a == AddColumn(t, "flowNodeName", "STRING", Null)
             b == AddColumn(t, "flowNodeLane", "STRING", Null)
  <2>1. "flowNodeName" \notin StateColumns /\ "flowNodeLane" \notin StateColumns
    BY DEF StateColumns
  <2>2. LeavesStates(a) /\ LeavesStates(b)
    BY <2>1, LeavingPatterns
  <2> HIDE DEF a, b
  <2>3. IsLeaving(<<a, b>>) /\ IsLeaving(<<>>)
    BY <2>2, LeavingOf, LeavingNone
  <2>4. IsLeaving(d \o <<a, b>>) /\ IsLeaving(d \o <<>>)
    BY <2>3, LeavingPatterns
  <2> HIDE DEF d
  <2> QED
    BY <2>4, Zenon DEF FlowNodeInstance20191010, d, a, b
<1> QED
  BY <1>2, <1>3, <1>4

\* Those of sequelize/migrations/cronjob_history and external_task.
LEMMA TasksLeave ==
  ASSUME NEW db
  PROVE  /\ IsLeaving(CronjobHistory20190709(db)) /\ IsLeaving(ExternalTask00(db))
         /\ IsLeaving(ExternalTask01(db)) /\ IsLeaving(ExternalTask02(db))
         /\ IsLeaving(ExternalTask20190626)
<1> DEFINE t == "ExternalTasks"
<1>0. t \notin StateTables /\ "external_tasks_new" \notin StateTables
      /\ "CronjobHistory" \notin StateTables
  BY DEF StateTables, Instances, NewInstances
<1>1. IsLeaving(CronjobHistory20190709(db))
  <2>1. \A columns, unique : IsLeaving(CreateIfMissing(db, "CronjobHistory", columns, unique))
    BY <1>0, LeavingPatterns
  <2> QED
    BY <2>1, Zenon DEF CronjobHistory20190709
<1>2. IsLeaving(ExternalTask00(db))
  <2>1. \A columns, unique : IsLeaving(CreateIfMissing(db, "ExternalTasks", columns, unique))
    BY <1>0, LeavingPatterns
  <2> QED
    BY <2>1, Zenon DEF ExternalTask00
<1>3. IsLeaving(ExternalTask01(db))
  <2> DEFINE d == <<DescribeTable(t)>>
             a == AddColumn(t, "identity", "TEXT", "")
             b == AddColumn(t, "version", "INTEGER", Null)
             c == AddColumn(t, "processModelId", "STRING", Null)
  <2>1. /\ "identity" \notin StateColumns /\ "version" \notin StateColumns
        /\ "processModelId" \notin StateColumns
    BY DEF StateColumns
  <2>2. LeavesStates(a) /\ LeavesStates(b) /\ LeavesStates(c)
    BY <2>1, LeavingPatterns
  <2> HIDE DEF a, b, c
  <2>3. IsLeaving(<<a, b, c>>) /\ IsLeaving(<<>>)
    BY <2>2, LeavingOf, LeavingNone
  <2>4. IsLeaving(d \o <<a, b, c>>) /\ IsLeaving(d \o <<>>)
    BY <2>3, LeavingPatterns
  <2> HIDE DEF d
  <2> QED
    BY <2>4, Zenon DEF ExternalTask01, d, a, b, c
<1>4. IsLeaving(ExternalTask02(db))
  <2> DEFINE d == <<DescribeTable(Tasks)>>
             p == <<DropStale, CreateNew, SelectTasks, DropTasks, RenameNew>>
  <2>1. LeavesStates(DropStale) /\ LeavesStates(CreateNew) /\ LeavesStates(SelectTasks)
        /\ LeavesStates(DropTasks) /\ LeavesStates(RenameNew)
    <3>1. Tasks \notin StateTables
      BY <1>0 DEF Tasks
    <3>2. LeavesStates(SelectTasks)
      BY <3>1, TaskStatements DEF LeavesStates
    <3> QED
      BY <1>0, <3>1, <3>2, TaskStatements, LeavingStatements
  <2>2. DOMAIN p = 1..5 /\ p = [i \in 1..5 |-> p[i]]
        /\ ToSet(p) = {DropStale, CreateNew, SelectTasks, DropTasks, RenameNew}
    BY DEF ToSet
  <2>a. p = CopyTasks
    BY DEF CopyTasks
  <2> HIDE DEF p
  <2>3. IsLeaving(p) /\ IsLeaving(<<>>)
    BY <2>1, <2>2, Sequence, LeavingNone DEF IsLeaving, IsSequence
  <2>4. IsLeaving(d \o p) /\ IsLeaving(d \o <<>>)
    BY <2>3, LeavingPatterns
  <2>5. IsLeaving(Up("external_task/02", db))
    BY <2>4, <2>a, TaskScripts
  <2>6. Up("external_task/02", db) = ExternalTask02(db)
    BY Zenon DEF Up
  <2> QED
    BY <2>5, <2>6
<1>5. IsLeaving(ExternalTask20190626)
  <2> DEFINE indexes == <<<<"externalTaskId">>,
               <<"correlationId", "processInstanceId", "flowNodeInstanceId">>,
               <<"topic", "state", "lockExpirationTime">>, <<"processModelId">>>>
  <2>1. DOMAIN indexes = 1..4
    OBVIOUS
  <2> HIDE DEF indexes
  <2>2. IsLeaving(AddIndexes(t, indexes))
    BY <2>1, LeavingPatterns
  <2> QED
    BY <2>2, Zenon DEF ExternalTask20190626, indexes
<1> QED
  BY <1>1, <1>2, <1>3, <1>4, <1>5

\* Those of sequelize/migrations/process_model.
LEMMA ModelsLeave ==
  ASSUME NEW db
  PROVE  /\ IsLeaving(ProcessModel00(db)) /\ IsLeaving(ProcessModel01(db))
         /\ IsLeaving(ProcessModel02(db)) /\ IsLeaving(ProcessModel20190626)
         /\ IsLeaving(ProcessModel20191108)
<1> DEFINE t == "ProcessDefinitions"
           temporary == "ProcessDefinitions_New"
<1>0. t \notin StateTables /\ temporary \notin StateTables
  BY DEF StateTables, Instances, NewInstances
<1>1. IsLeaving(ProcessModel00(db))
  <2>1. \A columns, unique : IsLeaving(CreateIfMissing(db, t, columns, unique))
    BY <1>0, LeavingPatterns
  <2> QED
    BY <2>1, Zenon DEF ProcessModel00
<1>2. IsLeaving(ProcessModel01(db))
  <2> DEFINE d == <<DescribeTable(t)>>
             a == AddColumn(t, "hash", "TEXT", "")
             p == IF HasColumn(db, "ProcessDefinitions", "hash") THEN <<>> ELSE <<a>>
             b == ChangeColumn(t, "name", "STRING")
  <2>1. "hash" \notin StateColumns
    BY DEF StateColumns
  <2>2. LeavesStates(a) /\ LeavesStates(b)
    BY <2>1, LeavingPatterns
  <2> HIDE DEF a, b
  <2>3. IsLeaving(<<a>>) /\ IsLeaving(<<b>>)
    BY <2>2, LeavingOf
  <2>4. IsLeaving(p)
    BY <2>3, LeavingNone
  <2> HIDE DEF p
  <2>5. IsLeaving(d \o p)
    BY <2>4, LeavingPatterns
  <2> HIDE DEF d
  <2>6. IsLeaving((d \o p) \o <<b>>)
    BY <2>3, <2>5, LeavingJoined
  <2> QED
    BY <2>6, Zenon DEF ProcessModel01, d, p, a, b
<1>3. IsLeaving(ProcessModel02(db))
  <2> DEFINE d == <<DescribeTable(t)>>
  <2>1. \A columns, unique : IsLeaving(Rebuild(t, temporary, columns, unique))
    BY <1>0, LeavingPatterns
  <2>2. IsLeaving(d \o <<>>)
        /\ \A columns, unique : IsLeaving(d \o Rebuild(t, temporary, columns, unique))
    BY <2>1, LeavingNone, LeavingPatterns
  <2> HIDE DEF d
  <2> QED
    BY <2>2, Zenon DEF ProcessModel02, d
<1>4. IsLeaving(ProcessModel20190626)
  <2> DEFINE indexes == <<<<"name">>, <<"hash">>>>
             b == ChangeColumn(t, "hash", "STRING")
  <2>1. DOMAIN indexes = 1..2
    OBVIOUS
  <2>2. LeavesStates(b)
    BY LeavingPatterns
  <2> HIDE DEF indexes, b
  <2>3. IsLeaving(<<b>>) /\ IsLeaving(AddIndexes(t, indexes))
    BY <2>1, <2>2, LeavingOf, LeavingPatterns
  <2>4. IsLeaving(<<b>> \o AddIndexes(t, indexes))
    BY <2>3, LeavingJoined
  <2> QED
    BY <2>4, Zenon DEF ProcessModel20190626, indexes, b
<1>5. IsLeaving(ProcessModel20191108)
  <2> DEFINE a == AddColumn(t, "identity", "TEXT", Null)
  <2>1. "identity" \notin StateColumns
    BY DEF StateColumns
  <2>2. LeavesStates(a)
    BY <2>1, LeavingPatterns
  <2> HIDE DEF a
  <2>3. IsLeaving(<<a>>)
    BY <2>2, LeavingOf
  <2> QED
    BY <2>3 DEF ProcessModel20191108, a
<1> QED
  BY <1>1, <1>2, <1>3, <1>4, <1>5

\* The scripts that make the columns of the states, fill them or move them.
StateScripts ==
  {"correlation/00", "correlation/01", "correlation/02", "correlation/03", "correlation/04",
   "flow_node_instance/00", "flow_node_instance/01", "flow_node_instance/02",
   "flow_node_instance/03"}

\* All others leave the states alone.
LEMMA UpLeaves ==
  ASSUME NEW name \in ScriptNames \ StateScripts, NEW db
  PROVE  \A s \in ToSet(Up(name, db)) : LeavesStates(s)
<1> SUFFICES IsLeaving(Up(name, db))
  BY DEF IsLeaving
<1>1. name \in {"correlation/2019-06-26", "correlation/2019-11-27",
        "cronjob_history/2019-07-09", "external_task/00", "external_task/01",
        "external_task/02", "external_task/2019-06-26", "flow_node_instance/2019-04-03",
        "flow_node_instance/2019-06-26", "flow_node_instance/2019-10-10",
        "flow_node_instance/2020-02-18", "process_model/00", "process_model/01",
        "process_model/02", "process_model/2019-06-26", "process_model/2019-11-08"}
  <2>1. PICK r \in Repositories : name \in ToSet(ScriptsOf[r])
    BY DEF ScriptNames
  <2> QED
    BY <2>1 DEF Repositories, ScriptsOf, ToSet, StateScripts
<1>2. CASE name = "correlation/2019-06-26"
  BY <1>2, CorrelationsLeave, Zenon DEF Up
<1>3. CASE name = "correlation/2019-11-27"
  BY <1>3, CorrelationsLeave, Zenon DEF Up
<1>4. CASE name = "cronjob_history/2019-07-09"
  BY <1>4, TasksLeave, Zenon DEF Up
<1>5. CASE name = "external_task/00"
  BY <1>5, TasksLeave, Zenon DEF Up
<1>6. CASE name = "external_task/01"
  BY <1>6, TasksLeave, Zenon DEF Up
<1>7. CASE name = "external_task/02"
  BY <1>7, TasksLeave, Zenon DEF Up
<1>8. CASE name = "external_task/2019-06-26"
  BY <1>8, TasksLeave, Zenon DEF Up
<1>9. CASE name = "flow_node_instance/2019-04-03"
  BY <1>9, InstancesLeave, Zenon DEF Up
<1>10. CASE name = "flow_node_instance/2019-06-26"
  BY <1>10, InstancesLeave, Zenon DEF Up
<1>11. CASE name = "flow_node_instance/2019-10-10"
  BY <1>11, InstancesLeave, Zenon DEF Up
<1>12. CASE name = "flow_node_instance/2020-02-18"
  BY <1>12, InstancesLeave, Zenon DEF Up
<1>13. CASE name = "process_model/00"
  BY <1>13, ModelsLeave, Zenon DEF Up
<1>14. CASE name = "process_model/01"
  BY <1>14, ModelsLeave, Zenon DEF Up
<1>15. CASE name = "process_model/02"
  BY <1>15, ModelsLeave, Zenon DEF Up
<1>16. CASE name = "process_model/2019-06-26"
  BY <1>16, ModelsLeave, Zenon DEF Up
<1>17. CASE name = "process_model/2019-11-08"
  BY <1>17, ModelsLeave, Zenon DEF Up
<1> QED
  BY <1>1, <1>2, <1>3, <1>4, <1>5, <1>6, <1>7, <1>8, <1>9,
     <1>10, <1>11, <1>12, <1>13, <1>14, <1>15, <1>16, <1>17

\* So do the inserts of the copied tasks.
LEMMA ContinuationLeaves ==
  ASSUME NEW db, NEW s, LeavesStates(s), Succeeds(db, s) \/ s.op # "select", WellFormed(db)
  PROVE  \A x \in ToSet(Continuation(db, s)) : LeavesStates(x)
<1>1. CASE s.op # "select"
  <2>1. Continuation(db, s) = <<>>
    BY <1>1, ContinuationPlan
  <2> QED
    BY <2>1 DEF ToSet
<1>2. CASE s.op = "select"
  <2> DEFINE rows == db[s.table].rows
  <2>1. Continuation(db, s) = CopiesOf(rows)
    BY <1>2, ContinuationPlan DEF LeavesStates
  <2> HIDE DEF rows
  <2>2. \A row : LET x == InsertRow("external_tasks_new", row)
                 IN  x.op = "insertRow" /\ x.table = "external_tasks_new"
    BY DEF InsertRow
  <2>3. \A x \in ToSet(CopiesOf(rows)) : x.op = "insertRow" /\ x.table = "external_tasks_new"
    BY <2>2 DEF CopiesOf, ToSet
  <2>4. "external_tasks_new" \notin StateTables
    BY DEF StateTables, Instances, NewInstances
  <2> QED
    BY <2>1, <2>3, <2>4, LeavingStatements
<1> QED
  BY <1>1, <1>2

-----------------------------------------------------------------------------
(* The states stay in step.                                                *)

\* The scripts of the correlations run in their order, before those of any other
\* repository.
LEMMA StateScriptNext ==
  ASSUME RunnerInv, Logged("correlation", 4), Logged("flow_node_instance", 4),
         NEW i \in DOMAIN Scripts, ~Logged(Repository, i),
         \A j \in 1..(i - 1) : Logged(Repository, j)
  PROVE  /\ Logged("correlation", 5) => Scripts[i] \notin StateScripts
         /\ ~Logged("correlation", 5) /\ Repository = "correlation" =>
              Scripts[i] = "correlation/04"
<1> DEFINE c == "correlation"
           f == "flow_node_instance"
<1>1. /\ Repository \in Repositories /\ c \in Repositories /\ f \in Repositories
      /\ DOMAIN ScriptsOf[c] = 1..7 /\ DOMAIN ScriptsOf[f] = 1..8
      /\ ScriptsOf[c][5] = "correlation/04"
      /\ ScriptsOf[c][6] \notin StateScripts /\ ScriptsOf[c][7] \notin StateScripts
      /\ ScriptsOf[f][5] \notin StateScripts /\ ScriptsOf[f][6] \notin StateScripts
      /\ ScriptsOf[f][7] \notin StateScripts /\ ScriptsOf[f][8] \notin StateScripts
  BY CurrentFacts DEF RunnerInv, ScriptsOf, Repositories, StateScripts
<1>2. \A r \in Repositories \ {c, f} : \A j \in DOMAIN ScriptsOf[r] :
        ScriptsOf[r][j] \notin StateScripts
  BY DEF ScriptsOf, Repositories, StateScripts
<1>3. LogIsPrefix
  BY DEF RunnerInv
<1> HIDE DEF c, f
<1>4. ASSUME NEW r \in Repositories, NEW k \in DOMAIN ScriptsOf[r], Logged(r, k), NEW j \in 1..k
      PROVE  Logged(r, j)
  <2>1. j = k \/ j \in 1..(k - 1)
    <3>1. k \in Nat
      BY ScriptsOfType
    <3> QED
      BY <3>1
  <2> QED
    BY <1>3, <1>4, <2>1 DEF LogIsPrefix
<1>5. CASE Repository = c
  <2>1. i \in 1..7 /\ Scripts[i] = ScriptsOf[c][i] /\ ~Logged(c, i)
    BY <1>1, <1>5 DEF Scripts
  <2>2. \A j \in 1..4 : Logged(c, j)
    <3>1. 4 \in DOMAIN ScriptsOf[c] /\ Logged(c, 4)
      BY <1>1 DEF c
    <3> QED
      BY <1>1, <1>4, <3>1
  <2>3. Logged(c, 5) => i \in {6, 7}
    BY <2>1, <2>2
  <2>4. ~Logged(c, 5) => i = 5
    <3>1. i > 5 => 5 \in 1..(i - 1)
      BY <2>1
    <3>2. i > 5 => Logged(c, 5)
      BY <1>5, <3>1
    <3> QED
      BY <2>1, <2>2, <3>2
  <2> QED
    BY <1>1, <2>1, <2>3, <2>4 DEF c
<1>6. CASE Repository = f
  <2>1. i \in 1..8 /\ Scripts[i] = ScriptsOf[f][i] /\ ~Logged(f, i)
    BY <1>1, <1>6 DEF Scripts
  <2>2. \A j \in 1..4 : Logged(f, j)
    <3>1. 4 \in DOMAIN ScriptsOf[f] /\ Logged(f, 4)
      BY <1>1 DEF f
    <3> QED
      BY <1>1, <1>4, <3>1
  <2>3. i \in {5, 6, 7, 8}
    BY <2>1, <2>2
  <2> QED
    BY <1>1, <1>6, <2>1, <2>3 DEF c, f
<1>7. CASE Repository \notin {c, f}
  BY <1>1, <1>2, <1>7 DEF Scripts, c
<1> QED
  BY <1>5, <1>6, <1>7

\* So while correlation/04 is not logged, no other repository is migrated, and
\* nothing but correlation/04 runs.
LEMMA StateScriptRuns ==
  ASSUME RunnerInv, Logged("correlation", 4), Logged("flow_node_instance", 4)
  PROVE  /\ status = "migrating" /\ ~Logged("correlation", 5) => Repository = "correlation"
         /\ script = "correlation/04" =>
              Repository = "correlation" /\ ~Logged("correlation", 5)
<1> DEFINE c == "correlation"
<1>1. /\ Repository \in Repositories /\ current \in 1..5 /\ RepositoryOrder[1] = c
      /\ c \in Repositories /\ 5 \in DOMAIN ScriptsOf[c] /\ ScriptsOf[c][5] = "correlation/04"
      /\ NoScript # "correlation/04"
  BY CurrentFacts DEF RunnerInv, RepositoryOrder, ScriptsOf, Repositories, NoScript
<1> HIDE DEF c
<1>2. ASSUME status = "migrating", ~Logged(c, 5) PROVE Repository = c
  <2>1. \A k \in 1..(current - 1) : Complete(RepositoryOrder[k])
    BY <1>2 DEF RunnerInv, RepositoriesInOrder
  <2>2. ~Complete(c)
    BY <1>1, <1>2 DEF Complete
  <2>3. current # 1 => 1 \in 1..(current - 1)
    BY <1>1
  <2>4. current = 1
    BY <1>1, <2>1, <2>2, <2>3
  <2> QED
    BY <1>1, <2>4 DEF Repository
<1>3. ASSUME script = "correlation/04" PROVE Repository = c /\ ~Logged(c, 5)
  <2>1. PICK i \in DOMAIN Scripts : script = Scripts[i] /\ ~Logged(Repository, i)
    BY <1>1, <1>3 DEF RunnerInv, RunningScriptIsNext
  <2>2. Repository = c /\ i = 5
    BY <1>1, <1>3, <2>1, ScriptNamesUnique DEF Scripts
  <2> QED
    BY <2>1, <2>2
<1> QED
  BY <1>2, <1>3 DEF c

\* What the log says of the two repositories stays.
LEMMA StatesLogStays ==
  ASSUME RunnerInv, [Next]_vars
  PROVE  /\ Logged("correlation", 4) => Logged("correlation", 4)'
         /\ Logged("flow_node_instance", 4) => Logged("flow_node_instance", 4)'
<1>1. CASE UNCHANGED meta
  BY <1>1 DEF Databases, Logged, DatabaseOf
<1>2. CASE LogMigration
  <2>1. meta' = [meta EXCEPT ![Database] = @ \union {script}]
    BY <1>2 DEF LogMigration
  <2> QED
    BY <2>1 DEF Databases, Logged, DatabaseOf
<1> QED
  BY <1>1, <1>2
  DEF Next, Progress, vars, store, StartRuntime, BeginScript, SendUnawaited,
      ExecuteStatement, StatementFails, UnawaitedTakesEffect, FinishRepository, Stop

\* The part of the invariant that is about a store with correlations.
StatesHold ==
  /\ Logged("correlation", 4) /\ Logged("flow_node_instance", 4)
  /\ StatesState(script, todo, databases["correlation"], Logged("correlation", 5))

\* A statement that is waited for keeps it.
LEMMA StatesExecute ==
  ASSUME RunnerInv, TablesInv, [Next]_vars, ExecuteStatement, Databases = {"correlation"},
         StatesHold
  PROVE  StatesHold'
<1> DEFINE db == databases[Database]
           s == Head(todo)
           after == databases'[Database]
           log == Logged("correlation", 5)
           rest == Tail(todo)
<1>1. /\ todo # <<>> /\ Allowed(s) /\ IsRest(rest) /\ WellFormed(db)
      /\ s.op # "setCell" => Succeeds(db, s)
      /\ todo' = Continuation(db, s) \o rest
      /\ Databases' = Databases /\ Database' = Database /\ Database \in Databases
      /\ after = IF Succeeds(db, s) THEN After(db, s) ELSE db
  BY Executed
<1>2. UNCHANGED <<script, meta>>
  BY DEF ExecuteStatement
<1>3. log' <=> log
  BY <1>2 DEF Logged, DatabaseOf, Databases
<1>4. ToSet(todo') = ToSet(Continuation(db, s)) \union ToSet(rest)
  <2>1. IsSequence(Continuation(db, s)) /\ IsSequence(rest)
    BY <1>1, ContinuationPlan DEF IsRest
  <2>2. todo' = Continuation(db, s) \o rest
    BY <1>1
  <2> HIDE DEF db, s, rest
  <2> QED
    BY ONLY <2>1, <2>2, Concatenated
<1>5. ToSet(todo) = {s} \union ToSet(rest) /\ IsRest(todo)
  BY <1>1, HeadAndTail DEF TablesInv, IsRest
<1>6. script # NoScript
  BY <1>1 DEF RunnerInv, TodoBelongsToScript
<1>7. Database = "correlation"
  BY <1>1
<1>8. StatesState(script, todo, db, log)
  BY <1>7 DEF StatesHold
<1>9. Logged("correlation", 4)' /\ Logged("flow_node_instance", 4)'
  BY StatesLogStays DEF StatesHold
<1> SUFFICES StatesState(script, todo', after, log')
  BY <1>1, <1>2, <1>7, <1>9 DEF StatesHold
<1>a. s = Head(todo) /\ rest = Tail(todo)
  OBVIOUS
<1> HIDE DEF db, s, after, log, rest
<1>10. CASE log
  <2>1. StatesNamed(db) /\ AllSynced(db) /\ \A x \in ToSet(todo) : LeavesStates(x)
    BY <1>8, <1>10 DEF StatesState
  <2>2. \A x \in ToSet(todo') : LeavesStates(x)
    <3>1. \A x \in ToSet(Continuation(db, s)) : LeavesStates(x)
      <4>1. LeavesStates(s) /\ (Succeeds(db, s) \/ s.op # "select")
        BY <1>1, <1>5, <2>1
      <4> QED
        BY <1>1, <4>1, ContinuationLeaves
    <3> QED
      BY <1>4, <1>5, <2>1, <3>1
  <2>3. StatesNamed(after) /\ AllSynced(after)
    <3>1. CASE Succeeds(db, s)
      <4>1. Alike(db, after)
        <5>1. LeavesStates(s) /\ after = After(db, s)
          BY <1>1, <1>5, <2>1, <3>1
        <5> QED
          BY <1>1, <3>1, <5>1, LeftAlike
      <4> QED
        BY <2>1, <4>1, AlikeSays, AlikeSynced
    <3>2. CASE ~Succeeds(db, s)
      BY <1>1, <2>1, <3>2
    <3> QED
      BY <3>1, <3>2
  <2> QED
    BY <1>3, <1>10, <2>2, <2>3 DEF StatesState
<1>11. CASE ~log
  <2>1. StatesNamed(db) /\ script = "correlation/04" /\ (Preparing(todo, db) \/ Syncing(todo, db))
    BY <1>6, <1>8, <1>11 DEF StatesState
  <2>2. CASE Preparing(todo, db)
    <3>1. (Preparing(todo', after) \/ Syncing(todo', after)) /\ StatesNamed(after)
      BY <1>1, <1>5, <1>a, <2>1, <2>2, PreparingGoesOn
    <3> QED
      BY <1>3, <1>11, <2>1, <3>1 DEF StatesState
  <2>3. CASE Syncing(todo, db)
    <3>1. Syncing(todo', after) /\ StatesNamed(after)
      BY <1>1, <1>5, <1>a, <2>1, <2>3, SyncingGoesOn
    <3> QED
      BY <1>3, <1>11, <2>1, <3>1 DEF StatesState
  <2> QED
    BY <2>1, <2>2, <2>3
<1> QED
  BY <1>10, <1>11

\* So does the drop of a table that has nothing to do with the states.
LEMMA StatesDropped ==
  ASSUME RunnerInv, TablesInv, [Next]_vars, UnawaitedTakesEffect, Databases = {"correlation"},
         StatesHold
  PROVE  StatesHold'
<1> DEFINE db == databases[Database]
           s == Head(unawaited)
           after == databases'[Database]
           log == Logged("correlation", 5)
<1>1. /\ s.op = "dropTable" /\ s.table = "external_tasks_new"
      /\ Databases' = Databases /\ Database' = Database /\ Database \in Databases
      /\ after = IF Succeeds(db, s) THEN After(db, s) ELSE db
  BY TakesEffect
<1>2. UNCHANGED <<script, meta, todo>>
  BY DEF UnawaitedTakesEffect
<1>3. log' <=> log
  BY <1>2 DEF Logged, DatabaseOf, Databases
<1>4. Logged("correlation", 4)' /\ Logged("flow_node_instance", 4)'
  BY StatesLogStays DEF StatesHold
<1>5. StatesState(script, todo, db, log)
  BY <1>1 DEF StatesHold
<1> SUFFICES StatesState(script, todo, after, log')
  BY <1>1, <1>2, <1>4 DEF StatesHold
<1> HIDE DEF db, s, after, log
<1>6. \A x \in {"Correlations", Instances} :
        (x \in DOMAIN after <=> x \in DOMAIN db) /\ (x \in DOMAIN db => after[x] = db[x])
  <2>1. CASE Succeeds(db, s)
    <3>1. after = After(db, s) /\ After(db, s) = Without(db, s.table)
      BY <1>1, <2>1, AfterBy
    <3> QED
      BY <1>1, <3>1 DEF Without, Instances
  <2>2. CASE ~Succeeds(db, s)
    BY <1>1, <2>2
  <2> QED
    BY <2>1, <2>2
<1>7. Alike(db, after) /\ (Stateless(db) => Stateless(after))
  BY <1>6, SameAlike
<1>8. /\ StatesNamed(db) => StatesNamed(after)
      /\ AllSynced(db) => AllSynced(after)
      /\ Syncing(todo, db) => Syncing(todo, after)
      /\ InstanceStates(after) = InstanceStates(db)
  BY <1>7, AlikeSays, AlikeSynced
<1>9. Preparing(todo, db) => Preparing(todo, after)
  BY <1>7, <1>8 DEF Preparing
<1> QED
  BY <1>3, <1>5, <1>7, <1>8, <1>9 DEF StatesState

\* One statement before others.
LEMMA OneJoined ==
  ASSUME NEW a, NEW q, IsSequence(q)
  PROVE  IsSequence(<<a>> \o q) /\ ToSet(<<a>> \o q) = {a} \union ToSet(q)
<1> DEFINE p == <<a>>
           r == p \o q
<1>1. p \in Seq({a}) /\ ToSet(p) = {a}
  BY DEF ToSet
<1> HIDE DEF p
<1>2. IsSequence(p)
  BY <1>1 DEF IsSequence
<1>3. IsSequence(r) /\ ToSet(r) = ToSet(p) \union ToSet(q)
  BY <1>2, Concatenated
<1> QED
  BY <1>1, <1>3 DEF p

\* Preparing and Syncing leave nothing to send without waiting for it.
LEMMA StatesAwaited ==
  ASSUME NEW p, NEW db, Preparing(p, db) \/ Syncing(p, db), NEW s \in ToSet(p)
  PROVE  s.op # "dropTable"
<1>1. /\ AddState.op # "dropTable" /\ AddError.op # "dropTable" /\ SelectStates.op # "dropTable"
      /\ DescribeTable("Correlations").op # "dropTable"
  <2>1. DescribeTable("Correlations").op = "describeTable"
    BY DEF DescribeTable
  <2> QED
    BY <2>1, StateStatements
<1>2. CASE Syncing(p, db)
  <2>1. \A i : Settles(s, db, i) => s.op \in {"select", "setCell"}
    BY DEF Settles, IsQuery, IsUpdate
  <2> QED
    BY <1>1, <1>2, <2>1 DEF Syncing
<1>3. CASE Preparing(p, db)
  <2>1. PICK q : /\ IsSequence(q) /\ ToSet(q) \subseteq {AddError, SelectStates}
                 /\ p = <<AddState>> \o q \/ p = <<DescribeTable("Correlations")>> \o (<<AddState>> \o q)
    BY <1>3 DEF Preparing
  <2>3. IsSequence(<<AddState>> \o q) /\ ToSet(<<AddState>> \o q) = {AddState} \union ToSet(q)
    BY <2>1, OneJoined
  <2>4. ToSet(<<DescribeTable("Correlations")>> \o (<<AddState>> \o q))
          = {DescribeTable("Correlations")} \union ToSet(<<AddState>> \o q)
    BY <2>3, OneJoined
  <2>5. \/ s \in {AddState} \union ToSet(q)
        \/ s \in {DescribeTable("Correlations")} \union ({AddState} \union ToSet(q))
    <3>1. CASE p = <<AddState>> \o q
      BY <2>3, <3>1
    <3>2. CASE p = <<DescribeTable("Correlations")>> \o (<<AddState>> \o q)
      BY <2>3, <2>4, <3>2
    <3> QED
      BY <2>1, <3>1, <3>2
  <2> QED
    BY <1>1, <2>1, <2>5
<1> QED
  BY <1>2, <1>3

\* Every step keeps it, but for the end of the process.
LEMMA StatesHeld ==
  ASSUME RunnerInv, TablesInv, [Next]_vars, Databases = {"correlation"}, StatesHold, ~Stop
  PROVE  StatesHold'
<1> DEFINE db == databases["correlation"]
           log == Logged("correlation", 5)
<1>1. Databases' = Databases /\ Logged("correlation", 4)' /\ Logged("flow_node_instance", 4)'
  BY LogStays, StatesLogStays DEF StatesHold
<1>2. StatesState(script, todo, db, log)
  BY DEF StatesHold
<1>3. CASE StartRuntime \/ FinishRepository \/ StatementFails \/ UNCHANGED vars
  <2>1. UNCHANGED <<databases, meta, script, todo>>
    BY <1>3 DEF StartRuntime, FinishRepository, StatementFails, vars, store
  <2>2. log' <=> log
    BY <2>1 DEF Logged, DatabaseOf, Databases
  <2> HIDE DEF log
  <2> QED
    BY <1>1, <1>2, <2>1, <2>2 DEF StatesHold, StatesState, log
<1>4. CASE BeginScript
  <2>1. PICK i \in DOMAIN Scripts :
          /\ IsPending(i)
          /\ \A j \in 1..(i - 1) : ~IsPending(j)
          /\ script' = Scripts[i] /\ todo' = Up(Scripts[i], databases[Database])
    BY <1>4 DEF BeginScript
  <2>2. script = NoScript /\ status = "migrating" /\ UNCHANGED <<databases, meta>>
    BY <1>4 DEF BeginScript, store
  <2>3. log' <=> log
    BY <2>2 DEF Logged, DatabaseOf, Databases
  <2>4. Scripts[i] \in ScriptNames /\ Database \in Databases
    BY CurrentFacts DEF RunnerInv
  <2>5. ~Logged(Repository, i) /\ \A j \in 1..(i - 1) : Logged(Repository, j)
    BY <2>1 DEF IsPending, Logged, Scripts, Database
  <2>6. /\ log => script' \notin StateScripts
        /\ ~log => script' = "correlation/04"
    BY <2>1, <2>2, <2>5, StateScriptNext, StateScriptRuns DEF StatesHold
  <2>7. todo' = Up(script', db)
    BY <2>1, <2>4
  <2> SUFFICES StatesState(script', todo', db, log')
    BY <1>1, <2>2 DEF StatesHold
  <2>8. script' \in ScriptNames /\ script = NoScript /\ NoScript # "correlation/04"
    BY <2>1, <2>2, <2>4 DEF NoScript
  <2> HIDE DEF db, log
  <2>9. log => \A s \in ToSet(todo') : LeavesStates(s)
    BY <2>6, <2>7, <2>8, UpLeaves
  <2>10. ~log => Preparing(todo', db)
    <3>1. ~log => Stateless(db)
      BY <1>2, <2>8 DEF StatesState
    <3> QED
      BY <2>6, <2>7, <3>1, PreparingBegins
  <2> QED
    BY <1>2, <2>3, <2>6, <2>9, <2>10 DEF StatesState
<1>5. CASE SendUnawaited
  <2>1. /\ todo # <<>> /\ ~IsAwaited(Head(todo)) /\ todo' = Tail(todo)
        /\ UNCHANGED <<databases, meta, script>>
    BY <1>5 DEF SendUnawaited, store
  <2>2. log' <=> log
    BY <2>1 DEF Logged, DatabaseOf, Databases
  <2>3. Allowed(Head(todo)) /\ IsSequence(todo)
    BY <2>1, RestTail DEF TablesInv, IsRest
  <2>4. ToSet(todo) = {Head(todo)} \union ToSet(todo')
    BY <2>1, <2>3, HeadAndTail
  <2>5. Head(todo).op = "dropTable"
    BY <2>1, <2>3 DEF Allowed
  <2>6. script # NoScript
    BY <2>1 DEF RunnerInv, TodoBelongsToScript
  <2> SUFFICES StatesState(script, todo', db, log')
    BY <1>1, <2>1 DEF StatesHold
  <2> HIDE DEF db, log
  <2>7. ~Preparing(todo, db) /\ ~Syncing(todo, db)
    BY <2>4, <2>5, StatesAwaited
  <2> QED
    BY <1>2, <2>2, <2>4, <2>6, <2>7 DEF StatesState
<1>6. CASE LogMigration
  <2>1. /\ status = "migrating" /\ script # NoScript /\ todo = <<>> /\ todo' = <<>>
        /\ script' = NoScript /\ UNCHANGED databases
    BY <1>6 DEF LogMigration
  <2>2. PICK k \in DOMAIN Scripts : script = Scripts[k]
    BY <2>1 DEF RunnerInv, RunningScriptIsNext
  <2>3. /\ "correlation" \in Repositories /\ 5 \in DOMAIN ScriptsOf["correlation"]
        /\ ScriptsOf["correlation"][5] = "correlation/04"
    BY DEF ScriptsOf, Repositories
  <2>4. log' <=> log \/ (Repository = "correlation" /\ k = 5)
    BY <1>6, <2>2, <2>3, LoggedAfter
  <2>5. Repository \in Repositories
    BY CurrentFacts DEF RunnerInv
  <2>6. script = "correlation/04" <=> Repository = "correlation" /\ k = 5
    BY <2>2, <2>3, <2>5, ScriptNamesUnique DEF Scripts
  <2>7. StatesState(script, <<>>, db, log)
    BY <1>2, <2>1
  <2> SUFFICES StatesState(NoScript, <<>>, db, log')
    BY <1>1, <2>1 DEF StatesHold
  <2> HIDE DEF db, log
  <2>8. ToSet(<<>>) = {}
    BY DEF ToSet
  <2>9. ~Preparing(<<>>, db)
    <3> SUFFICES ASSUME Preparing(<<>>, db) PROVE FALSE
      OBVIOUS
    <3>1. PICK q : /\ IsSequence(q)
                   /\ \/ <<>> = <<AddState>> \o q
                      \/ <<>> = <<DescribeTable("Correlations")>> \o (<<AddState>> \o q)
      BY DEF Preparing
    <3>3. IsSequence(<<AddState>> \o q) /\ AddState \in ToSet(<<AddState>> \o q)
      BY <3>1, OneJoined
    <3>4. DescribeTable("Correlations")
            \in ToSet(<<DescribeTable("Correlations")>> \o (<<AddState>> \o q))
      BY <3>3, OneJoined
    <3> QED
      BY <2>8, <3>1, <3>3, <3>4
  <2>10. Syncing(<<>>, db) => AllSynced(db)
    BY <2>8 DEF Syncing, AllSynced, IsSynced
  <2>11. log' => AllSynced(db)
    BY <2>1, <2>4, <2>6, <2>7, <2>9, <2>10 DEF StatesState
  <2>12. log'
    BY <2>1, <2>4, <2>6, <2>7 DEF StatesState
  <2> QED
    BY <2>7, <2>8, <2>11, <2>12 DEF StatesState
<1>7. CASE ExecuteStatement
  BY <1>7, StatesExecute
<1>8. CASE UnawaitedTakesEffect
  BY <1>8, StatesDropped
<1> QED
  BY <1>3, <1>4, <1>5, <1>6, <1>7, <1>8 DEF Next, Progress

\* So every step keeps the invariant.
LEMMA StatesStep ==
  ASSUME RunnerInv, TablesInv, RowsInv, StatesInv, [Next]_vars PROVE StatesInv'
<1>1. Databases' = Databases
  BY LogStays
<1>2. CASE Stop
  <2>1. restarts' = restarts + 1 /\ restarts \in Nat
    BY <1>2 DEF Stop, RunnerInv, RunnerTypeOK
  <2>2. restarts' # 0
    BY <2>1
  <2> QED
    BY <2>2 DEF StatesInv
<1>3. CASE ~Stop
  <2>1. restarts' = restarts
    BY <1>3
    DEF Next, Progress, vars, StartRuntime, BeginScript, SendUnawaited, ExecuteStatement,
        StatementFails, UnawaitedTakesEffect, LogMigration, FinishRepository
  <2> SUFFICES ASSUME Databases = {"correlation"}, restarts = 0
               PROVE  KeptRows(databases'["correlation"], "Correlations") = {} \/ StatesHold'
    BY <1>1, <2>1 DEF StatesInv, StatesHold
  <2>2. CASE KeptRows(databases["correlation"], "Correlations") = {}
    <3>1. "Correlations" \in LiveTables \ {Tasks}
      BY DEF LiveTables, Tasks
    <3> QED
      BY <2>2, <3>1, RowsStep
  <2>3. CASE StatesHold
    BY <1>3, <2>3, StatesHeld
  <2> QED
    BY <2>2, <2>3 DEF StatesInv, StatesHold
<1> QED
  BY <1>2, <1>3

-----------------------------------------------------------------------------
(* What a start finds of the states.                                       *)

\* The correlations of the initial stores have the states of StatesFit, or none.
LEMMA StatesInit == ASSUME StatesFit PROVE Init => StatesInv
<1> SUFFICES ASSUME Init, Databases = {"correlation"} PROVE StatesInv
  BY DEF StatesInv
<1> DEFINE db == databases["correlation"]
           log == Logged("correlation", 5)
<1>1. PICK s \in InitialStores : databases = s.databases /\ meta = s.meta
  BY DEF Init
<1>2. DOMAIN databases = {"correlation"} /\ WellFormed(db)
  BY TablesInit DEF TablesInv
<1>3. script = NoScript /\ todo = <<>>
  BY DEF Init
<1>4. CASE ToSet(RowsOf(db, "Correlations")) = {} /\ RowsOf(db, "correlations_new") = <<>>
  <2>1. TemporaryOf["Correlations"] = "correlations_new"
    BY DEF LiveTables, TemporaryOf
  <2>2. ToSet(<<>>) = {}
    BY DEF ToSet
  <2> HIDE DEF db
  <2>3. KeptRows(db, "Correlations") = {}
    BY <1>4, <2>1, <2>2 DEF KeptRows, KeptIn
  <2> QED
    BY <2>3 DEF StatesInv, db
<1>5. CASE ~(ToSet(RowsOf(db, "Correlations")) = {} /\ RowsOf(db, "correlations_new") = <<>>)
  <2> DEFINE instances == ToSet(RowsOf(db, Instances))
             correlations == ToSet(RowsOf(db, "Correlations"))
  <2>1. /\ Logged("correlation", 4) /\ Logged("flow_node_instance", 4)
        /\ \A r \in instances : "processInstanceId" \in DOMAIN r => "state" \in DOMAIN r
        /\ \A row \in correlations : "processInstanceId" \in DOMAIN row
        /\ log => \A row \in correlations :
                    /\ "state" \in DOMAIN row
                    /\ row.state = ExpectedState(instances, row.processInstanceId)
        /\ ~log => ~HasColumn(db, "Correlations", "state")
    BY <1>1, <1>2, <1>5 DEF StatesFit, Logged, DatabaseOf, Databases, Instances
  <2>2. \A i \in DOMAIN CorrelationRows(db) : CorrelationRows(db)[i] \in correlations
    BY DEF CorrelationRows, ToSet
  <2> HIDE DEF db, log
  <2>3. StatesNamed(db)
    BY <2>1 DEF StatesNamed, InstanceStates, ValuesIn, ValuesOf, Values, StateColumns
  <2>4. log => AllSynced(db)
    BY <1>2, <2>1, <2>2, <2>3, StateExpected DEF AllSynced, IsSynced, StateColumns
  <2>5. ~log => Stateless(db)
    BY <2>1, <2>2 DEF Stateless
  <2>6. ToSet(<<>>) = {}
    BY DEF ToSet
  <2>7. StatesState(script, todo, db, log)
    BY <1>3, <2>3, <2>4, <2>5, <2>6 DEF StatesState
  <2> QED
    BY <2>1, <2>7 DEF StatesInv, db, log
<1> QED
  BY <1>4, <1>5

\* Where the stores share a database and nothing has cut a start off, correlation/04
\* finds the correlations without a state, and every statement of it and of the others
\* leaves each with the one that it is to have, or with a statement left that sets it.
THEOREM StatesInvariant == ASSUME StatesFit PROVE Spec => []StatesInv
<1>1. Init => StatesInv
  BY StatesInit
<1>2. RunnerInv /\ TablesInv /\ RowsInv /\ StatesInv /\ [Next]_vars => StatesInv'
  BY StatesStep
<1> QED
  BY <1>1, <1>2, RunnerInvariant, TablesInvariant, RowsInvariant, PTL DEF Spec

\* Once correlation/04 is in SequelizeMeta, the state of every correlation is the one
\* that its comment (lines 86 to 94) promises: "running" while a flow node instance of
\* its process instance is active, "error" if one failed and none is active, "finished"
\* otherwise; and it is so after every statement of every later script, which changes
\* neither the states nor the process instances that either table names.
THEOREM StatesAlwaysSynced == ASSUME StatesFit PROVE Spec => []StatesSyncedIfPossible
<1>1. TablesInv /\ StatesInv => StatesSyncedIfPossible
  <2> SUFFICES ASSUME TablesInv, StatesInv, Databases = {"correlation"}, restarts = 0,
                      Logged("correlation", 5), NEW row \in AllRows("Correlations")
               PROVE  row.state = ExpectedState(AllRows("FlowNodeInstances"), row.processInstanceId)
    BY DEF StatesSyncedIfPossible, CorrelationStatesSynced
  <2> DEFINE db == databases["correlation"]
  <2>1. /\ row \in ToSet(RowsOf(db, "Correlations"))
        /\ AllRows("FlowNodeInstances") = ToSet(RowsOf(db, Instances))
    BY DEF AllRows, Instances
  <2>2. WellFormed(db)
    BY DEF TablesInv
  <2>3. \/ KeptRows(db, "Correlations") = {}
        \/ AllSynced(db) /\ StatesNamed(db)
    BY DEF StatesInv, StatesState
  <2> HIDE DEF db
  <2>4. AllSynced(db) /\ StatesNamed(db)
    BY <2>1, <2>3 DEF KeptRows, KeptIn
  <2>5. row.state = StateFor(db, row.processInstanceId)
    BY <2>1, <2>4 DEF AllSynced, IsSynced, CorrelationRows, ToSet
  <2> QED
    BY <2>1, <2>2, <2>4, <2>5, StateExpected
<1> QED
  BY <1>1, StatesInvariant, TablesInvariant, PTL DEF Spec

=============================================================================
