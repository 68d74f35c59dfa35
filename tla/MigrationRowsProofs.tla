------------------------ MODULE MigrationRowsProofs ------------------------
(***************************************************************************)
(* No row is lost and no value of it changed, at whatever statement a      *)
(* start ends: of every table but that of the external tasks for every     *)
(* dialect, of that one too on SQLite, which takes the statements in the   *)
(* order in which they were sent.  Nor does a row come to be in its table  *)
(* more often than once, and once more for each restart.                   *)
(***************************************************************************)
EXTENDS MigratorProofs, FiniteSetTheorems

-----------------------------------------------------------------------------
(* What a statement does to the values that are kept.                      *)

\* What is kept of the rows of one sequence.
KeptOf(rows, table) == {KeptRow(row, table) : row \in ToSet(rows)}

\* A table that is not there keeps nothing.
LEMMA KeptWhere ==
  ASSUME NEW db, NEW t, NEW x
  PROVE  /\ x \in DOMAIN db => KeptIn(db, t, x) = KeptOf(db[x].rows, t)
         /\ x \notin DOMAIN db => KeptIn(db, t, x) = {}
<1>1. ToSet(<<>>) = {}
  BY DEF ToSet
<1> QED
  BY <1>1 DEF KeptIn, RowsOf, Exists, KeptOf

\* A table that is as it was keeps its rows.
LEMMA KeptSame ==
  ASSUME NEW db, NEW after, NEW t, NEW x,
         x \in DOMAIN after <=> x \in DOMAIN db,
         x \in DOMAIN db => after[x] = db[x]
  PROVE  KeptIn(after, t, x) = KeptIn(db, t, x)
BY KeptWhere

\* Rows that are changed one by one in other columns than those that are kept.
LEMMA KeptOfMapped ==
  ASSUME NEW rows, NEW mapped, NEW t, DOMAIN mapped = DOMAIN rows,
         \A i \in DOMAIN rows : KeptRow(mapped[i], t) = KeptRow(rows[i], t)
  PROVE  KeptOf(mapped, t) = KeptOf(rows, t)
BY DEF KeptOf, ToSet

\* Two rows that agree on a set of columns are the same as far as they are kept.
LEMMA SameKept ==
  ASSUME NEW a, NEW b, NEW t, a.createdAt = b.createdAt,
         KeptColumns[t] \intersect DOMAIN a = KeptColumns[t] \intersect DOMAIN b,
         \A c \in KeptColumns[t] \intersect DOMAIN b : a[c] = b[c]
  PROVE  KeptRow(a, t) = KeptRow(b, t)
BY DEF KeptRow

\* A statement that changes columns, indexes or single cells changes the rows one
\* by one, and keeps what is to be kept of each.
LEMMA ChangedRows ==
  ASSUME NEW db, NEW s, Allowed(s), s.op \in ChangesTable \ {"insertRow"},
         Succeeds(db, s), WellFormed(db)
  PROVE  LET rows == db[s.table].rows
             changed == Changed(db, s).rows
         IN  /\ DOMAIN changed = DOMAIN rows
             /\ \A i \in DOMAIN rows :
                  KeptRow(changed[i], s.table) = KeptRow(rows[i], s.table)
<1> DEFINE table == db[s.table]
           new == Changed(db, s)
           t == s.table
<1>0. /\ DOMAIN table = {"columns", "unique", "indexes", "rows"}
      /\ \A i \in DOMAIN table.rows : "createdAt" \in DOMAIN table.rows[i]
      /\ Applies(db, s) /\ "createdAt" \in DOMAIN table.columns
  <2>1. IsTable(table) /\ Applies(db, s)
    BY DEF WellFormed, IsDatabase, Succeeds, ChangesTable, Exists
  <2>2. /\ DOMAIN table = {"columns", "unique", "indexes", "rows"}
        /\ {"id", "createdAt"} \subseteq DOMAIN table.columns
        /\ \A i \in DOMAIN table.rows : DOMAIN table.rows[i] = Stored(table.columns)
    BY <2>1, TableOf
  <2> QED
    BY <2>1, <2>2 DEF Stored
<1> HIDE DEF table
<1>1. CASE s.op = "addColumn"
  <2>1. Changed(db, s) = [db[s.table] EXCEPT !.columns = With(@, s.column, s.type),
                            !.rows = [i \in DOMAIN @ |-> With(@[i], s.column, s.default)]]
    BY <1>1, Zenon DEF Changed, MapRows
  <2>2. s.column \notin DOMAIN table.columns /\ s.column \notin KeptColumns[t]
    BY <1>0, <1>1, AppliesBy DEF table, Allowed
  <2>3. new.rows = [i \in DOMAIN table.rows |-> With(table.rows[i], s.column, s.default)]
    BY <1>0, <2>1 DEF table
  <2>4. ASSUME NEW i \in DOMAIN table.rows
        PROVE  KeptRow(new.rows[i], t) = KeptRow(table.rows[i], t)
    <3>1. new.rows[i] = With(table.rows[i], s.column, s.default)
      BY <2>3
    <3> QED
      BY <1>0, <2>2, <3>1, SameKept DEF With
  <2> QED
    BY <2>3, <2>4 DEF table
<1>2. CASE s.op = "changeColumn"
  <2>1. Changed(db, s) = [db[s.table] EXCEPT !.columns[s.column] = s.type]
    BY <1>2, Zenon DEF Changed, MapRows
  <2> QED
    BY <1>0, <2>1 DEF table
<1>3. CASE s.op = "removeColumn"
  <2>1. Changed(db, s) = [db[s.table] EXCEPT !.columns = Without(@, s.column),
                            !.rows = [i \in DOMAIN @ |-> Without(@[i], s.column)]]
    BY <1>3, Zenon DEF Changed, MapRows
  <2>2. s.column # "createdAt" /\ s.column \notin KeptColumns[t]
    BY <1>3 DEF Allowed
  <2>3. new.rows = [i \in DOMAIN table.rows |-> Without(table.rows[i], s.column)]
    BY <1>0, <2>1 DEF table
  <2>4. ASSUME NEW i \in DOMAIN table.rows
        PROVE  KeptRow(new.rows[i], t) = KeptRow(table.rows[i], t)
    <3>1. new.rows[i] = Without(table.rows[i], s.column)
      BY <2>3
    <3> QED
      BY <1>0, <2>2, <3>1, SameKept DEF Without
  <2> QED
    BY <2>3, <2>4 DEF table
<1>4. CASE s.op = "addIndex"
  <2>1. Changed(db, s) = [db[s.table] EXCEPT !.indexes = @ \union {s.columns}]
    BY <1>4, Zenon DEF Changed, MapRows
  <2> QED
    BY <1>0, <2>1 DEF table
<1>5. CASE s.op = "setCell"
  <2>1. Changed(db, s) = [db[s.table] EXCEPT !.rows[s.position][s.column] = s.value]
    BY <1>5, Zenon DEF Changed, MapRows
  <2>2. s.column # "createdAt" /\ s.column \notin KeptColumns[t]
    BY <1>5 DEF Allowed
  <2>3. new.rows = [table.rows EXCEPT ![s.position][s.column] = s.value]
    BY <1>0, <2>1 DEF table
  <2>4. ASSUME NEW i \in DOMAIN table.rows
        PROVE  KeptRow(new.rows[i], t) = KeptRow(table.rows[i], t)
    <3>1. /\ DOMAIN new.rows[i] = DOMAIN table.rows[i]
          /\ \A c \in DOMAIN table.rows[i] : c # s.column => new.rows[i][c] = table.rows[i][c]
      BY <2>3
    <3> QED
      BY <1>0, <2>2, <3>1, SameKept
  <2> QED
    BY <2>3, <2>4 DEF table
<1>6. CASE s.op = "fillFrom"
  <2>1. Changed(db, s) = [db[s.table] EXCEPT !.rows = [i \in DOMAIN @ |-> Filled(db, s, @[i])]]
    BY <1>6, Zenon DEF Changed, MapRows
  <2>2. DOMAIN s.assignments \intersect (KeptColumns[t] \union {"createdAt"}) = {}
    BY <1>6 DEF Allowed
  <2>3. new.rows = [i \in DOMAIN table.rows |-> Filled(db, s, table.rows[i])]
    BY <1>0, <2>1 DEF table
  <2>4. ASSUME NEW i \in DOMAIN table.rows
        PROVE  KeptRow(new.rows[i], t) = KeptRow(table.rows[i], t)
    <3>1. new.rows[i] = Filled(db, s, table.rows[i])
      BY <2>3
    <3>2. /\ DOMAIN new.rows[i] = DOMAIN table.rows[i]
          /\ \A c \in DOMAIN table.rows[i] :
               c \notin DOMAIN s.assignments => new.rows[i][c] = table.rows[i][c]
      BY <3>1 DEF Filled
    <3> QED
      BY <1>0, <2>2, <3>2, SameKept
  <2> QED
    BY <2>3, <2>4 DEF table
<1> QED
  BY <1>1, <1>2, <1>3, <1>4, <1>5, <1>6 DEF ChangesTable

\* So they keep it together.
LEMMA ChangedKeeps ==
  ASSUME NEW db, NEW s, Allowed(s), s.op \in ChangesTable \ {"insertRow"},
         Succeeds(db, s), WellFormed(db)
  PROVE  KeptOf(Changed(db, s).rows, s.table) = KeptOf(db[s.table].rows, s.table)
BY ChangedRows, KeptOfMapped

\* Where the rows of a table are: in it, or in the temporary one.
PlacesOf(t) == {t, TemporaryOf[t]}

\* A place is that of one table only.
LEMMA PlaceNames ==
  ASSUME NEW t \in LiveTables
  PROVE  /\ TemporaryOf[t] \notin LiveTables
         /\ \A u \in Rebuilt :
              /\ u \in LiveTables /\ u # TemporaryOf[t] /\ TemporaryOf[u] # t
              /\ TemporaryOf[u] = TemporaryOf[t] => u = t
         /\ t # "ExternalTasks" => PlacesOf(t) \intersect TaskTables = {}
         /\ TemporaryOf["ExternalTasks"] = "external_tasks_new"
         /\ "ExternalTasks" \in Rebuilt
BY DEF LiveTables, Rebuilt, TemporaryOf, PlacesOf, TaskTables

\* What copied rows keep.
LEMMA CopiedKeep ==
  ASSUME NEW db, NEW t \in Rebuilt, WellFormed(db), Exists(db, t),
         HasColumns(db, t, DOMAIN MigratedColumns[t]),
         NEW brought,
         brought = [i \in DOMAIN db[t].rows |->
                      [c \in DOMAIN MigratedColumns[t] |-> db[t].rows[i][c]]]
  PROVE  KeptOf(brought, t) = KeptOf(db[t].rows, t)
<1> DEFINE from == db[t].rows
<1>1. IsTable(db[t])
  BY DEF WellFormed, IsDatabase, Exists
<1>2. /\ \A i \in DOMAIN from : DOMAIN from[i] = Stored(db[t].columns)
      /\ {"id", "createdAt"} \subseteq DOMAIN db[t].columns
  BY <1>1, TableOf
<1>3. DOMAIN MigratedColumns[t] \subseteq Stored(db[t].columns)
  BY Migrated DEF HasColumns, HasColumn, Stored
<1>4. KeptColumns[t] \subseteq DOMAIN MigratedColumns[t]
  BY KeptFacts
  DEF Rebuilt, LiveTables, MigratedColumns, MigratedCorrelationColumns,
      MigratedTaskColumns, MigratedInstanceColumns, MigratedTokenColumns,
      MigratedModelColumns, Typed, Timestamps
<1>5. "createdAt" \in DOMAIN MigratedColumns[t]
  BY Migrated
<1> DEFINE columns == DOMAIN MigratedColumns[t]
<1> HIDE DEF columns, from
<1>6. ASSUME NEW i \in DOMAIN from PROVE KeptRow(brought[i], t) = KeptRow(from[i], t)
  <2>1. brought[i] = [c \in columns |-> from[i][c]]
    BY DEF columns, from
  <2>2. columns \subseteq DOMAIN from[i] /\ KeptColumns[t] \subseteq columns
        /\ "createdAt" \in columns
    BY <1>2, <1>3, <1>4, <1>5 DEF columns
  <2> QED
    BY <2>1, <2>2, SameKept
<1>7. DOMAIN brought = DOMAIN from
  BY DEF from
<1> QED
  BY <1>6, <1>7, KeptOfMapped DEF from

\* What a statement that succeeds makes of the rows of table t in table x.
LEMMA KeptBy ==
  ASSUME NEW db, NEW s, WellFormed(db), Allowed(s), Succeeds(db, s),
         NEW t \in LiveTables, NEW x \in PlacesOf(t)
  PROVE  KeptIn(After(db, s), t, x) =
           IF s.op = "dropTable" /\ x = s.table THEN {}
           ELSE IF s.op = "renameTable" /\ x = s.table THEN {}
           ELSE IF s.op = "renameTable" /\ x = s.to THEN KeptIn(db, t, s.table)
           ELSE IF s.op = "copyRows" /\ x = s.to
                THEN KeptIn(db, t, x) \union KeptIn(db, t, s.table)
           ELSE IF s.op = "insertRow" /\ x = s.table
                THEN KeptIn(db, t, x) \union {KeptRow(s.row, t)}
           ELSE KeptIn(db, t, x)
<1> DEFINE after == After(db, s)
<1>0. \A y \in DOMAIN db : /\ IsSequence(db[y].rows)
                           /\ DOMAIN db[y] = {"columns", "unique", "indexes", "rows"}
  <2> SUFFICES ASSUME NEW y \in DOMAIN db
               PROVE  /\ IsSequence(db[y].rows)
                      /\ DOMAIN db[y] = {"columns", "unique", "indexes", "rows"}
    OBVIOUS
  <2>1. IsTable(db[y])
    BY DEF WellFormed, IsDatabase
  <2> QED
    BY <2>1, TableOf DEF IsSequence
<1>1. CASE s.op \in {"describeTable", "select"}
  BY <1>1, AfterBy
<1>2. CASE s.op = "createTable"
  <2> DEFINE new == [columns |-> s.columns, unique |-> s.unique, indexes |-> {},
                     rows |-> <<>>]
  <2>1. after = IF Exists(db, s.table) THEN db ELSE With(db, s.table, new)
    BY <1>2, AfterBy
  <2>2. KeptOf(new.rows, t) = {}
    BY DEF KeptOf, ToSet
  <2> HIDE DEF new
  <2>3. CASE x = s.table /\ ~Exists(db, s.table)
    <3>1. x \in DOMAIN after /\ after[x] = new /\ x \notin DOMAIN db
      BY <2>1, <2>3 DEF With, Exists
    <3> QED
      BY <1>2, <2>2, <3>1, KeptWhere
  <2>4. CASE ~(x = s.table /\ ~Exists(db, s.table))
    <3>1. (x \in DOMAIN after <=> x \in DOMAIN db) /\ (x \in DOMAIN db => after[x] = db[x])
      BY <2>1, <2>4 DEF With, Exists
    <3> QED
      BY <1>2, <3>1, KeptSame
  <2> QED
    BY <2>3, <2>4
<1>3. CASE s.op = "dropTable"
  <2>1. after = Without(db, s.table)
    BY <1>3, AfterBy
  <2>2. CASE x = s.table
    BY <1>3, <2>1, <2>2, KeptWhere DEF Without
  <2>3. CASE x # s.table
    BY <1>3, <2>1, <2>3, KeptSame DEF Without
  <2> QED
    BY <2>2, <2>3
<1>4. CASE s.op = "renameTable"
  <2>1. after = With(Without(db, s.table), s.to, db[s.table])
    BY <1>4, AfterBy
  <2>2. PICK u \in Rebuilt : s.table = TemporaryOf[u] /\ s.to = u
    BY <1>4 DEF Allowed
  <2>3. s.table \in DOMAIN db /\ s.to # s.table
    BY <1>4, <2>2, Names DEF Succeeds, Exists
  <2>4. CASE x = s.table
    <3>1. x \notin DOMAIN after
      BY <2>1, <2>3, <2>4 DEF With, Without
    <3> QED
      BY <1>4, <2>4, <3>1, KeptWhere
  <2>5. CASE x = s.to
    <3>1. x \in DOMAIN after /\ after[x] = db[s.table]
      BY <2>1, <2>5 DEF With
    <3> QED
      BY <1>4, <2>3, <2>5, <3>1, KeptWhere
  <2>6. CASE x # s.to /\ x # s.table
    <3>1. (x \in DOMAIN after <=> x \in DOMAIN db) /\ (x \in DOMAIN db => after[x] = db[x])
      BY <2>1, <2>6 DEF With, Without
    <3> QED
      BY <1>4, <2>6, <3>1, KeptSame
  <2> QED
    BY <2>4, <2>5, <2>6
<1>5. CASE s.op = "copyRows"
  <2>1. PICK u \in Rebuilt : /\ s.table = u /\ s.to = TemporaryOf[u]
                             /\ s.columns = DOMAIN MigratedColumns[u]
    BY <1>5 DEF Allowed
  <2> DEFINE brought == [i \in DOMAIN db[s.table].rows |->
                           [c \in s.columns |-> db[s.table].rows[i][c]]]
  <2>2. after = [db EXCEPT ![s.to].rows = @ \o brought]
    BY <1>5, AfterBy
  <2>3. Exists(db, s.table) /\ HasColumns(db, s.table, s.columns)
        /\ HasColumns(db, s.to, s.columns)
    BY <1>5, AppliesBy DEF Succeeds
  <2>4. Exists(db, s.to)
    BY <2>1, <2>3, Migrated DEF HasColumns, HasColumn
  <2>5. CASE x = s.to
    <3>1. t = u
      BY <2>1, <2>5, PlaceNames DEF PlacesOf
    <3>2. KeptOf(brought, t) = KeptOf(db[t].rows, t)
      BY <2>1, <2>3, <3>1, CopiedKeep
    <3>3. IsSequence(brought)
      <4>1. db[s.table].rows \in Seq(ToSet(db[s.table].rows))
        BY <1>0, <2>3 DEF IsSequence, Exists
      <4> QED
        BY <4>1, MappedRows DEF IsSequence
    <3> HIDE DEF brought
    <3>4. after[x].rows = db[x].rows \o brought /\ x \in DOMAIN after
      BY <1>0, <2>2, <2>4, <2>5 DEF Exists
    <3>5. KeptOf(after[x].rows, t) = KeptOf(db[x].rows, t) \union KeptOf(brought, t)
      <4> DEFINE first == db[x].rows
                 all == after[x].rows
      <4>1. IsSequence(first) /\ IsSequence(brought) /\ all = first \o brought
        BY <1>0, <2>4, <2>5, <3>3, <3>4 DEF Exists
      <4> HIDE DEF first, all
      <4>2. ToSet(all) = ToSet(first) \union ToSet(brought)
        BY ONLY <4>1, Concatenated
      <4>3. KeptOf(all, t) = KeptOf(first, t) \union KeptOf(brought, t)
        BY ONLY <4>2 DEF KeptOf
      <4> QED
        BY <4>3 DEF first, all
    <3> QED
      BY <1>5, <2>1, <2>3, <2>4, <2>5, <3>1, <3>2, <3>4, <3>5, KeptWhere DEF Exists
  <2>6. CASE x # s.to
    <3> HIDE DEF brought
    <3>1. DOMAIN after = DOMAIN db /\ (x \in DOMAIN db => after[x] = db[x])
      BY <2>2, <2>6
    <3> QED
      BY <1>5, <2>6, <3>1, KeptSame
  <2> QED
    BY <2>5, <2>6
<1>6. CASE s.op = "insertRow"
  <2>1. after = [db EXCEPT ![s.table] = Changed(db, s)]
    BY <1>6, AfterBy DEF ChangesTable
  <2>2. Changed(db, s) = [db[s.table] EXCEPT !.rows = Append(@, s.row)]
    BY <1>6, Zenon DEF Changed, MapRows
  <2>3. s.table \in DOMAIN db
    BY <1>6 DEF Succeeds, Exists
  <2>4. CASE x = s.table
    <3> DEFINE old == db[x].rows
               row == s.row
    <3>1. x \in DOMAIN after /\ after[x].rows = Append(old, row)
      BY <1>0, <2>1, <2>2, <2>3, <2>4
    <3>2. IsSequence(old)
      BY <1>0, <2>3, <2>4
    <3> HIDE DEF old, row
    <3>3. Append(old, row) = old \o <<row>> /\ IsSequence(<<row>>)
      <4>1. old \in Seq(ToSet(old))
        BY <3>2 DEF IsSequence
      <4>2. Append(old, row) = old \o <<row>>
        BY ONLY <4>1
      <4>3. DOMAIN <<row>> = 1..1 /\ <<row>> = [i \in 1..1 |-> <<row>>[i]]
        OBVIOUS
      <4>4. IsSequence(<<row>>)
        BY ONLY <4>3, Sequence DEF IsSequence
      <4> QED
        BY <4>2, <4>4
    <3>4. KeptOf(<<row>>, t) = {KeptRow(row, t)}
      BY DEF KeptOf, ToSet
    <3>5. KeptOf(Append(old, row), t) = KeptOf(old, t) \union {KeptRow(row, t)}
      <4> DEFINE one == <<row>>
                 all == Append(old, row)
      <4>1. IsSequence(old) /\ IsSequence(one) /\ all = old \o one
        BY <3>2, <3>3
      <4> HIDE DEF one, all
      <4>2. ToSet(all) = ToSet(old) \union ToSet(one)
        BY ONLY <4>1, Concatenated
      <4>3. KeptOf(all, t) = KeptOf(old, t) \union KeptOf(one, t)
        BY ONLY <4>2 DEF KeptOf
      <4> QED
        BY <3>4, <4>3 DEF one, all
    <3> QED
      BY <1>6, <2>3, <2>4, <3>1, <3>5, KeptWhere DEF old, row
  <2>5. CASE x # s.table
    <3>1. DOMAIN after = DOMAIN db /\ (x \in DOMAIN db => after[x] = db[x])
      BY <2>1, <2>5
    <3> QED
      BY <1>6, <2>5, <3>1, KeptSame
  <2> QED
    BY <2>4, <2>5
<1>7. CASE s.op \in ChangesTable \ {"insertRow"}
  <2> DEFINE new == Changed(db, s)
  <2>1. after = [db EXCEPT ![s.table] = new]
    BY <1>7, AfterBy
  <2>2. s.table \in DOMAIN db /\ s.table \in LiveTables
    BY <1>7 DEF Allowed, Succeeds, Exists, ChangesTable
  <2>3. KeptOf(new.rows, s.table) = KeptOf(db[s.table].rows, s.table)
    BY <1>7, ChangedKeeps
  <2> HIDE DEF new
  <2>4. CASE x = s.table
    <3>1. x = t
      BY <2>2, <2>4, PlaceNames DEF PlacesOf
    <3>2. x \in DOMAIN after /\ after[x] = new
      BY <2>1, <2>2, <2>4
    <3> QED
      BY <1>7, <2>2, <2>3, <2>4, <3>1, <3>2, KeptWhere DEF ChangesTable
  <2>5. CASE x # s.table
    <3>1. DOMAIN after = DOMAIN db /\ (x \in DOMAIN db => after[x] = db[x])
      BY <2>1, <2>5
    <3> QED
      BY <1>7, <2>5, <3>1, KeptSame DEF ChangesTable
  <2> QED
    BY <2>4, <2>5
<1> QED
  BY <1>1, <1>2, <1>3, <1>4, <1>5, <1>6, <1>7 DEF Allowed, Operations, ChangesTable

\* A statement that loses none of the rows of table t: one that it drops are in
\* the other place, one that it inserts is there already.
Harmless(db, s, t) ==
  /\ s.op = "dropTable" /\ s.table \in PlacesOf(t) =>
       \E y \in PlacesOf(t) \ {s.table} : KeptIn(db, t, s.table) \subseteq KeptIn(db, t, y)
  /\ s.op = "insertRow" /\ s.table \in PlacesOf(t) => KeptRow(s.row, t) \in KeptRows(db, t)

\* A statement that is harmless to a table keeps its rows.
LEMMA KeptRowsBy ==
  ASSUME NEW db, NEW s, WellFormed(db), Allowed(s), Succeeds(db, s),
         NEW t \in LiveTables, Harmless(db, s, t)
  PROVE  KeptRows(After(db, s), t) = KeptRows(db, t)
<1> DEFINE after == After(db, s)
           m == TemporaryOf[t]
<1>0. /\ t # m /\ t \in PlacesOf(t) /\ m \in PlacesOf(t) /\ PlacesOf(t) = {t, m}
      /\ KeptRows(after, t) = KeptIn(after, t, t) \union KeptIn(after, t, m)
      /\ KeptRows(db, t) = KeptIn(db, t, t) \union KeptIn(db, t, m)
  BY PlaceNames DEF PlacesOf, KeptRows
<1> HIDE DEF m, after
<1>1. CASE s.op = "dropTable"
  <2>1. \A x \in PlacesOf(t) :
          KeptIn(after, t, x) = IF x = s.table THEN {} ELSE KeptIn(db, t, x)
    BY <1>1, KeptBy DEF after
  <2>2. s.table \in PlacesOf(t) =>
          \E y \in PlacesOf(t) \ {s.table} :
            KeptIn(db, t, s.table) \subseteq KeptIn(db, t, y)
    BY <1>1 DEF Harmless
  <2> QED
    BY <1>0, <2>1, <2>2 DEF after
<1>2. CASE s.op = "renameTable"
  <2>1. PICK u \in Rebuilt : s.table = TemporaryOf[u] /\ s.to = u
    BY <1>2 DEF Allowed
  <2>2. KeptIn(db, t, s.to) = {}
    <3>1. ~Exists(db, s.to)
      BY <1>2, AppliesBy DEF Succeeds
    <3> QED
      BY <3>1, KeptWhere DEF Exists
  <2>3. \A x \in PlacesOf(t) :
          KeptIn(after, t, x) = IF x = s.table THEN {}
                                ELSE IF x = s.to THEN KeptIn(db, t, s.table)
                                ELSE KeptIn(db, t, x)
    BY <1>2, KeptBy DEF after
  <2>4. CASE t = u
    BY <1>0, <2>1, <2>2, <2>3, <2>4 DEF m, after
  <2>5. CASE t # u
    <3>1. s.to \notin PlacesOf(t) /\ s.table \notin PlacesOf(t)
      BY <2>1, <2>5, PlaceNames DEF PlacesOf
    <3> QED
      BY <1>0, <2>3, <3>1 DEF after
  <2> QED
    BY <2>4, <2>5
<1>3. CASE s.op = "copyRows"
  <2>1. PICK u \in Rebuilt : s.table = u /\ s.to = TemporaryOf[u]
    BY <1>3 DEF Allowed
  <2>2. \A x \in PlacesOf(t) :
          KeptIn(after, t, x) = IF x = s.to THEN KeptIn(db, t, x) \union KeptIn(db, t, s.table)
                                ELSE KeptIn(db, t, x)
    BY <1>3, KeptBy DEF after
  <2>3. s.to \in PlacesOf(t) => s.to = m /\ s.table = t
    BY <2>1, PlaceNames DEF PlacesOf, m
  <2> QED
    BY <1>0, <2>2, <2>3 DEF after
<1>4. CASE s.op = "insertRow"
  <2>1. \A x \in PlacesOf(t) :
          KeptIn(after, t, x) = IF x = s.table THEN KeptIn(db, t, x) \union {KeptRow(s.row, t)}
                                ELSE KeptIn(db, t, x)
    BY <1>4, KeptBy DEF after
  <2>2. s.table \in PlacesOf(t) => KeptRow(s.row, t) \in KeptRows(db, t)
    BY <1>4 DEF Harmless
  <2> QED
    BY <1>0, <2>1, <2>2 DEF after
<1>5. CASE s.op \notin {"dropTable", "renameTable", "copyRows", "insertRow"}
  <2>1. \A x \in PlacesOf(t) : KeptIn(after, t, x) = KeptIn(db, t, x)
    BY <1>5, KeptBy DEF after
  <2> QED
    BY <1>0, <2>1 DEF after
<1> QED
  BY <1>1, <1>2, <1>3, <1>4, <1>5

-----------------------------------------------------------------------------
(* What the script for the external tasks runs.                            *)

Tasks == "ExternalTasks"

DropStale == NotAwaited(DropTable("external_tasks_new"))
CreateNew ==
  CreateTable("external_tasks_new", With(MigratedTaskColumns, "id", "INTEGER"), {})
SelectTasks == Select(Tasks, "copy tasks")
DropTasks == DropTable(Tasks)
RenameNew == RenameTable("external_tasks_new", Tasks)

CopyTasks == <<DropStale, CreateNew, SelectTasks, DropTasks, RenameNew>>

\* What the statements of external_task/02 are.
LEMMA TaskStatements ==
  /\ DropStale.op = "dropTable" /\ DropStale.table = "external_tasks_new"
  /\ ~IsAwaited(DropStale)
  /\ CreateNew.op = "createTable" /\ CreateNew.table = "external_tasks_new"
  /\ IsAwaited(CreateNew)
  /\ SelectTasks.op = "select" /\ SelectTasks.table = Tasks
  /\ SelectTasks.use = "copy tasks" /\ IsAwaited(SelectTasks)
  /\ DropTasks.op = "dropTable" /\ DropTasks.table = Tasks /\ IsAwaited(DropTasks)
  /\ RenameNew.op = "renameTable" /\ RenameNew.table = "external_tasks_new"
  /\ RenameNew.to = Tasks /\ IsAwaited(RenameNew)
<1>1. /\ DropStale.op = "dropTable" /\ DropStale.table = "external_tasks_new"
      /\ ~IsAwaited(DropStale)
  BY DEF DropStale, NotAwaited, With, DropTable, IsAwaited
<1>2. /\ CreateNew.op = "createTable" /\ CreateNew.table = "external_tasks_new"
      /\ IsAwaited(CreateNew)
  BY DEF CreateNew, CreateTable, IsAwaited
<1>3. /\ SelectTasks.op = "select" /\ SelectTasks.table = Tasks
      /\ SelectTasks.use = "copy tasks" /\ IsAwaited(SelectTasks)
  BY DEF SelectTasks, Select, IsAwaited
<1>4. DropTasks.op = "dropTable" /\ DropTasks.table = Tasks /\ IsAwaited(DropTasks)
  BY DEF DropTasks, DropTable, IsAwaited
<1>5. /\ RenameNew.op = "renameTable" /\ RenameNew.table = "external_tasks_new"
      /\ RenameNew.to = Tasks /\ IsAwaited(RenameNew)
  BY DEF RenameNew, RenameTable, IsAwaited
<1> QED
  BY <1>1, <1>2, <1>3, <1>4, <1>5

\* The statements of the two scripts that make and rebuild the table of the tasks.
LEMMA TaskScripts ==
  ASSUME NEW db
  PROVE  /\ \/ Up("external_task/00", db) = <<>>
            \/ \E s : /\ s.op = "createTable" /\ s.table = Tasks /\ IsAwaited(s)
                      /\ Up("external_task/00", db) = <<s>>
         /\ \/ Up("external_task/02", db) = <<DescribeTable(Tasks)>> \o <<>>
            \/ Up("external_task/02", db) = <<DescribeTable(Tasks)>> \o CopyTasks
<1>1. \/ ExternalTask00(db) = <<>>
      \/ \E s : /\ s.op = "createTable" /\ s.table = Tasks /\ IsAwaited(s)
                /\ ExternalTask00(db) = <<s>>
  <2>1. \A columns, unique :
          LET s == CreateTable(Tasks, columns, unique)
          IN  s.op = "createTable" /\ s.table = Tasks /\ IsAwaited(s)
    BY DEF CreateTable, IsAwaited
  <2>2. \E columns, unique :
          ExternalTask00(db) = IF Exists(db, Tasks) THEN <<>>
                               ELSE <<CreateTable(Tasks, columns, unique)>>
    BY Zenon DEF ExternalTask00, CreateIfMissing, Tasks
  <2> QED
    BY <2>1, <2>2
<1>2. \/ ExternalTask02(db) = <<DescribeTable(Tasks)>> \o <<>>
      \/ ExternalTask02(db) = <<DescribeTable(Tasks)>> \o CopyTasks
  BY Zenon
  DEF ExternalTask02, CopyTasks, DropStale, CreateNew, SelectTasks, DropTasks, RenameNew,
      Tasks
<1>3. /\ Up("external_task/00", db) = ExternalTask00(db)
      /\ Up("external_task/02", db) = ExternalTask02(db)
  BY Zenon DEF Up
<1> QED
  BY <1>1, <1>2, <1>3

-----------------------------------------------------------------------------
(* Heads and tails of what is left of a script.                            *)

\* The empty sequence changes nothing that follows it.
LEMMA NothingBefore == ASSUME NEW p, IsSequence(p) PROVE <<>> \o p = p
<1> DEFINE S == ToSet(p)
<1>1. p \in Seq(S)
  BY DEF IsSequence
<1> HIDE DEF S
<1> QED
  BY ONLY <1>1

\* A statement that comes first is the head.
LEMMA OneBefore ==
  ASSUME NEW a, NEW p, IsSequence(p)
  PROVE  Head(<<a>> \o p) = a /\ Tail(<<a>> \o p) = p
<1> DEFINE S == ToSet(p) \union {a}
<1>1. p \in Seq(S) /\ a \in S
  BY DEF IsSequence
<1> HIDE DEF S
<1> QED
  BY ONLY <1>1

\* The head of two joined sequences is that of the first.
LEMMA SomeBefore ==
  ASSUME NEW p, NEW q, IsSequence(p), p # <<>>, IsSequence(q)
  PROVE  Head(p \o q) = Head(p) /\ Tail(p \o q) = Tail(p) \o q
<1> DEFINE S == ToSet(p) \union ToSet(q)
<1>1. p \in Seq(S) /\ q \in Seq(S)
  BY DEF IsSequence
<1> HIDE DEF S
<1> QED
  BY ONLY <1>1, p # <<>>

\* A sequence that is not empty has its head and what is in its tail.
LEMMA HeadAndTail ==
  ASSUME NEW p, IsSequence(p), p # <<>>
  PROVE  ToSet(p) = {Head(p)} \union ToSet(Tail(p))
<1> DEFINE q == Tail(p)
<1>1. /\ Len(p) \in Nat /\ Len(p) > 0 /\ DOMAIN p = 1..Len(p) /\ Head(p) = p[1]
      /\ DOMAIN q = 1..(Len(p) - 1)
      /\ \A i \in 1..(Len(p) - 1) : q[i] = p[i + 1]
  BY TailOf
<1> HIDE DEF q
<1>2. /\ 1 \in DOMAIN p
      /\ \A i \in DOMAIN q : i + 1 \in DOMAIN p /\ q[i] = p[i + 1]
      /\ \A i \in DOMAIN p : i = 1 \/ (i - 1 \in DOMAIN q /\ p[i] = q[i - 1])
  BY ONLY <1>1
<1>3. ToSet(p) = {Head(p)} \union ToSet(q)
  BY <1>1, <1>2 DEF ToSet
<1> QED
  BY <1>3 DEF q

-----------------------------------------------------------------------------
(* The tables that every dialect keeps.                                    *)

\* A statement that drops one of them has to follow one that copied its rows.
Removes(s) == s.op = "dropTable" /\ s.table \notin TaskTables

IsOrdered(p) == IsSequence(p) /\ \A i \in DOMAIN p : Removes(p[i]) => Drops(p, i)

\* A script that moves rows drops a table only after a copy of its rows.
LEMMA MoveIsOrdered == ASSUME NEW p, NEW tables, IsMove(p, tables) PROVE IsOrdered(p)
BY DEF IsMove, IsOrdered, Removes, Fits, CopiesOnce, Renames

\* A plan drops none.
LEMMA PlanIsOrdered == ASSUME NEW p, IsPlan(p) PROVE IsOrdered(p)
BY PlanIsMove, MoveIsOrdered

\* Nor does a sequence that drops none of these tables.
LEMMA NoneRemoves ==
  ASSUME NEW p, IsSequence(p), \A s \in ToSet(p) : ~Removes(s)
  PROVE  IsOrdered(p)
BY DEF IsOrdered, ToSet

\* One ordered sequence after the other is ordered.
LEMMA OrderedJoined ==
  ASSUME NEW p, NEW q, IsOrdered(p), IsOrdered(q) PROVE IsOrdered(p \o q)
<1> DEFINE r == p \o q
<1>1. IsSequence(p) /\ IsSequence(q)
  BY DEF IsOrdered
<1>2. IsSequence(r)
  BY <1>1, Concatenated
<1>3. /\ Len(p) \in Nat /\ DOMAIN p = 1..Len(p)
      /\ Len(q) \in Nat /\ DOMAIN q = 1..Len(q)
      /\ DOMAIN r = 1..(Len(p) + Len(q))
      /\ \A i \in 1..(Len(p) + Len(q)) :
           r[i] = IF i <= Len(p) THEN p[i] ELSE q[i - Len(p)]
  BY <1>1, Places
<1>4. /\ \A i \in DOMAIN p : Removes(p[i]) => Drops(p, i)
      /\ \A i \in DOMAIN q : Removes(q[i]) => Drops(q, i)
  BY DEF IsOrdered
<1> HIDE DEF r
<1>5. ASSUME NEW i \in 1..(Len(p) + Len(q)), Removes(r[i]) PROVE Drops(r, i)
  <2>1. CASE i <= Len(p)
    <3>1. i \in DOMAIN p /\ r[i] = p[i] /\ (i > 1 => r[i - 1] = p[i - 1])
      BY ONLY <1>3, <2>1, i \in 1..(Len(p) + Len(q))
    <3> QED
      BY <1>4, <1>5, <3>1 DEF Drops
  <2>2. CASE ~(i <= Len(p))
    <3> DEFINE j == i - Len(p)
    <3>1. j \in DOMAIN q /\ r[i] = q[j] /\ (j > 1 => i > 1 /\ r[i - 1] = q[j - 1])
      BY ONLY <1>3, <2>2, i \in 1..(Len(p) + Len(q))
    <3> HIDE DEF j
    <3> QED
      BY <1>4, <1>5, <3>1 DEF Drops
  <2> QED
    BY <2>1, <2>2
<1>6. IsOrdered(r)
  BY <1>2, <1>3, <1>5 DEF IsOrdered
<1> QED
  BY <1>6 DEF r

\* The rows of the table that is dropped next are in the temporary one.
HasCopy(db, t) == KeptIn(db, t, t) \subseteq KeptIn(db, t, TemporaryOf[t])

IsSafe(p, db) ==
  \A i \in DOMAIN p :
    Removes(p[i]) => Drops(p, i) \/ (i = 1 /\ HasCopy(db, p[1].table))

\* What is ordered is safe on every database.
LEMMA OrderedIsSafe == ASSUME NEW p, NEW db, IsOrdered(p) PROVE IsSafe(p, db)
BY DEF IsOrdered, IsSafe

\* What is left after a statement is safe, provided that one that copied rows
\* succeeded.
LEMMA SafeTail ==
  ASSUME NEW p, NEW db, NEW after, IsRest(p), p # <<>>, IsSafe(p, db),
         Head(p).op = "copyRows" => HasCopy(after, Head(p).table)
  PROVE  /\ IsSafe(Tail(p), after)
         /\ Head(p).op # "copyRows" => IsOrdered(Tail(p))
<1> DEFINE q == Tail(p)
<1>1. /\ Len(p) \in Nat /\ Len(p) > 0 /\ DOMAIN p = 1..Len(p) /\ Head(p) = p[1]
      /\ DOMAIN q = 1..(Len(p) - 1)
      /\ \A i \in 1..(Len(p) - 1) : q[i] = p[i + 1]
      /\ IsSequence(q)
  BY TailOf DEF IsRest
<1> HIDE DEF q
<1>2. ASSUME NEW i \in DOMAIN q, Removes(q[i])
      PROVE  /\ Drops(q, i) \/ (i = 1 /\ HasCopy(after, q[1].table))
             /\ Head(p).op # "copyRows" => Drops(q, i)
  <2> DEFINE j == i + 1
  <2>1. /\ j \in DOMAIN p /\ q[i] = p[j] /\ j # 1 /\ p[j - 1] = p[i]
        /\ i > 1 => p[i] = q[i - 1]
        /\ i > 1 \/ i = 1
    BY ONLY <1>1, i \in DOMAIN q
  <2> HIDE DEF j
  <2>2. Drops(p, j)
    BY <1>2, <2>1 DEF IsSafe
  <2>3. /\ Allowed(q[i]) /\ q[i].op = "dropTable" /\ IsAwaited(q[i])
        /\ q[i].table \notin TaskTables
        /\ p[i].op = "copyRows" /\ p[i].table = q[i].table
    BY <2>1, <2>2 DEF Drops
  <2>4. CASE i > 1
    BY <2>1, <2>3, <2>4 DEF Drops
  <2>5. CASE i = 1
    BY <1>1, <2>3, <2>5
  <2> QED
    BY <2>1, <2>4, <2>5
<1>3. IsSafe(q, after)
  BY <1>2 DEF IsSafe
<1>4. Head(p).op # "copyRows" => IsOrdered(q)
  BY <1>1, <1>2 DEF IsOrdered
<1> QED
  BY <1>3, <1>4 DEF q

\* Every script is ordered, and so is what it computes from the rows it selects.
LEMMA UpOrdered ==
  ASSUME NEW name \in ScriptNames, NEW db PROVE IsOrdered(Up(name, db))
<1>1. CASE name \notin {"external_task/00", "external_task/02"}
  BY <1>1, UpPlan, MoveIsOrdered
<1>2. CASE name = "external_task/00"
  <2>1. \A s : s.op = "createTable" => IsOrdered(<<s>>)
    <3> TAKE s
    <3>1. ToSet(<<s>>) = {s}
      BY DEF ToSet
    <3>2. IsSequence(<<s>>)
      <4>1. DOMAIN <<s>> = 1..1 /\ <<s>> = [i \in 1..1 |-> <<s>>[i]]
        OBVIOUS
      <4> QED
        BY ONLY <4>1, Sequence DEF IsSequence
    <3> QED
      BY <3>1, <3>2, NoneRemoves DEF Removes
  <2>2. IsOrdered(<<>>)
    BY NoPlan, PlanIsOrdered
  <2> QED
    BY <1>2, <2>1, <2>2, TaskScripts
<1>3. CASE name = "external_task/02"
  <2>1. IsOrdered(CopyTasks)
    <3>1. \A s \in ToSet(CopyTasks) : ~Removes(s)
      <4>1. ToSet(CopyTasks) = {DropStale, CreateNew, SelectTasks, DropTasks, RenameNew}
        BY DEF CopyTasks, ToSet
      <4> QED
        BY <4>1, TaskStatements DEF Removes, TaskTables, Tasks
    <3>2. IsSequence(CopyTasks)
      <4>1. DOMAIN CopyTasks = 1..5 /\ CopyTasks = [i \in 1..5 |-> CopyTasks[i]]
        BY DEF CopyTasks
      <4> QED
        BY ONLY <4>1, Sequence DEF IsSequence
    <3> QED
      BY <3>1, <3>2, NoneRemoves
  <2>2. IsOrdered(<<>>) /\ IsOrdered(<<DescribeTable(Tasks)>>)
    BY NoPlan, DescribePlan, PlanIsOrdered
  <2> QED
    BY <1>3, <2>1, <2>2, OrderedJoined, TaskScripts
<1> QED
  BY <1>1, <1>2, <1>3

\* What a script does with the rows it has selected drops none of these tables.
LEMMA ContinuationOrdered ==
  ASSUME NEW db, NEW s, WellFormed(db), Succeeds(db, s) \/ s.op # "select"
  PROVE  IsOrdered(Continuation(db, s))
<1>1. CASE s.op = "select" /\ s.use = "copy tasks"
  <2>1. Continuation(db, s) = CopiesOf(db[s.table].rows)
    BY <1>1, ContinuationPlan
  <2>2. \A x \in ToSet(Continuation(db, s)) : ~Removes(x)
    BY <2>1 DEF CopiesOf, ToSet, InsertRow, Removes
  <2>3. IsSequence(Continuation(db, s))
    BY ContinuationPlan DEF IsRest
  <2> QED
    BY <2>2, <2>3, NoneRemoves
<1>2. CASE ~(s.op = "select" /\ s.use = "copy tasks")
  BY <1>2, ContinuationPlan, NoPlan, PlanIsOrdered
<1> QED
  BY <1>1, <1>2

\* What a statement that is waited for leaves.
LEMMA Executed ==
  ASSUME RunnerInv, TablesInv, ExecuteStatement
  PROVE  LET db == databases[Database]
             s == Head(todo)
         IN  /\ todo # <<>> /\ Allowed(s) /\ IsAwaited(s) /\ IsRest(Tail(todo))
             /\ WellFormed(db)
             /\ s.op # "setCell" => Succeeds(db, s)
             /\ todo' = Continuation(db, s) \o Tail(todo)
             /\ Databases' = Databases /\ Database' = Database /\ Database \in Databases
             /\ databases'[Database] = IF Succeeds(db, s) THEN After(db, s) ELSE db
             /\ \A d \in Databases \ {Database} : databases'[d] = databases[d]
<1> DEFINE db == databases[Database]
           s == Head(todo)
<1>1. /\ todo # <<>> /\ IsAwaited(s)
      /\ ~Succeeds(db, s) => IsCaught(s)
      /\ databases' = IF Succeeds(db, s)
                      THEN [databases EXCEPT ![Database] = After(db, s)] ELSE databases
      /\ todo' = Continuation(db, s) \o Tail(todo)
      /\ UNCHANGED <<meta, current>>
  BY DEF ExecuteStatement
<1>2. Allowed(s) /\ IsRest(Tail(todo))
  BY <1>1, RestTail DEF TablesInv
<1>3. Database \in Databases /\ DOMAIN databases = Databases /\ WellFormed(db)
  BY CurrentFacts DEF RunnerInv, TablesInv
<1>4. Databases' = Databases /\ Database' = Database
  BY <1>1 DEF Databases, Database, DatabaseOf, Repository
<1>5. IsCaught(s) => s.op = "setCell"
  BY <1>2 DEF Allowed
<1> HIDE DEF db, s
<1>6. databases'[Database] = IF Succeeds(db, s) THEN After(db, s) ELSE db
  BY <1>1, <1>3 DEF db
<1>7. \A d \in Databases \ {Database} : databases'[d] = databases[d]
  BY <1>1
<1> QED
  BY <1>1, <1>2, <1>3, <1>4, <1>5, <1>6, <1>7 DEF db, s

\* What a statement nobody waits for leaves when it takes effect.
LEMMA TakesEffect ==
  ASSUME RunnerInv, TablesInv, UnawaitedTakesEffect
  PROVE  LET db == databases[Database]
             s == Head(unawaited)
         IN  /\ unawaited # <<>> /\ Allowed(s)
             /\ s.op = "dropTable" /\ s.table = "external_tasks_new"
             /\ WellFormed(db)
             /\ Databases' = Databases /\ Database' = Database /\ Database \in Databases
             /\ databases'[Database] = IF Succeeds(db, s) THEN After(db, s) ELSE db
             /\ \A d \in Databases \ {Database} : databases'[d] = databases[d]
<1> DEFINE db == databases[Database]
           s == Head(unawaited)
<1>1. /\ unawaited # <<>>
      /\ databases' = IF Succeeds(db, s)
                      THEN [databases EXCEPT ![Database] = After(db, s)] ELSE databases
      /\ UNCHANGED <<meta, current>>
  BY DEF UnawaitedTakesEffect
<1>2. Allowed(s) /\ s = unawaited[1] /\ 1 \in DOMAIN unawaited
  <2>1. /\ Len(unawaited) \in Nat /\ Len(unawaited) > 0
        /\ DOMAIN unawaited = 1..Len(unawaited) /\ s = unawaited[1]
    BY <1>1, TailOf DEF TablesInv, IsRest
  <2>2. 1 \in DOMAIN unawaited
    BY ONLY <2>1
  <2> QED
    BY <1>1, <2>1, <2>2, RestTail DEF TablesInv
<1>3. s.op = "dropTable" /\ s.table = "external_tasks_new"
  <2>1. ~IsAwaited(s)
    BY <1>2 DEF TablesInv
  <2> QED
    BY <1>2, <2>1 DEF Allowed
<1>4. Database \in Databases /\ DOMAIN databases = Databases /\ WellFormed(db)
  BY CurrentFacts DEF RunnerInv, TablesInv
<1>5. Databases' = Databases /\ Database' = Database
  BY <1>1 DEF Databases, Database, DatabaseOf, Repository
<1> HIDE DEF db, s
<1>6. databases'[Database] = IF Succeeds(db, s) THEN After(db, s) ELSE db
  BY <1>1, <1>4 DEF db
<1>7. \A d \in Databases \ {Database} : databases'[d] = databases[d]
  BY <1>1
<1> QED
  BY <1>1, <1>2, <1>3, <1>4, <1>5, <1>6, <1>7 DEF db, s

\* The inductive invariant for the tables that every dialect keeps.
RowsInv == IsSafe(todo, databases[Database])

\* Every step keeps the invariant, and the rows of the tables it is about.
LEMMA RowsStep ==
  ASSUME RunnerInv, TablesInv, RowsInv, [Next]_vars
  PROVE  /\ RowsInv'
         /\ \A d \in Databases, t \in LiveTables \ {Tasks} :
              KeptRows(databases[d], t) = KeptRows(databases'[d], t)
<1> DEFINE Kept == \A d \in Databases, t \in LiveTables \ {Tasks} :
                     KeptRows(databases[d], t) = KeptRows(databases'[d], t)
<1>0. ASSUME NEW db PROVE IsSafe(<<>>, db)
  BY DEF IsSafe
<1>1. CASE todo' = <<>> /\ UNCHANGED databases
  BY <1>0, <1>1 DEF RowsInv
<1>2. CASE StartRuntime \/ LogMigration \/ FinishRepository \/ Stop
  <2>1. UNCHANGED databases
    BY <1>2 DEF StartRuntime, LogMigration, FinishRepository, Stop, store
  <2>2. todo' = <<>>
    BY <1>2
    DEF StartRuntime, LogMigration, FinishRepository, Stop, RunnerInv,
        TodoBelongsToScript, RunningScriptIsNext
  <2> QED
    BY <1>1, <2>1, <2>2
<1>3. CASE BeginScript
  <2>1. PICK i \in DOMAIN Scripts : todo' = Up(Scripts[i], databases[Database])
    BY <1>3 DEF BeginScript
  <2>2. UNCHANGED databases
    BY <1>3 DEF BeginScript, store
  <2>3. IsOrdered(todo')
    BY <2>1, CurrentFacts, UpOrdered DEF RunnerInv
  <2> QED
    BY <2>2, <2>3, OrderedIsSafe DEF RowsInv
<1>4. CASE SendUnawaited
  <2>1. /\ todo # <<>> /\ ~IsAwaited(Head(todo)) /\ todo' = Tail(todo)
        /\ UNCHANGED <<databases, meta, current>>
    BY <1>4 DEF SendUnawaited, store
  <2>2. IsRest(todo) /\ Head(todo).op # "copyRows"
    BY <2>1, RestTail DEF TablesInv, Allowed
  <2>3. IsOrdered(todo')
    BY <2>1, <2>2, SafeTail DEF RowsInv
  <2> QED
    BY <2>1, <2>3, OrderedIsSafe DEF RowsInv
<1>5. CASE ExecuteStatement
  <2> DEFINE db == databases[Database]
             s == Head(todo)
             after == databases'[Database]
  <2>1. /\ todo # <<>> /\ Allowed(s) /\ IsAwaited(s) /\ IsRest(Tail(todo))
        /\ WellFormed(db)
        /\ s.op # "setCell" => Succeeds(db, s)
        /\ todo' = Continuation(db, s) \o Tail(todo)
        /\ Databases' = Databases /\ Database' = Database /\ Database \in Databases
        /\ after = IF Succeeds(db, s) THEN After(db, s) ELSE db
        /\ \A d \in Databases \ {Database} : databases'[d] = databases[d]
    BY <1>5, Executed
  <2>2. IsRest(todo) /\ IsSafe(todo, db)
    BY DEF TablesInv, RowsInv
  <2>3. s.op = "copyRows" => HasCopy(after, s.table)
    <3> SUFFICES ASSUME s.op = "copyRows" PROVE HasCopy(after, s.table)
      OBVIOUS
    <3>1. PICK u \in Rebuilt : s.table = u /\ s.to = TemporaryOf[u]
      BY <2>1 DEF Allowed
    <3> HIDE DEF s, db, after
    <3>2. Succeeds(db, s) /\ after = After(db, s)
      BY <2>1
    <3>3. /\ KeptIn(after, u, u) = KeptIn(db, u, u)
          /\ KeptIn(after, u, TemporaryOf[u])
               = KeptIn(db, u, TemporaryOf[u]) \union KeptIn(db, u, u)
      <4>1. u \in LiveTables /\ u \in PlacesOf(u) /\ TemporaryOf[u] \in PlacesOf(u)
            /\ u # TemporaryOf[u]
        BY PlaceNames DEF PlacesOf, Rebuilt
      <4> QED
        BY <2>1, <3>1, <3>2, <4>1, KeptBy
    <3> QED
      BY <3>1, <3>3 DEF HasCopy
  <2>4. RowsInv'
    <3>1. IsSafe(Tail(todo), after) /\ (s.op # "copyRows" => IsOrdered(Tail(todo)))
      BY <2>1, <2>2, <2>3, SafeTail
    <3>2. CASE s.op # "select"
      <4>1. todo' = Tail(todo)
        BY <2>1, <3>2, ContinuationPlan, NothingBefore DEF IsRest
      <4> QED
        BY <2>1, <3>1, <4>1 DEF RowsInv
    <3>3. CASE s.op = "select"
      <4>1. IsOrdered(Continuation(db, s)) /\ IsOrdered(Tail(todo))
        BY <2>1, <3>1, <3>3, ContinuationOrdered
      <4>2. IsOrdered(todo')
        BY <2>1, <4>1, OrderedJoined
      <4> QED
        BY <4>2, OrderedIsSafe DEF RowsInv
    <3> QED
      BY <3>2, <3>3
  <2>5. Kept
    <3> SUFFICES ASSUME NEW t \in LiveTables \ {Tasks}
                 PROVE  KeptRows(db, t) = KeptRows(after, t)
      BY <2>1
    <3>1. Harmless(db, s, t)
      <4>0. PlacesOf(t) \intersect TaskTables = {} /\ "external_tasks_new" \in TaskTables
        BY PlaceNames DEF TaskTables, Tasks
      <4>1. s.op = "insertRow" => s.table \notin PlacesOf(t)
        BY <2>1, <4>0 DEF Allowed
      <4>2. ASSUME s.op = "dropTable", s.table \in PlacesOf(t)
            PROVE  \E y \in PlacesOf(t) \ {s.table} :
                     KeptIn(db, t, s.table) \subseteq KeptIn(db, t, y)
        <5>1. /\ 1 \in DOMAIN todo /\ s = todo[1]
          <6>1. /\ Len(todo) \in Nat /\ Len(todo) > 0
                /\ DOMAIN todo = 1..Len(todo) /\ s = todo[1]
            BY <2>1, <2>2, TailOf DEF IsRest
          <6> QED
            BY ONLY <6>1
        <5>2. Removes(s)
          BY <4>0, <4>2 DEF Removes
        <5>3. HasCopy(db, s.table)
          BY <2>2, <5>1, <5>2 DEF IsSafe, Drops
        <5>4. s.table \in Rebuilt
          BY <2>1, <4>2 DEF Allowed
        <5>5. s.table = t /\ TemporaryOf[t] # t
          BY <4>2, <5>4, PlaceNames DEF PlacesOf
        <5>6. TemporaryOf[t] \in PlacesOf(t) \ {s.table}
          BY <5>5 DEF PlacesOf
        <5> QED
          BY <5>3, <5>5, <5>6 DEF HasCopy
      <4> QED
        BY <4>1, <4>2 DEF Harmless
    <3> HIDE DEF s, db, after
    <3> QED
      BY <2>1, <3>1, KeptRowsBy
  <2> QED
    BY <2>4, <2>5
<1>6. CASE StatementFails
  <2>1. UNCHANGED <<databases, meta, current, todo>>
    BY <1>6 DEF StatementFails, store
  <2> QED
    BY <2>1 DEF RowsInv, Database, Repository, DatabaseOf, Databases
<1>7. CASE UnawaitedTakesEffect
  <2> DEFINE db == databases[Database]
             s == Head(unawaited)
             after == databases'[Database]
  <2>1. /\ Allowed(s) /\ s.op = "dropTable" /\ s.table = "external_tasks_new"
        /\ WellFormed(db)
        /\ Databases' = Databases /\ Database' = Database /\ Database \in Databases
        /\ after = IF Succeeds(db, s) THEN After(db, s) ELSE db
        /\ \A d \in Databases \ {Database} : databases'[d] = databases[d]
    BY <1>7, TakesEffect
  <2>2. todo' = todo
    BY <1>7 DEF UnawaitedTakesEffect
  <2> HIDE DEF s
  <2>3. ASSUME NEW t \in LiveTables \ {Tasks}
        PROVE  s.table \notin PlacesOf(t)
    BY <2>1, PlaceNames DEF TaskTables, Tasks
  <2>4. RowsInv'
    <3>1. ASSUME NEW i \in DOMAIN todo, Removes(todo[i])
          PROVE  Drops(todo, i) \/ (i = 1 /\ HasCopy(after, todo[1].table))
      <4> DEFINE t == todo[1].table
      <4>1. CASE Drops(todo, i)
        BY <4>1
      <4>2. CASE i = 1 /\ HasCopy(db, t)
        <5>1. t \in LiveTables \ {Tasks}
          <6>1. Allowed(todo[1])
            BY <4>2 DEF TablesInv, IsRest, ToSet
          <6> QED
            BY <3>1, <4>2, <6>1 DEF Removes, Allowed, Rebuilt, TaskTables, Tasks
        <5> HIDE DEF db, after, t
        <5>2. /\ t \in PlacesOf(t) /\ TemporaryOf[t] \in PlacesOf(t)
              /\ s.table \notin PlacesOf(t)
          BY <2>3, <5>1 DEF PlacesOf
        <5>3. /\ KeptIn(after, t, t) = KeptIn(db, t, t)
              /\ KeptIn(after, t, TemporaryOf[t]) = KeptIn(db, t, TemporaryOf[t])
          BY <2>1, <5>1, <5>2, KeptBy
        <5> QED
          BY <4>2, <5>3 DEF HasCopy, t
      <4> QED
        BY <3>1, <4>1, <4>2 DEF RowsInv, IsSafe
    <3> QED
      BY <2>1, <2>2, <3>1 DEF RowsInv, IsSafe
  <2>5. Kept
    <3> SUFFICES ASSUME NEW t \in LiveTables \ {Tasks}
                 PROVE  KeptRows(db, t) = KeptRows(after, t)
      BY <2>1
    <3>1. Harmless(db, s, t)
      BY <2>1, <2>3 DEF Harmless
    <3> HIDE DEF db, after
    <3> QED
      BY <2>1, <3>1, KeptRowsBy
  <2> QED
    BY <2>4, <2>5
<1>8. CASE UNCHANGED vars
  BY <1>8 DEF vars, RowsInv, Database, Repository, DatabaseOf, Databases
<1> QED
  BY <1>2, <1>3, <1>4, <1>5, <1>6, <1>7, <1>8 DEF Next, Progress

\* Before the first start there is nothing left of a script.
LEMMA RowsInit == Init => RowsInv
BY DEF Init, RowsInv, IsSafe

\* A table is never dropped unless its rows have just been copied: what is left of
\* a running script says so at each of its statements, whatever the dialect and
\* however often the process ended (correlation/03, flow_node_instance/02,
\* process_model/02).
THEOREM RowsInvariant == Spec => []RowsInv
<1>1. /\ RunnerInv /\ RunnerInv' /\ TablesInv /\ TablesInv' /\ RowsInv /\ [Next]_vars
         => RowsInv'
  BY RowsStep
<1> QED
  BY <1>1, RowsInit, RunnerInvariant, TablesInvariant, PTL DEF Spec

\* Whatever the dialect, and at whatever statement a start ends, the rows of
\* every table but that of the external tasks keep the values that no script
\* computes anew, in the table or in the one that is about to replace it
\* (correlation/03, flow_node_instance/02, process_model/02).
THEOREM OtherRowsKept ==
  Spec => [][\A d \in Databases, t \in LiveTables \ {Tasks} :
               KeptRows(databases[d], t) = KeptRows(databases'[d], t)]_vars
<1>1. RunnerInv /\ TablesInv /\ RowsInv /\ [Next]_vars =>
        [\A d \in Databases, t \in LiveTables \ {Tasks} :
           KeptRows(databases[d], t) = KeptRows(databases'[d], t)]_vars
  BY RowsStep
<1> QED
  BY <1>1, RunnerInvariant, TablesInvariant, RowsInvariant, PTL DEF Spec

-----------------------------------------------------------------------------
(* The external tasks.                                                     *)

New == "external_tasks_new"

\* What is kept of a task that can be copied.
IsTask(kept) ==
  /\ DOMAIN kept[2] = KeptColumns[Tasks]
  /\ \A c \in KeptColumns[Tasks] : kept[2][c] # Null

\* What is kept of a row tells whether it can be copied.
LEMMA TaskRows == ASSUME NEW row PROVE IsTask(KeptRow(row, Tasks)) <=> Copyable(row)
<1> HIDE DEF Null
<1> QED
  BY DEF IsTask, KeptRow, Copyable, Tasks

\* What is kept of the rows decides whether the tables of the tasks fit.
LEMMA TasksFitBy ==
  ASSUME NEW db
  PROVE  TasksFit(db) <=>
           /\ \A kept \in KeptIn(db, Tasks, Tasks) \union KeptIn(db, Tasks, New) : IsTask(kept)
           /\ Exists(db, Tasks) => KeptIn(db, Tasks, New) \subseteq KeptIn(db, Tasks, Tasks)
<1>1. \A x : (\A row \in ToSet(RowsOf(db, x)) : Copyable(row)) <=>
               \A kept \in KeptIn(db, Tasks, x) : IsTask(kept)
  BY TaskRows DEF KeptIn
<1> QED
  BY <1>1 DEF TasksFit, Tasks, New

\* Which tables are there after a statement.
LEMMA ExistsBy ==
  ASSUME NEW db, NEW s, Allowed(s), Succeeds(db, s), NEW y
  PROVE  Exists(After(db, s), y) <=>
           IF s.op = "createTable" THEN Exists(db, y) \/ y = s.table
           ELSE IF s.op = "dropTable" THEN Exists(db, y) /\ y # s.table
           ELSE IF s.op = "renameTable"
                THEN y = s.to \/ (Exists(db, y) /\ y # s.table)
           ELSE Exists(db, y)
<1> DEFINE after == After(db, s)
<1>1. CASE s.op \in {"describeTable", "select"}
  BY <1>1, AfterBy
<1>2. CASE s.op = "createTable"
  <2> DEFINE new == [columns |-> s.columns, unique |-> s.unique, indexes |-> {},
                     rows |-> <<>>]
  <2>1. after = IF Exists(db, s.table) THEN db ELSE With(db, s.table, new)
    BY <1>2, AfterBy
  <2> HIDE DEF new
  <2> QED
    BY <1>2, <2>1 DEF With, Exists
<1>3. CASE s.op = "dropTable"
  <2>1. after = Without(db, s.table)
    BY <1>3, AfterBy
  <2> QED
    BY <1>3, <2>1 DEF Without, Exists
<1>4. CASE s.op = "renameTable"
  <2>1. after = With(Without(db, s.table), s.to, db[s.table])
    BY <1>4, AfterBy
  <2> QED
    BY <1>4, <2>1 DEF With, Without, Exists
<1>5. CASE s.op = "copyRows"
  <2> DEFINE brought == [i \in DOMAIN db[s.table].rows |->
                           [c \in s.columns |-> db[s.table].rows[i][c]]]
  <2>1. after = [db EXCEPT ![s.to].rows = @ \o brought]
    BY <1>5, AfterBy
  <2> HIDE DEF brought
  <2> QED
    BY <1>5, <2>1 DEF Exists
<1>6. CASE s.op \in ChangesTable
  <2>1. after = [db EXCEPT ![s.table] = Changed(db, s)]
    BY <1>6, AfterBy
  <2> QED
    BY <1>6, <2>1 DEF Exists, ChangesTable
<1> QED
  BY <1>1, <1>2, <1>3, <1>4, <1>5, <1>6 DEF Allowed, Operations

\* A statement that has nothing to do with the copy of the tasks.
Ordinary(s) ==
  /\ Allowed(s)
  /\ s.op \in {"createTable", "dropTable", "renameTable", "copyRows", "insertRow"} =>
       s.table \notin TaskTables
  /\ s.op = "select" => s.use # "copy tasks"

\* The other scripts leave the tasks alone.
LEMMA MoveIsOrdinary ==
  ASSUME NEW p, NEW tables, IsMove(p, tables)
  PROVE  IsSequence(p) /\ \A s \in ToSet(p) : Ordinary(s)
BY DEF IsMove, Fits, Drops, CopiesOnce, Renames, Ordinary, ToSet

\* So do what they compute from the rows they select.
LEMMA PlanIsOrdinary ==
  ASSUME NEW p, IsPlan(p) PROVE IsSequence(p) /\ \A s \in ToSet(p) : Ordinary(s)
BY PlanIsMove, MoveIsOrdinary

\* The tasks are in their table or in the temporary one.
LEMMA TaskPlaces ==
  /\ PlacesOf(Tasks) = TaskTables /\ TaskTables = {Tasks, New} /\ Tasks # New
  /\ Tasks \in LiveTables /\ Tasks \in Rebuilt /\ TemporaryOf[Tasks] = New
BY PlaceNames DEF PlacesOf, TaskTables, Tasks, New, LiveTables

\* An ordinary statement keeps the tasks and both of their tables.
LEMMA OrdinaryKeeps ==
  ASSUME NEW db, NEW s, WellFormed(db), Ordinary(s), Succeeds(db, s), TasksFit(db)
  PROVE  /\ TasksFit(After(db, s))
         /\ \A x \in TaskTables : Exists(After(db, s), x) <=> Exists(db, x)
         /\ KeptRows(After(db, s), Tasks) = KeptRows(db, Tasks)
<1>0. Allowed(s)
  BY DEF Ordinary
<1>1. s.op \in {"renameTable", "copyRows"} => s.to \notin TaskTables
  <2>1. ASSUME s.op = "renameTable" PROVE s.to \notin TaskTables
    <3>1. PICK u \in Rebuilt : s.table = TemporaryOf[u] /\ s.to = u
      BY <1>0, <2>1 DEF Allowed
    <3> QED
      BY <2>1, <3>1, TaskPlaces, PlaceNames DEF Ordinary
  <2>2. ASSUME s.op = "copyRows" PROVE s.to \notin TaskTables
    <3>1. PICK u \in Rebuilt : s.table = u /\ s.to = TemporaryOf[u]
      BY <1>0, <2>2 DEF Allowed
    <3> QED
      BY <2>2, <3>1, TaskPlaces, PlaceNames DEF Ordinary
  <2> QED
    BY <2>1, <2>2
<1>2. \A x \in TaskTables : KeptIn(After(db, s), Tasks, x) = KeptIn(db, Tasks, x)
  <2> TAKE x \in TaskTables
  <2>1. x \in PlacesOf(Tasks) /\ Tasks \in LiveTables
    BY TaskPlaces
  <2>2. s.op \in {"dropTable", "renameTable", "insertRow"} => x # s.table
    BY DEF Ordinary
  <2> QED
    BY <1>0, <1>1, <2>1, <2>2, KeptBy
<1>3. \A x \in TaskTables : Exists(After(db, s), x) <=> Exists(db, x)
  BY <1>0, <1>1, ExistsBy DEF Ordinary
<1>4. TasksFit(After(db, s))
  BY <1>2, <1>3, TasksFitBy, TaskPlaces
<1>5. KeptRows(After(db, s), Tasks) = KeptRows(db, Tasks)
  BY <1>2, TaskPlaces DEF KeptRows
<1> QED
  BY <1>3, <1>4, <1>5

\* What the statements of external_task/00 and external_task/02 do to the tasks.
LEMMA TasksBy ==
  ASSUME NEW db, NEW s, WellFormed(db), Allowed(s), Succeeds(db, s), TasksFit(db),
         NEW after, after = After(db, s)
  PROVE  /\ s.op = "createTable" /\ s.table = Tasks /\ ~Exists(db, New) =>
              TasksFit(after) /\ ~Exists(after, New)
         /\ s.op = "createTable" /\ s.table = New => TasksFit(after)
         /\ s.op = "insertRow" /\ KeptRow(s.row, Tasks) \in KeptIn(db, Tasks, Tasks) =>
              /\ TasksFit(after)
              /\ KeptIn(after, Tasks, Tasks) = KeptIn(db, Tasks, Tasks)
              /\ KeptIn(after, Tasks, New)
                   = KeptIn(db, Tasks, New) \union {KeptRow(s.row, Tasks)}
              /\ Exists(after, New) <=> Exists(db, New)
         /\ s.op = "dropTable" /\ s.table = Tasks =>
              /\ TasksFit(after)
              /\ Exists(after, New) <=> Exists(db, New)
         /\ s.op = "renameTable" /\ s.table = New =>
              TasksFit(after) /\ ~Exists(after, New)
         /\ s.op = "dropTable" /\ s.table = New /\ Exists(db, Tasks) =>
              TasksFit(after) /\ ~Exists(after, New) /\ Exists(after, Tasks)
<1> DEFINE old == KeptIn(db, Tasks, Tasks)
           new == KeptIn(db, Tasks, New)
<1>0. /\ \A kept \in old \union new : IsTask(kept)
      /\ Exists(db, Tasks) => new \subseteq old
      /\ TasksFit(after) <=>
           /\ \A kept \in KeptIn(after, Tasks, Tasks) \union KeptIn(after, Tasks, New) :
                IsTask(kept)
           /\ Exists(after, Tasks) =>
                KeptIn(after, Tasks, New) \subseteq KeptIn(after, Tasks, Tasks)
      /\ ~Exists(db, New) => new = {}
  BY TasksFitBy, KeptWhere DEF Exists
<1>1. ASSUME s.op = "createTable"
      PROVE  /\ KeptIn(after, Tasks, Tasks) = old /\ KeptIn(after, Tasks, New) = new
             /\ Exists(after, Tasks) <=> Exists(db, Tasks) \/ s.table = Tasks
             /\ Exists(after, New) <=> Exists(db, New) \/ s.table = New
  BY <1>1, KeptBy, ExistsBy, TaskPlaces
<1>2. ASSUME s.op = "insertRow"
      PROVE  /\ KeptIn(after, Tasks, Tasks) = old
             /\ KeptIn(after, Tasks, New) = new \union {KeptRow(s.row, Tasks)}
             /\ Exists(after, Tasks) <=> Exists(db, Tasks)
             /\ Exists(after, New) <=> Exists(db, New)
  <2>1. s.table = New
    BY <1>2 DEF Allowed, New
  <2> QED
    BY <1>2, <2>1, KeptBy, ExistsBy, TaskPlaces
<1>3. ASSUME s.op = "dropTable", s.table \in TaskTables
      PROVE  /\ KeptIn(after, Tasks, Tasks) = IF s.table = Tasks THEN {} ELSE old
             /\ KeptIn(after, Tasks, New) = IF s.table = New THEN {} ELSE new
             /\ Exists(after, Tasks) <=> Exists(db, Tasks) /\ s.table # Tasks
             /\ Exists(after, New) <=> Exists(db, New) /\ s.table # New
  BY <1>3, KeptBy, ExistsBy, TaskPlaces
<1>4. ASSUME s.op = "renameTable", s.table = New
      PROVE  /\ KeptIn(after, Tasks, Tasks) = new /\ KeptIn(after, Tasks, New) = {}
             /\ ~Exists(after, New)
  <2>1. s.to = Tasks
    BY <1>4, TaskPlaces, Names DEF Allowed
  <2> QED
    BY <1>4, <2>1, KeptBy, ExistsBy, TaskPlaces
<1> HIDE DEF old, new
<1>5. s.op = "createTable" /\ s.table = Tasks /\ ~Exists(db, New) =>
        TasksFit(after) /\ ~Exists(after, New)
  BY <1>0, <1>1, TaskPlaces
<1>6. s.op = "createTable" /\ s.table = New => TasksFit(after)
  BY <1>0, <1>1, TaskPlaces
<1>7. s.op = "insertRow" /\ KeptRow(s.row, Tasks) \in old => TasksFit(after)
  BY <1>0, <1>2
<1>8. s.op = "dropTable" /\ s.table = Tasks =>
        TasksFit(after) /\ (Exists(after, New) <=> Exists(db, New))
  BY <1>0, <1>3, TaskPlaces
<1>9. s.op = "renameTable" /\ s.table = New => TasksFit(after) /\ ~Exists(after, New)
  BY <1>0, <1>4
<1>10. s.op = "dropTable" /\ s.table = New /\ Exists(db, Tasks) =>
         TasksFit(after) /\ ~Exists(after, New) /\ Exists(after, Tasks)
  BY <1>0, <1>3, TaskPlaces
<1> QED
  BY <1>2, <1>5, <1>6, <1>7, <1>8, <1>9, <1>10 DEF old, new

\* The rows that external_task/02 is about to insert are those of the table it
\* copies, and all of them but the ones inserted already.
AreCopies(copies, db) ==
  /\ IsRest(copies)
  /\ \A s \in ToSet(copies) :
       /\ s.op = "insertRow"
       /\ KeptRow(s.row, Tasks) \in KeptIn(db, Tasks, Tasks)
  /\ KeptIn(db, Tasks, Tasks)
       \subseteq KeptIn(db, Tasks, New) \union {KeptRow(s.row, Tasks) : s \in ToSet(copies)}

Dropping == <<DropTasks, RenameNew>>

\* What is left of external_task/02 at each of its statements.  The drop it does
\* not wait for takes effect before it creates the table.
CopyPhase(db) ==
  \/ unawaited = <<>> /\ todo = <<DescribeTable(Tasks)>> \o CopyTasks
  \/ unawaited = <<>> /\ todo = CopyTasks /\ Exists(db, Tasks)
  \/ /\ todo = <<CreateNew, SelectTasks, DropTasks, RenameNew>>
     /\ unawaited # <<>> => Exists(db, Tasks)
  \/ unawaited = <<>> /\ todo = <<SelectTasks, DropTasks, RenameNew>>
  \/ unawaited = <<>> /\ \E copies : AreCopies(copies, db) /\ todo = copies \o Dropping
  \/ unawaited = <<>> /\ todo = <<RenameNew>>

TodoFits ==
  \/ unawaited = <<>> /\ \A s \in ToSet(todo) : Ordinary(s)
  \/ /\ unawaited = <<>> /\ script = "external_task/00"
     /\ \E s : s.op = "createTable" /\ s.table = Tasks /\ todo = <<s>>
  \/ script = "external_task/02" /\ CopyPhase(databases[Database])

TaskTablesFit ==
  \A d \in Databases :
    TasksFit(databases[d]) /\ (Exists(databases[d], New) => Logged("external_task", 1))

TasksInv == TaskTablesFit /\ TodoFits

\* A start finds the tables of the tasks as they should be.
LEMMA TasksInit == Init => TasksInv
<1> SUFFICES ASSUME Init PROVE TasksInv
  OBVIOUS
<1>1. PICK s \in InitialStores : databases = s.databases /\ meta = s.meta
  BY DEF Init
<1>2. DOMAIN databases = Databases
  BY <1>1, InitialTablesAssumption DEF Databases
<1>3. TaskTablesFit
  BY <1>1, <1>2, InitialTasksAssumption
  DEF TaskTablesFit, Databases, Logged, DatabaseOf, New
<1>4. TodoFits
  BY DEF Init, TodoFits, ToSet
<1> QED
  BY <1>3, <1>4 DEF TasksInv

\* The script that external_task/02 and external_task/00 run for.
LEMMA TaskScriptRuns ==
  ASSUME RunnerInv
  PROVE  /\ script = "external_task/02" => Logged("external_task", 1)
         /\ script = "external_task/00" => ~Logged("external_task", 1)
<1>1. /\ ScriptsOf["external_task"][1] = "external_task/00"
      /\ ScriptsOf["external_task"][3] = "external_task/02"
      /\ 1 \in DOMAIN ScriptsOf["external_task"] /\ 3 \in DOMAIN ScriptsOf["external_task"]
      /\ "external_task" \in Repositories
  BY DEF ScriptsOf, Repositories
<1>2. "external_task/00" # NoScript /\ "external_task/02" # NoScript
  BY DEF NoScript
<1>3. ASSUME script \in {"external_task/00", "external_task/02"}
      PROVE  /\ script = "external_task/02" => Logged("external_task", 1)
             /\ script = "external_task/00" => ~Logged("external_task", 1)
  <2>1. PICK i \in DOMAIN Scripts :
          /\ script = Scripts[i] /\ ~Logged(Repository, i)
          /\ \A j \in 1..(i - 1) : Logged(Repository, j)
    BY <1>2, <1>3 DEF RunnerInv, RunningScriptIsNext
  <2>2. Repository \in Repositories
    BY CurrentFacts DEF RunnerInv
  <2>3. /\ script = "external_task/00" => Repository = "external_task" /\ i = 1
        /\ script = "external_task/02" => Repository = "external_task" /\ i = 3
    BY <1>1, <2>1, <2>2, ScriptNamesUnique DEF Scripts
  <2> QED
    BY <1>3, <2>1, <2>3
<1> QED
  BY <1>3

\* What external_task/02 makes of the rows it has selected.
LEMMA CopiesOfTasks ==
  ASSUME NEW db, WellFormed(db), TasksFit(db), Exists(db, Tasks)
  PROVE  AreCopies(CopiesOf(db[Tasks].rows), db)
<1> DEFINE rows == db[Tasks].rows
           copies == CopiesOf(rows)
<1>1. IsRest(copies)
  <2>1. IsTable(db[Tasks])
    BY DEF WellFormed, IsDatabase, Exists
  <2>2. rows \in Seq(ToSet(rows))
    BY <2>1, TableOf
  <2> HIDE DEF rows
  <2>3. Len(rows) \in Nat /\ DOMAIN rows = 1..Len(rows)
    BY <2>2
  <2> QED
    BY <2>3, CopiesAreRest
<1>2. KeptIn(db, Tasks, Tasks) = {KeptRow(row, Tasks) : row \in ToSet(rows)}
  BY DEF KeptIn, RowsOf
<1>3. ASSUME NEW row, Copyable(row) PROVE KeptRow(CopiedTask(row), Tasks) = KeptRow(row, Tasks)
  <2>1. DOMAIN CopiedTask(row) = DOMAIN MigratedTaskColumns
    BY Zenon DEF CopiedTask
  <2>2. /\ KeptColumns[Tasks] \subseteq DOMAIN MigratedTaskColumns
        /\ "externalTaskId" \notin KeptColumns[Tasks] /\ "createdAt" \in KeptColumns[Tasks]
    BY KeptFacts DEF MigratedTaskColumns, Typed, Timestamps, Tasks
  <2>3. \A c \in KeptColumns[Tasks] : c \in DOMAIN row /\ row[c] # Null
    BY <1>3 DEF Copyable, Tasks
  <2>4. ASSUME NEW c \in KeptColumns[Tasks] PROVE CopiedTask(row)[c] = row[c]
    <3>1. CopiedTask(row)[c] = Interpolated(row, c)
      BY <2>2 DEF CopiedTask
    <3> QED
      BY <2>3, <3>1 DEF Interpolated
  <2> QED
    BY <2>1, <2>2, <2>3, <2>4, SameKept
<1>4. \A row \in ToSet(rows) : Copyable(row)
  BY DEF TasksFit, RowsOf, Tasks
<1>5. ToSet(copies) = {InsertRow(New, CopiedTask(row)) : row \in ToSet(rows)}
  BY DEF CopiesOf, ToSet, New
<1>6. \A row : InsertRow(New, row).op = "insertRow" /\ InsertRow(New, row).row = row
  BY DEF InsertRow
<1> HIDE DEF rows, copies
<1>7. \A s \in ToSet(copies) :
        s.op = "insertRow" /\ KeptRow(s.row, Tasks) \in KeptIn(db, Tasks, Tasks)
  BY <1>2, <1>3, <1>4, <1>5, <1>6
<1>8. KeptIn(db, Tasks, Tasks) \subseteq {KeptRow(s.row, Tasks) : s \in ToSet(copies)}
  <2> SUFFICES ASSUME NEW row \in ToSet(rows)
               PROVE  \E s \in ToSet(copies) : KeptRow(row, Tasks) = KeptRow(s.row, Tasks)
    BY <1>2
  <2>1. InsertRow(New, CopiedTask(row)) \in ToSet(copies)
    BY <1>5
  <2> QED
    BY <1>3, <1>4, <1>6, <2>1
<1> QED
  BY <1>1, <1>7, <1>8 DEF AreCopies, copies, rows

\* The first of the statements that insert the copies and drop the table.
LEMMA CopyingHead ==
  ASSUME NEW copies, NEW db, AreCopies(copies, db), NEW p, p = copies \o Dropping
  PROVE  \/ copies = <<>> /\ Head(p) = DropTasks /\ Tail(p) = <<RenameNew>>
         \/ /\ copies # <<>> /\ Head(p) = Head(copies) /\ Head(copies) \in ToSet(copies)
            /\ Tail(p) = Tail(copies) \o Dropping
<1>1. IsSequence(Dropping)
  <2>1. DOMAIN Dropping = 1..2 /\ Dropping = [i \in 1..2 |-> Dropping[i]]
    BY DEF Dropping
  <2> QED
    BY ONLY <2>1, Sequence DEF IsSequence
<1>2. IsSequence(copies)
  BY DEF AreCopies, IsRest
<1>3. CASE copies = <<>>
  <2>1. p = Dropping
    BY <1>1, <1>3, NothingBefore
  <2>2. Head(Dropping) = DropTasks /\ Tail(Dropping) = <<RenameNew>>
    BY DEF Dropping
  <2> QED
    BY <1>3, <2>1, <2>2
<1>4. CASE copies # <<>>
  <2>1. Head(copies) \in ToSet(copies)
    <3>1. /\ Len(copies) \in Nat /\ Len(copies) > 0 /\ DOMAIN copies = 1..Len(copies)
          /\ Head(copies) = copies[1]
      BY <1>2, <1>4, TailOf
    <3>2. 1 \in DOMAIN copies
      BY ONLY <3>1
    <3> QED
      BY <3>1, <3>2 DEF ToSet
  <2> QED
    BY <1>1, <1>2, <1>4, <2>1, SomeBefore
<1> QED
  BY <1>3, <1>4

\* Neither the log nor the layout of the databases ever shrinks.
LEMMA LogStays ==
  ASSUME RunnerInv, [Next]_vars
  PROVE  Databases' = Databases /\ (Logged("external_task", 1) => Logged("external_task", 1)')
<1>1. CASE UNCHANGED meta
  BY <1>1 DEF Databases, Logged, DatabaseOf
<1>2. CASE LogMigration
  <2>1. meta' = [meta EXCEPT ![Database] = @ \union {script}]
    BY <1>2 DEF LogMigration
  <2> QED
    BY <2>1 DEF Databases, Logged, DatabaseOf
<1> QED
  BY <1>1, <1>2
  DEF Next, Progress, vars, store, StartRuntime, BeginScript, SendUnawaited,
      ExecuteStatement, StatementFails, UnawaitedTakesEffect, FinishRepository, Stop

\* On SQLite a statement that succeeds is one of these, and leaves what comes
\* next as it should be.
LEMMA PhaseExecuted ==
  ASSUME NEW db, NEW s, NEW p, NEW rest, NEW after,
         WellFormed(db), TasksFit(db), Allowed(s), Succeeds(db, s), after = After(db, s),
         p # <<>>, s = Head(p), rest = Continuation(db, s) \o Tail(p), IsRest(Tail(p)),
         \/ p = <<DescribeTable(Tasks)>> \o CopyTasks
         \/ p = <<CreateNew, SelectTasks, DropTasks, RenameNew>>
         \/ p = <<SelectTasks, DropTasks, RenameNew>>
         \/ \E copies : AreCopies(copies, db) /\ p = copies \o Dropping
         \/ p = <<RenameNew>>
  PROVE  /\ \/ rest = CopyTasks /\ Exists(after, Tasks)
            \/ rest = <<SelectTasks, DropTasks, RenameNew>>
            \/ \E copies : AreCopies(copies, after) /\ rest = copies \o Dropping
            \/ rest = <<RenameNew>>
            \/ rest = <<>>
         /\ TasksFit(after)
         /\ KeptRows(after, Tasks) = KeptRows(db, Tasks)
<1>0. s.op # "select" => rest = Tail(p)
  BY ContinuationPlan, NothingBefore DEF IsRest
<1>1. CASE p = <<DescribeTable(Tasks)>> \o CopyTasks
  <2>1. IsSequence(CopyTasks)
    <3>1. DOMAIN CopyTasks = 1..5 /\ CopyTasks = [i \in 1..5 |-> CopyTasks[i]]
      BY DEF CopyTasks
    <3> QED
      BY ONLY <3>1, Sequence DEF IsSequence
  <2>2. s = DescribeTable(Tasks) /\ Tail(p) = CopyTasks
    BY <1>1, <2>1, OneBefore
  <2>3. s.op = "describeTable" /\ s.table = Tasks
    BY <2>2 DEF DescribeTable
  <2>4. after = db /\ Exists(db, Tasks)
    BY <2>3, AfterBy DEF Succeeds
  <2> QED
    BY <1>0, <2>2, <2>3, <2>4
<1>2. CASE p = <<CreateNew, SelectTasks, DropTasks, RenameNew>>
  <2>1. s = CreateNew /\ Tail(p) = <<SelectTasks, DropTasks, RenameNew>>
    BY <1>2
  <2>2. s.op = "createTable" /\ s.table = New
    BY <2>1, TaskStatements DEF New
  <2>3. TasksFit(after)
    BY <2>2, TasksBy
  <2>4. Harmless(db, s, Tasks)
    BY <2>2 DEF Harmless
  <2>5. KeptRows(after, Tasks) = KeptRows(db, Tasks)
    BY <2>4, KeptRowsBy, TaskPlaces
  <2> QED
    BY <1>0, <2>1, <2>2, <2>3, <2>5
<1>3. CASE p = <<SelectTasks, DropTasks, RenameNew>>
  <2>1. s = SelectTasks /\ Tail(p) = Dropping
    BY <1>3 DEF Dropping
  <2>2. s.op = "select" /\ s.table = Tasks /\ s.use = "copy tasks"
    BY <2>1, TaskStatements
  <2>3. after = db /\ Exists(db, Tasks)
    BY <2>2, AfterBy DEF Succeeds
  <2>4. Continuation(db, s) = CopiesOf(db[Tasks].rows)
    BY <2>2, ContinuationPlan
  <2>5. AreCopies(CopiesOf(db[Tasks].rows), after)
    BY <2>3, CopiesOfTasks
  <2> QED
    BY <2>1, <2>3, <2>4, <2>5
<1>4. ASSUME NEW copies, AreCopies(copies, db), p = copies \o Dropping
      PROVE  /\ \/ \E left : AreCopies(left, after) /\ rest = left \o Dropping
                \/ rest = <<RenameNew>>
             /\ TasksFit(after)
             /\ KeptRows(after, Tasks) = KeptRows(db, Tasks)
  <2>1. CASE copies = <<>> /\ s = DropTasks /\ Tail(p) = <<RenameNew>>
    <3>1. s.op = "dropTable" /\ s.table = Tasks
      BY <2>1, TaskStatements
    <3>2. KeptIn(db, Tasks, Tasks) \subseteq KeptIn(db, Tasks, New)
      <4>1. ToSet(copies) = {}
        BY <2>1 DEF ToSet
      <4> QED
        BY <1>4, <4>1 DEF AreCopies
    <3>3. Harmless(db, s, Tasks)
      BY <3>1, <3>2, TaskPlaces DEF Harmless
    <3>4. KeptRows(after, Tasks) = KeptRows(db, Tasks)
      BY <3>3, KeptRowsBy, TaskPlaces
    <3>5. TasksFit(after)
      BY <3>1, TasksBy
    <3> QED
      BY <1>0, <2>1, <3>1, <3>4, <3>5
  <2>2. CASE /\ copies # <<>> /\ s = Head(copies) /\ s \in ToSet(copies)
             /\ Tail(p) = Tail(copies) \o Dropping
    <3> DEFINE left == Tail(copies)
    <3>1. s.op = "insertRow" /\ KeptRow(s.row, Tasks) \in KeptIn(db, Tasks, Tasks)
      BY <1>4, <2>2 DEF AreCopies
    <3>2. /\ TasksFit(after)
          /\ KeptIn(after, Tasks, Tasks) = KeptIn(db, Tasks, Tasks)
          /\ KeptIn(after, Tasks, New)
               = KeptIn(db, Tasks, New) \union {KeptRow(s.row, Tasks)}
      BY <3>1, TasksBy
    <3>3. IsRest(left) /\ ToSet(copies) = {s} \union ToSet(left)
      <4>1. IsRest(copies) /\ IsSequence(copies)
        BY <1>4 DEF AreCopies, IsRest
      <4>2. IsRest(left) /\ IsSequence(left)
        BY <2>2, <4>1, RestTail DEF IsRest
      <4>3. copies = <<s>> \o left
        <5> DEFINE S == ToSet(copies)
        <5>1. copies \in Seq(S) /\ copies # <<>> /\ s = Head(copies)
          BY <2>2, <4>1 DEF IsSequence
        <5> HIDE DEF S
        <5> QED
          BY ONLY <5>1
      <4>4. IsSequence(<<s>>) /\ ToSet(<<s>>) = {s}
        <5>1. DOMAIN <<s>> = 1..1 /\ <<s>> = [i \in 1..1 |-> <<s>>[i]]
          OBVIOUS
        <5>2. IsSequence(<<s>>)
          BY ONLY <5>1, Sequence DEF IsSequence
        <5>3. ToSet(<<s>>) = {s}
          BY DEF ToSet
        <5> QED
          BY <5>2, <5>3
      <4> DEFINE one == <<s>>
      <4> HIDE DEF left, one
      <4>5. ToSet(copies) = ToSet(one) \union ToSet(left)
        <5>1. IsSequence(one) /\ copies = one \o left
          BY <4>3, <4>4 DEF one
        <5> QED
          BY ONLY <4>2, <5>1, Concatenated
      <4> QED
        BY <4>2, <4>4, <4>5 DEF one
    <3> HIDE DEF left
    <3>4. AreCopies(left, after)
      <4>1. \A x \in ToSet(left) :
              x.op = "insertRow" /\ KeptRow(x.row, Tasks) \in KeptIn(after, Tasks, Tasks)
        BY <1>4, <3>2, <3>3 DEF AreCopies
      <4>2. KeptIn(db, Tasks, Tasks)
              \subseteq KeptIn(db, Tasks, New)
                          \union {KeptRow(x.row, Tasks) : x \in {s} \union ToSet(left)}
        BY <1>4, <3>3 DEF AreCopies
      <4>3. {KeptRow(x.row, Tasks) : x \in {s} \union ToSet(left)}
              = {KeptRow(s.row, Tasks)} \union {KeptRow(x.row, Tasks) : x \in ToSet(left)}
        OBVIOUS
      <4> QED
        BY <3>2, <3>3, <4>1, <4>2, <4>3 DEF AreCopies
    <3>5. Harmless(db, s, Tasks)
      BY <3>1 DEF Harmless, KeptRows
    <3>6. KeptRows(after, Tasks) = KeptRows(db, Tasks)
      BY <3>5, KeptRowsBy, TaskPlaces
    <3>7. rest = left \o Dropping
      BY <1>0, <2>2, <3>1 DEF left
    <3> QED
      BY <3>2, <3>4, <3>6, <3>7
  <2> QED
    BY <1>4, <2>1, <2>2, CopyingHead
<1>5. CASE p = <<RenameNew>>
  <2>1. s = RenameNew /\ Tail(p) = <<>>
    BY <1>5
  <2>2. s.op = "renameTable" /\ s.table = New
    BY <2>1, TaskStatements DEF New
  <2>3. TasksFit(after)
    BY <2>2, TasksBy
  <2>4. Harmless(db, s, Tasks)
    BY <2>2 DEF Harmless
  <2>5. KeptRows(after, Tasks) = KeptRows(db, Tasks)
    BY <2>4, KeptRowsBy, TaskPlaces
  <2> QED
    BY <1>0, <2>1, <2>2, <2>3, <2>5
<1> QED
  BY <1>1, <1>2, <1>3, <1>4, <1>5

\* Nothing is on its way to the database when a script has come to its end.
LEMMA NothingSent == ASSUME TodoFits, todo = <<>> PROVE unawaited = <<>>
<1>1. todo # <<CreateNew, SelectTasks, DropTasks, RenameNew>>
  OBVIOUS
<1> QED
  BY <1>1 DEF TodoFits, CopyPhase

\* What a script begins with.
LEMMA TasksBegin ==
  ASSUME RunnerInv, TasksInv, BeginScript
  PROVE  TodoFits'
<1>1. PICK i \in DOMAIN Scripts : /\ script' = Scripts[i]
                                  /\ todo' = Up(Scripts[i], databases[Database])
  BY DEF BeginScript
<1>2. script = NoScript /\ UNCHANGED <<databases, meta, current, unawaited>>
  BY DEF BeginScript, store
<1>3. unawaited' = <<>>
  <2>1. todo = <<>>
    BY <1>2 DEF RunnerInv, TodoBelongsToScript
  <2> QED
    BY <1>2, <2>1, NothingSent DEF TasksInv
<1>4. Scripts[i] \in ScriptNames
  BY CurrentFacts DEF RunnerInv
<1>5. ASSUME NEW p, NEW tables, IsMove(p, tables), todo' = p PROVE TodoFits'
  BY <1>3, <1>5, MoveIsOrdinary DEF TodoFits
<1>6. CASE Scripts[i] \notin {"external_task/00", "external_task/02"}
  BY <1>1, <1>4, <1>5, <1>6, UpPlan
<1>7. CASE Scripts[i] = "external_task/00"
  <2>1. CASE todo' = <<>>
    BY <1>5, <2>1, NoPlan, PlanIsMove
  <2>2. CASE \E s : s.op = "createTable" /\ s.table = Tasks /\ todo' = <<s>>
    BY <1>1, <1>3, <1>7, <2>2 DEF TodoFits
  <2> QED
    BY <1>1, <1>7, <2>1, <2>2, TaskScripts
<1>8. CASE Scripts[i] = "external_task/02"
  <2>1. CASE todo' = <<DescribeTable(Tasks)>> \o <<>>
    BY <1>5, <2>1, NoPlan, DescribedPlan, PlanIsMove
  <2>2. CASE todo' = <<DescribeTable(Tasks)>> \o CopyTasks
    BY <1>1, <1>3, <1>8, <2>2 DEF TodoFits, CopyPhase
  <2> QED
    BY <1>1, <1>8, <2>1, <2>2, TaskScripts
<1> QED
  BY <1>6, <1>7, <1>8

\* The one statement that is sent and not waited for is the drop of what an
\* earlier attempt left.
LEMMA TasksSend ==
  ASSUME RunnerInv, TablesInv, TasksInv, SendUnawaited
  PROVE  TodoFits'
<1> DEFINE s == Head(todo)
<1>1. /\ todo # <<>> /\ ~IsAwaited(s) /\ todo' = Tail(todo)
      /\ UNCHANGED <<databases, meta, current, script>>
  BY DEF SendUnawaited, store
<1>2. Allowed(s) /\ s.op = "dropTable" /\ s.table = New
  <2>1. Allowed(s)
    BY <1>1, RestTail DEF TablesInv
  <2> QED
    BY <1>1, <2>1 DEF Allowed, New
<1>3. s \in ToSet(todo)
  <2>1. /\ Len(todo) \in Nat /\ Len(todo) > 0
        /\ DOMAIN todo = 1..Len(todo) /\ s = todo[1]
    BY <1>1, TailOf DEF TablesInv, IsRest
  <2>2. 1 \in DOMAIN todo
    BY ONLY <2>1
  <2> QED
    BY <2>1, <2>2 DEF ToSet
<1>4. ~Ordinary(s)
  BY <1>2, TaskPlaces DEF Ordinary
<1>5. \A x : s = x => ~IsAwaited(x) /\ x.op = "dropTable" /\ x.table = New
  BY <1>1, <1>2
<1> HIDE DEF s
<1>6. ~\E x : x.op = "createTable" /\ x.table = Tasks /\ todo = <<x>>
  <2>1. ASSUME NEW x, todo = <<x>> PROVE s = x
    BY <2>1 DEF s
  <2> QED
    BY <1>2, <2>1
<1>7. script = "external_task/02" /\ CopyPhase(databases[Database])
  BY <1>3, <1>4, <1>6 DEF TasksInv, TodoFits
<1>8. todo = CopyTasks /\ unawaited = <<>> /\ Exists(databases[Database], Tasks)
  <2>1. ASSUME todo = <<DescribeTable(Tasks)>> \o CopyTasks PROVE FALSE
    <3>1. DOMAIN CopyTasks = 1..5 /\ CopyTasks = [j \in 1..5 |-> CopyTasks[j]]
      BY DEF CopyTasks
    <3>2. IsSequence(CopyTasks)
      BY ONLY <3>1, Sequence DEF IsSequence
    <3>3. s = DescribeTable(Tasks)
      BY <2>1, <3>2, OneBefore DEF s
    <3> QED
      BY <1>2, <3>3 DEF DescribeTable
  <2>2. ASSUME todo = <<CreateNew, SelectTasks, DropTasks, RenameNew>> PROVE FALSE
    <3>1. s = CreateNew
      BY <2>2 DEF s
    <3> QED
      BY <1>5, <3>1, TaskStatements
  <2>3. ASSUME todo = <<SelectTasks, DropTasks, RenameNew>> PROVE FALSE
    <3>1. s = SelectTasks
      BY <2>3 DEF s
    <3> QED
      BY <1>5, <3>1, TaskStatements
  <2>4. ASSUME NEW copies, AreCopies(copies, databases[Database]),
               todo = copies \o Dropping
        PROVE  FALSE
    <3>1. s = DropTasks \/ s \in ToSet(copies)
      BY <2>4, CopyingHead DEF s
    <3> QED
      BY <1>5, <2>4, <3>1, TaskStatements DEF AreCopies
  <2>5. ASSUME todo = <<RenameNew>> PROVE FALSE
    <3>1. s = RenameNew
      BY <2>5 DEF s
    <3> QED
      BY <1>5, <3>1, TaskStatements
  <2> QED
    BY <1>7, <2>1, <2>2, <2>3, <2>4, <2>5 DEF CopyPhase
<1>9. todo' = <<CreateNew, SelectTasks, DropTasks, RenameNew>>
  <2>1. Tail(CopyTasks) = <<CreateNew, SelectTasks, DropTasks, RenameNew>>
    BY DEF CopyTasks
  <2> QED
    BY <1>1, <1>8, <2>1
<1>10. databases'[Database'] = databases[Database]
  BY <1>1 DEF Database, Repository, DatabaseOf, Databases
<1> QED
  BY <1>1, <1>7, <1>8, <1>9, <1>10 DEF TodoFits, CopyPhase

\* The statements of every script, those of external_task/02 among them.
LEMMA TasksExecute ==
  ASSUME Dialect = "sqlite", RunnerInv, TablesInv, TasksInv, ExecuteStatement
  PROVE  LET db == databases[Database]
             after == databases'[Database]
         IN  /\ TodoFits'
             /\ TasksFit(after)
             /\ Exists(after, New) => Logged("external_task", 1)
             /\ KeptRows(after, Tasks) = KeptRows(db, Tasks)
<1> DEFINE db == databases[Database]
           s == Head(todo)
           after == databases'[Database]
           rest == Tail(todo)
<1>1. /\ todo # <<>> /\ Allowed(s) /\ IsAwaited(s) /\ IsRest(rest)
      /\ WellFormed(db)
      /\ s.op # "setCell" => Succeeds(db, s)
      /\ todo' = Continuation(db, s) \o rest
      /\ Databases' = Databases /\ Database' = Database /\ Database \in Databases
      /\ after = IF Succeeds(db, s) THEN After(db, s) ELSE db
  BY Executed
<1>2. unawaited = <<>> /\ unawaited' = <<>> /\ script' = script
  BY DEF ExecuteStatement, ConnectionIsFree
<1>3. TasksFit(db) /\ (Exists(db, New) => Logged("external_task", 1))
  BY <1>1 DEF TasksInv, TaskTablesFit
<1>4. s.op # "select" => todo' = rest
  BY <1>1, ContinuationPlan, NothingBefore DEF IsRest
<1>5. CASE \A x \in ToSet(todo) : Ordinary(x)
  <2>1. Ordinary(s) /\ \A x \in ToSet(rest) : Ordinary(x)
    <3>1. /\ Len(todo) \in Nat /\ Len(todo) > 0 /\ DOMAIN todo = 1..Len(todo)
          /\ s = todo[1] /\ DOMAIN rest = 1..(Len(todo) - 1)
          /\ \A i \in 1..(Len(todo) - 1) : rest[i] = todo[i + 1]
      BY <1>1, TailOf DEF TablesInv, IsRest
    <3> HIDE DEF s, rest
    <3>2. 1 \in DOMAIN todo /\ \A i \in DOMAIN rest : i + 1 \in DOMAIN todo
      BY ONLY <3>1
    <3> QED
      BY <1>5, <3>1, <3>2 DEF ToSet
  <2>2. \A x \in ToSet(Continuation(db, s)) : Ordinary(x)
    <3>1. IsPlan(Continuation(db, s))
      BY <1>1, <2>1, ContinuationPlan, NoPlan DEF Ordinary
    <3> QED
      BY <3>1, PlanIsOrdinary
  <2>3. TodoFits'
    <3>1. IsSequence(Continuation(db, s)) /\ IsSequence(rest)
      BY <1>1, ContinuationPlan DEF IsRest
    <3> DEFINE p == Continuation(db, s)
    <3> HIDE DEF p, rest
    <3>2. ToSet(todo') = ToSet(p) \union ToSet(rest)
      <4>1. IsSequence(p) /\ IsSequence(rest) /\ todo' = p \o rest
        BY <1>1, <3>1 DEF p
      <4> QED
        BY ONLY <4>1, Concatenated
    <3> QED
      BY <1>2, <2>1, <2>2, <3>2 DEF TodoFits, p
  <2>4. CASE Succeeds(db, s)
    <3>1. after = After(db, s)
      BY <1>1, <2>4
    <3>2. Exists(after, New) <=> Exists(db, New)
      BY <1>1, <1>3, <2>1, <2>4, <3>1, OrdinaryKeeps, TaskPlaces
    <3> QED
      BY <1>1, <1>3, <2>1, <2>3, <2>4, <3>1, <3>2, OrdinaryKeeps
  <2>5. CASE ~Succeeds(db, s)
    BY <1>1, <1>3, <2>3, <2>5
  <2> QED
    BY <2>4, <2>5
<1>6. CASE /\ script = "external_task/00"
           /\ \E x : x.op = "createTable" /\ x.table = Tasks /\ todo = <<x>>
  <2>1. s.op = "createTable" /\ s.table = Tasks /\ rest = <<>>
    BY <1>6
  <2>2. ~Exists(db, New)
    BY <1>3, <1>6, TaskScriptRuns
  <2>3. Succeeds(db, s) /\ after = After(db, s)
    BY <1>1, <2>1
  <2>4. TasksFit(after) /\ ~Exists(after, New)
    BY <1>1, <1>3, <2>1, <2>2, <2>3, TasksBy
  <2>5. TodoFits'
    <3>1. todo' = <<>>
      BY <1>4, <2>1
    <3> QED
      BY <1>2, <3>1 DEF TodoFits, ToSet
  <2>6. Harmless(db, s, Tasks)
    BY <2>1 DEF Harmless
  <2>7. KeptRows(after, Tasks) = KeptRows(db, Tasks)
    BY <1>1, <2>3, <2>6, KeptRowsBy, TaskPlaces
  <2> QED
    BY <2>4, <2>5, <2>7
<1>7. CASE script = "external_task/02" /\ CopyPhase(db)
  <2>0. Logged("external_task", 1)
    BY <1>7, TaskScriptRuns
  <2>1. todo # CopyTasks
    <3>1. Head(CopyTasks) = DropStale
      BY DEF CopyTasks
    <3> QED
      BY <1>1, <3>1, TaskStatements
  <2>2. \/ todo = <<DescribeTable(Tasks)>> \o CopyTasks
        \/ todo = <<CreateNew, SelectTasks, DropTasks, RenameNew>>
        \/ todo = <<SelectTasks, DropTasks, RenameNew>>
        \/ \E copies : AreCopies(copies, db) /\ todo = copies \o Dropping
        \/ todo = <<RenameNew>>
    BY <1>7, <2>1 DEF CopyPhase
  <2>3. Succeeds(db, s) /\ after = After(db, s)
    <3>1. s.op # "setCell"
      <4>1. ASSUME todo = <<DescribeTable(Tasks)>> \o CopyTasks PROVE s.op # "setCell"
        <5>1. DOMAIN CopyTasks = 1..5 /\ CopyTasks = [j \in 1..5 |-> CopyTasks[j]]
          BY DEF CopyTasks
        <5>2. IsSequence(CopyTasks)
          BY ONLY <5>1, Sequence DEF IsSequence
        <5>3. s = DescribeTable(Tasks)
          BY <4>1, <5>2, OneBefore
        <5> QED
          BY <5>3 DEF DescribeTable
      <4>2. ASSUME NEW copies, AreCopies(copies, db), todo = copies \o Dropping
            PROVE  s.op # "setCell"
        <5>1. s = DropTasks \/ s \in ToSet(copies)
          BY <4>2, CopyingHead
        <5> QED
          BY <4>2, <5>1, TaskStatements DEF AreCopies
      <4>3. todo = <<CreateNew, SelectTasks, DropTasks, RenameNew>> => s.op # "setCell"
        <5>1. ASSUME todo = <<CreateNew, SelectTasks, DropTasks, RenameNew>> PROVE s = CreateNew
          BY <5>1
        <5>2. CreateNew.op # "setCell"
          BY TaskStatements
        <5> QED
          BY <5>1, <5>2
      <4>4. todo = <<SelectTasks, DropTasks, RenameNew>> => s.op # "setCell"
        <5>1. ASSUME todo = <<SelectTasks, DropTasks, RenameNew>> PROVE s = SelectTasks
          BY <5>1
        <5>2. SelectTasks.op # "setCell"
          BY TaskStatements
        <5> QED
          BY <5>1, <5>2
      <4>5. todo = <<RenameNew>> => s.op # "setCell"
        <5>1. ASSUME todo = <<RenameNew>> PROVE s = RenameNew
          BY <5>1
        <5>2. RenameNew.op # "setCell"
          BY TaskStatements
        <5> QED
          BY <5>1, <5>2
      <4> QED
        BY <2>2, <4>1, <4>2, <4>3, <4>4, <4>5
    <3> QED
      BY <1>1, <3>1
  <2> HIDE DEF s, after, rest
  <2>4. todo # <<>> /\ s = Head(todo) /\ todo' = Continuation(db, s) \o Tail(todo)
        /\ IsRest(Tail(todo))
    BY <1>1 DEF s, rest
  <2>5. /\ \/ todo' = CopyTasks /\ Exists(after, Tasks)
           \/ todo' = <<SelectTasks, DropTasks, RenameNew>>
           \/ \E copies : AreCopies(copies, after) /\ todo' = copies \o Dropping
           \/ todo' = <<RenameNew>>
           \/ todo' = <<>>
        /\ TasksFit(after)
        /\ KeptRows(after, Tasks) = KeptRows(db, Tasks)
    BY <1>1, <1>3, <2>2, <2>3, <2>4, PhaseExecuted
  <2>6. TodoFits'
    <3>1. (databases[Database])' = after
      BY <1>1 DEF after
    <3>2. CASE todo' = <<>>
      BY <1>2, <3>2 DEF TodoFits, ToSet
    <3>3. CASE todo' # <<>>
      <4>1. CopyPhase(databases[Database])'
        BY <1>2, <2>5, <3>1, <3>3 DEF CopyPhase
      <4> QED
        BY <1>2, <1>7, <4>1 DEF TodoFits
    <3> QED
      BY <3>2, <3>3
  <2> QED
    BY <2>0, <2>5, <2>6 DEF after
<1> HIDE DEF s, after, rest
<1> QED
  BY <1>5, <1>6, <1>7 DEF TasksInv, TodoFits, after

\* The drop that nobody waits for takes effect before the script goes on.
LEMMA TasksDropped ==
  ASSUME RunnerInv, TablesInv, TasksInv, UnawaitedTakesEffect
  PROVE  LET db == databases[Database]
             after == databases'[Database]
         IN  /\ TodoFits'
             /\ TasksFit(after)
             /\ Exists(after, New) => Logged("external_task", 1)
             /\ KeptRows(after, Tasks) = KeptRows(db, Tasks)
<1> DEFINE db == databases[Database]
           s == Head(unawaited)
           after == databases'[Database]
<1>1. /\ unawaited # <<>> /\ Allowed(s) /\ s.op = "dropTable" /\ s.table = New
      /\ WellFormed(db)
      /\ Databases' = Databases /\ Database' = Database /\ Database \in Databases
      /\ after = IF Succeeds(db, s) THEN After(db, s) ELSE db
  BY TakesEffect DEF New
<1>2. todo' = todo /\ script' = script
  BY DEF UnawaitedTakesEffect
<1>3. /\ script = "external_task/02" /\ Exists(db, Tasks)
      /\ todo = <<CreateNew, SelectTasks, DropTasks, RenameNew>>
  BY <1>1 DEF TasksInv, TodoFits, CopyPhase
<1>4. TasksFit(db) /\ Logged("external_task", 1)
  BY <1>1, <1>3, TaskScriptRuns DEF TasksInv, TaskTablesFit
<1> HIDE DEF s
<1>5. Exists(after, Tasks) /\ TasksFit(after)
  BY <1>1, <1>3, <1>4, TasksBy
<1>6. KeptRows(after, Tasks) = KeptRows(db, Tasks)
  <2>1. KeptIn(db, Tasks, New) \subseteq KeptIn(db, Tasks, Tasks)
    BY <1>3, <1>4, TasksFitBy
  <2>2. Harmless(db, s, Tasks)
    BY <1>1, <2>1, TaskPlaces DEF Harmless
  <2> QED
    BY <1>1, <2>2, KeptRowsBy, TaskPlaces
<1>7. TodoFits'
  <2>1. (databases[Database])' = after
    BY <1>1
  <2>2. CopyPhase(databases[Database])'
    BY <1>2, <1>3, <1>5, <2>1 DEF CopyPhase
  <2> QED
    BY <1>2, <1>3, <2>2 DEF TodoFits
<1> QED
  BY <1>4, <1>5, <1>6, <1>7

\* Every step keeps the invariant of the tasks, and their rows.
LEMMA TasksStep ==
  ASSUME Dialect = "sqlite", RunnerInv, TablesInv, TasksInv, [Next]_vars
  PROVE  /\ TasksInv'
         /\ \A d \in Databases :
              KeptRows(databases[d], Tasks) = KeptRows(databases'[d], Tasks)
<1> DEFINE Kept == \A d \in Databases :
                     KeptRows(databases[d], Tasks) = KeptRows(databases'[d], Tasks)
<1>0. Databases' = Databases /\ (Logged("external_task", 1) => Logged("external_task", 1)')
  BY LogStays
<1>1. ASSUME UNCHANGED databases PROVE TaskTablesFit' /\ Kept
  BY <1>0, <1>1 DEF TasksInv, TaskTablesFit
<1>2. CASE StartRuntime \/ LogMigration \/ FinishRepository \/ Stop
  <2>1. UNCHANGED databases /\ todo' = <<>>
    BY <1>2
    DEF StartRuntime, LogMigration, FinishRepository, Stop, store, RunnerInv,
        TodoBelongsToScript, RunningScriptIsNext
  <2>2. unawaited' = <<>>
    <3>1. CASE Stop
      BY <3>1 DEF Stop
    <3>2. CASE StartRuntime \/ LogMigration \/ FinishRepository
      <4>1. todo = <<>> /\ unawaited' = unawaited
        BY <3>2
        DEF StartRuntime, LogMigration, FinishRepository, RunnerInv,
            TodoBelongsToScript, RunningScriptIsNext
      <4> QED
        BY <4>1, NothingSent DEF TasksInv
    <3> QED
      BY <1>2, <3>1, <3>2
  <2>3. TodoFits'
    BY <2>1, <2>2 DEF TodoFits, ToSet
  <2> QED
    BY <1>1, <2>1, <2>3 DEF TasksInv
<1>3. CASE BeginScript
  <2>1. UNCHANGED databases
    BY <1>3 DEF BeginScript, store
  <2> QED
    BY <1>1, <1>3, <2>1, TasksBegin DEF TasksInv
<1>4. CASE SendUnawaited
  <2>1. UNCHANGED databases
    BY <1>4 DEF SendUnawaited, store
  <2> QED
    BY <1>1, <1>4, <2>1, TasksSend DEF TasksInv
<1>5. ASSUME TodoFits', Database \in Databases,
             TasksFit(databases'[Database]),
             Exists(databases'[Database], New) => Logged("external_task", 1),
             KeptRows(databases'[Database], Tasks) = KeptRows(databases[Database], Tasks),
             \A d \in Databases \ {Database} : databases'[d] = databases[d]
      PROVE  TasksInv' /\ Kept
  <2>1. TaskTablesFit'
    BY <1>0, <1>5 DEF TasksInv, TaskTablesFit
  <2>2. Kept
    BY <1>5
  <2> QED
    BY <1>5, <2>1, <2>2 DEF TasksInv
<1>6. CASE ExecuteStatement
  <2>1. Database \in Databases /\ \A d \in Databases \ {Database} : databases'[d] = databases[d]
    BY <1>6, Executed
  <2> QED
    BY <1>5, <1>6, <2>1, TasksExecute
<1>7. CASE UnawaitedTakesEffect
  <2>1. Database \in Databases /\ \A d \in Databases \ {Database} : databases'[d] = databases[d]
    BY <1>7, TakesEffect
  <2> QED
    BY <1>5, <1>7, <2>1, TasksDropped
<1>8. CASE StatementFails \/ UNCHANGED vars
  <2>1. UNCHANGED <<databases, meta, current, script, todo, unawaited>>
    BY <1>8 DEF StatementFails, store, vars
  <2>2. TodoFits'
    BY <2>1
    DEF TasksInv, TodoFits, CopyPhase, Database, Repository, DatabaseOf, Databases
  <2> QED
    BY <1>1, <2>1, <2>2 DEF TasksInv
<1> QED
  BY <1>2, <1>3, <1>4, <1>6, <1>7, <1>8 DEF Next, Progress

\* The inductive invariant for the external tasks.  On SQLite the drop that
\* external_task/02 does not wait for takes effect before the table is created
\* again, so that what an interrupted attempt left is all it removes.
THEOREM TasksInvariant == ASSUME Dialect = "sqlite" PROVE Spec => []TasksInv
<1>1. /\ RunnerInv /\ RunnerInv' /\ TablesInv /\ TablesInv' /\ TasksInv /\ [Next]_vars
         => TasksInv'
  BY TasksStep
<1> QED
  BY <1>1, TasksInit, RunnerInvariant, TablesInvariant, PTL DEF Spec

-----------------------------------------------------------------------------
(* What the migration promises on SQLite.                                  *)

\* A migrated row keeps the values it was stored with, wherever starts are
\* interrupted: each statement that drops a table follows one that copied its
\* rows, external_task/02 drops what it selected and inserted row by row.
THEOREM ValuesStay == ASSUME Dialect = "sqlite" PROVE Spec => ValuesKept
<1>1. RunnerInv /\ TablesInv /\ RowsInv /\ TasksInv /\ [Next]_vars =>
        [\A d \in Databases, t \in LiveTables :
           KeptRows(databases[d], t) = KeptRows(databases'[d], t)]_vars
  <2> SUFFICES ASSUME RunnerInv, TablesInv, RowsInv, TasksInv, [Next]_vars,
                      NEW d \in Databases, NEW t \in LiveTables
               PROVE  KeptRows(databases[d], t) = KeptRows(databases'[d], t)
    OBVIOUS
  <2>1. CASE t = Tasks
    BY <2>1, TasksStep
  <2>2. CASE t # Tasks
    BY <2>2, RowsStep
  <2> QED
    BY <2>1, <2>2
<1> QED
  BY <1>1, RunnerInvariant, TablesInvariant, RowsInvariant, TasksInvariant, PTL
  DEF Spec, ValuesKept

-----------------------------------------------------------------------------
(* The keys of the rows, in their order.                                   *)

KeysOf(rows) == [i \in DOMAIN rows |-> rows[i].createdAt]
Keys(db, x) == KeysOf(RowsOf(db, x))

\* A table that is not there has no keys.
LEMMA KeysWhere ==
  ASSUME NEW db, NEW x
  PROVE  /\ x \in DOMAIN db => Keys(db, x) = KeysOf(db[x].rows)
         /\ x \notin DOMAIN db => Keys(db, x) = <<>>
<1>1. KeysOf(<<>>) = <<>>
  BY DEF KeysOf
<1> QED
  BY <1>1 DEF Keys, RowsOf, Exists

\* A table that is as it was has its keys.
LEMMA KeysSame ==
  ASSUME NEW db, NEW after, NEW x,
         x \in DOMAIN after <=> x \in DOMAIN db,
         x \in DOMAIN db => after[x] = db[x]
  PROVE  Keys(after, x) = Keys(db, x)
BY KeysWhere

\* The keys of two sequences of rows joined.
LEMMA KeysJoined ==
  ASSUME NEW p, NEW q, IsSequence(p), IsSequence(q)
  PROVE  KeysOf(p \o q) = KeysOf(p) \o KeysOf(q)
<1> DEFINE r == p \o q
           a == KeysOf(p)
           b == KeysOf(q)
<1>1. /\ Len(p) \in Nat /\ DOMAIN p = 1..Len(p)
      /\ Len(q) \in Nat /\ DOMAIN q = 1..Len(q)
      /\ DOMAIN r = 1..(Len(p) + Len(q))
      /\ \A i \in 1..(Len(p) + Len(q)) :
           r[i] = IF i <= Len(p) THEN p[i] ELSE q[i - Len(p)]
  BY Places
<1>2. /\ DOMAIN a = 1..Len(p) /\ a = [i \in 1..Len(p) |-> a[i]]
      /\ DOMAIN b = 1..Len(q) /\ b = [i \in 1..Len(q) |-> b[i]]
      /\ \A i \in 1..Len(p) : a[i] = p[i].createdAt
      /\ \A i \in 1..Len(q) : b[i] = q[i].createdAt
  BY <1>1 DEF KeysOf
<1> HIDE DEF a, b
<1>3. IsSequence(a) /\ IsSequence(b) /\ Len(a) = Len(p) /\ Len(b) = Len(q)
  <2>1. IsSequence(a) /\ IsSequence(b)
    BY ONLY <1>1, <1>2, Sequence DEF IsSequence
  <2>2. /\ Len(a) \in Nat /\ DOMAIN a = 1..Len(a)
        /\ Len(b) \in Nat /\ DOMAIN b = 1..Len(b)
    BY <2>1, Places
  <2> QED
    BY ONLY <1>1, <1>2, <2>1, <2>2
<1> DEFINE c == a \o b
<1> HIDE DEF c
<1>4. /\ DOMAIN c = 1..(Len(p) + Len(q))
      /\ \A i \in 1..(Len(p) + Len(q)) :
           c[i] = IF i <= Len(p) THEN a[i] ELSE b[i - Len(p)]
  <2>1. c = a \o b
    BY DEF c
  <2>2. /\ DOMAIN c = 1..(Len(a) + Len(b))
        /\ \A i \in 1..(Len(a) + Len(b)) :
             c[i] = IF i <= Len(a) THEN a[i] ELSE b[i - Len(a)]
    BY ONLY <1>3, <2>1, Places
  <2> QED
    BY ONLY <1>3, <2>2, Zenon
<1>5. c = [i \in 1..(Len(p) + Len(q)) |-> c[i]]
  <2>1. IsSequence(c)
    BY <1>3, Concatenated DEF c
  <2>2. c = [i \in DOMAIN c |-> c[i]]
    <3> DEFINE S == ToSet(c)
    <3>1. c \in Seq(S)
      BY <2>1 DEF IsSequence
    <3> HIDE DEF S
    <3> QED
      BY ONLY <3>1
  <2> QED
    BY ONLY <1>4, <2>2, Zenon
<1> HIDE DEF r
<1>6. \A i \in 1..(Len(p) + Len(q)) : c[i] = r[i].createdAt
  <2> TAKE i \in 1..(Len(p) + Len(q))
  <2>1. CASE i <= Len(p)
    <3>1. i \in 1..Len(p)
      BY ONLY <1>1, <2>1, i \in 1..(Len(p) + Len(q))
    <3> QED
      BY <1>1, <1>2, <1>4, <2>1, <3>1
  <2>2. CASE ~(i <= Len(p))
    <3>1. i - Len(p) \in 1..Len(q)
      BY ONLY <1>1, <2>2, i \in 1..(Len(p) + Len(q))
    <3> QED
      BY <1>1, <1>2, <1>4, <2>2, <3>1
  <2> QED
    BY <2>1, <2>2
<1>7. KeysOf(r) = c
  BY <1>1, <1>5, <1>6 DEF KeysOf
<1> QED
  BY <1>7 DEF r, c, a, b

\* A statement that changes columns, indexes or single cells changes no key.
LEMMA ChangedKeys ==
  ASSUME NEW db, NEW s, Allowed(s), s.op \in ChangesTable \ {"insertRow"},
         Succeeds(db, s), WellFormed(db)
  PROVE  KeysOf(Changed(db, s).rows) = KeysOf(db[s.table].rows)
<1> DEFINE rows == db[s.table].rows
           changed == Changed(db, s).rows
<1>1. /\ DOMAIN changed = DOMAIN rows
      /\ \A i \in DOMAIN rows :
           KeptRow(changed[i], s.table) = KeptRow(rows[i], s.table)
  BY ChangedRows
<1>2. \A row : KeptRow(row, s.table)[1] = row.createdAt
  BY DEF KeptRow
<1> HIDE DEF rows, changed
<1>3. \A i \in DOMAIN rows : changed[i].createdAt = rows[i].createdAt
  BY <1>1, <1>2
<1>4. KeysOf(changed) = KeysOf(rows)
  BY <1>1, <1>3 DEF KeysOf
<1> QED
  BY <1>4 DEF rows, changed

\* What a statement that succeeds makes of the keys of table x.
LEMMA KeysBy ==
  ASSUME NEW db, NEW s, WellFormed(db), Allowed(s), Succeeds(db, s), NEW x
  PROVE  Keys(After(db, s), x) =
           IF s.op = "dropTable" /\ x = s.table THEN <<>>
           ELSE IF s.op = "renameTable" /\ x = s.table THEN <<>>
           ELSE IF s.op = "renameTable" /\ x = s.to THEN Keys(db, s.table)
           ELSE IF s.op = "copyRows" /\ x = s.to
                THEN Keys(db, x) \o Keys(db, s.table)
           ELSE IF s.op = "insertRow" /\ x = s.table
                THEN Keys(db, x) \o <<s.row.createdAt>>
           ELSE Keys(db, x)
<1> DEFINE after == After(db, s)
<1>0. \A y \in DOMAIN db : /\ IsSequence(db[y].rows)
                           /\ DOMAIN db[y] = {"columns", "unique", "indexes", "rows"}
  <2> SUFFICES ASSUME NEW y \in DOMAIN db
               PROVE  /\ IsSequence(db[y].rows)
                      /\ DOMAIN db[y] = {"columns", "unique", "indexes", "rows"}
    OBVIOUS
  <2>1. IsTable(db[y])
    BY DEF WellFormed, IsDatabase
  <2> QED
    BY <2>1, TableOf DEF IsSequence
<1>1. CASE s.op \in {"describeTable", "select"}
  BY <1>1, AfterBy
<1>2. CASE s.op = "createTable"
  <2> DEFINE new == [columns |-> s.columns, unique |-> s.unique, indexes |-> {},
                     rows |-> <<>>]
  <2>1. after = IF Exists(db, s.table) THEN db ELSE With(db, s.table, new)
    BY <1>2, AfterBy
  <2>2. KeysOf(new.rows) = <<>>
    BY DEF KeysOf
  <2> HIDE DEF new
  <2>3. CASE x = s.table /\ ~Exists(db, s.table)
    <3>1. x \in DOMAIN after /\ after[x] = new /\ x \notin DOMAIN db
      BY <2>1, <2>3 DEF With, Exists
    <3> QED
      BY <1>2, <2>2, <3>1, KeysWhere
  <2>4. CASE ~(x = s.table /\ ~Exists(db, s.table))
    <3>1. (x \in DOMAIN after <=> x \in DOMAIN db) /\ (x \in DOMAIN db => after[x] = db[x])
      BY <2>1, <2>4 DEF With, Exists
    <3> QED
      BY <1>2, <3>1, KeysSame
  <2> QED
    BY <2>3, <2>4
<1>3. CASE s.op = "dropTable"
  <2>1. after = Without(db, s.table)
    BY <1>3, AfterBy
  <2>2. CASE x = s.table
    BY <1>3, <2>1, <2>2, KeysWhere DEF Without
  <2>3. CASE x # s.table
    BY <1>3, <2>1, <2>3, KeysSame DEF Without
  <2> QED
    BY <2>2, <2>3
<1>4. CASE s.op = "renameTable"
  <2>1. after = With(Without(db, s.table), s.to, db[s.table])
    BY <1>4, AfterBy
  <2>2. PICK u \in Rebuilt : s.table = TemporaryOf[u] /\ s.to = u
    BY <1>4 DEF Allowed
  <2>3. s.table \in DOMAIN db /\ s.to # s.table
    BY <1>4, <2>2, Names DEF Succeeds, Exists
  <2>4. CASE x = s.table
    <3>1. x \notin DOMAIN after
      BY <2>1, <2>3, <2>4 DEF With, Without
    <3> QED
      BY <1>4, <2>4, <3>1, KeysWhere
  <2>5. CASE x = s.to
    <3>1. x \in DOMAIN after /\ after[x] = db[s.table]
      BY <2>1, <2>5 DEF With
    <3> QED
      BY <1>4, <2>3, <2>5, <3>1, KeysWhere
  <2>6. CASE x # s.to /\ x # s.table
    <3>1. (x \in DOMAIN after <=> x \in DOMAIN db) /\ (x \in DOMAIN db => after[x] = db[x])
      BY <2>1, <2>6 DEF With, Without
    <3> QED
      BY <1>4, <2>6, <3>1, KeysSame
  <2> QED
    BY <2>4, <2>5, <2>6
<1>5. CASE s.op = "copyRows"
  <2>1. PICK u \in Rebuilt : /\ s.table = u /\ s.to = TemporaryOf[u]
                             /\ s.columns = DOMAIN MigratedColumns[u]
    BY <1>5 DEF Allowed
  <2> DEFINE from == db[s.table].rows
             brought == [i \in DOMAIN db[s.table].rows |->
                           [c \in s.columns |-> db[s.table].rows[i][c]]]
  <2>2. after = [db EXCEPT ![s.to].rows = @ \o brought]
    BY <1>5, AfterBy
  <2>3. Exists(db, s.table) /\ HasColumns(db, s.to, s.columns)
    BY <1>5, AppliesBy DEF Succeeds
  <2>4. Exists(db, s.to)
    BY <2>1, <2>3, Migrated DEF HasColumns, HasColumn
  <2>5. CASE x = s.to
    <3>1. KeysOf(brought) = KeysOf(from)
      <4>1. \A i \in DOMAIN from : brought[i].createdAt = from[i].createdAt
        BY <2>1, Migrated
      <4> QED
        BY <4>1 DEF KeysOf
    <3>2. IsSequence(brought)
      <4>1. db[s.table].rows \in Seq(ToSet(db[s.table].rows))
        BY <1>0, <2>3 DEF IsSequence, Exists
      <4> QED
        BY <4>1, MappedRows DEF IsSequence
    <3> HIDE DEF brought
    <3>3. after[x].rows = db[x].rows \o brought /\ x \in DOMAIN after
      BY <1>0, <2>2, <2>4, <2>5 DEF Exists
    <3>4. IsSequence(db[x].rows)
      BY <1>0, <2>4, <2>5 DEF Exists
    <3>5. KeysOf(after[x].rows) = KeysOf(db[x].rows) \o KeysOf(from)
      BY <3>1, <3>2, <3>3, <3>4, KeysJoined
    <3>6. /\ Keys(after, x) = KeysOf(after[x].rows)
          /\ Keys(db, x) = KeysOf(db[x].rows) /\ Keys(db, s.table) = KeysOf(from)
      BY <2>3, <2>4, <2>5, <3>3, KeysWhere DEF Exists
    <3> HIDE DEF after
    <3>7. Keys(after, x) = Keys(db, x) \o Keys(db, s.table)
      BY <3>5, <3>6
    <3> QED
      BY <1>5, <2>5, <3>7, Zenon DEF after
  <2>6. CASE x # s.to
    <3> HIDE DEF brought
    <3>1. DOMAIN after = DOMAIN db /\ (x \in DOMAIN db => after[x] = db[x])
      BY <2>2, <2>6
    <3> QED
      BY <1>5, <2>6, <3>1, KeysSame
  <2> QED
    BY <2>5, <2>6
<1>6. CASE s.op = "insertRow"
  <2>1. after = [db EXCEPT ![s.table] = Changed(db, s)]
    BY <1>6, AfterBy DEF ChangesTable
  <2>2. Changed(db, s) = [db[s.table] EXCEPT !.rows = Append(@, s.row)]
    BY <1>6, Zenon DEF Changed, MapRows
  <2>3. s.table \in DOMAIN db
    BY <1>6 DEF Succeeds, Exists
  <2>4. CASE x = s.table
    <3> DEFINE old == db[x].rows
               row == s.row
    <3>1. x \in DOMAIN after /\ after[x].rows = Append(old, row)
      BY <1>0, <2>1, <2>2, <2>3, <2>4
    <3>2. IsSequence(old)
      BY <1>0, <2>3, <2>4
    <3> HIDE DEF old
    <3>3. Append(old, row) = old \o <<row>> /\ IsSequence(<<row>>)
      <4> HIDE DEF row
      <4>1. old \in Seq(ToSet(old))
        BY <3>2 DEF IsSequence
      <4>2. Append(old, row) = old \o <<row>>
        BY ONLY <4>1
      <4>3. DOMAIN <<row>> = 1..1 /\ <<row>> = [i \in 1..1 |-> <<row>>[i]]
        OBVIOUS
      <4>4. IsSequence(<<row>>)
        BY ONLY <4>3, Sequence DEF IsSequence
      <4> QED
        BY <4>2, <4>4
    <3>4. KeysOf(<<row>>) = <<s.row.createdAt>>
      BY DEF KeysOf
    <3> HIDE DEF row
    <3>5. KeysOf(Append(old, row)) = KeysOf(old) \o <<s.row.createdAt>>
      BY <3>2, <3>3, <3>4, KeysJoined
    <3>6. Keys(after, x) = KeysOf(Append(old, row)) /\ Keys(db, x) = KeysOf(old)
      BY <2>3, <2>4, <3>1, KeysWhere DEF old
    <3> HIDE DEF after
    <3>7. Keys(after, x) = Keys(db, x) \o <<s.row.createdAt>>
      BY <3>5, <3>6
    <3> QED
      BY <1>6, <2>4, <3>7, Zenon DEF after
  <2>5. CASE x # s.table
    <3>1. DOMAIN after = DOMAIN db /\ (x \in DOMAIN db => after[x] = db[x])
      BY <2>1, <2>5
    <3> QED
      BY <1>6, <2>5, <3>1, KeysSame
  <2> QED
    BY <2>4, <2>5
<1>7. CASE s.op \in ChangesTable \ {"insertRow"}
  <2> DEFINE new == Changed(db, s)
  <2>1. after = [db EXCEPT ![s.table] = new]
    BY <1>7, AfterBy
  <2>2. s.table \in DOMAIN db
    BY <1>7 DEF Succeeds, Exists, ChangesTable
  <2>3. KeysOf(new.rows) = KeysOf(db[s.table].rows)
    BY <1>7, ChangedKeys
  <2> HIDE DEF new
  <2>4. CASE x = s.table
    <3>1. x \in DOMAIN after /\ after[x] = new
      BY <2>1, <2>2, <2>4
    <3> QED
      BY <1>7, <2>2, <2>3, <2>4, <3>1, KeysWhere DEF ChangesTable
  <2>5. CASE x # s.table
    <3>1. DOMAIN after = DOMAIN db /\ (x \in DOMAIN db => after[x] = db[x])
      BY <2>1, <2>5
    <3> QED
      BY <1>7, <2>5, <3>1, KeysSame DEF ChangesTable
  <2> QED
    BY <2>4, <2>5
<1> QED
  BY <1>1, <1>2, <1>3, <1>4, <1>5, <1>6, <1>7 DEF Allowed, Operations, ChangesTable

-----------------------------------------------------------------------------
(* How many times a key occurs in a sequence of keys.                      *)

PlacesOfKey(keys, key) == {i \in DOMAIN keys : keys[i] = key}

AtMost(keys, n) == \A key : Cardinality(PlacesOfKey(keys, key)) <= n

\* There are finitely many of them.
LEMMA PlacesFinite ==
  ASSUME NEW keys, NEW key, IsSequence(keys)
  PROVE  /\ IsFiniteSet(PlacesOfKey(keys, key))
         /\ Cardinality(PlacesOfKey(keys, key)) \in Nat
<1>1. Len(keys) \in Nat /\ DOMAIN keys = 1..Len(keys)
  BY DEF IsSequence
<1>2. IsFiniteSet(1..Len(keys))
  BY <1>1, FS_Interval
<1>3. PlacesOfKey(keys, key) \subseteq 1..Len(keys)
  BY <1>1 DEF PlacesOfKey
<1>4. IsFiniteSet(PlacesOfKey(keys, key))
  BY <1>2, <1>3, FS_Subset
<1> QED
  BY <1>4, FS_CardinalityType

\* A key occurs nowhere in an empty sequence, and once in one without repetitions.
LEMMA FewPlaces ==
  /\ \A n \in Nat : AtMost(<<>>, n)
  /\ \A keys : IsSequence(keys) /\ IsInjective(keys) => AtMost(keys, 1)
<1>1. ASSUME NEW n \in Nat PROVE AtMost(<<>>, n)
  <2>1. \A key : PlacesOfKey(<<>>, key) = {}
    BY DEF PlacesOfKey
  <2> QED
    BY <2>1, FS_EmptySet DEF AtMost
<1>2. ASSUME NEW keys, IsSequence(keys), IsInjective(keys) PROVE AtMost(keys, 1)
  <2> SUFFICES ASSUME NEW key PROVE Cardinality(PlacesOfKey(keys, key)) <= 1
    BY DEF AtMost
  <2>1. CASE PlacesOfKey(keys, key) = {}
    BY <2>1, FS_EmptySet
  <2>2. CASE PlacesOfKey(keys, key) # {}
    <3>1. PICK i \in DOMAIN keys : keys[i] = key
      BY <2>2 DEF PlacesOfKey
    <3>2. PlacesOfKey(keys, key) = {i}
      BY <1>2, <3>1 DEF PlacesOfKey, IsInjective
    <3> QED
      BY <3>2, FS_Singleton
  <2> QED
    BY <2>1, <2>2
<1> QED
  BY <1>1, <1>2

\* A bound may be raised.
LEMMA FewerThan ==
  ASSUME NEW keys, NEW m \in Nat, NEW n \in Nat, IsSequence(keys), AtMost(keys, m), m <= n
  PROVE  AtMost(keys, n)
BY PlacesFinite DEF AtMost

\* Keys without repetitions occur once more in the sequence they are appended to.
LEMMA OnceMore ==
  ASSUME NEW p, NEW q, NEW n \in Nat, IsSequence(p), IsSequence(q), AtMost(p, n),
         IsInjective(q)
  PROVE  AtMost(p \o q, n + 1)
<1> DEFINE r == p \o q
<1>1. /\ Len(p) \in Nat /\ DOMAIN p = 1..Len(p)
      /\ Len(q) \in Nat /\ DOMAIN q = 1..Len(q)
      /\ DOMAIN r = 1..(Len(p) + Len(q))
      /\ \A i \in 1..(Len(p) + Len(q)) :
           r[i] = IF i <= Len(p) THEN p[i] ELSE q[i - Len(p)]
  BY Places
<1> HIDE DEF r
<1>2. ASSUME NEW key PROVE Cardinality(PlacesOfKey(r, key)) <= n + 1
  <2> DEFINE P == PlacesOfKey(p, key)
             Q == PlacesOfKey(q, key)
             R == PlacesOfKey(r, key)
  <2>1. IsFiniteSet(P) /\ Cardinality(P) \in Nat /\ Cardinality(P) <= n
    BY PlacesFinite DEF AtMost
  <2>2. ASSUME NEW i \in R
        PROVE  i \in P \/ (i > Len(p) /\ i - Len(p) \in Q /\ i \in Nat)
    <3>1. i \in 1..(Len(p) + Len(q)) /\ r[i] = key
      BY <1>1 DEF PlacesOfKey
    <3>2. CASE i <= Len(p)
      BY <1>1, <3>1, <3>2 DEF PlacesOfKey
    <3>3. CASE ~(i <= Len(p))
      BY <1>1, <3>1, <3>3 DEF PlacesOfKey
    <3> QED
      BY <3>2, <3>3
  <2>3. P \subseteq R
    BY <1>1 DEF PlacesOfKey
  <2>4. \A i, j \in Q : i = j
    BY DEF PlacesOfKey, IsInjective
  <2> HIDE DEF P, Q, R
  <2>5. CASE R \subseteq P
    <3>1. R = P
      BY <2>3, <2>5
    <3> QED
      BY <2>1, <3>1 DEF R
  <2>6. CASE ~(R \subseteq P)
    <3>1. PICK i \in R : i \notin P
      BY <2>6
    <3>2. R = P \union {i}
      <4>1. ASSUME NEW j \in R, j \notin P PROVE j = i
        <5>1. i - Len(p) = j - Len(p) /\ i \in Nat /\ j \in Nat
          BY <2>2, <2>4, <3>1, <4>1
        <5> QED
          BY <1>1, <5>1
      <4> QED
        BY <2>3, <3>1, <4>1
    <3>3. Cardinality(R) = Cardinality(P) + 1
      BY <2>1, <3>1, <3>2, FS_AddElement
    <3> QED
      BY <2>1, <3>3 DEF R
  <2> QED
    BY <2>5, <2>6
<1>3. AtMost(r, n + 1)
  BY <1>2 DEF AtMost
<1> QED
  BY <1>3 DEF r

\* The keys of a table are a sequence.
LEMMA KeysAreSequence ==
  ASSUME NEW db, NEW x, WellFormed(db) PROVE IsSequence(Keys(db, x))
<1>1. IsSequence(<<>>)
  BY NoPlan DEF IsPlan
<1>2. ASSUME x \in DOMAIN db PROVE IsSequence(KeysOf(db[x].rows))
  <2>1. IsTable(db[x])
    BY <1>2 DEF WellFormed, IsDatabase
  <2> DEFINE rows == db[x].rows
             keys == KeysOf(rows)
  <2>2. rows \in Seq(ToSet(rows))
    BY <2>1, TableOf
  <2>3. keys = [i \in DOMAIN rows |-> keys[i]]
    BY DEF KeysOf
  <2> HIDE DEF rows, keys
  <2>4. IsSequence(keys)
    BY <2>2, <2>3, MappedRows DEF IsSequence
  <2> QED
    BY <2>4 DEF rows, keys
<1> QED
  BY <1>1, <1>2, KeysWhere

-----------------------------------------------------------------------------
(* What a statement does to the id of a table.                             *)

\* None but a rename changes the type of an id.
LEMMA ChangedId ==
  ASSUME NEW db, NEW s, WellFormed(db), Allowed(s), s.op \in ChangesTable,
         Succeeds(db, s)
  PROVE  /\ "id" \in DOMAIN Changed(db, s).columns
         /\ Changed(db, s).columns["id"] = db[s.table].columns["id"]
<1> DEFINE table == db[s.table]
           new == Changed(db, s)
<1>0. /\ DOMAIN table = {"columns", "unique", "indexes", "rows"}
      /\ Applies(db, s) /\ "id" \in DOMAIN table.columns
  <2>1. IsTable(table) /\ Applies(db, s)
    BY DEF WellFormed, IsDatabase, Succeeds, ChangesTable, Exists
  <2> QED
    BY <2>1, TableOf
<1> HIDE DEF table
<1>1. CASE s.op = "addColumn"
  <2>1. Changed(db, s) = [db[s.table] EXCEPT !.columns = With(@, s.column, s.type),
                            !.rows = [i \in DOMAIN @ |-> With(@[i], s.column, s.default)]]
    BY <1>1, Zenon DEF Changed, MapRows
  <2>2. s.column \notin DOMAIN table.columns
    BY <1>0, <1>1, AppliesBy DEF table
  <2>3. new.columns = With(table.columns, s.column, s.type)
    BY <1>0, <2>1 DEF table
  <2> QED
    BY <1>0, <2>2, <2>3 DEF With, table
<1>2. CASE s.op = "changeColumn"
  <2>1. Changed(db, s) = [db[s.table] EXCEPT !.columns[s.column] = s.type]
    BY <1>2, Zenon DEF Changed, MapRows
  <2>2. s.column # "id"
    BY <1>2 DEF Allowed
  <2> QED
    BY <1>0, <2>1, <2>2 DEF table
<1>3. CASE s.op = "removeColumn"
  <2>1. Changed(db, s) = [db[s.table] EXCEPT !.columns = Without(@, s.column),
                            !.rows = [i \in DOMAIN @ |-> Without(@[i], s.column)]]
    BY <1>3, Zenon DEF Changed, MapRows
  <2>2. s.column # "id"
    BY <1>3 DEF Allowed
  <2>3. new.columns = Without(table.columns, s.column)
    BY <1>0, <2>1 DEF table
  <2> QED
    BY <1>0, <2>2, <2>3 DEF Without, table
<1>4. CASE s.op = "addIndex"
  <2>1. Changed(db, s) = [db[s.table] EXCEPT !.indexes = @ \union {s.columns}]
    BY <1>4, Zenon DEF Changed, MapRows
  <2> QED
    BY <1>0, <2>1 DEF table
<1>5. CASE s.op = "setCell"
  <2>1. Changed(db, s) = [db[s.table] EXCEPT !.rows[s.position][s.column] = s.value]
    BY <1>5, Zenon DEF Changed, MapRows
  <2> QED
    BY <1>0, <2>1 DEF table
<1>6. CASE s.op = "fillFrom"
  <2>1. Changed(db, s) = [db[s.table] EXCEPT !.rows = [i \in DOMAIN @ |-> Filled(db, s, @[i])]]
    BY <1>6, Zenon DEF Changed, MapRows
  <2> QED
    BY <1>0, <2>1 DEF table
<1>7. CASE s.op = "insertRow"
  <2>1. Changed(db, s) = [db[s.table] EXCEPT !.rows = Append(@, s.row)]
    BY <1>7, Zenon DEF Changed, MapRows
  <2> QED
    BY <1>0, <2>1 DEF table
<1> QED
  BY <1>1, <1>2, <1>3, <1>4, <1>5, <1>6, <1>7 DEF ChangesTable


\* A table whose id is no integer had none before, and its keys are what they were
\* or are gone: the tables that replace others have one.
LEMMA KeysOfUnmigrated ==
  ASSUME Dialect # "mysql", NEW db, NEW s, WellFormed(db), Allowed(s), Succeeds(db, s),
         NEW t \in LiveTables, ~HasIntegerId(After(db, s), t)
  PROVE  \/ Keys(After(db, s), t) = <<>>
         \/ ~HasIntegerId(db, t) /\ Keys(After(db, s), t) = Keys(db, t)
<1> DEFINE after == After(db, s)
<1>1. ASSUME (t \in DOMAIN after <=> t \in DOMAIN db) /\ (t \in DOMAIN db => after[t] = db[t])
      PROVE  ~HasIntegerId(db, t) /\ Keys(after, t) = Keys(db, t)
  BY <1>1, KeysSame DEF HasIntegerId, HasColumn, Exists
<1>2. t \notin DOMAIN after => Keys(after, t) = <<>>
  BY KeysWhere
<1>3. CASE s.op \in {"describeTable", "select"}
  BY <1>1, <1>3, AfterBy
<1>4. CASE s.op = "createTable"
  <2>1. after = IF Exists(db, s.table) THEN db
                ELSE With(db, s.table, [columns |-> s.columns, unique |-> s.unique,
                                        indexes |-> {}, rows |-> <<>>])
    BY <1>4, AfterBy
  <2>2. CASE t = s.table /\ ~Exists(db, s.table)
    <3>1. t \in DOMAIN after /\ after[t].rows = <<>>
      BY <2>1, <2>2 DEF With
    <3>2. KeysOf(<<>>) = <<>>
      BY DEF KeysOf
    <3> QED
      BY <3>1, <3>2, KeysWhere
  <2>3. CASE ~(t = s.table /\ ~Exists(db, s.table))
    BY <1>1, <2>1, <2>3 DEF With, Exists
  <2> QED
    BY <2>2, <2>3
<1>5. CASE s.op = "dropTable"
  <2>1. after = Without(db, s.table)
    BY <1>5, AfterBy
  <2> QED
    BY <1>1, <1>2, <2>1 DEF Without
<1>6. CASE s.op = "renameTable"
  <2>1. after = With(Without(db, s.table), s.to, db[s.table])
    BY <1>6, AfterBy
  <2>2. PICK u \in Rebuilt : s.table = TemporaryOf[u] /\ s.to = u
    BY <1>6 DEF Allowed
  <2>3. s.table \in DOMAIN db /\ t # s.table
    BY <1>6, <2>2, Names DEF Succeeds, Exists
  <2>4. CASE t = s.to
    <3>1. db[s.table].columns = With(MigratedColumns[u], "id", "INTEGER")
      BY <2>2, <2>3 DEF WellFormed, TemporaryFits, Exists
    <3>2. t \in DOMAIN after /\ after[t] = db[s.table]
      BY <2>1, <2>4 DEF With
    <3>3. HasIntegerId(after, t)
      BY <3>1, <3>2 DEF HasIntegerId, HasColumn, Exists, With
    <3> QED
      BY <3>3
  <2>5. CASE t # s.to
    BY <1>1, <2>1, <2>3, <2>5 DEF With, Without
  <2> QED
    BY <2>4, <2>5
<1>7. CASE s.op = "copyRows"
  <2>1. t # s.to
    BY <1>7, Names DEF Allowed
  <2>2. DOMAIN after = DOMAIN db /\ (t \in DOMAIN db => after[t] = db[t])
    <3> DEFINE brought == [i \in DOMAIN db[s.table].rows |->
                             [c \in s.columns |-> db[s.table].rows[i][c]]]
    <3>1. after = [db EXCEPT ![s.to].rows = @ \o brought]
      BY <1>7, AfterBy
    <3> HIDE DEF brought
    <3> QED
      BY <2>1, <3>1
  <2> QED
    BY <1>1, <2>2
<1>8. CASE s.op \in ChangesTable
  <2> DEFINE new == Changed(db, s)
  <2>1. after = [db EXCEPT ![s.table] = new] /\ s.table \in DOMAIN db
    BY <1>8, AfterBy DEF Succeeds, Exists, ChangesTable
  <2>2. "id" \in DOMAIN new.columns /\ new.columns["id"] = db[s.table].columns["id"]
    BY <1>8, ChangedId
  <2> HIDE DEF new
  <2>3. CASE t = s.table
    <3>1. t \in DOMAIN after /\ after[t] = new /\ t \in DOMAIN db
      BY <2>1, <2>3
    <3>2. "id" \in DOMAIN db[t].columns
      <4>1. IsTable(db[t])
        BY <3>1 DEF WellFormed, IsDatabase
      <4> QED
        BY <4>1, TableOf
    <3>3. ~HasIntegerId(db, t)
      BY <2>2, <2>3, <3>1, <3>2 DEF HasIntegerId, HasColumn, Exists
    <3>4. s.op # "insertRow"
      BY <2>3 DEF Allowed, LiveTables
    <3>5. Keys(after, t) = Keys(db, t)
      BY <1>8, <3>4, KeysBy DEF ChangesTable
    <3> QED
      BY <3>3, <3>5
  <2>4. CASE t # s.table
    BY <1>1, <2>1, <2>4
  <2> QED
    BY <2>3, <2>4
<1> QED
  BY <1>3, <1>4, <1>5, <1>6, <1>7, <1>8 DEF Allowed, Operations

-----------------------------------------------------------------------------
(* The tables but that of the tasks.                                       *)

\* The rows of a table are copied once in what is left of a script.
Waits(p) == \A i \in DOMAIN p : p[i].op = "copyRows" => CopiesOnce(p, i)

\* A script that moves rows copies those of a table once, a plan never.
LEMMA MoveWaits == ASSUME NEW p, NEW tables, IsMove(p, tables) PROVE Waits(p)
BY DEF IsMove, Waits, Fits, Drops, Renames

\* Nor does what copies none.
LEMMA NoneWaits ==
  ASSUME NEW p, \A s \in ToSet(p) : s.op # "copyRows" PROVE Waits(p)
BY DEF Waits, ToSet

\* What is left after the next statement: no second copy of what it has copied
\* or replaced, and the statement that replaces what it has copied.
LEMMA WaitsTail ==
  ASSUME NEW p, IsSequence(p), p # <<>>, Waits(p)
  PROVE  /\ Waits(Tail(p))
         /\ \A t : Copying(Head(p), t) =>
              /\ \E s \in ToSet(Tail(p)) : Replacing(s, t)
              /\ \A s \in ToSet(Tail(p)) : ~Copying(s, t)
         /\ \A t : Replacing(Head(p), t) => \A s \in ToSet(Tail(p)) : ~Copying(s, t)
         /\ ToSet(p) = {Head(p)} \union ToSet(Tail(p))
<1> DEFINE q == Tail(p)
<1>1. /\ Len(p) \in Nat /\ Len(p) > 0 /\ DOMAIN p = 1..Len(p) /\ Head(p) = p[1]
      /\ DOMAIN q = 1..(Len(p) - 1)
      /\ \A i \in 1..(Len(p) - 1) : q[i] = p[i + 1]
  BY TailOf
<1> HIDE DEF q
<1>2. /\ 1 \in DOMAIN p /\ DOMAIN p \subseteq Nat /\ DOMAIN q \subseteq Nat
      /\ \A i \in DOMAIN q : i + 1 \in DOMAIN p /\ q[i] = p[i + 1] /\ i + 1 > 1
      /\ \A i \in DOMAIN p : i = 1 \/ (i - 1 \in DOMAIN q /\ i = (i - 1) + 1)
  BY ONLY <1>1
<1>3. ASSUME NEW i \in DOMAIN q, q[i].op = "copyRows" PROVE CopiesOnce(q, i)
  <2> DEFINE t == q[i].table
             k == i + 1
  <2>1. k \in DOMAIN p /\ q[i] = p[k] /\ i \in Nat
    BY <1>2
  <2>2. CopiesOnce(p, k)
    BY <1>3, <2>1 DEF Waits
  <2>3. PICK j \in DOMAIN p : j > k /\ Replacing(p[j], t)
    BY <2>1, <2>2 DEF CopiesOnce
  <2>4. j - 1 \in DOMAIN q /\ j - 1 > i /\ Replacing(q[j - 1], t)
    <3>1. j # 1 /\ j \in Nat
      BY <1>2, <2>1, <2>3
    <3>2. j - 1 \in DOMAIN q /\ q[j - 1] = p[j] /\ j - 1 > i
      BY <1>2, <2>1, <2>3, <3>1
    <3> QED
      BY <2>3, <3>2
  <2>5. ASSUME NEW l \in DOMAIN q
        PROVE  (Copying(q[l], t) => l = i) /\ (Replacing(q[l], t) => l > i)
    <3>1. l + 1 \in DOMAIN p /\ q[l] = p[l + 1] /\ l \in Nat
      BY <1>2
    <3>2. (Copying(q[l], t) => l + 1 = k) /\ (Replacing(q[l], t) => l + 1 > k)
      BY <2>1, <2>2, <3>1 DEF CopiesOnce
    <3> QED
      BY <2>1, <3>1, <3>2
  <2> QED
    BY <2>1, <2>2, <2>4, <2>5 DEF CopiesOnce
<1>4. \A s \in ToSet(q) : \E i \in DOMAIN p : i > 1 /\ s = p[i]
  BY <1>2 DEF ToSet
<1>5. ASSUME NEW t, Copying(Head(p), t)
      PROVE  /\ \E s \in ToSet(q) : Replacing(s, t)
             /\ \A s \in ToSet(q) : ~Copying(s, t)
  <2>1. CopiesOnce(p, 1) /\ p[1].table = t
    BY <1>1, <1>2, <1>5 DEF Waits, Copying
  <2>2. PICK j \in DOMAIN p : j > 1 /\ Replacing(p[j], t)
    BY <2>1 DEF CopiesOnce
  <2>3. p[j] \in ToSet(q)
    BY <1>2, <2>2 DEF ToSet
  <2>4. \A i \in DOMAIN p : Copying(p[i], t) => i = 1
    BY <2>1 DEF CopiesOnce
  <2> QED
    BY <1>4, <2>2, <2>3, <2>4
<1>6. ASSUME NEW t, Replacing(Head(p), t), NEW s \in ToSet(q), Copying(s, t) PROVE FALSE
  <2>1. PICK i \in DOMAIN p : i > 1 /\ s = p[i]
    BY <1>4
  <2>2. CopiesOnce(p, i) /\ p[i].table = t
    BY <1>6, <2>1 DEF Waits, Copying
  <2>3. 1 > i
    BY <1>1, <1>2, <1>6, <2>2 DEF CopiesOnce
  <2> QED
    BY <1>2, <2>1, <2>3
<1>7. ToSet(p) = {Head(p)} \union ToSet(q)
  BY HeadAndTail DEF q
<1>8. Waits(q)
  BY <1>3 DEF Waits
<1> QED
  BY <1>5, <1>6, <1>7, <1>8 DEF q

\* What moves no rows may come before the rest of a script.
LEMMA WaitsAfter ==
  ASSUME NEW p, NEW q, IsSequence(p), IsSequence(q), Waits(q),
         \A s \in ToSet(p) : s.op \notin {"copyRows", "renameTable"}
  PROVE  Waits(p \o q)
<1> DEFINE r == p \o q
           m == Len(p)
<1>1. \A i \in DOMAIN p : p[i].op \notin {"copyRows", "renameTable"}
  BY DEF ToSet
<1>2. /\ Len(p) \in Nat /\ DOMAIN p = 1..Len(p)
      /\ Len(q) \in Nat /\ DOMAIN q = 1..Len(q)
      /\ DOMAIN r = 1..(Len(p) + Len(q))
      /\ \A i \in 1..(Len(p) + Len(q)) :
           r[i] = IF i <= Len(p) THEN p[i] ELSE q[i - Len(p)]
  BY Places
<1> HIDE DEF r, m
<1>3. ASSUME NEW i \in DOMAIN r, r[i].op \in {"copyRows", "renameTable"}
      PROVE  i - m \in DOMAIN q /\ i = m + (i - m) /\ r[i] = q[i - m] /\ i \in Nat
  <2>1. ~(i <= m)
    BY <1>1, <1>2, <1>3 DEF m
  <2> QED
    BY ONLY <1>2, <2>1, i \in DOMAIN r DEF m
<1>4. m \in Nat /\ \A j \in DOMAIN q : m + j \in DOMAIN r /\ r[m + j] = q[j] /\ j \in Nat
  BY ONLY <1>2 DEF m
<1>5. ASSUME NEW i \in DOMAIN r, r[i].op = "copyRows" PROVE CopiesOnce(r, i)
  <2> DEFINE k == i - m
             t == r[i].table
  <2>1. k \in DOMAIN q /\ r[i] = q[k] /\ i = m + k /\ k \in Nat
    BY <1>3, <1>4, <1>5
  <2> HIDE DEF k
  <2>2. CopiesOnce(q, k)
    BY <1>5, <2>1 DEF Waits
  <2>3. PICK j \in DOMAIN q : j > k /\ Replacing(q[j], t)
    BY <2>1, <2>2 DEF CopiesOnce
  <2>4. m + j \in DOMAIN r /\ m + j > i /\ Replacing(r[m + j], t)
    BY <1>4, <2>1, <2>3
  <2>5. ASSUME NEW l \in DOMAIN r, Copying(r[l], t) \/ Replacing(r[l], t)
        PROVE  (Copying(r[l], t) => l = i) /\ (Replacing(r[l], t) => l > i)
    <3>1. r[l].op \in {"copyRows", "renameTable"}
      BY <2>5 DEF Copying, Replacing
    <3> DEFINE n == l - m
    <3>2. n \in DOMAIN q /\ r[l] = q[n] /\ l = m + n /\ n \in Nat
      BY <1>3, <1>4, <3>1
    <3> HIDE DEF n
    <3>3. (Copying(q[n], t) => n = k) /\ (Replacing(q[n], t) => n > k)
      BY <2>1, <2>2, <3>2 DEF CopiesOnce
    <3> QED
      BY <1>4, <2>1, <3>2, <3>3
  <2> QED
    BY <2>1, <2>2, <2>4, <2>5 DEF CopiesOnce
<1>6. Waits(r)
  BY <1>5 DEF Waits
<1> QED
  BY <1>6 DEF r

\* The rows of table t and of its temporary one, with p left to run and after n
\* restarts: a table that is still to be rebuilt has no row twice, and of the
\* copies in the temporary one each start has made one.
Sound(db, p, n, t) ==
  LET rows == Keys(db, t)
      copies == Keys(db, TemporaryOf[t])
  IN  /\ ~HasIntegerId(db, t) => IsInjective(rows)
      /\ AtMost(rows, n + 1) /\ AtMost(copies, n + 1)
      /\ (\A s \in ToSet(p) : ~Replacing(s, t)) => AtMost(copies, n)
      /\ (\E s \in ToSet(p) : Copying(s, t)) => IsInjective(rows) /\ AtMost(copies, n)

\* It does not matter what else is left to run.
LEMMA SoundFor ==
  ASSUME NEW db, NEW p, NEW q, NEW n, NEW t, Sound(db, p, n, t),
         \A s \in ToSet(q) : Copying(s, t) => s \in ToSet(p),
         \A s \in ToSet(p) : Replacing(s, t) => s \in ToSet(q)
  PROVE  Sound(db, q, n, t)
BY DEF Sound

\* A script that is about to start copies only what is still to be rebuilt.
LEMMA SoundBegin ==
  ASSUME NEW db, NEW p, NEW n, NEW t, Sound(db, <<>>, n, t),
         \A s \in ToSet(p) : Copying(s, t) => ~HasIntegerId(db, t)
  PROVE  Sound(db, p, n, t)
<1>1. ToSet(<<>>) = {}
  BY DEF ToSet
<1> QED
  BY <1>1 DEF Sound

\* A restart leaves one more copy behind at the most.
LEMMA SoundStopped ==
  ASSUME NEW db, NEW p, NEW n \in Nat, NEW t, WellFormed(db), Sound(db, p, n, t)
  PROVE  Sound(db, <<>>, n + 1, t)
<1> DEFINE rows == Keys(db, t)
           copies == Keys(db, TemporaryOf[t])
<1>1. IsSequence(rows) /\ IsSequence(copies)
  BY KeysAreSequence
<1>2. AtMost(rows, n + 1) /\ AtMost(copies, n + 1) /\ (~HasIntegerId(db, t) => IsInjective(rows))
  BY DEF Sound
<1> HIDE DEF rows, copies
<1>3. AtMost(rows, (n + 1) + 1)
  BY <1>1, <1>2, FewerThan
<1>4. AtMost(copies, (n + 1) + 1)
  BY <1>1, <1>2, FewerThan
<1>5. ToSet(<<>>) = {}
  BY DEF ToSet
<1> QED
  BY <1>2, <1>3, <1>4, <1>5 DEF Sound, rows, copies

\* A statement that neither copies the rows of the table nor replaces it.
LEMMA SoundElse ==
  ASSUME Dialect # "mysql", NEW db, NEW s, NEW p, NEW n \in Nat,
         NEW t \in LiveTables \ {Tasks}, WellFormed(db), Allowed(s), Succeeds(db, s),
         ~Copying(s, t), ~Replacing(s, t), Sound(db, p, n, t)
  PROVE  Sound(After(db, s), p, n, t)
<1> DEFINE after == After(db, s)
           x == TemporaryOf[t]
<1>0. /\ x \notin LiveTables
      /\ \A u \in Rebuilt : u # x /\ TemporaryOf[u] # t /\ (TemporaryOf[u] = x => u = t)
      /\ x # New /\ t # New
  BY PlaceNames, TaskPlaces DEF PlacesOf
<1>1. /\ s.op = "renameTable" => s.to \notin {t, x}
      /\ s.op = "copyRows" => s.to \notin {t, x}
      /\ s.op = "insertRow" => s.table \notin {t, x}
  BY <1>0 DEF Allowed, Copying, Replacing, New
<1>2. Keys(after, t) \in {<<>>, Keys(db, t)} /\ Keys(after, x) \in {<<>>, Keys(db, x)}
  <2>1. ASSUME NEW y \in {t, x} PROVE Keys(after, y) \in {<<>>, Keys(db, y)}
    BY <1>1, <2>1, KeysBy
  <2> QED
    BY <2>1
<1>3. ~HasIntegerId(after, t) =>
        \/ Keys(after, t) = <<>>
        \/ ~HasIntegerId(db, t) /\ Keys(after, t) = Keys(db, t)
  BY KeysOfUnmigrated
<1>4. AtMost(<<>>, n) /\ AtMost(<<>>, n + 1) /\ IsInjective(<<>>)
  <2>1. IsInjective(<<>>)
    BY DEF IsInjective
  <2> QED
    BY <2>1, FewPlaces
<1> HIDE DEF after, x
<1>5. Sound(after, p, n, t)
  BY <1>2, <1>3, <1>4 DEF Sound, x
<1> QED
  BY <1>5 DEF after

\* The next statement of a script.
LEMMA SoundNext ==
  ASSUME Dialect # "mysql", NEW db, NEW p, NEW n \in Nat, NEW t \in LiveTables \ {Tasks},
         WellFormed(db), IsRest(p), p # <<>>, Waits(p), Succeeds(db, Head(p)),
         Sound(db, p, n, t)
  PROVE  Sound(After(db, Head(p)), Tail(p), n, t)
<1> DEFINE s == Head(p)
           q == Tail(p)
           after == After(db, s)
           x == TemporaryOf[t]
<1>0. Allowed(s) /\ IsSequence(p)
  BY RestTail DEF IsRest
<1>1. /\ Copying(s, t) => /\ \E r \in ToSet(q) : Replacing(r, t)
                          /\ \A r \in ToSet(q) : ~Copying(r, t)
      /\ Replacing(s, t) => \A r \in ToSet(q) : ~Copying(r, t)
      /\ ToSet(p) = {s} \union ToSet(q)
  BY <1>0, WaitsTail
<1>2. ~HasIntegerId(after, t) =>
        \/ Keys(after, t) = <<>>
        \/ ~HasIntegerId(db, t) /\ Keys(after, t) = Keys(db, t)
  BY <1>0, KeysOfUnmigrated
<1>3. AtMost(<<>>, n) /\ AtMost(<<>>, n + 1) /\ IsInjective(<<>>)
  <2>1. IsInjective(<<>>)
    BY DEF IsInjective
  <2> QED
    BY <2>1, FewPlaces
<1>4. CASE Copying(s, t)
  <2>1. s.op = "copyRows" /\ s.table = t /\ s.to = x /\ x # t
    BY <1>0, <1>4, Names DEF Copying, Allowed
  <2>2. Keys(after, t) = Keys(db, t) /\ Keys(after, x) = Keys(db, x) \o Keys(db, t)
    BY <1>0, <2>1, KeysBy
  <2>3. IsInjective(Keys(db, t)) /\ AtMost(Keys(db, x), n)
    BY <1>1, <1>4 DEF Sound
  <2>4. AtMost(Keys(db, x) \o Keys(db, t), n + 1)
    BY <2>3, KeysAreSequence, OnceMore
  <2> HIDE DEF s, q, after, x
  <2>5. /\ AtMost(Keys(after, x), n + 1) /\ AtMost(Keys(after, t), n + 1)
        /\ IsInjective(Keys(after, t))
    BY <2>2, <2>3, <2>4 DEF Sound
  <2> QED
    BY <1>1, <1>4, <2>5 DEF Sound, s, q, after, x
<1>5. CASE Replacing(s, t)
  <2>1. s.op = "renameTable" /\ s.table = x /\ s.to = t /\ x # t
    BY <1>0, <1>5, Names DEF Replacing, Allowed
  <2>2. Keys(after, t) = Keys(db, x) /\ Keys(after, x) = <<>>
    BY <1>0, <2>1, KeysBy
  <2> HIDE DEF s, q, after, x
  <2>3. AtMost(Keys(db, x), n + 1) /\ (~HasIntegerId(db, t) => IsInjective(Keys(db, t)))
    BY DEF Sound, x
  <2>4. Sound(after, q, n, t)
    BY <1>1, <1>2, <1>3, <1>5, <2>2, <2>3 DEF Sound, x
  <2> QED
    BY <2>4 DEF s, q, after, x
<1>6. CASE ~Copying(s, t) /\ ~Replacing(s, t)
  <2>1. Sound(after, p, n, t)
    BY <1>0, <1>6, SoundElse
  <2> HIDE DEF s, q, after, x
  <2>2. Sound(after, q, n, t)
    BY <1>1, <1>6, <2>1, SoundFor
  <2> QED
    BY <2>2 DEF s, q, after, x
<1> QED
  BY <1>4, <1>5, <1>6

\* What a script does with the rows it selected moves no table.
LEMMA ContinuationMovesNone ==
  ASSUME NEW db, NEW s, WellFormed(db), Succeeds(db, s) \/ s.op # "select"
  PROVE  /\ IsSequence(Continuation(db, s))
         /\ \A x \in ToSet(Continuation(db, s)) : x.op \notin {"copyRows", "renameTable"}
<1>1. CASE s.op = "select" /\ s.use = "copy tasks"
  <2>1. Continuation(db, s) = CopiesOf(db[s.table].rows)
    BY <1>1, ContinuationPlan
  <2>2. \A x \in ToSet(Continuation(db, s)) : x.op \notin {"copyRows", "renameTable"}
    BY <2>1 DEF CopiesOf, ToSet, InsertRow
  <2> QED
    BY <2>2, ContinuationPlan DEF IsRest
<1>2. CASE ~(s.op = "select" /\ s.use = "copy tasks")
  <2>1. IsPlan(Continuation(db, s))
    BY <1>2, ContinuationPlan, NoPlan
  <2> QED
    BY <2>1 DEF IsPlan, Fits, ToSet
<1> QED
  BY <1>1, <1>2

\* What up() is going to do copies the rows of a table once, and only if the
\* table has not been rebuilt.
LEMMA UpWaits ==
  ASSUME NEW name \in ScriptNames, NEW db
  PROVE  /\ Waits(Up(name, db))
         /\ \A s \in ToSet(Up(name, db)), t \in LiveTables :
              Copying(s, t) => ~HasIntegerId(db, t)
<1> DEFINE p == Up(name, db)
<1>1. CASE name \notin {"external_task/00", "external_task/02"}
  <2>1. IsMove(p, Unmigrated(db))
    BY <1>1, UpPlan
  <2>2. \A s \in ToSet(p) : s.op = "copyRows" => s.table \in Unmigrated(db)
    BY <2>1 DEF IsMove, ToSet, Fits, Drops, Renames
  <2> HIDE DEF p
  <2> QED
    BY <2>1, <2>2, MoveWaits DEF Copying, Unmigrated, p
<1>2. CASE name \in {"external_task/00", "external_task/02"}
  <2>1. \A s \in ToSet(p) : s.op # "copyRows"
    <3>1. ASSUME p = <<>> PROVE \A s \in ToSet(p) : s.op # "copyRows"
      BY <3>1 DEF ToSet
    <3>2. ASSUME NEW x, x.op = "createTable", p = <<x>>
          PROVE  \A s \in ToSet(p) : s.op # "copyRows"
      BY <3>2 DEF ToSet
    <3>3. ASSUME p = <<DescribeTable(Tasks)>> \o <<>>
          PROVE  \A s \in ToSet(p) : s.op # "copyRows"
      <4>1. IsPlan(p)
        BY <3>3, NoPlan, DescribedPlan
      <4> QED
        BY <4>1 DEF IsPlan, Fits, ToSet
    <3>4. ASSUME p = <<DescribeTable(Tasks)>> \o CopyTasks
          PROVE  \A s \in ToSet(p) : s.op # "copyRows"
      <4> DEFINE one == <<DescribeTable(Tasks)>>
      <4>1. IsSequence(one) /\ \A s \in ToSet(one) : s.op # "copyRows"
        BY DescribePlan DEF IsPlan, Fits, ToSet
      <4>2. IsSequence(CopyTasks)
        <5>1. DOMAIN CopyTasks = 1..5 /\ CopyTasks = [j \in 1..5 |-> CopyTasks[j]]
          BY DEF CopyTasks
        <5> QED
          BY ONLY <5>1, Sequence DEF IsSequence
      <4>3. \A s \in ToSet(CopyTasks) : s.op # "copyRows"
        <5>1. ToSet(CopyTasks) = {DropStale, CreateNew, SelectTasks, DropTasks, RenameNew}
          BY DEF CopyTasks, ToSet
        <5> QED
          BY <5>1, TaskStatements
      <4>4. p = one \o CopyTasks
        BY <3>4
      <4> HIDE DEF one, p
      <4>5. ToSet(p) = ToSet(one) \union ToSet(CopyTasks)
        BY ONLY <4>1, <4>2, <4>4, Concatenated
      <4> QED
        BY <4>1, <4>3, <4>5
    <3> QED
      BY <1>2, <3>1, <3>2, <3>3, <3>4, TaskScripts
  <2> HIDE DEF p
  <2> QED
    BY <2>1, NoneWaits DEF Copying, p
<1> QED
  BY <1>1, <1>2

\* What is left to run for the database d.
Pending(d) == IF d = Database THEN todo ELSE <<>>

Others == LiveTables \ {Tasks}

\* The inductive invariant for the copies in them.
OthersInv ==
  /\ Waits(todo)
  /\ \A d \in Databases, t \in Others : Sound(databases[d], Pending(d), restarts, t)

\* Every step keeps it.
LEMMA OthersStep ==
  ASSUME Dialect # "mysql", RunnerInv, TablesInv, OthersInv, [Next]_vars
  PROVE  OthersInv'
<1>0. /\ restarts \in Nat /\ Databases' = Databases
      /\ DOMAIN databases = Databases /\ \A d \in Databases : WellFormed(databases[d])
  BY MaxRestartsAssumption, LogStays DEF RunnerInv, RunnerTypeOK, TablesInv
<1>1. CASE StartRuntime \/ LogMigration \/ FinishRepository
  <2>1. todo = <<>> /\ todo' = <<>> /\ restarts' = restarts /\ databases' = databases
    BY <1>1
    DEF StartRuntime, LogMigration, FinishRepository, store, RunnerInv,
        TodoBelongsToScript, RunningScriptIsNext
  <2>2. \A d : Pending(d) = <<>> /\ Pending(d)' = <<>>
    BY <2>1 DEF Pending
  <2> QED
    BY <1>0, <2>1, <2>2 DEF OthersInv
<1>2. CASE Stop
  <2>1. todo' = <<>> /\ restarts' = restarts + 1 /\ databases' = databases
    BY <1>2 DEF Stop, store
  <2>2. \A d : Pending(d)' = <<>>
    BY <2>1 DEF Pending
  <2>3. Waits(<<>>)
    BY NoneWaits DEF ToSet
  <2>4. \A d \in Databases, t \in Others : Sound(databases[d], <<>>, restarts + 1, t)
    BY <1>0, SoundStopped DEF OthersInv
  <2> QED
    BY <1>0, <2>1, <2>2, <2>3, <2>4 DEF OthersInv
<1>3. ASSUME Database' = Database, restarts' = restarts,
             \A d \in Databases \ {Database} : databases'[d] = databases[d],
             \A t \in Others : Sound(databases'[Database], todo', restarts, t),
             Waits(todo')
      PROVE  OthersInv'
  <2>1. ASSUME NEW d \in Databases, NEW t \in Others
        PROVE  Sound(databases'[d], Pending(d)', restarts', t)
    <3>1. CASE d = Database
      BY <1>3, <3>1 DEF Pending
    <3>2. CASE d # Database
      BY <1>3, <2>1, <3>2 DEF Pending, OthersInv
    <3> QED
      BY <3>1, <3>2
  <2> QED
    BY <1>0, <1>3, <2>1 DEF OthersInv
<1>4. Database \in Databases /\ WellFormed(databases[Database])
      /\ \A t \in Others : Sound(databases[Database], todo, restarts, t)
  BY <1>0, CurrentFacts DEF RunnerInv, OthersInv, Pending
<1>5. CASE BeginScript
  <2>1. PICK i \in DOMAIN Scripts : todo' = Up(Scripts[i], databases[Database])
    BY <1>5 DEF BeginScript
  <2>2. UNCHANGED <<databases, meta, current, restarts>> /\ todo = <<>>
    BY <1>5 DEF BeginScript, store, RunnerInv, TodoBelongsToScript
  <2>3. /\ Waits(todo')
        /\ \A s \in ToSet(todo'), t \in LiveTables :
             Copying(s, t) => ~HasIntegerId(databases[Database], t)
    BY <2>1, CurrentFacts, UpWaits DEF RunnerInv
  <2>4. \A t \in Others : Sound(databases[Database], todo', restarts, t)
    BY <1>4, <2>2, <2>3, SoundBegin DEF Others
  <2>5. Database' = Database
    BY <2>2 DEF Database, Repository, DatabaseOf, Databases
  <2> QED
    BY <1>3, <2>2, <2>3, <2>4, <2>5
<1>6. CASE SendUnawaited
  <2>1. /\ todo # <<>> /\ ~IsAwaited(Head(todo)) /\ todo' = Tail(todo)
        /\ UNCHANGED <<databases, meta, current, restarts>>
    BY <1>6 DEF SendUnawaited, store
  <2>2. IsSequence(todo) /\ Head(todo).op = "dropTable" /\ Waits(todo)
    BY <2>1, RestTail DEF TablesInv, Allowed, IsRest, OthersInv
  <2>3. Waits(todo') /\ ToSet(todo) = {Head(todo)} \union ToSet(todo')
    BY <2>1, <2>2, WaitsTail
  <2>4. \A t : ~Replacing(Head(todo), t)
    BY <2>2 DEF Replacing
  <2>5. ASSUME NEW t \in Others PROVE Sound(databases[Database], todo', restarts, t)
    <3>1. /\ \A s \in ToSet(todo') : Copying(s, t) => s \in ToSet(todo)
          /\ \A s \in ToSet(todo) : Replacing(s, t) => s \in ToSet(todo')
      BY <2>3, <2>4
    <3> QED
      BY <1>4, <3>1, SoundFor
  <2>6. Database' = Database
    BY <2>1 DEF Database, Repository, DatabaseOf, Databases
  <2> QED
    BY <1>3, <2>1, <2>3, <2>5, <2>6
<1>7. CASE ExecuteStatement
  <2> DEFINE db == databases[Database]
             s == Head(todo)
             p == Continuation(db, s)
             q == Tail(todo)
             after == databases'[Database]
  <2>1. /\ todo # <<>> /\ Allowed(s) /\ IsRest(q) /\ WellFormed(db)
        /\ s.op # "setCell" => Succeeds(db, s)
        /\ todo' = p \o q
        /\ Database' = Database
        /\ after = IF Succeeds(db, s) THEN After(db, s) ELSE db
        /\ \A d \in Databases \ {Database} : databases'[d] = databases[d]
    BY <1>7, Executed
  <2>2. restarts' = restarts /\ IsRest(todo) /\ Waits(todo) /\ IsSequence(q) /\ IsSequence(todo)
    BY <1>7, <2>1 DEF ExecuteStatement, TablesInv, OthersInv, IsRest
  <2>3. /\ Waits(q) /\ ToSet(todo) = {s} \union ToSet(q)
    BY <2>1, <2>2, WaitsTail
  <2>4. /\ IsSequence(p)
        /\ \A x \in ToSet(p) : x.op \notin {"copyRows", "renameTable"}
    BY <2>1, ContinuationMovesNone
  <2>5. \A t \in Others : Sound(after, q, restarts, t)
    <3> TAKE t \in Others
    <3>1. Sound(db, todo, restarts, t) /\ t \in LiveTables \ {Tasks}
      BY <1>4 DEF Others
    <3>2. CASE Succeeds(db, s)
      BY <1>0, <2>1, <2>2, <3>1, <3>2, SoundNext
    <3>3. CASE ~Succeeds(db, s)
      <4>1. after = db /\ ~Replacing(s, t)
        BY <2>1, <3>3 DEF Replacing
      <4>2. /\ \A x \in ToSet(q) : Copying(x, t) => x \in ToSet(todo)
            /\ \A x \in ToSet(todo) : Replacing(x, t) => x \in ToSet(q)
        BY <2>3, <4>1
      <4> HIDE DEF db, s, q, after
      <4> QED
        BY <3>1, <4>1, <4>2, SoundFor
    <3> QED
      BY <3>2, <3>3
  <2> HIDE DEF db, s, p, q, after
  <2>6. Waits(todo') /\ ToSet(todo') = ToSet(p) \union ToSet(q)
    <3>1. Waits(todo')
      BY <2>1, <2>2, <2>3, <2>4, WaitsAfter
    <3>2. ToSet(todo') = ToSet(p) \union ToSet(q)
      BY ONLY <2>1, <2>2, <2>4, Concatenated
    <3> QED
      BY <3>1, <3>2
  <2>7. \A t \in Others : Sound(after, todo', restarts, t)
    <3> TAKE t \in Others
    <3>1. /\ \A x \in ToSet(todo') : Copying(x, t) => x \in ToSet(q)
          /\ \A x \in ToSet(q) : Replacing(x, t) => x \in ToSet(todo')
      BY <2>4, <2>6 DEF Copying
    <3> QED
      BY <2>5, <3>1, SoundFor
  <2> QED
    BY <1>3, <2>1, <2>2, <2>6, <2>7 DEF after
<1>8. CASE UnawaitedTakesEffect
  <2> DEFINE db == databases[Database]
             s == Head(unawaited)
             after == databases'[Database]
  <2>1. /\ Allowed(s) /\ s.op = "dropTable" /\ WellFormed(db)
        /\ Database' = Database
        /\ after = IF Succeeds(db, s) THEN After(db, s) ELSE db
        /\ \A d \in Databases \ {Database} : databases'[d] = databases[d]
    BY <1>8, TakesEffect
  <2>2. todo' = todo /\ restarts' = restarts
    BY <1>8 DEF UnawaitedTakesEffect
  <2> HIDE DEF s, after
  <2>3. \A t \in Others : Sound(after, todo', restarts, t)
    <3> TAKE t \in Others
    <3>1. ~Copying(s, t) /\ ~Replacing(s, t) /\ t \in LiveTables \ {Tasks}
      BY <2>1 DEF Copying, Replacing, Others
    <3>2. Sound(db, todo, restarts, t)
      BY <1>4
    <3>3. CASE Succeeds(db, s)
      BY <1>0, <2>1, <2>2, <3>1, <3>2, <3>3, SoundElse
    <3>4. CASE ~Succeeds(db, s)
      BY <2>1, <2>2, <3>2, <3>4
    <3> QED
      BY <3>3, <3>4
  <2> QED
    BY <1>3, <2>1, <2>2, <2>3 DEF OthersInv, after
<1>9. CASE StatementFails \/ UNCHANGED vars
  <2>1. UNCHANGED <<databases, meta, current, todo, restarts>>
    BY <1>9 DEF StatementFails, store, vars
  <2>2. Database' = Database
    BY <2>1 DEF Database, Repository, DatabaseOf, Databases
  <2> QED
    BY <1>3, <1>4, <2>1, <2>2 DEF OthersInv
<1> QED
  BY <1>1, <1>2, <1>5, <1>6, <1>7, <1>8, <1>9 DEF Next, Progress

\* A start finds each row once, and nothing in the temporary tables.
LEMMA KeysInit ==
  ASSUME NoCopiesLeft, Init
  PROVE  /\ \A d \in Databases : WellFormed(databases[d])
         /\ \A d \in Databases, t \in LiveTables :
              /\ IsInjective(Keys(databases[d], t))
              /\ Keys(databases[d], TemporaryOf[t]) = <<>>
<1>1. PICK s \in InitialStores : databases = s.databases /\ meta = s.meta
  BY DEF Init
<1>2. /\ DOMAIN databases = Databases /\ DOMAIN s.databases = Databases
      /\ \A d \in Databases : WellFormed(databases[d])
  BY <1>1, InitialTablesAssumption DEF Databases
<1>3. ASSUME NEW d \in Databases, NEW t \in LiveTables
      PROVE  /\ IsInjective(Keys(databases[d], t))
             /\ Keys(databases[d], TemporaryOf[t]) = <<>>
  <2>1. /\ Distinct(RowsOf(databases[d], t), "createdAt")
        /\ RowsOf(databases[d], TemporaryOf[t]) = <<>>
    BY <1>1, <1>2 DEF NoCopiesLeft
  <2> QED
    BY <2>1 DEF Keys, KeysOf, IsInjective, Distinct
<1> QED
  BY <1>2, <1>3

\* So the copies are within their bound.
LEMMA OthersInit == ASSUME NoCopiesLeft PROVE Init => OthersInv
<1> SUFFICES ASSUME Init PROVE OthersInv
  OBVIOUS
<1>1. todo = <<>> /\ restarts = 0 /\ \A d : Pending(d) = <<>>
  BY DEF Init, Pending
<1>2. ASSUME NEW d \in Databases, NEW t \in LiveTables
      PROVE  Sound(databases[d], <<>>, 0, t)
  <2>1. /\ IsInjective(Keys(databases[d], t)) /\ IsSequence(Keys(databases[d], t))
        /\ Keys(databases[d], TemporaryOf[t]) = <<>>
    BY KeysInit, KeysAreSequence
  <2>2. AtMost(Keys(databases[d], t), 0 + 1) /\ AtMost(<<>>, 0) /\ AtMost(<<>>, 0 + 1)
    BY <2>1, FewPlaces
  <2>3. ToSet(<<>>) = {}
    BY DEF ToSet
  <2> QED
    BY <2>1, <2>2, <2>3 DEF Sound
<1>3. Waits(<<>>)
  BY NoneWaits DEF ToSet
<1> QED
  BY <1>1, <1>2, <1>3 DEF OthersInv, Others

\* A script that was cut off leaves in the temporary table, for each restart, at
\* most one copy of a row, and the one that runs copies the table once: what is
\* left of correlation/03, flow_node_instance/02 or process_model/02 adds at most
\* one copy before the rename that makes the temporary table the live one, and
\* after that rename HasIntegerId keeps every later start from copying again.  On
\* MySQL HasIntegerId is never true.
THEOREM OthersInvariant ==
  ASSUME Dialect # "mysql", NoCopiesLeft PROVE Spec => []OthersInv
<1>1. RunnerInv /\ TablesInv /\ OthersInv /\ [Next]_vars => OthersInv'
  BY OthersStep
<1> QED
  BY <1>1, OthersInit, RunnerInvariant, TablesInvariant, PTL DEF Spec

\* The bound in terms of what is there of a key.
LEMMA CopiesBy ==
  ASSUME NEW db, NEW t, NEW n, AtMost(Keys(db, t), n)
  PROVE  \A key : Copies(db, t, key) <= n
BY DEF AtMost, PlacesOfKey, Copies, Keys, KeysOf

\* On SQLite and on PostgreSQL no row of a table but that of the external tasks
\* is there more often than once, and once more for each restart, at whatever
\* statements the starts were cut off (correlation/03, flow_node_instance/02,
\* process_model/02).
THEOREM OtherCopiesBounded ==
  ASSUME Dialect # "mysql", NoCopiesLeft
  PROVE  Spec => [](\A d \in Databases, t \in LiveTables \ {Tasks} :
                      \A key : Copies(databases[d], t, key) <= restarts + 1)
<1>1. OthersInv => \A d \in Databases, t \in LiveTables \ {Tasks} :
                     \A key : Copies(databases[d], t, key) <= restarts + 1
  BY CopiesBy DEF OthersInv, Others, Sound
<1> QED
  BY <1>1, OthersInvariant, PTL

-----------------------------------------------------------------------------
(* The copies of the external tasks.                                       *)

Inserting(s) == s.op = "insertRow"

\* The rows that are left to be inserted have keys of their own.
Fresh(p, keys) ==
  \A i \in DOMAIN p : Inserting(p[i]) =>
    /\ p[i].row.createdAt \notin ToSet(keys)
    /\ \A j \in DOMAIN p :
         Inserting(p[j]) /\ p[j].row.createdAt = p[i].row.createdAt => j = i

\* So have none.
LEMMA FreshNone ==
  ASSUME NEW p, NEW keys, \A s \in ToSet(p) : ~Inserting(s) PROVE Fresh(p, keys)
BY DEF Fresh, ToSet

\* Fewer keys are there.
LEMMA FreshEmpty == ASSUME NEW p, NEW keys, Fresh(p, keys) PROVE Fresh(p, <<>>)
<1>1. ToSet(<<>>) = {}
  BY DEF ToSet
<1> QED
  BY <1>1 DEF Fresh

\* One more key at the end.
LEMMA OneKeyMore ==
  ASSUME NEW keys, NEW key, IsSequence(keys)
  PROVE  /\ ToSet(keys \o <<key>>) = ToSet(keys) \union {key}
         /\ IsInjective(keys) /\ key \notin ToSet(keys) => IsInjective(keys \o <<key>>)
<1> DEFINE one == <<key>>
           all == keys \o one
<1>1. IsSequence(one) /\ ToSet(one) = {key} /\ one[1] = key
  <2>1. DOMAIN one = 1..1 /\ one = [i \in 1..1 |-> one[i]]
    OBVIOUS
  <2>2. IsSequence(one)
    BY ONLY <2>1, Sequence DEF IsSequence
  <2>3. ToSet(one) = {key} /\ one[1] = key
    BY DEF ToSet
  <2> QED
    BY <2>2, <2>3
<1>2. Len(one) = 1
  OBVIOUS
<1> HIDE DEF one
<1>3. ToSet(all) = ToSet(keys) \union {key}
  <2>1. all = keys \o one
    OBVIOUS
  <2> HIDE DEF all
  <2>2. ToSet(all) = ToSet(keys) \union ToSet(one)
    BY ONLY <1>1, <2>1, IsSequence(keys), Concatenated
  <2> QED
    BY <1>1, <2>2
<1>4. /\ Len(keys) \in Nat /\ DOMAIN keys = 1..Len(keys)
      /\ DOMAIN all = 1..(Len(keys) + 1)
      /\ \A i \in 1..(Len(keys) + 1) :
           all[i] = IF i <= Len(keys) THEN keys[i] ELSE one[i - Len(keys)]
  <2>1. /\ Len(keys) \in Nat /\ DOMAIN keys = 1..Len(keys)
        /\ DOMAIN all = 1..(Len(keys) + Len(one))
        /\ \A i \in 1..(Len(keys) + Len(one)) :
             all[i] = IF i <= Len(keys) THEN keys[i] ELSE one[i - Len(keys)]
    BY <1>1, Places
  <2> QED
    BY ONLY <1>2, <2>1, Zenon
<1> HIDE DEF all
<1>5. \A i \in DOMAIN all : \/ i \in DOMAIN keys /\ all[i] = keys[i]
                            \/ i = Len(keys) + 1 /\ all[i] = key
  <2> TAKE i \in DOMAIN all
  <2>1. \/ i \in DOMAIN keys /\ all[i] = keys[i]
        \/ i = Len(keys) + 1 /\ all[i] = one[1]
    BY ONLY <1>4, i \in DOMAIN all
  <2> QED
    BY <1>1, <2>1
<1>6. ASSUME IsInjective(keys), key \notin ToSet(keys) PROVE IsInjective(all)
  <2>1. \A i \in DOMAIN keys : keys[i] # key
    BY <1>6 DEF ToSet
  <2> QED
    BY <1>5, <1>6, <2>1 DEF IsInjective
<1> QED
  BY <1>3, <1>6 DEF all, one

\* After the next statement.
LEMMA FreshTail ==
  ASSUME NEW p, NEW keys, IsSequence(p), p # <<>>, IsSequence(keys), Fresh(p, keys)
  PROVE  /\ Fresh(Tail(p), keys)
         /\ Inserting(Head(p)) => /\ Head(p).row.createdAt \notin ToSet(keys)
                                  /\ Fresh(Tail(p), keys \o <<Head(p).row.createdAt>>)
<1> DEFINE q == Tail(p)
           s == Head(p)
           key == s.row.createdAt
<1>1. /\ Len(p) \in Nat /\ Len(p) > 0 /\ DOMAIN p = 1..Len(p) /\ Head(p) = p[1]
      /\ DOMAIN q = 1..(Len(p) - 1)
      /\ \A i \in 1..(Len(p) - 1) : q[i] = p[i + 1]
  BY TailOf
<1> HIDE DEF q
<1>2. /\ 1 \in DOMAIN p
      /\ \A i \in DOMAIN q : i \in Nat /\ i + 1 \in DOMAIN p /\ q[i] = p[i + 1] /\ i + 1 # 1
  BY ONLY <1>1
<1>3. ASSUME NEW i \in DOMAIN q, Inserting(q[i])
      PROVE  /\ q[i].row.createdAt \notin ToSet(keys)
             /\ \A j \in DOMAIN q :
                  Inserting(q[j]) /\ q[j].row.createdAt = q[i].row.createdAt => j = i
             /\ Inserting(s) => q[i].row.createdAt # key
  <2> DEFINE k == i + 1
  <2>1. k \in DOMAIN p /\ q[i] = p[k] /\ i \in Nat /\ k # 1
    BY <1>2
  <2>2. /\ p[k].row.createdAt \notin ToSet(keys)
        /\ \A j \in DOMAIN p :
             Inserting(p[j]) /\ p[j].row.createdAt = p[k].row.createdAt => j = k
    BY <1>3, <2>1 DEF Fresh
  <2>3. ASSUME NEW j \in DOMAIN q, Inserting(q[j]), q[j].row.createdAt = q[i].row.createdAt
        PROVE  j = i
    <3>1. j + 1 \in DOMAIN p /\ q[j] = p[j + 1] /\ j \in Nat
      BY <1>2
    <3>2. j + 1 = k
      BY <2>1, <2>2, <2>3, <3>1
    <3> QED
      BY <2>1, <3>1, <3>2
  <2>4. Inserting(s) => q[i].row.createdAt # key
    <3>1. s = p[1] /\ 1 \in DOMAIN p
      BY <1>1, <1>2
    <3> HIDE DEF s, k
    <3> QED
      BY <2>1, <2>2, <3>1
  <2> QED
    BY <2>1, <2>2, <2>3, <2>4
<1>4. Fresh(q, keys)
  BY <1>3 DEF Fresh
<1>5. ASSUME Inserting(s) PROVE key \notin ToSet(keys) /\ Fresh(q, keys \o <<key>>)
  <2>1. key \notin ToSet(keys)
    BY <1>1, <1>2, <1>5 DEF Fresh
  <2>2. ToSet(keys \o <<key>>) = ToSet(keys) \union {key}
    BY OneKeyMore
  <2> HIDE DEF key, s
  <2> QED
    BY <1>3, <1>5, <2>1, <2>2 DEF Fresh
<1> QED
  BY <1>4, <1>5 DEF q, s

\* Nothing is inserted by what comes before the rest of a script.
LEMMA FreshAfter ==
  ASSUME NEW p, NEW q, NEW keys, IsSequence(p), IsSequence(q), Fresh(q, keys),
         \A s \in ToSet(p) : ~Inserting(s)
  PROVE  Fresh(p \o q, keys)
<1> DEFINE r == p \o q
           m == Len(p)
<1>1. \A i \in DOMAIN p : ~Inserting(p[i])
  BY DEF ToSet
<1>2. /\ Len(p) \in Nat /\ DOMAIN p = 1..Len(p)
      /\ Len(q) \in Nat /\ DOMAIN q = 1..Len(q)
      /\ DOMAIN r = 1..(Len(p) + Len(q))
      /\ \A i \in 1..(Len(p) + Len(q)) :
           r[i] = IF i <= Len(p) THEN p[i] ELSE q[i - Len(p)]
  BY Places
<1> HIDE DEF r
<1>3. ASSUME NEW i \in DOMAIN r, Inserting(r[i])
      PROVE  i - m \in DOMAIN q /\ i = m + (i - m) /\ r[i] = q[i - m]
  <2>1. ~(i <= m)
    BY <1>1, <1>2, <1>3
  <2> QED
    BY ONLY <1>2, <2>1, i \in DOMAIN r DEF m
<1> HIDE DEF m
<1>4. ASSUME NEW i \in DOMAIN r, Inserting(r[i])
      PROVE  /\ r[i].row.createdAt \notin ToSet(keys)
             /\ \A j \in DOMAIN r :
                  Inserting(r[j]) /\ r[j].row.createdAt = r[i].row.createdAt => j = i
  <2> DEFINE k == i - m
  <2>1. k \in DOMAIN q /\ r[i] = q[k] /\ i = m + k
    BY <1>3, <1>4
  <2> HIDE DEF k
  <2>2. ASSUME NEW j \in DOMAIN r, Inserting(r[j]), r[j].row.createdAt = r[i].row.createdAt
        PROVE  j = i
    <3> DEFINE l == j - m
    <3>1. l \in DOMAIN q /\ r[j] = q[l] /\ j = m + l
      BY <1>3, <2>2
    <3> HIDE DEF l
    <3>2. l = k
      BY <1>4, <2>1, <2>2, <3>1 DEF Fresh
    <3> QED
      BY <2>1, <3>1, <3>2
  <2> QED
    BY <1>4, <2>1, <2>2 DEF Fresh
<1>5. Fresh(r, keys)
  BY <1>4 DEF Fresh
<1> QED
  BY <1>5 DEF r

\* Nor by what comes after the copies.
LEMMA FreshBefore ==
  ASSUME NEW p, NEW q, NEW keys, IsSequence(p), IsSequence(q), Fresh(p, keys),
         \A s \in ToSet(q) : ~Inserting(s)
  PROVE  Fresh(p \o q, keys)
<1> DEFINE r == p \o q
<1>1. \A i \in DOMAIN q : ~Inserting(q[i])
  BY DEF ToSet
<1>2. /\ Len(p) \in Nat /\ DOMAIN p = 1..Len(p)
      /\ Len(q) \in Nat /\ DOMAIN q = 1..Len(q)
      /\ DOMAIN r = 1..(Len(p) + Len(q))
      /\ \A i \in 1..(Len(p) + Len(q)) :
           r[i] = IF i <= Len(p) THEN p[i] ELSE q[i - Len(p)]
  BY Places
<1> HIDE DEF r
<1>3. \A i \in DOMAIN r : \/ i \in DOMAIN p /\ r[i] = p[i]
                          \/ i - Len(p) \in DOMAIN q /\ r[i] = q[i - Len(p)]
  BY ONLY <1>2
<1>4. \A i \in DOMAIN r : Inserting(r[i]) => i \in DOMAIN p /\ r[i] = p[i]
  BY <1>1, <1>3
<1>5. Fresh(r, keys)
  BY <1>4 DEF Fresh
<1> QED
  BY <1>5 DEF r

\* The copies of rows that have keys of their own have those keys.
LEMMA FreshCopies ==
  ASSUME NEW rows, \A i \in DOMAIN rows : Copyable(rows[i]), IsInjective(KeysOf(rows))
  PROVE  Fresh(CopiesOf(rows), <<>>)
<1>1. ASSUME NEW row, Copyable(row) PROVE CopiedTask(row).createdAt = row.createdAt
  <2>1. /\ "createdAt" \in DOMAIN MigratedTaskColumns /\ "createdAt" # "externalTaskId"
        /\ "createdAt" \in KeptColumns["ExternalTasks"]
    BY KeptFacts DEF MigratedTaskColumns, Typed, Timestamps
  <2>2. CopiedTask(row)["createdAt"] = Interpolated(row, "createdAt")
    BY <2>1 DEF CopiedTask
  <2>3. "createdAt" \in DOMAIN row /\ row["createdAt"] # Null
    BY <1>1, <2>1 DEF Copyable
  <2> QED
    BY <2>2, <2>3 DEF Interpolated
<1> DEFINE copies == CopiesOf(rows)
<1>2. DOMAIN copies = DOMAIN rows
      /\ \A i \in DOMAIN rows : copies[i].row.createdAt = rows[i].createdAt
  BY <1>1 DEF CopiesOf, InsertRow
<1>3. \A i, j \in DOMAIN rows : rows[i].createdAt = rows[j].createdAt => i = j
  BY DEF IsInjective, KeysOf
<1>4. ToSet(<<>>) = {}
  BY DEF ToSet
<1> HIDE DEF copies
<1>5. Fresh(copies, <<>>)
  BY <1>2, <1>3, <1>4 DEF Fresh
<1> QED
  BY <1>5 DEF copies

SelectsCopies(s) == s.op = "select" /\ s.use = "copy tasks"

\* The statements of external_task/02 as a set, at each place where it can be.
LEMMA PhaseStatements ==
  ASSUME NEW db, CopyPhase(db)
  PROVE  \/ ToSet(todo) \subseteq {DescribeTable(Tasks)} \union ToSet(CopyTasks)
            /\ ~SelectsCopies(Head(todo))
         \/ todo = <<SelectTasks, DropTasks, RenameNew>>
         \/ \A s \in ToSet(todo) : s.op \in {"insertRow", "dropTable", "renameTable"}
<1>0. IsSequence(CopyTasks)
  <2>1. DOMAIN CopyTasks = 1..5 /\ CopyTasks = [j \in 1..5 |-> CopyTasks[j]]
    BY DEF CopyTasks
  <2> QED
    BY ONLY <2>1, Sequence DEF IsSequence
<1>1. ToSet(CopyTasks) = {DropStale, CreateNew, SelectTasks, DropTasks, RenameNew}
  BY DEF CopyTasks, ToSet
<1>2. CASE todo = <<DescribeTable(Tasks)>> \o CopyTasks
  <2> DEFINE one == <<DescribeTable(Tasks)>>
  <2>1. IsSequence(one) /\ ToSet(one) = {DescribeTable(Tasks)}
    BY DescribePlan DEF IsPlan, ToSet
  <2>2. todo = one \o CopyTasks
    BY <1>2
  <2>3. Head(todo) = DescribeTable(Tasks)
    BY <1>0, <1>2, OneBefore
  <2> HIDE DEF one
  <2>4. ToSet(todo) = ToSet(one) \union ToSet(CopyTasks)
    BY ONLY <1>0, <2>1, <2>2, Concatenated
  <2>5. ~SelectsCopies(DescribeTable(Tasks))
    BY DEF SelectsCopies, DescribeTable
  <2> QED
    BY <2>1, <2>3, <2>4, <2>5
<1>3. CASE todo = CopyTasks
  <2>1. Head(CopyTasks) = DropStale
    BY DEF CopyTasks
  <2> QED
    BY <1>3, <2>1, TaskStatements DEF SelectsCopies
<1>4. CASE todo = <<CreateNew, SelectTasks, DropTasks, RenameNew>>
  <2>1. Head(todo) = CreateNew
        /\ ToSet(todo) = {CreateNew, SelectTasks, DropTasks, RenameNew}
    BY <1>4 DEF ToSet
  <2> QED
    BY <1>1, <2>1, TaskStatements DEF SelectsCopies
<1>5. CASE \E copies : AreCopies(copies, db) /\ todo = copies \o Dropping
  <2>1. PICK copies : AreCopies(copies, db) /\ todo = copies \o Dropping
    BY <1>5
  <2>2. IsSequence(Dropping)
    <3>1. DOMAIN Dropping = 1..2 /\ Dropping = [j \in 1..2 |-> Dropping[j]]
      BY DEF Dropping
    <3> QED
      BY ONLY <3>1, Sequence DEF IsSequence
  <2>3. IsSequence(copies) /\ \A s \in ToSet(copies) : s.op = "insertRow"
    BY <2>1 DEF AreCopies, IsRest
  <2>4. ToSet(todo) = ToSet(copies) \union ToSet(Dropping)
    BY ONLY <2>1, <2>2, <2>3, Concatenated
  <2>5. ToSet(Dropping) = {DropTasks, RenameNew}
    BY DEF Dropping, ToSet
  <2> QED
    BY <2>3, <2>4, <2>5, TaskStatements
<1>6. CASE todo = <<RenameNew>>
  <2>1. ToSet(todo) = {RenameNew}
    BY <1>6 DEF ToSet
  <2> QED
    BY <2>1, TaskStatements
<1> QED
  BY <1>2, <1>3, <1>4, <1>5, <1>6 DEF CopyPhase

\* Only the rows of the other tables are copied by the database.  A script that
\* is about to select the tasks has nothing to insert yet, and is past its drop
\* when it does.
LEMMA TaskPhases ==
  ASSUME TodoFits, IsRest(todo)
  PROVE  /\ \A s \in ToSet(todo) : s.op = "copyRows" => s.table \notin TaskTables
         /\ (\E s \in ToSet(todo) : SelectsCopies(s)) =>
              \A s \in ToSet(todo) : ~Inserting(s)
         /\ todo # <<>> /\ SelectsCopies(Head(todo)) =>
              /\ Head(todo).table = Tasks
              /\ SelectTasks \in ToSet(todo) /\ DropStale \notin ToSet(todo)
<1>0. todo # <<>> => Head(todo) \in ToSet(todo)
  <2> SUFFICES ASSUME todo # <<>> PROVE Head(todo) \in ToSet(todo)
    OBVIOUS
  <2>1. /\ Len(todo) \in Nat /\ Len(todo) > 0 /\ DOMAIN todo = 1..Len(todo)
        /\ Head(todo) = todo[1]
    BY TailOf DEF IsRest
  <2>2. 1 \in DOMAIN todo
    BY ONLY <2>1
  <2> QED
    BY <2>1, <2>2 DEF ToSet
<1>1. CASE \A s \in ToSet(todo) : Ordinary(s)
  BY <1>0, <1>1 DEF Ordinary, SelectsCopies
<1>2. CASE \E s : s.op = "createTable" /\ todo = <<s>>
  <2>1. \A s \in ToSet(todo) : s.op = "createTable"
    BY <1>2 DEF ToSet
  <2> QED
    BY <1>0, <2>1 DEF SelectsCopies, Inserting
<1>3. CASE ToSet(todo) \subseteq {DescribeTable(Tasks)} \union ToSet(CopyTasks)
           /\ ~SelectsCopies(Head(todo))
  <2>1. ToSet(CopyTasks) = {DropStale, CreateNew, SelectTasks, DropTasks, RenameNew}
    BY DEF CopyTasks, ToSet
  <2>2. DescribeTable(Tasks).op = "describeTable"
    BY DEF DescribeTable
  <2>3. \A s \in ToSet(todo) : s.op \notin {"copyRows", "insertRow"}
    BY <1>3, <2>1, <2>2, TaskStatements
  <2> QED
    BY <1>3, <2>3 DEF Inserting
<1>4. CASE todo = <<SelectTasks, DropTasks, RenameNew>>
  <2>1. ToSet(todo) = {SelectTasks, DropTasks, RenameNew} /\ Head(todo) = SelectTasks
    BY <1>4 DEF ToSet
  <2> QED
    BY <2>1, TaskStatements DEF Inserting
<1>5. CASE \A s \in ToSet(todo) : s.op \in {"insertRow", "dropTable", "renameTable"}
  BY <1>0, <1>5 DEF SelectsCopies
<1> QED
  BY <1>1, <1>2, <1>3, <1>4, <1>5, PhaseStatements DEF TodoFits

\* What external_task/00 and external_task/02 begin with.
LEMMA UpInsertsNone ==
  ASSUME NEW name \in ScriptNames, NEW db
  PROVE  /\ \A s \in ToSet(Up(name, db)) : ~Inserting(s)
         /\ SelectTasks \in ToSet(Up(name, db)) => DropStale \in ToSet(Up(name, db))
<1> DEFINE p == Up(name, db)
<1>0. SelectTasks.op = "select" /\ SelectTasks.use = "copy tasks"
  BY TaskStatements
<1>1. ASSUME NEW tables, IsMove(p, tables)
      PROVE  \A s \in ToSet(p) : ~Inserting(s) /\ s # SelectTasks
  <2>1. \A s \in ToSet(p) : Ordinary(s)
    BY <1>1, MoveIsOrdinary
  <2> HIDE DEF p
  <2>2. ASSUME NEW s, Ordinary(s) PROVE ~Inserting(s)
    BY <2>2, TaskPlaces DEF Ordinary, Allowed, Inserting, New
  <2>3. ASSUME Ordinary(SelectTasks) PROVE FALSE
    BY <1>0, <2>3 DEF Ordinary
  <2> QED
    BY <2>1, <2>2, <2>3
<1>2. CASE name \notin {"external_task/00", "external_task/02"}
  <2>1. IsMove(p, Unmigrated(db))
    BY <1>2, UpPlan
  <2> HIDE DEF p
  <2> QED
    BY <1>1, <2>1 DEF p
<1>3. CASE name \in {"external_task/00", "external_task/02"}
  <2>1. ASSUME IsPlan(p)
        PROVE  \A s \in ToSet(p) : ~Inserting(s) /\ s # SelectTasks
    BY <1>1, <2>1, PlanIsMove
  <2>2. ASSUME NEW x, x.op = "createTable", p = <<x>>
        PROVE  \A s \in ToSet(p) : ~Inserting(s) /\ s # SelectTasks
    <3>1. ToSet(p) = {x}
      BY <2>2 DEF ToSet
    <3> QED
      BY <1>0, <2>2, <3>1 DEF Inserting
  <2>3. ASSUME p = <<DescribeTable(Tasks)>> \o CopyTasks
        PROVE  (\A s \in ToSet(p) : ~Inserting(s)) /\ DropStale \in ToSet(p)
    <3> DEFINE one == <<DescribeTable(Tasks)>>
    <3>1. IsSequence(one) /\ ToSet(one) = {DescribeTable(Tasks)}
      BY DescribePlan DEF IsPlan, ToSet
    <3>2. IsSequence(CopyTasks)
      <4>1. DOMAIN CopyTasks = 1..5 /\ CopyTasks = [j \in 1..5 |-> CopyTasks[j]]
        BY DEF CopyTasks
      <4> QED
        BY ONLY <4>1, Sequence DEF IsSequence
    <3>3. ToSet(CopyTasks) = {DropStale, CreateNew, SelectTasks, DropTasks, RenameNew}
      BY DEF CopyTasks, ToSet
    <3>4. p = one \o CopyTasks
      BY <2>3
    <3> HIDE DEF one, p
    <3>5. ToSet(p) = ToSet(one) \union ToSet(CopyTasks)
      BY ONLY <3>1, <3>2, <3>4, Concatenated
    <3>6. DescribeTable(Tasks).op = "describeTable"
      BY DEF DescribeTable
    <3> QED
      BY <3>1, <3>3, <3>5, <3>6, TaskStatements DEF Inserting
  <2>4. IsPlan(<<>>) /\ IsPlan(<<DescribeTable(Tasks)>> \o <<>>)
    BY NoPlan, DescribedPlan
  <2>5. \/ IsPlan(p)
        \/ \E x : x.op = "createTable" /\ p = <<x>>
        \/ p = <<DescribeTable(Tasks)>> \o CopyTasks
    BY <1>3, <2>4, TaskScripts
  <2> HIDE DEF p
  <2> QED
    BY <2>1, <2>2, <2>3, <2>5 DEF p
<1> QED
  BY <1>2, <1>3

\* What a statement makes of the keys of the tasks and of their copies.
LEMMA TaskKeysBy ==
  ASSUME NEW db, NEW s, WellFormed(db), Allowed(s), Succeeds(db, s),
         s.op = "copyRows" => s.table \notin TaskTables
  PROVE  /\ Keys(After(db, s), Tasks) \in {<<>>, Keys(db, Tasks), Keys(db, New)}
         /\ \/ Keys(After(db, s), New) \in {<<>>, Keys(db, New)}
            \/ /\ Inserting(s)
               /\ Keys(After(db, s), New) = Keys(db, New) \o <<s.row.createdAt>>
<1>1. ASSUME s.op = "renameTable"
      PROVE  s.to # New /\ (s.to = Tasks => s.table = New)
  <2>1. PICK u \in Rebuilt : s.table = TemporaryOf[u] /\ s.to = u
    BY <1>1 DEF Allowed
  <2> QED
    BY <2>1, TaskPlaces, PlaceNames
<1>2. ASSUME s.op = "copyRows" PROVE s.to \notin {Tasks, New}
  <2>1. PICK u \in Rebuilt : s.table = u /\ s.to = TemporaryOf[u]
    BY <1>2 DEF Allowed
  <2> QED
    BY <1>2, <2>1, TaskPlaces, PlaceNames
<1>3. s.op = "insertRow" => s.table = New
  BY DEF Allowed, New
<1>4. Keys(After(db, s), Tasks) \in {<<>>, Keys(db, Tasks), Keys(db, New)}
  <2>1. Keys(After(db, s), Tasks) =
          IF s.op = "dropTable" /\ Tasks = s.table THEN <<>>
          ELSE IF s.op = "renameTable" /\ Tasks = s.table THEN <<>>
          ELSE IF s.op = "renameTable" /\ Tasks = s.to THEN Keys(db, s.table)
          ELSE IF s.op = "copyRows" /\ Tasks = s.to
               THEN Keys(db, Tasks) \o Keys(db, s.table)
          ELSE IF s.op = "insertRow" /\ Tasks = s.table
               THEN Keys(db, Tasks) \o <<s.row.createdAt>>
          ELSE Keys(db, Tasks)
    BY KeysBy
  <2>2. /\ ~(s.op = "copyRows" /\ Tasks = s.to)
        /\ ~(s.op = "insertRow" /\ Tasks = s.table)
        /\ s.op = "renameTable" /\ Tasks = s.to => s.table = New
    BY <1>1, <1>2, <1>3, TaskPlaces
  <2> QED
    BY <2>1, <2>2
<1>5. \/ Keys(After(db, s), New) \in {<<>>, Keys(db, New)}
      \/ s.op = "insertRow" /\ Keys(After(db, s), New) = Keys(db, New) \o <<s.row.createdAt>>
  BY <1>1, <1>2, <1>3, KeysBy, TaskPlaces
<1> QED
  BY <1>4, <1>5 DEF Inserting

\* Only the select of the tasks makes rows to insert.
LEMMA ContinuationInserts ==
  ASSUME NEW db, NEW s, WellFormed(db), Succeeds(db, s) \/ s.op # "select"
  PROVE  /\ IsSequence(Continuation(db, s)) /\ SelectTasks \notin ToSet(Continuation(db, s))
         /\ SelectsCopies(s) => Continuation(db, s) = CopiesOf(db[s.table].rows)
         /\ ~SelectsCopies(s) => \A x \in ToSet(Continuation(db, s)) : ~Inserting(x)
<1>0. SelectTasks.op = "select" /\ SelectTasks.use = "copy tasks"
  BY TaskStatements
<1>1. CASE SelectsCopies(s)
  <2>1. Continuation(db, s) = CopiesOf(db[s.table].rows)
    BY <1>1, ContinuationPlan DEF SelectsCopies
  <2>2. \A x \in ToSet(Continuation(db, s)) : x.op = "insertRow"
    BY <2>1 DEF CopiesOf, ToSet, InsertRow
  <2> QED
    BY <1>0, <1>1, <2>1, <2>2, ContinuationPlan DEF IsRest
<1>2. CASE ~SelectsCopies(s)
  <2>1. IsPlan(Continuation(db, s))
    BY <1>2, ContinuationPlan, NoPlan DEF SelectsCopies
  <2> QED
    BY <1>0, <1>2, <2>1 DEF IsPlan, Fits, ToSet, Inserting
<1> QED
  BY <1>1, <1>2

\* The inductive invariant for the copies of the tasks: what is left to insert is
\* not there yet, and nothing is there when the tasks are selected.
TaskKeysInv ==
  /\ \A d \in Databases :
       IsInjective(Keys(databases[d], Tasks)) /\ IsInjective(Keys(databases[d], New))
  /\ Fresh(todo, Keys(databases[Database], New))
  /\ SelectTasks \in ToSet(todo) /\ DropStale \notin ToSet(todo) /\ unawaited = <<>> =>
       Keys(databases[Database], New) = <<>>

\* A statement that is waited for.
LEMMA TaskKeysExecute ==
  ASSUME Dialect = "sqlite", RunnerInv, TablesInv, TasksInv, TaskKeysInv, ExecuteStatement
  PROVE  TaskKeysInv'
<1> DEFINE db == databases[Database]
           s == Head(todo)
           c == Continuation(db, s)
           q == Tail(todo)
           after == databases'[Database]
           keys == Keys(db, New)
           left == Keys(after, New)
<1>1. /\ todo # <<>> /\ Allowed(s) /\ IsAwaited(s) /\ IsRest(q) /\ WellFormed(db)
      /\ s.op # "setCell" => Succeeds(db, s)
      /\ todo' = c \o q
      /\ Databases' = Databases /\ Database' = Database /\ Database \in Databases
      /\ after = IF Succeeds(db, s) THEN After(db, s) ELSE db
      /\ \A d \in Databases \ {Database} : databases'[d] = databases[d]
  BY Executed
<1>2. unawaited = <<>> /\ unawaited' = <<>>
  BY DEF ExecuteStatement, ConnectionIsFree
<1>3. /\ IsSequence(todo) /\ ToSet(todo) = {s} \union ToSet(q) /\ IsSequence(q)
      /\ \A x \in ToSet(todo) : x.op = "copyRows" => x.table \notin TaskTables
      /\ (\E x \in ToSet(todo) : SelectsCopies(x)) =>
           \A x \in ToSet(todo) : ~Inserting(x)
      /\ SelectsCopies(s) => /\ s.table = Tasks /\ SelectTasks \in ToSet(todo)
                             /\ DropStale \notin ToSet(todo)
  <2>1. IsRest(todo) /\ IsSequence(todo) /\ TodoFits
    BY DEF TablesInv, IsRest, TasksInv
  <2>2. ToSet(todo) = {s} \union ToSet(q) /\ IsSequence(q)
    BY <1>1, <2>1, HeadAndTail DEF IsRest
  <2> HIDE DEF s, q
  <2>3. /\ \A x \in ToSet(todo) : x.op = "copyRows" => x.table \notin TaskTables
        /\ (\E x \in ToSet(todo) : SelectsCopies(x)) =>
             \A x \in ToSet(todo) : ~Inserting(x)
        /\ SelectsCopies(Head(todo)) =>
             /\ Head(todo).table = Tasks /\ SelectTasks \in ToSet(todo)
             /\ DropStale \notin ToSet(todo)
    BY <1>1, <2>1, TaskPhases
  <2> QED
    BY <2>1, <2>2, <2>3 DEF s
<1>4. /\ Keys(after, Tasks) \in {<<>>, Keys(db, Tasks), keys}
      /\ \/ left \in {<<>>, keys}
         \/ Inserting(s) /\ left = keys \o <<s.row.createdAt>>
  <2>1. CASE Succeeds(db, s)
    BY <1>1, <1>3, <2>1, TaskKeysBy
  <2>2. CASE ~Succeeds(db, s)
    BY <1>1, <2>2
  <2> QED
    BY <2>1, <2>2
<1>5. /\ IsSequence(keys) /\ Fresh(todo, keys)
      /\ IsInjective(keys) /\ IsInjective(Keys(db, Tasks))
      /\ SelectTasks \in ToSet(todo) /\ DropStale \notin ToSet(todo) => keys = <<>>
  BY <1>1, <1>2, KeysAreSequence DEF TaskKeysInv
<1>6. /\ IsSequence(c) /\ SelectTasks \notin ToSet(c)
      /\ SelectsCopies(s) => c = CopiesOf(db[s.table].rows)
      /\ ~SelectsCopies(s) => \A x \in ToSet(c) : ~Inserting(x)
  BY <1>1, ContinuationInserts
<1>7. IsInjective(<<>>)
  BY DEF IsInjective
<1>8. SelectsCopies(s) => /\ Exists(db, Tasks) /\ after = db
                          /\ \A i \in DOMAIN db[Tasks].rows : Copyable(db[Tasks].rows[i])
                          /\ KeysOf(db[Tasks].rows) = Keys(db, Tasks)
  <2> SUFFICES ASSUME SelectsCopies(s)
               PROVE  /\ Exists(db, Tasks) /\ after = db
                      /\ \A i \in DOMAIN db[Tasks].rows : Copyable(db[Tasks].rows[i])
                      /\ KeysOf(db[Tasks].rows) = Keys(db, Tasks)
    OBVIOUS
  <2>1. Succeeds(db, s) /\ s.op = "select" /\ s.table = Tasks
    BY <1>1, <1>3 DEF SelectsCopies
  <2>2. Exists(db, Tasks) /\ after = db
    BY <1>1, <2>1, AfterBy DEF Succeeds
  <2>3. TasksFit(db)
    BY <1>1 DEF TasksInv, TaskTablesFit
  <2> HIDE DEF db
  <2>4. \A i \in DOMAIN db[Tasks].rows : Copyable(db[Tasks].rows[i])
    BY <2>2, <2>3 DEF TasksFit, RowsOf, ToSet, Tasks
  <2> QED
    BY <2>2, <2>4, KeysWhere DEF Exists
<1> HIDE DEF db, s, c, q, after, keys, left
<1>9. Fresh(q, left) /\ IsInjective(left)
  <2>1. /\ Fresh(q, keys)
        /\ Inserting(s) => /\ s.row.createdAt \notin ToSet(keys)
                           /\ Fresh(q, keys \o <<s.row.createdAt>>)
    BY <1>1, <1>3, <1>5, FreshTail DEF s, q
  <2>2. Fresh(q, <<>>)
    BY <2>1, FreshEmpty
  <2>3. Inserting(s) => IsInjective(keys \o <<s.row.createdAt>>)
    BY <1>5, <2>1, OneKeyMore
  <2> QED
    BY <1>4, <1>5, <1>7, <2>1, <2>2, <2>3
<1>10. Fresh(todo', left)
  <2>1. CASE SelectsCopies(s)
    <3>1. \A x \in ToSet(q) : ~Inserting(x)
      BY <1>3, <2>1
    <3>2. left = <<>>
      BY <1>3, <1>5, <1>8, <2>1 DEF left, keys
    <3>3. Fresh(c, <<>>)
      BY <1>3, <1>5, <1>6, <1>8, <2>1, FreshCopies
    <3> QED
      BY <1>1, <1>3, <1>6, <3>1, <3>2, <3>3, FreshBefore
  <2>2. CASE ~SelectsCopies(s)
    BY <1>1, <1>3, <1>6, <1>9, <2>2, FreshAfter
  <2> QED
    BY <2>1, <2>2
<1>11. ASSUME SelectTasks \in ToSet(todo'), DropStale \notin ToSet(todo') PROVE left = <<>>
  <2>1. ToSet(todo') = ToSet(c) \union ToSet(q)
    BY ONLY <1>1, <1>3, <1>6, Concatenated
  <2>2. SelectTasks \in ToSet(todo)
    BY <1>3, <1>6, <1>11, <2>1
  <2>3. DropStale \notin ToSet(todo)
    BY <1>1, <1>3, <1>11, <2>1, TaskStatements
  <2>4. ~Inserting(s)
    BY <1>3, <2>2, TaskStatements DEF SelectsCopies
  <2> QED
    BY <1>4, <1>5, <2>2, <2>3, <2>4
<1>12. \A d \in Databases' :
         IsInjective(Keys(databases'[d], Tasks)) /\ IsInjective(Keys(databases'[d], New))
  <2> SUFFICES ASSUME NEW d \in Databases
               PROVE  /\ IsInjective(Keys(databases'[d], Tasks))
                      /\ IsInjective(Keys(databases'[d], New))
    BY <1>1
  <2>1. CASE d = Database
    BY <1>4, <1>5, <1>7, <1>9, <2>1 DEF after, left
  <2>2. CASE d # Database
    BY <1>1, <2>2 DEF TaskKeysInv
  <2> QED
    BY <2>1, <2>2
<1> QED
  BY <1>1, <1>10, <1>11, <1>12 DEF TaskKeysInv, left, after

\* The drop that nobody waits for leaves no copy behind.
LEMMA TaskKeysDropped ==
  ASSUME Dialect = "sqlite", RunnerInv, TablesInv, TaskKeysInv, UnawaitedTakesEffect
  PROVE  TaskKeysInv'
<1> DEFINE db == databases[Database]
           s == Head(unawaited)
           after == databases'[Database]
<1>1. /\ Allowed(s) /\ s.op = "dropTable" /\ s.table = New /\ WellFormed(db)
      /\ Databases' = Databases /\ Database' = Database /\ Database \in Databases
      /\ after = IF Succeeds(db, s) THEN After(db, s) ELSE db
      /\ \A d \in Databases \ {Database} : databases'[d] = databases[d]
  BY TakesEffect DEF New
<1>2. todo' = todo
  BY DEF UnawaitedTakesEffect
<1> HIDE DEF s, db
<1>3. Succeeds(db, s)
  BY <1>1 DEF Succeeds, Understood
<1>4. Keys(after, New) = <<>> /\ Keys(after, Tasks) = Keys(db, Tasks)
  <2>1. after = After(db, s)
    BY <1>1, <1>3
  <2> HIDE DEF after
  <2>2. Tasks # New
    BY TaskPlaces
  <2>3. Keys(After(db, s), New) = <<>> /\ Keys(After(db, s), Tasks) = Keys(db, Tasks)
    BY <1>1, <1>3, <2>2, KeysBy
  <2> QED
    BY <2>1, <2>3
<1>5. Fresh(todo, <<>>) /\ IsInjective(<<>>)
  <2>1. Fresh(todo, <<>>)
    BY FreshEmpty DEF TaskKeysInv
  <2>2. IsInjective(<<>>)
    BY DEF IsInjective
  <2> QED
    BY <2>1, <2>2
<1>6. \A d \in Databases :
        IsInjective(Keys(databases'[d], Tasks)) /\ IsInjective(Keys(databases'[d], New))
  <2> TAKE d \in Databases
  <2>1. CASE d = Database
    BY <1>4, <1>5, <2>1 DEF TaskKeysInv, db
  <2>2. CASE d # Database
    BY <1>1, <2>2 DEF TaskKeysInv
  <2> QED
    BY <2>1, <2>2
<1> QED
  BY <1>1, <1>2, <1>4, <1>5, <1>6 DEF TaskKeysInv

\* Every step.
LEMMA TaskKeysStep ==
  ASSUME Dialect = "sqlite", RunnerInv, TablesInv, TasksInv, TaskKeysInv, [Next]_vars
  PROVE  TaskKeysInv'
<1>0. Databases' = Databases
  BY LogStays
<1>2. ASSUME databases' = databases, SelectTasks \in ToSet(todo') => DropStale \in ToSet(todo'),
             \A s \in ToSet(todo') : ~Inserting(s)
      PROVE  TaskKeysInv'
  BY <1>0, <1>2, FreshNone DEF TaskKeysInv
<1>3. CASE StartRuntime \/ LogMigration \/ FinishRepository \/ Stop
  <2>1. databases' = databases /\ todo' = <<>>
    BY <1>3
    DEF StartRuntime, LogMigration, FinishRepository, Stop, store, RunnerInv,
        TodoBelongsToScript, RunningScriptIsNext
  <2>2. ToSet(todo') = {}
    BY <2>1 DEF ToSet
  <2> QED
    BY <1>2, <2>1, <2>2
<1>4. CASE BeginScript
  <2>1. PICK i \in DOMAIN Scripts : todo' = Up(Scripts[i], databases[Database])
    BY <1>4 DEF BeginScript
  <2>2. databases' = databases
    BY <1>4 DEF BeginScript, store
  <2> QED
    BY <1>2, <2>1, <2>2, CurrentFacts, UpInsertsNone DEF RunnerInv
<1>5. CASE SendUnawaited
  <2>1. /\ todo # <<>> /\ todo' = Tail(todo) /\ unawaited' = Append(unawaited, Head(todo))
        /\ UNCHANGED <<databases, meta, current>>
    BY <1>5 DEF SendUnawaited, store
  <2>2. Database' = Database /\ Database \in Databases /\ WellFormed(databases[Database])
    <3>1. Database' = Database
      BY <2>1 DEF Database, Repository, DatabaseOf, Databases
    <3> QED
      BY <3>1, CurrentFacts DEF RunnerInv, TablesInv
  <2>3. unawaited' # <<>>
    <3> DEFINE S == ToSet(unawaited)
               x == Head(todo)
    <3>1. unawaited \in Seq(S) /\ unawaited' = Append(unawaited, x)
      BY <2>1 DEF TablesInv, IsRest, IsSequence
    <3> HIDE DEF S, x
    <3> QED
      BY ONLY <3>1
  <2>4. Fresh(todo', Keys(databases[Database], New))
    <3>1. IsSequence(todo)
      BY DEF TablesInv, IsRest
    <3>2. IsSequence(Keys(databases[Database], New))
      BY <2>2, KeysAreSequence
    <3> QED
      BY <2>1, <3>1, <3>2, FreshTail DEF TaskKeysInv
  <2> QED
    BY <1>0, <2>1, <2>2, <2>3, <2>4 DEF TaskKeysInv
<1>6. CASE StatementFails \/ UNCHANGED vars
  <2>1. UNCHANGED <<databases, meta, current, todo, unawaited>>
    BY <1>6 DEF StatementFails, store, vars
  <2>2. Database' = Database
    BY <2>1 DEF Database, Repository, DatabaseOf, Databases
  <2> QED
    BY <1>0, <2>1, <2>2 DEF TaskKeysInv
<1> QED
  BY <1>3, <1>4, <1>5, <1>6, TaskKeysExecute, TaskKeysDropped DEF Next, Progress

\* A start finds no copies.
LEMMA TaskKeysInit == ASSUME NoCopiesLeft PROVE Init => TaskKeysInv
<1> SUFFICES ASSUME Init PROVE TaskKeysInv
  OBVIOUS
<1>1. \A d \in Databases :
        IsInjective(Keys(databases[d], Tasks)) /\ Keys(databases[d], New) = <<>>
  BY KeysInit, TaskPlaces
<1>2. IsInjective(<<>>)
  BY DEF IsInjective
<1>3. ToSet(todo) = {}
  BY DEF Init, ToSet
<1> QED
  BY <1>1, <1>2, <1>3, FreshNone DEF TaskKeysInv

\* external_task/02 selects the tasks when no copy of them is left, and inserts
\* each once: at every statement what is still to be inserted has keys that the
\* copies do not have.
THEOREM TaskKeysInvariant ==
  ASSUME Dialect = "sqlite", NoCopiesLeft PROVE Spec => []TaskKeysInv
<1>1. RunnerInv /\ TablesInv /\ TasksInv /\ TaskKeysInv /\ [Next]_vars => TaskKeysInv'
  BY TaskKeysStep
<1> QED
  BY <1>1, TaskKeysInit, RunnerInvariant, TablesInvariant, TasksInvariant, PTL DEF Spec

\* A task is never in its table twice: the drop with which external_task/02
\* begins (its lines 24 to 30), and which SQLite runs before the
\* table is created again, keeps a task from ever being there twice, however
\* often the script is cut off.
THEOREM TasksCopiedOnce ==
  ASSUME Dialect = "sqlite", NoCopiesLeft
  PROVE  Spec => [](\A d \in Databases : \A key : Copies(databases[d], Tasks, key) <= 1)
<1>1. TablesInv /\ TaskKeysInv =>
        \A d \in Databases : \A key : Copies(databases[d], Tasks, key) <= 1
  <2> SUFFICES ASSUME TablesInv, TaskKeysInv, NEW d \in Databases
               PROVE  \A key : Copies(databases[d], Tasks, key) <= 1
    OBVIOUS
  <2>1. IsSequence(Keys(databases[d], Tasks)) /\ IsInjective(Keys(databases[d], Tasks))
    BY KeysAreSequence DEF TablesInv, TaskKeysInv
  <2>2. AtMost(Keys(databases[d], Tasks), 1)
    BY <2>1, FewPlaces
  <2> QED
    BY <2>2, CopiesBy
<1> QED
  BY <1>1, TablesInvariant, TaskKeysInvariant, PTL

\* So every table of SQLite has its rows within the bound: once, and once more for
\* each restart (correlation/03, external_task/02, flow_node_instance/02,
\* process_model/02).
THEOREM CopiesAreBounded ==
  ASSUME Dialect = "sqlite", NoCopiesLeft PROVE Spec => []CopiesBounded
<1>0. Dialect # "mysql"
  OBVIOUS
<1>1. RunnerInv /\ TablesInv /\ OthersInv /\ TaskKeysInv => CopiesBounded
  <2> SUFFICES ASSUME RunnerInv, TablesInv, OthersInv, TaskKeysInv,
                      NEW d \in Databases, NEW t \in LiveTables, NEW key
               PROVE  Copies(databases[d], t, key) <= 1 + restarts
    BY DEF CopiesBounded
  <2>0. restarts \in Nat
    BY MaxRestartsAssumption DEF RunnerInv, RunnerTypeOK
  <2>1. IsSequence(Keys(databases[d], t))
    BY KeysAreSequence DEF TablesInv
  <2>2. AtMost(Keys(databases[d], t), 1 + restarts)
    <3>1. CASE t = Tasks
      <4>1. AtMost(Keys(databases[d], t), 1)
        BY <2>1, <3>1, FewPlaces DEF TaskKeysInv
      <4>2. 1 + restarts \in Nat /\ 1 <= 1 + restarts
        BY <2>0
      <4> QED
        BY <2>1, <4>1, <4>2, FewerThan
    <3>2. CASE t # Tasks
      <4>1. AtMost(Keys(databases[d], t), restarts + 1)
        BY <3>2 DEF OthersInv, Others, Sound
      <4>2. restarts + 1 = 1 + restarts
        BY <2>0
      <4> QED
        BY <4>1, <4>2
    <3> QED
      BY <3>1, <3>2
  <2> QED
    BY <2>2, CopiesBy
<1> QED
  BY <1>0, <1>1, RunnerInvariant, TablesInvariant, OthersInvariant, TaskKeysInvariant, PTL
=============================================================================
