---------------------------- MODULE SqlDatabase ----------------------------
(***************************************************************************)
(* The relational database as the migration scripts reach it: the          *)
(* QueryInterface of Sequelize and the raw SQL sent through                *)
(* queryInterface.sequelize.query.  Neither is code of the repository;     *)
(* they are modelled from the calls the scripts make.                      *)
(*                                                                         *)
(* A database maps the names of its tables to tables.  A table has the     *)
(* declared type of each column, the columns declared UNIQUE, its indexes  *)
(* and its rows, in the order of insertion.  A row maps columns to values. *)
(* An autoincremented INTEGER id is the row's position and no value of it. *)
(*                                                                         *)
(* A statement is one awaited call of a script.  It is atomic, it either   *)
(* succeeds and has its effect, or fails and has none.                     *)
(***************************************************************************)
EXTENDS Naturals, Sequences, FiniteSets, SequencesExt

CONSTANT Dialect

ASSUME DialectAssumption == Dialect \in {"sqlite", "postgres", "mysql"}

Null == "NULL"              \* SQL's NULL, JavaScript's null
NullText == "'null'"        \* the text a template literal makes of null
UndefinedText == "'undefined'"  \* ... and of a property that is missing

-----------------------------------------------------------------------------
(* Tables.                                                                 *)

\* f with the value y for x, whether or not it had one.
With(f, x, y) == [z \in DOMAIN f \union {x} |-> IF z = x THEN y ELSE f[z]]

Without(f, x) == [y \in DOMAIN f \ {x} |-> f[y]]

\* Columns by their types: a function from types to disjoint sets of columns.
Typed(columnsOf) ==
  [c \in UNION {columnsOf[type] : type \in DOMAIN columnsOf} |->
     CHOOSE type \in DOMAIN columnsOf : c \in columnsOf[type]]

Timestamps == {"createdAt", "updatedAt"}

Exists(db, table) == table \in DOMAIN db

HasColumn(db, table, column) ==
  Exists(db, table) /\ column \in DOMAIN db[table].columns

HasColumns(db, table, columns) == \A c \in columns : HasColumn(db, table, c)

\* describeTable reports MySQL's INTEGER as INT(11): the scripts compare the
\* reported type of the id with the text 'INTEGER'.
HasIntegerId(db, table) ==
  /\ HasColumn(db, table, "id")
  /\ db[table].columns["id"] = "INTEGER"
  /\ Dialect # "mysql"

-----------------------------------------------------------------------------
(* Statements.  createTable creates IF NOT EXISTS, dropTable drops IF      *)
(* EXISTS; every other statement fails on a table or column it does not    *)
(* find.                                                                   *)

DescribeTable(table) == [op |-> "describeTable", table |-> table]

CreateTable(table, columns, unique) ==
  [op |-> "createTable", table |-> table, columns |-> columns, unique |-> unique]

DropTable(table) == [op |-> "dropTable", table |-> table]

RenameTable(table, to) == [op |-> "renameTable", table |-> table, to |-> to]

AddColumn(table, column, type, default) ==
  [op |-> "addColumn", table |-> table, column |-> column, type |-> type,
   default |-> default]

ChangeColumn(table, column, type) ==
  [op |-> "changeColumn", table |-> table, column |-> column, type |-> type]

RemoveColumn(table, column) ==
  [op |-> "removeColumn", table |-> table, column |-> column]

\* Indexes named after their columns; a second one of the same name fails.
AddIndex(table, columns) ==
  [op |-> "addIndex", table |-> table, columns |-> columns]

\* INSERT INTO to (columns) SELECT columns FROM table
CopyRows(table, to, columns) ==
  [op |-> "copyRows", table |-> table, to |-> to, columns |-> columns]

InsertRow(table, row) == [op |-> "insertRow", table |-> table, row |-> row]

\* UPDATE table SET column = value WHERE id = position
SetCell(table, position, column, value) ==
  [op |-> "setCell", table |-> table, position |-> position,
   column |-> column, value |-> value]

\* UPDATE table SET c = (SELECT assignments[c] FROM source WHERE every pair
\* <<column of source, column of table>> of match is equal LIMIT 1), for each
\* c; a column of required is declared NOT NULL.
FillFrom(table, assignments, source, match, required) ==
  [op |-> "fillFrom", table |-> table, assignments |-> assignments,
   source |-> source, match |-> match, required |-> required]

\* SELECT * FROM table; use says what the script does with the result.
Select(table, use) == [op |-> "select", table |-> table, use |-> use]

\* How the text of a raw query writes its names.  MySQL takes "Name" for a
\* string, Postgres takes an unquoted Name for name.
DoubleQuoted(statement) == With(statement, "quoting", "double")
Unquoted(statement) == With(statement, "quoting", "none")

\* The error of the statement is caught and logged by the script.
Caught(statement) == With(statement, "caught", TRUE)

\* The script does not wait for the statement.
NotAwaited(statement) == With(statement, "awaited", FALSE)

IsCaught(statement) == "caught" \in DOMAIN statement
IsAwaited(statement) == "awaited" \notin DOMAIN statement

-----------------------------------------------------------------------------
(* When a statement succeeds.                                              *)

Understood(statement) ==
  "quoting" \in DOMAIN statement =>
    <<Dialect, statement.quoting>>
      \notin {<<"mysql", "double">>, <<"postgres", "none">>}

Distinct(rows, column) ==
  \A i, j \in DOMAIN rows : rows[i][column] = rows[j][column] => i = j

UniqueHolds(table, rows) == \A c \in table.unique : Distinct(rows, c)

\* SQLite stores any text in any column, the others parse it.
Storable(table, row) ==
  Dialect = "sqlite" \/
    \A c \in DOMAIN row :
      table.columns[c] \in {"DATE", "INTEGER"} =>
        row[c] \notin {NullText, UndefinedText}

\* Where in the source the rows are that match a row.
Matches(db, statement, row) ==
  LET source == db[statement.source].rows
  IN  {i \in DOMAIN source : \A m \in statement.match : source[i][m[1]] = row[m[2]]}

Applies(db, statement) ==
  LET table == db[statement.table]
  IN  CASE statement.op \in {"describeTable", "select"} -> TRUE
        [] statement.op = "renameTable" -> ~Exists(db, statement.to)
        [] statement.op = "addColumn" ->
             statement.column \notin DOMAIN table.columns
        [] statement.op \in {"changeColumn", "removeColumn", "setCell"} ->
             statement.column \in DOMAIN table.columns
        [] statement.op = "addIndex" ->
             /\ ToSet(statement.columns) \subseteq DOMAIN table.columns
             /\ statement.columns \notin table.indexes
             \* MySQL indexes no TEXT column
             /\ Dialect = "mysql" => \A c \in ToSet(statement.columns) :
                                       table.columns[c] # "TEXT"
        [] statement.op = "copyRows" ->
             /\ HasColumns(db, statement.table, statement.columns)
             /\ HasColumns(db, statement.to, statement.columns)
             /\ UniqueHolds(db[statement.to], db[statement.to].rows \o table.rows)
        [] statement.op = "insertRow" ->
             /\ HasColumns(db, statement.table, DOMAIN statement.row)
             /\ Storable(table, statement.row)
        [] statement.op = "fillFrom" ->
             LET assigned == statement.assignments IN
             /\ HasColumns(db, statement.table,
                           DOMAIN assigned \union {m[2] : m \in statement.match})
             /\ HasColumns(db, statement.source,
                           {assigned[c] : c \in DOMAIN assigned}
                             \union {m[1] : m \in statement.match})
             /\ statement.required # {} =>
                  \A i \in DOMAIN table.rows :
                    Matches(db, statement, table.rows[i]) # {}

Succeeds(db, statement) ==
  /\ Understood(statement)
  /\ \/ statement.op \in {"createTable", "dropTable"}
     \/ Exists(db, statement.table) /\ Applies(db, statement)

-----------------------------------------------------------------------------
(* What a statement that succeeds does.                                    *)

MapRows(rows, F(_)) == [i \in DOMAIN rows |-> F(rows[i])]

\* LIMIT 1 without an order: the first row inserted.
Filled(db, statement, row) ==
  LET found == Matches(db, statement, row)
  IN  [c \in DOMAIN row |->
         IF c \notin DOMAIN statement.assignments THEN row[c]
         ELSE IF found = {} THEN Null
         ELSE db[statement.source].rows[Min(found)][statement.assignments[c]]]

Changed(db, statement) ==
  LET table == db[statement.table]
  IN  CASE statement.op = "addColumn" ->
             [table EXCEPT
               !.columns = With(@, statement.column, statement.type),
               !.rows = MapRows(@, LAMBDA r :
                                     With(r, statement.column, statement.default))]
        [] statement.op = "changeColumn" ->
             [table EXCEPT !.columns[statement.column] = statement.type]
        [] statement.op = "removeColumn" ->
             [table EXCEPT
               !.columns = Without(@, statement.column),
               !.rows = MapRows(@, LAMBDA r : Without(r, statement.column))]
        [] statement.op = "addIndex" ->
             [table EXCEPT !.indexes = @ \union {statement.columns}]
        [] statement.op = "insertRow" ->
             [table EXCEPT !.rows = Append(@, statement.row)]
        [] statement.op = "setCell" ->
             [table EXCEPT !.rows[statement.position][statement.column] =
                             statement.value]
        [] statement.op = "fillFrom" ->
             [table EXCEPT !.rows = MapRows(@, LAMBDA r : Filled(db, statement, r))]

After(db, statement) ==
  CASE statement.op \in {"describeTable", "select"} -> db
    [] statement.op = "createTable" ->
         IF Exists(db, statement.table) THEN db
         ELSE With(db, statement.table,
                   [columns |-> statement.columns, unique |-> statement.unique,
                    indexes |-> {}, rows |-> <<>>])
    [] statement.op = "dropTable" -> Without(db, statement.table)
    [] statement.op = "renameTable" ->
         With(Without(db, statement.table), statement.to, db[statement.table])
    [] statement.op = "copyRows" ->
         [db EXCEPT ![statement.to].rows =
            @ \o MapRows(db[statement.table].rows,
                         LAMBDA r : [c \in statement.columns |-> r[c]])]
    [] OTHER -> [db EXCEPT ![statement.table] = Changed(db, statement)]

=============================================================================
