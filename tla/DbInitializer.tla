---------------------------- MODULE DbInitializer ----------------------------
(***************************************************************************)
(* The per-dialect DDL builders of src/server/src/storage/dbinitializer_p.cpp *)
(* (MySQL, SQLite, PostgreSQL, Virtuoso): what constraints the CREATE      *)
(* TABLE statement they build gives a column of the schema template.      *)
(*                                                                         *)
(* A statement is modelled by what it does, the set of constraint clauses  *)
(* it declares for the column; names, SQL types and the text layout are   *)
(* left out.  A column description (dbinitializer.h, ColumnDescription)   *)
(* is reduced to its flags, its foreign key's ON DELETE action (NoRef when *)
(* refTable or refColumn is empty) and whether it has a default; the table *)
(* contributes primaryKeyColumnCount().                                    *)
(***************************************************************************)
EXTENDS Naturals, Sequences

Dialects == {"MySql", "Sqlite", "PostgreSql", "Virtuoso"}

\* ColumnDescription::ReferentialAction
ReferentialActions == {"Cascade", "Restrict", "SetNull"}
NoRef == "NoRef"

\* An empty defaultValue, a value, and the one value Virtuoso treats apart.
Defaults == {"NoDefault", "Value", "CURRENT_TIMESTAMP"}

ColumnDescriptions ==
    [allowNull : BOOLEAN, isAutoIncrement : BOOLEAN, isPrimaryKey : BOOLEAN,
     isUnique : BOOLEAN, onDelete : ReferentialActions \cup {NoRef},
     defaultValue : Defaults]

\* primaryKeyColumnCount() of a table that has column c.
PkCounts(c) == IF c.isPrimaryKey THEN 1..2 ELSE 0..2

\* The clause x when b holds.
When(b, x) == IF b THEN {x} ELSE {}

\* REFERENCES ... ON DELETE a (buildReferentialAction), column- or table-level.
Ref(a) == "REFERENCES ON DELETE " \o a

RefClause(c) == When(c.onDelete # NoRef, Ref(c.onDelete))

\* A non-empty defaultValue becomes DEFAULT sqlValue(...).
HasDefault(c) == c.defaultValue # "NoDefault"

\* buildPrimaryKeyStatement(), added by every dialect's
\* buildCreateTableStatement() when the key has more than one column.
KeyPart(c, n) == When(c.isPrimaryKey /\ n > 1, "KeyPart")

MySqlColumnMutant(c, n) ==
    When(~c.allowNull, "NotNull") \cup When(c.isAutoIncrement, "AutoIncrement")
    \cup When(c.isPrimaryKey, "PrimaryKey")
    \cup When(c.isUnique, "Unique") \cup When(HasDefault(c), "Default")

MySqlColumn(c, n) ==
    When(~c.allowNull, "NotNull") \cup When(c.isAutoIncrement, "AutoIncrement")
    \cup When(c.isPrimaryKey /\ n = 1, "PrimaryKey")
    \cup When(c.isUnique, "Unique") \cup When(HasDefault(c), "Default")

\* MySQL puts the foreign keys after the columns as FOREIGN KEY clauses.
MySqlTable(c, n) == MySqlColumn(c, n) \cup KeyPart(c, n) \cup RefClause(c)

\* SQLite: UNIQUE only when not the single-column PRIMARY KEY.
SqliteColumn(c, n) ==
    When(c.isAutoIncrement, "AutoIncrement")
    \cup (IF c.isPrimaryKey /\ n = 1 THEN {"PrimaryKey"}
          ELSE When(c.isUnique, "Unique"))
    \cup When(~c.allowNull, "NotNull") \cup When(HasDefault(c), "Default")

\* SQLite's CREATE TABLE has no foreign key clause at all.
SqliteTable(c, n) == SqliteColumn(c, n) \cup KeyPart(c, n)

\* PostgreSQL: SERIAL for auto-increment, NOT NULL left to the single
\* PRIMARY KEY, REFERENCES on the column.
PostgreSqlColumn(c, n) ==
    When(c.isAutoIncrement, "AutoIncrement")
    \cup (IF c.isPrimaryKey /\ n = 1 THEN {"PrimaryKey"}
          ELSE When(c.isUnique, "Unique"))
    \cup When(~c.allowNull /\ ~(c.isPrimaryKey /\ n = 1), "NotNull")
    \cup RefClause(c) \cup When(HasDefault(c), "Default")

PostgreSqlTable(c, n) == PostgreSqlColumn(c, n) \cup KeyPart(c, n)

\* Virtuoso: IDENTITY, REFERENCES on the column, and no DEFAULT whose value
\* is CURRENT_TIMESTAMP.
VirtuosoColumn(c, n) ==
    When(~c.allowNull, "NotNull") \cup When(c.isAutoIncrement, "AutoIncrement")
    \cup When(c.isPrimaryKey /\ n = 1, "PrimaryKey")
    \cup When(c.isUnique, "Unique") \cup RefClause(c)
    \cup When(HasDefault(c) /\ c.defaultValue # "CURRENT_TIMESTAMP", "Default")

VirtuosoTable(c, n) == VirtuosoColumn(c, n) \cup KeyPart(c, n)

\* The clauses the dialect's CREATE TABLE declares for column c.
Declared(d, c, n) ==
    CASE d = "MySql"      -> MySqlTable(c, n)
      [] d = "Sqlite"     -> SqliteTable(c, n)
      [] d = "PostgreSql" -> PostgreSqlTable(c, n)
      [] d = "Virtuoso"   -> VirtuosoTable(c, n)

\* DbInitializer::createInstance(): the initializer for a Qt SQL driver.
DialectOf(driver) ==
    CASE driver = "QMYSQL"  -> "MySql"
      [] driver = "QSQLITE" -> "Sqlite"
      [] driver = "QPSQL"   -> "PostgreSql"
      [] OTHER              -> "Virtuoso"

(***************************************************************************)
(* Reference: the constraints the description asks for, and what SQL      *)
(* makes of them (a single-column primary key is unique and not null, a   *)
(* column of a composite key is not null).                                 *)
(***************************************************************************)
Described(c, n) ==
    When(~c.allowNull, "NotNull") \cup When(c.isAutoIncrement, "AutoIncrement")
    \cup When(c.isPrimaryKey /\ n = 1, "PrimaryKey") \cup KeyPart(c, n)
    \cup When(c.isUnique, "Unique") \cup RefClause(c)
    \cup When(HasDefault(c), "Default")

Implied(S) ==
    S \cup (IF "PrimaryKey" \in S THEN {"Unique", "NotNull"} ELSE {})
      \cup (IF "KeyPart" \in S THEN {"NotNull"} ELSE {})

\* The clauses a dialect leaves out of what a description asks for: SQLite
\* every foreign key, Virtuoso a CURRENT_TIMESTAMP default.
Omitted(d, c) ==
    (IF d = "Sqlite" THEN RefClause(c) ELSE {})
    \cup (IF d = "Virtuoso" /\ c.defaultValue = "CURRENT_TIMESTAMP"
          THEN {"Default"} ELSE {})

(***************************************************************************)
(* Every dialect's CREATE TABLE gives every column of the template the     *)
(* constraints its description asks for, no more and no fewer, except the *)
(* omissions above: the four buildColumnStatement() and                    *)
(* buildCreateTableStatement() implementations agree on NOT NULL, keys,   *)
(* UNIQUE, auto-increment, references and defaults.                        *)
(***************************************************************************)
SchemaKeepsColumns ==
    \A d \in Dialects, c \in ColumnDescriptions : \A n \in PkCounts(c) :
        Implied(Declared(d, c, n)) = Implied(Described(c, n)) \ Omitted(d, c)

=============================================================================
