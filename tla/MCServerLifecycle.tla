------------------------- MODULE MCServerLifecycle -------------------------
(* Two connection threads, the two drivers with a server process and one  *)
(* without, and a two-iteration db.open() loop.                            *)
EXTENDS ServerLifecycle, TLC

CONSTANTS k1, k2, r1, col1

MCConns == {k1, k2}
MCDrivers == {"QMYSQL", "QPSQL", "QSQLITE"}
\* SQLite alone: its schema carries no foreign key.
MCSqlite == {"QSQLITE"}

\* One resource instance and one collection slot: enough for a collection
\* to be created while that resource is being removed.
MCResourceNames == {r1}
MCCollectionSlots == {col1}

\* The referential actions DbInitializer can emit: the template's choice
\* for the resource foreign key is not part of this code.
MCOnDeleteActions == {"Cascade", "Restrict", "SetNull"}
====
