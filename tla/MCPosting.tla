----------------------------- MODULE MCPosting -----------------------------
(***************************************************************************)
(* Instances of Posting for TLC.                                           *)
(***************************************************************************)
EXTENDS Posting

CONSTANTS a, b, c            \* groups
CONSTANT h1                  \* the host part of an anonymous Message-ID

\* A cross-posting, and ones that name a group twice.
LinesBoth  == {<<a, b>>}
LinesCross == {<<b, a>>, <<a, b, a>>, <<a, b, b>>}
\* The shortest line the charstack does not see through.
LinesABCB  == {<<a, b, c, b>>}
LinesA     == {<<a>>}

\* The engines with their files, and PostgreSQL with all it can keep.
Sqlite3 == [dbase |-> "sqlite3", bodyInDb |-> FALSE, countInDb |-> FALSE,
            beside |-> FALSE]
Mysql   == [Sqlite3 EXCEPT !.dbase = "mysql"]
Postgres == [Sqlite3 EXCEPT !.dbase = "postgres"]
PostgresBody  == [Postgres EXCEPT !.bodyInDb = TRUE]
PostgresAll   == [PostgresBody EXCEPT !.countInDb = TRUE]
\* Settings accepted before the engine was changed again.
MysqlBody  == [Mysql EXCEPT !.bodyInDb = TRUE]
MysqlCount == [Mysql EXCEPT !.countInDb = TRUE]
PostgresCount == [Postgres EXCEPT !.countInDb = TRUE]

ConfSqlite  == {Sqlite3}
ConfAll     == {Sqlite3, Mysql, PostgresBody, PostgresAll}
ConfMany    == ConfAll \cup {MysqlBody, MysqlCount, PostgresCount}
\* SQLite with the tool used in between, and each engine with the tool beside.
ConfTool    == {Sqlite3} \cup
               {[e EXCEPT !.beside = TRUE] : e \in {Sqlite3, Mysql, Postgres}}

\* anonym_message_ids: all connections share one host part.
OneHost == [t \in Thread |-> h1]
=============================================================================
