----------------------------- MODULE LuaSqlite -----------------------------
(***************************************************************************)
(* The SQLite binding of the Lua interpreter (src/lib/LuaSqlite.cpp).      *)
(*                                                                         *)
(* Each script runs in a worker thread with a Lua state of its own; the    *)
(* database files are shared.  A database is a userdata holding a          *)
(* connection, a query is a userdata holding a prepared statement and a    *)
(* copy of the connection.  The garbage collector may take a userdata that *)
(* the script has dropped at any moment, and takes all of them, in any     *)
(* order, when the state is closed.  An error raised by a function ends    *)
(* the script unless the script caught it (pcall).                         *)
(*                                                                         *)
(* The data is one table of numbers per file; a query selects the rows     *)
(* equal to one of its two parameters, or inserts its first parameter.     *)
(***************************************************************************)
EXTENDS Integers, Sequences, FiniteSets

CONSTANTS
  Scripts,      \* the scripts that run concurrently
  Paths,        \* names a script may pass to sqlite()
  Values,       \* values of a row
  Rows,         \* the rows of a file at the start
  Missing,      \* the paths with no file behind them
  MaxDbs,       \* bound: databases the scripts open, together
  MaxStmts      \* bound: queries the scripts prepare, together

ASSUME MissingAssumption == Missing \subseteq Paths
ASSUME RowsAssumption == Rows \subseteq Values
ASSUME ValuesAssumption == Values \subseteq Nat \ {0}

VARIABLES
  files,    \* path -> set of rows, or Absent
  dbs,      \* script -> sequence of Sqlite userdata
  conns,    \* script -> sequence of sqlite3 connections (external)
  stmts,    \* script -> sequence of Stmt userdata
  preps,    \* script -> sequence of prepared statements (external)
  status    \* script -> "running", "closing" (lua_close), "closed", "crashed"

vars == <<files, dbs, conns, stmts, preps, status>>

Absent == {-1}         \* no file
Modes == {"none", "RO", "RW", "CRW"}
Sqls == {"select", "insert"}
Null == 0          \* an unbound parameter (NULL)
Bad == -1          \* an argument no SQLite type corresponds to (a table, a function)
Args == {<<>>} \cup {<<a>> : a \in Values \cup {Bad}}
               \cup {<<a, b>> : a \in Values, b \in Values \cup {Bad}}

\* The number of objects of a kind the scripts have made.
Total(f) == Cardinality({x \in Scripts \X (1..(MaxDbs + MaxStmts)) : x[2] <= Len(f[x[1]])})

Sqlite == [handle: BOOLEAN, gone: BOOLEAN]
Stmt == [conn: Nat, sqlite_handle: BOOLEAN, stmt_handle: BOOLEAN, gone: BOOLEAN]

(***************************************************************************)
(* The SQLite library, as far as the binding relies on it.                 *)
(***************************************************************************)

\* sqlite3_open_v2 allocates a connection whether or not it can open the file.
Opened(path, ok) == [path |-> path, state |-> IF ok THEN "open" ELSE "failed"]

Prepared(conn, sql) ==
  [conn |-> conn, sql |-> sql, bind |-> <<Null, Null>>, phase |-> "ready",
   rest |-> {}, given |-> {}, asked |-> <<Null, Null>>]

Unfinalized(s, c, ps) == {k \in DOMAIN ps : ps[k].conn = c /\ ps[k].phase # "finalized"}

\* sqlite3_close_v2: a connection with statements left becomes a zombie and is
\* freed with the last of them.
sqlite3_close_v2(s, c) ==
  conns' = [conns EXCEPT ![s][c].state =
              IF Unfinalized(s, c, preps[s]) = {} THEN "freed" ELSE "zombie"]

sqlite3_finalize(s, k) ==
  LET ps == [preps[s] EXCEPT ![k] = [Prepared(@.conn, @.sql) EXCEPT !.phase = "finalized"]]
      c  == preps[s][k].conn
  IN /\ preps' = [preps EXCEPT ![s] = ps]
     /\ conns' = IF conns[s][c].state = "zombie" /\ Unfinalized(s, c, ps) = {}
                   THEN [conns EXCEPT ![s][c].state = "freed"] ELSE conns

\* A statement in the middle of its rows holds the shared lock of the file.
Reading(t, path) ==
  \E k \in DOMAIN preps[t] : /\ preps[t][k].phase = "rows"
                             /\ conns[t][preps[t][k].conn].path = path

Matches(p) == {v \in files[conns[p.s][p.k.conn].path] : v \in {p.k.bind[1], p.k.bind[2]}}

(***************************************************************************)
(* The functions of the binding.                                           *)
(***************************************************************************)

Init ==
  /\ files = [p \in Paths |-> IF p \in Missing THEN Absent ELSE Rows]
  /\ dbs = [s \in Scripts |-> <<>>]
  /\ conns = [s \in Scripts |-> <<>>]
  /\ stmts = [s \in Scripts |-> <<>>]
  /\ preps = [s \in Scripts |-> <<>>]
  /\ status = [s \in Scripts |-> "running"]

\* lua_error: the script catches the error and goes on, or ends.
lua_error(s) ==
  \E next \in {"running", "closing"} : status' = [status EXCEPT ![s] = next]

\* The open flags: the mode is looked for in argument 1, which is the path.
OpenFlags(path, mode) ==
  LET flagstr == path
  IN IF mode = "none" THEN "RW"
     ELSE IF flagstr \in {"RO", "RW", "CRW"} THEN flagstr ELSE "RW"

\* sqlite(path, mode).  When the file cannot be opened the connection that
\* sqlite3_open_v2 has allocated is not closed.
Sqlite_new(s, path, mode) ==
  LET ok == files[path] # Absent \/ OpenFlags(path, mode) = "CRW"
  IN /\ status[s] = "running" /\ Total(conns) < MaxDbs
     /\ conns' = [conns EXCEPT ![s] = Append(@, Opened(path, ok))]
     /\ dbs' = [dbs EXCEPT ![s] = Append(@, [handle |-> ok, gone |-> ~ok])]
     /\ IF ok
          THEN /\ files' = [files EXCEPT ![path] = IF @ = Absent THEN {} ELSE @]
               /\ UNCHANGED status
          ELSE lua_error(s) /\ UNCHANGED files
     /\ UNCHANGED <<stmts, preps>>

\* db << sql.  Preparing on a closed connection is an error.
Sqlite_query(s, d, sql) ==
  /\ status[s] = "running" /\ ~dbs[s][d].gone /\ Total(stmts) < MaxStmts
  /\ IF dbs[s][d].handle
       THEN /\ preps' = [preps EXCEPT ![s] = Append(@, Prepared(d, sql))]
            /\ stmts' = [stmts EXCEPT ![s] = Append(@,
                           [conn |-> d, sqlite_handle |-> TRUE, stmt_handle |-> TRUE, gone |-> FALSE])]
            /\ UNCHANGED status
       ELSE lua_error(s) /\ UNCHANGED <<preps, stmts>>
  /\ UNCHANGED <<files, dbs, conns>>

Sqlite_destroy(s, d) ==
  /\ status[s] = "running" /\ ~dbs[s][d].gone
  /\ dbs' = [dbs EXCEPT ![s][d].handle = FALSE]
  /\ IF dbs[s][d].handle THEN sqlite3_close_v2(s, d) ELSE UNCHANGED conns
  /\ UNCHANGED <<files, stmts, preps, status>>

\* The collector takes a database: at any time, or when the state is closed.
Sqlite_gc(s, d) ==
  /\ status[s] \in {"running", "closing"} /\ ~dbs[s][d].gone
  /\ dbs' = [dbs EXCEPT ![s][d] = [handle |-> FALSE, gone |-> TRUE]]
  /\ IF dbs[s][d].handle THEN sqlite3_close_v2(s, d) ELSE UNCHANGED conns
  /\ UNCHANGED <<files, stmts, preps, status>>

Stmt_destroy_KeepsHandle(s, k) ==
  /\ status[s] = "running" /\ ~stmts[s][k].gone
  /\ stmts[s][k].stmt_handle
  /\ sqlite3_finalize(s, k)
  /\ UNCHANGED <<files, dbs, stmts, status>>

Stmt_destroy(s, k) ==
  /\ status[s] = "running" /\ ~stmts[s][k].gone
  /\ IF stmts[s][k].stmt_handle
       THEN /\ sqlite3_finalize(s, k)
            /\ stmts' = [stmts EXCEPT ![s][k].stmt_handle = FALSE,
                                      ![s][k].sqlite_handle = FALSE]
       ELSE UNCHANGED <<preps, conns, stmts>>
  /\ UNCHANGED <<files, dbs, status>>

Stmt_gc(s, k) ==
  /\ status[s] \in {"running", "closing"} /\ ~stmts[s][k].gone
  /\ IF stmts[s][k].stmt_handle THEN sqlite3_finalize(s, k) ELSE UNCHANGED <<preps, conns>>
  /\ stmts' = [stmts EXCEPT ![s][k].gone = TRUE]
  /\ UNCHANGED <<files, dbs, status>>

\* The arguments after the statement are bound in order; the first that has no
\* SQLite type is an error, and the ones before it stay bound.
BindAll(bind, args) ==
  LET n == IF \E i \in DOMAIN args : args[i] = Bad
             THEN (CHOOSE i \in DOMAIN args : /\ args[i] = Bad
                                              /\ \A j \in 1..(i - 1) : args[j] # Bad) - 1
             ELSE Len(args)
  IN [bind |-> [i \in 1..2 |-> IF i <= n THEN args[i] ELSE bind[i]], ok |-> n = Len(args)]

\* sqlite3_reset rewinds the statement, but reports the error of its last step if
\* that failed: the call ends there, with the bindings of the call before.
Refused(p) == [prep |-> [p EXCEPT !.phase = "ready"], ok |-> FALSE]

\* The arguments bound over the given bindings.
BoundOver(bind, p, args) ==
  [prep |-> [p EXCEPT !.phase = "ready", !.rest = {}, !.given = {},
                      !.bind = BindAll(bind, args).bind,
                      !.asked = BindAll(<<Null, Null>>, args).bind],
   ok |-> BindAll(bind, args).ok]

Rebound_KeepsBindings(p, args) ==
  IF args = <<>> THEN [prep |-> p, ok |-> TRUE]
  ELSE IF p.phase = "failed" THEN Refused(p)
  ELSE BoundOver(p.bind, p, args)

\* sqlite3_reset and sqlite3_clear_bindings, then the bindings, if there are
\* arguments; without arguments the statement goes on where it was.
Rebound(p, args) ==
  IF args = <<>> THEN [prep |-> p, ok |-> TRUE]
  ELSE IF p.phase = "failed" THEN Refused(p)
  ELSE BoundOver(<<Null, Null>>, p, args)

\* No row is left to come.
Rewound(p, phase) == [p EXCEPT !.phase = phase, !.rest = {}, !.given = {}]

\* sqlite3_step fails: the file is locked (there is no busy timeout), or an I/O
\* error.  The next step begins the statement anew.
StepFails(s, k, p) ==
  /\ preps' = [preps EXCEPT ![s][k] = Rewound(p, "failed")]
  /\ lua_error(s)
  /\ UNCHANGED files

\* sqlite3_step of a select: the first step fixes the rows, each step returns one
\* (a table), the step after the last returns nil and rewinds the statement.  It
\* fails while another connection, of this or another process, commits.
StepSelect(s, k, p) ==
  LET rows == IF p.phase = "rows" THEN p.rest ELSE Matches([s |-> s, k |-> p])
  IN \/ /\ \/ /\ rows = {}
              /\ preps' = [preps EXCEPT ![s][k] = Rewound(p, "ready")]
           \/ \E v \in rows :
                preps' = [preps EXCEPT ![s][k] =
                   [p EXCEPT !.phase = "rows", !.rest = rows \ {v}, !.given = p.given \cup {v}]]
        /\ UNCHANGED <<files, status>>
     \/ StepFails(s, k, p)

\* sqlite3_step of an insert: an error while another connection reads the file.
StepInsert(s, k, p) ==
  LET path == conns[s][p.conn].path
      busy == \/ \E t \in Scripts \ {s} : Reading(t, path)
              \/ \E j \in DOMAIN preps[s] : /\ preps[s][j].phase = "rows"
                                            /\ preps[s][j].conn # p.conn
                                            /\ conns[s][preps[s][j].conn].path = path
  IN \/ /\ ~busy
        /\ preps' = [preps EXCEPT ![s][k] = Rewound(p, "ready")]
        /\ files' = [files EXCEPT ![path] = @ \cup ({p.bind[1]} \ {Null})]
        /\ UNCHANGED status
     \/ StepFails(s, k, p)

\* qry(args...).  A destroyed statement has a null handle: stepping it is reported
\* as misuse, clearing its bindings dereferences it.
Stmt_next(s, k, args) ==
  /\ status[s] = "running" /\ ~stmts[s][k].gone
  /\ UNCHANGED <<dbs, conns, stmts>>
  /\ IF ~stmts[s][k].stmt_handle
       THEN /\ IF args = <<>> THEN lua_error(s)
                              ELSE status' = [status EXCEPT ![s] = "crashed"]
            /\ UNCHANGED <<files, preps>>
       ELSE LET r == Rebound(preps[s][k], args)
            IN IF ~r.ok
                 THEN /\ preps' = [preps EXCEPT ![s][k] = r.prep]
                      /\ lua_error(s) /\ UNCHANGED files
                 ELSE IF r.prep.sql = "select" THEN StepSelect(s, k, r.prep)
                      ELSE StepInsert(s, k, r.prep)

\* The script reaches its end, and lua_close has collected every userdata.
ScriptEnds(s) ==
  \/ /\ status[s] = "running"
     /\ status' = [status EXCEPT ![s] = "closing"]
     /\ UNCHANGED <<files, dbs, conns, stmts, preps>>
  \/ /\ status[s] = "closing"
     /\ \A d \in DOMAIN dbs[s] : dbs[s][d].gone
     /\ \A k \in DOMAIN stmts[s] : stmts[s][k].gone
     /\ status' = [status EXCEPT ![s] = "closed"]
     /\ UNCHANGED <<files, dbs, conns, stmts, preps>>

\* A null statement takes the whole process down.
Running == \A s \in Scripts : status[s] # "crashed"

Next ==
  /\ Running
  /\ \E s \in Scripts :
       \/ \E p \in Paths, m \in Modes : Sqlite_new(s, p, m)
       \/ \E d \in DOMAIN dbs[s] : \/ \E q \in Sqls : Sqlite_query(s, d, q)
                                   \/ Sqlite_destroy(s, d)
                                   \/ Sqlite_gc(s, d)
       \/ \E k \in DOMAIN stmts[s] : \/ \E a \in Args : Stmt_next(s, k, a)
                                     \/ Stmt_destroy(s, k)
                                     \/ Stmt_gc(s, k)
       \/ ScriptEnds(s)

Spec == Init /\ [][Next]_vars

(***************************************************************************)
(* Properties.                                                             *)
(***************************************************************************)

\* A query the script can still call never holds a statement that has been
\* finalized or whose connection has been freed, whatever the order in which the
\* script and the collector destroy databases and queries (Stmt_destroy,
\* Stmt_gc, Sqlite_destroy, Sqlite_gc).
NoDanglingStatement ==
  \A s \in Scripts : \A k \in DOMAIN stmts[s] :
    ~stmts[s][k].gone /\ stmts[s][k].stmt_handle =>
      /\ preps[s][k].phase # "finalized"
      /\ conns[s][stmts[s][k].conn].state # "freed"

\* Once a script's state is closed no statement is left and every connection that
\* was opened is freed, so that no lock of a dead script blocks the others.  (The
\* connection of a failed sqlite() is never closed: it is lost with the script.)
AllReleased ==
  \A s \in Scripts : status[s] = "closed" =>
    /\ \A k \in DOMAIN preps[s] : preps[s][k].phase = "finalized"
    /\ \A c \in DOMAIN conns[s] : conns[s][c].state \in {"freed", "failed"}

\* The handles of SQLite follow the life of the userdata that wrap them: none is
\* used after its release, and none outlives its script.
HandlesReleased == NoDanglingStatement /\ AllReleased

\* The rows of an iteration (Stmt_next) match the arguments of the last call whose
\* arguments were bound, and none of an earlier call's.  A call that sqlite3_reset
\* turns away with the error of the step before has bound nothing: if the script
\* catches that error and goes on without arguments, it gets the rows for the
\* arguments of the call before.
RowsMatchArguments ==
  \A s \in Scripts : \A k \in DOMAIN preps[s] :
    LET p == preps[s][k] IN p.sql = "select" => p.given \subseteq {p.asked[1], p.asked[2]}

\* An iteration returns no row twice: what is still to come has not been returned
\* since it began, with a call with arguments or with the first step after an end
\* or an error (a call without arguments continues, it does not rewind).
NoRowTwice ==
  \A s \in Scripts : \A k \in DOMAIN preps[s] : preps[s][k].given \cap preps[s][k].rest = {}

\* A call of a query with arguments that does not raise an error begins an iteration
\* over the rows for these arguments alone, whatever calls, failed ones included,
\* came before on the same statement.
IterationRight == RowsMatchArguments /\ NoRowTwice

=============================================================================
