-------------------------- MODULE LuaSqliteProofs --------------------------
(***************************************************************************)
(* Proofs about the SQLite binding, for any number of scripts, databases   *)
(* and queries: no handle of the library is used after its release or      *)
(* outlives its script, and an iteration returns the rows of its own       *)
(* arguments, each once.                                                   *)
(***************************************************************************)
EXTENDS LuaSqlite, SequenceTheorems, TLAPS

Conn == [path: Paths, state: {"open", "zombie", "freed", "failed"}]

Prep == [conn: Nat, sql: Sqls, bind: [1..2 -> Int], phase: {"ready", "rows", "failed", "finalized"},
         rest: SUBSET Int, given: SUBSET Int, asked: [1..2 -> Int]]

Types ==
  /\ files \in [Paths -> SUBSET Int]
  /\ dbs \in [Scripts -> Seq(Sqlite)] /\ conns \in [Scripts -> Seq(Conn)]
  /\ stmts \in [Scripts -> Seq(Stmt)] /\ preps \in [Scripts -> Seq(Prep)]
  /\ status \in [Scripts -> {"running", "closing", "closed", "crashed"}]

Pending(s, c) == \E k \in DOMAIN preps[s] : preps[s][k].conn = c /\ preps[s][k].phase # "finalized"

(* A userdata holds a handle exactly as long as the connection is open; a  *)
(* connection that has been closed waits for its statements.               *)
ConnInv(s) ==
  /\ DOMAIN dbs[s] = DOMAIN conns[s]
  /\ \A c \in DOMAIN conns[s] :
       /\ conns[s][c].state = "open" <=> dbs[s][c].handle
       /\ dbs[s][c].handle => ~dbs[s][c].gone
       /\ conns[s][c].state = "zombie" => Pending(s, c)
       /\ conns[s][c].state \in {"freed", "failed"} => ~Pending(s, c)

(* A query that can be called holds a statement exactly as long as it is   *)
(* not finalized.                                                          *)
StmtInv(s) ==
  /\ DOMAIN stmts[s] = DOMAIN preps[s]
  /\ \A k \in DOMAIN preps[s] :
       /\ stmts[s][k].conn = preps[s][k].conn /\ preps[s][k].conn \in DOMAIN conns[s]
       /\ preps[s][k].phase # "finalized" <=> ~stmts[s][k].gone /\ stmts[s][k].stmt_handle

ClosedInv(s) ==
  status[s] = "closed" => /\ \A d \in DOMAIN dbs[s] : dbs[s][d].gone
                          /\ \A k \in DOMAIN stmts[s] : stmts[s][k].gone

(* What is left of an iteration belongs to the arguments that began it. *)
RowInv(p) ==
  /\ p.bind = p.asked /\ p.given \cap p.rest = {}
  /\ p.given \cup p.rest \subseteq {p.asked[1], p.asked[2]}
  /\ p.phase # "rows" => p.given = {} /\ p.rest = {}

SqliteInv ==
  /\ Types
  /\ \A s \in Scripts : /\ ConnInv(s) /\ StmtInv(s) /\ ClosedInv(s)
                        /\ \A k \in DOMAIN preps[s] : RowInv(preps[s][k])

THEOREM SqliteSafe == SqliteInv => HandlesReleased /\ IterationRight
<1> SUFFICES ASSUME SqliteInv PROVE HandlesReleased /\ IterationRight
  OBVIOUS
<1>1. NoDanglingStatement
  BY DEF SqliteInv, StmtInv, ConnInv, Pending, NoDanglingStatement
<1>2. AllReleased
  <2> SUFFICES ASSUME NEW s \in Scripts, status[s] = "closed"
               PROVE  /\ \A k \in DOMAIN preps[s] : preps[s][k].phase = "finalized"
                      /\ \A c \in DOMAIN conns[s] : conns[s][c].state \in {"freed", "failed"}
    BY DEF AllReleased
  <2>1. \A k \in DOMAIN preps[s] : preps[s][k].phase = "finalized"
    BY DEF SqliteInv, StmtInv, ClosedInv
  <2>2. \A c \in DOMAIN conns[s] : conns[s][c] \in Conn
    BY DEF SqliteInv, Types
  <2>3. \A c \in DOMAIN conns[s] : conns[s][c].state # "open" /\ conns[s][c].state # "zombie"
    BY <2>1 DEF SqliteInv, ConnInv, ClosedInv, Pending
  <2> QED BY <2>1, <2>2, <2>3 DEF Conn
<1>3. IterationRight
  BY DEF SqliteInv, RowInv, IterationRight, RowsMatchArguments, NoRowTwice
<1> QED BY <1>1, <1>2, <1>3 DEF HandlesReleased

LEMMA SqliteInit == Init => SqliteInv
<1> SUFFICES ASSUME Init PROVE SqliteInv
  OBVIOUS
<1>1. files \in [Paths -> SUBSET Int]
  BY RowsAssumption, ValuesAssumption DEF Init, Absent
<1>2. \A S : <<>> \in Seq(S) /\ DOMAIN <<>> = {}
  BY EmptySeq
<1>3. Types
  BY <1>1, <1>2 DEF Init, Types
<1>4. \A s \in Scripts : dbs[s] = <<>> /\ conns[s] = <<>> /\ stmts[s] = <<>> /\ preps[s] = <<>>
  BY DEF Init
<1> QED BY <1>2, <1>3, <1>4 DEF Init, SqliteInv, ConnInv, StmtInv, ClosedInv

-----------------------------------------------------------------------------
(* Sequences, one for each script.                                         *)

LEMMA AppendAt ==
  ASSUME NEW T, NEW f \in [Scripts -> Seq(T)], NEW s \in Scripts, NEW e \in T,
         NEW g, g = [f EXCEPT ![s] = Append(@, e)]
  PROVE  /\ g \in [Scripts -> Seq(T)] /\ \A t \in Scripts \ {s} : g[t] = f[t]
         /\ Len(f[s]) \in Nat /\ Len(f[s]) + 1 \notin DOMAIN f[s]
         /\ DOMAIN g[s] = DOMAIN f[s] \cup {Len(f[s]) + 1}
         /\ DOMAIN f[s] = 1..Len(f[s])
         /\ \A i \in DOMAIN f[s] : g[s][i] = f[s][i]
         /\ g[s][Len(f[s]) + 1] = e
<1>1. g[s] = Append(f[s], e) /\ f[s] \in Seq(T)
  OBVIOUS
<1>2. Append(f[s], e) \in Seq(T)
  BY <1>1, AppendProperties
<1>3. g \in [Scripts -> Seq(T)] /\ \A t \in Scripts \ {s} : g[t] = f[t]
  BY <1>1, <1>2
<1>4. Len(f[s]) \in Nat /\ DOMAIN f[s] = 1..Len(f[s])
  BY <1>1, LenProperties
<1>5. /\ DOMAIN Append(f[s], e) = 1 .. Len(f[s]) + 1
      /\ \A i \in 1..Len(f[s]) : Append(f[s], e)[i] = f[s][i]
      /\ Append(f[s], e)[Len(f[s]) + 1] = e
  BY <1>1, <1>4, AppendProperties
<1>6. 1 .. Len(f[s]) + 1 = 1..Len(f[s]) \cup {Len(f[s]) + 1} /\ Len(f[s]) + 1 \notin 1..Len(f[s])
  BY <1>4
<1> QED BY <1>1, <1>3, <1>4, <1>5, <1>6

LEMMA ReplaceAt ==
  ASSUME NEW T, NEW f \in [Scripts -> Seq(T)], NEW s \in Scripts, NEW i \in DOMAIN f[s], NEW e \in T,
         NEW g, g = [f EXCEPT ![s] = [f[s] EXCEPT ![i] = e]]
  PROVE  /\ g \in [Scripts -> Seq(T)] /\ \A t \in Scripts \ {s} : g[t] = f[t]
         /\ DOMAIN g[s] = DOMAIN f[s] /\ g[s][i] = e
         /\ \A j \in DOMAIN f[s] \ {i} : g[s][j] = f[s][j]
<1> DEFINE h == [f[s] EXCEPT ![i] = e]
<1>1. f[s] \in Seq(T)
  OBVIOUS
<1>2. h \in Seq(T)
  BY <1>1, ExceptSeq
<1>3. DOMAIN h = DOMAIN f[s] /\ h[i] = e /\ \A j \in DOMAIN f[s] \ {i} : h[j] = f[s][j]
  OBVIOUS
<1>4. g[s] = h
  OBVIOUS
<1> HIDE DEF h
<1>5. g \in [Scripts -> Seq(T)]
  BY <1>2 DEF h
<1> QED BY <1>3, <1>4, <1>5

LEMMA SameLength ==
  ASSUME NEW S, NEW T, NEW f \in Seq(S), NEW g \in Seq(T), DOMAIN f = DOMAIN g
  PROVE  Len(f) = Len(g)
<1> DEFINE a == Len(f)
           b == Len(g)
<1>1. a \in Nat /\ b \in Nat /\ 1..a = 1..b
  BY LenProperties
<1> HIDE DEF a, b
<1>2. CASE a < b
  <2>1. b \in 1..b /\ b \notin 1..a
    BY <1>1, <1>2
  <2> QED BY <1>1, <2>1
<1>3. CASE b < a
  <2>1. a \in 1..a /\ a \notin 1..b
    BY <1>1, <1>3
  <2> QED BY <1>1, <2>1
<1>4. a = b
  BY <1>1, <1>2, <1>3
<1> QED BY <1>4 DEF a, b

(* A step of one script leaves the others alone. *)
LEMMA OneScript ==
  ASSUME SqliteInv, NEW s \in Scripts, Types',
         \A t \in Scripts \ {s} : /\ dbs'[t] = dbs[t] /\ conns'[t] = conns[t] /\ stmts'[t] = stmts[t]
                                  /\ preps'[t] = preps[t] /\ status'[t] = status[t],
         ConnInv(s)', StmtInv(s)', ClosedInv(s)', \A k \in DOMAIN preps'[s] : RowInv(preps'[s][k])
  PROVE  SqliteInv'
<1> SUFFICES ASSUME NEW t \in Scripts
             PROVE  /\ ConnInv(t)' /\ StmtInv(t)' /\ ClosedInv(t)'
                    /\ \A k \in DOMAIN preps'[t] : RowInv(preps'[t][k])
  BY DEF SqliteInv
<1>1. CASE t # s
  <2>1. dbs'[t] = dbs[t] /\ conns'[t] = conns[t] /\ stmts'[t] = stmts[t]
        /\ preps'[t] = preps[t] /\ status'[t] = status[t]
    BY <1>1
  <2>2. ConnInv(t) /\ StmtInv(t) /\ ClosedInv(t) /\ \A k \in DOMAIN preps[t] : RowInv(preps[t][k])
    BY DEF SqliteInv
  <2> QED BY <2>1, <2>2 DEF ConnInv, StmtInv, ClosedInv, Pending
<1> QED BY <1>1

LEMMA SqliteParts ==
  ASSUME SqliteInv, NEW s \in Scripts
  PROVE  /\ ConnInv(s) /\ StmtInv(s) /\ ClosedInv(s)
         /\ \A k \in DOMAIN preps[s] : RowInv(preps[s][k])
         /\ \A c \in DOMAIN dbs[s] : dbs[s][c] \in Sqlite
         /\ \A c \in DOMAIN conns[s] : conns[s][c] \in Conn
         /\ \A k \in DOMAIN stmts[s] : stmts[s][k] \in Stmt
         /\ \A k \in DOMAIN preps[s] : preps[s][k] \in Prep
  BY DEF SqliteInv, Types

(* An error does not close the state. *)
LEMMA ErrorStatus ==
  ASSUME NEW s \in Scripts, status \in [Scripts -> {"running", "closing", "closed", "crashed"}],
         \/ lua_error(s)
         \/ UNCHANGED status /\ status[s] = "running"
         \/ status' = [status EXCEPT ![s] = "crashed"]
  PROVE  /\ status' \in [Scripts -> {"running", "closing", "closed", "crashed"}]
         /\ status'[s] # "closed"
         /\ \A t \in Scripts \ {s} : status'[t] = status[t]
  BY DEF lua_error

-----------------------------------------------------------------------------
(* Databases.                                                              *)

LEMMA NewStep ==
  ASSUME SqliteInv, NEW s \in Scripts, NEW path \in Paths, NEW mode, Sqlite_new(s, path, mode)
  PROVE  SqliteInv'
<1> DEFINE ok == files[path] # Absent \/ OpenFlags(path, mode) = "CRW"
           e == Opened(path, ok)
           d == [handle |-> ok, gone |-> ~ok]
           n == Len(conns[s]) + 1
<1>1. /\ status[s] = "running"
      /\ conns' = [conns EXCEPT ![s] = Append(@, e)]
      /\ dbs' = [dbs EXCEPT ![s] = Append(@, d)]
      /\ \/ files' = [files EXCEPT ![path] = IF @ = Absent THEN {} ELSE @] /\ UNCHANGED status
         \/ lua_error(s) /\ UNCHANGED files
      /\ UNCHANGED <<stmts, preps>>
  BY DEF Sqlite_new
<1>b. ok \in BOOLEAN
  OBVIOUS
<1>2. e \in Conn /\ e.state \in {"open", "failed"} /\ (e.state = "open" <=> ok)
  BY DEF Opened, Conn
<1>3. d \in Sqlite /\ d.handle = ok /\ d.gone = ~ok
  BY <1>b DEF Sqlite
<1> HIDE DEF e, d, ok
<1>4. /\ conns' \in [Scripts -> Seq(Conn)] /\ \A t \in Scripts \ {s} : conns'[t] = conns[t]
      /\ DOMAIN conns'[s] = DOMAIN conns[s] \cup {n} /\ n \notin DOMAIN conns[s]
      /\ \A i \in DOMAIN conns[s] : conns'[s][i] = conns[s][i]
      /\ conns'[s][n] = e
  <2>1. conns \in [Scripts -> Seq(Conn)]
    BY DEF SqliteInv, Types
  <2> QED BY <1>1, <1>2, <2>1, AppendAt
<1>5. Len(conns[s]) = Len(dbs[s])
  <2>1. conns[s] \in Seq(Conn) /\ dbs[s] \in Seq(Sqlite) /\ DOMAIN dbs[s] = DOMAIN conns[s]
    BY SqliteParts DEF SqliteInv, Types, ConnInv
  <2> QED BY <2>1, SameLength
<1>6. /\ dbs' \in [Scripts -> Seq(Sqlite)] /\ \A t \in Scripts \ {s} : dbs'[t] = dbs[t]
      /\ DOMAIN dbs'[s] = DOMAIN dbs[s] \cup {n}
      /\ \A i \in DOMAIN dbs[s] : dbs'[s][i] = dbs[s][i]
      /\ dbs'[s][n] = d
  <2>1. dbs \in [Scripts -> Seq(Sqlite)] /\ n = Len(dbs[s]) + 1
    BY <1>5 DEF SqliteInv, Types
  <2> QED BY <1>1, <1>3, <2>1, AppendAt
<1> HIDE DEF n
<1>7. /\ status' \in [Scripts -> {"running", "closing", "closed", "crashed"}]
      /\ status'[s] # "closed" /\ \A t \in Scripts \ {s} : status'[t] = status[t]
  BY <1>1, ErrorStatus DEF SqliteInv, Types
<1>8. Types'
  <2>1. files' \in [Paths -> SUBSET Int]
    BY <1>1 DEF SqliteInv, Types
  <2> QED BY <1>1, <1>4, <1>6, <1>7, <2>1 DEF SqliteInv, Types
<1>9. ~Pending(s, n)
  BY <1>4, SqliteParts DEF Pending, StmtInv
<1>10. \A c : Pending(s, c)' <=> Pending(s, c)
  BY <1>1 DEF Pending
<1>11. ConnInv(s)'
  <2>1. DOMAIN dbs'[s] = DOMAIN conns'[s]
    BY <1>4, <1>6, SqliteParts DEF ConnInv
  <2>2. /\ conns'[s][n].state = "open" <=> dbs'[s][n].handle
        /\ dbs'[s][n].handle => ~dbs'[s][n].gone
        /\ conns'[s][n].state # "zombie"
    BY <1>2, <1>3, <1>4, <1>6
  <2>3. ASSUME NEW c \in DOMAIN conns[s]
        PROVE  /\ conns'[s][c].state = "open" <=> dbs'[s][c].handle
               /\ dbs'[s][c].handle => ~dbs'[s][c].gone
               /\ conns'[s][c].state = "zombie" => Pending(s, c)
               /\ conns'[s][c].state \in {"freed", "failed"} => ~Pending(s, c)
    BY <1>4, <1>6, SqliteParts DEF ConnInv
  <2> QED BY <1>4, <1>9, <1>10, <2>1, <2>2, <2>3 DEF ConnInv
<1>12. StmtInv(s)' /\ ClosedInv(s)' /\ \A k \in DOMAIN preps'[s] : RowInv(preps'[s][k])
  BY <1>1, <1>4, <1>7, SqliteParts DEF StmtInv, ClosedInv
<1> QED BY <1>1, <1>4, <1>6, <1>7, <1>8, <1>11, <1>12, OneScript

(* sqlite3_close_v2 on the connection of a database that is open. *)
LEMMA CloseStep ==
  ASSUME SqliteInv, NEW s \in Scripts, NEW d \in DOMAIN dbs[s],
         Sqlite_destroy(s, d) \/ Sqlite_gc(s, d)
  PROVE  SqliteInv'
<1>1. /\ status[s] \in {"running", "closing"} /\ UNCHANGED <<files, stmts, preps, status>>
      /\ IF dbs[s][d].handle THEN sqlite3_close_v2(s, d) ELSE UNCHANGED conns
      /\ \/ dbs' = [dbs EXCEPT ![s] = [dbs[s] EXCEPT ![d] = [dbs[s][d] EXCEPT !.handle = FALSE]]]
         \/ dbs' = [dbs EXCEPT ![s] = [dbs[s] EXCEPT ![d] = [handle |-> FALSE, gone |-> TRUE]]]
  BY DEF Sqlite_destroy, Sqlite_gc
<1>2. PICK e \in Sqlite : /\ dbs' = [dbs EXCEPT ![s] = [dbs[s] EXCEPT ![d] = e]] /\ e.handle = FALSE
  <2>1. dbs[s][d] \in Sqlite
    BY SqliteParts
  <2>2. /\ [dbs[s][d] EXCEPT !.handle = FALSE] \in Sqlite
        /\ [dbs[s][d] EXCEPT !.handle = FALSE].handle = FALSE
        /\ [handle |-> FALSE, gone |-> TRUE] \in Sqlite
        /\ [handle |-> FALSE, gone |-> TRUE].handle = FALSE
    BY <2>1 DEF Sqlite
  <2> QED BY <1>1, <2>2
<1>3. /\ dbs' \in [Scripts -> Seq(Sqlite)] /\ \A t \in Scripts \ {s} : dbs'[t] = dbs[t]
      /\ DOMAIN dbs'[s] = DOMAIN dbs[s] /\ dbs'[s][d] = e
      /\ \A j \in DOMAIN dbs[s] \ {d} : dbs'[s][j] = dbs[s][j]
  <2>1. dbs \in [Scripts -> Seq(Sqlite)]
    BY DEF SqliteInv, Types
  <2> QED BY <1>2, <2>1, ReplaceAt
<1>4. d \in DOMAIN conns[s] /\ conns[s][d] \in Conn
  BY SqliteParts DEF ConnInv
<1>5. \A c : Pending(s, c)' <=> Pending(s, c)
  BY <1>1 DEF Pending
<1>6. /\ conns' \in [Scripts -> Seq(Conn)] /\ \A t \in Scripts \ {s} : conns'[t] = conns[t]
      /\ DOMAIN conns'[s] = DOMAIN conns[s]
      /\ \A j \in DOMAIN conns[s] \ {d} : conns'[s][j] = conns[s][j]
      /\ dbs[s][d].handle => conns'[s][d].state = IF Pending(s, d) THEN "zombie" ELSE "freed"
      /\ ~dbs[s][d].handle => conns'[s][d] = conns[s][d]
  <2>0. conns \in [Scripts -> Seq(Conn)]
    BY DEF SqliteInv, Types
  <2>1. CASE dbs[s][d].handle
    <3> DEFINE v == IF Unfinalized(s, d, preps[s]) = {} THEN "freed" ELSE "zombie"
               x == [conns[s][d] EXCEPT !.state = v]
    <3>1. conns' = [conns EXCEPT ![s] = [conns[s] EXCEPT ![d] = x]]
      BY <1>1, <2>1 DEF sqlite3_close_v2
    <3>2. v = IF Pending(s, d) THEN "zombie" ELSE "freed"
      BY DEF Unfinalized, Pending
    <3>3. v \in {"freed", "zombie"}
      OBVIOUS
    <3> HIDE DEF v
    <3>4. x \in Conn /\ x.state = v
      BY <1>4, <3>3 DEF Conn
    <3> HIDE DEF x
    <3>5. /\ conns' \in [Scripts -> Seq(Conn)] /\ \A t \in Scripts \ {s} : conns'[t] = conns[t]
          /\ DOMAIN conns'[s] = DOMAIN conns[s] /\ conns'[s][d] = x
          /\ \A j \in DOMAIN conns[s] \ {d} : conns'[s][j] = conns[s][j]
      BY <1>4, <2>0, <3>1, <3>4, ReplaceAt
    <3> QED BY <2>1, <3>2, <3>4, <3>5
  <2>2. CASE ~dbs[s][d].handle
    BY <1>1, <2>0, <2>2
  <2> QED BY <2>1, <2>2
<1>7. Types'
  BY <1>1, <1>3, <1>6 DEF SqliteInv, Types
<1>8. ConnInv(s)'
  BY <1>2, <1>3, <1>5, <1>6, SqliteParts DEF ConnInv
<1>9. StmtInv(s)' /\ ClosedInv(s)' /\ \A k \in DOMAIN preps'[s] : RowInv(preps'[s][k])
  BY <1>1, <1>6, SqliteParts DEF StmtInv, ClosedInv
<1> QED BY <1>1, <1>3, <1>6, <1>7, <1>8, <1>9, OneScript

-----------------------------------------------------------------------------
(* Queries.                                                                *)

LEMMA PreparedOk ==
  ASSUME NEW c \in Nat, NEW sql \in Sqls
  PROVE  /\ Prepared(c, sql) \in Prep /\ RowInv(Prepared(c, sql))
         /\ Prepared(c, sql).conn = c /\ Prepared(c, sql).phase = "ready"
         /\ LET f == [Prepared(c, sql) EXCEPT !.phase = "finalized"]
            IN  f \in Prep /\ RowInv(f) /\ f.conn = c /\ f.phase = "finalized"
<1>1. <<Null, Null>> \in [1..2 -> Int]
  BY DEF Null
<1> QED BY <1>1 DEF Prepared, Prep, RowInv

LEMMA QueryStep ==
  ASSUME SqliteInv, NEW s \in Scripts, NEW d \in DOMAIN dbs[s], NEW sql \in Sqls,
         Sqlite_query(s, d, sql)
  PROVE  SqliteInv'
<1>0. /\ status[s] = "running" /\ UNCHANGED <<files, dbs, conns>>
      /\ d \in Nat /\ d \in DOMAIN conns[s]
  <2>1. dbs[s] \in Seq(Sqlite)
    BY DEF SqliteInv, Types
  <2>2. d \in Nat
    BY <2>1, LenProperties
  <2> QED BY <2>2, SqliteParts DEF Sqlite_query, ConnInv
<1>1. CASE ~dbs[s][d].handle
  <2>1. lua_error(s) /\ UNCHANGED <<preps, stmts>>
    BY <1>1 DEF Sqlite_query
  <2>2. /\ status' \in [Scripts -> {"running", "closing", "closed", "crashed"}]
        /\ status'[s] # "closed" /\ \A t \in Scripts \ {s} : status'[t] = status[t]
    BY <2>1, ErrorStatus DEF SqliteInv, Types
  <2>3. Types'
    BY <1>0, <2>1, <2>2 DEF SqliteInv, Types
  <2>4. ConnInv(s)' /\ StmtInv(s)' /\ ClosedInv(s)' /\ \A k \in DOMAIN preps'[s] : RowInv(preps'[s][k])
    BY <1>0, <2>1, <2>2, SqliteParts DEF ConnInv, StmtInv, ClosedInv, Pending
  <2> QED BY <1>0, <2>1, <2>2, <2>3, <2>4, OneScript
<1>2. CASE dbs[s][d].handle
  <2> DEFINE e == Prepared(d, sql)
             u == [conn |-> d, sqlite_handle |-> TRUE, stmt_handle |-> TRUE, gone |-> FALSE]
             n == Len(preps[s]) + 1
  <2>1. /\ preps' = [preps EXCEPT ![s] = Append(@, e)]
        /\ stmts' = [stmts EXCEPT ![s] = Append(@, u)] /\ UNCHANGED status
    BY <1>2 DEF Sqlite_query
  <2>2. e \in Prep /\ RowInv(e) /\ e.conn = d /\ e.phase = "ready"
    BY <1>0, PreparedOk
  <2>3. u \in Stmt /\ u.conn = d /\ u.stmt_handle /\ ~u.gone
    BY <1>0 DEF Stmt
  <2> HIDE DEF e, u
  <2>4. /\ preps' \in [Scripts -> Seq(Prep)] /\ \A t \in Scripts \ {s} : preps'[t] = preps[t]
        /\ DOMAIN preps'[s] = DOMAIN preps[s] \cup {n} /\ n \notin DOMAIN preps[s]
        /\ \A i \in DOMAIN preps[s] : preps'[s][i] = preps[s][i]
        /\ preps'[s][n] = e
    <3>1. preps \in [Scripts -> Seq(Prep)]
      BY DEF SqliteInv, Types
    <3> QED BY <2>1, <2>2, <3>1, AppendAt
  <2>5. Len(stmts[s]) = Len(preps[s])
    <3>1. stmts[s] \in Seq(Stmt) /\ preps[s] \in Seq(Prep) /\ DOMAIN stmts[s] = DOMAIN preps[s]
      BY SqliteParts DEF SqliteInv, Types, StmtInv
    <3> QED BY <3>1, SameLength
  <2>6. /\ stmts' \in [Scripts -> Seq(Stmt)] /\ \A t \in Scripts \ {s} : stmts'[t] = stmts[t]
        /\ DOMAIN stmts'[s] = DOMAIN stmts[s] \cup {n}
        /\ \A i \in DOMAIN stmts[s] : stmts'[s][i] = stmts[s][i]
        /\ stmts'[s][n] = u
    <3>1. stmts \in [Scripts -> Seq(Stmt)] /\ n = Len(stmts[s]) + 1
      BY <2>5 DEF SqliteInv, Types
    <3> QED BY <2>1, <2>3, <3>1, AppendAt
  <2> HIDE DEF n
  <2>7. Types'
    BY <1>0, <2>1, <2>4, <2>6 DEF SqliteInv, Types
  <2>8. /\ \A c : Pending(s, c) => Pending(s, c)'
        /\ \A c : c # d /\ Pending(s, c)' => Pending(s, c)
    BY <2>2, <2>4 DEF Pending
  <2>9. ConnInv(s)'
    <3>1. ConnInv(s) /\ conns[s][d].state = "open"
      BY <1>0, <1>2, SqliteParts DEF ConnInv
    <3> QED BY <1>0, <2>8, <3>1 DEF ConnInv
  <2>10. StmtInv(s)'
    <3>1. DOMAIN stmts'[s] = DOMAIN preps'[s]
      BY <2>4, <2>6, SqliteParts DEF StmtInv
    <3>2. ASSUME NEW k \in DOMAIN preps[s]
          PROVE  /\ stmts'[s][k].conn = preps'[s][k].conn /\ preps'[s][k].conn \in DOMAIN conns[s]
                 /\ preps'[s][k].phase # "finalized" <=> ~stmts'[s][k].gone /\ stmts'[s][k].stmt_handle
      BY <2>4, <2>6, SqliteParts DEF StmtInv
    <3>3. /\ stmts'[s][n].conn = preps'[s][n].conn /\ preps'[s][n].conn \in DOMAIN conns[s]
          /\ preps'[s][n].phase # "finalized" <=> ~stmts'[s][n].gone /\ stmts'[s][n].stmt_handle
      BY <1>0, <2>2, <2>3, <2>4, <2>6
    <3> QED BY <1>0, <2>4, <3>1, <3>2, <3>3 DEF StmtInv
  <2>11. ClosedInv(s)' /\ \A k \in DOMAIN preps'[s] : RowInv(preps'[s][k])
    BY <1>0, <2>1, <2>2, <2>4, SqliteParts DEF ClosedInv
  <2> QED BY <1>0, <2>1, <2>4, <2>6, <2>7, <2>9, <2>10, <2>11, OneScript
<1> QED BY <1>1, <1>2

(* sqlite3_finalize frees a connection that was only waiting for this      *)
(* statement.                                                              *)
LEMMA FinalizeStep ==
  ASSUME SqliteInv, NEW s \in Scripts, NEW k \in DOMAIN stmts[s],
         Stmt_destroy(s, k) \/ Stmt_gc(s, k)
  PROVE  SqliteInv'
<1> DEFINE live == stmts[s][k].stmt_handle
<1>1. /\ status[s] \in {"running", "closing"} /\ ~stmts[s][k].gone
      /\ UNCHANGED <<files, dbs, status>>
      /\ IF live THEN sqlite3_finalize(s, k) ELSE UNCHANGED <<preps, conns>>
  BY DEF Stmt_destroy, Stmt_gc
<1>2. k \in DOMAIN preps[s] /\ stmts[s][k] \in Stmt /\ preps[s][k] \in Prep
  BY SqliteParts DEF StmtInv
<1>3. PICK u \in Stmt :
        /\ stmts' = [stmts EXCEPT ![s] = [stmts[s] EXCEPT ![k] = u]] /\ u.conn = stmts[s][k].conn
        /\ ~(~u.gone /\ u.stmt_handle)
  <2> DEFINE a == [stmts[s][k] EXCEPT !.stmt_handle = FALSE, !.sqlite_handle = FALSE]
             b == [stmts[s][k] EXCEPT !.gone = TRUE]
             g == stmts[s][k]
  <2>1. a \in Stmt /\ a.conn = stmts[s][k].conn /\ a.stmt_handle = FALSE
    BY <1>2 DEF Stmt
  <2>2. b \in Stmt /\ b.conn = stmts[s][k].conn /\ b.gone = TRUE
    BY <1>2 DEF Stmt
  <2>3. stmts \in [Scripts -> Seq(Stmt)] /\ stmts[s] \in Seq(Stmt)
    BY DEF SqliteInv, Types
  <2>4. stmts = [stmts EXCEPT ![s] = [stmts[s] EXCEPT ![k] = g]]
    <3>1. [stmts[s] EXCEPT ![k] = g] = stmts[s]
      BY <2>3
    <3> QED BY <2>3, <3>1
  <2>5. \/ stmts' = [stmts EXCEPT ![s] = [stmts[s] EXCEPT ![k] = a]]
        \/ stmts' = [stmts EXCEPT ![s] = [stmts[s] EXCEPT ![k] = b]]
        \/ stmts' = stmts /\ ~live
    BY DEF Stmt_destroy, Stmt_gc
  <2> HIDE DEF a, b, g
  <2>6. g \in Stmt /\ g.conn = stmts[s][k].conn /\ (~live => ~g.stmt_handle)
    BY <1>2 DEF g
  <2> QED BY <2>1, <2>2, <2>4, <2>5, <2>6
<1>4. /\ stmts' \in [Scripts -> Seq(Stmt)] /\ \A t \in Scripts \ {s} : stmts'[t] = stmts[t]
      /\ DOMAIN stmts'[s] = DOMAIN stmts[s] /\ stmts'[s][k] = u
      /\ \A j \in DOMAIN stmts[s] \ {k} : stmts'[s][j] = stmts[s][j]
  <2>1. stmts \in [Scripts -> Seq(Stmt)]
    BY DEF SqliteInv, Types
  <2> QED BY <1>3, <2>1, ReplaceAt
<1>5. PICK c \in DOMAIN conns[s] : c = preps[s][k].conn /\ c \in Nat
  BY <1>2, SqliteParts DEF StmtInv, Prep
<1>6. /\ preps' \in [Scripts -> Seq(Prep)] /\ \A t \in Scripts \ {s} : preps'[t] = preps[t]
      /\ DOMAIN preps'[s] = DOMAIN preps[s]
      /\ preps'[s][k] \in Prep /\ preps'[s][k].conn = c /\ preps'[s][k].phase = "finalized"
      /\ RowInv(preps'[s][k])
      /\ \A j \in DOMAIN preps[s] \ {k} : preps'[s][j] = preps[s][j]
      /\ live => conns' = IF conns[s][c].state = "zombie" /\ Unfinalized(s, c, preps'[s]) = {}
                            THEN [conns EXCEPT ![s][c].state = "freed"] ELSE conns
  <2>0. preps \in [Scripts -> Seq(Prep)]
    BY DEF SqliteInv, Types
  <2>1. CASE live
    <3> DEFINE e == [Prepared(preps[s][k].conn, preps[s][k].sql) EXCEPT !.phase = "finalized"]
               ps == [preps[s] EXCEPT ![k] = e]
    <3>1. /\ preps' = [preps EXCEPT ![s] = [preps[s] EXCEPT ![k] = e]]
          /\ conns' = IF conns[s][c].state = "zombie" /\ Unfinalized(s, c, ps) = {}
                        THEN [conns EXCEPT ![s][c].state = "freed"] ELSE conns
      BY <1>1, <1>5, <2>1 DEF sqlite3_finalize
    <3>2. e \in Prep /\ RowInv(e) /\ e.conn = c /\ e.phase = "finalized"
      <4>1. preps[s][k].sql \in Sqls
        BY <1>2 DEF Prep
      <4> QED BY <1>5, <4>1, PreparedOk
    <3> HIDE DEF e
    <3>3. /\ preps' \in [Scripts -> Seq(Prep)] /\ \A t \in Scripts \ {s} : preps'[t] = preps[t]
          /\ DOMAIN preps'[s] = DOMAIN preps[s] /\ preps'[s][k] = e
          /\ \A j \in DOMAIN preps[s] \ {k} : preps'[s][j] = preps[s][j]
      BY <1>2, <2>0, <3>1, <3>2, ReplaceAt
    <3>4. preps'[s] = ps
      BY <2>0, <3>1
    <3> QED BY <3>1, <3>2, <3>3, <3>4
  <2>2. CASE ~live
    <3>1. preps' = preps /\ preps[s][k].phase = "finalized" /\ RowInv(preps[s][k])
      BY <1>1, <1>2, <2>2, SqliteParts DEF StmtInv
    <3> QED BY <1>2, <1>5, <2>0, <2>2, <3>1
  <2> QED BY <2>1, <2>2
<1>7. /\ \A x : x # c => (Pending(s, x)' <=> Pending(s, x))
      /\ Pending(s, c)' => Pending(s, c)
      /\ ~live => (Pending(s, c)' <=> Pending(s, c))
  <2>1. ~live => preps' = preps
    BY <1>1
  <2> QED BY <1>2, <1>5, <1>6, <2>1 DEF Pending
<1>8. Pending(s, c)' <=> Unfinalized(s, c, preps'[s]) # {}
  BY DEF Unfinalized, Pending
<1>9. live => conns[s][c].state \in {"open", "zombie"}
  <2>1. live => Pending(s, c)
    BY <1>1, <1>2, <1>5, SqliteParts DEF StmtInv, Pending
  <2>2. conns[s][c] \in Conn
    BY SqliteParts
  <2> QED BY <2>1, <2>2, SqliteParts DEF ConnInv, Conn
<1>10. /\ conns' \in [Scripts -> Seq(Conn)] /\ \A t \in Scripts \ {s} : conns'[t] = conns[t]
       /\ DOMAIN conns'[s] = DOMAIN conns[s]
       /\ \A j \in DOMAIN conns[s] \ {c} : conns'[s][j] = conns[s][j]
       /\ \/ conns'[s][c] = conns[s][c] /\ (live /\ conns[s][c].state = "zombie" => Pending(s, c)')
          \/ live /\ conns[s][c].state = "zombie" /\ conns'[s][c].state = "freed" /\ ~Pending(s, c)'
  <2>0. conns \in [Scripts -> Seq(Conn)] /\ conns[s][c] \in Conn
    BY SqliteParts DEF SqliteInv, Types
  <2>1. CASE live /\ conns[s][c].state = "zombie" /\ ~Pending(s, c)'
    <3> DEFINE x == [conns[s][c] EXCEPT !.state = "freed"]
    <3>1. conns' = [conns EXCEPT ![s] = [conns[s] EXCEPT ![c] = x]]
      BY <1>6, <1>8, <2>1
    <3>2. x \in Conn /\ x.state = "freed"
      BY <2>0 DEF Conn
    <3> HIDE DEF x
    <3>3. /\ conns' \in [Scripts -> Seq(Conn)] /\ \A t \in Scripts \ {s} : conns'[t] = conns[t]
          /\ DOMAIN conns'[s] = DOMAIN conns[s] /\ conns'[s][c] = x
          /\ \A j \in DOMAIN conns[s] \ {c} : conns'[s][j] = conns[s][j]
      BY <2>0, <3>1, <3>2, ReplaceAt
    <3> QED BY <2>1, <3>2, <3>3
  <2>2. CASE ~(live /\ conns[s][c].state = "zombie" /\ ~Pending(s, c)')
    <3>1. conns' = conns
      BY <1>1, <1>6, <1>8, <2>2
    <3> QED BY <2>0, <2>2, <3>1
  <2> QED BY <2>1, <2>2
<1>11. Types'
  BY <1>1, <1>4, <1>6, <1>10 DEF SqliteInv, Types
<1>12. ConnInv(s)'
  <2>1. ConnInv(s)
    BY SqliteParts
  <2>2. DOMAIN dbs'[s] = DOMAIN conns'[s]
    BY <1>1, <1>10, <2>1 DEF ConnInv
  <2>3. ASSUME NEW x \in DOMAIN conns[s], x # c
        PROVE  /\ conns'[s][x].state = "open" <=> dbs'[s][x].handle
               /\ dbs'[s][x].handle => ~dbs'[s][x].gone
               /\ conns'[s][x].state = "zombie" => Pending(s, x)'
               /\ conns'[s][x].state \in {"freed", "failed"} => ~Pending(s, x)'
    BY <1>1, <1>7, <1>10, <2>1, <2>3 DEF ConnInv
  <2>4. /\ conns'[s][c].state = "open" <=> dbs'[s][c].handle
        /\ dbs'[s][c].handle => ~dbs'[s][c].gone
        /\ conns'[s][c].state = "zombie" => Pending(s, c)'
        /\ conns'[s][c].state \in {"freed", "failed"} => ~Pending(s, c)'
    BY <1>1, <1>7, <1>9, <1>10, <2>1 DEF ConnInv
  <2> QED BY <1>10, <2>2, <2>3, <2>4 DEF ConnInv
<1>13. StmtInv(s)'
  <2>1. StmtInv(s)
    BY SqliteParts
  <2>2. ASSUME NEW j \in DOMAIN preps[s], j # k
        PROVE  /\ stmts'[s][j].conn = preps'[s][j].conn /\ preps'[s][j].conn \in DOMAIN conns[s]
               /\ preps'[s][j].phase # "finalized" <=> ~stmts'[s][j].gone /\ stmts'[s][j].stmt_handle
    BY <1>4, <1>6, <2>1, <2>2 DEF StmtInv
  <2>3. /\ stmts'[s][k].conn = preps'[s][k].conn /\ preps'[s][k].conn \in DOMAIN conns[s]
        /\ preps'[s][k].phase = "finalized" /\ ~(~stmts'[s][k].gone /\ stmts'[s][k].stmt_handle)
    BY <1>2, <1>3, <1>4, <1>5, <1>6, <2>1 DEF StmtInv
  <2> QED BY <1>4, <1>6, <1>10, <2>1, <2>2, <2>3 DEF StmtInv
<1>14. ClosedInv(s)' /\ \A j \in DOMAIN preps'[s] : RowInv(preps'[s][j])
  BY <1>1, <1>6, SqliteParts DEF ClosedInv
<1> QED BY <1>1, <1>4, <1>6, <1>10, <1>11, <1>12, <1>13, <1>14, OneScript

-----------------------------------------------------------------------------
(* Calls of a query.                                                       *)

LEMMA ArgsOk ==
  ASSUME NEW args \in Args
  PROVE  /\ Len(args) \in 0..2 /\ DOMAIN args = 1..Len(args)
         /\ \A i \in DOMAIN args : args[i] \in Int
         /\ \A i, j \in DOMAIN args : args[i] = Bad /\ j < i => args[j] # Bad
<1>1. Values \subseteq Int /\ Bad \in Int /\ Bad \notin Values
  BY ValuesAssumption DEF Bad
<1>2. CASE args = <<>>
  BY <1>2
<1>3. CASE \E a \in Values \cup {Bad} : args = <<a>>
  BY <1>1, <1>3
<1>4. CASE \E a \in Values, b \in Values \cup {Bad} : args = <<a, b>>
  BY <1>1, <1>4
<1> QED BY <1>2, <1>3, <1>4 DEF Args

LEMMA BindOk ==
  ASSUME NEW args \in Args
  PROVE  BindAll(<<Null, Null>>, args).bind \in [1..2 -> Int]
<1> DEFINE n == IF \E i \in DOMAIN args : args[i] = Bad
                  THEN (CHOOSE i \in DOMAIN args : /\ args[i] = Bad
                                                   /\ \A j \in 1..(i - 1) : args[j] # Bad) - 1
                  ELSE Len(args)
<1>1. n \in Int /\ n <= Len(args)
  <2>1. CASE \E i \in DOMAIN args : args[i] = Bad
    <3>1. PICK i \in DOMAIN args : args[i] = Bad
      BY <2>1
    <3>2. \A j \in 1..(i - 1) : args[j] # Bad
      BY <3>1, ArgsOk
    <3> DEFINE m == CHOOSE x \in DOMAIN args : /\ args[x] = Bad
                                               /\ \A j \in 1..(x - 1) : args[j] # Bad
    <3>3. m \in DOMAIN args
      BY <3>1, <3>2
    <3>4. n = m - 1
      BY <2>1
    <3> HIDE DEF m, n
    <3> QED BY <3>3, <3>4, ArgsOk
  <2>2. CASE ~\E i \in DOMAIN args : args[i] = Bad
    <3>1. n = Len(args)
      BY <2>2
    <3> HIDE DEF n
    <3> QED BY <3>1, ArgsOk
  <2> QED BY <2>1, <2>2
<1>2. BindAll(<<Null, Null>>, args).bind
        = [i \in 1..2 |-> IF i <= n THEN args[i] ELSE <<Null, Null>>[i]]
  BY DEF BindAll
<1> HIDE DEF n
<1>3. \A i \in 1..2 : i <= n => args[i] \in Int
  BY <1>1, ArgsOk
<1>4. \A i \in 1..2 : <<Null, Null>>[i] \in Int
  BY DEF Null
<1> QED BY <1>2, <1>3, <1>4

(* A call with arguments starts over with these arguments alone, or is     *)
(* turned away and leaves the earlier ones.                                *)
LEMMA ReboundOk ==
  ASSUME NEW p \in Prep, RowInv(p), p.phase # "finalized", NEW args \in Args
  PROVE  LET q == Rebound(p, args).prep
         IN  q \in Prep /\ RowInv(q) /\ q.phase # "finalized" /\ q.conn = p.conn
<1>1. CASE args = <<>>
  BY <1>1 DEF Rebound
<1>2. CASE args # <<>> /\ p.phase = "failed"
  <2> DEFINE q == [p EXCEPT !.phase = "ready"]
  <2>1. Rebound(p, args).prep = q
    BY <1>2 DEF Rebound, Refused
  <2>2. q \in Prep /\ q.conn = p.conn /\ q.phase = "ready" /\ q.rest = p.rest /\ q.given = p.given
        /\ q.bind = p.bind /\ q.asked = p.asked
    BY DEF Prep
  <2> HIDE DEF q
  <2> QED BY <1>2, <2>1, <2>2 DEF RowInv
<1>3. CASE args # <<>> /\ p.phase # "failed"
  <2> DEFINE b == BindAll(<<Null, Null>>, args).bind
             q == [p EXCEPT !.phase = "ready", !.rest = {}, !.given = {}, !.bind = b, !.asked = b]
  <2>1. b \in [1..2 -> Int]
    BY BindOk
  <2>2. Rebound(p, args).prep = q
    BY <1>3 DEF Rebound, BoundOver
  <2> HIDE DEF b
  <2>3. q \in Prep /\ q.conn = p.conn /\ q.phase = "ready" /\ q.rest = {} /\ q.given = {}
        /\ q.bind = b /\ q.asked = b
    BY <2>1 DEF Prep
  <2> HIDE DEF q
  <2> QED BY <2>2, <2>3 DEF RowInv
<1> QED BY <1>1, <1>2, <1>3

(* A statement whose step has succeeded or failed is not in its rows. *)
LEMMA RewoundOk ==
  ASSUME NEW p \in Prep, RowInv(p), p.phase # "finalized", NEW ph \in {"ready", "failed"}
  PROVE  /\ Rewound(p, ph) \in Prep /\ RowInv(Rewound(p, ph))
         /\ Rewound(p, ph).phase # "finalized" /\ Rewound(p, ph).conn = p.conn
  BY DEF Rewound, Prep, RowInv

(* A select returns a row that is still to come. *)
LEMMA SelectOk ==
  ASSUME NEW p \in Prep, RowInv(p), p.phase # "finalized",
         NEW rows \in SUBSET Int, rows \subseteq {p.bind[1], p.bind[2]},
         p.phase = "rows" => rows = p.rest,
         NEW v \in rows
  PROVE  LET q == [p EXCEPT !.phase = "rows", !.rest = rows \ {v}, !.given = p.given \cup {v}]
         IN  q \in Prep /\ RowInv(q) /\ q.phase # "finalized" /\ q.conn = p.conn
<1> DEFINE q == [p EXCEPT !.phase = "rows", !.rest = rows \ {v}, !.given = p.given \cup {v}]
<1>1. /\ q \in Prep /\ q.phase = "rows" /\ q.conn = p.conn /\ q.rest = rows \ {v}
      /\ q.given = p.given \cup {v} /\ q.bind = p.bind /\ q.asked = p.asked
  BY DEF Prep
<1> HIDE DEF q
<1>2. p.given \cap rows = {} /\ p.given \subseteq {p.asked[1], p.asked[2]} /\ p.bind = p.asked
  BY DEF RowInv
<1>3. RowInv(q)
  BY <1>1, <1>2 DEF RowInv
<1> QED BY <1>1, <1>3 DEF q

LEMMA CallStep ==
  ASSUME SqliteInv, NEW s \in Scripts, NEW k \in DOMAIN stmts[s], NEW args \in Args,
         Stmt_next(s, k, args)
  PROVE  SqliteInv'
<1>1. /\ status[s] = "running" /\ ~stmts[s][k].gone /\ UNCHANGED <<dbs, conns, stmts>>
      /\ k \in DOMAIN preps[s] /\ preps[s][k] \in Prep /\ RowInv(preps[s][k])
      /\ files \in [Paths -> SUBSET Int] /\ preps \in [Scripts -> Seq(Prep)]
      /\ conns \in [Scripts -> Seq(Conn)] /\ stmts \in [Scripts -> Seq(Stmt)]
      /\ dbs \in [Scripts -> Seq(Sqlite)]
      /\ status \in [Scripts -> {"running", "closing", "closed", "crashed"}]
  BY SqliteParts DEF Stmt_next, StmtInv, SqliteInv, Types
<1>2. CASE ~stmts[s][k].stmt_handle
  <2>1. /\ UNCHANGED <<files, preps>>
        /\ lua_error(s) \/ status' = [status EXCEPT ![s] = "crashed"]
    BY <1>2 DEF Stmt_next
  <2>2. /\ status' \in [Scripts -> {"running", "closing", "closed", "crashed"}]
        /\ status'[s] # "closed" /\ \A t \in Scripts \ {s} : status'[t] = status[t]
    BY <1>1, <2>1, ErrorStatus
  <2>3. Types'
    BY <1>1, <2>1, <2>2 DEF Types
  <2>4. ConnInv(s)' /\ StmtInv(s)' /\ ClosedInv(s)' /\ \A j \in DOMAIN preps'[s] : RowInv(preps'[s][j])
    BY <1>1, <2>1, <2>2, SqliteParts DEF ConnInv, StmtInv, ClosedInv, Pending
  <2> QED BY <1>1, <2>1, <2>2, <2>3, <2>4, OneScript
<1>3. CASE stmts[s][k].stmt_handle
  <2> DEFINE r == Rebound(preps[s][k], args)
             p == r.prep
  <2>1. preps[s][k].phase # "finalized"
    BY <1>1, <1>3, SqliteParts DEF StmtInv
  <2>2. p \in Prep /\ RowInv(p) /\ p.phase # "finalized" /\ p.conn = preps[s][k].conn
    BY <1>1, <2>1, ReboundOk
  <2>3. \/ preps' = [preps EXCEPT ![s][k] = p] /\ lua_error(s) /\ UNCHANGED files
        \/ StepSelect(s, k, p)
        \/ StepInsert(s, k, p)
    BY <1>3 DEF Stmt_next
  <2> HIDE DEF p, r
  <2>4. p.conn \in DOMAIN conns[s] /\ conns[s][p.conn] \in Conn
    BY <1>1, <2>2, SqliteParts DEF StmtInv
  <2>5. /\ files' \in [Paths -> SUBSET Int]
        /\ lua_error(s) \/ UNCHANGED status
        /\ \E q \in Prep : /\ preps' = [preps EXCEPT ![s][k] = q] /\ RowInv(q)
                           /\ q.phase # "finalized" /\ q.conn = p.conn
    <3>1. CASE preps' = [preps EXCEPT ![s][k] = p] /\ lua_error(s) /\ UNCHANGED files
      BY <1>1, <2>2, <3>1
    <3>r. ASSUME NEW ph \in {"ready", "failed"}
          PROVE  /\ Rewound(p, ph) \in Prep /\ RowInv(Rewound(p, ph))
                 /\ Rewound(p, ph).phase # "finalized" /\ Rewound(p, ph).conn = p.conn
      BY <2>2, RewoundOk
    <3>2. CASE StepFails(s, k, p)
      BY <1>1, <3>2, <3>r DEF StepFails
    <3>3. CASE StepInsert(s, k, p) /\ ~StepFails(s, k, p)
      <4> DEFINE path == conns[s][p.conn].path
                 new == files[path] \cup ({p.bind[1]} \ {Null})
      <4>1. path \in Paths
        BY <2>4 DEF Conn
      <4>2. p.bind[1] \in Int
        BY <2>2 DEF Prep
      <4>3. /\ preps' = [preps EXCEPT ![s][k] = Rewound(p, "ready")]
            /\ files' = [files EXCEPT ![path] = new] /\ UNCHANGED status
        BY <3>3 DEF StepInsert
      <4> HIDE DEF path
      <4>4. new \in SUBSET Int
        BY <1>1, <4>1, <4>2
      <4> HIDE DEF new
      <4>5. files' \in [Paths -> SUBSET Int]
        BY <1>1, <4>1, <4>3, <4>4
      <4> QED BY <3>r, <4>3, <4>5
    <3>4. CASE StepSelect(s, k, p) /\ ~StepFails(s, k, p)
      <4> DEFINE rows == IF p.phase = "rows" THEN p.rest ELSE Matches([s |-> s, k |-> p])
                 q1(v) == [p EXCEPT !.phase = "rows", !.rest = rows \ {v}, !.given = p.given \cup {v}]
      <4>1. rows \in SUBSET Int /\ rows \subseteq {p.bind[1], p.bind[2]}
        <5>1. p.bind[1] \in Int /\ p.bind[2] \in Int
          BY <2>2 DEF Prep
        <5>2. Matches([s |-> s, k |-> p]) \subseteq {p.bind[1], p.bind[2]}
          BY DEF Matches
        <5>3. p.phase = "rows" => p.rest \subseteq {p.bind[1], p.bind[2]}
          BY <2>2 DEF RowInv
        <5> QED BY <5>1, <5>2, <5>3
      <4>2. /\ UNCHANGED <<files, status>>
            /\ \/ preps' = [preps EXCEPT ![s][k] = Rewound(p, "ready")]
               \/ \E v \in rows : preps' = [preps EXCEPT ![s][k] = q1(v)]
        BY <3>4 DEF StepSelect
      <4>3. p.phase = "rows" => rows = p.rest
        OBVIOUS
      <4> HIDE DEF rows
      <4>4. \A v \in rows : /\ q1(v) \in Prep /\ RowInv(q1(v)) /\ q1(v).phase # "finalized"
                            /\ q1(v).conn = p.conn
        BY <2>2, <4>1, <4>3, SelectOk
      <4> HIDE DEF q1
      <4> QED BY <1>1, <3>r, <4>2, <4>4
    <3> QED BY <2>3, <3>1, <3>2, <3>3, <3>4
  <2>6. PICK q \in Prep : /\ preps' = [preps EXCEPT ![s][k] = q] /\ RowInv(q)
                          /\ q.phase # "finalized" /\ q.conn = preps[s][k].conn
    BY <2>2, <2>5
  <2>7. preps' = [preps EXCEPT ![s] = [preps[s] EXCEPT ![k] = q]]
    BY <2>6
  <2>8. /\ preps' \in [Scripts -> Seq(Prep)] /\ \A t \in Scripts \ {s} : preps'[t] = preps[t]
        /\ DOMAIN preps'[s] = DOMAIN preps[s] /\ preps'[s][k] = q
        /\ \A j \in DOMAIN preps[s] \ {k} : preps'[s][j] = preps[s][j]
    BY <1>1, <2>7, ReplaceAt
  <2>9. /\ status' \in [Scripts -> {"running", "closing", "closed", "crashed"}]
        /\ status'[s] # "closed" /\ \A t \in Scripts \ {s} : status'[t] = status[t]
    BY <1>1, <2>5, ErrorStatus
  <2>10. Types'
    BY <1>1, <2>5, <2>8, <2>9 DEF Types
  <2>11. \A c : Pending(s, c)' <=> Pending(s, c)
    BY <1>1, <2>1, <2>6, <2>8 DEF Pending
  <2>12. ConnInv(s)'
    BY <1>1, <2>11, SqliteParts DEF ConnInv
  <2>13. StmtInv(s)'
    BY <1>1, <1>3, <2>6, <2>8, SqliteParts DEF StmtInv
  <2>14. ClosedInv(s)' /\ \A j \in DOMAIN preps'[s] : RowInv(preps'[s][j])
    BY <1>1, <2>6, <2>8, <2>9, SqliteParts DEF ClosedInv
  <2> QED BY <1>1, <2>8, <2>9, <2>10, <2>12, <2>13, <2>14, OneScript
<1> QED BY <1>2, <1>3

LEMMA EndStep == ASSUME SqliteInv, NEW s \in Scripts, ScriptEnds(s) PROVE SqliteInv'
<1>1. /\ UNCHANGED <<files, dbs, conns, stmts, preps>>
      /\ \/ status' = [status EXCEPT ![s] = "closing"]
         \/ /\ status' = [status EXCEPT ![s] = "closed"]
            /\ \A d \in DOMAIN dbs[s] : dbs[s][d].gone
            /\ \A k \in DOMAIN stmts[s] : stmts[s][k].gone
  BY DEF ScriptEnds
<1>2. Types'
  BY <1>1 DEF SqliteInv, Types
<1>3. \A t \in Scripts \ {s} : status'[t] = status[t]
  BY <1>1 DEF SqliteInv, Types
<1>4. ConnInv(s)' /\ StmtInv(s)' /\ \A k \in DOMAIN preps'[s] : RowInv(preps'[s][k])
  BY <1>1, SqliteParts DEF ConnInv, StmtInv, Pending
<1>5. ClosedInv(s)'
  BY <1>1 DEF ClosedInv, SqliteInv, Types
<1> QED BY <1>1, <1>2, <1>3, <1>4, <1>5, OneScript

-----------------------------------------------------------------------------
(* SqliteInv is inductive: every function of the binding, every run of the *)
(* collector and the end of a script preserve it, at any moment.           *)
THEOREM SqliteInductive == SqliteInv /\ [Next]_vars => SqliteInv'
<1> SUFFICES ASSUME SqliteInv, [Next]_vars PROVE SqliteInv'
  OBVIOUS
<1>1. CASE UNCHANGED vars
  BY <1>1 DEF vars, SqliteInv, Types, ConnInv, StmtInv, ClosedInv, Pending
<1>2. CASE Next
  <2>1. PICK s \in Scripts :
          \/ \E p \in Paths, m \in Modes : Sqlite_new(s, p, m)
          \/ \E d \in DOMAIN dbs[s] : \/ \E q \in Sqls : Sqlite_query(s, d, q)
                                      \/ Sqlite_destroy(s, d) \/ Sqlite_gc(s, d)
          \/ \E k \in DOMAIN stmts[s] : \/ \E a \in Args : Stmt_next(s, k, a)
                                        \/ Stmt_destroy(s, k) \/ Stmt_gc(s, k)
          \/ ScriptEnds(s)
    BY <1>2 DEF Next
  <2> QED BY <2>1, NewStep, QueryStep, CloseStep, CallStep, FinalizeStep, EndStep
<1> QED BY <1>1, <1>2

LEMMA SqliteInvariance == Spec => []SqliteInv
  BY SqliteInit, SqliteInductive, PTL DEF Spec

(* No query a script can call holds a released handle, and when a script   *)
(* is over every statement is finalized and every connection it opened is  *)
(* freed, in whatever order the script and the collector destroy them.     *)
THEOREM HandlesCorrect == Spec => []HandlesReleased
  BY SqliteInvariance, SqliteSafe, PTL

(* An iteration returns rows of the arguments bound last only, and none    *)
(* twice.                                                                  *)
THEOREM IterationCorrect == Spec => []IterationRight
  BY SqliteInvariance, SqliteSafe, PTL

=============================================================================
