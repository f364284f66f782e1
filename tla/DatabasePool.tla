------------------------------ MODULE DatabasePool ------------------------------
(***************************************************************************)
(* connections/database.py: statements of several calls on a few pooled    *)
(* connections, which the three backends make read-only and writable in    *)
(* ways of their own.  SQL is a read or a write.                           *)
(***************************************************************************)
EXTENDS FiniteSets

CONSTANTS
  DbCalls,      \* calls of query, execute, explain and the health checks
  Connections   \* connections the pool may open

ASSUME DbAssumption == "none" \notin Connections

VARIABLES
  backend,  \* "sqlite", "mariadb" or "postgresql"
  session,  \* per connection: mode that outlives a transaction
  txn,      \* per connection: mode of the open transaction
  dbcall    \* the calls

dbVars == <<backend, session, txn, dbcall>>

IdleCall == [pc |-> "idle", kind |-> "none", conn |-> "none"]

Busy(conn) == \E c \in DbCalls : dbcall[c].conn = conn

(* A statement opens a transaction in the session's mode; query_only of    *)
(* SQLite is looked up at every statement.                                 *)
Mode(conn) == IF backend = "sqlite" \/ txn[conn] = "none" THEN session[conn] ELSE txn[conn]

Connect(c) ==
  /\ dbcall[c].pc = "idle"
  /\ \E conn \in Connections, kind \in {"query", "execute", "explain", "health"} :
       /\ ~Busy(conn)
       /\ dbcall' = [dbcall EXCEPT ![c] = [pc |-> IF kind = "health" THEN "ready" ELSE "connected", kind |-> kind, conn |-> conn]]
  /\ UNCHANGED <<backend, session, txn>>

(* PRAGMA query_only; SET SESSION TRANSACTION; SET TRANSACTION.            *)
SetReadOnly(conn) ==
  IF backend = "postgresql"
  THEN txn' = [txn EXCEPT ![conn] = "read"] /\ UNCHANGED session
  ELSE session' = [session EXCEPT ![conn] = "read"] /\ UNCHANGED txn

(* Variant: a connection is taken as the pool hands it out.                *)
LeftAsItWas(conn) == UNCHANGED <<session, txn>>

(* PostgreSQL's default for the session is undone by the rollback.         *)
SetWritable(conn) ==
  IF backend = "postgresql"
  THEN txn' = [txn EXCEPT ![conn] = "write"] /\ UNCHANGED session
  ELSE session' = [session EXCEPT ![conn] = "write"] /\ UNCHANGED txn

PrepareQuery(c) ==
  /\ dbcall[c].pc = "connected" /\ dbcall[c].kind = "query"
  /\ SetReadOnly(dbcall[c].conn)
  /\ dbcall' = [dbcall EXCEPT ![c].pc = "ready"]
  /\ UNCHANGED backend

PrepareWrite(c) ==
  /\ dbcall[c].pc = "connected" /\ dbcall[c].kind \in {"execute", "explain"}
  /\ SetWritable(dbcall[c].conn)
  /\ dbcall' = [dbcall EXCEPT ![c].pc = "prepared"]
  /\ UNCHANGED backend

(* conn.rollback() ends what the preparation began.                        *)
StartAfresh(c) ==
  /\ dbcall[c].pc = "prepared"
  /\ txn' = [txn EXCEPT ![dbcall[c].conn] = "none"]
  /\ dbcall' = [dbcall EXCEPT ![c].pc = "ready"]
  /\ UNCHANGED <<backend, session>>

Statement(c) ==
  /\ dbcall[c].pc = "ready"
  /\ txn' = [txn EXCEPT ![dbcall[c].conn] = IF @ = "none" THEN session[dbcall[c].conn] ELSE @]
  /\ dbcall' = [dbcall EXCEPT ![c].pc = "ran"]
  /\ UNCHANGED <<backend, session>>

(* The end of the with block, after the statement or after an error or a   *)
(* cancellation before it: the pool rolls the connection back.             *)
Disconnect(c) ==
  /\ dbcall[c].pc # "idle"
  /\ txn' = [txn EXCEPT ![dbcall[c].conn] = "none"]
  /\ dbcall' = [dbcall EXCEPT ![c] = IdleCall]
  /\ UNCHANGED <<backend, session>>

DbNext ==
  \E c \in DbCalls :
    Connect(c) \/ PrepareQuery(c) \/ PrepareWrite(c) \/ StartAfresh(c) \/ Statement(c) \/ Disconnect(c)

DbInit ==
  /\ backend \in {"sqlite", "mariadb", "postgresql"}
  /\ session = [conn \in Connections |-> "write"]
  /\ txn = [conn \in Connections |-> "none"]
  /\ dbcall = [c \in DbCalls |-> IdleCall]

DbSpec == DbInit /\ [][DbNext]_dbVars

-----------------------------------------------------------------------------
(* Whatever calls a connection served before, and however they ended, a    *)
(* statement of query meets it read-only and one of execute or explain     *)
(* writable, on every backend.                                             *)
StatementsMeetTheirMode ==
  \A c \in DbCalls :
    dbcall[c].pc = "ready" =>
      CASE dbcall[c].kind = "query"  -> Mode(dbcall[c].conn) = "read"
        [] dbcall[c].kind = "health" -> TRUE
        [] OTHER                     -> Mode(dbcall[c].conn) = "write"
=============================================================================
