--------------------------- MODULE PgReadCommitted ---------------------------
(***************************************************************************)
(* The part of PostgreSQL the backend relies on: READ COMMITTED            *)
(* transactions over rows, as models/db.js opens them (BEGIN with no       *)
(* isolation level, statements on one pooled client, COMMIT or ROLLBACK).  *)
(*                                                                         *)
(*   - a SELECT sees the last committed version of every row, overlaid     *)
(*     with what its own transaction wrote;                                *)
(*   - a write takes the row's lock, waits while another transaction holds *)
(*     it, and then acts on the latest version of the row;                 *)
(*   - a lock is kept until the transaction commits or rolls back.         *)
(*                                                                         *)
(* Only the lock holder can have an uncommitted version of a row, so two   *)
(* versions per row are enough: db, the committed one, and cur, the latest.*)
(***************************************************************************)

CONSTANTS Row,      \* the rows of every table
          Tx,       \* the server's connections, each running one transaction at a time
          NoTx      \* owner of an unlocked row

VARIABLES db,       \* [Row -> value]: committed version
          cur,      \* [Row -> value]: latest version, committed or not
          lock      \* [Row -> Tx or NoTx]: whose uncommitted version cur is

\* What a SELECT of transaction t finds in row r.
Read(t, r) == IF lock[r] = t THEN cur[r] ELSE db[r]

\* A write of t to row r need not wait.
Writable(t, r) == lock[r] \in {t, NoTx}

\* UPDATE or INSERT: version v of row r, visible to t only.
Write(t, r, v) ==
    /\ Writable(t, r)
    /\ cur' = [cur EXCEPT ![r] = v]
    /\ lock' = [lock EXCEPT ![r] = t]
    /\ db' = db

Release(t) == lock' = [r \in Row |-> IF lock[r] = t THEN NoTx ELSE lock[r]]

\* COMMIT publishes every version t wrote.
Commit(t) ==
    /\ db' = [r \in Row |-> Read(t, r)]
    /\ Release(t)
    /\ cur' = cur

\* ROLLBACK forgets them.
Rollback(t) ==
    /\ cur' = [r \in Row |-> IF lock[r] = t THEN db[r] ELSE cur[r]]
    /\ Release(t)
    /\ db' = db

\* Every connection is lost: the server rolls back whatever was under way.
RollbackAll ==
    /\ cur' = db
    /\ lock' = [r \in Row |-> NoTx]
    /\ db' = db

\* An unlocked row has one version.
OneVersion == \A r \in Row : lock[r] = NoTx => cur[r] = db[r]
=============================================================================
