---------------------------- MODULE BankReserve ----------------------------
(***************************************************************************)
(* bankReserveService.js and the transaction wrapper of models/db.js.      *)
(* assertInvariant is three SELECTs, each with a snapshot of its own; a    *)
(* handler that throws rolls back, one that returns commits.               *)
(***************************************************************************)
EXTENDS BankDb

\* Mutant: the connection goes back to the pool in the middle of its transaction.
ThrowWithoutRollback(t) ==
    /\ job' = [job EXCEPT ![t] = Idle]
    /\ tally' = [tally EXCEPT ![t] = NoTally]
    /\ UNCHANGED <<storage, history>>

\* A throw, or a return before the first write: ROLLBACK and answer the error.
Throw(t) ==
    /\ Rollback(t)
    /\ job' = [job EXCEPT ![t] = Idle]
    /\ tally' = [tally EXCEPT ![t] = NoTally]
    /\ UNCHANGED history

\* Rows a SELECT returned: nothing is written and the handler goes on as next.
Select(t, next) ==
    /\ job' = [job EXCEPT ![t] = next]
    /\ UNCHANGED <<storage, tally, history>>

\* An UPDATE or INSERT, after which the handler goes on as next.
Update(t, row, version, next) ==
    /\ Write(t, row, version)
    /\ job' = [job EXCEPT ![t] = next]
    /\ UNCHANGED <<tally, history>>

\* SELECT reserve_balance, total_issued, total_redeemed FROM bank_reserve
ReadReserve(t) ==
    /\ At(t, "readReserve")
    /\ Goto(t, "readBalances")
    /\ tally' = [tally EXCEPT ![t] = [NoTally EXCEPT !.books = Read(t, ReserveRow)]]
    /\ UNCHANGED <<storage, history>>

\* SELECT SUM(balance) FROM users
ReadBalances(t) ==
    /\ At(t, "readBalances")
    /\ Goto(t, "readInFlight")
    /\ tally' = [tally EXCEPT ![t].sum = SumBalance(View(t))]
    /\ UNCHANGED <<storage, history>>

\* What assertInvariant compares once it has summed the sessions in flight.
BooksBalance(t) ==
    LET bank == tally[t].books
    IN  bank.reserve_balance = tally[t].sum + (bank.total_issued - bank.total_redeemed)
                               + InFlight(View(t))

(***************************************************************************)
(* SELECT SUM(amount) over the sessions in flight, then the comparison.    *)
(* Equal: the cleanup loop turns to its next session, or the handler ends  *)
(* and commits.  Unequal: ReserveInvariantError, and runInvariantCheckedTx *)
(* logs an invariant_violation once the transaction is rolled back.        *)
(***************************************************************************)
ReadInFlight(t) ==
    /\ At(t, "readInFlight")
    /\ \/ /\ ~BooksBalance(t)
          /\ Throw(t)
       \/ /\ BooksBalance(t)
          /\ IF job[t].todo = {}
               THEN Goto(t, "commit")
               ELSE \E s \in job[t].todo :
                      job' = [job EXCEPT ![t] =
                                [job[t] EXCEPT !.pc = "refund", !.sess = s, !.todo = @ \ {s}]]
          /\ tally' = [tally EXCEPT ![t] = [NoTally EXCEPT !.torn = tally[t].torn]]
          /\ UNCHANGED <<storage, history>>

Wrote(t) == \E r \in Row : lock[r] = t

\* The commit of t falls between the reads of u's assertInvariant.
Tears(t, u) ==
    /\ u # t
    /\ job[u].pc \in {"readBalances", "readInFlight"}
    /\ Wrote(t)

\* COMMIT; the handler answers, or goes on to its next transaction.
CommitTx(t) ==
    /\ At(t, "commit")
    /\ Commit(t)
    /\ job' = [job EXCEPT ![t] =
                 IF job[t].then = "idle" THEN Idle
                 ELSE [Idle EXCEPT !.op = job[t].op, !.pc = job[t].then, !.opens = job[t].opens]]
    /\ tally' = [u \in Tx |-> IF u = t THEN NoTally
                             ELSE [tally[u] EXCEPT !.torn = @ \/ Tears(t, u)]]
    /\ blind' = (blind \/ (Wrote(t) /\ tally[t].torn))
    /\ settled' = [s \in Session |-> IF s \in job[t].did THEN settled[s] + 1 ELSE settled[s]]

AssertAndCommit(t) ==
    ReadReserve(t) \/ ReadBalances(t) \/ ReadInFlight(t) \/ CommitTx(t)
=============================================================================
