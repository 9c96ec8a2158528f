---------------------------- MODULE WithdrawalTx ----------------------------
(***************************************************************************)
(* withdrawalService.js and sessionCleanupService.js, statement by         *)
(* statement: every action but a Begin runs one SQL statement of one       *)
(* request, and the statements of different requests interleave.           *)
(*                                                                         *)
(* What a candidate holds is left out.  What remains of a submit is the    *)
(* index j the bank picks; a reveal is refused, fails the cut-and-choose   *)
(* (the session is aborted) or passes it (the bank signs).                 *)
(***************************************************************************)
EXTENDS BankReserve

CONSTANTS Patient,   \* TRUE: each customer has one request in flight at a time and
                     \* the hourly sweep runs alone; FALSE: any requests overlap
          Crashes    \* whether the server process may die

-----------------------------------------------------------------------------
(* Requests arrive.                                                        *)

\* The session a request is about, the one init will open included.
Subject(t) == IF job[t].opens # NoSession THEN job[t].opens ELSE job[t].sess

MayStart(customers) ==
    Patient => \A u \in Tx : ~At(u, "idle") => /\ job[u].op # "sweep"
                                              /\ Owner[Subject(u)] \notin customers

Start(t, request, customers) ==
    /\ At(t, "idle")
    /\ MayStart(customers)
    /\ job' = [job EXCEPT ![t] = request]
    /\ UNCHANGED <<storage, tally, late, history>>

\* POST /withdraw/init.  s is the id the session will get if the handler reaches its INSERT.
BeginInit(t, s) ==
    /\ cur[SessionRow(s)].status = "none"
    /\ \A u \in Tx : job[u].opens # s
    /\ Start(t, [Idle EXCEPT !.op = "init", !.pc = "lazy", !.opens = s], {Owner[s]})

\* POST /withdraw/submit, /reveal and /cancel name a session init has answered.
BeginOnSession(t, s, op) ==
    /\ db[SessionRow(s)].status # "none"
    /\ Start(t, [Idle EXCEPT !.op = op, !.pc = "select", !.sess = s], {Owner[s]})

\* setInterval fires: CLEANUP_INTERVAL_MS, an hour by default, outlasts the sweep before.
BeginSweep(t) ==
    /\ \A u \in Tx : job[u].op # "sweep"
    /\ Start(t, [Idle EXCEPT !.op = "sweep", !.pc = "select"], User)

\* The clock passes a session's expires_at.
TtlElapses(s) ==
    /\ IsActive(db, s)
    /\ s \notin late
    /\ late' = late \cup {s}
    /\ UNCHANGED <<storage, job, tally, history>>

-----------------------------------------------------------------------------
(* refundAndClose                                                          *)

\* The request as it goes on to refund session s and to give it status newStatus.
Refunding(request, s, rest, newStatus) ==
    [request EXCEPT !.pc = "refund", !.sess = s, !.todo = rest, !.close = newStatus]

\* UPDATE users SET balance = balance + amount
RefundUser(t) ==
    LET s == job[t].sess
        account == UserRow(Owner[s])
    IN  /\ At(t, "refund")
        /\ Update(t, account, cur[account] + Amount[s], [job[t] EXCEPT !.pc = "close"])

\* Mutant: refundAndClose does not assert the invariant.
CloseUnchecked(t) ==
    LET s == job[t].sess
    IN  /\ At(t, "close")
        /\ Update(t, SessionRow(s), [cur[SessionRow(s)] EXCEPT !.status = job[t].close],
                  [job[t] EXCEPT !.pc = "commit", !.did = @ \cup {s}])

\* UPDATE withdrawal_sessions SET status = newStatus: whatever the status is by now.
CloseSession(t) ==
    LET s == job[t].sess
    IN  /\ At(t, "close")
        /\ Update(t, SessionRow(s), [cur[SessionRow(s)] EXCEPT !.status = job[t].close],
                  [job[t] EXCEPT !.pc = "readReserve", !.did = @ \cup {s}])

-----------------------------------------------------------------------------
(* initWithdrawal                                                          *)

\* Mutant: submitted sessions are forgotten.
ExpiredPending(t) == {s \in Session : View(t)[SessionRow(s)].status = "pending" /\ s \in late}

\* The sessions a query for expired ones returns.
Expired(t) == {s \in Session : IsActive(View(t), s) /\ s \in late}

(* lazyCleanupExpiredSessions, a transaction of its own before init's.     *)
LazyCleanup(t) ==
    LET mine == {s \in Session : Owner[s] = Owner[job[t].opens]}
        request == [job[t] EXCEPT !.then = "select"]
    IN  /\ At(t, "lazy")
        /\ \/ /\ Expired(t) \cap mine = {}
              /\ Select(t, [request EXCEPT !.pc = "readReserve"])
           \/ \E s \in Expired(t) \cap mine :
                 Select(t, Refunding(request, s, (Expired(t) \cap mine) \ {s}, "expired"))

InitSelect(t) ==
    /\ At(t, "select") /\ job[t].op = "init"
    /\ IF \E s \in Session : Owner[s] = Owner[job[t].opens] /\ IsActive(View(t), s)
         THEN Throw(t)
         ELSE Select(t, [job[t] EXCEPT !.pc = "balance"])

\* Mutant: off by one.
InitBalanceOffByOne(t) ==
    LET s == job[t].opens
    IN  /\ At(t, "balance")
        /\ IF Read(t, UserRow(Owner[s])) < Amount[s] - 1
             THEN Throw(t)
             ELSE Select(t, [job[t] EXCEPT !.pc = "debit"])

InitBalance(t) ==
    LET s == job[t].opens
    IN  /\ At(t, "balance")
        /\ IF Read(t, UserRow(Owner[s])) < Amount[s]
             THEN Throw(t)
             ELSE Select(t, [job[t] EXCEPT !.pc = "debit"])

\* UPDATE users SET balance = balance - amount: the balance just read is not looked at again.
InitDebit(t) ==
    LET s == job[t].opens
        account == UserRow(Owner[s])
    IN  /\ At(t, "debit")
        /\ Update(t, account, cur[account] - Amount[s], [job[t] EXCEPT !.pc = "insert"])

InitInsert(t) ==
    LET s == job[t].opens
    IN  /\ At(t, "insert")
        /\ ~IndexBusy(t, s)
        /\ IF IndexHit(t, s)
             THEN Throw(t)
             ELSE Update(t, SessionRow(s), [Absent EXCEPT !.status = "pending"],
                         [job[t] EXCEPT !.pc = "readReserve"])

-----------------------------------------------------------------------------
(* submitCandidates                                                        *)

\* Refund the session if its time is up: submit and reveal do so before anything else.
ExpireOnUse(t) ==
    /\ job[t].sess \in late
    /\ Select(t, Refunding(job[t], job[t].sess, {}, "expired"))

\* The row SELECT * FROM withdrawal_sessions WHERE id = ? returns.
Selected(t) == Read(t, SessionRow(job[t].sess))

\* Mutant: a session that was submitted may be submitted again.
SubmitSelectAgain(t) ==
    /\ At(t, "select") /\ job[t].op = "submit"
    /\ Selected(t).status \in Active
    /\ job[t].sess \notin late
    /\ \E j \in Index : Select(t, [job[t] EXCEPT !.pc = "mark", !.j = j])

SubmitSelect(t) ==
    /\ At(t, "select") /\ job[t].op = "submit"
    /\ \/ /\ Selected(t).status # "pending"
          /\ Throw(t)
       \/ /\ Selected(t).status = "pending"
          /\ \/ ExpireOnUse(t)
             \/ /\ job[t].sess \notin late
                /\ \/ Throw(t)                            \* wrong number of candidates
                   \/ \E j \in Index :                    \* pickRandomJ
                         Select(t, [job[t] EXCEPT !.pc = "mark", !.j = j])

\* UPDATE ... SET candidates, j_index, status = 'submitted': whatever the status is by now.
SubmitMark(t) ==
    LET s == job[t].sess
    IN  /\ At(t, "mark")
        /\ ~IndexBusy(t, s)
        /\ Writable(t, SessionRow(s))
        /\ IF IndexHit(t, s)
             THEN Throw(t)
             ELSE Update(t, SessionRow(s), [status |-> "submitted", j_index |-> job[t].j],
                         [job[t] EXCEPT !.pc = "readReserve"])

-----------------------------------------------------------------------------
(* revealAndSign                                                           *)

RevealSelect(t) ==
    /\ At(t, "select") /\ job[t].op = "reveal"
    /\ \/ /\ Selected(t).status # "submitted"
          /\ Throw(t)
       \/ /\ Selected(t).status = "submitted"
          /\ \/ ExpireOnUse(t)
             \/ /\ job[t].sess \notin late
                /\ \/ Throw(t)                   \* not exactly the candidates i # j
                   \/ Select(t, Refunding(job[t], job[t].sess, {}, "aborted"))
                   \/ Select(t, [job[t] EXCEPT !.pc = "sign"])

\* Mutant: the transaction ends once the session is signed.
RevealSignOnly(t) ==
    LET s == job[t].sess
    IN  /\ At(t, "sign")
        /\ Update(t, SessionRow(s), [cur[SessionRow(s)] EXCEPT !.status = "committed"],
                  [job[t] EXCEPT !.pc = "commit", !.did = @ \cup {s}])

\* UPDATE withdrawal_sessions SET status = 'committed': whatever the status is by now.
RevealSign(t) ==
    LET s == job[t].sess
    IN  /\ At(t, "sign")
        /\ Update(t, SessionRow(s), [cur[SessionRow(s)] EXCEPT !.status = "committed"],
                  [job[t] EXCEPT !.pc = "issue", !.did = @ \cup {s}])

\* Mutant: reveal does not assert the invariant.
RevealIssueUnchecked(t) ==
    /\ At(t, "issue")
    /\ Update(t, ReserveRow, [cur[ReserveRow] EXCEPT !.total_issued = @ + Amount[job[t].sess]],
              [job[t] EXCEPT !.pc = "commit"])

\* Mutant: the wrong total is updated.
RevealRedeem(t) ==
    /\ At(t, "issue")
    /\ Update(t, ReserveRow, [cur[ReserveRow] EXCEPT !.total_redeemed = @ + Amount[job[t].sess]],
              [job[t] EXCEPT !.pc = "readReserve"])

\* UPDATE bank_reserve SET total_issued = total_issued + amount
RevealIssue(t) ==
    /\ At(t, "issue")
    /\ Update(t, ReserveRow, [cur[ReserveRow] EXCEPT !.total_issued = @ + Amount[job[t].sess]],
              [job[t] EXCEPT !.pc = "readReserve"])

-----------------------------------------------------------------------------
(* cancelWithdrawal and runGlobalCleanup                                   *)

\* Mutant: a status the schema does not know.
CancelMisspelt(t) ==
    /\ At(t, "select") /\ job[t].op = "cancel"
    /\ IF Selected(t).status \in Active
         THEN Select(t, Refunding(job[t], job[t].sess, {}, "canceled"))
         ELSE Throw(t)

CancelSelect(t) ==
    /\ At(t, "select") /\ job[t].op = "cancel"
    /\ IF Selected(t).status \in Active
         THEN Select(t, Refunding(job[t], job[t].sess, {}, "cancelled"))
         ELSE Throw(t)

SweepSelect(t) ==
    /\ At(t, "select") /\ job[t].op = "sweep"
    /\ \/ /\ Expired(t) = {}
          /\ Throw(t)
       \/ \E s \in Expired(t) :
             Select(t, Refunding(job[t], s, Expired(t) \ {s}, "expired"))

-----------------------------------------------------------------------------
Statement(t) ==
    \/ LazyCleanup(t) \/ InitSelect(t) \/ InitBalance(t) \/ InitDebit(t) \/ InitInsert(t)
    \/ SubmitSelect(t) \/ SubmitMark(t)
    \/ RevealSelect(t) \/ RevealSign(t) \/ RevealIssue(t)
    \/ CancelSelect(t) \/ SweepSelect(t)
    \/ RefundUser(t) \/ CloseSession(t) \/ AssertAndCommit(t)

Begin(t) ==
    \/ \E s \in Session : BeginInit(t, s)
    \/ \E s \in Session, op \in {"submit", "reveal", "cancel"} : BeginOnSession(t, s, op)
    \/ BeginSweep(t)

Step(t) == Statement(t) /\ UNCHANGED late

\* The server process dies: what was not committed is gone, the requests are never answered.
Crash ==
    /\ Crashes
    /\ \E t \in Tx : ~At(t, "idle")
    /\ RollbackAll
    /\ job' = [t \in Tx |-> Idle]
    /\ tally' = [t \in Tx |-> NoTally]
    /\ UNCHANGED <<late, history>>

Next ==
    \/ \E t \in Tx : Begin(t) \/ Step(t)
    \/ \E s \in Session : TtlElapses(s)
    \/ Crash

Spec == DbInit /\ [][Next]_vars

-----------------------------------------------------------------------------
(* What holds however the requests overlap.                                *)

\* At most one active session per customer is ever committed.
OneActive ==
    \A s \in Session : IsActive(db, s) => \A r \in Rival(s) : ~IsActive(db, r)

\* assertInvariant is a sound backstop as long as nobody commits on torn reads.
BackstopHolds == ~blind => Balanced(db)

\* ... and then a session that was debited is refunded or signed at most once.
SettledOnce == ~blind => \A s \in Session : settled[s] <= 1

-----------------------------------------------------------------------------
(* What needs the requests of a customer not to overlap.                   *)

\* Nobody has spent more than the balance init checked.
NoOverdraft == \A u \in User : db[UserRow(u)] >= 0

\* The reserve equation of bankReserveService.js holds of what is committed.
Conservation == Balanced(db)

\* A ReserveInvariantError is only ever raised by reads that saw different states of the books.
NoFalseAlarm == \A t \in Tx : At(t, "readInFlight") /\ ~BooksBalance(t) => tally[t].torn

-----------------------------------------------------------------------------
(***************************************************************************)
(* Progress.  A statement the database can run is run, the clock moves on, *)
(* and the sweep's timer fires over and over: the queue of the pool is     *)
(* first in, first out, so the sweep gets a connection in the end.         *)
(***************************************************************************)
FairSpec ==
    /\ Spec
    /\ \A t \in Tx : WF_vars(Step(t))
    /\ \A s \in Session : WF_vars(TtlElapses(s))
    /\ SF_vars(\E t \in Tx : BeginSweep(t))

\* Every request is answered: no wait for a row lock or for the index lasts forever.
Answered == \A t \in Tx : ~At(t, "idle") ~> At(t, "idle")

\* A debited customer is not left without both money and token.
EventuallySettled ==
    []Conservation =>
        \A s \in Session : IsActive(db, s) ~> ~IsActive(db, s)

-----------------------------------------------------------------------------
\* The tables as the atomic service of WithdrawalLedger would see them.
Ledger == INSTANCE WithdrawalLedger WITH
             balance <- [u \in User |-> db[UserRow(u)]],
             session <- [s \in Session |-> db[SessionRow(s)]],
             issued  <- db[ReserveRow].total_issued

\* Every commit is one request of the ledger taking effect, or changes nothing.
Atomic == Ledger!Spec
=============================================================================
