------------------------------ MODULE EscrowTx ------------------------------
(***************************************************************************)
(* escrowService.js, processPayment and redeemSplit of paymentService.js   *)
(* and deposit of bankService.js, statement by statement.                  *)
(*                                                                         *)
(* Format gate and signature check run before BEGIN and touch nothing: a   *)
(* request that reaches the database presents a token the bank has signed. *)
(***************************************************************************)
EXTENDS EscrowDb

CONSTANTS Offered,   \* the kinds of requests that are sent
          Patient,   \* TRUE: one escrow request at a time, and one cash deposit per user;
                     \* FALSE: any requests overlap
          Crashes    \* whether the server process may die

-----------------------------------------------------------------------------
(* Requests arrive.                                                        *)

OfEscrow == {"create", "details"} \cup Audited

MayStart(request) ==
    Patient => \A t \in Tx :
        /\ ~(job[t].op \in OfEscrow /\ request.op \in OfEscrow)
        /\ ~(job[t].op = "deposit" /\ request.op = "deposit" /\ job[t].user = request.user)

Start(t, request) ==
    /\ At(t, "idle")
    /\ request.op \in Offered
    /\ MayStart(request)
    /\ job' = [job EXCEPT ![t] = [request EXCEPT !.late = late]]
    /\ UNCHANGED <<storage, history>>

\* POST /payment/escrow: e is the id the escrow will get.
BeginCreate(t, e) ==
    /\ cur[EscrowRow(e)].status = "none"
    /\ \A u \in Tx : ~(job[u].op = "create" /\ job[u].esc = e)
    /\ Start(t, [Idle EXCEPT !.op = "create", !.pc = "insert", !.user = Merchant[e], !.esc = e])

Known(e) == db[EscrowRow(e)].status # "none"

\* POST /payment/lock
BeginLock(t, u, e, c) ==
    /\ Known(e)
    /\ Start(t, [Idle EXCEPT !.op = "lock", !.pc = "cleanup", !.user = u, !.esc = e, !.coin = c])

\* POST /payment/confirm and /payment/cancel
BeginSettle(t, op, u, e) ==
    /\ Known(e)
    /\ Start(t, [Idle EXCEPT !.op = op, !.pc = "cleanup", !.user = u, !.esc = e])

\* GET /payment/escrow/:id
BeginDetails(t, e) ==
    /\ Known(e)
    /\ Start(t, [Idle EXCEPT !.op = "details", !.pc = "cleanup", !.esc = e])

\* POST /payment, /bank/redeem and /bank/redeem-split
BeginPay(t, op, u, c) ==
    Start(t, [Idle EXCEPT !.op = op, !.pc = "coin", !.user = u, !.coin = c, !.payee = u])

\* Mutant: the amount asked for is not counted.
BeginDepositUncounted(t, u, amount) ==
    LET day == db[UserRow(u)]
    IN  /\ day.cash + day.income <= DailyCap
        /\ Start(t, [Idle EXCEPT !.op = "deposit", !.pc = "credit", !.user = u,
                                 !.amount = amount, !.payee = u])

\* POST /bank/deposit: the day's sum, token income included, is read before BEGIN.
BeginDeposit(t, u, amount) ==
    LET day == db[UserRow(u)]
    IN  /\ day.cash + day.income + amount <= DailyCap
        /\ Start(t, [Idle EXCEPT !.op = "deposit", !.pc = "credit", !.user = u,
                                 !.amount = amount, !.payee = u])

\* The clock passes an escrow's expires_at.
TimePasses(e) ==
    /\ db[EscrowRow(e)].status \in Open
    /\ e \notin late
    /\ late' = late \cup {e}
    /\ UNCHANGED <<storage, job, history>>

-----------------------------------------------------------------------------
(* lazyCleanupExpiredEscrows                                               *)

Lapsed(t, status) == {e \in job[t].late : View(t)[EscrowRow(e)].status = status}

\* UPDATE payment_escrows SET status = 'expired' WHERE status = 'created' AND late, row by row.
CleanCreated(t) ==
    /\ At(t, "cleanup")
    /\ \E e \in Lapsed(t, "created") :
          Update(t, EscrowRow(e), [cur[EscrowRow(e)] EXCEPT !.status = "expired"], job[t])

AfterCleanup(request) ==
    [request EXCEPT !.row = NoEscrow,
                    !.pc = IF request.op = "details" THEN "commit" ELSE "select"]

\* Mutant: locked escrows are left alone.
CleanNothing(t) ==
    /\ At(t, "cleanup")
    /\ Lapsed(t, "created") = {}
    /\ Select(t, AfterCleanup(job[t]))

\* SELECT id, customer_id, amount ... WHERE status = 'locked' AND late
CleanSelect(t) ==
    LET rows == {<<e, View(t)[EscrowRow(e)].customer>> : e \in Lapsed(t, "locked")}
    IN  /\ At(t, "cleanup")
        /\ Lapsed(t, "created") = {}
        /\ Select(t, IF rows = {} THEN AfterCleanup(job[t])
                                  ELSE [job[t] EXCEPT !.pc = "refundLate", !.overdue = rows])

Grow(account, amount) == [account EXCEPT !.balance = @ + amount]

\* UPDATE users SET balance = balance + amount, for the next of the selected rows.
RefundLate(t) ==
    /\ At(t, "refundLate")
    /\ \E row \in job[t].overdue :
          Update(t, UserRow(row[2]), Grow(cur[UserRow(row[2])], Price[row[1]]),
                 [job[t] EXCEPT !.pc = "expireLate", !.row = row[1], !.overdue = @ \ {row}])

\* UPDATE payment_escrows SET status = 'expired' WHERE id = ?: whatever the status is by now.
ExpireLate(t) ==
    LET e == job[t].row
    IN  /\ At(t, "expireLate")
        /\ Update(t, EscrowRow(e), [cur[EscrowRow(e)] EXCEPT !.status = "expired"],
                  [job[t] EXCEPT !.pc = "burnLate"])

Burn(bank, amount) == [bank EXCEPT !.total_issued = @ - amount]

\* Mutant: the refunded token still counts as issued.
BurnLateForgotten(t) ==
    /\ At(t, "burnLate")
    /\ Update(t, ReserveRow, cur[ReserveRow],
              IF job[t].overdue = {} THEN AfterCleanup(job[t])
                                     ELSE [job[t] EXCEPT !.pc = "refundLate"])

\* UPDATE bank_reserve SET total_issued = total_issued - amount
BurnLate(t) ==
    /\ At(t, "burnLate")
    /\ Update(t, ReserveRow, Burn(cur[ReserveRow], Price[job[t].row]),
              IF job[t].overdue = {} THEN AfterCleanup(job[t])
                                     ELSE [job[t] EXCEPT !.pc = "refundLate"])

-----------------------------------------------------------------------------
(* createEscrow and lockToken                                              *)

\* INSERT INTO payment_escrows
CreateInsert(t) ==
    /\ At(t, "insert")
    /\ Update(t, EscrowRow(job[t].esc), [Absent EXCEPT !.status = "created"],
              [job[t] EXCEPT !.pc = "assert"])

\* The row SELECT * FROM payment_escrows WHERE id = ? returns.
Selected(t) == Read(t, EscrowRow(job[t].esc))

\* A lock that finds its escrow open, but late by the clock of this moment.
TooLate(t) == job[t].op = "lock" /\ Selected(t).status = "created" /\ job[t].esc \in late

\* Lock goes on with an escrow that is open, in time, asked with its challenge and price.  The
\* UPDATE that marks a late one 'expired' may have to wait; the throw then takes it back.
LockSelect(t) ==
    /\ At(t, "select") /\ job[t].op = "lock"
    /\ \/ ~TooLate(t) /\ Throw(t)                \* not open, or not the escrow's challenge
       \/ TooLate(t) /\ Writable(t, EscrowRow(job[t].esc)) /\ Throw(t)
       \/ /\ Selected(t).status = "created"
          /\ job[t].esc \notin late
          /\ Worth[job[t].coin] = Price[job[t].esc]
          /\ Select(t, [job[t] EXCEPT !.pc = "coin"])

\* SELECT ... FROM spent_coins WHERE serial = ?
SelectCoin(t) ==
    /\ At(t, "coin")
    /\ IF Read(t, CoinRow(job[t].coin)) # NoUser
         THEN Throw(t)
         ELSE Select(t, [job[t] EXCEPT !.pc = "spend"])

\* Mutant: spent_coins.depositor_id is the customer, as in a payment.
DepositedToSender(request) == request.user

\* spent_coins.depositor_id
DepositedTo(request) == IF request.op = "lock" THEN Merchant[request.esc] ELSE request.user

\* Mutant: spent_coins.serial is not UNIQUE.
SpendAgain(t) ==
    /\ At(t, "spend")
    /\ Update(t, CoinRow(job[t].coin), DepositedTo(job[t]),
              [job[t] EXCEPT !.pc = IF job[t].op = "lock" THEN "mark" ELSE "credit"])

\* INSERT INTO spent_coins: waits for another insert of the serial, and fails once it is there.
Spend(t) ==
    LET row == CoinRow(job[t].coin)
    IN  /\ At(t, "spend")
        /\ Writable(t, row)
        /\ IF cur[row] # NoUser
             THEN Throw(t)
             ELSE Update(t, row, DepositedTo(job[t]),
                         [job[t] EXCEPT !.pc = IF job[t].op = "lock" THEN "mark" ELSE "credit"])

\* Mutant: two of the statement's parameters are swapped.
MarkSwapped(t) ==
    /\ At(t, "mark")
    /\ Update(t, EscrowRow(job[t].esc),
              [status |-> "locked", customer |-> job[t].coin, serial |-> job[t].user],
              [job[t] EXCEPT !.pc = "assert"])

\* UPDATE payment_escrows SET customer_id, serial, status = 'locked': whatever the status is by now.
MarkLocked(t) ==
    /\ At(t, "mark")
    /\ Update(t, EscrowRow(job[t].esc),
              [status |-> "locked", customer |-> job[t].user, serial |-> job[t].coin],
              [job[t] EXCEPT !.pc = "assert"])

-----------------------------------------------------------------------------
(* confirmEscrow and cancelEscrow, and what they share with the payments.  *)

\* Mutant: the status is not checked.
ConfirmAgain(t) ==
    /\ At(t, "select") /\ job[t].op = "confirm"
    /\ IF Selected(t).customer = job[t].user
         THEN Select(t, [job[t] EXCEPT !.pc = "credit", !.payee = Merchant[job[t].esc]])
         ELSE Throw(t)

ConfirmSelect(t) ==
    /\ At(t, "select") /\ job[t].op = "confirm"
    /\ IF Selected(t).status = "locked" /\ Selected(t).customer = job[t].user
         THEN Select(t, [job[t] EXCEPT !.pc = "credit", !.payee = Merchant[job[t].esc]])
         ELSE Throw(t)

\* The merchant refunds at any time, the customer after expires_at, by the clock of this moment.
MayRefund(t) ==
    \/ job[t].user = Merchant[job[t].esc]
    \/ job[t].user = Selected(t).customer /\ job[t].esc \in late

CancelSelect(t) ==
    /\ At(t, "select") /\ job[t].op = "cancel"
    /\ \/ /\ Selected(t).status = "created"
          /\ job[t].user = Merchant[job[t].esc]
          /\ Select(t, [job[t] EXCEPT !.pc = "close"])
       \/ /\ Selected(t).status = "locked"
          /\ MayRefund(t)
          /\ Select(t, [job[t] EXCEPT !.pc = "credit", !.payee = Selected(t).customer])
       \/ /\ \/ Selected(t).status \notin Open
             \/ Selected(t).status = "created" /\ job[t].user # Merchant[job[t].esc]
             \/ Selected(t).status = "locked" /\ ~MayRefund(t)
          /\ Throw(t)

\* What a request moves: an escrow's price, a token's value or cash.
Moved(request) == IF request.op \in Settlement THEN Price[request.esc]
                  ELSE IF request.op \in Payment THEN Worth[request.coin] ELSE request.amount

\* Balance and day's sum of the payee: a refund and a split are of other kinds than 'deposit'.
Credited(account, request) ==
    LET amount == Moved(request)
    IN  [Grow(account, amount) EXCEPT
           !.cash = IF request.op = "deposit" THEN @ + amount ELSE @,
           !.income = IF request.op \in {"confirm", "pay"} THEN @ + amount ELSE @]

\* UPDATE users SET balance = balance + amount
Credit(t) ==
    LET account == UserRow(job[t].payee)
    IN  /\ At(t, "credit")
        /\ Update(t, account, Credited(cur[account], job[t]), [job[t] EXCEPT !.pc = "book"])

\* The total of bank_reserve a request changes.
Booked(bank, request) ==
    LET amount == Moved(request)
    IN  IF request.op = "cancel" THEN Burn(bank, amount)
        ELSE IF request.op = "deposit" THEN [bank EXCEPT !.reserve_balance = @ + amount]
        ELSE [bank EXCEPT !.total_redeemed = @ + amount]

\* UPDATE bank_reserve
Book(t) ==
    /\ At(t, "book")
    /\ Update(t, ReserveRow, Booked(cur[ReserveRow], job[t]),
              [job[t] EXCEPT !.pc = IF job[t].op \in Settlement THEN "close" ELSE "assert"])

\* UPDATE payment_escrows SET status = ... WHERE id = ?: whatever the status is by now.
Close(t) ==
    /\ At(t, "close")
    /\ Update(t, EscrowRow(job[t].esc),
              [cur[EscrowRow(job[t].esc)] EXCEPT
                 !.status = IF job[t].op = "confirm" THEN "committed" ELSE "cancelled"],
              [job[t] EXCEPT !.pc = "assert"])

-----------------------------------------------------------------------------
(* The end of a transaction.                                               *)

\* Another transaction that may commit between the SELECTs of t's assertInvariant.
Disturbed(t) == \E u \in Tx \ {t} : \E r \in Row : lock[r] = u

\* Whether the handler ends with logAction on a connection of its own.
LogsOutside(request) ==
    request.op = "lock" \/ (request.op \in Settlement /\ request.payee # NoUser)

\* assertInvariant: its SELECTs, taken together, are only reliable if no commit disturbs them.
AssertBooks(t) ==
    /\ At(t, "assert")
    /\ \/ /\ Balanced(View(t)) \/ Disturbed(t)
          /\ Select(t, [job[t] EXCEPT !.pc = IF LogsOutside(job[t]) THEN "audit" ELSE "commit"])
       \/ /\ ~Balanced(View(t)) \/ Disturbed(t)
          /\ Throw(t)

PoolHasFree == \E t \in Tx : At(t, "idle")

Entry(t) == <<job[t].op, job[t].esc>>

\* Mutant: no connection, no audit row.
AuditIfPossible(t) ==
    /\ At(t, "audit")
    /\ audit' = IF PoolHasFree THEN audit \cup {Entry(t)} ELSE audit
    /\ job' = [job EXCEPT ![t].pc = "commit"]
    /\ UNCHANGED <<storage, done, orphan, spends>>

\* logAction without db: INSERT INTO audit_log on another connection, committed at once.
AuditOutside(t) ==
    /\ At(t, "audit")
    /\ PoolHasFree
    /\ audit' = audit \cup {Entry(t)}
    /\ job' = [job EXCEPT ![t].pc = "commit"]
    /\ UNCHANGED <<storage, done, orphan, spends>>

\* Mutant: logAction asks the pool again and again.
PoolAsksAgain(t) ==
    /\ At(t, "audit")
    /\ ~PoolHasFree
    /\ Select(t, job[t])

\* connectionTimeoutMillis: no connection became free for 5 s, and logAction throws.
PoolTimeout(t) ==
    /\ At(t, "audit")
    /\ ~PoolHasFree
    /\ Throw(t)

CommitTx(t) ==
    /\ At(t, "commit")
    /\ Commit(t)
    /\ job' = [job EXCEPT ![t] = Idle]
    /\ done' = IF LogsOutside(job[t]) THEN done \cup {Entry(t)} ELSE done
    /\ spends' = [c \in Coin |-> IF c = job[t].coin THEN spends[c] + 1 ELSE spends[c]]
    /\ UNCHANGED <<audit, orphan>>

-----------------------------------------------------------------------------
(* PostgreSQL breaks a circle of lock waits by aborting one of its members. *)

\* The row the next statement of t writes, if it is one that may have to wait.
Wanted(t) ==
    CASE At(t, "cleanup")    -> {EscrowRow(e) : e \in Lapsed(t, "created")}
      [] At(t, "refundLate") -> {UserRow(row[2]) : row \in job[t].overdue}
      [] At(t, "expireLate") -> {EscrowRow(job[t].row)}
      [] At(t, "select") /\ TooLate(t) -> {EscrowRow(job[t].esc)}
      [] At(t, "spend")      -> {CoinRow(job[t].coin)}
      [] At(t, "credit")     -> {UserRow(job[t].payee)}
      [] job[t].pc \in {"burnLate", "book"}        -> {ReserveRow}
      [] job[t].pc \in {"insert", "mark", "close"} -> {EscrowRow(job[t].esc)}
      [] OTHER -> {}

WaitsFor(t) == IF \E r \in Wanted(t) : Writable(t, r) THEN {} ELSE {lock[r] : r \in Wanted(t)}

Deadlocked(t) ==
    \E circle \in SUBSET Tx :
        /\ t \in circle
        /\ \A u \in circle : /\ WaitsFor(u) \cap circle # {}
                             /\ \E w \in circle : u \in WaitsFor(w)

DeadlockVictim(t) == Deadlocked(t) /\ Throw(t)

-----------------------------------------------------------------------------
Statement(t) ==
    \/ CleanCreated(t) \/ CleanSelect(t) \/ RefundLate(t) \/ ExpireLate(t) \/ BurnLate(t)
    \/ CreateInsert(t) \/ LockSelect(t) \/ SelectCoin(t) \/ Spend(t) \/ MarkLocked(t)
    \/ ConfirmSelect(t) \/ CancelSelect(t) \/ Credit(t) \/ Book(t) \/ Close(t)
    \/ AssertBooks(t) \/ AuditOutside(t) \/ PoolTimeout(t) \/ CommitTx(t) \/ DeadlockVictim(t)

Begin(t) ==
    \/ \E e \in Escrow :
          \/ BeginCreate(t, e) \/ BeginDetails(t, e)
          \/ \E u \in User : \/ \E c \in Coin : BeginLock(t, u, e, c)
                             \/ \E op \in Settlement : BeginSettle(t, op, u, e)
    \/ \E u \in User :
          \/ \E c \in Coin, op \in Payment : BeginPay(t, op, u, c)
          \/ \E amount \in Cash : BeginDeposit(t, u, amount)

Step(t) == Statement(t) /\ UNCHANGED late

\* The server process dies: what was not committed is gone, the audit rows stay.
Crash ==
    /\ Crashes
    /\ \E t \in Tx : ~At(t, "idle")
    /\ RollbackAll
    /\ orphan' = orphan \cup {Entry(t) : t \in {u \in Tx : At(u, "commit") /\ LogsOutside(job[u])}}
    /\ job' = [t \in Tx |-> Idle]
    /\ UNCHANGED <<late, audit, done, spends>>

Next ==
    \/ \E t \in Tx : (Begin(t) /\ UNCHANGED late) \/ Step(t)
    \/ \E e \in Escrow : TimePasses(e)
    \/ Crash

Spec == DbInit /\ [][Next]_vars

-----------------------------------------------------------------------------
(* What holds however the requests overlap.                                *)

\* A token is spent once, by a payment, a split or a lock; and it is unless it lies there unspent.
SpendOnce == \A c \in Coin : spends[c] = IF db[CoinRow(c)] = NoUser THEN 0 ELSE 1

\* A locked or settled escrow has a token of its price that nobody else was paid with.
EscrowHasToken ==
    \A e \in Escrow : db[EscrowRow(e)].status \in {"locked", "committed"} =>
        LET c == db[EscrowRow(e)].serial
        IN  /\ Worth[c] = Price[e]
            /\ db[CoinRow(c)] = Merchant[e]
            /\ \A f \in Escrow \ {e} : db[EscrowRow(f)].serial # c

\* The reserve equation of bankReserveService.js holds of what is committed.
Conservation == Balanced(db)

\* Every lock and settlement that was committed is in audit_log; an entry without one is left
\* by a request that is about to commit, or died just then.
AuditTrail ==
    /\ done \subseteq audit
    /\ audit \subseteq done \cup orphan \cup {Entry(t) : t \in {u \in Tx : At(u, "commit")}}

-----------------------------------------------------------------------------
(* What needs the escrow requests not to overlap.                          *)

Locked(version) ==
    SumFunction([e \in Escrow |-> IF version[EscrowRow(e)].status = "locked" THEN Price[e] ELSE 0])
Unspent(version) ==
    SumFunction([c \in Coin |-> IF version[CoinRow(c)] = NoUser THEN Worth[c] ELSE 0])

\* assertInvariant's comment: total_issued - total_redeemed is the tokens in circulation, those
\* not spent yet and those locked in an escrow.
TokensBacked ==
    LET bank == db[ReserveRow]
    IN  bank.total_issued - bank.total_redeemed = Unspent(db) + Locked(db)

\* bankService.js: nobody pays in more cash than MAX_DEPOSIT_PER_DAY within the day.
DailyCapKept == \A u \in User : db[UserRow(u)].cash <= DailyCap

-----------------------------------------------------------------------------
(***************************************************************************)
(* Progress.  A statement the database can run is run, a free connection   *)
(* ends a wait in the pool, PostgreSQL's deadlock_timeout and the pool's   *)
(* timeout fire.                                                           *)
(***************************************************************************)
FairSteps ==
    /\ \A t \in Tx : WF_vars(Step(t))
    /\ \A e \in Escrow : WF_vars(TimePasses(e))

\* Every request is answered, whatever waits for what: rows, index entries, connections.
Answered == \A t \in Tx : ~At(t, "idle") ~> At(t, "idle")

AskDetails(e) == (\E t \in Tx : BeginDetails(t, e)) /\ UNCHANGED late

\* Somebody looks at every escrow now and then.
WatchedSpec == Spec /\ FairSteps /\ \A e \in Escrow : SF_vars(AskDetails(e))

\* A locked escrow is settled: the token's value ends with one of the two.
EscrowSettled ==
    \A e \in Escrow : db[EscrowRow(e)].status = "locked" ~> db[EscrowRow(e)].status \notin Open

-----------------------------------------------------------------------------
\* The tables as the atomic service of EscrowLedger would see them.
Ledger == INSTANCE EscrowLedger WITH
             balance <- [u \in User |-> db[UserRow(u)].balance],
             holder  <- [c \in Coin |-> db[CoinRow(c)]],
             escrow  <- [e \in Escrow |-> db[EscrowRow(e)]],
             bank    <- db[ReserveRow]

\* Every commit is one request of the ledger taking effect, or changes nothing.
Atomic == Ledger!Spec
=============================================================================
