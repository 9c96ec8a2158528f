# BlindCash in TLA+

BlindCash is a Chaum-style e-cash bank: customers withdraw blindly signed tokens
in a four-move cut-and-choose protocol, pay with them or lock them in an escrow,
and merchants deposit them.  The backend is an Express application on
PostgreSQL; a React client keeps the tokens in the browser.

Three things make this code hard to test, and the models follow them.  The bank's
money is a handful of rows that every request reads in one statement and changes
in another: the services are modelled **one SQL statement at a time**.  Its keys
are cached in every process: they are modelled **await by await**, in several
processes.  The browser's handlers go on after an `await` in whatever page, tab and
login they find by then: they are modelled **callback by callback**, with answers
that are late or lost.

## 1. Inventory

Paths are under `backend/src` and `frontend/src`.

| Component | State it keeps | Operations | What is hard | What makes it correct |
|---|---|---|---|---|
| Withdrawal service (`services/withdrawalService.js`, `routes/withdrawal.js`) | `withdrawal_sessions`, `users.balance`, `bank_reserve.total_issued` | init, submit, reveal, cancel, lazy cleanup | checks are SELECTs, updates are by id and unconditional; requests of one customer overlap; sessions expire meanwhile | one active session per customer; each debit is refunded or signed once; nobody is overdrawn; one index per session |
| Session cleanup (`services/sessionCleanupService.js`) | a timer | global sweep | one transaction over all customers, beside any request | every session ends in the end |
| Reserve invariant (`services/bankReserveService.js`) | none (reads `bank_reserve`) | `assertInvariant`, `runInvariantCheckedTx` | three SELECTs, three snapshots | no unbalanced books are committed, no balanced ones refused |
| Database access (`models/db.js`) | connection pool (10, 5 s) | `runImmediateTx`, statements | READ COMMITTED, whatever "immediate" meant for SQLite; pool waits inside transactions | all or nothing; connections and locks are given back |
| Schema (`models/schema.sql`) | tables, unique indexes | constraint checks | partial unique indexes are the only real mutual exclusion | — |
| Escrow (`services/escrowService.js`) | `payment_escrows`, `spent_coins`, balances, reserve | create, lock, confirm, cancel, details, lazy cleanup of everybody's escrows | cleanup inside any request; check-then-update by id; second connection for the audit | an escrow is settled once; a token is spent once; books conserved |
| Payment (`services/paymentService.js`) | `spent_coins`, balances, reserve | deposit a token, split | two endpoints and the escrow compete for a serial; repeated requests | a token is credited once; a repeat is answered consistently |
| Bank (`services/bankService.js`) | balances, reserve | cash deposit | daily cap summed outside the transaction | cap and equation hold |
| Bank keys (`services/bankKeyService.js`) | `bank_keys`, two caches per process | first generation, rotation, lookup by version | caches filled by a read that a rotation overtakes; several processes | one active key per denomination, never none; retired keys expire; rotation stays possible |
| Blind signature, cut-and-choose (`crypto/`) | none | sign, blind, unblind, verify, pick j | arithmetic mod n, rejection sampling | unblinded signatures verify; j is uniform |
| Migrations (`utils/migrationRunner.js`) | `schema_migrations` | run pending migrations | two processes boot together; a script fails half way | each migration takes effect once or not at all, in order |
| Audit log (`services/auditService.js`) | `audit_log` | append | rows written on another connection survive a rollback | a row exists iff its action does |
| Withdrawal page (`pages/Withdraw.jsx`) | step, session, blinding factors, token, in memory | init, submit, reveal, save, cancel | lost and late answers, reloads, expiry, key rotation under way | a signed token is not lost; the chosen candidate's blinders stay home |
| Wallet (`utils/walletDB.js`, `pages/Payment.jsx`, `Wallet.jsx`, `Bank.jsx`) | coins and pending payments in IndexedDB, one database per user | pay, resubmit, retry, discard, lock, redeem, remove | handlers overlap, outlive pages and logins; read-modify-write over two IndexedDB transactions | no token is deleted while it is spendable; no queued payment vanishes |
| Transactions ledger, users, auth, privacy, admin, rate limits, app | rows, JWT, counters of a library | CRUD and wiring | the limiter runs before authentication | — |

Interactions: routes call services; services call `runInvariantCheckedTx`, which
takes a pooled connection, runs the handler's statements between BEGIN and COMMIT
and, through `assertInvariant`, reads the reserve equation at the end.  Sharing
between requests goes through the tables, except for the key caches, which are
per process.  The only background activity is the cleanup timer.  The pages call
the endpoints with axios, share one IndexedDB database per user among the tabs,
and keep the blinding factors of a withdrawal in memory only.

## 2. Modules

```
PgReadCommitted      rows, row locks, READ COMMITTED             (external)

WithdrawalParams     customers, sessions, amounts, statuses
  WithdrawalLedger   what the withdrawal service promises: atomic requests
  BankDb             the tables, the requests in flight          (on PgReadCommitted)
    BankReserve      statements, assertInvariant, COMMIT, ROLLBACK
      WithdrawalTx   every handler, statement by statement       (implements WithdrawalLedger)
        MCWithdrawal           instances for TLC
        WithdrawalTx_proofs    theorems about WithdrawalTx
  WithdrawalLedger_proofs      theorems about WithdrawalLedger

EscrowParams         users, tokens, escrows, prices, statuses
  EscrowLedger       what escrows, payments and deposits promise: atomic requests
  EscrowDb           the tables, the requests in flight          (on PgReadCommitted)
    EscrowTx         every handler, statement by statement       (implements EscrowLedger)
      MCEscrow                 instances for TLC
      EscrowTx_proofs          theorems about EscrowTx
  EscrowLedger_proofs          theorems about EscrowLedger

KeyDb                bank_keys, schema_migrations, processes and their caches (on PgReadCommitted)
  BankKeys           boot, getOrGenerate, rotateKey, getPublicKeyByVersion, signing
    MCKeys                     instance for TLC
    BankKeys_proofs            theorems about BankKeys

BlindSchnorr         the signature and the cut-and-choose check as algebra
  WithdrawPage       the wizard, the network, the bank's endpoints, key rotation
    MCWithdrawPage             instance for TLC
    WithdrawPage_proofs        theorems about both

Sums                 SumFunction over the rows of a table: the laws the proofs need

WalletPages          IndexedDB wallet, page handlers, logins, the bank's answers
  MCWallet                     instance for TLC
  WalletPages_proofs           theorems about WalletPages
```

**PgReadCommitted** models what the code uses of PostgreSQL.  A row has a
committed version `db[r]` and a latest version `cur[r]`; `lock[r]` is the
transaction that wrote the latest one.  A SELECT sees committed rows overlaid by
its own writes, an UPDATE waits for the row's lock and then acts on the latest
version, COMMIT publishes, ROLLBACK forgets.  `models/db.js:237` sends a plain
`BEGIN`, so this is the isolation level the code runs at.

In all three database models `job[t]` is what connection or request `t` is serving.
Its `pc` names the SQL statement (or cache access) it awaits next; its other
fields are the JavaScript variables that outlive an `await`.

### Withdrawal

**BankDb** declares the rows of `users`, `withdrawal_sessions` and
`bank_reserve`.  `IndexBusy` and `IndexHit` are the partial unique index
`idx_ws_active_per_customer`: an entry another transaction is changing makes the
statement wait, a committed one makes it fail.

**BankReserve** has the statement forms (`Select`, `Update`, `Throw`) and
`assertInvariant` as three actions, because each of its SELECTs sees what is
committed when *it* runs.

**WithdrawalTx** has one action per SQL statement of each handler:

| Code | Actions |
|---|---|
| `initWithdrawal` | `BeginInit`, `LazyCleanup`, (`RefundUser`, `CloseSession`)\*, assert, `CommitTx`; then `InitSelect`, `InitBalance`, `InitDebit`, `InitInsert`, assert, `CommitTx` |
| `submitCandidates` | `BeginOnSession`, `SubmitSelect`, `SubmitMark`, assert, `CommitTx` |
| `revealAndSign` | `BeginOnSession`, `RevealSelect`, `RevealSign`, `RevealIssue`, assert, `CommitTx` |
| `cancelWithdrawal` | `BeginOnSession`, `CancelSelect`, `RefundUser`, `CloseSession`, assert, `CommitTx` |
| `runGlobalCleanup` | `BeginSweep`, `SweepSelect`, (`RefundUser`, `CloseSession`, assert)\*, `CommitTx` |
| `refundAndClose` | `RefundUser`, `CloseSession`, assert |
| `assertInvariant` | `ReadReserve`, `ReadBalances`, `ReadInFlight` |
| expiry of a session | `TtlElapses` (`late`) |
| the process dies | `Crash` |

The handlers' computations are reduced to their outcomes: a submit picks any
index (`pickRandomJ`) or is refused, a reveal is refused, fails the
cut-and-choose (refund, `aborted`) or passes it.  INSERTs into `transactions` and
`audit_log` are left out: nothing in these handlers reads them back.  History
variables: `settled[s]` counts the refunds and signatures of a session that were
committed, `blind` records that a transaction committed although another commit
fell between its `assertInvariant` reads.

**WithdrawalLedger** is the abstract service: `Open`, `Submit`, `Sign` and
`Close` each happen at once, as the header of `withdrawalService.js` (lines
14-19) promises.  `WithdrawalTx!Atomic` says that the committed tables behave as
this ledger: every COMMIT is one of its steps, or changes nothing.

### Escrows, payments, deposits

**EscrowDb** declares the rows of `users`, `spent_coins`, `payment_escrows` and
`bank_reserve`.  The rows of `transactions` that the daily cap sums are folded into
the users row (`cash`, `income`): whoever inserts them holds that row's lock.
**EscrowTx** has the handlers:

| Code | Actions |
|---|---|
| `lazyCleanupExpiredEscrows`, first in lock, confirm, cancel and details | `CleanCreated`, `CleanSelect`, (`RefundLate`, `ExpireLate`, `BurnLate`)\* |
| `createEscrow` | `BeginCreate`, `CreateInsert`, assert, `CommitTx` |
| `lockToken` | `BeginLock`, cleanup, `LockSelect`, `SelectCoin`, `Spend`, `MarkLocked`, assert, audit, `CommitTx` |
| `confirmEscrow` | `BeginSettle`, cleanup, `ConfirmSelect`, `Credit`, `Book`, `Close`, assert, audit, `CommitTx` |
| `cancelEscrow` | `BeginSettle`, cleanup, `CancelSelect`, (`Credit`, `Book`, `Close`, assert, audit) or (`Close`, assert), `CommitTx` |
| `getEscrowDetails` | `BeginDetails`, cleanup, `CommitTx` |
| `processPayment`, `redeemSplit` | `BeginPay`, `SelectCoin`, `Spend`, `Credit`, `Book`, assert, `CommitTx` |
| `deposit` | `BeginDeposit` (reads the day's sum before BEGIN), `Credit`, `Book`, assert, `CommitTx` |
| `assertInvariant` | `AssertBooks` |
| `logAction` without `db` | `AuditOutside`, or `PoolTimeout` when no connection becomes free |
| PostgreSQL aborts a member of a circle of waits | `DeadlockVictim` |
| `expires_at` passes; the process dies | `TimePasses`; `Crash` |

`LockSelect` of an escrow that is late (`TooLate`) waits for the row it marks expired before
it throws, although the rollback takes the mark back (`escrowService.js:162-165`).
`Spend` is the UNIQUE constraint on `spent_coins.serial`; `MarkLocked`, `Close` and
`ExpireLate` update by id whatever the status is by then, as the code does.  Here
`assertInvariant` is one action that may come out either way while another
transaction could commit between its reads (`Disturbed`): what exactly tears is
BankReserve's subject.  `CURRENT_TIMESTAMP` is fixed at BEGIN (`job[t].late`), the
JavaScript clock that lock and cancel ask is not (`late`).  History: `done` and
`orphan` for the audit rows, `spends` for the commits that spent a token.

**EscrowLedger** is the abstract service: a request expires any set of open escrows
and takes effect, at once.  `EscrowTx!Atomic` is the refinement.

### Keys

**KeyDb** declares `bank_keys` and `schema_migrations`, the advisory lock (a row
like any other), and per process `activeCache` and `versionCache`.

| Code | Actions of **BankKeys** |
|---|---|
| `initDatabase`: `runMigrations`, then `getOrGenerate(1)` | `Boot`, `BaselineSelect`, `AppliedSelect`, (`Record`, `CommitTx`)\*, then as below |
| `getOrGenerate` | `Get` (cache, or SELECT), `Seal` (a key kept in the clear is encrypted), `Keep`; or `Advisory`, `MaxSelect`, `Insert`, `CommitTx`, `Keep` |
| `rotateKey` | `BeginRotate`, `Get`..., `Retire`, `MaxSelect`, `Insert`, `CommitTx`, `Forget`, `LogRotation` |
| `getPublicKeyByVersion`, `checkRetired` | `BeginCheck`, `Look`, `Seal`, `Remember`, `Answer` |
| `revealAndSign`'s use of keys | `BeginSign`, `Get` (sign), `Get` (name the version), `Answer` |
| 90 days of grace end; a process dies | `GracePasses`; `Crash` |

`tainted` and `overtaken` are history: the cache entries that a commit elsewhere has
made stale, and the requests under way when somebody else changed the keys.

### The browser

**BlindSchnorr** writes a point as its discrete logarithm in a group of prime order
`Q`, so that signing, blinding, unblinding, verification and the check of revealed
candidates are the code's own equations; SHA-256 is an arbitrary function
`Digest`.  No operator uses a logarithm other than through group operations and
equality.

**WithdrawPage** composes it with the wizard and the bank.

| Code | Actions |
|---|---|
| `handleInit`, `handleSubmit`, `handleReveal`, `handleCancel` up to their `await` | `ClickInit`, `ClickSubmit`, `ClickReveal`, `ClickCancel` |
| the rest of them | `OnInit`, `OnSubmit`, `OnReveal`, `OnCancel`; `OnError` |
| the endpoints | `Pubkeys`, `BankInit`, `BankSubmit`, `BankReveal` (`Passes`, `Response`, `Abort`), `BankCancel`, `Sweep`, `Rotate` |
| `handleSaveToWallet`; reload or leaving the page | `SaveToWallet`; `Leave` |
| server and page clocks | `TtlElapses`, `CountdownEnds` |
| a request or an answer is lost, a 500 | `Fail` |

The endpoints' handlers are one step each, but their lookups of keys are not one
read.  `getOrGenerate` answers from the process's `_activeCache`, which a rotation in
another process leaves stale, and `revealAndSign` calls into it three times: for the
public key to check the reveals with (`withdrawalService.js:348`), for the private key to
sign with (372) and for the version to name (406).  Each of these lookups, and the one of
`GET /bank/pubkeys`, returns any version a process may know (`MayKnow`: the active one or
one before it), independently of the others.  The step is the handler's last; a rotation
between its lookups is an earlier lookup that returned an older version.  Two columns of
`session` are history: `fetched`, the version of the key that had served the page, and
`lookups`, what its reveal looked up.

A page left by a route of the app still runs its handlers (`orphan`): a `handleInit`
that was waiting for the keys goes on to open a session nobody looks at.  After the
countdown the cancel button is enabled whatever is in flight, a first cancel included.

**WalletPages** models `walletDB.js` as operators, one per IndexedDB transaction
(`PutCoin`, `DeleteCoin`, `AddPendingPayment`, `DeletePendingPayment`,
`PutPendingPayment`), and the handlers that use them: `BeginSubmit`,
`BeginResubmit`, `BeginRetry`, `BeginLock` send a request, `Honoured`,
`DoubleSpend`, `Unavailable`, `Refused` are its outcomes, `After` is what each
handler does with each of them, and `Queue`, `DropCoin`, `DropPaid`, `Unqueue`,
`GetAttempt`, `PutAttempt`, `Reloaded` are the awaits that follow.  The user's
immediate deeds: `Save`, `OpenPayment`, `Discard`, `RemoveCoin`, `Redeem`, `Login`,
`Logout`, `Reload`.  `dbPromise`, the database a tab opened first, is `tabs[t].db`; the put
of `updatePendingPaymentAttempt` goes to the handle its get had (`work[h].db`), logout
or not.  A lock, like a payment, may be of a coin that is gone from the wallet: the list it
is chosen from is as old as the page's last load.

The layers meet at the endpoints.  WithdrawPage and WalletPages take each request
of the bank as one step, which is what `Atomic` says of the services when requests
of one customer do not overlap, and what `OneActive` and `SpendOnce` say of
sessions and tokens when they do.

## 3. Runs

| Run | Instance | Shows |
|---|---|---|
| `withdrawal_races` | 1 customer, 2 sessions, 2 connections, 2 indices, any overlap | `TypeOK`, `OneActive`, `BackstopHolds`, `SettledOnce` |
| `withdrawal_patient` | 2 customers, 3 sessions, 2 connections, opening balance 1 | `Atomic`, `Conservation`, `NoOverdraft`, `NoFalseAlarm` when requests of *one* customer do not overlap |
| `withdrawal_liveness` | as races, 1 index, no symmetry, `FairSpec` | `Answered`, `EventuallySettled` |
| `withdrawal_overdraft` | as races, opening balance 1 | **violates** `NoOverdraft` |
| `withdrawal_double_refund` | as races | **violates** `Conservation` |
| `escrow_races` | merchant and customer, 2 tokens, 1 escrow, 2 connections, any overlap, crashes; all but split and deposit | `TypeOK`, `SpendOnce`, `EscrowHasToken`, `Conservation`, `AuditTrail` |
| `escrow_patient` | as races, one token worth 2, cash 1, cap 1; all but pay | `Atomic`, `TokensBacked`, `DailyCapKept` when escrow requests do not overlap each other |
| `escrow_liveness` | 1 token, 1 escrow, 2 connections, any overlap, `WatchedSpec` | `Answered`, `EscrowSettled` |
| `escrow_double_settlement` | 1 token, 1 escrow; creates, locks and confirms with any overlap | **violates** `TokensBacked` |
| `bank_keys` | 2 processes, 2 requests, denominations 1 and 5, 2 key versions, 3 migrations, every operation, crashes | `TypeOK`, `OneActive`, `ServesMigrated`, `CachesKnow`, `CollisionExplained`, `NamesSigner`, `GraceEnds`, `NeverKeyless` |
| `withdraw_page` | group of order 3, 2 candidates, 2 sessions, 2 key versions, 2 calls in flight, an account of 1 | `TypeOK`, `TokenVerifies`, `SignedHeld`, `BlindersKept`, `RevealsTheChoice`, `HonestPasses`, `SessionKept` |
| `wallet_pages` | 2 users who share a tab, 1 token, 2 handlers at a time | `TypeOK`, `CreditsPresenter`, `CoinKept`, `PendingKept` |

`Patient` is the switch between two worlds.  With `Patient = FALSE` any
requests overlap: two tabs, a double click, a retry while the first call is still
running, or the sweep.  With `Patient = TRUE` each customer of the withdrawal
service waits for the answer before sending the next request and the sweep runs
alone; in EscrowTx at most one escrow request runs at a time (every one of them
settles anybody's expired escrows), as does one cash deposit per user, while
payments, splits and other users' deposits overlap freely.  What the code's
comments promise holds in the second world only.

*Findings.*

- **Overdraft.** `init` reads the balance, then debits; nothing keeps other
  requests of the same customer out in between.  Request A (init) has passed the
  active-session check and the balance check; before its debit runs, the customer
  opens, submits and reveals another session, which ends signed and no longer
  counts as active; A then debits money that is gone, and its INSERT meets no
  index entry.  The reserve equation still holds, since a negative balance adds
  up like any other, so `assertInvariant` is silent.
- **Double settlement of a session.** `refundAndClose` and `revealAndSign` update
  by id, not by status, so two requests that both read an active session both
  settle it.  In TLC's trace a reveal has read a session as submitted, its time
  runs out, the lazy cleanup of the customer's next init refunds it, and the reveal
  signs it all the same.  Its `assertInvariant` would see the surplus, but a cancel
  of the other session commits between two of its reads and hides it: unbalanced
  books are committed.  From then on every transaction of every customer fails its
  own `assertInvariant`.
- **An escrow confirmed twice.** `confirmEscrow` reads the escrow, pays the merchant and
  closes by id, so two confirms that both read it as locked both pay.  In TLC's trace a
  second confirm has run its SELECT when the first one commits, and commits too: the
  merchant has 2 for one token worth 1.  No torn read is needed here: each confirm moves
  equal amounts on both sides of the reserve equation, so two are as balanced as one.
  What breaks is what `bankReserveService.js:43-47` says of the totals, that
  `total_issued - total_redeemed` covers the tokens in circulation: it is -1, and there
  are none.  The run offers creates, locks and confirms only, so that the trace is this
  one.  The cancel and the cleanup check and update in the same way; with cancels offered
  as well, the shortest violation is another one: a lock commits beside a merchant's
  cancel that had read `created` and closes by id without a refund, so that the token is
  spent and nobody is paid for it.

`BackstopHolds` and `SettledOnce` give the exact boundary for sessions: as long as
nobody commits on torn reads, the after-the-fact check does stop every double
settlement.  `NoFalseAlarm` is its counterpart: a `ReserveInvariantError` among
patient customers is always the effect of torn reads, never of wrong books; it
does occur, and it fails an innocent request.  For escrows the boundary is another:
whatever overlaps, a token is spent once (`SpendOnce`) and belongs to one escrow of
its price (`EscrowHasToken`), because the unique index on the serial, not a status
check, decides.

*What the audit log is worth* (`AuditTrail`).  `auditService.js:7-12` says that a
row exists iff its action committed; lock, confirm and cancel write theirs on a
second connection before COMMIT.  The property states what is left of the promise:
no committed action lacks its row, and a row without an action belongs to a request
that is about to commit or died at that very moment.  The second connection is also
why `Answered` is not obvious: with all connections held by requests that want
another one, only `connectionTimeoutMillis` lets go.

*What the caches do* (`bank_keys`).  `CachesKnow`, `CollisionExplained`,
`NamesSigner` and `GraceEnds` say what ought to hold, and except the cases
where a request was overtaken by a change of `bank_keys` or a cache was filled
before a rotation in another process (`Misled`).  The exceptions are reachable: a
`getOrGenerate` that read the key before a rotation committed caches the retired key
after `rotateKey` cleared the cache, and every later rotation in that process fails
on `idx_bk_active_denom` until it restarts.  `schema.sql:29` and the comment of
`getOrGenerate` say that the advisory lock serialises `key_version`; `rotateKey` does
not take it.  With the caches as stale as they may be, `OneActive` and `NeverKeyless`
hold without exception.

*What the pages do.*  `CoinKept` holds without exception but what the user removed.
All properties of WithdrawPage but `TypeOK` assume `InOrder`; `SignedHeld` and
`SessionKept` also except what was lost with an answer or with the page.  `TokenVerifies`
speaks of tokens whose reveal looked up one version three times (`lookups`): then the
token verifies under the version it names, whichever key the page had blinded for and
whichever is active by then.  When the lookups differ it need not: a rotation between the
second and the third hands out a signature under one key with the number of the other,
in one process (`NamesSigner` has the same exception) or in two.  `HonestPasses` says when
the bank aborts a session of this page: only if the version it checked the reveals with is
not the one that had served the page, be it for a rotation in between or for a stale cache
at either end, or if a commitment came out at infinity.  Both exceptions are reachable.

Once the countdown has ended, the button that clears
the session (`Withdraw.jsx`, near line 606) is not disabled while a request is in
flight: if the cancel is answered while a submit is under way, the submit's answer
sets `j` and step 2 on a page that has no session, whose next render fails, or on the
next session, with an index the bank did not choose, so that the page would send the
blinders of the candidate that is signed, against `blinding.js:15-18`.  `PendingKept`
and `CreditsPresenter` except handlers that went on in a tab after a logout
(`strayed`): they reopen the wallet of whoever is logged in by then, where ids start
at 1 again, against `walletDB.js:16-19`.

*Bounds.*

- Two connections or requests are the least for a race.  `withdrawal_races` also
  passes with three connections (2.05 million states).  Two sessions of one customer
  are the least for everything the unique index is about; in the patient run three
  sessions of two customers let requests of different customers tear each other's
  invariant reads while one customer goes through two sessions in turn.  Amounts are
  1: sums tell sessions apart only by count, and a balance of 1 or 2 makes both an
  accepted and a refused init happen.
- One escrow and two tokens let two locks compete for an escrow, and a lock, a payment
  and a split for a token; all requests on it, two at a time, include every pair of
  settlements.  What two escrows share (users, reserve row, the cleanup's loop) is left
  to the proofs, which take any number.  A token worth 2 makes the price check
  matter; the cap of 1 is reached by one deposit of cash or one confirmed escrow.
- Two processes are the least for a stale cache; two versions are one rotation of one
  denomination or one key of each; denomination 5 has no key at boot, so its first
  generation runs beside a rotation of the other.  `Presented` bounds the versions that
  tokens name, and a third version would only be left waiting (`MaxVersion`).
- The group of order 3 is the least in which the first key, the rotated key and the
  blinders can differ; key, nonce and serial are fixed (2, 1 and 0), the rotated key is
  1, two pairs of blinders can be drawn, and the challenges follow from them.  For other
  orders and values the proofs speak.  Two candidates leave one revealed and one signed; two draws of blinders let a retry draw anew; two calls in
  flight are the least for answers out of order, two sessions for an answer that meets
  the next session, an account of 1 for an init that is refused until the refund.
  The run's VIEW (`StillRead`) leaves out the candidates of sessions that have ended, which
  no action reads: 4.4 million states stand for 9.6 million.
- In the wallet a single token meets every pair of handlers; two users in one tab are
  the least for straying, `MaxId` bounds how often a payment is queued.  With two tabs
  the properties were also checked, for one handler at a time.
- Session and escrow ids are used once, which bounds every behaviour; after the last
  one has closed, requests on it are still sent and refused.  Connections, processes,
  like tokens and sessions, users and handlers are symmetric; liveness runs use no
  symmetry.  `CHECK_DEADLOCK` is on throughout.

*Fairness.*  `FairSpec` of WithdrawalTx: weak fairness of `Step(t)`: PostgreSQL
eventually runs a statement it can run, and grants a lock once it is free.  Weak
fairness of `TtlElapses`: the clock moves on.  Strong fairness of `BeginSweep`: the
timer fires every hour and the pool's queue is first in, first out, so a sweep gets a
connection even while requests keep coming.  No request is ever assumed to arrive.
`EventuallySettled` further assumes that the books balance, since on unbalanced books
nothing is refunded at all.

`FairSteps` of EscrowTx is the same for its statements, the pool's timeout,
`deadlock_timeout` and the clock.  Escrows have no timer: the cleanup runs in
somebody's request only, so `EscrowSettled` needs `WatchedSpec`, in which somebody
looks at each escrow now and then and, the queue being fair, gets a connection.
Without it a locked escrow stays locked for ever, which is how the code is.

The liveness runs set `Crashes` to FALSE: a crash ends every request and leaves the
tables as if the killed requests had never been sent, so behaviours in which crashes
stop have a suffix without them.

Every property is tried against a mutant of the code, an operator right before
the one it replaces (`NoIndexHit`: the index was never created;
`ThrowWithoutRollback`: the connection returns to the pool inside its
transaction; `SpendAgain`: the serial is not UNIQUE; `RetireAtOnce`: the rotation's
UPDATE runs outside its transaction; `ResetButStep`: the page keeps its step; and
so on).

## 4. Proofs

All modules named `_proofs` are checked by TLAPS, for any values of the constants
that meet the named assumptions.

*Withdrawal: `OneActiveAlways`*, `Spec => []OneActive`, with `Patient` either way.
`OneActive` speaks of committed rows only and is not inductive: what a COMMIT
publishes depends on the uncommitted versions.  The inductive invariant `IInv`
adds

- `StorageTyped`, `OneVersion`: rows and locks have their types, and a row that
  nobody locks has one version;
- `Apart`: two sessions of one customer are never both active in the committed
  tables nor both active in the latest versions; and if one is active as
  committed and the other as written since, a single transaction holds both rows
  (`KeptApart`), so they change places in one COMMIT or not at all;
- `AimedJob`: a request whose next statement works on a session, or opens one, has
  its id (`Aims`).

Writes outside the sessions table and writes that close a session preserve
`Apart` trivially; a write that makes a session active has passed `~IndexBusy`
and `~IndexHit`, which exclude exactly the cases `Apart` forbids; COMMIT and
ROLLBACK replace one version of a row by its other one.  There is a lemma per
engine operation and per handler, and `NextIInv` puts them together.
`TypeCorrect` and `OneVersionAlways` fall out of the same invariant.

*Withdrawal: `AtomicPatient` (`Atomic`) and `NoOverdraftPatient` (`NoOverdraft`)*, for
`Patient`: with one request per customer at a time, and the sweep alone, the statements
of `withdrawalService.js` implement the atomic ledger, crashes included, and nobody is
overdrawn.  The invariant is `IInv /\ PatientInv`.  `Alone` says that no two requests
serve one customer (`Clients`), and `Underway` describes a request at each point of its
handler in four parts: how its fields go together (`Kinds`), exactly which rows it has
locked (`Holds`), what is still committed of what it has read (`Found`: the balance
`init` checked, the status `submit` and `reveal` checked, that the sessions of a cleanup
are active), and what it has written so far (`Written`).  TLC agreed to `PatientInv` on
the instance of `withdrawal_patient` before it was proved.

- `LeftAlone`, `OthersKeep`: what a request has locked is a row of its own customers or
  the reserve (`HeldOwn`), so a step of one request touches no row another has read or
  written.  This is where `Patient` is needed, and `BeginPatient` the only place where
  it is used.
- One lemma per statement shows that `Underway` goes on to hold of the request that runs
  it.  A cleanup that refunds several sessions refunds each customer once, because
  `IInv` keeps their active sessions one per customer (`Refunded`).
- `CommitRefines`: at COMMIT, `Found` is the guard of `Open`, `Submit`, `Sign` or `Close`
  of the ledger, `Holds` and `Written` are its effect.  Every other step leaves the
  committed tables alone (`Unchanging`).

`SettledOncePatient` (`SettledOnce`) adds that the history counts what the tables show
(`Counted`): no session is refunded or signed twice, `blind` or not.

*Withdrawal: `BackstopAlways` (`BackstopHolds`) and `SettledOnceAlways`
(`SettledOnce`)*, for requests that overlap as they like, and with them `TypeOKAlways`
(`TypeOK`).  Without `Patient` the statements of a settlement act on what they read
earlier, and only the reserve equation is left to stop a second one.  `BooksInv` says

- `MoneyTyped`, `OwnIds`: balances and totals are integers, the ids of requests that
  open sessions are their own;
- `Settles`: a transaction changes the gap between the two sides of the equation, in
  its view of the tables, by what its handler owes at this point (`Change`, `Due`) if
  every session it wrote over (`Touched`) is still active as committed; otherwise
  money is missing from its view;
- `Tallied`: unless another commit disturbed them, the sums `assertInvariant` holds
  between its reads are those of that view, and a request past the assertion has
  changed the gap by nothing;
- `Audited`: as long as nothing was committed on torn reads (`blind`), the committed
  books are level and `settled[s]` is 1 for a session that ended and 0 for the others.

So whatever a transaction that commits on undisturbed reads has settled is active until
that COMMIT, and settled by nobody else.

*Withdrawal: `ConservationPatient`, `NoFalseAlarmPatient`* (`Conservation`,
`NoFalseAlarm`), for `Patient`: from `PatientInv` and `BooksInv` together.  What a
patient request settles was active (`Found`), so its view balances when it gets to
`assertInvariant` and an alarm can only come from reads that another commit tore.

*Escrow: `TokenSpentOnce` (`SpendOnce`) and `EscrowFunded` (`EscrowHasToken`)*,
however requests overlap.  The statements that lock and settle escrows look at no
status, so nothing about statuses is inductive; the argument rests on the serial's
unique index alone.  `IInv` of EscrowTx_proofs consists of

- `StorageTyped`, `OneVersion`, and facts on each request: which token and escrow it
  is about (`Aims`, `Named`, `Finds`), that past its INSERT into `spent_coins` it holds
  the token's row and wrote it (`Funded`), and that before it holds none (`Vacant`);
- `CoinInv`: the committed row of a token counts its spends;
- `EscrowInv`: an escrow row that has a token has it together with the token's row:
  both committed, or both written by one transaction that still holds both;
- `PairInv`: no two escrows share a token, in whatever versions of their rows.

The delicate step is `MarkLocked`, which overwrites an escrow another lock may have
taken: the token it writes was inserted by the same transaction, so nobody else's row
can name it.

*Escrow: `AuditKept` (`AuditTrail`)*, also with any overlap.  `LogInv` adds to `IInv`
that a request at `audit` is of a kind that logs, that one about to commit that logs
has its entry, and that each entry is done, orphaned or owed by a request about to
commit.

*Escrow: `DailyCapHolds` (`DailyCapKept`)*, for `Patient`.  `CapInv` says that both
versions of a users row are within the cap; that the latest and the committed cash
differ only where a deposit past its UPDATE holds the row; that a deposit at `credit`
still finds its sum within the cap; and that at most one deposit per user is under
way.  The last is the only use of `Patient`, and with it the check made before BEGIN
is as good as one made inside.

*Escrow: `ConservationAlways` (`Conservation`) and `TypeOKAlways` (`TypeOK`)*, with any
overlap.  `BooksInv` of EscrowTx_proofs follows the gap between the paper and the
balances (`Gap`) through each handler: a transaction's view is off by what its request
has written in one table and not yet in the other (`Due`), and by nothing once it may
commit.  Since rows are locked until then, the gaps of several transactions add up.

*Escrow: `TokensBackedPatient` (`TokensBacked`)*, for `Patient`.  Conservation does not
notice a double settlement; this property does, and needs that the status a request read
is still there when it writes.  `AloneInv` says so: one escrow request at a time
(`Alone`), what it has read of its escrow (`Sees`) and what it has written there
(`Works`).  `TokensInv` then follows the circulating total less the worth of what is
unspent or locked (`Excess`) through each handler, as `BooksInv` does the gap.

*Escrow: `AtomicPatient` (`Atomic`)*, for `Patient`: every COMMIT is one step of
EscrowLedger, every other step leaves the committed tables alone.  `DidInv` adds to
`IInv`, `BooksInv` and `AloneInv` what a transaction has paid and booked in its view of
the tables by each point of its handler (`Did`): to each user, what the escrows it has
expired and refunded give back (`Back` of `Repaid`) and its own payment (`PaidTo`); in
`bank_reserve`, the worth of what it has burnt (`WorthOf` of `Burnt`) and what it has
redeemed or paid in (`BookedAs`).  TLC agreed to it at COMMIT before it was proved.

- `BackInsert`, `BackLocal`: one more escrow gives back its price to its customer, and
  what a set gives back is in the rows of that set alone; both from `SumInsert`.
- `DidPay`, `DidBook`, `DidEscrow`, `DidExpire`: an UPDATE of each table keeps `DidInv`
  if the handler's account of itself moves along; then one lemma per group of statements.
- `DidAcross`: a COMMIT of another transaction shifts where a transaction started and
  what it sees by the same; its escrows are nobody else's business (`Alone`).
- `PublishedEscrows`: at COMMIT, `Works` makes the escrows the request expired the set
  `S` of the ledger's step, all of them open, and `Effect` is what it does to its own.
- `SameSum`: the ledger's instance of `SumFunction` is the tables'.  One lemma per kind
  of request (`LockRefines`, `CancelRefines`, ...) then gives the step.

*Keys: `OneActiveKey` (`OneActive`)*.  The invariant is about the tables alone, with
caches and requests arbitrary: stale caches make rotations fail, never succeed wrongly.
It has the structure of the withdrawal index: `Apart` for two versions of one
denomination, preserved by `Insert` because `MustWait` and `Collides` cover every
rival.

*Keys: `NeverKeylessAlways` (`NeverKeyless`)* cannot leave the caches out: the version a
rotation retires comes from one.  `KInv` says that a version's denomination is fixed
(`VersionsInv`), that a cache holds under a denomination only versions of it, active or
not (`CachesInv`), and of each request that the version it is about to seal, keep or
retire is of its denomination (`Knows`), and that it holds rows of `bank_keys` only
between its UPDATE and the end of its transaction, all of its own denomination, with
the new key among them once it is about to commit (`HoldsKeys`).  So a stale cache can
make a rotation aim at a key that is retired already, never at one of another
denomination, and whoever commits a retirement commits the successor with it.

*Keys: `ServesMigratedAlways` (`ServesMigrated`)*.  `TInv` types the requests and says what
the operation at hand asks for (`Asks`).  `BInv` adds that one boot runs per process
(`OneBoot`), that a process that is down has neither requests nor caches (`Emptied`),
where a boot stands in the list of migrations (`Migrates`), and that whatever is past it
finds them all recorded (`Serves`).  Two boots that record the same migration meet on its
row, so that one of them fails; neither can leave a gap (`Gapless`).

*Keys: `CachesKnowAlways`, `CollisionExplainedAlways`, `NamesSignerAlways`,
`GraceEndsAlways`*.  These four except what another's commit has overtaken, and are proved
from one invariant, `MInv`: what a request remembers between two awaits is true of the
committed keys or stale (`Stale`), for the key it is about to cache (`Remembers`), has
signed with or names (`Signed`, `Names`), retires (`Retires`), or succeeds (`Generates`),
and for what it has written (`Wrote`).  The case that carries the argument is COMMIT of a rotation: it
makes the memory of every other request false in one step.  `Bystander` says of each of
them that it was told (`overtaken`, or its cache entry tainted) or is unaffected.  TLC
checked `MInv` over 1.96 million states of the instance of `bank_keys` before it was
proved.  With these, every property of that run holds for all values of the constants.

*Sums.*  `SumFunction` of the community modules is recursive, and the library's induction
theorems take an operator as a parameter.  The laws in Sums are proved from a smallest
counterexample instead, which `WFMin` gives for a set of subsets: a sum is an integer
(`SumInt`), changes by what one term changes (`SumChange`), grows by the term that joins
it (`SumInsert`), is monotone and additive.  They hold of finite sets only; hence
`FiniteAssumption` of WithdrawalParams and EscrowParams, that users, sessions, tokens
and escrows are finitely many, as rows of tables are.

*Wallet: `CoinsKept` (`CoinKept`)*.  The token of a handler about to drop its coin or
to settle is spent, and spent tokens stay spent; so no handler, however late its answer
and wherever it runs by then, deletes a coin the bank would still honour.

*Wallet: `TypeOKAlways`, `CreditsPresenterAlways`, `PendingKeptAlways`* (`TypeOK`,
`CreditsPresenter`, `PendingKept`).  A retry works by id, on a list that was loaded some
time ago, and its get and put are two transactions.  `Honest`, which holds until a handler
strays into another user's wallet, therefore speaks of every place that remembers a record
of a database (`Known`): its queue, the tabs that list it, the retries under way.  In all
of them an id means one token, which that user presented, and no id is beyond the one
autoIncrement gave last (`KnownAgree`); so what is queued anew is known to nobody, and what
a handler deletes or overwrites by id is the record it means.  `HonestStep` reduces every
action but that one (`QueueHonest`) to: nobody knows what nobody knew before.  TLC checked
the invariant, `JInv`, over the 2.1 million states of the instance of `wallet_pages`.

*The ledgers.*  `LedgerTyped`, `OneOpenAlways`, `FinalAlways` of WithdrawalLedger:
it never overdraws (its balances are natural numbers), opens one session per customer
at a time, and never changes a session that ended or an index that was picked.
`LedgerTyped`, `BoundAlways`, `FinalAlways` of EscrowLedger: a token is bound to one
escrow, spent in its merchant's name, at its price; nothing that ended changes.
Through the two `AtomicPatient` they carry over to the services: to the withdrawals of
patient customers, and to payments and escrows while escrow requests do not overlap.

*The algebra: WithdrawPage_proofs.*  `UnblindedVerifies`: what the bank signs of an
honest candidate verifies once unblinded.  `RevealedVerifies`: a candidate that passes
the check of its revealed blinder would have verified.  `HonestAccepted`: the check
never refuses what the page made under the same key, unless a point does not decode.
`PickUniform`: the words `pickRandomJ` accepts are in bijection with pairs of an index
and a round.  They hold for every group order, hash and number of words; the lemmas
they rest on are the laws of `%`.

*The wizard: `TypeOKAlways`, `SignedHeldAlways`, `BlindersKeptAlways`,
`RevealsTheChoiceAlways`, `SessionKeptAlways`*, for any number of candidates, sessions,
requests in flight and rotations.  Two invariants.

- `TInv`, whatever happens: the types, that what names a session names one the bank has
  opened, that a row has candidates exactly when it has an index, and that the account is
  what the pending, submitted and committed sessions have left of it.
- `OInv`, as long as answers come in order.  `PageOrdered` says what each step of the
  wizard implies of the session's row; `CallsOrdered` that a request the page waits for
  was sent for the step it is at, and that it waits for two only when one of them is the
  cancel of an expired session (`Beside`).  So a late answer finds the page it was sent
  from.  A reveal whose page has gone may still arrive: `RevealOrdered` speaks of those
  too, since they leak blinders (`LeakOrdered`) and are signed (`AllHeld`).

The bank only moves sessions on (`Advances`), and what the invariant says of rows
survives that (`StillOrdered`); so a step of the bank is about the answer it gives, a
step of the page about the call it makes or takes.

*The wizard: `TokenVerifiesAlways`, `HonestPassesAlways`* (`TokenVerifies`,
`HonestPasses`).  The third invariant, `HInv`, is about values, as long as answers come in
order: what the page holds and what its reveals carry was made of the nonces of the row
and of the key the page had fetched (`PageHonest`, `RevealHonest`).  The page fetches the
key before init and the bank checks and signs with what its lookups return at the reveal.
Nothing in `revealAndSign` compares any of these; what stands between a rotation and a
token that nobody accepts is the check of the revealed candidates.  A candidate that passes
under some version's key was made with that key, because its blinder is not 0 and the
order of the group is prime (`PassesAsFetched`, from `KeysApart`, `SameKey` and
`PrimeAssumption`).  So if the version that checked also signed and is the one that is
named, the token verifies under it.  With one candidate nothing is revealed and a rotation
goes unnoticed, so `TokenVerifiesAlways` needs `N > 1`, which `config/bank.js:17` does not
enforce (`BC_DEMO_N=1` is accepted).  `HonestPasses` rests on `HonestAccepted`: only a
failed check aborts (`WhoAborts`), and it cannot fail under the version the page had
fetched.  TLC checked the three invariants over the 9.6 million states of the instance of
`withdraw_page`, its VIEW left out, before they were proved.

*Only model-checked*: liveness (`Answered`, `EventuallySettled`, `EscrowSettled`), which
is out of the prover's reach.  Every other property of a passing run is a theorem.  Some
of them have hypotheses the property carries itself: `Patient` where a name says so,
`InOrder` and `strayed` for the pages.

## 5. Not modelled, and assumptions

*Left out because they hold no state another request changes*: users, bcrypt, JWT and
the rate limiter (a library's counters; `app.js:152` mounts it before authentication,
so its per-user key falls back to the address); privacy and admin reports, the reserve
page, history listings; QR codes, scanning, previews and form validation.

*Abstracted.*

- SHA-256, the curve and its encodings; AES-GCM sealing of private keys (a flag).
- `token_hash` is not told apart from the serial; `transactions` rows are folded into
  the users row; audit rows inside the caller's transaction share its fate.
- The rolling 24 hours of the daily cap are one day that does not end.
- In EscrowTx a request that reaches the database presents a token the bank has
  signed; which key versions a token may name is BankKeys' subject.
- What a migration's DDL does (the files are idempotent).
- `pickRandomJ`'s fallback after 64 rejected words, which is biased.
- `redeemSplit` and `processPayment` ask for a key version inside their transaction,
  which may take a second connection if the cache is cold; the second connection that
  is modelled is the audit's.

*Assumed.*

- Two sweeps of one process do not overlap (`BC_CLEANUP_INTERVAL_MS` outlasts a sweep).
- COMMIT does not fail; a client that gives up waiting leaves its handler running.
- In the withdrawal model every request has a connection from its first statement on,
  and no circle of waits is reachable, which `Answered` checks.
- Signals: `app.js:127-128` stops the cleanup timer on SIGTERM without ending the
  process; from then on `EventuallySettled` has no timer to rely on.

*Known behaviour that no property forbids.*  A customer's cancel after expiry is
reachable only if `expires_at` passes between BEGIN and the check
(`escrowService.js:349`), since the cleanup at the start of the same request has closed
the escrow.  A key rotated between init and reveal aborts an honest session, and so does a
process that checks with a stale key one whose page had fetched the newest.  The
alert near `Withdraw.jsx:446` says that cancelling clears the page after expiry; once
the sweep has closed the session the cancel is refused and the page stays as it is
until it is reloaded.  Tokens of retired keys in their grace period cannot be paid from
the pages, which know active keys only.  A retry that is answered 401 drops the queued
payment (`Payment.jsx:478-484`).  Redeeming leaves the coin in the wallet.  A retry's
get and put resurrect a record deleted in between.

*Hazards that no property catches*, listed in PROJECT.json with a note each.

- Two submits of one session, both answered, with different indices
  (`withdrawalService.js:237`), and parallel cash deposits beyond the daily cap
  (`bankService.js:60`): the runs about `Atomic` and `DailyCapKept` exclude them
  (`Patient`).
- Two locks of one escrow with different tokens, one of which is spent for nothing
  (`escrowService.js:176`): `SpendOnce` and `EscrowHasToken` hold of it.
- One session's alarm rolls back a whole sweep (`sessionCleanupService.js:23`): the
  liveness run has one customer.
- What a property excepts by name: answers lost and pages left (`SignedHeld`,
  `SessionKept`), answers out of order (`InOrder`), differing lookups of a key
  (`TokenVerifies`, `HonestPasses`, `NamesSigner`), stale caches (`CachesKnow`,
  `CollisionExplained`, `GraceEnds`), a retry answered 401 and strayed handlers
  (`PendingKept`, `CreditsPresenter`).  There the property shows that nothing else
  leads to the loss.  `CachesKnow` excepts the old version in every process that was up
  when its rotation committed, which is wider than it need be.
- Signals, and the rate limiter mounted before authentication.

## 6. What is left to do

1. The whole client, withdrawal and wallet, against the statement-level services rather
   than against atomic endpoints, which is beyond TLC for the present instances.
