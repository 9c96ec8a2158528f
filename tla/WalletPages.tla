---------------------------- MODULE WalletPages ----------------------------
(***************************************************************************)
(* The browser wallet, utils/walletDB.js, under the handlers that use it:  *)
(* pages/Payment.jsx, Wallet.jsx and Bank.jsx.  A handler is a chain of    *)
(* awaits; between two of them other handlers run, in this tab and in      *)
(* others, and the user may log out and another one log in.                *)
(*                                                                         *)
(* The wallet is one IndexedDB database per user, shared by the tabs.  A   *)
(* tab keeps the database it opened first (dbPromise) until it logs in or  *)
(* out.  The bank is one step per request: its own interleavings are       *)
(* EscrowTx's subject.                                                     *)
(***************************************************************************)
EXTENDS Naturals, FiniteSets

CONSTANTS User, Tab, Token,
          Slot,      \* bound: the handlers that run at a time
          MaxId,     \* bound: records ever queued in one database
          Nobody,    \* no user, no spender, and the database 'anon'
          NoTab, NoToken

Database == User \cup {Nobody}
Unopened == "unopened"
Escrow == "escrow"

ASSUME NoneAssumption ==
    /\ Nobody \notin User \cup {Escrow} /\ Database \cap {Unopened, Escrow} = {}
    /\ NoTab \notin Tab /\ NoToken \notin Token
ASSUME BoundAssumption == MaxId \in Nat

Record == [id : 1 .. MaxId, token : Token]

VARIABLES coins,     \* by database: the object store coins
          pending,   \* by database: the object store pending_payments
          lastId,    \* by database: its autoIncrement
          tabs,      \* by tab: sessionStorage's user, dbPromise's database, pendingPays, lastToken
          work,      \* the handlers that run
          spent      \* the bank: who was credited a token, or that an escrow holds it

(* What happened, kept for the properties only.                            *)
VARIABLES presented, \* who asked the bank to credit which token, other than by a retry
          refused,   \* tokens a retry of which was refused for good, by whom
          strayed    \* whether a handler went on in a tab its user had logged out of

history == <<presented, refused, strayed>>
vars == <<coins, pending, lastId, tabs, work, spent, history>>

Idle == [kind |-> "none", tab |-> NoTab, by |-> Nobody, pc |-> "none", token |-> NoToken,
         id |-> 0, db |-> Unopened]

Closed == [user |-> Nobody, db |-> Unopened, list |-> {}, last |-> NoToken]

-----------------------------------------------------------------------------
(* walletDB.js                                                             *)

\* getDb: dbPromise, or the database of the user who is logged in now.
DbOf(t) == IF tabs[t].db = Unopened THEN tabs[t].user ELSE tabs[t].db

Opened(t) == [tabs EXCEPT ![t].db = DbOf(t)]

\* putCoin: add() refuses a serial that is there, and what is stored is the same either way.
PutCoin(t, token) ==
    /\ coins' = [coins EXCEPT ![DbOf(t)] = @ \cup {token}]
    /\ tabs' = Opened(t)

DeleteCoin(t, token) ==
    /\ coins' = [coins EXCEPT ![DbOf(t)] = @ \ {token}]
    /\ tabs' = Opened(t)
    /\ UNCHANGED <<pending, lastId>>

\* Mutant: the record takes the id that was given last.
AddPendingPaymentAgain(t, token) ==
    LET d == DbOf(t)
    IN  /\ lastId[d] < MaxId
        /\ lastId' = [lastId EXCEPT ![d] = @ + 1]
        /\ pending' = [pending EXCEPT ![d] = @ \cup {[id |-> lastId[d], token |-> token]}]
        /\ tabs' = Opened(t)
        /\ UNCHANGED coins

\* addPendingPayment: autoIncrement counts on from the last id.
AddPendingPayment(t, token) ==
    LET d == DbOf(t)
    IN  /\ lastId[d] < MaxId
        /\ lastId' = [lastId EXCEPT ![d] = @ + 1]
        /\ pending' = [pending EXCEPT ![d] = @ \cup {[id |-> lastId[d] + 1, token |-> token]}]
        /\ tabs' = Opened(t)
        /\ UNCHANGED coins

DeletePendingPayment(t, id) ==
    /\ pending' = [pending EXCEPT ![DbOf(t)] = {r \in @ : r.id # id}]
    /\ tabs' = Opened(t)
    /\ UNCHANGED <<coins, lastId>>

\* updatePendingPaymentAttempt's put, of the record its get returned, into the database the get
\* was from.  A put of a key the generator has not reached yet moves the generator on.
PutPendingPayment(d, record) ==
    /\ pending' = [pending EXCEPT ![d] = {r \in @ : r.id # record.id} \cup {record}]
    /\ lastId' = [lastId EXCEPT ![d] = IF record.id > @ THEN record.id ELSE @]
    /\ UNCHANGED <<coins, tabs>>

\* Payment.jsx loadPending
LoadPending(t) == [tabs EXCEPT ![t].db = DbOf(t), ![t].list = pending[DbOf(t)]]

-----------------------------------------------------------------------------
(* Handlers begin.  The button that was pressed shows that it is loading,  *)
(* but only until its page is left: whoever comes back may press it again. *)

Begin(h, t, kind, token, id) ==
    /\ work[h] = Idle /\ tabs[t].user # Nobody
    /\ work' = [work EXCEPT ![h] = [kind |-> kind, tab |-> t, by |-> tabs[t].user,
                                    pc |-> "post", token |-> token, id |-> id, db |-> Unopened]]

\* Payment.jsx handleSubmit.  The effects before it fill the preview with any token, chosen in the
\* wallet, named by the address or pasted, and check its format and its signature; only a token
\* that passed is submitted, whether or not the wallet holds it.
BeginSubmit(h, t, token) ==
    /\ Begin(h, t, "submit", token, 0)
    /\ presented' = presented \cup {<<tabs[t].user, token>>}
    /\ UNCHANGED <<coins, pending, lastId, tabs, spent, refused, strayed>>

\* Payment.jsx handleResubmit, which shows that the token last paid is refused now.
BeginResubmit(h, t) ==
    /\ tabs[t].last # NoToken
    /\ Begin(h, t, "resubmit", tabs[t].last, 0)
    /\ UNCHANGED <<coins, pending, lastId, tabs, spent, history>>

\* Wallet.jsx handleExecuteLock: a coin of the list as it was last loaded, by now perhaps gone
\* from the wallet, so that any token may be asked for.
BeginLock(h, t, token) ==
    /\ Begin(h, t, "lock", token, 0)
    /\ UNCHANGED <<coins, pending, lastId, tabs, spent, history>>

\* Payment.jsx handleRetryPending: the token is that of the list as it was last loaded.
BeginRetry(h, t, record) ==
    /\ record \in tabs[t].list
    /\ Begin(h, t, "retry", record.token, record.id)
    /\ UNCHANGED <<coins, pending, lastId, tabs, spent, history>>

-----------------------------------------------------------------------------
(* The bank answers, or nobody does, and the handler goes on.              *)

\* Mutant: a coin goes whatever the bank has answered.
AfterSpendthrift(kind, answer) ==
    CASE kind \in {"submit", "lock", "resubmit"} -> "dropCoin"
      [] kind = "retry" -> IF answer = "unavailable" THEN "get" ELSE "unqueue"

\* Mutant: every failure of a retry counts as permanent.
AfterImpatient(kind, answer) ==
    CASE kind = "submit" ->
            (CASE answer = "ok"          -> "dropPaid"
               [] answer = "double"      -> "dropCoin"
               [] answer = "unavailable" -> "queue"
               [] answer = "refused"     -> "done")
      [] kind = "retry" -> IF answer \in {"ok", "double"} THEN "settle" ELSE "unqueue"
      [] kind = "lock"     -> IF answer = "ok" THEN "dropCoin" ELSE "done"
      [] kind = "resubmit" -> IF answer = "double" THEN "dropCoin" ELSE "done"

\* What a handler does first of all once it has its answer.
After(kind, answer) ==
    CASE kind = "submit" ->
            (CASE answer = "ok"          -> "dropPaid"
               [] answer = "double"      -> "dropCoin"
               [] answer = "unavailable" -> "queue"
               [] answer = "refused"     -> "done")
      [] kind = "retry" ->
            (CASE answer \in {"ok", "double"} -> "settle"
               [] answer = "unavailable"      -> "get"
               [] answer = "refused"          -> "unqueue")
      [] kind = "lock"     -> IF answer = "ok" THEN "dropCoin" ELSE "done"
      [] kind = "resubmit" -> IF answer = "double" THEN "dropCoin" ELSE "done"

Goto(h, pc) == work' = [work EXCEPT ![h] = IF pc = "done" THEN Idle ELSE [@ EXCEPT !.pc = pc]]

Post(h, answer) ==
    /\ work[h].pc = "post"
    /\ Goto(h, After(work[h].kind, answer))

\* 200: the token was not spent.  The answer may be lost all the same.
Honoured(h) ==
    /\ Post(h, "ok") \/ Post(h, "unavailable")
    /\ spent[work[h].token] = Nobody
    /\ spent' = [spent EXCEPT ![work[h].token] =
                    IF work[h].kind = "lock" THEN Escrow ELSE work[h].by]
    /\ UNCHANGED <<coins, pending, lastId, tabs, history>>

\* 409 DOUBLE_SPEND
DoubleSpend(h) ==
    /\ Post(h, "double")
    /\ spent[work[h].token] # Nobody
    /\ UNCHANGED <<coins, pending, lastId, tabs, spent, history>>

\* No answer, 5xx or 429.
Unavailable(h) ==
    /\ Post(h, "unavailable")
    /\ UNCHANGED <<coins, pending, lastId, tabs, spent, history>>

\* Any other 4xx: a key that has retired since, or 401, a login that has expired.  Of a 401
\* api/client.js forgets whoever is logged in and has the tab go to /login (Reload), which
\* the handler may or may not outrun.
Refused(h) ==
    /\ Post(h, "refused")
    /\ refused' = IF work[h].kind = "retry" THEN refused \cup {work[h].token} ELSE refused
    /\ \/ UNCHANGED tabs
       \/ tabs' = [tabs EXCEPT ![work[h].tab].user = Nobody]
    /\ UNCHANGED <<coins, pending, lastId, spent, presented, strayed>>

\* Bank.jsx RedeemTab handleSubmit, which leaves the coin in the wallet.
Redeem(t, token) ==
    /\ tabs[t].user # Nobody /\ spent[token] = Nobody
    /\ spent' = [spent EXCEPT ![token] = tabs[t].user]
    /\ presented' = presented \cup {<<tabs[t].user, token>>}
    /\ UNCHANGED <<coins, pending, lastId, tabs, work, refused, strayed>>

-----------------------------------------------------------------------------
(* The steps of a handler after its answer.                                *)

\* The step of handler h labelled pc, by which time its tab may be another user's.
At(h, pc) ==
    /\ work[h].pc = pc
    /\ strayed' = (strayed \/ DbOf(work[h].tab) # work[h].by)
    /\ UNCHANGED <<spent, presented, refused>>

\* await addPendingPayment(preview.token, errMsg)
Queue(h) ==
    /\ At(h, "queue")
    /\ AddPendingPayment(work[h].tab, work[h].token)
    /\ Goto(h, "reload")

\* await removeFromWalletIfExists(serial)
DropCoin(h) ==
    /\ At(h, "dropCoin")
    /\ DeleteCoin(work[h].tab, work[h].token)
    /\ Goto(h, IF work[h].kind = "retry" THEN "reload" ELSE "done")

\* The same of a token that was just paid, which the page, if still there, then remembers.
DropPaid(h) ==
    LET t == work[h].tab
        d == DbOf(t)
    IN  /\ At(h, "dropPaid")
        /\ coins' = [coins EXCEPT ![d] = @ \ {work[h].token}]
        /\ tabs' = IF tabs[t].user = work[h].by THEN [Opened(t) EXCEPT ![t].last = work[h].token]
                                                ELSE Opened(t)
        /\ Goto(h, "done")
        /\ UNCHANGED <<pending, lastId>>

\* await deletePendingPayment(pendingId), when the token is spent and when it is refused
Unqueue(h) ==
    \E pc \in {"settle", "unqueue"} :
        /\ At(h, pc)
        /\ DeletePendingPayment(work[h].tab, work[h].id)
        /\ Goto(h, IF pc = "settle" THEN "dropCoin" ELSE "reload")

\* updatePendingPaymentAttempt: the get ...
GetAttempt(h) ==
    LET found == {r \in pending[DbOf(work[h].tab)] : r.id = work[h].id}
    IN  /\ At(h, "get")
        /\ tabs' = Opened(work[h].tab)
        /\ \/ /\ found = {}
              /\ Goto(h, "reload")
           \/ \E r \in found :
                 work' = [work EXCEPT ![h] = [@ EXCEPT !.pc = "put", !.token = r.token,
                                                      !.db = DbOf(work[h].tab)]]
        /\ UNCHANGED <<coins, pending, lastId>>

\* ... and the put, a transaction of its own on the handle the get had: resetWalletDb forgets
\* the handle, but does not close it.
PutAttempt(h) ==
    /\ work[h].pc = "put"
    /\ PutPendingPayment(work[h].db, [id |-> work[h].id, token |-> work[h].token])
    /\ Goto(h, "reload")
    /\ UNCHANGED <<spent, history>>

\* await loadPending(), the last of the handler that touches the wallet
Reloaded(h) ==
    /\ At(h, "reload")
    /\ tabs' = LoadPending(work[h].tab)
    /\ Goto(h, "done")
    /\ UNCHANGED <<coins, pending, lastId>>

-----------------------------------------------------------------------------
(* The user, at once.                                                      *)

\* Withdraw.jsx handleSaveToWallet: a token nobody has spent yet.
Save(t, token) ==
    /\ tabs[t].user # Nobody /\ spent[token] = Nobody
    /\ \A d \in Database : token \notin coins[d]
    /\ PutCoin(t, token)
    /\ UNCHANGED <<pending, lastId, work, spent, history>>

\* Payment.jsx is mounted: loadPending
OpenPayment(t) ==
    /\ tabs[t].user # Nobody
    /\ tabs' = [LoadPending(t) EXCEPT ![t].last = NoToken]
    /\ tabs' # tabs
    /\ UNCHANGED <<coins, pending, lastId, work, spent, history>>

\* handleDiscardPending
Discard(t, record) ==
    /\ record \in tabs[t].list
    /\ pending' = [pending EXCEPT ![DbOf(t)] = {r \in @ : r.id # record.id}]
    /\ tabs' = [Opened(t) EXCEPT ![t].list = pending'[DbOf(t)]]
    /\ UNCHANGED <<coins, lastId, work, spent, history>>

\* Wallet.jsx removeCoin; handleClearAll is the same of every coin.
RemoveCoin(t, token) ==
    /\ tabs[t].user # Nobody /\ token \in coins[DbOf(t)]
    /\ DeleteCoin(t, token)
    /\ UNCHANGED <<work, spent, history>>

\* Mutant: login does not reset the wallet.
LoginToOldDb(t, u) ==
    /\ tabs[t].user = Nobody /\ tabs[t].list = {}
    /\ tabs' = [tabs EXCEPT ![t].user = u]
    /\ UNCHANGED <<coins, pending, lastId, work, spent, history>>

\* AuthContext login: resetWalletDb
Login(t, u) ==
    /\ tabs[t].user = Nobody /\ tabs[t].list = {}
    /\ tabs' = [tabs EXCEPT ![t] = [Closed EXCEPT !.user = u]]
    /\ UNCHANGED <<coins, pending, lastId, work, spent, history>>

\* AuthContext logout: resetWalletDb; the page is unmounted, its handlers run on.
Logout(t) ==
    /\ tabs[t].user # Nobody
    /\ tabs' = [tabs EXCEPT ![t] = Closed]
    /\ UNCHANGED <<coins, pending, lastId, work, spent, history>>

\* The tab is reloaded: its handlers are gone, sessionStorage stays.
Reload(t) ==
    /\ tabs[t].db # Unopened \/ \E h \in Slot : work[h].tab = t
    /\ tabs' = [tabs EXCEPT ![t] = [Closed EXCEPT !.user = tabs[t].user]]
    /\ work' = [h \in Slot |-> IF work[h].tab = t THEN Idle ELSE work[h]]
    /\ UNCHANGED <<coins, pending, lastId, spent, history>>

-----------------------------------------------------------------------------
Init ==
    /\ coins = [d \in Database |-> {}]
    /\ pending = [d \in Database |-> {}]
    /\ lastId = [d \in Database |-> 0]
    /\ tabs = [t \in Tab |-> Closed]
    /\ work = [h \in Slot |-> Idle]
    /\ spent = [c \in Token |-> Nobody]
    /\ presented = {} /\ refused = {} /\ strayed = FALSE

Press ==
    \E h \in Slot, t \in Tab :
        \/ \E c \in Token : BeginSubmit(h, t, c) \/ BeginLock(h, t, c)
        \/ \E r \in tabs[t].list : BeginRetry(h, t, r)
        \/ BeginResubmit(h, t)

Reply == \E h \in Slot : Honoured(h) \/ DoubleSpend(h) \/ Unavailable(h) \/ Refused(h)

Step ==
    \E h \in Slot : \/ Queue(h) \/ DropCoin(h) \/ DropPaid(h) \/ Unqueue(h)
                    \/ GetAttempt(h) \/ PutAttempt(h) \/ Reloaded(h)

Use ==
    \E t \in Tab : \/ OpenPayment(t) \/ Logout(t) \/ Reload(t)
                   \/ \E u \in User : Login(t, u)
                   \/ \E c \in Token : Save(t, c) \/ RemoveCoin(t, c) \/ Redeem(t, c)
                   \/ \E r \in tabs[t].list : Discard(t, r)

Next == Press \/ Reply \/ Step \/ Use

Spec == Init /\ [][Next]_vars

-----------------------------------------------------------------------------
(* Correctness.                                                            *)

\* Every variable keeps its shape, and ids are those autoIncrement has given.
TypeOK ==
    /\ coins \in [Database -> SUBSET Token]
    /\ \A d \in Database :
          /\ lastId[d] \in 0 .. MaxId
          /\ pending[d] \subseteq Record
          /\ \A r \in pending[d] : r.id <= lastId[d]
          /\ \A r, s \in pending[d] : r.id = s.id => r = s
    /\ \A t \in Tab : /\ tabs[t].user \in User \cup {Nobody}
                      /\ tabs[t].db \in Database \cup {Unopened}
                      /\ tabs[t].list \subseteq Record /\ tabs[t].last \in Token \cup {NoToken}
    /\ \A h \in Slot : work[h] = Idle \/ work[h].by \in User
    /\ spent \in [Token -> User \cup {Nobody, Escrow}]

\* A coin leaves a wallet only if the bank has it as spent or its user removed it: no handler,
\* however late and whoever is logged in by then, deletes a coin that is still worth anything.
CoinKept ==
    [][\A d \in Database : \A c \in coins[d] \ coins'[d] :
          spent[c] # Nobody \/ \E t \in Tab : RemoveCoin(t, c)]_vars

\* A queued payment leaves the queue only when its token is spent, when a retry was refused
\* for good (a login that had expired counts as that) or when its user discarded it, unless
\* some handler went on in a tab its user had logged out of: ids start at 1 in every
\* database, so such a handler may delete or overwrite another user's record.
PendingKept ==
    [][\A d \in Database : \A r \in pending[d] \ pending'[d] :
          \/ spent[r.token] # Nobody \/ r.token \in refused \/ strayed'
          \/ \E t \in Tab : Discard(t, r)]_vars

\* The bank credits a token to a user who presented it, and to nobody else who only retries
\* what the queue of the wallet holds, unless a handler strayed into another user's wallet.
CreditsPresenter ==
    \A c \in Token : spent[c] \in User => strayed \/ <<spent[c], c>> \in presented
=============================================================================
