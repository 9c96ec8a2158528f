---------------------------- MODULE EscrowLedger ----------------------------
(***************************************************************************)
(* What the escrow and payment services promise: every request takes       *)
(* effect at once or not at all (escrowService.js, header items 4 to 7).   *)
(* A request about escrows first expires some overdue ones, S; the ledger  *)
(* has no clock, so any open escrow may be overdue.                        *)
(***************************************************************************)
EXTENDS EscrowParams, Functions

VARIABLES balance,    \* [User -> Int]
          holder,     \* [Coin -> who it was deposited to, NoUser while unspent]
          escrow,     \* [Escrow -> EscrowValue]
          bank        \* the row of bank_reserve

ledger == <<balance, holder, escrow, bank>>

Init ==
    /\ balance = [u \in User |-> Opening]
    /\ holder = [c \in Coin |-> NoUser]
    /\ escrow = [e \in Escrow |-> Absent]
    /\ bank = [reserve_balance |-> SumFunction(balance) + SumFunction(Worth),
               total_issued |-> SumFunction(Worth), total_redeemed |-> 0]

OpenNow(e) == escrow[e].status \in Open

\* The customers' money in the escrows of S, of user u or of all.
HeldFor(S, u) ==
    SumFunction([e \in S |-> IF escrow[e].status = "locked" /\ escrow[e].customer = u
                               THEN Price[e] ELSE 0])
Held(S) == SumFunction([e \in S |-> IF escrow[e].status = "locked" THEN Price[e] ELSE 0])

\* The state once the escrows of S have expired: locked ones are refunded, their tokens burnt.
EscrowAfter(S) == [e \in Escrow |-> IF e \in S THEN [escrow[e] EXCEPT !.status = "expired"]
                                               ELSE escrow[e]]
BalanceAfter(S) == [u \in User |-> balance[u] + HeldFor(S, u)]
BankAfter(S) == [bank EXCEPT !.total_issued = @ - Held(S)]

Expire(S) ==
    /\ escrow' = EscrowAfter(S)
    /\ balance' = BalanceAfter(S)
    /\ bank' = BankAfter(S)
    /\ holder' = holder

Create(e) ==
    /\ escrow[e] = Absent
    /\ escrow' = [escrow EXCEPT ![e].status = "created"]
    /\ UNCHANGED <<balance, holder, bank>>

\* The customer's token is spent in the merchant's name, its value held.
Lock(S, e, u, c) ==
    /\ escrow[e].status = "created"
    /\ holder[c] = NoUser /\ Worth[c] = Price[e]
    /\ escrow' = [EscrowAfter(S) EXCEPT
                    ![e] = [status |-> "locked", customer |-> u, serial |-> c]]
    /\ holder' = [holder EXCEPT ![c] = Merchant[e]]
    /\ balance' = BalanceAfter(S)
    /\ bank' = BankAfter(S)

\* The customer confirms: the merchant is paid.
Confirm(S, e) ==
    /\ escrow[e].status = "locked"
    /\ escrow' = [EscrowAfter(S) EXCEPT ![e].status = "committed"]
    /\ balance' = [BalanceAfter(S) EXCEPT ![Merchant[e]] = @ + Price[e]]
    /\ bank' = [BankAfter(S) EXCEPT !.total_redeemed = @ + Price[e]]
    /\ holder' = holder

\* The merchant withdraws an invoice, or the value of the locked token goes back to the customer.
Cancel(S, e) ==
    /\ OpenNow(e)
    /\ escrow' = [EscrowAfter(S) EXCEPT ![e].status = "cancelled"]
    /\ balance' = BalanceAfter(S \cup {e})
    /\ bank' = BankAfter(S \cup {e})
    /\ holder' = holder

\* A token is deposited to u: POST /payment and /bank/redeem.
Pay(u, c) ==
    /\ holder[c] = NoUser
    /\ holder' = [holder EXCEPT ![c] = u]
    /\ balance' = [balance EXCEPT ![u] = @ + Worth[c]]
    /\ bank' = [bank EXCEPT !.total_redeemed = @ + Worth[c]]
    /\ escrow' = escrow

\* redeemSplit credits the same amount; the pieces are withdrawn later, like any tokens.
Split(u, c) == Pay(u, c)

\* Cash is paid in.
Deposit(u, amount) ==
    /\ balance' = [balance EXCEPT ![u] = @ + amount]
    /\ bank' = [bank EXCEPT !.reserve_balance = @ + amount]
    /\ UNCHANGED <<holder, escrow>>

Next ==
    \/ \E S \in SUBSET {e \in Escrow : OpenNow(e)} :
          \/ Expire(S)
          \/ \E e \in Escrow \ S :
                \/ Confirm(S, e) \/ Cancel(S, e)
                \/ \E u \in User, c \in Coin : Lock(S, e, u, c)
    \/ \E e \in Escrow : Create(e)
    \/ \E u \in User : \/ \E c \in Coin : Pay(u, c) \/ Split(u, c)
                       \/ \E amount \in Cash : Deposit(u, amount)

Spec == Init /\ [][Next]_ledger

-----------------------------------------------------------------------------
\* Types of the ledger's rows.
LedgerTypeOK ==
    /\ holder \in [Coin -> User \cup {NoUser}]
    /\ escrow \in [Escrow -> EscrowValue]

\* A token is bound to one escrow, spent in its merchant's name, at its price.
Bound ==
    \A e \in Escrow : escrow[e].serial # NoCoin =>
        /\ holder[escrow[e].serial] = Merchant[e]
        /\ Worth[escrow[e].serial] = Price[e]
        /\ \A f \in Escrow \ {e} : escrow[f].serial # escrow[e].serial

\* An escrow that ended stays as it ended, and a spent token stays with whom it was spent to.
Final ==
    /\ \A e \in Escrow : escrow[e].status \in Status \ (Open \cup {"none"}) => escrow'[e] = escrow[e]
    /\ \A c \in Coin : holder[c] # NoUser => holder'[c] = holder[c]
=============================================================================
