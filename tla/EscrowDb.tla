------------------------------ MODULE EscrowDb ------------------------------
(***************************************************************************)
(* The tables that payments and escrows work on, the requests in flight    *)
(* and the forms a SQL statement can take.  A request holds one of the     *)
(* pool's connections t; job[t].pc names the statement it awaits next.     *)
(*                                                                         *)
(* Folded into the users row: the rows of transactions that the daily cap  *)
(* sums.  They are inserted by whoever holds the lock of that users row,   *)
(* in the same transaction, so no reader can tell the two writes apart.    *)
(***************************************************************************)
EXTENDS EscrowParams, Functions

CONSTANTS Tx, NoTx,   \* the connections of the pool; no connection
          NoEscrow

ASSUME NoneAssumption == NoTx \notin Tx /\ NoEscrow \notin Escrow

VARIABLES db, cur, lock,   \* the database
          job,             \* [Tx -> Job]: the requests being served
          late,            \* escrows whose expires_at has passed
          audit,           \* audit_log rows about escrows: written on a connection of their own
          done,            \* history: <<action, escrow>> that were committed
          orphan,          \* history: those whose request died between audit row and COMMIT
          spends           \* history: how many commits inserted each serial in spent_coins

UserRow(u) == <<"user", u>>
CoinRow(c) == <<"coin", c>>
EscrowRow(e) == <<"escrow", e>>
ReserveRow == <<"reserve", 1>>
Row == {UserRow(u) : u \in User} \cup {CoinRow(c) : c \in Coin}
       \cup {EscrowRow(e) : e \in Escrow} \cup {ReserveRow}

INSTANCE PgReadCommitted

storage == <<db, cur, lock>>
history == <<audit, done, orphan, spends>>
vars == <<db, cur, lock, job, late, audit, done, orphan, spends>>

-----------------------------------------------------------------------------
UserValue == [balance : Int, cash : Nat, income : Nat]    \* the day's deposits: cash and tokens
ReserveValue == [reserve_balance : Int, total_issued : Int, total_redeemed : Int]

\* What assertInvariant compares; these handlers open no withdrawal session.
Balanced(version) ==
    LET bank == version[ReserveRow]
    IN  bank.reserve_balance = SumFunction([u \in User |-> version[UserRow(u)].balance])
                               + (bank.total_issued - bank.total_redeemed)

View(t) == [r \in Row |-> Read(t, r)]

Payment == {"pay", "split"}
Settlement == {"confirm", "cancel"}
Audited == {"lock"} \cup Settlement
Op == {"none", "create", "details", "deposit"} \cup Payment \cup Audited
Label == {"idle", "insert", "cleanup", "refundLate", "expireLate", "burnLate", "select", "coin",
          "spend", "mark", "credit", "book", "close", "assert", "audit", "commit"}

Job == [op : Op, pc : Label,
        user : User \cup {NoUser},         \* who sent the request
        esc : Escrow \cup {NoEscrow},      \* the escrow it names
        coin : Coin \cup {NoCoin},         \* the token it presents
        amount : Cash \cup {0},            \* the cash it pays in
        payee : User \cup {NoUser},        \* whose balance grows
        late : SUBSET Escrow,              \* what CURRENT_TIMESTAMP, fixed at BEGIN, is past
        overdue : SUBSET (Escrow \X User), \* rows the cleanup selected: escrow and customer
        row : Escrow \cup {NoEscrow}]      \* the one it is refunding

Idle == [op |-> "none", pc |-> "idle", user |-> NoUser, esc |-> NoEscrow, coin |-> NoCoin,
         amount |-> 0, payee |-> NoUser, late |-> {}, overdue |-> {}, row |-> NoEscrow]

At(t, label) == job[t].pc = label

DbInit ==
    /\ db = [r \in Row |->
               IF r[1] = "user" THEN [balance |-> Opening, cash |-> 0, income |-> 0]
               ELSE IF r[1] = "coin" THEN NoUser
               ELSE IF r[1] = "escrow" THEN Absent
               ELSE [reserve_balance |-> SumFunction([u \in User |-> Opening]) + SumFunction(Worth),
                     total_issued |-> SumFunction(Worth), total_redeemed |-> 0]]
    /\ cur = db
    /\ lock = [r \in Row |-> NoTx]
    /\ job = [t \in Tx |-> Idle]
    /\ late = {}
    /\ audit = {} /\ done = {} /\ orphan = {}
    /\ spends = [c \in Coin |-> 0]

-----------------------------------------------------------------------------
(* Statement forms.                                                        *)

\* A throw: ROLLBACK, the connection goes back to the pool, the error is answered.
Throw(t) ==
    /\ Rollback(t)
    /\ job' = [job EXCEPT ![t] = Idle]
    /\ UNCHANGED history

\* Rows a SELECT returned: nothing is written and the handler goes on as next.
Select(t, next) ==
    /\ job' = [job EXCEPT ![t] = next]
    /\ UNCHANGED <<storage, history>>

\* An UPDATE or INSERT, after which the handler goes on as next.
Update(t, row, version, next) ==
    /\ Write(t, row, version)
    /\ job' = [job EXCEPT ![t] = next]
    /\ UNCHANGED history

-----------------------------------------------------------------------------
\* Type correctness.  StorageTyped and RequestsTyped are free of sums.
StorageTyped ==
    /\ \A version \in {db, cur} :
          /\ version = [r \in Row |-> version[r]]
          /\ \A e \in Escrow : version[EscrowRow(e)] \in EscrowValue
          /\ \A c \in Coin : version[CoinRow(c)] \in User \cup {NoUser}
    /\ lock \in [Row -> Tx \cup {NoTx}]

RequestsTyped == job \in [Tx -> Job] /\ late \subseteq Escrow

TypeOK ==
    /\ StorageTyped
    /\ RequestsTyped
    /\ \A version \in {db, cur} :
          /\ \A u \in User : version[UserRow(u)] \in UserValue
          /\ version[ReserveRow] \in ReserveValue
    /\ audit \cup done \cup orphan \subseteq Audited \X Escrow
    /\ spends \in [Coin -> Nat]
=============================================================================
