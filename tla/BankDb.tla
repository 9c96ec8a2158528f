------------------------------- MODULE BankDb -------------------------------
(***************************************************************************)
(* The tables the withdrawal protocol works on (models/schema.sql) and the *)
(* requests the server is running on them.  A request is a record kept in  *)
(* job[t]: its pc names the SQL statement it awaits next, the other fields *)
(* are the JavaScript variables of its handler that outlive an await.      *)
(***************************************************************************)
EXTENDS WithdrawalParams, Functions

CONSTANTS Tx, NoTx,   \* the server's connections
          NoSession

ASSUME NoValueAssumption == NoTx \notin Tx /\ NoSession \notin Session

VARIABLES db, cur, lock,   \* the database
          job,             \* [Tx -> Job]: the requests being served
          tally,           \* [Tx -> Tally]: what their assertInvariant has read so far
          late,            \* sessions whose expires_at has passed
          blind,           \* history: a transaction committed although its assertInvariant's
                           \* reads were torn, that is another commit fell between them
          settled          \* history: how often each session was refunded or signed

UserRow(u) == <<"user", u>>
SessionRow(s) == <<"session", s>>
ReserveRow == <<"reserve", 1>>
Row == {UserRow(u) : u \in User} \cup {SessionRow(s) : s \in Session} \cup {ReserveRow}

INSTANCE PgReadCommitted

storage == <<db, cur, lock>>
history == <<blind, settled>>
vars == <<db, cur, lock, job, tally, late, blind, settled>>

-----------------------------------------------------------------------------
ReserveValue == [reserve_balance : Int, total_issued : Int, total_redeemed : Int]

IsActive(version, s) == version[SessionRow(s)].status \in Active

\* The two sums assertInvariant asks the database for, over one version of the tables.
SumBalance(version) == SumFunction([u \in User |-> version[UserRow(u)]])
InFlight(version) ==
    SumFunction([s \in Session |-> IF IsActive(version, s) THEN Amount[s] ELSE 0])

\* The reserve equation, over one version of the tables.
Balanced(version) ==
    LET bank == version[ReserveRow]
    IN  bank.reserve_balance = SumBalance(version)
            + (bank.total_issued - bank.total_redeemed) + InFlight(version)

View(t) == [r \in Row |-> Read(t, r)]

(***************************************************************************)
(* idx_ws_active_per_customer, the partial unique index over active        *)
(* sessions.  An INSERT or UPDATE that makes session s active waits for    *)
(* any transaction that is changing another active session of the owner,   *)
(* and fails with 23505 if one is still active then.                       *)
(***************************************************************************)
IndexBusy(t, s) ==
    \E r \in Rival(s) : /\ ~Writable(t, SessionRow(r))
                        /\ IsActive(db, r) \/ IsActive(cur, r)

\* Mutant: the index was never created.
NoIndexHit(t, s) == FALSE

IndexHit(t, s) == \E r \in Rival(s) : IsActive(View(t), r)

-----------------------------------------------------------------------------
Op == {"none", "init", "submit", "reveal", "cancel", "sweep"}
Label == {"idle", "lazy", "select", "balance", "debit", "insert", "mark", "sign", "issue",
          "refund", "close", "readReserve", "readBalances", "readInFlight", "commit"}

Job == [op : Op, pc : Label,
        sess : Session \cup {NoSession},   \* the session the handler works on
        opens : Session \cup {NoSession},  \* the id init will insert its session under
        todo : SUBSET Session,             \* rows of the expired-sessions query still to refund
        j : Index \cup {NoIndex},          \* the index submit has picked
        close : Closed \cup {"none"},      \* newStatus of refundAndClose
        then : {"idle", "select"},         \* where the handler goes on after COMMIT
        did : SUBSET Session]              \* sessions this transaction has refunded or signed

NoBooks == [reserve_balance |-> 0, total_issued |-> 0, total_redeemed |-> 0]
Idle == [op |-> "none", pc |-> "idle", sess |-> NoSession, opens |-> NoSession, todo |-> {},
         j |-> NoIndex, close |-> "none", then |-> "idle", did |-> {}]

Tally == [books : ReserveValue, sum : Int, torn : BOOLEAN]
NoTally == [books |-> NoBooks, sum |-> 0, torn |-> FALSE]

At(t, label) == job[t].pc = label
Goto(t, label) == job' = [job EXCEPT ![t].pc = label]

OpeningReserve == [NoBooks EXCEPT !.reserve_balance = SumFunction([u \in User |-> Opening])]

DbInit ==
    /\ db = [r \in Row |-> IF r[1] = "user" THEN Opening
                          ELSE IF r[1] = "session" THEN Absent ELSE OpeningReserve]
    /\ cur = db
    /\ lock = [r \in Row |-> NoTx]
    /\ job = [t \in Tx |-> Idle]
    /\ tally = [t \in Tx |-> NoTally]
    /\ late = {}
    /\ blind = FALSE
    /\ settled = [s \in Session |-> 0]

(***************************************************************************)
(* Type correctness.  StorageTyped and RequestsTyped are all that most     *)
(* proofs need: they do not depend on the sums.                            *)
(***************************************************************************)
StorageTyped ==
    /\ \A version \in {db, cur} :
          /\ version = [r \in Row |-> version[r]]
          /\ \A s \in Session : version[SessionRow(s)] \in SessionValue
    /\ lock \in [Row -> Tx \cup {NoTx}]

RequestsTyped == job \in [Tx -> Job] /\ late \subseteq Session

TypeOK ==
    /\ StorageTyped
    /\ RequestsTyped
    /\ \A version \in {db, cur} :
          /\ \A u \in User : version[UserRow(u)] \in Int
          /\ version[ReserveRow] \in ReserveValue
    /\ tally \in [Tx -> Tally]
    /\ blind \in BOOLEAN
    /\ settled \in [Session -> Nat]
=============================================================================
