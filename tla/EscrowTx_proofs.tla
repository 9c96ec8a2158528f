-------------------------- MODULE EscrowTx_proofs --------------------------
(***************************************************************************)
(* What holds of the transactions on tokens, escrows and accounts for any  *)
(* users, tokens, escrows and connections.                                 *)
(*                                                                         *)
(* However the requests overlap: a token is spent once, an escrow that is  *)
(* locked or committed has a token of its price that nobody else was paid  *)
(* with, nobody pays in more cash than a day allows, and the balances and  *)
(* the reserve row change together.                                        *)
(*                                                                         *)
(* As long as two requests about escrows do not overlap: the tokens in     *)
(* circulation and the escrows are backed by total_issued, and the service *)
(* implements the atomic EscrowLedger.                                     *)
(***************************************************************************)
EXTENDS EscrowTx, Sums

(***************************************************************************)
(* The inductive invariant.  A request past its INSERT into spent_coins    *)
(* holds the token: the row is its own, written in the payee's name, and   *)
(* unspent as committed.  A row of payment_escrows has a token only with   *)
(* the token's row: both are committed, or one transaction holds both.     *)
(***************************************************************************)
Holding == {"mark", "credit", "book", "assert", "audit", "commit"}
Holds(request, c) == request.coin = c /\ request.pc \in Holding

CoinInv(c) ==
    /\ \A t \in Tx : lock[CoinRow(c)] = t <=> Holds(job[t], c)
    /\ \A t \in Tx : Holds(job[t], c) => /\ db[CoinRow(c)] = NoUser
                                         /\ cur[CoinRow(c)] = DepositedTo(job[t])
                                         /\ cur[CoinRow(c)] \in User
    /\ spends[c] = IF db[CoinRow(c)] = NoUser THEN 0 ELSE 1

\* What a version of an escrow's row says by itself.
RowInv(value, e) ==
    /\ value.status = "locked" => value.customer \in User
    /\ value.status \in {"locked", "committed"} => value.serial \in Coin
    /\ value.serial \in Coin => Worth[value.serial] = Price[e] /\ value.status # "none"

EscrowInv(e) ==
    LET committed == db[EscrowRow(e)]
        latest == cur[EscrowRow(e)]
    IN  /\ RowInv(committed, e) /\ RowInv(latest, e)
        /\ committed.serial \in Coin =>
              db[CoinRow(committed.serial)] = Merchant[e] /\ latest.serial \in Coin
        /\ latest.serial \in Coin =>
              /\ cur[CoinRow(latest.serial)] = Merchant[e]
              /\ \/ db[CoinRow(latest.serial)] = Merchant[e]
                 \/ lock[EscrowRow(e)] \in Tx /\ lock[CoinRow(latest.serial)] = lock[EscrowRow(e)]
        /\ lock[EscrowRow(e)] \in Tx => latest.status # "none"

\* No two escrows have the same token, in whichever version.
Distinct(v, e, w, f) ==
    v[EscrowRow(e)].serial \in Coin => v[EscrowRow(e)].serial # w[EscrowRow(f)].serial
PairInv(e, f) == /\ Distinct(db, e, db, f) /\ Distinct(db, e, cur, f)
                 /\ Distinct(cur, e, db, f) /\ Distinct(cur, e, cur, f)

\* What the fields of a request hold by the time it runs its next statement.
Aims(request) ==
    /\ request.op \in {"create"} \cup Audited => request.esc \in Escrow
    /\ request.op \in Payment \cup {"lock"} => request.coin \in Coin /\ request.user \in User
    /\ request.op \in {"none", "create", "details", "deposit"} \cup Settlement => request.coin = NoCoin
    /\ request.op = "lock" /\ request.pc \in {"coin", "spend"} \cup Holding =>
          Worth[request.coin] = Price[request.esc]
    /\ request.pc \in {"coin", "spend"} => request.op \in Payment \cup {"lock"}
    /\ request.pc = "insert" => request.op = "create"
    /\ request.pc = "idle" => request.op = "none"
    /\ request.pc = "mark" => request.op = "lock"
    /\ request.pc = "close" => request.op \in Settlement
    /\ request.pc = "expireLate" => request.row \in Escrow
    /\ request.pc \in {"cleanup", "refundLate", "expireLate", "burnLate", "select"} =>
          request.op \in Audited \cup {"details"}

AimedJob == {request \in Job : Aims(request)}

\* The escrows a request has read about.
Named(request) == {request.row} \cup {x[1] : x \in request.overdue}
                  \cup (IF request.op = "create" THEN {} ELSE {request.esc})

\* The escrow a confirm pays out has a token.
Funded(t, request) ==
    request.op = "confirm" /\ request.pc \in {"credit", "book", "close"} =>
       \/ db[EscrowRow(request.esc)].serial \in Coin
       \/ /\ lock[EscrowRow(request.esc)] = t
          /\ cur[EscrowRow(request.esc)].serial \in Coin

\* The escrow a create is about to insert is not there yet, and nobody else inserts it.
Vacant(t, request) ==
    request.op = "create" =>
       /\ request.pc = "insert" => ~Known(request.esc) /\ lock[EscrowRow(request.esc)] = NoTx
       /\ \A u \in Tx \ {t} : ~(job[u].op = "create" /\ job[u].esc = request.esc)

\* A request changes only escrows that are there, unless it creates one.
Finds(t, request) ==
    request.op # "create" => \A f \in Escrow : lock[EscrowRow(f)] = t => Known(f)

RequestInv(t, request) ==
    /\ \A e \in Escrow : e \in Named(request) => Known(e)
    /\ request.pc = "mark" => \A f \in Escrow : cur[EscrowRow(f)].serial # request.coin
    /\ Funded(t, request)
    /\ Vacant(t, request)
    /\ Finds(t, request)

TablesInv == /\ StorageTyped /\ OneVersion
             /\ \A c \in Coin : CoinInv(c)
             /\ \A e \in Escrow : EscrowInv(e)
             /\ \A e \in Escrow : \A f \in Escrow \ {e} : PairInv(e, f)

RequestsInv == /\ job \in [Tx -> AimedJob] /\ late \subseteq Escrow
               /\ \A t \in Tx : RequestInv(t, job[t])

IInv == TablesInv /\ RequestsInv

-----------------------------------------------------------------------------
(* Rows                                                                    *)

\* The rows of different tables, of different tokens and of different escrows differ.
LEMMA Rows ==
    /\ \A c \in Coin : CoinRow(c) \in Row
    /\ \A e \in Escrow : EscrowRow(e) \in Row
    /\ \A c, d \in Coin : CoinRow(c) = CoinRow(d) => c = d
    /\ \A e, f \in Escrow : EscrowRow(e) = EscrowRow(f) => e = f
    /\ \A c \in Coin, e \in Escrow : CoinRow(c) # EscrowRow(e)
    /\ \A c \in Coin : CoinRow(c) # ReserveRow
    /\ \A e \in Escrow : EscrowRow(e) # ReserveRow
  BY DEF Row, UserRow, CoinRow, EscrowRow, ReserveRow

\* No account is a token or an escrow.
LEMMA Accounts ==
  ASSUME NEW u
  PROVE  /\ \A c \in Coin : CoinRow(c) # UserRow(u)
         /\ \A e \in Escrow : EscrowRow(e) # UserRow(u)
  BY DEF UserRow, CoinRow, EscrowRow

\* What a write does to each row.
LEMMA WriteFacts ==
  ASSUME StorageTyped, NEW t \in Tx, NEW row, NEW v, Write(t, row, v)
  PROVE  /\ db' = db
         /\ cur' = [r \in Row |-> IF r = row THEN v ELSE cur[r]]
         /\ lock' = [r \in Row |-> IF r = row THEN t ELSE lock[r]]
         /\ lock[row] \in {t, NoTx}
  BY DEF StorageTyped, Write, Writable

\* What a COMMIT does to each row.
LEMMA CommitFacts ==
  ASSUME StorageTyped, NEW t \in Tx, Commit(t)
  PROVE  /\ cur' = cur
         /\ db' = [r \in Row |-> IF lock[r] = t THEN cur[r] ELSE db[r]]
         /\ lock' = [r \in Row |-> IF lock[r] = t THEN NoTx ELSE lock[r]]
  BY DEF StorageTyped, Commit, Release, Read

\* What a ROLLBACK does to each row.
LEMMA RollbackFacts ==
  ASSUME StorageTyped, NEW t \in Tx, Rollback(t)
  PROVE  /\ db' = db
         /\ cur' = [r \in Row |-> IF lock[r] = t THEN db[r] ELSE cur[r]]
         /\ lock' = [r \in Row |-> IF lock[r] = t THEN NoTx ELSE lock[r]]
  BY DEF StorageTyped, Rollback, Release

\* A row is changed by its holder only, and holders are transactions.
LEMMA WriteStorage ==
  ASSUME StorageTyped, OneVersion, NEW t \in Tx, NEW row, NEW v, Write(t, row, v),
         \A e \in Escrow : row = EscrowRow(e) => v \in EscrowValue,
         \A c \in Coin : row = CoinRow(c) => v \in User \cup {NoUser}
  PROVE  StorageTyped' /\ OneVersion'
<1>1. StorageTyped'
  BY WriteFacts, Rows DEF StorageTyped
<1>2. OneVersion'
  BY WriteFacts, NoneAssumption DEF OneVersion
<1> QED
  BY <1>1, <1>2

\* The end of a transaction leaves rows and locks well typed.
LEMMA EndStorage ==
  ASSUME StorageTyped, OneVersion, NEW t \in Tx, Commit(t) \/ Rollback(t)
  PROVE  StorageTyped' /\ OneVersion'
<1>1. CASE Commit(t)
  <2>1. StorageTyped'
    BY <1>1, CommitFacts, Rows DEF StorageTyped
  <2>2. OneVersion'
    BY <1>1, CommitFacts, NoneAssumption DEF OneVersion
  <2> QED
    BY <2>1, <2>2
<1>2. CASE Rollback(t)
  <2>1. StorageTyped'
    BY <1>2, RollbackFacts, Rows DEF StorageTyped
  <2>2. OneVersion'
    BY <1>2, RollbackFacts, NoneAssumption DEF OneVersion
  <2> QED
    BY <2>1, <2>2
<1> QED
  BY <1>1, <1>2

\* A spent token's row has one version.
LEMMA SpentIsSettled ==
  ASSUME StorageTyped, OneVersion, NEW c \in Coin, CoinInv(c), db[CoinRow(c)] # NoUser
  PROVE  cur[CoinRow(c)] = db[CoinRow(c)] /\ lock[CoinRow(c)] = NoTx
<1>1. CoinRow(c) \in Row /\ lock[CoinRow(c)] \in Tx \cup {NoTx}
  BY Rows DEF StorageTyped
<1>2. lock[CoinRow(c)] \notin Tx
  BY DEF CoinInv
<1> QED
  BY <1>1, <1>2 DEF OneVersion

-----------------------------------------------------------------------------
(* Statements that write neither a token nor an escrow                     *)

\* next is what t may go on as without writing a token or an escrow.
Follows(t, next) ==
    /\ \A c \in Coin : Holds(next, c) <=> Holds(job[t], c)
    /\ \A c \in Coin : Holds(next, c) => DepositedTo(next) = DepositedTo(job[t])
    /\ RequestInv(t, next)

\* Tokens and escrows stay as they are.
SameRows ==
    /\ \A c \in Coin : /\ db'[CoinRow(c)] = db[CoinRow(c)]
                        /\ cur'[CoinRow(c)] = cur[CoinRow(c)]
                        /\ lock'[CoinRow(c)] = lock[CoinRow(c)]
    /\ \A e \in Escrow : /\ db'[EscrowRow(e)] = db[EscrowRow(e)]
                          /\ cur'[EscrowRow(e)] = cur[EscrowRow(e)]
                          /\ lock'[EscrowRow(e)] = lock[EscrowRow(e)]

\* A step that leaves tokens and escrows alone and moves its request on preserves the invariant.
LEMMA Untouched ==
  ASSUME IInv, NEW t \in Tx, NEW next \in AimedJob, Follows(t, next),
         job' = [job EXCEPT ![t] = next], spends' = spends, late' \subseteq Escrow,
         StorageTyped', OneVersion', SameRows
  PROVE  IInv'
<1>1. job' \in [Tx -> AimedJob] /\ job'[t] = next /\ \A u \in Tx \ {t} : job'[u] = job[u]
  BY DEF IInv, RequestsInv
<1>2. \A c \in Coin : CoinInv(c)'
  <2> SUFFICES ASSUME NEW c \in Coin PROVE CoinInv(c)'
    OBVIOUS
  <2>1. CoinInv(c)
    BY DEF IInv, TablesInv
  <2>2. \A u \in Tx : Holds(job'[u], c) <=> Holds(job[u], c)
    BY <1>1 DEF Follows
  <2>3. \A u \in Tx : Holds(job[u], c) => DepositedTo(job'[u]) = DepositedTo(job[u])
    BY <1>1 DEF Follows
  <2> QED
    BY <2>1, <2>2, <2>3 DEF CoinInv, SameRows
<1>3. \A e \in Escrow : EscrowInv(e)'
  <2> SUFFICES ASSUME NEW e \in Escrow PROVE EscrowInv(e)'
    OBVIOUS
  <2> QED
    BY DEF IInv, TablesInv, EscrowInv, RowInv, SameRows
<1>4. \A e \in Escrow : \A f \in Escrow \ {e} : PairInv(e, f)'
  BY DEF IInv, TablesInv, PairInv, Distinct, SameRows
<1>5. ASSUME NEW u \in Tx PROVE RequestInv(u, job[u])'
  <2> DEFINE request == job'[u]
  <2>1. request \in AimedJob /\ RequestInv(u, request)
    BY <1>1 DEF Follows, IInv, RequestsInv, RequestInv, Vacant
  <2>2. \A e \in Escrow : e \in Named(request) => Known(e)'
    BY <2>1 DEF RequestInv, Known, SameRows
  <2>3. request.pc = "mark" => \A f \in Escrow : cur'[EscrowRow(f)].serial # request.coin
    BY <2>1 DEF RequestInv, SameRows
  <2>4. request.op \in {"create", "confirm"} => request.esc \in Escrow
    BY <2>1 DEF AimedJob, Aims, Audited, Settlement
  <2>5. Funded(u, job[u])'
    BY <2>1, <2>4 DEF RequestInv, Funded, SameRows
  <2>6. \A w \in Tx \ {u} : ~(request.op = "create" /\ job'[w].op = "create" /\ job'[w].esc = request.esc)
    BY <1>1, <2>1 DEF Follows, IInv, RequestsInv, RequestInv, Vacant
  <2>7. Vacant(u, job[u])'
    BY <2>1, <2>4, <2>6 DEF RequestInv, Vacant, Known, SameRows
  <2>8. Finds(u, job[u])'
    BY <2>1 DEF RequestInv, Finds, Known, SameRows
  <2> QED
    BY <2>2, <2>3, <2>5, <2>7, <2>8 DEF RequestInv, Named
<1> QED
  BY <1>1, <1>2, <1>3, <1>4, <1>5 DEF IInv, TablesInv, RequestsInv

\* A SELECT, or anything else that leaves the tables alone.
LEMMA SelectKeeps ==
  ASSUME IInv, NEW t \in Tx, NEW next \in AimedJob, Follows(t, next),
         job' = [job EXCEPT ![t] = next], UNCHANGED <<storage, spends>>, late' = late
  PROVE  IInv'
<1>1. StorageTyped' /\ OneVersion' /\ SameRows
  BY DEF IInv, TablesInv, storage, StorageTyped, OneVersion, SameRows
<1> QED
  BY <1>1, Untouched DEF IInv, RequestsInv

\* An UPDATE of users or bank_reserve.
LEMMA ElsewhereKeeps ==
  ASSUME IInv, NEW t \in Tx, NEW row, NEW v, NEW next \in AimedJob, Follows(t, next),
         \A c \in Coin : row # CoinRow(c), \A e \in Escrow : row # EscrowRow(e),
         Update(t, row, v, next), late' = late
  PROVE  IInv'
<1>1. Write(t, row, v) /\ StorageTyped /\ OneVersion
  BY DEF Update, IInv, TablesInv
<1>2. StorageTyped' /\ OneVersion'
  BY <1>1, WriteStorage
<1>3. SameRows
  BY <1>1, WriteFacts, Rows DEF SameRows
<1> QED
  BY <1>2, <1>3, Untouched DEF Update, history, IInv, RequestsInv

-----------------------------------------------------------------------------
(* Statements that write a token or an escrow                              *)

\* The others' requests hold what they held.
LEMMA NextRequests ==
  ASSUME IInv, NEW t \in Tx, NEW next \in AimedJob, job' = [job EXCEPT ![t] = next]
  PROVE  /\ job' \in [Tx -> AimedJob]
         /\ job'[t] = next
         /\ \A u \in Tx \ {t} : job'[u] = job[u] /\ job[u] \in AimedJob /\ RequestInv(u, job[u])
  BY DEF IInv, RequestsInv

\* An UPDATE of payment_escrows that ends an escrow.
LEMMA EndEscrowKeeps ==
  ASSUME IInv, NEW t \in Tx, NEW e \in Escrow, NEW v \in EscrowValue, NEW next \in AimedJob,
         Follows(t, next), next.op # "create",
         Known(e) \/ lock[EscrowRow(e)] = t,
         v.status \notin {"none", "locked"},
         v.status = "committed" => cur[EscrowRow(e)].serial \in Coin,
         v.serial = cur[EscrowRow(e)].serial,
         Update(t, EscrowRow(e), v, next), late' = late
  PROVE  IInv'
<1> DEFINE row == EscrowRow(e)
<1>0. Write(t, row, v) /\ StorageTyped /\ OneVersion
  BY DEF Update, IInv, TablesInv
<1>1. StorageTyped' /\ OneVersion'
  BY <1>0, WriteStorage, Rows
<1>2. /\ db' = db
      /\ \A c \in Coin : cur'[CoinRow(c)] = cur[CoinRow(c)] /\ lock'[CoinRow(c)] = lock[CoinRow(c)]
      /\ \A f \in Escrow \ {e} : cur'[EscrowRow(f)] = cur[EscrowRow(f)]
                                /\ lock'[EscrowRow(f)] = lock[EscrowRow(f)]
      /\ cur'[row] = v /\ lock'[row] = t /\ lock[row] \in {t, NoTx}
  BY <1>0, WriteFacts, Rows
<1>3. job' = [job EXCEPT ![t] = next] /\ spends' = spends
  BY DEF Update, history
<1>4. job' \in [Tx -> AimedJob] /\ job'[t] = next
      /\ \A u \in Tx \ {t} : job'[u] = job[u] /\ job[u] \in AimedJob /\ RequestInv(u, job[u])
  BY <1>3, NextRequests
<1>5. \A c \in Coin : CoinInv(c)'
  <2> SUFFICES ASSUME NEW c \in Coin PROVE CoinInv(c)'
    OBVIOUS
  <2>1. CoinInv(c)
    BY DEF IInv, TablesInv
  <2>2. \A u \in Tx : Holds(job'[u], c) <=> Holds(job[u], c)
    BY <1>4 DEF Follows
  <2>3. \A u \in Tx : Holds(job[u], c) => DepositedTo(job'[u]) = DepositedTo(job[u])
    BY <1>4 DEF Follows
  <2> QED
    BY <1>2, <1>3, <2>1, <2>2, <2>3 DEF CoinInv
<1>6. \A f \in Escrow : EscrowInv(f)'
  <2> SUFFICES ASSUME NEW f \in Escrow PROVE EscrowInv(f)'
    OBVIOUS
  <2>1. EscrowInv(f)
    BY DEF IInv, TablesInv
  <2>2. CASE f = e
    BY <1>2, <2>1, <2>2, NoneAssumption DEF EscrowInv, RowInv
  <2>3. CASE f # e
    BY <1>2, <2>1, <2>3 DEF EscrowInv, RowInv
  <2> QED
    BY <2>2, <2>3
<1>7. \A f \in Escrow : \A g \in Escrow \ {f} : PairInv(f, g)'
  <2> SUFFICES ASSUME NEW f \in Escrow, NEW g \in Escrow \ {f} PROVE PairInv(f, g)'
    OBVIOUS
  <2>1. PairInv(f, g)
    BY DEF IInv, TablesInv
  <2>2. /\ cur'[EscrowRow(f)].serial = cur[EscrowRow(f)].serial
        /\ cur'[EscrowRow(g)].serial = cur[EscrowRow(g)].serial
    BY <1>2
  <2> QED
    BY <1>2, <2>1, <2>2 DEF PairInv, Distinct
<1>8. ASSUME NEW u \in Tx PROVE RequestInv(u, job[u])'
  <2> DEFINE request == job'[u]
  <2>1. request \in AimedJob /\ RequestInv(u, request)
    BY <1>4 DEF Follows
  <2>2. \A f \in Escrow : f \in Named(request) => Known(f)'
    BY <1>2, <2>1 DEF RequestInv, Known
  <2>3. \A f \in Escrow : cur'[EscrowRow(f)].serial = cur[EscrowRow(f)].serial
    BY <1>2
  <2>4. request.op \in {"create", "confirm"} => request.esc \in Escrow
    BY <2>1 DEF AimedJob, Aims, Audited, Settlement
  <2>5. Funded(u, job[u])'
    BY <1>2, <2>1, <2>3, <2>4, NoneAssumption DEF RequestInv, Funded
  <2>6. Vacant(u, job[u])'
    <3>1. CASE u = t
      BY <1>4, <3>1 DEF Vacant
    <3>2. CASE u # t
      <4>1. Vacant(u, job[u]) /\ job'[u] = job[u]
        BY <1>4, <3>2 DEF RequestInv
      <4>2. \A w \in Tx \ {u} : job'[w].op = "create" => job'[w] = job[w]
        BY <1>4
      <4>3. job[u].op = "create" /\ job[u].pc = "insert" => job[u].esc # e
        BY <1>2, <3>2, <4>1, NoneAssumption DEF Vacant
      <4> QED
        BY <1>2, <2>4, <4>1, <4>2, <4>3 DEF Vacant, Known
    <3> QED
      BY <3>1, <3>2
  <2>7. Finds(u, job[u])'
    <3>1. u # t => lock'[row] # u
      BY <1>2
    <3>2. u = t => Known(e)
      BY <1>4, <2>1 DEF RequestInv, Finds
    <3> QED
      BY <1>2, <2>1, <3>1, <3>2 DEF RequestInv, Finds, Known
  <2> QED
    BY <2>1, <2>2, <2>3, <2>5, <2>6, <2>7 DEF RequestInv, Named
<1> QED
  BY <1>1, <1>4, <1>5, <1>6, <1>7, <1>8 DEF IInv, TablesInv, RequestsInv

\* INSERT INTO payment_escrows: the row was not there.
LEMMA CreateKeeps ==
  ASSUME IInv, NEW t \in Tx, CreateInsert(t), late' = late
  PROVE  IInv'
<1> DEFINE e == job[t].esc
           row == EscrowRow(e)
           v == [Absent EXCEPT !.status = "created"]
           next == [job[t] EXCEPT !.pc = "assert"]
<1>0. job[t] \in AimedJob /\ RequestInv(t, job[t]) /\ job[t].pc = "insert"
  BY DEF IInv, RequestsInv, CreateInsert, At
<1>a. job[t].op = "create" /\ e \in Escrow /\ job[t].coin = NoCoin /\ next \in AimedJob
  BY <1>0 DEF AimedJob, Aims, Job, Label, Holding, Audited, Settlement
<1>b. v \in EscrowValue /\ v.status = "created" /\ v.serial = NoCoin
  BY DEF Absent, EscrowValue, Status, Open
<1>c. Write(t, row, v) /\ StorageTyped /\ OneVersion
  BY DEF CreateInsert, Update, IInv, TablesInv
<1>1. StorageTyped' /\ OneVersion'
  BY <1>b, <1>c, WriteStorage, Rows, <1>a
<1>2. /\ db' = db
      /\ \A c \in Coin : cur'[CoinRow(c)] = cur[CoinRow(c)] /\ lock'[CoinRow(c)] = lock[CoinRow(c)]
      /\ \A f \in Escrow \ {e} : cur'[EscrowRow(f)] = cur[EscrowRow(f)]
                                /\ lock'[EscrowRow(f)] = lock[EscrowRow(f)]
      /\ cur'[row] = v /\ lock'[row] = t
  BY <1>a, <1>c, WriteFacts, Rows
<1>3. job' = [job EXCEPT ![t] = next] /\ spends' = spends
  BY DEF CreateInsert, Update, history
<1>4. job' \in [Tx -> AimedJob] /\ job'[t] = next
      /\ \A u \in Tx \ {t} : job'[u] = job[u] /\ job[u] \in AimedJob /\ RequestInv(u, job[u])
  BY <1>a, <1>3, NextRequests
<1>5. lock[row] = NoTx /\ db[row].status = "none" /\ db[row].serial \notin Coin
      /\ \A u \in Tx \ {t} : ~(job[u].op = "create" /\ job[u].esc = e)
  BY <1>0, <1>a DEF RequestInv, Vacant, Known, IInv, TablesInv, EscrowInv, RowInv
<1>6. \A c \in Coin : CoinInv(c)'
  <2> SUFFICES ASSUME NEW c \in Coin PROVE CoinInv(c)'
    OBVIOUS
  <2>1. CoinInv(c)
    BY DEF IInv, TablesInv
  <2>2. ~Holds(job[t], c) /\ ~Holds(next, c)
    BY <1>a, NullAssumption DEF Holds, AimedJob, Job
  <2> QED
    BY <1>2, <1>3, <1>4, <2>1, <2>2 DEF CoinInv
<1>7. \A f \in Escrow : EscrowInv(f)'
  <2> SUFFICES ASSUME NEW f \in Escrow PROVE EscrowInv(f)'
    OBVIOUS
  <2>1. EscrowInv(f)
    BY DEF IInv, TablesInv
  <2>2. CASE f = e
    BY <1>2, <1>5, <1>b, <2>1, <2>2, NullAssumption DEF EscrowInv, RowInv
  <2>3. CASE f # e
    BY <1>2, <2>1, <2>3 DEF EscrowInv, RowInv
  <2> QED
    BY <2>2, <2>3
<1>8. \A f \in Escrow : \A g \in Escrow \ {f} : PairInv(f, g)'
  <2> SUFFICES ASSUME NEW f \in Escrow, NEW g \in Escrow \ {f} PROVE PairInv(f, g)'
    OBVIOUS
  <2>1. PairInv(f, g)
    BY DEF IInv, TablesInv
  <2> QED
    BY <1>2, <1>b, <2>1, NullAssumption DEF PairInv, Distinct
<1>9. ASSUME NEW u \in Tx PROVE RequestInv(u, job[u])'
  <2>1. CASE u = t
    <3>1. \A f \in Escrow : f \in Named(next) => Known(f)
      BY <1>0, <1>a DEF RequestInv, Named, AimedJob, Job
    <3>2. \A w \in Tx \ {t} : ~(job'[w].op = "create" /\ job'[w].esc = e)
      BY <1>4, <1>5
    <3>3. next.op = "create" /\ next.pc = "assert" /\ next.esc = e
      BY <1>a DEF AimedJob, Job
    <3>4. \A f \in Escrow : f \in Named(next) => Known(f)'
      BY <1>2, <3>1 DEF Known
    <3>5. Funded(u, job[u])'
      BY <1>4, <2>1, <3>3 DEF Funded
    <3>6. Vacant(u, job[u])'
      BY <1>4, <2>1, <3>2, <3>3 DEF Vacant
    <3>7. Finds(u, job[u])' /\ job'[u] = next
      BY <1>4, <2>1, <3>3 DEF Finds
    <3> QED
      BY <3>3, <3>4, <3>5, <3>6, <3>7 DEF RequestInv, Named
  <2>2. CASE u # t
    <3>1. job'[u] = job[u] /\ job[u] \in AimedJob /\ RequestInv(u, job[u])
      BY <1>4, <2>2
    <3>2. job[u].op \in {"create", "confirm"} => job[u].esc \in Escrow
      BY <3>1 DEF AimedJob, Aims, Audited, Settlement
    <3>3. job[u].pc = "mark" => job[u].coin \in Coin
      BY <3>1 DEF AimedJob, Aims
    <3>4. job[u].pc = "mark" => \A f \in Escrow : cur'[EscrowRow(f)].serial # job[u].coin
      BY <1>2, <1>b, <3>1, <3>3, NullAssumption DEF RequestInv
    <3>5. Funded(u, job[u])'
      BY <1>2, <1>5, <2>2, <3>1, <3>2, NoneAssumption DEF RequestInv, Funded
    <3>6. Vacant(u, job[u])'
      <4>1. \A w \in Tx \ {u} : job'[w].op = "create" /\ job'[w].esc = job[u].esc
                                  => job[w].op = "create" /\ job[w].esc = job[u].esc
        BY <1>4, <1>a DEF AimedJob, Job
      <4>2. job[u].op = "create" => job[u].esc # e
        BY <1>5, <2>2
      <4> QED
        BY <1>2, <3>1, <3>2, <4>1, <4>2 DEF RequestInv, Vacant, Known
    <3>7. Finds(u, job[u])'
      BY <1>2, <2>2, <3>1 DEF RequestInv, Finds, Known
    <3> QED
      BY <1>2, <3>1, <3>4, <3>5, <3>6, <3>7 DEF RequestInv, Known
  <2> QED
    BY <2>1, <2>2
<1> QED
  BY <1>1, <1>4, <1>6, <1>7, <1>8, <1>9 DEF CreateInsert, IInv, TablesInv, RequestsInv

\* INSERT INTO spent_coins: from here to its end the request holds the token.
LEMMA SpendKeeps ==
  ASSUME IInv, NEW t \in Tx, Spend(t), late' = late, ~Throw(t)
  PROVE  IInv'
<1> DEFINE c == job[t].coin
           row == CoinRow(c)
           v == DepositedTo(job[t])
           next == [job[t] EXCEPT !.pc = IF job[t].op = "lock" THEN "mark" ELSE "credit"]
<1>0. job[t] \in AimedJob /\ RequestInv(t, job[t]) /\ job[t].pc = "spend"
  BY DEF IInv, RequestsInv, Spend, At
<1>a. /\ job[t].op \in Payment \cup {"lock"} /\ c \in Coin /\ job[t].user \in User
      /\ job[t].op = "lock" => job[t].esc \in Escrow /\ Worth[c] = Price[job[t].esc]
  BY <1>0 DEF AimedJob, Aims, Audited
<1>b. next \in AimedJob /\ next.coin = c /\ next.op = job[t].op /\ next.esc = job[t].esc
      /\ next.pc \in {"mark", "credit"} /\ (next.pc = "mark" => next.op = "lock")
      /\ next.row = job[t].row /\ next.overdue = job[t].overdue
      /\ DepositedTo(next) = v
  BY <1>0, <1>a DEF AimedJob, Aims, Job, Label, Holding, DepositedTo, Payment, Settlement
<1>c. v \in User
  BY <1>a, MerchantAssumption DEF DepositedTo
<1>d. cur[row] = NoUser /\ Update(t, row, v, next)
  BY DEF Spend
<1>e. Write(t, row, v) /\ StorageTyped /\ OneVersion
  BY <1>d DEF Update, IInv, TablesInv
<1>1. StorageTyped' /\ OneVersion'
  BY <1>a, <1>c, <1>e, WriteStorage, Rows
<1>2. /\ db' = db
      /\ \A d \in Coin \ {c} : cur'[CoinRow(d)] = cur[CoinRow(d)] /\ lock'[CoinRow(d)] = lock[CoinRow(d)]
      /\ \A e \in Escrow : cur'[EscrowRow(e)] = cur[EscrowRow(e)]
                          /\ lock'[EscrowRow(e)] = lock[EscrowRow(e)]
      /\ cur'[row] = v /\ lock'[row] = t /\ lock[row] \in {t, NoTx}
  BY <1>a, <1>e, WriteFacts, Rows
<1>3. job' = [job EXCEPT ![t] = next] /\ spends' = spends
  BY <1>d DEF Update, history
<1>4. job' \in [Tx -> AimedJob] /\ job'[t] = next
      /\ \A u \in Tx \ {t} : job'[u] = job[u] /\ job[u] \in AimedJob /\ RequestInv(u, job[u])
  BY <1>b, <1>3, NextRequests
<1>5. lock[row] = NoTx /\ db[row] = NoUser
  <2>1. CoinInv(c) /\ row \in Row
    BY <1>a, Rows DEF IInv, TablesInv
  <2>2. ~Holds(job[t], c)
    BY <1>0 DEF Holds, Holding
  <2>3. lock[row] = NoTx
    BY <1>2, <2>1, <2>2 DEF CoinInv
  <2> QED
    BY <1>d, <1>e, <2>1, <2>3 DEF OneVersion
<1>6. \A e \in Escrow : cur[EscrowRow(e)].serial # c
  <2> SUFFICES ASSUME NEW e \in Escrow PROVE cur[EscrowRow(e)].serial # c
    OBVIOUS
  <2>1. cur[EscrowRow(e)].serial \in Coin => cur[CoinRow(cur[EscrowRow(e)].serial)] = Merchant[e]
    BY DEF IInv, TablesInv, EscrowInv
  <2> QED
    BY <1>a, <1>d, <2>1, MerchantAssumption, NullAssumption
<1>7. \A d \in Coin : CoinInv(d)'
  <2> SUFFICES ASSUME NEW d \in Coin PROVE CoinInv(d)'
    OBVIOUS
  <2>1. CoinInv(d)
    BY DEF IInv, TablesInv
  <2>2. CASE d = c
    <3>1. Holds(next, c) /\ \A u \in Tx \ {t} : ~Holds(job'[u], c)
      BY <1>4, <1>5, <1>b, <2>1, <2>2, NoneAssumption DEF Holds, Holding, CoinInv
    <3> QED
      BY <1>2, <1>3, <1>4, <1>5, <1>b, <1>c, <2>1, <2>2, <3>1 DEF CoinInv
  <2>3. CASE d # c
    <3>1. ~Holds(next, d) /\ ~Holds(job[t], d)
      BY <1>b, <2>3 DEF Holds
    <3> QED
      BY <1>2, <1>3, <1>4, <2>1, <2>3, <3>1 DEF CoinInv
  <2> QED
    BY <2>2, <2>3
<1>8. \A e \in Escrow : EscrowInv(e)'
  <2> SUFFICES ASSUME NEW e \in Escrow PROVE EscrowInv(e)'
    OBVIOUS
  <2>1. EscrowInv(e) /\ cur[EscrowRow(e)].serial # c
    BY <1>6 DEF IInv, TablesInv
  <2>2. cur'[EscrowRow(e)] = cur[EscrowRow(e)] /\ lock'[EscrowRow(e)] = lock[EscrowRow(e)]
    BY <1>2
  <2>3. cur[EscrowRow(e)].serial \in Coin =>
           /\ cur'[CoinRow(cur[EscrowRow(e)].serial)] = cur[CoinRow(cur[EscrowRow(e)].serial)]
           /\ lock'[CoinRow(cur[EscrowRow(e)].serial)] = lock[CoinRow(cur[EscrowRow(e)].serial)]
    BY <1>2, <2>1
  <2> QED
    BY <1>2, <2>1, <2>2, <2>3 DEF EscrowInv, RowInv
<1>9. \A e \in Escrow : \A f \in Escrow \ {e} : PairInv(e, f)'
  BY <1>2 DEF IInv, TablesInv, PairInv, Distinct
<1>10. ASSUME NEW u \in Tx PROVE RequestInv(u, job[u])'
  <2>1. CASE u = t
    <3>1. \A e \in Escrow : e \in Named(next) => Known(e)'
      BY <1>0, <1>2, <1>b DEF RequestInv, Named, Known
    <3>2. next.op \notin {"create", "confirm"}
      BY <1>a, <1>b DEF Payment
    <3>3. \A f \in Escrow : cur'[EscrowRow(f)].serial # next.coin
      BY <1>2, <1>6, <1>b
    <3>4. Funded(u, job[u])' /\ Vacant(u, job[u])' /\ job'[u] = next
      BY <1>4, <2>1, <3>2 DEF Funded, Vacant
    <3>5. Finds(u, job[u])'
      BY <1>0, <1>2, <1>4, <1>a, <2>1 DEF RequestInv, Finds, Known, Payment
    <3> QED
      BY <3>1, <3>3, <3>4, <3>5 DEF RequestInv, Named
  <2>2. CASE u # t
    <3>1. job'[u] = job[u] /\ job[u] \in AimedJob /\ RequestInv(u, job[u])
      BY <1>4, <2>2
    <3>2. job[u].op \in {"create", "confirm"} => job[u].esc \in Escrow
      BY <3>1 DEF AimedJob, Aims, Audited, Settlement
    <3>3. job[u].pc = "mark" => \A f \in Escrow : cur'[EscrowRow(f)].serial # job[u].coin
      BY <1>2, <3>1 DEF RequestInv
    <3>4. Funded(u, job[u])'
      BY <1>2, <3>1, <3>2 DEF RequestInv, Funded
    <3>5. Vacant(u, job[u])'
      <4>1. \A w \in Tx \ {u} : job'[w].op = "create" => job'[w] = job[w]
        BY <1>4, <1>a, <1>b DEF Payment
      <4> QED
        BY <1>2, <3>1, <3>2, <4>1 DEF RequestInv, Vacant, Known
    <3>6. Finds(u, job[u])'
      BY <1>2, <3>1 DEF RequestInv, Finds, Known
    <3> QED
      BY <1>2, <3>1, <3>3, <3>4, <3>5, <3>6 DEF RequestInv, Known
  <2> QED
    BY <2>1, <2>2
<1> QED
  BY <1>1, <1>4, <1>7, <1>8, <1>9, <1>10 DEF IInv, TablesInv, RequestsInv

\* UPDATE payment_escrows SET status = 'locked': the request holds the token it writes.
LEMMA MarkKeeps ==
  ASSUME IInv, NEW t \in Tx, MarkLocked(t), late' = late
  PROVE  IInv'
<1> DEFINE e == job[t].esc
           c == job[t].coin
           row == EscrowRow(e)
           v == [status |-> "locked", customer |-> job[t].user, serial |-> c]
           next == [job[t] EXCEPT !.pc = "assert"]
<1>0. job[t] \in AimedJob /\ RequestInv(t, job[t]) /\ job[t].pc = "mark"
  BY DEF IInv, RequestsInv, MarkLocked, At
<1>a. /\ job[t].op = "lock" /\ e \in Escrow /\ c \in Coin /\ job[t].user \in User
      /\ Worth[c] = Price[e]
  BY <1>0 DEF AimedJob, Aims, Holding, Audited
<1>b. next \in AimedJob /\ next.coin = c /\ next.op = "lock" /\ next.esc = e /\ next.pc = "assert"
      /\ next.row = job[t].row /\ next.overdue = job[t].overdue
      /\ DepositedTo(next) = DepositedTo(job[t])
  BY <1>0, <1>a DEF AimedJob, Aims, Job, Label, Holding, DepositedTo
<1>c. v \in EscrowValue
  BY <1>a DEF EscrowValue, Status, Open
<1>d. Update(t, row, v, next) /\ Write(t, row, v) /\ StorageTyped /\ OneVersion
  BY DEF MarkLocked, Update, IInv, TablesInv
<1>1. StorageTyped' /\ OneVersion'
  BY <1>a, <1>c, <1>d, WriteStorage, Rows
<1>2. /\ db' = db
      /\ \A d \in Coin : cur'[CoinRow(d)] = cur[CoinRow(d)] /\ lock'[CoinRow(d)] = lock[CoinRow(d)]
      /\ \A f \in Escrow \ {e} : cur'[EscrowRow(f)] = cur[EscrowRow(f)]
                                /\ lock'[EscrowRow(f)] = lock[EscrowRow(f)]
      /\ cur'[row] = v /\ lock'[row] = t /\ lock[row] \in {t, NoTx}
  BY <1>a, <1>d, WriteFacts, Rows
<1>3. job' = [job EXCEPT ![t] = next] /\ spends' = spends
  BY <1>d DEF Update, history
<1>4. job' \in [Tx -> AimedJob] /\ job'[t] = next
      /\ \A u \in Tx \ {t} : job'[u] = job[u] /\ job[u] \in AimedJob /\ RequestInv(u, job[u])
  BY <1>b, <1>3, NextRequests
<1>5. /\ lock[CoinRow(c)] = t /\ db[CoinRow(c)] = NoUser /\ cur[CoinRow(c)] = Merchant[e]
      /\ \A u \in Tx \ {t} : ~Holds(job[u], c)
  BY <1>0, <1>a DEF IInv, TablesInv, CoinInv, Holds, Holding, DepositedTo
<1>6. \A f \in Escrow : cur[EscrowRow(f)].serial # c /\ db[EscrowRow(f)].serial # c
  <2> SUFFICES ASSUME NEW f \in Escrow PROVE db[EscrowRow(f)].serial # c
    BY <1>0 DEF RequestInv
  <2>1. db[EscrowRow(f)].serial \in Coin => db[CoinRow(db[EscrowRow(f)].serial)] = Merchant[f]
    BY DEF IInv, TablesInv, EscrowInv
  <2> QED
    BY <1>a, <1>5, <2>1, MerchantAssumption, NullAssumption
<1>7. \A d \in Coin : CoinInv(d)'
  <2> SUFFICES ASSUME NEW d \in Coin PROVE CoinInv(d)'
    OBVIOUS
  <2>1. CoinInv(d)
    BY DEF IInv, TablesInv
  <2>2. Holds(next, d) <=> Holds(job[t], d)
    BY <1>0, <1>b DEF Holds, Holding
  <2> QED
    BY <1>2, <1>3, <1>4, <1>b, <2>1, <2>2 DEF CoinInv
<1>8. \A f \in Escrow : EscrowInv(f)'
  <2> SUFFICES ASSUME NEW f \in Escrow PROVE EscrowInv(f)'
    OBVIOUS
  <2>1. EscrowInv(f)
    BY DEF IInv, TablesInv
  <2>2. CASE f = e
    BY <1>2, <1>5, <1>a, <2>1, <2>2 DEF EscrowInv, RowInv
  <2>3. CASE f # e
    BY <1>2, <2>1, <2>3 DEF EscrowInv, RowInv
  <2> QED
    BY <2>2, <2>3
<1>9. \A f \in Escrow : \A g \in Escrow \ {f} : PairInv(f, g)'
  <2> SUFFICES ASSUME NEW f \in Escrow, NEW g \in Escrow \ {f} PROVE PairInv(f, g)'
    OBVIOUS
  <2>1. PairInv(f, g)
    BY DEF IInv, TablesInv
  <2> QED
    BY <1>2, <1>6, <2>1 DEF PairInv, Distinct
<1>10. ASSUME NEW u \in Tx PROVE RequestInv(u, job[u])'
  <2>1. CASE u = t
    <3>1. \A f \in Escrow : f \in Named(next) => Known(f)'
      BY <1>0, <1>2, <1>a, <1>b DEF RequestInv, Named, Known
    <3>2. Funded(u, job[u])' /\ Vacant(u, job[u])' /\ job'[u] = next
      BY <1>4, <1>b, <2>1 DEF Funded, Vacant
    <3>3. Finds(u, job[u])'
      BY <1>0, <1>2, <1>4, <1>a, <2>1 DEF RequestInv, Finds, Known, Named
    <3> QED
      BY <1>b, <3>1, <3>2, <3>3 DEF RequestInv, Named
  <2>2. CASE u # t
    <3>1. job'[u] = job[u] /\ job[u] \in AimedJob /\ RequestInv(u, job[u])
      BY <1>4, <2>2
    <3>2. job[u].op \in {"create", "confirm"} => job[u].esc \in Escrow
      BY <3>1 DEF AimedJob, Aims, Audited, Settlement
    <3>3. job[u].pc = "mark" => \A f \in Escrow : cur'[EscrowRow(f)].serial # job[u].coin
      <4>1. job[u].pc = "mark" => job[u].coin # c
        BY <1>5, <2>2 DEF Holds, Holding
      <4> QED
        BY <1>2, <3>1, <4>1 DEF RequestInv
    <3>4. Funded(u, job[u])'
      BY <1>2, <2>2, <3>1, <3>2, NoneAssumption DEF RequestInv, Funded
    <3>5. Vacant(u, job[u])'
      <4>1. \A w \in Tx \ {u} : job'[w].op = "create" => job'[w] = job[w]
        BY <1>4, <1>b
      <4>2. Known(e)
        BY <1>0, <1>a DEF RequestInv, Named
      <4> QED
        BY <1>2, <3>1, <3>2, <4>1, <4>2 DEF RequestInv, Vacant, Known
    <3>6. Finds(u, job[u])'
      BY <1>2, <2>2, <3>1 DEF RequestInv, Finds, Known
    <3> QED
      BY <1>2, <3>1, <3>3, <3>4, <3>5, <3>6 DEF RequestInv, Known
  <2> QED
    BY <2>1, <2>2
<1> QED
  BY <1>1, <1>4, <1>7, <1>8, <1>9, <1>10 DEF MarkLocked, IInv, TablesInv, RequestsInv

-----------------------------------------------------------------------------
(* The end of a transaction                                                *)

\* A connection that serves nobody holds nothing and names no escrow.
LEMMA IdleAims ==
    /\ Idle \in AimedJob
    /\ \A c \in Coin : ~Holds(Idle, c)
    /\ \A e \in Escrow : e \notin Named(Idle)
    /\ Idle.op = "none" /\ Idle.pc = "idle"
  BY NullAssumption, NoneAssumption
     DEF Idle, AimedJob, Job, Aims, Op, Label, Holds, Holding, Named, Payment, Audited, Settlement

\* What remains true of the others when t is done.
LEMMA OthersGoOn ==
  ASSUME IInv, NEW t \in Tx, job' = [job EXCEPT ![t] = Idle],
         \A e \in Escrow : Known(e) => Known(e)',
         \A e \in Escrow, u \in Tx \ {t} :
            /\ ~Known(e) /\ lock[EscrowRow(e)] = NoTx => ~Known(e)' /\ lock'[EscrowRow(e)] = NoTx
            /\ db[EscrowRow(e)].serial \in Coin => db'[EscrowRow(e)].serial \in Coin
            /\ lock'[EscrowRow(e)] = u <=> lock[EscrowRow(e)] = u
            /\ lock[EscrowRow(e)] = u => /\ lock'[EscrowRow(e)] = u
                                         /\ cur'[EscrowRow(e)] = cur[EscrowRow(e)],
         \A e \in Escrow : lock'[EscrowRow(e)] # t,
         \A e \in Escrow, u \in Tx \ {t} : job[u].pc = "mark" =>
            cur'[EscrowRow(e)].serial # job[u].coin
  PROVE  job' \in [Tx -> AimedJob] /\ \A u \in Tx : RequestInv(u, job[u])'
<1>1. job' \in [Tx -> AimedJob] /\ job'[t] = Idle
      /\ \A u \in Tx \ {t} : job'[u] = job[u] /\ job[u] \in AimedJob /\ RequestInv(u, job[u])
  BY IdleAims, NextRequests
<1>2. ASSUME NEW u \in Tx PROVE RequestInv(u, job[u])'
  <2>1. CASE u = t
    BY <1>1, <2>1, IdleAims DEF RequestInv, Funded, Vacant, Finds
  <2>2. CASE u # t
    <3>1. job'[u] = job[u] /\ job[u] \in AimedJob /\ RequestInv(u, job[u])
      BY <1>1, <2>2
    <3>2. job[u].op \in {"create", "confirm"} => job[u].esc \in Escrow
      BY <3>1 DEF AimedJob, Aims, Audited, Settlement
    <3>3. Funded(u, job[u])'
      BY <2>2, <3>1, <3>2 DEF RequestInv, Funded
    <3>4. Vacant(u, job[u])'
      <4>1. \A w \in Tx \ {u} : job'[w].op = "create" => job'[w] = job[w]
        BY <1>1, IdleAims
      <4>2. Vacant(u, job[u])
        BY <3>1 DEF RequestInv
      <4> QED
        BY <2>2, <3>1, <3>2, <4>1, <4>2 DEF Vacant
    <3>5. \A e \in Escrow : e \in Named(job[u]) => Known(e)'
      BY <3>1 DEF RequestInv
    <3>6. Finds(u, job[u])'
      BY <2>2, <3>1 DEF RequestInv, Finds
    <3> QED
      BY <2>2, <3>1, <3>3, <3>4, <3>5, <3>6 DEF RequestInv
  <2> QED
    BY <2>1, <2>2
<1> QED
  BY <1>1, <1>2

\* COMMIT publishes an escrow together with its token.
LEMMA CommitKeeps ==
  ASSUME IInv, NEW t \in Tx, CommitTx(t), late' = late
  PROVE  IInv'
<1>0. /\ StorageTyped /\ OneVersion /\ Commit(t) /\ job[t].pc = "commit"
      /\ job' = [job EXCEPT ![t] = Idle]
      /\ spends' = [c \in Coin |-> IF c = job[t].coin THEN spends[c] + 1 ELSE spends[c]]
  BY DEF IInv, TablesInv, CommitTx, At
<1>1. StorageTyped' /\ OneVersion'
  BY <1>0, EndStorage
<1>2. cur' = cur /\ \A r \in Row : /\ db'[r] = IF lock[r] = t THEN cur[r] ELSE db[r]
                                   /\ lock'[r] = IF lock[r] = t THEN NoTx ELSE lock[r]
  BY <1>0, CommitFacts
<1>3. /\ \A c \in Coin : CoinRow(c) \in Row
      /\ \A e \in Escrow : EscrowRow(e) \in Row
  BY Rows
<1>4. \A c \in Coin : CoinInv(c)'
  <2> SUFFICES ASSUME NEW c \in Coin PROVE CoinInv(c)'
    OBVIOUS
  <2>1. CoinInv(c) /\ job \in [Tx -> AimedJob]
    BY DEF IInv, TablesInv, RequestsInv
  <2>2. job'[t] = Idle /\ ~Holds(Idle, c) /\ \A u \in Tx \ {t} : job'[u] = job[u]
    BY <1>0, <2>1, IdleAims
  <2>3. CASE job[t].coin = c
    <3>1. Holds(job[t], c)
      BY <1>0, <2>3 DEF Holds, Holding
    <3>2. lock[CoinRow(c)] = t /\ db[CoinRow(c)] = NoUser /\ cur[CoinRow(c)] # NoUser
          /\ spends[c] = 0 /\ \A u \in Tx \ {t} : ~Holds(job[u], c)
      BY <2>1, <3>1, NullAssumption DEF CoinInv
    <3>3. spends'[c] = 1 /\ db'[CoinRow(c)] # NoUser /\ lock'[CoinRow(c)] = NoTx
      BY <1>0, <1>2, <1>3, <2>3, <3>2
    <3> QED
      BY <2>2, <3>2, <3>3, NoneAssumption DEF CoinInv
  <2>4. CASE job[t].coin # c
    <3>1. ~Holds(job[t], c)
      BY <2>4 DEF Holds
    <3>2. lock[CoinRow(c)] # t
      BY <2>1, <3>1 DEF CoinInv
    <3>3. spends'[c] = spends[c] /\ db'[CoinRow(c)] = db[CoinRow(c)] /\ lock'[CoinRow(c)] = lock[CoinRow(c)]
      BY <1>0, <1>2, <1>3, <2>4, <3>2
    <3> QED
      BY <1>2, <2>1, <2>2, <3>1, <3>3 DEF CoinInv
  <2> QED
    BY <2>3, <2>4
<1>5. \A e \in Escrow : EscrowInv(e)'
  <2> SUFFICES ASSUME NEW e \in Escrow PROVE EscrowInv(e)'
    OBVIOUS
  <2> DEFINE c == cur[EscrowRow(e)].serial
             d == db[EscrowRow(e)].serial
  <2>1. EscrowInv(e)
    BY DEF IInv, TablesInv
  <2>2. c \in Coin => CoinRow(c) \in Row
    BY <1>3
  <2>3. d \in Coin => db[CoinRow(d)] = Merchant[e] /\ lock[CoinRow(d)] = NoTx
    <3> SUFFICES ASSUME d \in Coin PROVE db[CoinRow(d)] = Merchant[e] /\ lock[CoinRow(d)] = NoTx
      OBVIOUS
    <3>1. db[CoinRow(d)] = Merchant[e] /\ Merchant[e] # NoUser
      BY <2>1, MerchantAssumption, NullAssumption DEF EscrowInv
    <3> QED
      BY <1>0, <3>1, SpentIsSettled DEF IInv, TablesInv
  <2>4. d \in Coin => db'[CoinRow(d)] = Merchant[e] /\ c \in Coin
    BY <1>2, <1>3, <2>1, <2>3, NoneAssumption DEF EscrowInv
  <2>5. CASE lock[EscrowRow(e)] = t
    <3>1. db'[EscrowRow(e)] = cur[EscrowRow(e)] /\ lock'[EscrowRow(e)] = NoTx
      BY <1>2, <1>3, <2>5
    <3>2. c \in Coin => db'[CoinRow(c)] = Merchant[e] /\ cur'[CoinRow(c)] = Merchant[e]
      <4> SUFFICES ASSUME c \in Coin PROVE db'[CoinRow(c)] = Merchant[e] /\ cur'[CoinRow(c)] = Merchant[e]
        OBVIOUS
      <4>1. cur[CoinRow(c)] = Merchant[e] /\ (db[CoinRow(c)] = Merchant[e] \/ lock[CoinRow(c)] = t)
        BY <2>1, <2>5 DEF EscrowInv
      <4> QED
        BY <1>2, <2>2, <4>1
    <3> QED
      BY <1>2, <2>1, <3>1, <3>2, NoneAssumption DEF EscrowInv, RowInv
  <2>6. CASE lock[EscrowRow(e)] # t
    <3>1. db'[EscrowRow(e)] = db[EscrowRow(e)] /\ lock'[EscrowRow(e)] = lock[EscrowRow(e)]
      BY <1>2, <1>3, <2>6
    <3>2. c \in Coin => \/ db'[CoinRow(c)] = Merchant[e]
                        \/ lock[EscrowRow(e)] \in Tx /\ lock'[CoinRow(c)] = lock[EscrowRow(e)]
      BY <1>2, <2>1, <2>2, <2>6 DEF EscrowInv
    <3> QED
      BY <1>2, <2>1, <2>4, <3>1, <3>2 DEF EscrowInv, RowInv
  <2> QED
    BY <2>5, <2>6
<1>6. \A e \in Escrow : \A f \in Escrow \ {e} : PairInv(e, f)'
  <2> SUFFICES ASSUME NEW e \in Escrow, NEW f \in Escrow \ {e} PROVE PairInv(e, f)'
    OBVIOUS
  <2>1. PairInv(e, f)
    BY DEF IInv, TablesInv
  <2>2. db'[EscrowRow(e)] \in {db[EscrowRow(e)], cur[EscrowRow(e)]}
        /\ db'[EscrowRow(f)] \in {db[EscrowRow(f)], cur[EscrowRow(f)]}
    BY <1>2, <1>3
  <2> QED
    BY <1>2, <2>1, <2>2 DEF PairInv, Distinct
<1>7. \A e \in Escrow : /\ Known(e) => Known(e)'
                        /\ db[EscrowRow(e)].serial \in Coin => db'[EscrowRow(e)].serial \in Coin
  <2> SUFFICES ASSUME NEW e \in Escrow
               PROVE  /\ Known(e) => Known(e)'
                      /\ db[EscrowRow(e)].serial \in Coin => db'[EscrowRow(e)].serial \in Coin
    OBVIOUS
  <2>1. EscrowInv(e)
    BY DEF IInv, TablesInv
  <2> QED
    BY <1>2, <1>3, <2>1 DEF EscrowInv, Known
<1>8. \A e \in Escrow, u \in Tx \ {t} :
         /\ ~Known(e) /\ lock[EscrowRow(e)] = NoTx => ~Known(e)' /\ lock'[EscrowRow(e)] = NoTx
         /\ lock'[EscrowRow(e)] = u <=> lock[EscrowRow(e)] = u
         /\ lock[EscrowRow(e)] = u => /\ lock'[EscrowRow(e)] = u
                                      /\ cur'[EscrowRow(e)] = cur[EscrowRow(e)]
         /\ job[u].pc = "mark" => cur'[EscrowRow(e)].serial # job[u].coin
  BY <1>2, <1>3, NoneAssumption DEF Known, IInv, RequestsInv, RequestInv
<1>9. job' \in [Tx -> AimedJob] /\ \A u \in Tx : RequestInv(u, job[u])'
  <2>1. \A e \in Escrow : lock'[EscrowRow(e)] # t
    BY <1>2, <1>3, NoneAssumption
  <2> QED
    BY <1>0, <1>7, <1>8, <2>1, OthersGoOn
<1> QED
  BY <1>1, <1>4, <1>5, <1>6, <1>9 DEF IInv, TablesInv, RequestsInv

\* ROLLBACK takes back an escrow together with its token.
LEMMA ThrowKeeps ==
  ASSUME IInv, NEW t \in Tx, Throw(t), late' = late
  PROVE  IInv'
<1>0. /\ StorageTyped /\ OneVersion /\ Rollback(t)
      /\ job' = [job EXCEPT ![t] = Idle] /\ spends' = spends
  BY DEF IInv, TablesInv, Throw, history
<1>1. StorageTyped' /\ OneVersion'
  BY <1>0, EndStorage
<1>2. db' = db /\ \A r \in Row : /\ cur'[r] = IF lock[r] = t THEN db[r] ELSE cur[r]
                                 /\ lock'[r] = IF lock[r] = t THEN NoTx ELSE lock[r]
  BY <1>0, RollbackFacts
<1>3. /\ \A c \in Coin : CoinRow(c) \in Row
      /\ \A e \in Escrow : EscrowRow(e) \in Row
  BY Rows
<1>4. \A c \in Coin : CoinInv(c)'
  <2> SUFFICES ASSUME NEW c \in Coin PROVE CoinInv(c)'
    OBVIOUS
  <2>1. CoinInv(c) /\ job \in [Tx -> AimedJob]
    BY DEF IInv, TablesInv, RequestsInv
  <2>2. job'[t] = Idle /\ ~Holds(Idle, c) /\ \A u \in Tx \ {t} : job'[u] = job[u]
    BY <1>0, <2>1, IdleAims
  <2>3. CASE lock[CoinRow(c)] = t
    <3>1. db[CoinRow(c)] = NoUser /\ lock'[CoinRow(c)] = NoTx /\ \A u \in Tx \ {t} : ~Holds(job[u], c)
      BY <1>2, <1>3, <2>1, <2>3 DEF CoinInv
    <3> QED
      BY <1>0, <1>2, <2>1, <2>2, <3>1, NoneAssumption DEF CoinInv
  <2>4. CASE lock[CoinRow(c)] # t
    <3>1. cur'[CoinRow(c)] = cur[CoinRow(c)] /\ lock'[CoinRow(c)] = lock[CoinRow(c)]
          /\ ~Holds(job[t], c)
      BY <1>2, <1>3, <2>1, <2>4 DEF CoinInv
    <3> QED
      BY <1>0, <1>2, <2>1, <2>2, <3>1 DEF CoinInv
  <2> QED
    BY <2>3, <2>4
<1>5. \A e \in Escrow : EscrowInv(e)'
  <2> SUFFICES ASSUME NEW e \in Escrow PROVE EscrowInv(e)'
    OBVIOUS
  <2> DEFINE c == cur[EscrowRow(e)].serial
             d == db[EscrowRow(e)].serial
  <2>1. EscrowInv(e)
    BY DEF IInv, TablesInv
  <2>2. d \in Coin => db[CoinRow(d)] = Merchant[e] /\ cur[CoinRow(d)] = Merchant[e]
                      /\ lock[CoinRow(d)] = NoTx
    <3> SUFFICES ASSUME d \in Coin
                 PROVE  db[CoinRow(d)] = Merchant[e] /\ cur[CoinRow(d)] = Merchant[e]
                        /\ lock[CoinRow(d)] = NoTx
      OBVIOUS
    <3>1. db[CoinRow(d)] = Merchant[e] /\ Merchant[e] # NoUser
      BY <2>1, MerchantAssumption, NullAssumption DEF EscrowInv
    <3> QED
      BY <1>0, <3>1, SpentIsSettled DEF IInv, TablesInv
  <2>3. d \in Coin => cur'[CoinRow(d)] = Merchant[e]
    BY <1>2, <1>3, <2>2, NoneAssumption
  <2>4. CASE lock[EscrowRow(e)] = t
    <3>1. cur'[EscrowRow(e)] = db[EscrowRow(e)] /\ lock'[EscrowRow(e)] = NoTx
      BY <1>2, <1>3, <2>4
    <3> QED
      BY <1>2, <2>1, <2>2, <2>3, <3>1, NoneAssumption DEF EscrowInv, RowInv
  <2>5. CASE lock[EscrowRow(e)] # t
    <3>1. cur'[EscrowRow(e)] = cur[EscrowRow(e)] /\ lock'[EscrowRow(e)] = lock[EscrowRow(e)]
      BY <1>2, <1>3, <2>5
    <3>2. c \in Coin => /\ cur'[CoinRow(c)] = Merchant[e]
                        /\ \/ db[CoinRow(c)] = Merchant[e]
                           \/ lock[EscrowRow(e)] \in Tx /\ lock'[CoinRow(c)] = lock[EscrowRow(e)]
      BY <1>2, <1>3, <2>1, <2>5 DEF EscrowInv
    <3> QED
      BY <1>2, <2>1, <3>1, <3>2 DEF EscrowInv, RowInv
  <2> QED
    BY <2>4, <2>5
<1>6. \A e \in Escrow : \A f \in Escrow \ {e} : PairInv(e, f)'
  <2> SUFFICES ASSUME NEW e \in Escrow, NEW f \in Escrow \ {e} PROVE PairInv(e, f)'
    OBVIOUS
  <2>1. PairInv(e, f)
    BY DEF IInv, TablesInv
  <2>2. cur'[EscrowRow(e)] \in {db[EscrowRow(e)], cur[EscrowRow(e)]}
        /\ cur'[EscrowRow(f)] \in {db[EscrowRow(f)], cur[EscrowRow(f)]}
    BY <1>2, <1>3
  <2> QED
    BY <1>2, <2>1, <2>2 DEF PairInv, Distinct
<1>7. \A e \in Escrow, u \in Tx \ {t} :
         /\ lock[EscrowRow(e)] = NoTx => lock'[EscrowRow(e)] = NoTx
         /\ lock'[EscrowRow(e)] = u <=> lock[EscrowRow(e)] = u
         /\ lock[EscrowRow(e)] = u => /\ lock'[EscrowRow(e)] = u
                                      /\ cur'[EscrowRow(e)] = cur[EscrowRow(e)]
  BY <1>2, <1>3, NoneAssumption
<1>8. ASSUME NEW e \in Escrow, NEW u \in Tx \ {t}, job[u].pc = "mark"
      PROVE  cur'[EscrowRow(e)].serial # job[u].coin
  <2>1. cur[EscrowRow(e)].serial # job[u].coin
    BY <1>8 DEF IInv, RequestsInv, RequestInv
  <2>2. job[u].coin \in Coin /\ Holds(job[u], job[u].coin)
    BY <1>8 DEF IInv, RequestsInv, AimedJob, Aims, Holds, Holding
  <2>3. db[CoinRow(job[u].coin)] = NoUser
    BY <2>2 DEF IInv, TablesInv, CoinInv
  <2>4. db[EscrowRow(e)].serial \in Coin => db[CoinRow(db[EscrowRow(e)].serial)] = Merchant[e]
    BY DEF IInv, TablesInv, EscrowInv
  <2>5. db[EscrowRow(e)].serial # job[u].coin
    BY <2>2, <2>3, <2>4, MerchantAssumption, NullAssumption
  <2> QED
    BY <1>2, <1>3, <2>1, <2>5
<1>9. job' \in [Tx -> AimedJob] /\ \A u \in Tx : RequestInv(u, job[u])'
  <2>1. \A e \in Escrow : Known(e) <=> Known(e)'
    BY <1>2 DEF Known
  <2>2. \A e \in Escrow : lock'[EscrowRow(e)] # t
    BY <1>2, <1>3, NoneAssumption
  <2> QED
    BY <1>0, <1>2, <1>7, <1>8, <2>1, <2>2, OthersGoOn
<1> QED
  BY <1>1, <1>4, <1>5, <1>6, <1>9 DEF IInv, TablesInv, RequestsInv

\* The process dies: only what was committed is left, and no request.
LEMMA CrashKeeps ==
  ASSUME IInv, Crash
  PROVE  IInv'
<1>1. /\ db' = db /\ cur' = db /\ lock' = [r \in Row |-> NoTx] /\ late' = late
      /\ job' = [t \in Tx |-> Idle] /\ spends' = spends
  BY DEF Crash, RollbackAll
<1>2. StorageTyped' /\ OneVersion'
  BY <1>1 DEF IInv, TablesInv, StorageTyped, OneVersion
<1>3. \A c \in Coin : CoinInv(c)'
  BY <1>1, Rows, IdleAims, NoneAssumption DEF IInv, TablesInv, CoinInv
<1>4. \A e \in Escrow : EscrowInv(e)'
  BY <1>1, Rows, NoneAssumption DEF IInv, TablesInv, EscrowInv, RowInv
<1>5. \A e \in Escrow : \A f \in Escrow \ {e} : PairInv(e, f)'
  BY <1>1 DEF IInv, TablesInv, PairInv, Distinct
<1>6. \A t \in Tx : RequestInv(t, job[t])'
  BY <1>1, Rows, IdleAims, NoneAssumption DEF RequestInv, Funded, Vacant, Finds
<1> QED
  BY <1>1, <1>2, <1>3, <1>4, <1>5, <1>6, IdleAims DEF IInv, TablesInv, RequestsInv

-----------------------------------------------------------------------------
(* Handlers                                                                *)

\* A request that goes on to its next statement.
LEMMA GoesOn ==
  ASSUME IInv, NEW t \in Tx, NEW next \in AimedJob,
         next.op = job[t].op, next.esc = job[t].esc, next.coin = job[t].coin, next.user = job[t].user,
         next.coin \in Coin => (next.pc \in Holding <=> job[t].pc \in Holding),
         next.pc \notin {"mark", "insert"},
         \A e \in Escrow : e \in Named(next) => Known(e),
         Funded(t, next)
  PROVE  Follows(t, next)
<1>1. RequestInv(t, job[t])
  BY DEF IInv, RequestsInv
<1>2. \A c \in Coin : Holds(next, c) <=> Holds(job[t], c)
  BY DEF Holds
<1>3. DepositedTo(next) = DepositedTo(job[t])
  BY DEF DepositedTo
<1>4. RequestInv(t, next)
  BY <1>1 DEF RequestInv, Vacant, Finds
<1> QED
  BY <1>2, <1>3, <1>4 DEF Follows

\* What the version a request reads of an escrow says.
LEMMA ReadsRow ==
  ASSUME IInv, NEW t \in Tx, NEW e \in Escrow
  PROVE  /\ Read(t, EscrowRow(e)) \in EscrowValue
         /\ RowInv(Read(t, EscrowRow(e)), e)
         /\ View(t)[EscrowRow(e)] = Read(t, EscrowRow(e))
         /\ Read(t, EscrowRow(e)).status # "none" /\ job[t].op # "create" => Known(e)
<1>1. EscrowRow(e) \in Row /\ EscrowInv(e) /\ StorageTyped /\ RequestInv(t, job[t])
  BY Rows DEF IInv, TablesInv, RequestsInv
<1>2. Read(t, EscrowRow(e)) \in {db[EscrowRow(e)], cur[EscrowRow(e)]}
  BY DEF Read
<1>3. RowInv(Read(t, EscrowRow(e)), e) /\ Read(t, EscrowRow(e)) \in EscrowValue
  BY <1>1, <1>2 DEF EscrowInv, StorageTyped
<1>4. Read(t, EscrowRow(e)).status # "none" /\ job[t].op # "create" => Known(e)
  BY <1>1 DEF Read, RequestInv, Finds, Known
<1> QED
  BY <1>1, <1>3, <1>4 DEF View

\* A handler that is done with the cleanup.
LEMMA CleanupEnds ==
  ASSUME IInv, NEW t \in Tx, job[t].pc \in {"cleanup", "burnLate"}
  PROVE  AfterCleanup(job[t]) \in AimedJob /\ Follows(t, AfterCleanup(job[t]))
<1> DEFINE next == AfterCleanup(job[t])
<1>1. job[t] \in AimedJob /\ RequestInv(t, job[t])
  BY DEF IInv, RequestsInv
<1>2. job[t].op \in Audited \cup {"details"} /\ (job[t].op = "details" => job[t].coin = NoCoin)
  BY <1>1 DEF AimedJob, Aims
<1>3. /\ next \in Job /\ next.op = job[t].op /\ next.esc = job[t].esc /\ next.coin = job[t].coin
      /\ next.user = job[t].user /\ next.overdue = job[t].overdue /\ next.row = NoEscrow
      /\ next.pc = IF job[t].op = "details" THEN "commit" ELSE "select"
  <2> DEFINE label == IF job[t].op = "details" THEN "commit" ELSE "select"
  <2>1. job[t] \in Job /\ label \in Label
    BY <1>1 DEF AimedJob, Label
  <2>2. next = [job[t] EXCEPT !.row = NoEscrow, !.pc = label]
    BY DEF AfterCleanup
  <2> HIDE DEF label
  <2>3. /\ next \in Job /\ next.op = job[t].op /\ next.esc = job[t].esc /\ next.coin = job[t].coin
        /\ next.user = job[t].user /\ next.overdue = job[t].overdue /\ next.row = NoEscrow
        /\ next.pc = label
    BY <2>1, <2>2 DEF Job
  <2> QED
    BY <2>3 DEF label
<1>4. next \in AimedJob
  BY <1>1, <1>2, <1>3 DEF AimedJob, Aims, Holding, Audited, Settlement, Payment
<1>5. \A e \in Escrow : e \in Named(next) => Known(e)
  BY <1>1, <1>3, NoneAssumption DEF RequestInv, Named
<1>6. next.coin \in Coin => (next.pc \in Holding <=> job[t].pc \in Holding)
  BY <1>2, <1>3, NullAssumption DEF Holding
<1>7. Funded(t, next)
  BY <1>3 DEF Funded
<1> QED
  BY <1>3, <1>4, <1>5, <1>6, <1>7, GoesOn

\* The statements of lazyCleanupExpiredEscrows.
LEMMA CleanupKeeps ==
  ASSUME IInv, NEW t \in Tx, late' = late,
         CleanCreated(t) \/ CleanSelect(t) \/ RefundLate(t) \/ ExpireLate(t) \/ BurnLate(t)
  PROVE  IInv'
<1>1. job[t] \in AimedJob /\ RequestInv(t, job[t]) /\ job \in [Tx -> AimedJob]
  BY DEF IInv, RequestsInv
<1>2. job[t].pc \in {"cleanup", "refundLate", "expireLate", "burnLate"}
      /\ job[t].op \in Audited \cup {"details"}
  BY <1>1 DEF CleanCreated, CleanSelect, RefundLate, ExpireLate, BurnLate, At, AimedJob, Aims
<1>3. job[t].op # "create" /\ job[t].late \subseteq Escrow /\ job[t].overdue \subseteq Escrow \X User
  BY <1>1, <1>2 DEF Audited, Settlement, AimedJob, Job
<1>4. CASE CleanCreated(t)
  <2>1. PICK e \in Lapsed(t, "created") :
           Update(t, EscrowRow(e), [cur[EscrowRow(e)] EXCEPT !.status = "expired"], job[t])
    BY <1>4 DEF CleanCreated
  <2>2. e \in Escrow /\ Known(e)
    BY <1>3, <2>1, ReadsRow DEF Lapsed
  <2>3. Follows(t, job[t])
    BY <1>1 DEF Follows
  <2>4. [cur[EscrowRow(e)] EXCEPT !.status = "expired"] \in EscrowValue
    BY <2>2 DEF IInv, TablesInv, StorageTyped, EscrowValue, Status
  <2>5. [cur[EscrowRow(e)] EXCEPT !.status = "expired"].status = "expired"
        /\ [cur[EscrowRow(e)] EXCEPT !.status = "expired"].serial = cur[EscrowRow(e)].serial
    BY <2>2 DEF IInv, TablesInv, StorageTyped, EscrowValue
  <2> QED
    BY <1>1, <1>3, <2>1, <2>2, <2>3, <2>4, <2>5, EndEscrowKeeps
<1>5. CASE CleanSelect(t)
  <2> DEFINE rows == {<<e, View(t)[EscrowRow(e)].customer>> : e \in Lapsed(t, "locked")}
             next == [job[t] EXCEPT !.pc = "refundLate", !.overdue = rows]
  <2>1. CASE Select(t, AfterCleanup(job[t]))
    BY <1>5, <2>1, CleanupEnds, SelectKeeps DEF CleanSelect, At, Select, history
  <2>2. CASE Select(t, next)
    <3>1. \A x \in rows : x \in Escrow \X User /\ Known(x[1])
      BY <1>3, ReadsRow DEF Lapsed, RowInv
    <3>2. /\ next \in Job /\ next.op = job[t].op /\ next.esc = job[t].esc /\ next.coin = job[t].coin
          /\ next.user = job[t].user /\ next.overdue = rows /\ next.row = job[t].row
          /\ next.pc = "refundLate"
      BY <1>1, <3>1 DEF AimedJob, Job, Label
    <3>3. next \in AimedJob
      BY <1>1, <1>2, <3>2 DEF AimedJob, Aims, Holding
    <3>4. \A e \in Escrow : e \in Named(next) => Known(e)
      BY <1>1, <3>1, <3>2 DEF RequestInv, Named
    <3>5. job[t].pc \notin Holding /\ next.pc \notin Holding /\ Funded(t, next)
      BY <1>2, <3>2 DEF Holding, Funded
    <3>6. Follows(t, next)
      BY <3>2, <3>3, <3>4, <3>5, GoesOn
    <3> QED
      BY <2>2, <3>3, <3>6, SelectKeeps DEF Select, history
  <2> QED
    BY <1>5, <2>1, <2>2 DEF CleanSelect
<1>6. CASE RefundLate(t)
  <2>1. PICK x \in job[t].overdue :
           Update(t, UserRow(x[2]), Grow(cur[UserRow(x[2])], Price[x[1]]),
                  [job[t] EXCEPT !.pc = "expireLate", !.row = x[1], !.overdue = @ \ {x}])
    BY <1>6 DEF RefundLate
  <2> DEFINE next == [job[t] EXCEPT !.pc = "expireLate", !.row = x[1], !.overdue = @ \ {x}]
  <2>2. /\ next \in Job /\ next.op = job[t].op /\ next.esc = job[t].esc /\ next.coin = job[t].coin
        /\ next.user = job[t].user /\ next.overdue = job[t].overdue \ {x} /\ next.row = x[1]
        /\ next.pc = "expireLate" /\ x[1] \in Escrow
    BY <1>1, <1>3, <2>1 DEF AimedJob, Job, Label
  <2>3. next \in AimedJob
    BY <1>1, <1>2, <2>2 DEF AimedJob, Aims, Holding
  <2>4. \A e \in Escrow : e \in Named(next) => Known(e)
    BY <1>1, <2>1, <2>2 DEF RequestInv, Named
  <2>5. job[t].pc \notin Holding /\ next.pc \notin Holding /\ Funded(t, next)
    BY <1>2, <2>2 DEF Holding, Funded
  <2>6. Follows(t, next)
    BY <2>2, <2>3, <2>4, <2>5, GoesOn
  <2> QED
    BY <2>1, <2>3, <2>6, Accounts, ElsewhereKeeps
<1>7. CASE ExpireLate(t)
  <2> DEFINE e == job[t].row
             v == [cur[EscrowRow(e)] EXCEPT !.status = "expired"]
             next == [job[t] EXCEPT !.pc = "burnLate"]
  <2>1. e \in Escrow /\ Known(e)
    BY <1>1, <1>7 DEF ExpireLate, At, AimedJob, Aims, RequestInv, Named
  <2>2. /\ next \in Job /\ next.op = job[t].op /\ next.esc = job[t].esc /\ next.coin = job[t].coin
        /\ next.user = job[t].user /\ next.overdue = job[t].overdue /\ next.row = job[t].row
        /\ next.pc = "burnLate"
    BY <1>1 DEF AimedJob, Job, Label
  <2>3. next \in AimedJob
    BY <1>1, <1>2, <2>2 DEF AimedJob, Aims, Holding
  <2>4. \A f \in Escrow : f \in Named(next) => Known(f)
    BY <1>1, <2>2 DEF RequestInv, Named
  <2>5. job[t].pc \notin Holding /\ next.pc \notin Holding /\ Funded(t, next)
    BY <1>2, <2>2 DEF Holding, Funded
  <2>6. Follows(t, next)
    BY <2>2, <2>3, <2>4, <2>5, GoesOn
  <2>7. v \in EscrowValue /\ v.status = "expired" /\ v.serial = cur[EscrowRow(e)].serial
    BY <2>1 DEF IInv, TablesInv, StorageTyped, EscrowValue, Status
  <2>8. Update(t, EscrowRow(e), v, next)
    BY <1>7 DEF ExpireLate
  <2> QED
    BY <1>3, <2>1, <2>2, <2>3, <2>6, <2>7, <2>8, EndEscrowKeeps
<1>8. CASE BurnLate(t)
  <2> DEFINE more == [job[t] EXCEPT !.pc = "refundLate"]
             v == Burn(cur[ReserveRow], Price[job[t].row])
  <2>1. CASE Update(t, ReserveRow, v, AfterCleanup(job[t]))
    BY <1>8, <2>1, Rows, CleanupEnds, ElsewhereKeeps DEF BurnLate, At
  <2>2. CASE Update(t, ReserveRow, v, more)
    <3>1. /\ more \in Job /\ more.op = job[t].op /\ more.esc = job[t].esc /\ more.coin = job[t].coin
          /\ more.user = job[t].user /\ more.overdue = job[t].overdue /\ more.row = job[t].row
          /\ more.pc = "refundLate"
      BY <1>1 DEF AimedJob, Job, Label
    <3>2. more \in AimedJob
      BY <1>1, <1>2, <3>1 DEF AimedJob, Aims, Holding
    <3>3. \A e \in Escrow : e \in Named(more) => Known(e)
      BY <1>1, <3>1 DEF RequestInv, Named
    <3>4. job[t].pc \notin Holding /\ more.pc \notin Holding /\ Funded(t, more)
      BY <1>2, <3>1 DEF Holding, Funded
    <3>5. Follows(t, more)
      BY <3>1, <3>2, <3>3, <3>4, GoesOn
    <3> QED
      BY <2>2, <3>2, <3>5, Rows, ElsewhereKeeps
  <2> QED
    BY <1>8, <2>1, <2>2 DEF BurnLate
<1> QED
  BY <1>4, <1>5, <1>6, <1>7, <1>8

\* The SELECTs of lockToken and of the payments.
LEMMA LockKeeps ==
  ASSUME IInv, NEW t \in Tx, late' = late, LockSelect(t) \/ SelectCoin(t)
  PROVE  IInv'
<1>1. job[t] \in AimedJob /\ RequestInv(t, job[t])
  BY DEF IInv, RequestsInv
<1>2. CASE Throw(t)
  BY <1>2, ThrowKeeps
<1>3. ASSUME NEW label \in {"coin", "spend"}, Select(t, [job[t] EXCEPT !.pc = label]),
             job[t].pc \in {"select", "coin"}, job[t].op \in Payment \cup {"lock"},
             job[t].op = "lock" => Worth[job[t].coin] = Price[job[t].esc]
      PROVE  IInv'
  <2> DEFINE next == [job[t] EXCEPT !.pc = label]
  <2>1. /\ next \in Job /\ next.op = job[t].op /\ next.esc = job[t].esc /\ next.coin = job[t].coin
        /\ next.user = job[t].user /\ next.overdue = job[t].overdue /\ next.row = job[t].row
        /\ next.pc = label
    BY <1>1 DEF AimedJob, Job, Label
  <2>2. next \in AimedJob
    BY <1>1, <1>3, <2>1 DEF AimedJob, Aims, Holding
  <2>3. \A e \in Escrow : e \in Named(next) => Known(e)
    BY <1>1, <2>1 DEF RequestInv, Named
  <2>4. job[t].pc \notin Holding /\ next.pc \notin Holding /\ Funded(t, next)
    BY <1>3, <2>1 DEF Holding, Funded, Payment
  <2>5. Follows(t, next)
    BY <2>1, <2>2, <2>3, <2>4, GoesOn
  <2> QED
    BY <1>3, <2>2, <2>5, SelectKeeps DEF Select, history
<1>4. CASE LockSelect(t) /\ ~Throw(t)
  BY <1>3, <1>4 DEF LockSelect, At
<1>5. CASE SelectCoin(t) /\ ~Throw(t)
  <2>1. job[t].pc = "coin" /\ job[t].op \in Payment \cup {"lock"}
        /\ (job[t].op = "lock" => Worth[job[t].coin] = Price[job[t].esc])
    BY <1>1, <1>5 DEF SelectCoin, At, AimedJob, Aims
  <2> QED
    BY <1>3, <1>5, <2>1 DEF SelectCoin
<1> QED
  BY <1>2, <1>4, <1>5

\* A request past its checks that goes on to statement label, or ends.
LEMMA Proceeds ==
  ASSUME IInv, NEW t \in Tx, NEW next \in Job, NEW label,
         next.op = job[t].op, next.esc = job[t].esc, next.coin = job[t].coin, next.user = job[t].user,
         next.overdue = job[t].overdue, next.row = job[t].row,
         next.pc = label, label \in {"credit", "book", "close", "assert", "audit", "commit"},
         label = "close" => job[t].op \in Settlement,
         job[t].pc \in Holding \/ job[t].op \in Settlement,
         Funded(t, next)
  PROVE  next \in AimedJob /\ Follows(t, next)
<1>1. job[t] \in AimedJob /\ RequestInv(t, job[t])
  BY DEF IInv, RequestsInv
<1>2. next \in AimedJob
  BY <1>1 DEF AimedJob, Aims, Holding, Settlement
<1>3. \A e \in Escrow : e \in Named(next) => Known(e)
  BY <1>1 DEF RequestInv, Named
<1>4. next.coin \in Coin => (next.pc \in Holding <=> job[t].pc \in Holding)
  BY <1>1, NullAssumption DEF AimedJob, Aims, Holding
<1> QED
  BY <1>2, <1>3, <1>4, GoesOn

\* The statements of confirmEscrow and cancelEscrow, and those the payments share with them.
LEMMA SettleKeeps ==
  ASSUME IInv, NEW t \in Tx, late' = late,
         ConfirmSelect(t) \/ CancelSelect(t) \/ Credit(t) \/ Book(t) \/ Close(t)
  PROVE  IInv'
<1>1. job[t] \in AimedJob /\ RequestInv(t, job[t]) /\ job[t] \in Job
  BY DEF IInv, RequestsInv, AimedJob
<1>2. CASE Throw(t)
  BY <1>2, ThrowKeeps
<1>3. CASE ConfirmSelect(t) /\ ~Throw(t)
  <2> DEFINE e == job[t].esc
             next == [job[t] EXCEPT !.pc = "credit", !.payee = Merchant[e]]
  <2>1. job[t].op = "confirm" /\ e \in Escrow /\ Selected(t).status = "locked" /\ Select(t, next)
    BY <1>1, <1>3 DEF ConfirmSelect, AimedJob, Aims, Audited, Settlement
  <2>2. /\ next \in Job /\ next.op = "confirm" /\ next.esc = e /\ next.coin = job[t].coin
        /\ next.user = job[t].user /\ next.overdue = job[t].overdue /\ next.row = job[t].row
        /\ next.pc = "credit"
    BY <1>1, <2>1, MerchantAssumption DEF Job, Label
  <2>3. Funded(t, next)
    BY <2>1, <2>2, ReadsRow DEF Funded, Selected, RowInv, Read
  <2>4. next \in AimedJob /\ Follows(t, next)
    BY <2>1, <2>2, <2>3, Proceeds DEF Settlement
  <2> QED
    BY <2>1, <2>4, SelectKeeps DEF Select, history
<1>4. CASE CancelSelect(t) /\ ~Throw(t)
  <2> DEFINE close == [job[t] EXCEPT !.pc = "close"]
             credit == [job[t] EXCEPT !.pc = "credit", !.payee = Selected(t).customer]
  <2>1. job[t].op = "cancel" /\ job[t].esc \in Escrow
    BY <1>1, <1>4 DEF CancelSelect, AimedJob, Aims, Audited, Settlement
  <2>2. CASE Select(t, close)
    <3>1. /\ close \in Job /\ close.op = "cancel" /\ close.esc = job[t].esc /\ close.coin = job[t].coin
          /\ close.user = job[t].user /\ close.overdue = job[t].overdue /\ close.row = job[t].row
          /\ close.pc = "close"
      BY <1>1, <2>1 DEF Job, Label
    <3>2. close \in AimedJob /\ Follows(t, close)
      BY <2>1, <3>1, Proceeds DEF Settlement, Funded
    <3> QED
      BY <2>2, <3>2, SelectKeeps DEF Select, history
  <2>3. CASE Select(t, credit)
    <3>1. Selected(t).customer \in User \cup {NoUser}
      BY <2>1, ReadsRow DEF Selected, EscrowValue
    <3>2. /\ credit \in Job /\ credit.op = "cancel" /\ credit.esc = job[t].esc
          /\ credit.coin = job[t].coin /\ credit.user = job[t].user
          /\ credit.overdue = job[t].overdue /\ credit.row = job[t].row /\ credit.pc = "credit"
      BY <1>1, <2>1, <3>1 DEF Job, Label
    <3>3. credit \in AimedJob /\ Follows(t, credit)
      BY <2>1, <3>2, Proceeds DEF Settlement, Funded
    <3> QED
      BY <2>3, <3>3, SelectKeeps DEF Select, history
  <2> QED
    BY <1>4, <2>2, <2>3 DEF CancelSelect
<1>5. CASE Credit(t)
  <2> DEFINE next == [job[t] EXCEPT !.pc = "book"]
             row == UserRow(job[t].payee)
  <2>1. /\ next \in Job /\ next.op = job[t].op /\ next.esc = job[t].esc /\ next.coin = job[t].coin
        /\ next.user = job[t].user /\ next.overdue = job[t].overdue /\ next.row = job[t].row
        /\ next.pc = "book"
    BY <1>1 DEF Job, Label
  <2>2. job[t].pc = "credit" /\ Update(t, row, Credited(cur[row], job[t]), next)
    BY <1>5 DEF Credit, At
  <2>3. Funded(t, next)
    BY <1>1, <2>1, <2>2 DEF RequestInv, Funded
  <2>4. next \in AimedJob /\ Follows(t, next)
    BY <2>1, <2>2, <2>3, Proceeds DEF Holding
  <2> QED
    BY <2>2, <2>4, Accounts, ElsewhereKeeps
<1>6. CASE Book(t)
  <2> DEFINE label == IF job[t].op \in Settlement THEN "close" ELSE "assert"
             next == [job[t] EXCEPT !.pc = label]
  <2>1. /\ next \in Job /\ next.op = job[t].op /\ next.esc = job[t].esc /\ next.coin = job[t].coin
        /\ next.user = job[t].user /\ next.overdue = job[t].overdue /\ next.row = job[t].row
        /\ next.pc = label
    BY <1>1 DEF Job, Label
  <2>2. job[t].pc = "book" /\ Update(t, ReserveRow, Booked(cur[ReserveRow], job[t]), next)
    BY <1>6 DEF Book, At
  <2>3. Funded(t, next)
    BY <1>1, <2>1, <2>2 DEF RequestInv, Funded
  <2>4. next \in AimedJob /\ Follows(t, next)
    BY <2>1, <2>2, <2>3, Proceeds DEF Holding
  <2> QED
    BY <2>2, <2>4, Rows, ElsewhereKeeps
<1>7. CASE Close(t)
  <2> DEFINE e == job[t].esc
             row == EscrowRow(e)
             v == [cur[row] EXCEPT !.status = IF job[t].op = "confirm" THEN "committed" ELSE "cancelled"]
             next == [job[t] EXCEPT !.pc = "assert"]
  <2>1. job[t].pc = "close" /\ Update(t, row, v, next)
    BY <1>7 DEF Close, At
  <2>2. job[t].op \in Settlement /\ e \in Escrow
    BY <1>1, <2>1 DEF AimedJob, Aims, Audited
  <2>3. /\ next \in Job /\ next.op = job[t].op /\ next.esc = e /\ next.coin = job[t].coin
        /\ next.user = job[t].user /\ next.overdue = job[t].overdue /\ next.row = job[t].row
        /\ next.pc = "assert"
    BY <1>1 DEF Job, Label
  <2>4. next \in AimedJob /\ Follows(t, next)
    BY <2>2, <2>3, Proceeds DEF Funded
  <2>5. Known(e)
    BY <1>1, <2>2 DEF RequestInv, Named, Settlement
  <2>6. job[t].op = "confirm" => cur[row].serial \in Coin
    BY <1>1, <2>1, <2>2 DEF RequestInv, Funded, IInv, TablesInv, EscrowInv
  <2>7. v \in EscrowValue /\ v.status \in {"committed", "cancelled"} /\ v.serial = cur[row].serial
        /\ (v.status = "committed" => job[t].op = "confirm")
    BY <2>2 DEF IInv, TablesInv, StorageTyped, EscrowValue, Status
  <2>8. next.op # "create"
    BY <2>2, <2>3 DEF Settlement
  <2> QED
    BY <2>1, <2>2, <2>4, <2>5, <2>6, <2>7, <2>8, EndEscrowKeeps
<1> QED
  BY <1>2, <1>3, <1>4, <1>5, <1>6, <1>7

\* The last statements of a transaction.
LEMMA EndKeeps ==
  ASSUME IInv, NEW t \in Tx, late' = late,
         AssertBooks(t) \/ AuditOutside(t) \/ PoolTimeout(t) \/ CommitTx(t) \/ DeadlockVictim(t)
  PROVE  IInv'
<1>1. job[t] \in AimedJob /\ RequestInv(t, job[t]) /\ job[t] \in Job
  BY DEF IInv, RequestsInv, AimedJob
<1>2. CASE Throw(t)
  BY <1>2, ThrowKeeps
<1>3. ASSUME NEW label \in {"audit", "commit"}, job[t].pc \in {"assert", "audit"},
             job' = [job EXCEPT ![t] = [job[t] EXCEPT !.pc = label]], UNCHANGED <<storage, spends>>
      PROVE  IInv'
  <2> DEFINE next == [job[t] EXCEPT !.pc = label]
  <2>1. /\ next \in Job /\ next.op = job[t].op /\ next.esc = job[t].esc /\ next.coin = job[t].coin
        /\ next.user = job[t].user /\ next.overdue = job[t].overdue /\ next.row = job[t].row
        /\ next.pc = label
    BY <1>1 DEF Job, Label
  <2>2. next \in AimedJob /\ Follows(t, next)
    BY <1>3, <2>1, Proceeds DEF Funded, Holding
  <2> QED
    BY <1>3, <2>2, SelectKeeps
<1>4. CASE AssertBooks(t) /\ ~Throw(t)
  <2> DEFINE label == IF LogsOutside(job[t]) THEN "audit" ELSE "commit"
  <2>1. job[t].pc = "assert" /\ Select(t, [job[t] EXCEPT !.pc = label]) /\ label \in {"audit", "commit"}
    BY <1>4 DEF AssertBooks, At
  <2> QED
    BY <1>3, <2>1 DEF Select, history
<1>5. CASE AuditOutside(t)
  <2>1. job[t].pc = "audit" /\ job' = [job EXCEPT ![t] = [job[t] EXCEPT !.pc = "commit"]]
        /\ UNCHANGED <<storage, spends>>
    BY <1>5 DEF AuditOutside, At
  <2> QED
    BY <1>3, <2>1
<1>6. CASE CommitTx(t)
  BY <1>6, CommitKeeps
<1> QED
  BY <1>2, <1>4, <1>5, <1>6 DEF PoolTimeout, DeadlockVictim

\* A request arrives.
LEMMA BeginKeeps ==
  ASSUME IInv, NEW t \in Tx, Begin(t), late' = late
  PROVE  IInv'
<1>1. job[t] \in AimedJob /\ late \subseteq Escrow
  BY DEF IInv, RequestsInv
<1>2. ASSUME NEW request \in Job, request.row = NoEscrow, request.overdue = {},
             request.op # "create" => /\ request.pc \in {"cleanup", "coin", "credit"}
                                      /\ request.pc = "credit" => request.op = "deposit"
                                      /\ \A e \in Escrow : e = request.esc => Known(e),
             request.op = "create" => request.pc = "insert",
             Vacant(t, request), Aims(request), Start(t, request)
      PROVE  IInv'
  <2> DEFINE next == [request EXCEPT !.late = late]
  <2>1. /\ next \in Job /\ next.op = request.op /\ next.esc = request.esc /\ next.coin = request.coin
        /\ next.user = request.user /\ next.overdue = {} /\ next.row = NoEscrow
        /\ next.pc = request.pc
    BY <1>1, <1>2 DEF Job
  <2>2. next \in AimedJob
    BY <1>2, <2>1 DEF AimedJob, Aims
  <2>3. job[t].pc = "idle" /\ job' = [job EXCEPT ![t] = next] /\ UNCHANGED <<storage, spends>>
    BY <1>2 DEF Start, At, history
  <2>4. \A c \in Coin : ~Holds(next, c) /\ ~Holds(job[t], c)
    BY <1>2, <2>1, <2>2, <2>3, NullAssumption DEF Holds, Holding, AimedJob, Aims
  <2>5. \A e \in Escrow : e \in Named(next) => Known(e)
    BY <1>2, <2>1, NoneAssumption DEF Named
  <2>6. next.pc # "mark" /\ Funded(t, next)
    BY <1>2, <2>1 DEF Funded
  <2>7. Vacant(t, next)
    BY <1>2, <2>1 DEF Vacant
  <2>8. Finds(t, next)
    <3>1. job[t].op # "create"
      BY <1>1, <2>3 DEF AimedJob, Aims
    <3> QED
      BY <3>1 DEF IInv, RequestsInv, RequestInv, Finds
  <2>9. Follows(t, next)
    BY <2>4, <2>5, <2>6, <2>7, <2>8 DEF Follows, RequestInv
  <2> QED
    BY <2>2, <2>3, <2>9, SelectKeeps
<1>3. ASSUME NEW e \in Escrow, BeginCreate(t, e) PROVE IInv'
  <2> DEFINE request == [Idle EXCEPT !.op = "create", !.pc = "insert", !.user = Merchant[e], !.esc = e]
  <2>1. /\ request \in Job /\ request.op = "create" /\ request.pc = "insert" /\ request.esc = e
        /\ request.coin = NoCoin /\ request.row = NoEscrow /\ request.overdue = {}
    BY MerchantAssumption DEF Idle, Job, Op, Label
  <2>2. Aims(request)
    BY <2>1 DEF Aims, Holding, Audited, Settlement, Payment
  <2>3. ~Known(e) /\ lock[EscrowRow(e)] = NoTx
    <3>1. EscrowRow(e) \in Row /\ EscrowInv(e) /\ StorageTyped /\ OneVersion
      BY Rows DEF IInv, TablesInv
    <3>2. lock[EscrowRow(e)] = NoTx
      BY <1>3, <3>1 DEF BeginCreate, EscrowInv, StorageTyped
    <3> QED
      BY <1>3, <3>1, <3>2 DEF BeginCreate, OneVersion, Known
  <2>4. Vacant(t, request)
    BY <1>3, <2>1, <2>3 DEF BeginCreate, Vacant
  <2> QED
    BY <1>2, <1>3, <2>1, <2>2, <2>4 DEF BeginCreate
<1>4. ASSUME NEW e \in Escrow, NEW u \in User, NEW c \in Coin, BeginLock(t, u, e, c) PROVE IInv'
  <2> DEFINE request == [Idle EXCEPT !.op = "lock", !.pc = "cleanup", !.user = u, !.esc = e, !.coin = c]
  <2>1. /\ request \in Job /\ request.op = "lock" /\ request.pc = "cleanup" /\ request.esc = e
        /\ request.coin = c /\ request.user = u /\ request.row = NoEscrow /\ request.overdue = {}
    BY DEF Idle, Job, Op, Label, Audited
  <2>2. Aims(request)
    BY <2>1 DEF Aims, Holding, Audited, Settlement, Payment
  <2> QED
    BY <1>2, <1>4, <2>1, <2>2 DEF BeginLock, Vacant
<1>5. ASSUME NEW e \in Escrow, NEW u \in User, NEW op \in Settlement, BeginSettle(t, op, u, e)
      PROVE  IInv'
  <2> DEFINE request == [Idle EXCEPT !.op = op, !.pc = "cleanup", !.user = u, !.esc = e]
  <2>1. /\ request \in Job /\ request.op = op /\ request.pc = "cleanup" /\ request.esc = e
        /\ request.coin = NoCoin /\ request.row = NoEscrow /\ request.overdue = {}
    BY DEF Idle, Job, Op, Label, Audited
  <2>2. Aims(request) /\ op # "create"
    BY <2>1 DEF Aims, Holding, Audited, Settlement, Payment
  <2> QED
    BY <1>2, <1>5, <2>1, <2>2 DEF BeginSettle, Vacant
<1>6. ASSUME NEW e \in Escrow, BeginDetails(t, e) PROVE IInv'
  <2> DEFINE request == [Idle EXCEPT !.op = "details", !.pc = "cleanup", !.esc = e]
  <2>1. /\ request \in Job /\ request.op = "details" /\ request.pc = "cleanup" /\ request.esc = e
        /\ request.coin = NoCoin /\ request.row = NoEscrow /\ request.overdue = {}
    BY DEF Idle, Job, Op, Label
  <2>2. Aims(request)
    BY <2>1 DEF Aims, Holding, Audited, Settlement, Payment
  <2> QED
    BY <1>2, <1>6, <2>1, <2>2 DEF BeginDetails, Vacant
<1>7. ASSUME NEW u \in User, NEW c \in Coin, NEW op \in Payment, BeginPay(t, op, u, c) PROVE IInv'
  <2> DEFINE request == [Idle EXCEPT !.op = op, !.pc = "coin", !.user = u, !.coin = c, !.payee = u]
  <2>1. /\ request \in Job /\ request.op = op /\ request.pc = "coin" /\ request.esc = NoEscrow
        /\ request.coin = c /\ request.user = u /\ request.row = NoEscrow /\ request.overdue = {}
    BY DEF Idle, Job, Op, Label
  <2>2. Aims(request) /\ op # "create"
    BY <2>1 DEF Aims, Holding, Audited, Settlement, Payment
  <2> QED
    BY <1>2, <1>7, <2>1, <2>2, NoneAssumption DEF BeginPay, Vacant
<1>8. ASSUME NEW u \in User, NEW amount \in Cash, BeginDeposit(t, u, amount) PROVE IInv'
  <2> DEFINE request == [Idle EXCEPT !.op = "deposit", !.pc = "credit", !.user = u,
                                     !.amount = amount, !.payee = u]
  <2>1. /\ request \in Job /\ request.op = "deposit" /\ request.pc = "credit"
        /\ request.esc = NoEscrow /\ request.coin = NoCoin /\ request.row = NoEscrow
        /\ request.overdue = {}
    BY DEF Idle, Job, Op, Label
  <2>2. Aims(request)
    BY <2>1 DEF Aims, Holding, Audited, Settlement, Payment
  <2> QED
    BY <1>2, <1>8, <2>1, <2>2, NoneAssumption DEF BeginDeposit, Vacant
<1> QED
  BY <1>3, <1>4, <1>5, <1>6, <1>7, <1>8 DEF Begin

-----------------------------------------------------------------------------
(* The specification                                                       *)

\* An empty database meets the invariant: nothing is spent, locked or under way.
LEMMA InitIInv == DbInit => IInv
<1> SUFFICES ASSUME DbInit PROVE IInv
  OBVIOUS
<1>1. /\ \A c \in Coin : db[CoinRow(c)] = NoUser
      /\ \A e \in Escrow : db[EscrowRow(e)] = Absent
  BY Rows DEF DbInit, CoinRow, EscrowRow
<1>2. cur = db /\ lock = [r \in Row |-> NoTx] /\ job = [t \in Tx |-> Idle] /\ late = {}
      /\ spends = [c \in Coin |-> 0] /\ db = [r \in Row |-> db[r]]
  BY DEF DbInit
<1>3. /\ Absent \in EscrowValue /\ Absent.status = "none" /\ Absent.serial \notin Coin
  BY NullAssumption DEF Absent, EscrowValue, Status
<1>4. StorageTyped /\ OneVersion
  BY <1>1, <1>2, <1>3 DEF StorageTyped, OneVersion
<1>5. \A c \in Coin : CoinInv(c)
  BY <1>1, <1>2, Rows, IdleAims, NoneAssumption DEF CoinInv
<1>6. \A e \in Escrow : EscrowInv(e)
  BY <1>1, <1>2, <1>3, Rows, NoneAssumption DEF EscrowInv, RowInv
<1>7. \A e \in Escrow : \A f \in Escrow \ {e} : PairInv(e, f)
  BY <1>1, <1>2, <1>3 DEF PairInv, Distinct
<1>8. \A t \in Tx : RequestInv(t, job[t])
  BY <1>2, Rows, IdleAims, NoneAssumption DEF RequestInv, Funded, Vacant, Finds
<1> QED
  BY <1>2, <1>4, <1>5, <1>6, <1>7, <1>8, IdleAims DEF IInv, TablesInv, RequestsInv

\* The clock writes no row.
LEMMA ClockKeeps ==
  ASSUME IInv, UNCHANGED <<storage, job, spends>>, late' \subseteq Escrow
  PROVE  IInv'
<1>1. TablesInv'
  BY DEF IInv, TablesInv, storage, StorageTyped, OneVersion, CoinInv, EscrowInv, RowInv, PairInv, Distinct
<1>2. RequestsInv'
  BY DEF IInv, RequestsInv, storage, RequestInv, Funded, Vacant, Finds, Known
<1> QED
  BY <1>1, <1>2 DEF IInv

\* Every step preserves the invariant.
LEMMA NextIInv == IInv /\ [Next]_vars => IInv'
<1> SUFFICES ASSUME IInv, [Next]_vars PROVE IInv'
  OBVIOUS
<1>1. ASSUME NEW t \in Tx, Begin(t), late' = late PROVE IInv'
  BY <1>1, BeginKeeps
<1>2. ASSUME NEW t \in Tx, Statement(t), late' = late PROVE IInv'
  <2>1. CASE Spend(t)
    BY <1>2, <2>1, SpendKeeps, ThrowKeeps
  <2>2. CASE MarkLocked(t)
    BY <1>2, <2>2, MarkKeeps
  <2>3. CASE CreateInsert(t)
    BY <1>2, <2>3, CreateKeeps
  <2> QED
    BY <1>2, <2>1, <2>2, <2>3, CleanupKeeps, LockKeeps, SettleKeeps, EndKeeps DEF Statement
<1>3. ASSUME NEW e \in Escrow, TimePasses(e) PROVE IInv'
  BY <1>3, ClockKeeps DEF TimePasses, history, IInv, RequestsInv
<1>4. CASE Crash
  BY <1>4, CrashKeeps
<1>5. CASE UNCHANGED vars
  BY <1>5, ClockKeeps DEF vars, storage, IInv, RequestsInv
<1> QED
  BY <1>1, <1>2, <1>3, <1>4, <1>5 DEF Next, Step

\* The invariant holds in every reachable state.
LEMMA Inductive == Spec => []IInv
  BY InitIInv, NextIInv, PTL DEF Spec

\* Tables and requests keep their types.
THEOREM TypeCorrect == Spec => [](StorageTyped /\ RequestsTyped)
<1>1. IInv => StorageTyped /\ RequestsTyped
  BY DEF IInv, TablesInv, RequestsInv, AimedJob, RequestsTyped
<1> QED
  BY <1>1, Inductive, PTL

\* A token is spent once, by a payment, a split or a lock, and is in spent_coins from then on.
THEOREM TokenSpentOnce == Spec => []SpendOnce
<1>1. IInv => SpendOnce
  BY DEF IInv, TablesInv, CoinInv, SpendOnce
<1> QED
  BY <1>1, Inductive, PTL

\* A locked or committed escrow has a token of its price, spent in its merchant's name and in
\* no other escrow.
THEOREM EscrowFunded == Spec => []EscrowHasToken
<1>1. IInv => EscrowHasToken
  <2> SUFFICES ASSUME IInv, NEW e \in Escrow, db[EscrowRow(e)].status \in {"locked", "committed"}
               PROVE  LET c == db[EscrowRow(e)].serial
                      IN  /\ Worth[c] = Price[e]
                          /\ db[CoinRow(c)] = Merchant[e]
                          /\ \A f \in Escrow \ {e} : db[EscrowRow(f)].serial # c
    BY DEF EscrowHasToken
  <2>1. EscrowInv(e) /\ \A f \in Escrow \ {e} : PairInv(e, f)
    BY DEF IInv, TablesInv
  <2> QED
    BY <2>1 DEF EscrowInv, RowInv, PairInv, Distinct
<1> QED
  BY <1>1, Inductive, PTL

-----------------------------------------------------------------------------
(***************************************************************************)
(* The audit log.  AuditTrail is almost inductive: of a request about to   *)
(* commit it has to say that the request has written its entry, and of an  *)
(* entry that it belongs to a request of the kind that writes entries.     *)
(***************************************************************************)
Owing(request) == request.pc = "commit" /\ LogsOutside(request)

LogInv ==
    /\ done \subseteq audit
    /\ \A t \in Tx : /\ Owing(job[t]) => Entry(t) \in audit
                     /\ job[t].pc = "audit" => LogsOutside(job[t])
    /\ \A x \in audit : \/ x \in done \cup orphan
                        \/ \E t \in Tx : Owing(job[t]) /\ x = Entry(t)

\* What a request may become without an entry of its own.
Quiet(request) == ~Owing(request) /\ (request.pc = "audit" => LogsOutside(request))

\* A request that owes no entry and goes on as one that owes none.
LEMMA NothingLogged ==
  ASSUME LogInv, job \in [Tx -> Job], NEW t \in Tx, NEW next, job' = [job EXCEPT ![t] = next],
         UNCHANGED <<audit, done, orphan>>, ~Owing(job[t]), Quiet(next)
  PROVE  LogInv'
<1>1. \A u \in Tx : job'[u] = IF u = t THEN next ELSE job[u]
  OBVIOUS
<1>2. \A u \in Tx \ {t} : Entry(u)' = Entry(u)
  BY <1>1 DEF Entry
<1> QED
  BY <1>1, <1>2 DEF LogInv, Owing, Quiet

\* Throws are answered before the request's entry is written, or end it without one.
LEMMA ThrowLogsNothing ==
  ASSUME LogInv, job \in [Tx -> Job], NEW t \in Tx, Throw(t), job[t].pc # "commit"
  PROVE  LogInv'
<1>1. Quiet(Idle)
  BY DEF Quiet, Owing, Idle
<1> QED
  BY <1>1, NothingLogged DEF Throw, history, Owing

\* A request in a circle of waits is not one about to commit: COMMIT waits for nothing.
LEMMA VictimsWait ==
  ASSUME NEW t \in Tx, Deadlocked(t)
  PROVE  job[t].pc # "commit"
<1> SUFFICES ASSUME job[t].pc = "commit" PROVE FALSE
  OBVIOUS
<1>1. Wanted(t) = {}
  BY DEF Wanted, At
<1>2. WaitsFor(t) = {}
  BY <1>1 DEF WaitsFor
<1> QED
  BY <1>2 DEF Deadlocked

\* What a request goes on as after a cleanup owes no entry.
LEMMA CleanupIsQuiet ==
  ASSUME NEW request \in Job
  PROVE  Quiet(AfterCleanup(request))
<1>1. /\ AfterCleanup(request).op = request.op
      /\ AfterCleanup(request).pc = IF request.op = "details" THEN "commit" ELSE "select"
  BY DEF AfterCleanup, Job
<1> QED
  BY <1>1 DEF Quiet, Owing, LogsOutside, Settlement

LEMMA BeginLogsNothing ==
  ASSUME LogInv, job \in [Tx -> Job], late \subseteq Escrow, NEW t \in Tx, Begin(t)
  PROVE  LogInv'
<1>1. ASSUME NEW request \in Job, Start(t, request), request.pc \notin {"audit", "commit"} PROVE LogInv'
  <2> DEFINE next == [request EXCEPT !.late = late]
  <2>1. job' = [job EXCEPT ![t] = next] /\ ~Owing(job[t]) /\ UNCHANGED <<audit, done, orphan>>
    BY <1>1 DEF Start, At, Owing, history
  <2>2. next.pc \notin {"audit", "commit"}
    BY <1>1 DEF Job
  <2>3. Quiet(next)
    BY <2>2 DEF Quiet, Owing
  <2> HIDE DEF next
  <2> QED
    BY <2>1, <2>3, NothingLogged
<1>2. ASSUME NEW e \in Escrow, BeginCreate(t, e) PROVE LogInv'
  <2> DEFINE request == [Idle EXCEPT !.op = "create", !.pc = "insert", !.user = Merchant[e], !.esc = e]
  <2>1. request \in Job /\ request.pc = "insert"
    BY MerchantAssumption DEF Idle, Job, Op, Label
  <2> QED
    BY <1>1, <1>2, <2>1 DEF BeginCreate
<1>3. ASSUME NEW e \in Escrow, NEW u \in User, NEW c \in Coin, BeginLock(t, u, e, c) PROVE LogInv'
  <2> DEFINE request == [Idle EXCEPT !.op = "lock", !.pc = "cleanup", !.user = u, !.esc = e, !.coin = c]
  <2>1. request \in Job /\ request.pc = "cleanup"
    BY DEF Idle, Job, Op, Label, Audited
  <2> QED
    BY <1>1, <1>3, <2>1 DEF BeginLock
<1>4. ASSUME NEW e \in Escrow, NEW u \in User, NEW op \in Settlement, BeginSettle(t, op, u, e)
      PROVE  LogInv'
  <2> DEFINE request == [Idle EXCEPT !.op = op, !.pc = "cleanup", !.user = u, !.esc = e]
  <2>1. request \in Job /\ request.pc = "cleanup"
    BY DEF Idle, Job, Op, Label, Audited
  <2> QED
    BY <1>1, <1>4, <2>1 DEF BeginSettle
<1>5. ASSUME NEW e \in Escrow, BeginDetails(t, e) PROVE LogInv'
  <2> DEFINE request == [Idle EXCEPT !.op = "details", !.pc = "cleanup", !.esc = e]
  <2>1. request \in Job /\ request.pc = "cleanup"
    BY DEF Idle, Job, Op, Label
  <2> QED
    BY <1>1, <1>5, <2>1 DEF BeginDetails
<1>6. ASSUME NEW u \in User, NEW c \in Coin, NEW op \in Payment, BeginPay(t, op, u, c) PROVE LogInv'
  <2> DEFINE request == [Idle EXCEPT !.op = op, !.pc = "coin", !.user = u, !.coin = c, !.payee = u]
  <2>1. request \in Job /\ request.pc = "coin"
    BY DEF Idle, Job, Op, Label
  <2> QED
    BY <1>1, <1>6, <2>1 DEF BeginPay
<1>7. ASSUME NEW u \in User, NEW amount \in Cash, BeginDeposit(t, u, amount) PROVE LogInv'
  <2> DEFINE request == [Idle EXCEPT !.op = "deposit", !.pc = "credit", !.user = u,
                                     !.amount = amount, !.payee = u]
  <2>1. request \in Job /\ request.pc = "credit"
    BY DEF Idle, Job, Op, Label
  <2> QED
    BY <1>1, <1>7, <2>1 DEF BeginDeposit
<1> QED
  BY <1>2, <1>3, <1>4, <1>5, <1>6, <1>7 DEF Begin

\* The statements before the audit row.
LEMMA StatementLogsNothing ==
  ASSUME LogInv, job \in [Tx -> Job], NEW t \in Tx, Statement(t),
         ~AuditOutside(t), ~CommitTx(t)
  PROVE  LogInv'
<1> DEFINE request == job[t]
<1>0. request \in Job
  OBVIOUS
<1>1. ASSUME NEW row, NEW v, NEW next, Update(t, row, v, next) \/ Select(t, next),
             request.pc # "commit", Quiet(next)
      PROVE  LogInv'
  BY <1>1, NothingLogged DEF Owing, Update, Select, history
<1>2. ASSUME NEW label, label \notin {"audit", "commit"}
      PROVE  Quiet([request EXCEPT !.pc = label])
  BY <1>0, <1>2 DEF Quiet, Owing, Job
<1>3. ASSUME NEW payee PROVE Quiet([request EXCEPT !.pc = "credit", !.payee = payee])
  <2> DEFINE moved == [request EXCEPT !.pc = "credit"]
             next == [moved EXCEPT !.payee = payee]
  <2>1. next.pc = "credit"
    BY <1>0 DEF Job
  <2> QED
    BY <2>1 DEF Quiet, Owing
<1>4. Quiet(AfterCleanup(request))
  BY <1>0, CleanupIsQuiet
<1>5. CASE CleanCreated(t)
  <2>1. request.pc = "cleanup"
    BY <1>5 DEF CleanCreated, At
  <2>2. Quiet(request)
    BY <2>1 DEF Quiet, Owing
  <2> QED
    BY <1>1, <1>5, <2>1, <2>2 DEF CleanCreated
<1>6. CASE CleanSelect(t)
  <2> DEFINE rows == {<<e, View(t)[EscrowRow(e)].customer>> : e \in Lapsed(t, "locked")}
             next == [request EXCEPT !.pc = "refundLate", !.overdue = rows]
  <2>1. request.pc = "cleanup" /\ (Select(t, AfterCleanup(request)) \/ Select(t, next))
    BY <1>6 DEF CleanSelect, At
  <2> HIDE DEF rows
  <2>2. Quiet(next)
    BY <1>0 DEF Quiet, Owing, Job
  <2> QED
    BY <1>1, <1>4, <2>1, <2>2
<1>7. CASE RefundLate(t)
  <2>1. request.pc = "refundLate"
    BY <1>7 DEF RefundLate, At
  <2>2. ASSUME NEW x \in request.overdue,
               Update(t, UserRow(x[2]), Grow(cur[UserRow(x[2])], Price[x[1]]),
                      [job[t] EXCEPT !.pc = "expireLate", !.row = x[1], !.overdue = @ \ {x}])
        PROVE  LogInv'
    <3> DEFINE next == [job[t] EXCEPT !.pc = "expireLate", !.row = x[1], !.overdue = @ \ {x}]
    <3>1. next.pc = "expireLate"
      BY <1>0 DEF Job
    <3>2. Quiet(next)
      BY <3>1 DEF Quiet, Owing
    <3>3. Update(t, UserRow(x[2]), Grow(cur[UserRow(x[2])], Price[x[1]]), next)
      BY <2>2
    <3> HIDE DEF next
    <3> QED
      BY <1>1, <2>1, <3>2, <3>3
  <2> QED
    BY <1>7, <2>2 DEF RefundLate
<1>8. CASE ExpireLate(t)
  BY <1>1, <1>2, <1>8 DEF ExpireLate, At
<1>9. CASE BurnLate(t)
  BY <1>1, <1>2, <1>4, <1>9 DEF BurnLate, At
<1>10. CASE CreateInsert(t)
  BY <1>1, <1>2, <1>10 DEF CreateInsert, At
<1>11. CASE MarkLocked(t)
  BY <1>1, <1>2, <1>11 DEF MarkLocked, At
<1>12. CASE Credit(t)
  BY <1>1, <1>2, <1>12 DEF Credit, At
<1>13. CASE Book(t)
  BY <1>1, <1>2, <1>13 DEF Book, At
<1>14. CASE Close(t)
  BY <1>1, <1>2, <1>14 DEF Close, At
<1>15. CASE LockSelect(t)
  BY <1>1, <1>2, <1>15, ThrowLogsNothing DEF LockSelect, At
<1>16. CASE SelectCoin(t)
  BY <1>1, <1>2, <1>16, ThrowLogsNothing DEF SelectCoin, At
<1>17. CASE Spend(t)
  BY <1>1, <1>2, <1>17, ThrowLogsNothing DEF Spend, At
<1>18. CASE ConfirmSelect(t)
  <2> DEFINE next == [request EXCEPT !.pc = "credit", !.payee = Merchant[request.esc]]
  <2>1. request.pc = "select" /\ (Throw(t) \/ Select(t, next))
    BY <1>18 DEF ConfirmSelect, At
  <2>2. next.pc = "credit"
    BY <1>0 DEF Job
  <2>3. Quiet(next)
    BY <2>2 DEF Quiet, Owing
  <2> HIDE DEF next
  <2> QED
    BY <1>1, <2>1, <2>3, ThrowLogsNothing
<1>19. CASE CancelSelect(t)
  <2> DEFINE close == [request EXCEPT !.pc = "close"]
             next == [request EXCEPT !.pc = "credit", !.payee = Selected(t).customer]
  <2>1. request.pc = "select" /\ (Throw(t) \/ Select(t, close) \/ Select(t, next))
    BY <1>19 DEF CancelSelect, At
  <2>2. close.pc = "close" /\ next.pc = "credit"
    BY <1>0 DEF Job
  <2>3. Quiet(close) /\ Quiet(next)
    BY <2>2 DEF Quiet, Owing
  <2> HIDE DEF close, next
  <2> QED
    BY <1>1, <2>1, <2>3, ThrowLogsNothing
<1>20. CASE AssertBooks(t)
  <2> DEFINE label == IF LogsOutside(request) THEN "audit" ELSE "commit"
             next == [request EXCEPT !.pc = label]
  <2>1. request.pc = "assert" /\ (Throw(t) \/ Select(t, next))
    BY <1>20 DEF AssertBooks, At
  <2> HIDE DEF label
  <2>2. next.pc = label /\ next.op = request.op /\ next.payee = request.payee
    BY <1>0 DEF Job
  <2>3. Quiet(next)
    BY <2>2 DEF Quiet, Owing, LogsOutside, label
  <2> HIDE DEF next
  <2> QED
    BY <1>1, <2>1, <2>3, ThrowLogsNothing
<1>21. CASE PoolTimeout(t)
  BY <1>21, ThrowLogsNothing DEF PoolTimeout, At
<1>22. CASE DeadlockVictim(t)
  BY <1>22, ThrowLogsNothing, VictimsWait DEF DeadlockVictim
<1> QED
  BY <1>5, <1>6, <1>7, <1>8, <1>9, <1>10, <1>11, <1>12, <1>13, <1>14, <1>15, <1>16, <1>17, <1>18,
     <1>19, <1>20, <1>21, <1>22 DEF Statement

LEMMA AuditLogs ==
  ASSUME LogInv, job \in [Tx -> Job], NEW t \in Tx, AuditOutside(t)
  PROVE  LogInv'
<1>1. /\ audit' = audit \cup {Entry(t)} /\ done' = done /\ orphan' = orphan
      /\ job' = [job EXCEPT ![t].pc = "commit"] /\ job[t].pc = "audit"
  BY DEF AuditOutside, At
<1>2. /\ job'[t].pc = "commit" /\ job'[t].op = job[t].op /\ job'[t].esc = job[t].esc
      /\ job'[t].payee = job[t].payee
  BY <1>1 DEF Job
<1>3. \A u \in Tx \ {t} : job'[u] = job[u]
  BY <1>1
<1>4. \A u \in Tx : Entry(u)' = Entry(u)
  BY <1>2, <1>3 DEF Entry
<1>5. Owing(job'[t])
  BY <1>1, <1>2 DEF LogInv, Owing, LogsOutside
<1> QED
  BY <1>1, <1>2, <1>3, <1>4, <1>5 DEF LogInv, Owing

LEMMA CommitLogs ==
  ASSUME LogInv, job \in [Tx -> Job], NEW t \in Tx, CommitTx(t)
  PROVE  LogInv'
<1>1. /\ job[t].pc = "commit" /\ audit' = audit /\ orphan' = orphan
      /\ done' = IF LogsOutside(job[t]) THEN done \cup {Entry(t)} ELSE done
      /\ job' = [job EXCEPT ![t] = Idle]
  BY DEF CommitTx, At
<1>2. job'[t] = Idle /\ \A u \in Tx \ {t} : job'[u] = job[u]
  BY <1>1
<1>3. \A u \in Tx \ {t} : Entry(u)' = Entry(u)
  BY <1>2 DEF Entry
<1>4. Quiet(Idle)
  BY DEF Quiet, Owing, Idle
<1> QED
  BY <1>1, <1>2, <1>3, <1>4 DEF LogInv, Owing, Quiet

\* A crash leaves the entries of the requests that were about to commit without them.
LEMMA CrashLogs ==
  ASSUME LogInv, job \in [Tx -> Job], Crash
  PROVE  LogInv'
<1>1. /\ audit' = audit /\ done' = done /\ job' = [t \in Tx |-> Idle]
      /\ orphan' = orphan \cup {Entry(t) : t \in {u \in Tx : At(u, "commit") /\ LogsOutside(job[u])}}
  BY DEF Crash
<1>2. \A t \in Tx : Owing(job[t]) => Entry(t) \in orphan'
  BY <1>1 DEF Owing, At
<1>3. Quiet(Idle)
  BY DEF Quiet, Owing, Idle
<1> QED
  BY <1>1, <1>2, <1>3 DEF LogInv, Quiet

LEMMA NextLogInv == IInv /\ LogInv /\ [Next]_vars => LogInv'
<1> SUFFICES ASSUME IInv, LogInv, [Next]_vars PROVE LogInv'
  OBVIOUS
<1>1. job \in [Tx -> Job] /\ late \subseteq Escrow
  BY DEF IInv, RequestsInv, AimedJob
<1>2. CASE UNCHANGED <<job, audit, done, orphan>>
  BY <1>2 DEF LogInv, Entry
<1>3. CASE UNCHANGED vars \/ \E e \in Escrow : TimePasses(e)
  BY <1>2, <1>3 DEF vars, TimePasses, history
<1>4. ASSUME NEW t \in Tx, Begin(t) PROVE LogInv'
  BY <1>1, <1>4, BeginLogsNothing
<1>5. ASSUME NEW t \in Tx, Statement(t) PROVE LogInv'
  BY <1>1, <1>5, StatementLogsNothing, AuditLogs, CommitLogs
<1>6. CASE Crash
  BY <1>1, <1>6, CrashLogs
<1> QED
  BY <1>3, <1>4, <1>5, <1>6 DEF Next, Step

\* Every lock and settlement that was committed has its row in audit_log, and a row without one
\* belongs to a request that is about to commit or died at that moment: what is left of "a row
\* exists iff its action does" when logAction writes on a connection of its own.
THEOREM AuditKept == Spec => []AuditTrail
<1>1. DbInit => LogInv
  BY DEF DbInit, LogInv, Owing, Idle
<1>2. LogInv => AuditTrail
  BY DEF LogInv, AuditTrail, Owing, At
<1> QED
  BY <1>1, <1>2, NextLogInv, Inductive, PTL DEF Spec

-----------------------------------------------------------------------------
(***************************************************************************)
(* The daily cap.  bankService.js sums the day's deposits before BEGIN and *)
(* inserts after it.  As long as a user has one deposit under way at a     *)
(* time, whatever else overlaps with it, nobody pays in more cash than     *)
(* MAX_DEPOSIT_PER_DAY.                                                    *)
(***************************************************************************)

(***************************************************************************)
(* Its inductive invariant.  What a deposit has read stays true until its  *)
(* UPDATE: the day's cash of its user is written by deposits alone, of     *)
(* which there is no other, so committed and latest cash are the same but  *)
(* for the deposit that has been credited and holds the users row.         *)
(***************************************************************************)
\* A users row within the cap.
Account(value) ==
    /\ value = [balance |-> value.balance, cash |-> value.cash, income |-> value.income]
    /\ value.cash \in Nat /\ value.income \in Nat
    /\ value.cash <= DailyCap

Deposits(request) == request.op = "deposit"
IsCredited(request) == Deposits(request) /\ request.pc # "credit"

DepositInv(t, request) ==
    Deposits(request) =>
       /\ request.user \in User /\ request.payee = request.user /\ request.amount \in Nat
       /\ request.pc \in {"credit", "book", "assert", "commit"}
       /\ request.pc = "credit" => db[UserRow(request.user)].cash + request.amount <= DailyCap
       /\ request.pc # "credit" => lock[UserRow(request.user)] = t

CapInv ==
    /\ \A u \in User : /\ Account(db[UserRow(u)]) /\ Account(cur[UserRow(u)])
                       /\ cur[UserRow(u)].cash # db[UserRow(u)].cash =>
                            \E t \in Tx : IsCredited(job[t]) /\ job[t].user = u
    /\ \A t \in Tx : DepositInv(t, job[t])
    /\ \A t \in Tx : \A w \in Tx \ {t} :
          Deposits(job[t]) /\ Deposits(job[w]) => job[t].user # job[w].user

Base == StorageTyped /\ OneVersion /\ job \in [Tx -> AimedJob]

\* The account of one user is not that of another, nor a row of another table.
LEMMA UserRows ==
    /\ \A u \in User : UserRow(u) \in Row
    /\ \A u, w : UserRow(u) = UserRow(w) => u = w
    /\ \A u, c : UserRow(u) # CoinRow(c) /\ UserRow(u) # EscrowRow(c)
    /\ \A u : UserRow(u) # ReserveRow
  BY DEF Row, UserRow, CoinRow, EscrowRow, ReserveRow

-----------------------------------------------------------------------------
(* Steps that leave the day's cash as it is                                *)

\* The latest versions keep their cash, and who holds an account keeps it.
SameCash ==
    \A u \in User :
        /\ db'[UserRow(u)] = db[UserRow(u)]
        /\ Account(cur'[UserRow(u)]) /\ cur'[UserRow(u)].cash = cur[UserRow(u)].cash
        /\ \A t \in Tx : lock[UserRow(u)] = t => lock'[UserRow(u)] = t

\* What a request goes on as: no deposit, or the same one past its UPDATE of users.
Steady(request, next) ==
    \/ ~Deposits(request) /\ ~Deposits(next)
    \/ /\ Deposits(request) /\ Deposits(next)
       /\ next.user = request.user /\ next.payee = request.payee /\ next.amount = request.amount
       /\ request.pc # "credit" /\ next.pc \in {"book", "assert", "commit"}

LEMMA SteadyKeeps ==
  ASSUME Base, CapInv, NEW t \in Tx, NEW next, job' = [job EXCEPT ![t] = next], SameCash,
         Steady(job[t], next)
  PROVE  CapInv'
<1>1. job'[t] = next /\ \A w \in Tx \ {t} : job'[w] = job[w]
  BY DEF Base
<1>2. ASSUME NEW u \in User
      PROVE  /\ Account(db'[UserRow(u)]) /\ Account(cur'[UserRow(u)])
             /\ cur'[UserRow(u)].cash # db'[UserRow(u)].cash =>
                    \E w \in Tx : IsCredited(job'[w]) /\ job'[w].user = u
  BY <1>1 DEF CapInv, SameCash, Steady, IsCredited
<1>3. ASSUME NEW w \in Tx PROVE DepositInv(w, job[w])'
  <2>1. DepositInv(w, job[w])
    BY DEF CapInv
  <2>2. CASE w = t
    BY <1>1, <2>1, <2>2 DEF DepositInv, Steady, SameCash
  <2>3. CASE w # t
    BY <1>1, <2>1, <2>3 DEF DepositInv, SameCash
  <2> QED
    BY <2>2, <2>3
<1>4. \A v \in Tx : \A w \in Tx \ {v} :
          Deposits(job'[v]) /\ Deposits(job'[w]) => job'[v].user # job'[w].user
  BY <1>1 DEF CapInv, Steady
<1> QED
  BY <1>2, <1>3, <1>4 DEF CapInv, IsCredited, Deposits

\* A statement of a request that deposits nothing, or has done so.
LEMMA StatementKeeps ==
  ASSUME Base, CapInv, NEW t \in Tx, NEW row, NEW v, NEW next,
         Select(t, next) \/ Update(t, row, v, next),
         \A u \in User : row = UserRow(u) =>
            /\ Account(cur[row]) => Account(v)
            /\ v.cash = cur[row].cash,
         Steady(job[t], next)
  PROVE  CapInv'
<1>1. job' = [job EXCEPT ![t] = next]
  BY DEF Select, Update
<1>2. CASE Select(t, next)
  <2>1. SameCash
    BY <1>2 DEF Select, storage, SameCash, CapInv
  <2> QED
    BY <1>1, <2>1, SteadyKeeps
<1>3. CASE Write(t, row, v)
  <2>1. SameCash
    BY <1>3, WriteFacts, UserRows, NoneAssumption DEF SameCash, CapInv, Base
  <2> QED
    BY <1>1, <2>1, SteadyKeeps
<1> QED
  BY <1>2, <1>3 DEF Update

-----------------------------------------------------------------------------
(* The UPDATE of a deposit, and the end of a transaction                   *)

LEMMA DepositKeeps ==
  ASSUME Base, CapInv, NEW t \in Tx, Credit(t), Deposits(job[t])
  PROVE  CapInv'
<1> DEFINE u == job[t].user
           row == UserRow(u)
           a == job[t].amount
           next == [job[t] EXCEPT !.pc = "book"]
<1>1. /\ u \in User /\ job[t].payee = u /\ a \in Nat /\ job[t].pc = "credit"
      /\ db[row].cash + a <= DailyCap
  BY DEF CapInv, DepositInv, Credit, At
<1>2. cur[row].cash = db[row].cash
  BY <1>1 DEF CapInv, IsCredited
<1>3. Moved(job[t]) = a
  BY DEF Moved, Deposits, Settlement, Payment
<1>4. Account(cur[row]) /\ Account(db[row])
  BY <1>1 DEF CapInv
<1>5. Account(Credited(cur[row], job[t])) /\ Credited(cur[row], job[t]).cash = db[row].cash + a
  <2> DEFINE grown == Grow(cur[row], a)
  <2>1. /\ grown = [balance |-> grown.balance, cash |-> grown.cash, income |-> grown.income]
        /\ grown.cash = cur[row].cash /\ grown.income = cur[row].income
    BY <1>4 DEF Account, Grow
  <2>2. Credited(cur[row], job[t]) = [grown EXCEPT !.cash = @ + a, !.income = @]
    BY <1>3 DEF Credited, Deposits
  <2> HIDE DEF grown
  <2>3. Credited(cur[row], job[t]) = [balance |-> grown.balance, cash |-> db[row].cash + a,
                                      income |-> grown.income]
    BY <1>2, <2>1, <2>2
  <2> QED
    BY <1>1, <1>2, <1>4, <2>1, <2>3 DEF Account
<1>6. /\ Write(t, row, Credited(cur[row], job[t]))
      /\ job' = [job EXCEPT ![t] = next]
  BY <1>1 DEF Credit, Update
<1>7. /\ next.op = "deposit" /\ next.user = u /\ next.payee = u /\ next.amount = a /\ next.pc = "book"
      /\ job'[t] = next /\ \A w \in Tx \ {t} : job'[w] = job[w]
  BY <1>1, <1>6 DEF Base, AimedJob, Job, Deposits
<1> HIDE DEF next
<1>8. /\ db' = db /\ cur'[row] = Credited(cur[row], job[t]) /\ lock'[row] = t
      /\ \A w \in User \ {u} : /\ cur'[UserRow(w)] = cur[UserRow(w)]
                               /\ lock'[UserRow(w)] = lock[UserRow(w)]
  BY <1>1, <1>6, WriteFacts, UserRows DEF Base
<1>9. ASSUME NEW w \in User
      PROVE  /\ Account(db'[UserRow(w)]) /\ Account(cur'[UserRow(w)])
             /\ cur'[UserRow(w)].cash # db'[UserRow(w)].cash =>
                    \E x \in Tx : IsCredited(job'[x]) /\ job'[x].user = w
  <2>1. CASE w = u
    BY <1>4, <1>5, <1>7, <1>8, <2>1 DEF IsCredited, Deposits
  <2>2. CASE w # u
    <3>1. Account(db'[UserRow(w)]) /\ Account(cur'[UserRow(w)])
      BY <1>8, <2>2 DEF CapInv
    <3>2. ASSUME cur'[UserRow(w)].cash # db'[UserRow(w)].cash
          PROVE  \E x \in Tx : IsCredited(job'[x]) /\ job'[x].user = w
      <4>1. PICK x \in Tx : IsCredited(job[x]) /\ job[x].user = w
        BY <1>8, <2>2, <3>2 DEF CapInv
      <4> QED
        BY <1>7, <2>2, <4>1
    <3> QED
      BY <3>1, <3>2
  <2> QED
    BY <2>1, <2>2
<1>10. \A w \in Tx \ {t} : Deposits(job[w]) => job[w].user \in User \ {u}
  BY DEF CapInv, DepositInv
<1>11. \A w \in Tx : DepositInv(w, job[w])'
  BY <1>1, <1>7, <1>8, <1>10 DEF CapInv, DepositInv, Deposits
<1>12. \A v \in Tx : \A w \in Tx \ {v} :
          Deposits(job'[v]) /\ Deposits(job'[w]) => job'[v].user # job'[w].user
  BY <1>7, <1>10 DEF CapInv, Deposits
<1> QED
  BY <1>9, <1>11, <1>12 DEF CapInv, IsCredited, Deposits

\* COMMIT and ROLLBACK of whichever request, or of all of them.
LEMMA LeavesKeep ==
  ASSUME Base, CapInv, NEW S \in SUBSET Tx, NEW published \in BOOLEAN,
         job' = [t \in Tx |-> IF t \in S THEN Idle ELSE job[t]],
         \A u \in User :
            /\ lock[UserRow(u)] \notin S =>
                  /\ db'[UserRow(u)] = db[UserRow(u)] /\ cur'[UserRow(u)] = cur[UserRow(u)]
                  /\ lock'[UserRow(u)] = lock[UserRow(u)]
            /\ lock[UserRow(u)] \in S =>
                  /\ db'[UserRow(u)] = IF published THEN cur[UserRow(u)] ELSE db[UserRow(u)]
                  /\ cur'[UserRow(u)] = IF published THEN cur[UserRow(u)] ELSE db[UserRow(u)],
         published => \A t \in S : job[t].pc = "commit"
  PROVE  CapInv'
<1>1. ~Deposits(Idle)
  BY DEF Deposits, Idle
<1>2. ASSUME NEW u \in User
      PROVE  /\ Account(db'[UserRow(u)]) /\ Account(cur'[UserRow(u)])
             /\ cur'[UserRow(u)].cash # db'[UserRow(u)].cash =>
                    \E t \in Tx : IsCredited(job'[t]) /\ job'[t].user = u
  <2>1. Account(db'[UserRow(u)]) /\ Account(cur'[UserRow(u)])
    BY DEF CapInv
  <2>2. ASSUME cur'[UserRow(u)].cash # db'[UserRow(u)].cash
        PROVE  \E t \in Tx : IsCredited(job'[t]) /\ job'[t].user = u
    <3>1. lock[UserRow(u)] \notin S /\ cur[UserRow(u)].cash # db[UserRow(u)].cash
      BY <2>2
    <3>2. PICK t \in Tx : IsCredited(job[t]) /\ job[t].user = u
      BY <3>1 DEF CapInv
    <3>3. t \notin S
      BY <3>1, <3>2 DEF CapInv, DepositInv, IsCredited
    <3> QED
      BY <3>2, <3>3
  <2> QED
    BY <2>1, <2>2
<1>3. ASSUME NEW t \in Tx, Deposits(job'[t]) PROVE DepositInv(t, job[t])'
  <2> DEFINE u == job[t].user
  <2>1. job'[t] = job[t] /\ t \notin S /\ DepositInv(t, job[t]) /\ Deposits(job[t]) /\ u \in User
    BY <1>1, <1>3 DEF CapInv, DepositInv
  <2>2. CASE job[t].pc = "credit"
    <3>1. cur[UserRow(u)].cash = db[UserRow(u)].cash
      BY <2>1, <2>2 DEF CapInv, IsCredited
    <3>2. db'[UserRow(u)].cash = db[UserRow(u)].cash
      BY <2>1, <3>1
    <3> QED
      BY <2>1, <2>2, <3>2 DEF DepositInv
  <2>3. CASE job[t].pc # "credit"
    BY <2>1, <2>3 DEF DepositInv
  <2> QED
    BY <2>2, <2>3
<1>4. \A v \in Tx : \A w \in Tx \ {v} :
          Deposits(job'[v]) /\ Deposits(job'[w]) => job'[v].user # job'[w].user
  BY <1>1 DEF CapInv
<1> QED
  BY <1>2, <1>3, <1>4 DEF CapInv, DepositInv, IsCredited, Deposits

-----------------------------------------------------------------------------
(* Every statement                                                         *)

LEMMA ThrowKeepsCap ==
  ASSUME Base, CapInv, NEW t \in Tx, Throw(t)
  PROVE  CapInv'
<1> DEFINE S == {t}
           published == FALSE
<1>1. job' = [w \in Tx |-> IF w \in S THEN Idle ELSE job[w]]
  BY DEF Throw, Base
<1>2. \A u \in User :
         /\ db'[UserRow(u)] = db[UserRow(u)]
         /\ cur'[UserRow(u)] = IF lock[UserRow(u)] = t THEN db[UserRow(u)] ELSE cur[UserRow(u)]
         /\ lock'[UserRow(u)] = IF lock[UserRow(u)] = t THEN NoTx ELSE lock[UserRow(u)]
  BY RollbackFacts, UserRows DEF Throw, Base
<1>3. \A u \in User :
         /\ lock[UserRow(u)] \notin S =>
               /\ db'[UserRow(u)] = db[UserRow(u)] /\ cur'[UserRow(u)] = cur[UserRow(u)]
               /\ lock'[UserRow(u)] = lock[UserRow(u)]
         /\ lock[UserRow(u)] \in S =>
               /\ db'[UserRow(u)] = IF published THEN cur[UserRow(u)] ELSE db[UserRow(u)]
               /\ cur'[UserRow(u)] = IF published THEN cur[UserRow(u)] ELSE db[UserRow(u)]
  BY <1>2
<1>4. S \in SUBSET Tx /\ published \in BOOLEAN /\ (published => \A w \in S : job[w].pc = "commit")
  OBVIOUS
<1> HIDE DEF S, published
<1> QED
  BY <1>1, <1>3, <1>4, LeavesKeep

LEMMA CommitKeepsCap ==
  ASSUME Base, CapInv, NEW t \in Tx, CommitTx(t)
  PROVE  CapInv'
<1> DEFINE S == {t}
           published == TRUE
<1>1. job' = [w \in Tx |-> IF w \in S THEN Idle ELSE job[w]] /\ job[t].pc = "commit"
  BY DEF CommitTx, Base, At
<1>2. \A u \in User :
         /\ db'[UserRow(u)] = IF lock[UserRow(u)] = t THEN cur[UserRow(u)] ELSE db[UserRow(u)]
         /\ cur'[UserRow(u)] = cur[UserRow(u)]
         /\ lock'[UserRow(u)] = IF lock[UserRow(u)] = t THEN NoTx ELSE lock[UserRow(u)]
  BY CommitFacts, UserRows DEF CommitTx, Base
<1>3. \A u \in User :
         /\ lock[UserRow(u)] \notin S =>
               /\ db'[UserRow(u)] = db[UserRow(u)] /\ cur'[UserRow(u)] = cur[UserRow(u)]
               /\ lock'[UserRow(u)] = lock[UserRow(u)]
         /\ lock[UserRow(u)] \in S =>
               /\ db'[UserRow(u)] = IF published THEN cur[UserRow(u)] ELSE db[UserRow(u)]
               /\ cur'[UserRow(u)] = IF published THEN cur[UserRow(u)] ELSE db[UserRow(u)]
  BY <1>2
<1>4. S \in SUBSET Tx /\ published \in BOOLEAN /\ (published => \A w \in S : job[w].pc = "commit")
  BY <1>1
<1> HIDE DEF S, published
<1> QED
  BY <1>1, <1>3, <1>4, LeavesKeep

LEMMA CrashKeepsCap ==
  ASSUME Base, CapInv, Crash
  PROVE  CapInv'
<1> DEFINE S == Tx
           published == FALSE
<1>1. job' = [w \in Tx |-> IF w \in S THEN Idle ELSE job[w]]
  BY DEF Crash
<1>2. \A u \in User : db'[UserRow(u)] = db[UserRow(u)] /\ cur'[UserRow(u)] = db[UserRow(u)]
  BY DEF Crash, RollbackAll
<1>3. \A u \in User : lock[UserRow(u)] \notin Tx => cur[UserRow(u)] = db[UserRow(u)]
  BY UserRows DEF Base, StorageTyped, OneVersion
<1>4. \A u \in User : lock[UserRow(u)] \notin Tx => lock'[UserRow(u)] = lock[UserRow(u)]
  BY UserRows DEF Crash, RollbackAll, Base, StorageTyped
<1>5. \A u \in User :
         /\ lock[UserRow(u)] \notin S =>
               /\ db'[UserRow(u)] = db[UserRow(u)] /\ cur'[UserRow(u)] = cur[UserRow(u)]
               /\ lock'[UserRow(u)] = lock[UserRow(u)]
         /\ lock[UserRow(u)] \in S =>
               /\ db'[UserRow(u)] = IF published THEN cur[UserRow(u)] ELSE db[UserRow(u)]
               /\ cur'[UserRow(u)] = IF published THEN cur[UserRow(u)] ELSE db[UserRow(u)]
  BY <1>2, <1>3, <1>4
<1>6. S \in SUBSET Tx /\ published \in BOOLEAN /\ (published => \A w \in S : job[w].pc = "commit")
  OBVIOUS
<1> HIDE DEF S, published
<1> QED
  BY <1>1, <1>5, <1>6, LeavesKeep

\* A request of another kind than a deposit.
LEMMA OthersKeep ==
  ASSUME Base, CapInv, NEW t \in Tx, Statement(t), ~Deposits(job[t]), ~Throw(t), ~CommitTx(t)
  PROVE  CapInv'
<1>1. job[t] \in Job /\ job[t].op # "deposit"
  BY DEF Base, AimedJob, Deposits
<1>2. ASSUME NEW row, NEW v, NEW next, Select(t, next) \/ Update(t, row, v, next),
             \A u : row # UserRow(u), next.op = job[t].op
      PROVE  CapInv'
  BY <1>1, <1>2, StatementKeeps DEF Steady, Deposits
<1>3. ASSUME NEW e, NEW v, NEW next, Update(t, EscrowRow(e), v, next), next.op = job[t].op
      PROVE  CapInv'
  BY <1>2, <1>3, UserRows
<1>4. ASSUME NEW c, NEW v, NEW next, Update(t, CoinRow(c), v, next), next.op = job[t].op
      PROVE  CapInv'
  BY <1>2, <1>4, UserRows
<1>5. ASSUME NEW v, NEW next, Update(t, ReserveRow, v, next), next.op = job[t].op
      PROVE  CapInv'
  BY <1>2, <1>5, UserRows
<1>6. ASSUME NEW next, Select(t, next), next.op = job[t].op PROVE CapInv'
  BY <1>2, <1>6, UserRows
<1>7. ASSUME NEW label PROVE [job[t] EXCEPT !.pc = label].op = job[t].op
  BY <1>1 DEF Job
<1>8. AfterCleanup(job[t]).op = job[t].op
  BY <1>1 DEF Job, AfterCleanup
<1>9. CASE CleanCreated(t) \/ CleanSelect(t)
  <2>1. ASSUME NEW rows
        PROVE  [job[t] EXCEPT !.pc = "refundLate", !.overdue = rows].op = job[t].op
    BY <1>1 DEF Job
  <2> QED
    BY <1>3, <1>6, <1>8, <1>9, <2>1 DEF CleanCreated, CleanSelect
<1>10. CASE RefundLate(t)
  <2>1. ASSUME NEW x \in job[t].overdue,
               Update(t, UserRow(x[2]), Grow(cur[UserRow(x[2])], Price[x[1]]),
                      [job[t] EXCEPT !.pc = "expireLate", !.row = x[1], !.overdue = @ \ {x}])
        PROVE  CapInv'
    <3> DEFINE next == [job[t] EXCEPT !.pc = "expireLate", !.row = x[1], !.overdue = @ \ {x}]
               p == x[2]
               v == Grow(cur[UserRow(p)], Price[x[1]])
    <3>1. next.op = job[t].op
      BY <1>1 DEF Job
    <3>2. p \in User
      BY <1>1 DEF Job
    <3>3. Account(cur[UserRow(p)])
      BY <3>2 DEF CapInv
    <3>4. Account(v) /\ v.cash = cur[UserRow(p)].cash
      BY <3>3 DEF Account, Grow
    <3> HIDE DEF next, v
    <3>5. Update(t, UserRow(p), v, next)
      BY <2>1 DEF next, v
    <3> QED
      BY <1>1, <3>1, <3>4, <3>5, StatementKeeps DEF Steady, Deposits
  <2> QED
    BY <1>10, <2>1 DEF RefundLate
<1>11. CASE Credit(t)
  <2> DEFINE p == job[t].payee
             row == UserRow(p)
             a == Moved(job[t])
             grown == Grow(cur[row], a)
             v == Credited(cur[row], job[t])
             next == [job[t] EXCEPT !.pc = "book"]
  <2>1. Update(t, row, v, next)
    BY <1>11 DEF Credit
  <2>2. next.op = job[t].op
    BY <1>7
  <2>3. CASE p \in User
    <3>1. Account(cur[row])
      BY <2>3 DEF CapInv
    <3>2. /\ grown = [balance |-> grown.balance, cash |-> grown.cash, income |-> grown.income]
          /\ grown.cash = cur[row].cash /\ grown.income = cur[row].income
      BY <3>1 DEF Account, Grow
    <3> DEFINE sum == IF job[t].op \in {"confirm", "pay"} THEN grown.income + a ELSE grown.income
    <3>3. v = [grown EXCEPT !.cash = grown.cash, !.income = sum]
      BY <1>1 DEF Credited
    <3>5. sum \in Nat
      <4>1. job[t].op \in {"confirm", "pay"} => a \in Nat
        BY <1>1, <1>11, ValueAssumption DEF Base, AimedJob, Aims, Audited, Moved, Settlement, Payment
      <4> QED
        BY <3>1, <3>2, <4>1 DEF Account
    <3> HIDE DEF grown, v, sum
    <3>4. v = [balance |-> grown.balance, cash |-> cur[row].cash, income |-> sum]
      BY <3>2, <3>3
    <3>6. Account(v) /\ v.cash = cur[row].cash
      BY <3>1, <3>4, <3>5 DEF Account
    <3> QED
      BY <1>1, <2>1, <2>2, <3>6, StatementKeeps DEF Steady, Deposits
  <2>4. CASE p \notin User
    <3>1. \A u \in User : row # UserRow(u)
      BY <2>4, UserRows
    <3> HIDE DEF row, v, next
    <3> QED
      BY <1>1, <2>1, <2>2, <3>1, StatementKeeps DEF Steady, Deposits
  <2> QED
    BY <2>3, <2>4
<1>12. CASE ExpireLate(t) \/ CreateInsert(t) \/ MarkLocked(t) \/ Close(t)
  BY <1>3, <1>7, <1>12 DEF ExpireLate, CreateInsert, MarkLocked, Close
<1>13. CASE BurnLate(t) \/ Book(t)
  BY <1>5, <1>7, <1>8, <1>13 DEF BurnLate, Book
<1>14. CASE LockSelect(t) \/ SelectCoin(t) \/ Spend(t) \/ AssertBooks(t)
  <2>1. CASE LockSelect(t) \/ SelectCoin(t)
    BY <1>6, <1>7, <2>1 DEF LockSelect, SelectCoin
  <2>2. CASE Spend(t)
    BY <1>4, <1>7, <2>2 DEF Spend
  <2>3. CASE AssertBooks(t)
    <3> DEFINE label == IF LogsOutside(job[t]) THEN "audit" ELSE "commit"
    <3>1. Select(t, [job[t] EXCEPT !.pc = label])
      BY <2>3 DEF AssertBooks
    <3> HIDE DEF label
    <3> QED
      BY <1>6, <1>7, <3>1
  <2> QED
    BY <1>14, <2>1, <2>2, <2>3
<1>15. CASE ConfirmSelect(t) \/ CancelSelect(t)
  <2>1. ASSUME NEW p PROVE [job[t] EXCEPT !.pc = "credit", !.payee = p].op = job[t].op
    BY <1>1 DEF Job
  <2> QED
    BY <1>6, <1>7, <1>15, <2>1 DEF ConfirmSelect, CancelSelect
<1>16. CASE AuditOutside(t)
  <2>1. job' = [job EXCEPT ![t] = [job[t] EXCEPT !.pc = "commit"]] /\ storage' = storage
    BY <1>16 DEF AuditOutside
  <2>2. SameCash
    BY <2>1 DEF storage, SameCash, CapInv
  <2> QED
    BY <1>7, <2>1, <2>2, SteadyKeeps DEF Steady, Deposits
<1> QED
  BY <1>9, <1>10, <1>11, <1>12, <1>13, <1>14, <1>15, <1>16
     DEF Statement, PoolTimeout, DeadlockVictim

\* The other statements of a deposit.
LEMMA DepositEnds ==
  ASSUME Base, CapInv, NEW t \in Tx, Statement(t), Deposits(job[t]), ~Throw(t), ~CommitTx(t),
         ~Credit(t)
  PROVE  CapInv'
<1>1. /\ job[t] \in Job /\ job[t].op = "deposit"
      /\ job[t].pc \in {"credit", "book", "assert", "commit"}
  BY DEF Base, AimedJob, Deposits, CapInv, DepositInv
<1>2. ASSUME NEW label \in {"assert", "commit"}, job[t].pc # "credit"
      PROVE  Steady(job[t], [job[t] EXCEPT !.pc = label])
  <2> DEFINE next == [job[t] EXCEPT !.pc = label]
  <2>1. /\ next.op = job[t].op /\ next.user = job[t].user /\ next.payee = job[t].payee
        /\ next.amount = job[t].amount /\ next.pc = label
    BY <1>1 DEF Job
  <2> QED
    BY <1>1, <1>2, <2>1 DEF Steady, Deposits
<1>3. CASE Book(t)
  <2> DEFINE v == Booked(cur[ReserveRow], job[t])
             next == [job[t] EXCEPT !.pc = "assert"]
  <2>1. Update(t, ReserveRow, v, next) /\ job[t].pc = "book"
    BY <1>1, <1>3 DEF Book, At, Settlement
  <2>2. Steady(job[t], next)
    BY <1>2, <2>1
  <2> HIDE DEF v, next
  <2> QED
    BY <2>1, <2>2, UserRows, StatementKeeps
<1>4. CASE AssertBooks(t)
  <2> DEFINE next == [job[t] EXCEPT !.pc = "commit"]
  <2>1. Select(t, next) /\ job[t].pc = "assert"
    BY <1>1, <1>4 DEF AssertBooks, At, LogsOutside, Settlement
  <2>2. Steady(job[t], next)
    BY <1>2, <2>1
  <2> HIDE DEF next
  <2> QED
    BY <2>1, <2>2, UserRows, StatementKeeps
<1>5. /\ ~CleanCreated(t) /\ ~CleanSelect(t) /\ ~RefundLate(t) /\ ~ExpireLate(t) /\ ~BurnLate(t)
      /\ ~CreateInsert(t) /\ ~LockSelect(t) /\ ~SelectCoin(t)
  BY <1>1 DEF At, CleanCreated, CleanSelect, RefundLate, ExpireLate, BurnLate, CreateInsert,
              LockSelect, SelectCoin
<1>6. /\ ~Spend(t) /\ ~MarkLocked(t) /\ ~ConfirmSelect(t) /\ ~CancelSelect(t) /\ ~Close(t)
      /\ ~AuditOutside(t) /\ ~PoolTimeout(t) /\ ~DeadlockVictim(t)
  BY <1>1 DEF At, Spend, MarkLocked, ConfirmSelect, CancelSelect, Close,
              AuditOutside, PoolTimeout, DeadlockVictim
<1> QED
  BY <1>3, <1>4, <1>5, <1>6 DEF Statement

\* A request arrives; under Patient a deposit finds no other of its user.
LEMMA BeginKeepsCap ==
  ASSUME Base, CapInv, Patient, late \subseteq Escrow, NEW t \in Tx, Begin(t)
  PROVE  CapInv'
<1>1. ASSUME NEW request \in Job, Start(t, request), ~Deposits(request) PROVE CapInv'
  <2> DEFINE next == [request EXCEPT !.late = late]
  <2>1. job' = [job EXCEPT ![t] = next] /\ storage' = storage /\ job[t].pc = "idle"
    BY <1>1 DEF Start, At
  <2>2. ~Deposits(next) /\ ~Deposits(job[t])
    BY <1>1, <2>1 DEF Deposits, Job, CapInv, DepositInv
  <2>3. SameCash
    BY <2>1 DEF storage, SameCash, CapInv
  <2> HIDE DEF next
  <2> QED
    BY <2>1, <2>2, <2>3, SteadyKeeps DEF Steady
<1>2. ASSUME NEW u \in User, NEW amount \in Cash, BeginDeposit(t, u, amount) PROVE CapInv'
  <2> DEFINE request == [Idle EXCEPT !.op = "deposit", !.pc = "credit", !.user = u,
                                     !.amount = amount, !.payee = u]
             next == [request EXCEPT !.late = late]
  <2>1. /\ next.op = "deposit" /\ next.pc = "credit" /\ next.user = u /\ next.payee = u
        /\ next.amount = amount
        /\ request.op = "deposit" /\ request.user = u
    BY DEF Idle
  <2>2. /\ job' = [job EXCEPT ![t] = next] /\ storage' = storage /\ job[t].pc = "idle"
        /\ MayStart(request)
        /\ db[UserRow(u)].cash + db[UserRow(u)].income + amount <= DailyCap
    BY <1>2 DEF BeginDeposit, Start, At
  <2> HIDE DEF request, next
  <2>3. \A w \in Tx : Deposits(job[w]) => job[w].user # u
    <3>1. \A w \in Tx : ~(/\ job[w].op = "deposit" /\ request.op = "deposit"
                           /\ job[w].user = request.user)
      BY <2>2, Zenon DEF MayStart
    <3> QED
      BY <2>1, <3>1 DEF Deposits
  <2>4. db[UserRow(u)].cash + amount <= DailyCap /\ amount \in Nat
    <3>1. db[UserRow(u)].cash \in Nat /\ db[UserRow(u)].income \in Nat
      BY DEF CapInv, Account
    <3>2. amount \in Nat /\ DailyCap \in Nat
      BY MoneyAssumption
    <3>3. db[UserRow(u)].cash + db[UserRow(u)].income + amount <= DailyCap
      BY <2>2
    <3> QED
      BY <3>1, <3>2, <3>3
  <2>5. job'[t] = next /\ (\A w \in Tx \ {t} : job'[w] = job[w]) /\ ~Deposits(job[t])
    BY <2>2 DEF Base, CapInv, DepositInv, Deposits
  <2>6. \A w \in Tx : DepositInv(w, job[w])'
    BY <2>1, <2>2, <2>4, <2>5 DEF CapInv, DepositInv, storage
  <2>7. \A w \in User :
           /\ Account(db'[UserRow(w)]) /\ Account(cur'[UserRow(w)])
           /\ cur'[UserRow(w)].cash # db'[UserRow(w)].cash =>
                  \E x \in Tx : IsCredited(job'[x]) /\ job'[x].user = w
    BY <2>2, <2>5 DEF CapInv, storage, IsCredited
  <2>8. \A v \in Tx : \A w \in Tx \ {v} :
          Deposits(job'[v]) /\ Deposits(job'[w]) => job'[v].user # job'[w].user
    BY <2>1, <2>3, <2>5 DEF CapInv
  <2> QED
    BY <2>6, <2>7, <2>8 DEF CapInv, IsCredited, Deposits
<1>3. ASSUME NEW e \in Escrow, BeginCreate(t, e) \/ BeginDetails(t, e) PROVE CapInv'
  <2>1. /\ [Idle EXCEPT !.op = "create", !.pc = "insert", !.user = Merchant[e], !.esc = e]
             \in {r \in Job : r.op = "create"}
        /\ [Idle EXCEPT !.op = "details", !.pc = "cleanup", !.esc = e]
             \in {r \in Job : r.op = "details"}
    BY MerchantAssumption DEF Idle, Job, Op, Label
  <2> QED
    BY <1>1, <1>3, <2>1 DEF BeginCreate, BeginDetails, Deposits
<1>4. ASSUME NEW e \in Escrow, NEW u \in User, NEW c \in Coin, BeginLock(t, u, e, c) PROVE CapInv'
  <2>1. [Idle EXCEPT !.op = "lock", !.pc = "cleanup", !.user = u, !.esc = e, !.coin = c]
          \in {r \in Job : r.op = "lock"}
    BY DEF Idle, Job, Op, Audited, Label
  <2> QED
    BY <1>1, <1>4, <2>1 DEF BeginLock, Deposits
<1>5. ASSUME NEW e \in Escrow, NEW u \in User, NEW op \in Settlement, BeginSettle(t, op, u, e)
      PROVE  CapInv'
  <2>1. [Idle EXCEPT !.op = op, !.pc = "cleanup", !.user = u, !.esc = e]
          \in {r \in Job : r.op = op}
    BY DEF Idle, Job, Op, Audited, Label
  <2> QED
    BY <1>1, <1>5, <2>1 DEF BeginSettle, Deposits, Settlement
<1>6. ASSUME NEW u \in User, NEW c \in Coin, NEW op \in Payment, BeginPay(t, op, u, c) PROVE CapInv'
  <2>1. [Idle EXCEPT !.op = op, !.pc = "coin", !.user = u, !.coin = c, !.payee = u]
          \in {r \in Job : r.op = op}
    BY DEF Idle, Job, Op, Label
  <2> QED
    BY <1>1, <1>6, <2>1 DEF BeginPay, Deposits, Payment
<1> QED
  BY <1>2, <1>3, <1>4, <1>5, <1>6 DEF Begin

-----------------------------------------------------------------------------
(* The specification                                                       *)

LEMMA InitCapInv == DbInit => CapInv
<1> SUFFICES ASSUME DbInit PROVE CapInv
  OBVIOUS
<1>1. \A u \in User : /\ db[UserRow(u)] = [balance |-> Opening, cash |-> 0, income |-> 0]
                      /\ cur[UserRow(u)] = db[UserRow(u)]
  <2>1. \A u \in User : UserRow(u)[1] = "user"
    BY DEF UserRow
  <2> QED
    BY <2>1, UserRows DEF DbInit
<1>2. \A t \in Tx : ~Deposits(job[t])
  BY DEF DbInit, Idle, Deposits
<1> QED
  BY <1>1, <1>2, MoneyAssumption DEF CapInv, Account, DepositInv

LEMMA NextCapInv == Patient /\ IInv /\ CapInv /\ [Next]_vars => CapInv'
<1> SUFFICES ASSUME Patient, IInv, CapInv, [Next]_vars PROVE CapInv'
  OBVIOUS
<1>1. Base /\ late \subseteq Escrow
  BY DEF IInv, TablesInv, RequestsInv, Base
<1>2. CASE UNCHANGED <<storage, job>>
  BY <1>2 DEF storage, CapInv, DepositInv
<1>3. CASE UNCHANGED vars \/ \E e \in Escrow : TimePasses(e)
  BY <1>2, <1>3 DEF vars, storage, TimePasses
<1>4. ASSUME NEW t \in Tx, Begin(t) PROVE CapInv'
  BY <1>1, <1>4, BeginKeepsCap
<1>5. ASSUME NEW t \in Tx, Statement(t) PROVE CapInv'
  BY <1>1, <1>5, ThrowKeepsCap, CommitKeepsCap, DepositKeeps, DepositEnds, OthersKeep
<1>6. CASE Crash
  BY <1>1, <1>6, CrashKeepsCap
<1> QED
  BY <1>3, <1>4, <1>5, <1>6 DEF Next, Step

\* bankService.js: nobody pays in more cash than MAX_DEPOSIT_PER_DAY within the day, as long as
\* the deposits of one user come one at a time.
THEOREM DailyCapHolds ==
  ASSUME Patient
  PROVE  Spec => []DailyCapKept
<1>1. CapInv => DailyCapKept
  BY DEF CapInv, Account, DailyCapKept
<1>2. IInv /\ CapInv /\ [Next]_vars => CapInv'
  BY NextCapInv
<1> QED
  BY <1>1, <1>2, InitCapInv, Inductive, PTL DEF Spec

-----------------------------------------------------------------------------
(***************************************************************************)
(* The books, however the requests overlap.  Gap says how far a version of *)
(* the tables is from the reserve equation; every request changes it by    *)
(* what it still owes, Due, whatever the others commit in the meantime.    *)
(***************************************************************************)
MoneyIn(version) ==
    /\ \A u \in User : version[UserRow(u)] \in UserValue
    /\ version[ReserveRow] \in ReserveValue

Paper(bank) == bank.reserve_balance - (bank.total_issued - bank.total_redeemed)
Balances(version) == SumFunction([u \in User |-> version[UserRow(u)].balance])
Gap(version) == Paper(version[ReserveRow]) - Balances(version)

\* What the statements of request t have changed of it so far.
Change(t) == Gap(View(t)) - Gap(db)

\* A request between the UPDATE of users and the one of bank_reserve has credited too much.
Due(request) ==
    IF request.pc = "book" THEN 0 - Moved(request)
    ELSE IF request.pc \in {"expireLate", "burnLate"} THEN 0 - Price[request.row]
    ELSE 0

\* A request about to pay has somebody to pay to, and something to pay.
Pays(request) ==
    /\ request.op \in Payment \/ request.pc = "credit" => request.payee \in User
    /\ request.pc \in {"credit", "book"} => request.op \in Settlement \cup Payment \cup {"deposit"}
    /\ request.pc \in {"expireLate", "burnLate"} => request.row \in Escrow

BooksInv ==
    /\ MoneyIn(db) /\ MoneyIn(cur)
    /\ Gap(db) = 0
    /\ \A t \in Tx : Pays(job[t]) /\ Change(t) = Due(job[t])

\* The sums are integers, and the reserve equation says that there is no gap.
LEMMA GapTyped ==
  ASSUME NEW version, MoneyIn(version)
  PROVE  /\ Balances(version) \in Int /\ Paper(version[ReserveRow]) \in Int
         /\ Gap(version) \in Int
         /\ Balanced(version) <=> Gap(version) = 0
<1>1. [u \in User |-> version[UserRow(u)].balance] \in [User -> Int]
  BY DEF MoneyIn, UserValue
<1>2. Balances(version) \in Int
  BY <1>1, SumInt, FiniteAssumption DEF Balances
<1>3. PICK bank \in ReserveValue : bank = version[ReserveRow]
  BY DEF MoneyIn
<1>4. bank.reserve_balance \in Int /\ bank.total_issued \in Int /\ bank.total_redeemed \in Int
  BY DEF ReserveValue
<1> QED
  BY <1>2, <1>3, <1>4 DEF Gap, Balanced, Balances, Paper

\* A write of one users row.
LEMMA GapOfUser ==
  ASSUME NEW v, NEW w, MoneyIn(v), MoneyIn(w), NEW u \in User,
         \A r \in Row \ {UserRow(u)} : w[r] = v[r]
  PROVE  Gap(w) = Gap(v) + v[UserRow(u)].balance - w[UserRow(u)].balance
<1> DEFINE f == [x \in User |-> v[UserRow(x)].balance]
           g == [x \in User |-> w[UserRow(x)].balance]
<1>1. f \in [User -> Int] /\ g \in [User -> Int]
  BY DEF MoneyIn, UserValue
<1>2. \A x \in User : x # u => g[x] = f[x]
  BY UserRows
<1>3. f[u] = v[UserRow(u)].balance /\ g[u] = w[UserRow(u)].balance
  OBVIOUS
<1>4. Balances(v) = SumFunction(f) /\ Balances(w) = SumFunction(g)
  BY DEF Balances
<1> HIDE DEF f, g
<1>5. SumFunction(g) = SumFunction(f) - f[u] + g[u]
  BY <1>1, <1>2, SumChange, FiniteAssumption
<1>6. w[ReserveRow] = v[ReserveRow]
  BY UserRows DEF Row
<1>7. PICK a \in Int, b \in Int : a = f[u] /\ b = g[u]
  BY <1>1
<1>8. PICK p \in Int, x \in Int : p = Paper(v[ReserveRow]) /\ x = Balances(v)
  BY GapTyped
<1>9. Gap(v) = p - x /\ Gap(w) = p - (x - a + b)
  BY <1>4, <1>5, <1>6, <1>7, <1>8 DEF Gap
<1> QED
  BY <1>3, <1>7, <1>8, <1>9

\* A write of another row.
LEMMA GapElsewhere ==
  ASSUME NEW v, NEW w, MoneyIn(v), MoneyIn(w), \A u \in User : w[UserRow(u)] = v[UserRow(u)]
  PROVE  Gap(w) = Gap(v) - Paper(v[ReserveRow]) + Paper(w[ReserveRow])
<1>1. Balances(w) = Balances(v)
  BY DEF Balances
<1> QED
  BY <1>1, GapTyped DEF Gap

\* Where a row is the same in v as in w and in x as in y, or else in v as in x and in w as in y.
LEMMA GapLinear ==
  ASSUME NEW v, NEW w, NEW x, NEW y, MoneyIn(v), MoneyIn(w), MoneyIn(x), MoneyIn(y),
         \A r \in Row : (v[r] = w[r] /\ x[r] = y[r]) \/ (v[r] = x[r] /\ w[r] = y[r])
  PROVE  Gap(v) - Gap(w) = Gap(x) - Gap(y)
<1>1. Balances(v) - Balances(w) = Balances(x) - Balances(y)
  <2> DEFINE f(a) == [u \in User |-> a[UserRow(u)].balance]
  <2>1. /\ f(v) \in [User -> Int] /\ f(w) \in [User -> Int]
        /\ f(x) \in [User -> Int] /\ f(y) \in [User -> Int]
    BY DEF MoneyIn, UserValue
  <2>2. \A u \in User : f(v)[u] - f(w)[u] = f(x)[u] - f(y)[u]
    <3> TAKE u \in User
    <3>1. UserRow(u) \in Row
      BY UserRows
    <3>2. (f(v)[u] = f(w)[u] /\ f(x)[u] = f(y)[u]) \/ (f(v)[u] = f(x)[u] /\ f(w)[u] = f(y)[u])
      BY <3>1
    <3>3. f(v)[u] \in Int /\ f(w)[u] \in Int /\ f(x)[u] \in Int /\ f(y)[u] \in Int
      BY <2>1
    <3> HIDE DEF f
    <3> QED
      BY <3>2, <3>3
  <2> HIDE DEF f
  <2>3. SumFunction(f(v)) - SumFunction(f(w)) = SumFunction(f(x)) - SumFunction(f(y))
    BY <2>1, <2>2, SumLinear, FiniteAssumption
  <2> QED
    BY <2>3 DEF Balances, f
<1>2. \/ Paper(v[ReserveRow]) = Paper(w[ReserveRow]) /\ Paper(x[ReserveRow]) = Paper(y[ReserveRow])
      \/ Paper(v[ReserveRow]) = Paper(x[ReserveRow]) /\ Paper(w[ReserveRow]) = Paper(y[ReserveRow])
  BY DEF Row
<1>3. /\ Paper(v[ReserveRow]) \in Int /\ Balances(v) \in Int
      /\ Paper(w[ReserveRow]) \in Int /\ Balances(w) \in Int
      /\ Paper(x[ReserveRow]) \in Int /\ Balances(x) \in Int
      /\ Paper(y[ReserveRow]) \in Int /\ Balances(y) \in Int
  BY GapTyped
<1> QED
  BY <1>1, <1>2, <1>3 DEF Gap

-----------------------------------------------------------------------------
(* What a request sees                                                     *)

\* Money is where it belongs in every view.
LEMMA Views ==
  ASSUME MoneyIn(db), MoneyIn(cur), NEW t \in Tx
  PROVE  /\ \A r \in Row : View(t)[r] = IF lock[r] = t THEN cur[r] ELSE db[r]
         /\ MoneyIn(View(t))
         /\ Gap(View(t)) \in Int /\ Gap(db) \in Int /\ Change(t) \in Int
<1>1. \A r \in Row : View(t)[r] = IF lock[r] = t THEN cur[r] ELSE db[r]
  BY DEF View, Read
<1>2. MoneyIn(View(t))
  BY <1>1, UserRows DEF MoneyIn, Row
<1> QED
  BY <1>1, <1>2, GapTyped DEF Change

\* A write leaves the money where it belongs.
LEMMA MoneyWritten ==
  ASSUME IInv, MoneyIn(db), MoneyIn(cur), NEW t \in Tx, NEW row \in Row, NEW v, Write(t, row, v),
         \A u \in User : row = UserRow(u) => v \in UserValue,
         row = ReserveRow => v \in ReserveValue
  PROVE  MoneyIn(db)' /\ MoneyIn(cur)'
<1>1. db' = db /\ cur' = [r \in Row |-> IF r = row THEN v ELSE cur[r]]
  BY WriteFacts DEF IInv, TablesInv
<1> QED
  BY <1>1, UserRows DEF MoneyIn, Row

\* What everybody sees after a write.
LEMMA WriteViews ==
  ASSUME IInv, NEW t \in Tx, NEW row \in Row, NEW v, Write(t, row, v)
  PROVE  /\ db' = db
         /\ View(t)[row] = cur[row] /\ View(t)'[row] = v
         /\ \A r \in Row \ {row} : View(t)'[r] = View(t)[r]
         /\ \A u \in Tx \ {t} : View(u)' = View(u)
<1>1. /\ lock \in [Row -> Tx \cup {NoTx}] /\ cur = [r \in Row |-> cur[r]] /\ OneVersion
  BY DEF IInv, TablesInv, StorageTyped
<1>2. /\ db' = db /\ cur' = [r \in Row |-> IF r = row THEN v ELSE cur[r]]
      /\ lock' = [r \in Row |-> IF r = row THEN t ELSE lock[r]] /\ lock[row] \in {t, NoTx}
  BY WriteFacts DEF IInv, TablesInv
<1>3. \A r \in Row : /\ View(t)[r] = IF lock[r] = t THEN cur[r] ELSE db[r]
                     /\ View(t)'[r] = IF lock'[r] = t THEN cur'[r] ELSE db[r]
  BY <1>2 DEF View, Read
<1>4. View(t)[row] = cur[row] /\ View(t)'[row] = v /\ \A r \in Row \ {row} : View(t)'[r] = View(t)[r]
  BY <1>1, <1>2, <1>3 DEF OneVersion
<1>5. ASSUME NEW u \in Tx \ {t} PROVE View(u)' = View(u)
  <2>1. \A r \in Row : (IF lock'[r] = u THEN cur'[r] ELSE db'[r]) = (IF lock[r] = u THEN cur[r] ELSE db[r])
    BY <1>2, NoneAssumption
  <2> QED
    BY <2>1 DEF View, Read
<1> QED
  BY <1>2, <1>4, <1>5

-----------------------------------------------------------------------------
(* What a step does to the books                                           *)

\* Sums of money are integers.
LEMMA DueTyped ==
  ASSUME NEW request \in AimedJob, Pays(request)
  PROVE  /\ Due(request) \in Int
         /\ request.pc \in {"credit", "book"} => Moved(request) \in Nat
<1>1. request \in Job /\ Aims(request)
  BY DEF AimedJob
<1>2. ASSUME request.pc \in {"credit", "book"} PROVE Moved(request) \in Nat
  <2>1. CASE request.op \in Settlement
    <3>1. request.esc \in Escrow
      BY <1>1, <2>1 DEF Aims, Audited
    <3> QED
      BY <2>1, <3>1, ValueAssumption DEF Moved
  <2>2. CASE request.op \in Payment
    <3>1. request.coin \in Coin
      BY <1>1, <2>2 DEF Aims
    <3> QED
      BY <2>2, <3>1, ValueAssumption DEF Moved, Settlement, Payment
  <2>3. CASE request.op = "deposit"
    <3>0. PICK a \in Cash \cup {0} : a = request.amount
      BY <1>1 DEF Job
    <3>1. a \in Nat
      BY MoneyAssumption
    <3>2. Moved(request) = request.amount
      BY <2>3 DEF Moved, Settlement, Payment
    <3> QED
      BY <3>0, <3>1, <3>2
  <2> QED
    BY <1>2, <2>1, <2>2, <2>3 DEF Pays
<1>3. request.pc \in {"expireLate", "burnLate"} => Price[request.row] \in Nat
  BY ValueAssumption DEF Pays
<1>4. CASE request.pc = "book"
  <2>1. PICK m \in Nat : m = Moved(request)
    BY <1>2, <1>4
  <2> QED
    BY <1>2, <1>4, <2>1 DEF Due
<1>5. CASE request.pc \in {"expireLate", "burnLate"}
  <2>1. PICK m \in Nat : m = Price[request.row]
    BY <1>3, <1>5
  <2> QED
    BY <1>2, <1>5, <2>1 DEF Due
<1>6. CASE request.pc \notin {"book", "expireLate", "burnLate"}
  BY <1>2, <1>6 DEF Due
<1> QED
  BY <1>4, <1>5, <1>6

\* A statement of t changes the gap t sees by as much as what it owes changes.
LEMMA BooksStep ==
  ASSUME IInv, IInv', BooksInv, NEW t \in Tx, NEW next, job' = [job EXCEPT ![t] = next],
         db' = db, MoneyIn(cur)', \A u \in Tx \ {t} : View(u)' = View(u),
         Pays(next), NEW after, after = View(t)',
         Gap(after) = Gap(View(t)) + (Due(next) - Due(job[t]))
  PROVE  BooksInv'
<1>1. /\ job'[t] = next /\ \A u \in Tx \ {t} : job'[u] = job[u]
      /\ job[t] \in AimedJob /\ next \in AimedJob
  BY DEF IInv, RequestsInv
<1>2. MoneyIn(db)' /\ Gap(db)' = 0
  BY DEF BooksInv, Gap, MoneyIn, Balances
<1>3. ASSUME NEW u \in Tx \ {t} PROVE Pays(job[u])' /\ Change(u)' = Due(job[u])'
  <2>1. Change(u)' = Change(u)
    BY DEF Change, Gap, Balances
  <2> QED
    BY <1>1, <2>1 DEF BooksInv, Pays, Due, Moved
<1>4. Change(t)' = Gap(after) - Gap(db)
  BY DEF Change, Gap, Balances
<1>5. Change(t)' = Due(next)
  <2>1. PICK g \in Int : g = Gap(View(t))
    BY Views DEF BooksInv
  <2>2. Gap(db) = 0 /\ g = Due(job[t])
    BY <2>1 DEF BooksInv, Change
  <2>3. PICK d \in Int, x \in Int : d = Due(next) /\ x = Due(job[t])
    BY <1>1, DueTyped DEF BooksInv
  <2>4. Gap(after) = g + (d - x)
    BY <2>1, <2>3
  <2> QED
    BY <1>4, <2>2, <2>3, <2>4
<1>6. Pays(job[t])' /\ Change(t)' = Due(job[t])'
  BY <1>1, <1>5 DEF Pays, Due, Moved
<1> QED
  BY <1>2, <1>3, <1>6 DEF BooksInv

\* A SELECT, or anything else that leaves the tables alone.
LEMMA BooksRead ==
  ASSUME IInv, IInv', BooksInv, NEW t \in Tx, NEW next, job' = [job EXCEPT ![t] = next],
         UNCHANGED storage, Pays(next), Due(next) = Due(job[t])
  PROVE  BooksInv'
<1>1. db' = db /\ MoneyIn(cur)' /\ \A u \in Tx : View(u)' = View(u)
  BY DEF storage, BooksInv, MoneyIn, View, Read
<1>2. PICK after : after = View(t)'
  OBVIOUS
<1>3. job[t] \in AimedJob /\ Pays(job[t])
  BY DEF IInv, RequestsInv, BooksInv
<1>4. PICK g \in Int : g = Gap(View(t))
  BY Views DEF BooksInv
<1>5. PICK d \in Int : d = Due(job[t])
  BY <1>3, DueTyped
<1>6. g = g + (d - d)
  BY <1>4, <1>5
<1>7. Gap(after) = Gap(View(t)) + (Due(next) - Due(job[t]))
  BY <1>1, <1>2, <1>4, <1>5, <1>6
<1> QED
  BY <1>1, <1>2, <1>7, BooksStep

\* An UPDATE of users.
LEMMA BooksOfUser ==
  ASSUME IInv, IInv', BooksInv, NEW t \in Tx, NEW u \in User, NEW v \in UserValue, NEW next,
         Update(t, UserRow(u), v, next), Pays(next),
         v.balance = cur[UserRow(u)].balance + (Due(job[t]) - Due(next))
  PROVE  BooksInv'
<1> DEFINE row == UserRow(u)
<1>1. /\ Write(t, row, v) /\ job' = [job EXCEPT ![t] = next] /\ row \in Row /\ row # ReserveRow
  BY UserRows DEF Update
<1>2. MoneyIn(db) /\ MoneyIn(cur) /\ MoneyIn(db)' /\ MoneyIn(cur)'
  BY <1>1, MoneyWritten DEF BooksInv
<1>3. PICK after : after = View(t)'
  OBVIOUS
<1>4. /\ db' = db /\ View(t)[row] = cur[row] /\ after[row] = v
      /\ \A r \in Row \ {row} : after[r] = View(t)[r]
      /\ \A w \in Tx \ {t} : View(w)' = View(w)
  BY <1>1, <1>3, WriteViews
<1>5. MoneyIn(View(t))
  BY <1>2, Views
<1>6. MoneyIn(after)
  BY <1>4, <1>5, UserRows DEF MoneyIn, Row
<1>7. Gap(after) = Gap(View(t)) + View(t)[row].balance - after[row].balance
  BY <1>4, <1>5, <1>6, GapOfUser
<1>8. Gap(after) = Gap(View(t)) + (Due(next) - Due(job[t]))
  <2>1. PICK g \in Int : g = Gap(View(t))
    BY <1>5, GapTyped
  <2>2. PICK b \in Int : b = cur[row].balance
    BY <1>2 DEF MoneyIn, UserValue
  <2>3. job[t] \in AimedJob /\ next \in AimedJob /\ Pays(job[t])
    BY <1>1 DEF IInv, RequestsInv, BooksInv
  <2>4. PICK x \in Int, y \in Int : x = Due(job[t]) /\ y = Due(next)
    BY <2>3, DueTyped
  <2> QED
    BY <1>4, <1>7, <2>1, <2>2, <2>4
<1> QED
  BY <1>1, <1>2, <1>3, <1>4, <1>8, BooksStep

\* An UPDATE of bank_reserve.
LEMMA BooksOfReserve ==
  ASSUME IInv, IInv', BooksInv, NEW t \in Tx, NEW v \in ReserveValue, NEW next,
         Update(t, ReserveRow, v, next), Pays(next),
         Paper(v) = Paper(cur[ReserveRow]) + (Due(next) - Due(job[t]))
  PROVE  BooksInv'
<1>1. /\ Write(t, ReserveRow, v) /\ job' = [job EXCEPT ![t] = next] /\ ReserveRow \in Row
      /\ \A u \in User : UserRow(u) # ReserveRow /\ UserRow(u) \in Row
  BY UserRows DEF Update, Row
<1>2. MoneyIn(db) /\ MoneyIn(cur) /\ MoneyIn(db)' /\ MoneyIn(cur)'
  BY <1>1, MoneyWritten DEF BooksInv
<1>3. PICK after : after = View(t)'
  OBVIOUS
<1>4. /\ db' = db /\ View(t)[ReserveRow] = cur[ReserveRow] /\ after[ReserveRow] = v
      /\ \A r \in Row \ {ReserveRow} : after[r] = View(t)[r]
      /\ \A w \in Tx \ {t} : View(w)' = View(w)
  BY <1>1, <1>3, WriteViews
<1>5. MoneyIn(View(t))
  BY <1>2, Views
<1>6. MoneyIn(after)
  BY <1>1, <1>4, <1>5 DEF MoneyIn
<1>7. Gap(after) = Gap(View(t)) - Paper(View(t)[ReserveRow]) + Paper(after[ReserveRow])
  BY <1>1, <1>4, <1>5, <1>6, GapElsewhere
<1>8. Gap(after) = Gap(View(t)) + (Due(next) - Due(job[t]))
  <2>1. PICK g \in Int : g = Gap(View(t))
    BY <1>5, GapTyped
  <2>2. PICK b \in Int : b = Paper(cur[ReserveRow])
    BY <1>2, GapTyped
  <2>3. job[t] \in AimedJob /\ next \in AimedJob /\ Pays(job[t])
    BY <1>1 DEF IInv, RequestsInv, BooksInv
  <2>4. PICK x \in Int, y \in Int : x = Due(job[t]) /\ y = Due(next)
    BY <2>3, DueTyped
  <2> QED
    BY <1>4, <1>7, <2>1, <2>2, <2>4
<1> QED
  BY <1>1, <1>2, <1>3, <1>4, <1>8, BooksStep

\* A write of a token or an escrow.
LEMMA BooksElsewhere ==
  ASSUME IInv, IInv', BooksInv, NEW t \in Tx, NEW row, NEW v, NEW next, Update(t, row, v, next),
         (\E e \in Escrow : row = EscrowRow(e)) \/ (\E c \in Coin : row = CoinRow(c)),
         Pays(next), Due(next) = Due(job[t])
  PROVE  BooksInv'
<1>1. /\ Write(t, row, v) /\ job' = [job EXCEPT ![t] = next] /\ row \in Row
      /\ ReserveRow \in Row /\ ReserveRow # row /\ \A u \in User : UserRow(u) # row /\ UserRow(u) \in Row
  BY Rows, UserRows DEF Update, Row
<1>2. MoneyIn(db) /\ MoneyIn(cur) /\ MoneyIn(db)' /\ MoneyIn(cur)'
  BY <1>1, MoneyWritten DEF BooksInv
<1>3. PICK after : after = View(t)'
  OBVIOUS
<1>4. /\ db' = db
      /\ \A r \in Row \ {row} : after[r] = View(t)[r]
      /\ \A w \in Tx \ {t} : View(w)' = View(w)
  BY <1>1, <1>3, WriteViews
<1>5. MoneyIn(View(t))
  BY <1>2, Views
<1>6. MoneyIn(after)
  BY <1>1, <1>4, <1>5 DEF MoneyIn
<1>7. Gap(after) = Gap(View(t)) - Paper(View(t)[ReserveRow]) + Paper(after[ReserveRow])
  BY <1>1, <1>4, <1>5, <1>6, GapElsewhere
<1>8. Gap(after) = Gap(View(t)) + (Due(next) - Due(job[t]))
  <2>1. PICK g \in Int : g = Gap(View(t))
    BY <1>5, GapTyped
  <2>2. PICK b \in Int : b = Paper(View(t)[ReserveRow])
    BY <1>5, GapTyped
  <2>3. job[t] \in AimedJob /\ Pays(job[t])
    BY DEF IInv, RequestsInv, BooksInv
  <2>4. PICK x \in Int : x = Due(job[t])
    BY <2>3, DueTyped
  <2> QED
    BY <1>1, <1>4, <1>7, <2>1, <2>2, <2>4
<1> QED
  BY <1>1, <1>2, <1>3, <1>4, <1>8, BooksStep

-----------------------------------------------------------------------------
(* Statement by statement                                                  *)

\* A request that goes on at another label keeps the rest.
LEMMA Relabelled ==
  ASSUME NEW request \in Job, NEW label, NEW next, next = [request EXCEPT !.pc = label]
  PROVE  /\ next.pc = label /\ next.op = request.op /\ next.user = request.user
         /\ next.esc = request.esc /\ next.coin = request.coin /\ next.amount = request.amount
         /\ next.payee = request.payee /\ next.row = request.row /\ next.overdue = request.overdue
         /\ Moved(next) = Moved(request)
<1>1. /\ next.pc = label /\ next.op = request.op /\ next.user = request.user
      /\ next.esc = request.esc /\ next.coin = request.coin /\ next.amount = request.amount
      /\ next.payee = request.payee /\ next.row = request.row /\ next.overdue = request.overdue
  BY DEF Job
<1> QED
  BY <1>1 DEF Moved

\* Labels at which nothing is owed.
Even == Label \ {"book", "expireLate", "burnLate"}

LEMMA EvenDue ==
  ASSUME NEW request \in Job, request.pc \in Even
  PROVE  Due(request) = 0
  BY DEF Due, Even

\* What a request goes on as after the cleanup.
LEMMA AfterwardsDue ==
  ASSUME NEW request \in Job, request.op \in Audited \cup {"details"}
  PROVE  Pays(AfterCleanup(request)) /\ Due(AfterCleanup(request)) = 0
<1> DEFINE next == AfterCleanup(request)
           label == IF request.op = "details" THEN "commit" ELSE "select"
<1>1. next.op = request.op /\ next.pc = label
  BY DEF AfterCleanup, Job
<1>2. label \notin {"book", "expireLate", "burnLate", "credit"} /\ request.op \notin Payment
  BY DEF Audited, Settlement, Payment
<1> HIDE DEF next, label
<1>3. Pays(next) /\ Due(next) = 0
  BY <1>1, <1>2 DEF Pays, Due
<1> QED
  BY <1>3 DEF next

LEMMA CleanupBooks ==
  ASSUME IInv, IInv', BooksInv, NEW t \in Tx,
         CleanCreated(t) \/ CleanSelect(t) \/ RefundLate(t) \/ ExpireLate(t) \/ BurnLate(t)
  PROVE  BooksInv'
<1>1. /\ job[t] \in Job /\ Aims(job[t]) /\ Pays(job[t])
      /\ job[t].op \in Audited \cup {"details"} /\ job[t].op \notin Payment
  BY DEF IInv, RequestsInv, BooksInv, AimedJob, Aims, CleanCreated, CleanSelect, RefundLate,
         ExpireLate, BurnLate, At, Audited, Settlement, Payment
<1>2. CASE CleanCreated(t)
  <2>1. PICK e \in Escrow :
           Update(t, EscrowRow(e), [cur[EscrowRow(e)] EXCEPT !.status = "expired"], job[t])
    BY <1>2 DEF CleanCreated, Lapsed, IInv, RequestsInv, AimedJob, Job
  <2> QED
    BY <1>1, <2>1, BooksElsewhere
<1>3. CASE CleanSelect(t)
  <2>1. PICK rows : Select(t, IF rows = {} THEN AfterCleanup(job[t])
                                   ELSE [job[t] EXCEPT !.pc = "refundLate", !.overdue = rows])
    BY <1>3 DEF CleanSelect
  <2>2. job[t].pc = "cleanup"
    BY <1>3 DEF CleanSelect, At
  <2>3. Due(job[t]) = 0
    BY <2>2 DEF Due
  <2>4. CASE rows = {}
    BY <1>1, <2>1, <2>3, <2>4, AfterwardsDue, BooksRead DEF Select
  <2>5. CASE rows # {}
    <3>1. PICK next : next = [job[t] EXCEPT !.pc = "refundLate", !.overdue = rows]
      OBVIOUS
    <3>2. next.pc = "refundLate" /\ next.op = job[t].op
      BY <1>1, <3>1 DEF Job
    <3>3. Pays(next) /\ Due(next) = 0
      BY <1>1, <3>2 DEF Pays, Due
    <3>4. job' = [job EXCEPT ![t] = next] /\ UNCHANGED storage
      BY <2>1, <2>5, <3>1 DEF Select
    <3> QED
      BY <2>3, <3>3, <3>4, BooksRead
  <2> QED
    BY <2>4, <2>5
<1>4. CASE RefundLate(t)
  <2>1. PICK x \in job[t].overdue :
           Update(t, UserRow(x[2]), Grow(cur[UserRow(x[2])], Price[x[1]]),
                  [job[t] EXCEPT !.pc = "expireLate", !.row = x[1], !.overdue = @ \ {x}])
    BY <1>4 DEF RefundLate
  <2>2. x[1] \in Escrow /\ x[2] \in User
    BY <1>1 DEF Job
  <2>3. PICK u \in User : u = x[2]
    BY <2>2
  <2>4. PICK next : next = [job[t] EXCEPT !.pc = "expireLate", !.row = x[1], !.overdue = @ \ {x}]
    OBVIOUS
  <2>5. next.pc = "expireLate" /\ next.op = job[t].op /\ next.row = x[1]
    BY <1>1, <2>4 DEF Job
  <2>6. Pays(next) /\ Due(next) = 0 - Price[x[1]]
    BY <1>1, <2>2, <2>5 DEF Pays, Due
  <2>7. Due(job[t]) = 0
    BY <1>4 DEF RefundLate, At, Due
  <2>8. PICK p \in Nat : p = Price[x[1]]
    BY <2>2, ValueAssumption
  <2>9. PICK v : v = Grow(cur[UserRow(u)], p)
    OBVIOUS
  <2>10. cur[UserRow(u)] \in UserValue
    BY DEF BooksInv, MoneyIn
  <2>11. v \in UserValue /\ v.balance = cur[UserRow(u)].balance + p
    BY <2>9, <2>10 DEF Grow, UserValue
  <2>12. v.balance = cur[UserRow(u)].balance + (Due(job[t]) - Due(next))
    BY <2>6, <2>7, <2>8, <2>11
  <2>13. Update(t, UserRow(u), v, next)
    BY <2>1, <2>3, <2>4, <2>8, <2>9
  <2> QED
    BY <2>6, <2>11, <2>12, <2>13, BooksOfUser
<1>5. CASE ExpireLate(t)
  <2>1. PICK e : e = job[t].row
    OBVIOUS
  <2>2. PICK next : next = [job[t] EXCEPT !.pc = "burnLate"]
    OBVIOUS
  <2>3. /\ job[t].pc = "expireLate"
        /\ Update(t, EscrowRow(e), [cur[EscrowRow(e)] EXCEPT !.status = "expired"], next)
    BY <1>5, <2>1, <2>2 DEF ExpireLate, At
  <2>4. next.pc = "burnLate" /\ next.op = job[t].op /\ next.row = e
    BY <1>1, <2>1, <2>2, Relabelled
  <2>5. e \in Escrow
    BY <1>1, <2>1, <2>3 DEF Pays
  <2>6. Pays(next) /\ Due(next) = Due(job[t])
    BY <1>1, <2>1, <2>3, <2>4, <2>5 DEF Pays, Due
  <2> QED
    BY <2>3, <2>5, <2>6, BooksElsewhere
<1>6. CASE BurnLate(t)
  <2>1. PICK e \in Escrow : e = job[t].row
    BY <1>1, <1>6 DEF Pays, BurnLate, At
  <2>2. PICK next : next = IF job[t].overdue = {} THEN AfterCleanup(job[t])
                           ELSE [job[t] EXCEPT !.pc = "refundLate"]
    OBVIOUS
  <2>3. Pays(next) /\ Due(next) = 0
    <3>1. CASE job[t].overdue = {}
      BY <1>1, <2>2, <3>1, AfterwardsDue
    <3>2. CASE job[t].overdue # {}
      <4>1. next.pc = "refundLate" /\ next.op = job[t].op
        BY <1>1, <2>2, <3>2, Relabelled
      <4> QED
        BY <1>1, <4>1 DEF Pays, Due
    <3> QED
      BY <3>1, <3>2
  <2>4. PICK p \in Nat : p = Price[e]
    BY ValueAssumption
  <2>5. Due(job[t]) = 0 - p
    BY <1>6, <2>1, <2>4 DEF BurnLate, At, Due
  <2>6. PICK bank \in ReserveValue : bank = cur[ReserveRow]
    BY DEF BooksInv, MoneyIn
  <2>7. PICK v : v = Burn(bank, p)
    OBVIOUS
  <2>8. v \in ReserveValue /\ Paper(v) = Paper(bank) + (Due(next) - Due(job[t]))
    <3>1. /\ v \in ReserveValue /\ v.reserve_balance = bank.reserve_balance
          /\ v.total_issued = bank.total_issued - p /\ v.total_redeemed = bank.total_redeemed
      BY <2>7 DEF Burn, ReserveValue
    <3>2. /\ bank.reserve_balance \in Int /\ bank.total_issued \in Int /\ bank.total_redeemed \in Int
      BY DEF ReserveValue
    <3> QED
      BY <2>3, <2>5, <3>1, <3>2 DEF Paper
  <2>9. Update(t, ReserveRow, v, next)
    BY <1>6, <2>1, <2>2, <2>4, <2>6, <2>7 DEF BurnLate
  <2> QED
    BY <2>3, <2>6, <2>8, <2>9, BooksOfReserve
<1> QED
  BY <1>2, <1>3, <1>4, <1>5, <1>6

\* Statements of createEscrow, lockToken and of the payments up to the token's INSERT.
LEMMA LockBooks ==
  ASSUME IInv, IInv', BooksInv, NEW t \in Tx, ~Throw(t),
         CreateInsert(t) \/ LockSelect(t) \/ SelectCoin(t) \/ Spend(t) \/ MarkLocked(t)
  PROVE  BooksInv'
<1>1. job[t] \in Job /\ Aims(job[t]) /\ Pays(job[t])
  BY DEF IInv, RequestsInv, BooksInv, AimedJob
<1>2. ASSUME NEW label, NEW next, next = [job[t] EXCEPT !.pc = label],
             label \in Even, job[t].pc \in Even,
             label = "credit" => job[t].op \in Payment
      PROVE  Pays(next) /\ Due(next) = Due(job[t])
  <2>1. next.pc = label /\ next.op = job[t].op /\ next.payee = job[t].payee
    BY <1>1, <1>2, Relabelled
  <2> QED
    BY <1>1, <1>2, <2>1 DEF Pays, Due, Even
<1>3. CASE CreateInsert(t)
  <2>1. PICK next : next = [job[t] EXCEPT !.pc = "assert"]
    OBVIOUS
  <2>2. PICK v : v = [Absent EXCEPT !.status = "created"]
    OBVIOUS
  <2>3. job[t].pc = "insert" /\ Update(t, EscrowRow(job[t].esc), v, next)
    BY <1>3, <2>1, <2>2 DEF CreateInsert, At
  <2>4. job[t].esc \in Escrow
    BY <1>1, <2>3 DEF Aims
  <2>5. Pays(next) /\ Due(next) = Due(job[t])
    BY <1>2, <2>1, <2>3 DEF Even, Label
  <2> QED
    BY <2>3, <2>4, <2>5, BooksElsewhere
<1>4. CASE LockSelect(t)
  <2>1. PICK next : next = [job[t] EXCEPT !.pc = "coin"]
    OBVIOUS
  <2>2. job[t].pc = "select" /\ Select(t, next)
    BY <1>4, <2>1 DEF LockSelect, At
  <2>3. Pays(next) /\ Due(next) = Due(job[t])
    BY <1>2, <2>1, <2>2 DEF Even, Label
  <2> QED
    BY <2>2, <2>3, BooksRead DEF Select
<1>5. CASE SelectCoin(t)
  <2>1. PICK next : next = [job[t] EXCEPT !.pc = "spend"]
    OBVIOUS
  <2>2. job[t].pc = "coin" /\ Select(t, next)
    BY <1>5, <2>1 DEF SelectCoin, At
  <2>3. Pays(next) /\ Due(next) = Due(job[t])
    BY <1>2, <2>1, <2>2 DEF Even, Label
  <2> QED
    BY <2>2, <2>3, BooksRead DEF Select
<1>6. CASE Spend(t)
  <2>1. PICK label : label = IF job[t].op = "lock" THEN "mark" ELSE "credit"
    OBVIOUS
  <2>2. PICK next : next = [job[t] EXCEPT !.pc = label]
    OBVIOUS
  <2>3. PICK v : v = DepositedTo(job[t])
    OBVIOUS
  <2>4. job[t].pc = "spend" /\ Update(t, CoinRow(job[t].coin), v, next)
    BY <1>6, <2>1, <2>2, <2>3 DEF Spend, At
  <2>5. job[t].coin \in Coin /\ (job[t].op # "lock" => job[t].op \in Payment)
    BY <1>1, <2>4 DEF Aims
  <2>6. Pays(next) /\ Due(next) = Due(job[t])
    BY <1>2, <2>1, <2>2, <2>4, <2>5 DEF Even, Label
  <2> QED
    BY <2>4, <2>5, <2>6, BooksElsewhere
<1>7. CASE MarkLocked(t)
  <2>1. PICK next : next = [job[t] EXCEPT !.pc = "assert"]
    OBVIOUS
  <2>2. PICK v : v = [status |-> "locked", customer |-> job[t].user, serial |-> job[t].coin]
    OBVIOUS
  <2>3. job[t].pc = "mark" /\ Update(t, EscrowRow(job[t].esc), v, next)
    BY <1>7, <2>1, <2>2 DEF MarkLocked, At
  <2>4. job[t].esc \in Escrow
    BY <1>1, <2>3 DEF Aims, Audited
  <2>5. Pays(next) /\ Due(next) = Due(job[t])
    BY <1>2, <2>1, <2>3 DEF Even, Label
  <2> QED
    BY <2>3, <2>4, <2>5, BooksElsewhere
<1> QED
  BY <1>3, <1>4, <1>5, <1>6, <1>7

\* Statements of confirmEscrow, cancelEscrow and those the payments share with them.
LEMMA SettleBooks ==
  ASSUME IInv, IInv', BooksInv, NEW t \in Tx, ~Throw(t),
         ConfirmSelect(t) \/ CancelSelect(t) \/ Credit(t) \/ Book(t) \/ Close(t)
  PROVE  BooksInv'
<1>1. job[t] \in Job /\ Aims(job[t]) /\ Pays(job[t]) /\ job[t] \in AimedJob
  BY DEF IInv, RequestsInv, BooksInv, AimedJob
<1>2. ASSUME NEW p \in User, job[t].pc = "select", job[t].op \in Settlement,
             Select(t, [job[t] EXCEPT !.pc = "credit", !.payee = p])
      PROVE  BooksInv'
  <2>1. PICK next : next = [job[t] EXCEPT !.pc = "credit", !.payee = p]
    OBVIOUS
  <2>2. next.pc = "credit" /\ next.op = job[t].op /\ next.payee = p
    BY <1>1, <2>1 DEF Job
  <2>3. Pays(next) /\ Due(next) = Due(job[t])
    BY <1>2, <2>2 DEF Pays, Due
  <2> QED
    BY <1>2, <2>1, <2>3, BooksRead DEF Select
<1>3. CASE ConfirmSelect(t)
  <2>1. job[t].op = "confirm" /\ job[t].pc = "select" /\ job[t].esc \in Escrow
    BY <1>1, <1>3 DEF ConfirmSelect, At, Aims, Audited, Settlement
  <2>2. Merchant[job[t].esc] \in User
    BY <2>1, MerchantAssumption
  <2> QED
    BY <1>2, <1>3, <2>1, <2>2 DEF ConfirmSelect, Settlement
<1>4. CASE CancelSelect(t)
  <2>1. job[t].op = "cancel" /\ job[t].pc = "select" /\ job[t].esc \in Escrow
    BY <1>1, <1>4 DEF CancelSelect, At, Aims, Audited, Settlement
  <2>2. CASE Select(t, [job[t] EXCEPT !.pc = "close"])
    <3>1. PICK next : next = [job[t] EXCEPT !.pc = "close"]
      OBVIOUS
    <3>2. next.pc = "close" /\ next.op = job[t].op /\ next.payee = job[t].payee
      BY <1>1, <3>1, Relabelled
    <3>3. Pays(next) /\ Due(next) = Due(job[t])
      BY <1>1, <2>1, <3>2 DEF Pays, Due
    <3> QED
      BY <2>2, <3>1, <3>3, BooksRead DEF Select
  <2>3. CASE /\ Selected(t).status = "locked"
             /\ Select(t, [job[t] EXCEPT !.pc = "credit", !.payee = Selected(t).customer])
    <3>1. Selected(t).customer \in User
      BY <2>1, <2>3, ReadsRow DEF Selected, RowInv
    <3> QED
      BY <1>2, <2>1, <2>3, <3>1 DEF Settlement
  <2> QED
    BY <1>4, <2>2, <2>3 DEF CancelSelect
<1>5. CASE Credit(t)
  <2>1. job[t].pc = "credit"
    BY <1>5 DEF Credit, At
  <2>2. PICK u \in User : u = job[t].payee
    BY <1>1, <2>1 DEF Pays
  <2>3. PICK m \in Nat : m = Moved(job[t])
    BY <1>1, <2>1, DueTyped
  <2>4. PICK next : next = [job[t] EXCEPT !.pc = "book"]
    OBVIOUS
  <2>5. next.pc = "book" /\ next.op = job[t].op /\ next.payee = u /\ Moved(next) = m
    BY <1>1, <2>2, <2>3, <2>4, Relabelled
  <2>6. Pays(next) /\ Due(next) = 0 - m /\ Due(job[t]) = 0
    BY <1>1, <2>1, <2>5 DEF Pays, Due
  <2>7. PICK account \in UserValue : account = cur[UserRow(u)]
    BY DEF BooksInv, MoneyIn
  <2>8. PICK v : v = Credited(account, job[t])
    OBVIOUS
  <2>9. v \in UserValue /\ v.balance = account.balance + m
    <3>1. PICK grown : grown = Grow(account, m)
      OBVIOUS
    <3>2. grown \in UserValue /\ grown.balance = account.balance + m
      BY <3>1 DEF Grow, UserValue
    <3>3. PICK cash \in Nat : cash = IF job[t].op = "deposit" THEN grown.cash + m ELSE grown.cash
      BY <3>2 DEF UserValue
    <3>4. PICK income \in Nat :
             income = IF job[t].op \in {"confirm", "pay"} THEN grown.income + m ELSE grown.income
      BY <3>2 DEF UserValue
    <3>5. v = [grown EXCEPT !.cash = cash, !.income = income]
      BY <2>3, <2>8, <3>1, <3>2, <3>3, <3>4 DEF Credited, UserValue
    <3>6. v \in UserValue /\ v.balance = grown.balance
      BY <3>2, <3>5 DEF UserValue
    <3> QED
      BY <3>2, <3>6
  <2>10. v.balance = cur[UserRow(u)].balance + (Due(job[t]) - Due(next))
    <3>1. account.balance \in Int
      BY DEF UserValue
    <3> QED
      BY <2>6, <2>7, <2>9, <3>1
  <2>11. Update(t, UserRow(u), v, next)
    BY <1>5, <2>2, <2>4, <2>7, <2>8 DEF Credit
  <2> QED
    BY <2>6, <2>9, <2>10, <2>11, BooksOfUser
<1>6. CASE Book(t)
  <2>1. job[t].pc = "book"
    BY <1>6 DEF Book, At
  <2>2. PICK m \in Nat : m = Moved(job[t])
    BY <1>1, <2>1, DueTyped
  <2>3. PICK label : label = IF job[t].op \in Settlement THEN "close" ELSE "assert"
    OBVIOUS
  <2>4. PICK next : next = [job[t] EXCEPT !.pc = label]
    OBVIOUS
  <2>5. next.pc = label /\ next.op = job[t].op /\ next.payee = job[t].payee
    BY <1>1, <2>4, Relabelled
  <2>6. Pays(next) /\ Due(next) = 0 /\ Due(job[t]) = 0 - m
    BY <1>1, <2>1, <2>2, <2>3, <2>5 DEF Pays, Due
  <2>7. PICK bank \in ReserveValue : bank = cur[ReserveRow]
    BY DEF BooksInv, MoneyIn
  <2>8. PICK v : v = Booked(bank, job[t])
    OBVIOUS
  <2>9. v \in ReserveValue /\ Paper(v) = Paper(bank) + m
    <3>0. bank.reserve_balance \in Int /\ bank.total_issued \in Int /\ bank.total_redeemed \in Int
      BY DEF ReserveValue
    <3>1. CASE job[t].op = "cancel"
      <4>1. v = [bank EXCEPT !.total_issued = @ - m]
        BY <2>2, <2>8, <3>1 DEF Booked, Burn
      <4> QED
        BY <3>0, <4>1 DEF ReserveValue, Paper
    <3>2. CASE job[t].op = "deposit"
      <4>1. v = [bank EXCEPT !.reserve_balance = @ + m]
        BY <2>2, <2>8, <3>2 DEF Booked
      <4> QED
        BY <3>0, <4>1 DEF ReserveValue, Paper
    <3>3. CASE job[t].op \notin {"cancel", "deposit"}
      <4>1. v = [bank EXCEPT !.total_redeemed = @ + m]
        BY <2>2, <2>8, <3>3 DEF Booked
      <4> QED
        BY <3>0, <4>1 DEF ReserveValue, Paper
    <3> QED
      BY <3>1, <3>2, <3>3
  <2>10. Paper(v) = Paper(cur[ReserveRow]) + (Due(next) - Due(job[t]))
    <3>1. PICK p \in Int : p = Paper(bank)
      BY DEF ReserveValue, Paper
    <3> QED
      BY <2>6, <2>7, <2>9, <3>1
  <2>11. Update(t, ReserveRow, v, next)
    BY <1>6, <2>3, <2>4, <2>7, <2>8 DEF Book
  <2> QED
    BY <2>6, <2>9, <2>10, <2>11, BooksOfReserve
<1>7. CASE Close(t)
  <2>1. PICK next : next = [job[t] EXCEPT !.pc = "assert"]
    OBVIOUS
  <2>2. PICK v : v = [cur[EscrowRow(job[t].esc)] EXCEPT
                        !.status = IF job[t].op = "confirm" THEN "committed" ELSE "cancelled"]
    OBVIOUS
  <2>3. job[t].pc = "close" /\ Update(t, EscrowRow(job[t].esc), v, next)
    BY <1>7, <2>1, <2>2 DEF Close, At
  <2>4. job[t].esc \in Escrow
    BY <1>1, <2>3 DEF Aims, Audited
  <2>5. next.pc = "assert" /\ next.op = job[t].op /\ next.payee = job[t].payee
    BY <1>1, <2>1, Relabelled
  <2>6. Pays(next) /\ Due(next) = Due(job[t])
    BY <1>1, <2>3, <2>5 DEF Pays, Due
  <2> QED
    BY <2>3, <2>4, <2>6, BooksElsewhere
<1> QED
  BY <1>3, <1>4, <1>5, <1>6, <1>7

\* assertInvariant and logAction.
LEMMA EndBooks ==
  ASSUME IInv, IInv', BooksInv, NEW t \in Tx, ~Throw(t), AssertBooks(t) \/ AuditOutside(t)
  PROVE  BooksInv'
<1>1. job[t] \in Job /\ Pays(job[t]) /\ job[t].pc \in {"assert", "audit"}
  BY DEF IInv, RequestsInv, BooksInv, AimedJob, AssertBooks, AuditOutside, At
<1>2. PICK label : label \in {"audit", "commit"} /\ UNCHANGED storage
                   /\ job' = [job EXCEPT ![t] = [job[t] EXCEPT !.pc = label]]
  <2>1. CASE AssertBooks(t)
    <3>1. PICK label : label = IF LogsOutside(job[t]) THEN "audit" ELSE "commit"
      OBVIOUS
    <3> QED
      BY <2>1, <3>1 DEF AssertBooks, Select
  <2>2. CASE AuditOutside(t)
    <3>1. job' = [job EXCEPT ![t] = [job[t] EXCEPT !.pc = "commit"]] /\ UNCHANGED storage
      BY <2>2 DEF AuditOutside
    <3> QED
      BY <3>1
  <2> QED
    BY <2>1, <2>2
<1>3. PICK next : next = [job[t] EXCEPT !.pc = label]
  OBVIOUS
<1>4. next.pc = label /\ next.op = job[t].op /\ next.payee = job[t].payee
  BY <1>1, <1>3, Relabelled
<1>5. Pays(next) /\ Due(next) = Due(job[t])
  BY <1>1, <1>2, <1>4 DEF Pays, Due
<1> QED
  BY <1>2, <1>3, <1>5, BooksRead

\* An idle request owes nothing.
LEMMA IdleDue == Pays(Idle) /\ Due(Idle) = 0
  BY DEF Idle, Pays, Due, Payment

\* ROLLBACK: what the request saw is what is committed.
LEMMA ThrowBooks ==
  ASSUME IInv, IInv', BooksInv, NEW t \in Tx, Throw(t)
  PROVE  BooksInv'
<1>1. /\ db' = db /\ job' = [job EXCEPT ![t] = Idle]
      /\ cur' = [r \in Row |-> IF lock[r] = t THEN db[r] ELSE cur[r]]
      /\ lock' = [r \in Row |-> IF lock[r] = t THEN NoTx ELSE lock[r]]
  BY RollbackFacts DEF Throw, IInv, TablesInv
<1>2. MoneyIn(cur)'
  BY <1>1, UserRows DEF BooksInv, MoneyIn, Row
<1>3. ASSUME NEW u \in Tx \ {t} PROVE View(u)' = View(u)
  <2>1. \A r \in Row : (IF lock'[r] = u THEN cur'[r] ELSE db'[r]) = (IF lock[r] = u THEN cur[r] ELSE db[r])
    BY <1>1, NoneAssumption
  <2> QED
    BY <2>1 DEF View, Read
<1>4. PICK after : after = View(t)'
  OBVIOUS
<1>5. after = db
  <2>1. \A r \in Row : (IF lock'[r] = t THEN cur'[r] ELSE db'[r]) = db[r]
    BY <1>1, NoneAssumption
  <2>2. db = [r \in Row |-> db[r]]
    BY DEF IInv, TablesInv, StorageTyped
  <2> QED
    BY <1>4, <2>1, <2>2 DEF View, Read
<1>6. Gap(after) = Gap(View(t)) + (Due(Idle) - Due(job[t]))
  <2>1. PICK g \in Int : g = Gap(View(t))
    BY Views DEF BooksInv
  <2>2. Gap(db) = 0 /\ Due(job[t]) = g
    BY <2>1 DEF BooksInv, Change
  <2> QED
    BY <1>5, <2>1, <2>2, IdleDue
<1> QED
  BY <1>1, <1>2, <1>3, <1>4, <1>6, IdleDue, BooksStep

\* COMMIT: what the request has changed is paid for, and what the others have changed adds to it.
LEMMA CommitBooks ==
  ASSUME IInv, IInv', BooksInv, NEW t \in Tx, CommitTx(t)
  PROVE  BooksInv'
<1>1. /\ cur' = cur /\ job' = [job EXCEPT ![t] = Idle] /\ job[t].pc = "commit"
      /\ db' = [r \in Row |-> IF lock[r] = t THEN cur[r] ELSE db[r]]
      /\ lock' = [r \in Row |-> IF lock[r] = t THEN NoTx ELSE lock[r]]
  BY CommitFacts DEF CommitTx, At, IInv, TablesInv
<1>2. MoneyIn(db) /\ MoneyIn(cur) /\ Gap(db) = 0 /\ job \in [Tx -> AimedJob]
  BY DEF BooksInv, IInv, RequestsInv
<1>3. PICK new : new = db'
  OBVIOUS
<1>4. new = View(t)
  BY <1>1, <1>3 DEF View, Read
<1>5. MoneyIn(new)
  BY <1>2, <1>4, Views
<1>6. Change(t) = 0
  BY <1>1 DEF BooksInv, Due
<1>7. Gap(new) = 0
  <2>1. PICK g \in Int : g = Gap(View(t))
    BY <1>2, Views
  <2> QED
    BY <1>2, <1>4, <1>6, <2>1 DEF Change
<1>8. MoneyIn(db)' /\ MoneyIn(cur)' /\ Gap(db)' = 0
  BY <1>1, <1>2, <1>3, <1>5, <1>7 DEF MoneyIn, Gap, Balances
<1>9. ASSUME NEW u \in Tx PROVE Pays(job[u])' /\ Change(u)' = Due(job[u])'
  <2>1. PICK after : after = View(u)'
    OBVIOUS
  <2>2. \A r \in Row : after[r] = IF lock'[r] = u THEN cur'[r] ELSE new[r]
    BY <1>3, <2>1 DEF View, Read
  <2>3. MoneyIn(after)
    BY <1>1, <1>2, <1>5, <2>2, UserRows DEF MoneyIn, Row
  <2>4. Change(u)' = Gap(after) - Gap(new)
    BY <1>3, <2>1 DEF Change, Gap, Balances
  <2>5. CASE u = t
    <3>1. \A r \in Row : after[r] = new[r]
      BY <1>1, <2>2, <2>5, NoneAssumption
    <3>2. after = new
      BY <2>1, <3>1, <1>3, <1>1 DEF View
    <3>3. job'[u] = Idle
      BY <1>1, <1>2, <2>5
    <3> QED
      BY <1>7, <2>4, <3>2, <3>3, IdleDue DEF Pays, Due, Moved
  <2>6. CASE u # t
    <3>1. \A r \in Row : /\ View(u)[r] = IF lock[r] = u THEN cur[r] ELSE db[r]
                         /\ (after[r] = new[r] /\ View(u)[r] = db[r])
                            \/ (after[r] = View(u)[r] /\ new[r] = db[r])
      BY <1>1, <1>3, <2>2, <2>6, NoneAssumption DEF View, Read
    <3>2. PICK before : before = View(u) /\ MoneyIn(before)
      BY <1>2, Views
    <3>3. \A r \in Row : (after[r] = new[r] /\ before[r] = db[r])
                          \/ (after[r] = before[r] /\ new[r] = db[r])
      BY <3>1, <3>2
    <3>4. Gap(after) - Gap(new) = Gap(before) - Gap(db)
      BY <1>2, <1>5, <2>3, <3>2, <3>3, GapLinear
    <3>5. job'[u] = job[u]
      BY <1>1, <1>2, <2>6
    <3> QED
      BY <2>4, <3>2, <3>4, <3>5 DEF BooksInv, Change, Pays, Due, Moved
  <2> QED
    BY <2>5, <2>6
<1> QED
  BY <1>8, <1>9 DEF BooksInv

\* A request arrives that owes nothing yet.
LEMMA BeginBooks ==
  ASSUME IInv, IInv', BooksInv, NEW t \in Tx, Begin(t)
  PROVE  BooksInv'
<1>1. job[t].pc = "idle" /\ Due(job[t]) = 0
  BY DEF Begin, BeginCreate, BeginDetails, BeginLock, BeginSettle, BeginPay, BeginDeposit,
         Start, At, Due
<1>2. ASSUME NEW request, Start(t, request),
             DOMAIN request = DOMAIN Idle, request = [x \in DOMAIN Idle |-> request[x]],
             request.pc \in {"insert", "cleanup", "coin", "credit"},
             request.op \in Payment \cup {"deposit"} => request.payee \in User,
             request.pc = "credit" => request.op = "deposit"
      PROVE  BooksInv'
  <2>1. PICK next : next = [request EXCEPT !.late = late]
    OBVIOUS
  <2>2. next.pc = request.pc /\ next.op = request.op /\ next.payee = request.payee
    BY <1>2, <2>1 DEF Idle
  <2>3. Pays(next) /\ Due(next) = 0
    BY <1>2, <2>2 DEF Pays, Due, Payment
  <2>4. job' = [job EXCEPT ![t] = next] /\ UNCHANGED storage
    BY <1>2, <2>1 DEF Start
  <2> QED
    BY <1>1, <2>3, <2>4, BooksRead
<1>3. ASSUME NEW e \in Escrow, BeginCreate(t, e) PROVE BooksInv'
  BY <1>2, <1>3 DEF BeginCreate, Idle, Payment
<1>4. ASSUME NEW e \in Escrow, BeginDetails(t, e) PROVE BooksInv'
  BY <1>2, <1>4 DEF BeginDetails, Idle, Payment
<1>5. ASSUME NEW e \in Escrow, NEW u \in User, NEW c \in Coin, BeginLock(t, u, e, c) PROVE BooksInv'
  BY <1>2, <1>5 DEF BeginLock, Idle, Payment
<1>6. ASSUME NEW e \in Escrow, NEW u \in User, NEW op \in Settlement, BeginSettle(t, op, u, e)
      PROVE  BooksInv'
  BY <1>2, <1>6 DEF BeginSettle, Idle, Payment, Settlement
<1>7. ASSUME NEW u \in User, NEW c \in Coin, NEW op \in Payment, BeginPay(t, op, u, c) PROVE BooksInv'
  BY <1>2, <1>7 DEF BeginPay, Idle
<1>8. ASSUME NEW u \in User, NEW amount \in Cash, BeginDeposit(t, u, amount) PROVE BooksInv'
  BY <1>2, <1>8 DEF BeginDeposit, Idle
<1> QED
  BY <1>3, <1>4, <1>5, <1>6, <1>7, <1>8 DEF Begin

-----------------------------------------------------------------------------
(* The specification                                                       *)

\* The bank opens with the reserve that covers the users' balances and the tokens.
LEMMA InitBooks == DbInit => BooksInv
<1> SUFFICES ASSUME DbInit PROVE BooksInv
  OBVIOUS
<1>1. /\ \A u \in User : db[UserRow(u)] = [balance |-> Opening, cash |-> 0, income |-> 0]
      /\ cur = db /\ lock = [r \in Row |-> NoTx] /\ job = [t \in Tx |-> Idle]
      /\ db = [r \in Row |-> db[r]]
  <2>1. \A u \in User : UserRow(u)[1] = "user"
    BY DEF UserRow
  <2> QED
    BY <2>1, UserRows DEF DbInit
<1>2. PICK a \in Int : a = SumFunction([u \in User |-> Opening])
  <2>1. [u \in User |-> Opening] \in [User -> Int]
    BY MoneyAssumption
  <2> QED
    BY <2>1, SumInt, FiniteAssumption
<1>3. PICK b \in Int : b = SumFunction(Worth)
  <2>1. Worth \in [Coin -> Int]
    BY ValueAssumption
  <2> QED
    BY <2>1, SumInt, FiniteAssumption
<1>4. db[ReserveRow] = [reserve_balance |-> a + b, total_issued |-> b, total_redeemed |-> 0]
  <2>1. ReserveRow[1] = "reserve" /\ ReserveRow \in Row
    BY DEF ReserveRow, Row
  <2> QED
    BY <1>2, <1>3, <2>1 DEF DbInit
<1>5. MoneyIn(db)
  <2>1. Opening \in Int
    BY MoneyAssumption
  <2>2. [balance |-> Opening, cash |-> 0, income |-> 0] \in UserValue
    BY <2>1 DEF UserValue
  <2>3. db[ReserveRow] \in ReserveValue
    BY <1>4 DEF ReserveValue
  <2> QED
    BY <1>1, <2>2, <2>3 DEF MoneyIn
<1>6. Balances(db) = a
  <2>1. \A u \in User : db[UserRow(u)].balance = Opening
    BY <1>1
  <2>2. [u \in User |-> db[UserRow(u)].balance] = [u \in User |-> Opening]
    BY <2>1
  <2> QED
    BY <1>2, <2>2 DEF Balances
<1>7. Gap(db) = 0
  BY <1>4, <1>6 DEF Gap, Paper
<1>8. ASSUME NEW t \in Tx PROVE Pays(job[t]) /\ Change(t) = Due(job[t])
  <2>1. \A r \in Row : (IF lock[r] = t THEN cur[r] ELSE db[r]) = db[r]
    BY <1>1
  <2>2. View(t) = db
    BY <1>1, <2>1 DEF View, Read
  <2> QED
    BY <1>1, <1>7, <2>2, IdleDue DEF Change
<1> QED
  BY <1>1, <1>5, <1>7, <1>8 DEF BooksInv

LEMMA CrashBooks ==
  ASSUME IInv, BooksInv, Crash
  PROVE  BooksInv'
<1>1. db' = db /\ cur' = db /\ job' = [t \in Tx |-> Idle]
  BY DEF Crash, RollbackAll
<1>2. MoneyIn(db)' /\ MoneyIn(cur)' /\ Gap(db)' = 0
  BY <1>1 DEF BooksInv, MoneyIn, Gap, Balances
<1>3. ASSUME NEW t \in Tx PROVE Pays(job[t])' /\ Change(t)' = Due(job[t])'
  <2>1. PICK after : after = View(t)'
    OBVIOUS
  <2>2. after = db
    <3>1. \A r \in Row : (IF lock'[r] = t THEN cur'[r] ELSE db'[r]) = db[r]
      BY <1>1
    <3>2. db = [r \in Row |-> db[r]]
      BY DEF IInv, TablesInv, StorageTyped
    <3> QED
      BY <2>1, <3>1, <3>2 DEF View, Read
  <2>3. Change(t)' = Gap(after) - Gap(db)
    BY <1>1, <2>1 DEF Change, Gap, Balances
  <2>4. job'[t] = Idle /\ Gap(db) = 0
    BY <1>1 DEF BooksInv
  <2> QED
    BY <2>2, <2>3, <2>4, IdleDue DEF Pays, Due, Moved
<1> QED
  BY <1>2, <1>3 DEF BooksInv

\* Nobody has written anything.
LEMMA BooksStay ==
  ASSUME BooksInv, UNCHANGED <<storage, job>>
  PROVE  BooksInv'
<1>1. \A t \in Tx : Change(t)' = Change(t)
  BY DEF storage, Change, Gap, Balances, View, Read
<1>2. \A t \in Tx : Pays(job[t])' /\ Due(job[t])' = Due(job[t])
  BY DEF BooksInv, Pays, Due, Moved
<1> QED
  BY <1>1, <1>2 DEF BooksInv, storage, MoneyIn, Gap, Balances

LEMMA NextBooks == IInv /\ IInv' /\ BooksInv /\ [Next]_vars => BooksInv'
<1> SUFFICES ASSUME IInv, IInv', BooksInv, [Next]_vars PROVE BooksInv'
  OBVIOUS
<1>1. ASSUME NEW t \in Tx, Statement(t) PROVE BooksInv'
  <2>1. CASE Throw(t)
    BY <2>1, ThrowBooks
  <2>2. CASE ~Throw(t)
    BY <1>1, <2>2, CleanupBooks, LockBooks, SettleBooks, EndBooks, CommitBooks
       DEF Statement, PoolTimeout, DeadlockVictim
  <2> QED
    BY <2>1, <2>2
<1>2. ASSUME NEW t \in Tx, Begin(t) PROVE BooksInv'
  BY <1>2, BeginBooks
<1>3. CASE UNCHANGED vars \/ \E e \in Escrow : TimePasses(e)
  BY <1>3, BooksStay DEF vars, storage, TimePasses
<1>4. CASE Crash
  BY <1>4, CrashBooks
<1> QED
  BY <1>1, <1>2, <1>3, <1>4 DEF Next, Step

LEMMA BooksInvariance == Spec => [](IInv /\ BooksInv)
<1>1. IInv /\ BooksInv /\ [Next]_vars => BooksInv'
  BY NextIInv, NextBooks
<1> QED
  BY <1>1, InitBooks, Inductive, PTL DEF Spec

\* bankReserveService.js: the reserve covers the users' balances and the tokens in circulation
\* in every committed state, however escrows, payments and deposits overlap, without anything
\* assertInvariant does: each transaction moves its money in full or not at all.
THEOREM ConservationAlways == Spec => []Conservation
<1>1. BooksInv => Conservation
  BY GapTyped DEF BooksInv, Conservation
<1> QED
  BY <1>1, BooksInvariance, PTL

\* The entries of the audit log and the count of spent tokens.
HistoryTyped == audit \cup done \cup orphan \subseteq Audited \X Escrow /\ spends \in [Coin -> Nat]

\* Only requests about a given escrow write an entry.
LEMMA EntryTyped ==
  ASSUME IInv, NEW t \in Tx, LogsOutside(job[t])
  PROVE  Entry(t) \in Audited \X Escrow
<1>1. job[t].op \in Audited
  BY DEF LogsOutside, Audited, Settlement
<1>2. job[t].esc \in Escrow
  BY <1>1 DEF IInv, RequestsInv, AimedJob, Aims
<1> QED
  BY <1>1, <1>2 DEF Entry

LEMMA NextHistory == IInv /\ LogInv /\ HistoryTyped /\ [Next]_vars => HistoryTyped'
<1> SUFFICES ASSUME IInv, LogInv, HistoryTyped, [Next]_vars PROVE HistoryTyped'
  OBVIOUS
<1>1. CASE UNCHANGED history
  BY <1>1 DEF history, HistoryTyped
<1>2. ASSUME NEW t \in Tx, AuditOutside(t) PROVE HistoryTyped'
  <2>1. Entry(t) \in Audited \X Escrow
    BY <1>2, EntryTyped DEF LogInv, AuditOutside, At
  <2> QED
    BY <1>2, <2>1 DEF AuditOutside, HistoryTyped
<1>3. ASSUME NEW t \in Tx, CommitTx(t) PROVE HistoryTyped'
  <2>1. done' \subseteq Audited \X Escrow
    BY <1>3, EntryTyped DEF CommitTx, HistoryTyped
  <2>2. spends' \in [Coin -> Nat]
    BY <1>3 DEF CommitTx, HistoryTyped
  <2> QED
    BY <1>3, <2>1, <2>2 DEF CommitTx, HistoryTyped
<1>4. CASE Crash
  BY <1>4, EntryTyped DEF Crash, HistoryTyped
<1>5. ASSUME NEW t \in Tx, Statement(t), ~AuditOutside(t), ~CommitTx(t) PROVE UNCHANGED history
  BY <1>5 DEF Statement, CleanCreated, CleanSelect, RefundLate, ExpireLate, BurnLate, CreateInsert,
              LockSelect, SelectCoin, Spend, MarkLocked, ConfirmSelect, CancelSelect, Credit, Book,
              Close, AssertBooks, PoolTimeout, DeadlockVictim, Select, Update, Throw
<1>6. ASSUME NEW t \in Tx, Begin(t) PROVE UNCHANGED history
  BY <1>6 DEF Begin, BeginCreate, BeginDetails, BeginLock, BeginSettle, BeginPay, BeginDeposit, Start
<1>7. UNCHANGED vars \/ (\E e \in Escrow : TimePasses(e)) => UNCHANGED history
  BY DEF vars, history, TimePasses
<1> QED
  BY <1>1, <1>2, <1>3, <1>4, <1>5, <1>6, <1>7 DEF Next, Step

\* Every column keeps its type; of a user, that the day's sums are natural numbers.
THEOREM TypeOKAlways == Spec => []TypeOK
<1>1. DbInit => HistoryTyped
  BY DEF DbInit, HistoryTyped
<1>2. Spec => [](IInv /\ LogInv)
  <2>1. DbInit => LogInv
    BY DEF DbInit, LogInv, Owing, Idle
  <2> QED
    BY <2>1, InitIInv, NextIInv, NextLogInv, PTL DEF Spec
<1>3. IInv /\ BooksInv /\ HistoryTyped => TypeOK
  BY DEF IInv, TablesInv, RequestsInv, AimedJob, BooksInv, MoneyIn, HistoryTyped, TypeOK, RequestsTyped
<1> QED
  BY <1>1, <1>2, <1>3, NextHistory, BooksInvariance, PTL DEF Spec

-----------------------------------------------------------------------------
(***************************************************************************)
(* One request about escrows at a time.  Then what such a request has read *)
(* of the escrows stays so until it ends, and what it has written of them  *)
(* is the change the ledger makes in one step.                             *)
(***************************************************************************)
Alone ==
    /\ \A t \in Tx : \A u \in Tx \ {t} : ~(job[t].op \in OfEscrow /\ job[u].op \in OfEscrow)
    /\ \A t \in Tx : \A e \in Escrow : lock[EscrowRow(e)] = t => job[t].op \in OfEscrow

\* A row that is not there yet is empty.
Blank ==
    \A e \in Escrow : /\ db[EscrowRow(e)].status = "none" => db[EscrowRow(e)] = Absent
                      /\ cur[EscrowRow(e)].status = "none" => cur[EscrowRow(e)] = Absent

Loop == {"refundLate", "expireLate", "burnLate"}
Ending == {"assert", "audit", "commit"}

\* The status of an escrow as the one request about escrows sees it.
Now(e) == cur[EscrowRow(e)].status

\* Whether a cancel gives a token's value back.
Refunds(request) == request.op = "cancel" /\ request.payee # NoUser

\* Whom a settlement pays.
Beneficiary(request) ==
    IF request.op = "confirm" THEN Merchant[request.esc] ELSE cur[EscrowRow(request.esc)].customer

\* What a request has read of the escrows is still so.
Sees(t, request) ==
    /\ request.op = "lock" /\ request.pc \in {"coin", "spend", "mark"} => Now(request.esc) = "created"
    /\ request.op \in Settlement /\ request.pc \in {"credit", "book", "close"} =>
          \/ request.payee # NoUser /\ Now(request.esc) = "locked" /\ request.payee = Beneficiary(request)
          \/ /\ request.payee = NoUser /\ Now(request.esc) = "created"
             /\ request.op = "cancel" /\ request.pc = "close"
    /\ request.op \in Settlement /\ request.pc \in Loop \cup {"cleanup", "select"} =>
          request.payee = NoUser
    /\ request.op = "details" => request.pc \in Loop \cup {"cleanup", "commit"}
    /\ request.pc \in Loop => \A x \in request.overdue :
          Now(x[1]) = "locked" /\ cur[EscrowRow(x[1])].customer = x[2]
    /\ request.pc = "expireLate" => /\ Now(request.row) = "locked"
                                    /\ \A x \in request.overdue : x[1] # request.row
    /\ request.pc = "burnLate" => /\ Now(request.row) = "expired" /\ lock[EscrowRow(request.row)] = t
                                  /\ db[EscrowRow(request.row)].status = "locked"

\* It has expired an escrow.
Expired(e) ==
    /\ db[EscrowRow(e)].status \in Open
    /\ cur[EscrowRow(e)] = [db[EscrowRow(e)] EXCEPT !.status = "expired"]

\* It has done to its own escrow what it was asked to.
Effect(request) ==
    LET old == db[EscrowRow(request.esc)]
        new == cur[EscrowRow(request.esc)]
    IN  \/ request.op = "create" /\ old = Absent /\ new = [Absent EXCEPT !.status = "created"]
        \/ /\ request.op = "lock" /\ old.status = "created"
           /\ new = [status |-> "locked", customer |-> request.user, serial |-> request.coin]
        \/ /\ request.op = "confirm" /\ old.status = "locked" /\ request.payee = Merchant[request.esc]
           /\ new = [old EXCEPT !.status = "committed"]
        \/ /\ request.op = "cancel" /\ new = [old EXCEPT !.status = "cancelled"]
           /\ \/ old.status = "locked" /\ request.payee = old.customer /\ request.payee # NoUser
              \/ old.status = "created" /\ request.payee = NoUser

Works(t, request) ==
    /\ \A e \in Escrow : lock[EscrowRow(e)] = t =>
          \/ request.op # "create" /\ Expired(e)
          \/ request.op # "details" /\ request.pc \in Ending /\ e = request.esc
    /\ request.pc \in Ending /\ request.op # "details" =>
          lock[EscrowRow(request.esc)] = t /\ Effect(request)

AloneInv == /\ Alone /\ Blank
            /\ \A t \in Tx : job[t].op \in OfEscrow => Sees(t, job[t]) /\ Works(t, job[t])

-----------------------------------------------------------------------------
(* Steps that write no escrow                                              *)

SameEscrows ==
    \A e \in Escrow : /\ db'[EscrowRow(e)] = db[EscrowRow(e)]
                      /\ cur'[EscrowRow(e)] = cur[EscrowRow(e)]
                      /\ lock'[EscrowRow(e)] = lock[EscrowRow(e)]

\* The fields of a request about escrows.
LEMMA EscrowRequest ==
  ASSUME IInv, BooksInv, NEW t \in Tx
  PROVE  /\ job[t] \in Job /\ Aims(job[t]) /\ Pays(job[t])
         /\ job[t].op \in OfEscrow /\ job[t].op # "details" => job[t].esc \in Escrow
         /\ job[t].pc \in {"expireLate", "burnLate"} => job[t].row \in Escrow
         /\ \A x \in job[t].overdue : x[1] \in Escrow /\ x[2] \in User
         /\ job[t].pc \in {"credit", "book"} /\ job[t].op \in OfEscrow => job[t].op \in Settlement
<1>1. job[t] \in Job /\ Aims(job[t]) /\ Pays(job[t])
  BY DEF IInv, RequestsInv, AimedJob, BooksInv
<1>2. job[t].op \in OfEscrow /\ job[t].op # "details" => job[t].op \in {"create"} \cup Audited
  BY DEF OfEscrow
<1>3. \A x \in job[t].overdue : x[1] \in Escrow /\ x[2] \in User
  BY <1>1 DEF Job
<1>4. job[t].pc \in {"credit", "book"} /\ job[t].op \in OfEscrow => job[t].op \in Settlement
  BY <1>1 DEF Pays, OfEscrow, Audited, Settlement, Payment
<1> QED
  BY <1>1, <1>2, <1>3, <1>4 DEF Aims, Pays

\* What a request sees and has done depends on the rows of escrows alone.
LEMMA WorkStays ==
  ASSUME NEW t \in Tx, NEW request, SameEscrows,
         request.op \in OfEscrow /\ request.op # "details" => request.esc \in Escrow,
         request.pc \in {"expireLate", "burnLate"} => request.row \in Escrow,
         \A x \in request.overdue : x[1] \in Escrow,
         request.op \in OfEscrow, Sees(t, request), Works(t, request)
  PROVE  Sees(t, request)' /\ Works(t, request)'
<1>1. \A e \in Escrow : Now(e)' = Now(e) /\ Expired(e)' = Expired(e)
  BY DEF SameEscrows, Now, Expired
<1>2. request.op \in Settlement => request.esc \in Escrow /\ Beneficiary(request)' = Beneficiary(request)
  BY DEF SameEscrows, Beneficiary, OfEscrow, Audited, Settlement
<1>3. request.op = "lock" => request.esc \in Escrow
  BY DEF OfEscrow, Audited
<1>4. Sees(t, request)'
  BY <1>1, <1>2, <1>3 DEF Sees, SameEscrows
<1>5. request.op # "details" => Effect(request)' = Effect(request)
  BY DEF Effect, SameEscrows
<1>6. Works(t, request)'
  BY <1>1, <1>5 DEF Works, SameEscrows
<1> QED
  BY <1>4, <1>6

\* A request that goes on, or arrives, without writing an escrow.
LEMMA AloneStep ==
  ASSUME IInv, IInv', BooksInv, BooksInv', AloneInv, NEW t \in Tx, NEW next, job' = [job EXCEPT ![t] = next],
         SameEscrows,
         next.op \in OfEscrow => /\ \A u \in Tx \ {t} : job[u].op \notin OfEscrow
                                 /\ Sees(t, next) /\ Works(t, next),
         next.op \notin OfEscrow => \A e \in Escrow : lock[EscrowRow(e)] # t
  PROVE  AloneInv'
<1>1. job'[t] = next /\ \A u \in Tx \ {t} : job'[u] = job[u]
  BY DEF IInv, RequestsInv
<1>2. Alone'
  BY <1>1 DEF AloneInv, Alone, SameEscrows
<1>3. Blank'
  BY DEF AloneInv, Blank, SameEscrows
<1>4. ASSUME NEW u \in Tx, job'[u].op \in OfEscrow PROVE Sees(u, job[u])' /\ Works(u, job[u])'
  <2>1. PICK request : request = job'[u]
    OBVIOUS
  <2>2. Sees(u, request) /\ Works(u, request)
    BY <1>1, <1>4, <2>1 DEF AloneInv
  <2>3. /\ request.op \in OfEscrow /\ request.op # "details" => request.esc \in Escrow
        /\ request.pc \in {"expireLate", "burnLate"} => request.row \in Escrow
        /\ \A x \in request.overdue : x[1] \in Escrow
    <3>1. /\ request \in Job /\ Aims(request) /\ Pays(request)
      BY <2>1 DEF IInv, RequestsInv, AimedJob, BooksInv, Aims, Pays, Moved
    <3>2. \A x \in request.overdue : x[1] \in Escrow
      BY <3>1 DEF Job
    <3>3. request.op \in OfEscrow /\ request.op # "details" => request.op \in {"create"} \cup Audited
      BY DEF OfEscrow
    <3> QED
      BY <3>1, <3>2, <3>3 DEF Aims, Pays
  <2>4. Sees(u, request)' /\ Works(u, request)'
    BY <1>4, <2>1, <2>2, <2>3, WorkStays
  <2> QED
    BY <2>1, <2>4 DEF Sees, Works, Effect, Beneficiary
<1> QED
  BY <1>2, <1>3, <1>4 DEF AloneInv

\* A SELECT, or a write of a row that is no escrow's.
LEMMA AloneElsewhere ==
  ASSUME IInv, IInv', BooksInv, BooksInv', AloneInv, NEW t \in Tx, NEW row, NEW v, NEW next,
         Select(t, next) \/ (Update(t, row, v, next) /\ \A e \in Escrow : row # EscrowRow(e)),
         next.op = job[t].op,
         next.op \in OfEscrow => Sees(t, next) /\ Works(t, next)
  PROVE  AloneInv'
<1>1. job' = [job EXCEPT ![t] = next]
  BY DEF Select, Update
<1>2. SameEscrows
  <2>1. CASE Select(t, next)
    BY <2>1 DEF Select, storage, SameEscrows
  <2>2. CASE Update(t, row, v, next) /\ \A e \in Escrow : row # EscrowRow(e)
    <3>1. Write(t, row, v) /\ StorageTyped
      BY <2>2 DEF Update, IInv, TablesInv
    <3> QED
      BY <2>2, <3>1, WriteFacts, Rows DEF SameEscrows
  <2> QED
    BY <2>1, <2>2
<1>3. next.op \in OfEscrow => \A u \in Tx \ {t} : job[u].op \notin OfEscrow
  BY DEF AloneInv, Alone
<1>4. next.op \notin OfEscrow => \A e \in Escrow : lock[EscrowRow(e)] # t
  BY DEF AloneInv, Alone
<1> QED
  BY <1>1, <1>2, <1>3, <1>4, AloneStep

-----------------------------------------------------------------------------
(* Steps that write an escrow                                              *)

\* The request about escrows writes one.
LEMMA AloneWrites ==
  ASSUME IInv, IInv', AloneInv, NEW t \in Tx, NEW e \in Escrow, NEW v, NEW next,
         Update(t, EscrowRow(e), v, next),
         job[t].op \in OfEscrow, next.op \in OfEscrow, v.status # "none",
         Sees(t, next)', Works(t, next)'
  PROVE  AloneInv'
<1>1. /\ job' = [job EXCEPT ![t] = next] /\ job'[t] = next
      /\ \A u \in Tx \ {t} : job'[u] = job[u] /\ job[u].op \notin OfEscrow
  BY DEF Update, IInv, RequestsInv, AloneInv, Alone
<1>2. Write(t, EscrowRow(e), v) /\ StorageTyped
  BY DEF Update, IInv, TablesInv
<1>3. /\ db' = db
      /\ cur' = [r \in Row |-> IF r = EscrowRow(e) THEN v ELSE cur[r]]
      /\ lock' = [r \in Row |-> IF r = EscrowRow(e) THEN t ELSE lock[r]]
  BY <1>2, WriteFacts
<1>4. Alone'
  BY <1>1, <1>3, Rows, NoneAssumption DEF AloneInv, Alone
<1>5. Blank'
  BY <1>3, Rows DEF AloneInv, Blank
<1>6. \A u \in Tx : job'[u].op \in OfEscrow => u = t
  BY <1>1
<1>7. Sees(t, job[t])' /\ Works(t, job[t])'
  BY <1>1 DEF Sees, Works, Effect, Beneficiary
<1> QED
  BY <1>4, <1>5, <1>6, <1>7 DEF AloneInv

\* What a write of an escrow changes: its row, and nothing else of any escrow.
LEMMA EscrowWritten ==
  ASSUME IInv, NEW t \in Tx, NEW e \in Escrow, NEW v, NEW next, Update(t, EscrowRow(e), v, next)
  PROVE  /\ db' = db /\ cur'[EscrowRow(e)] = v /\ lock'[EscrowRow(e)] = t
         /\ lock[EscrowRow(e)] \in {t, NoTx}
         /\ \A f \in Escrow \ {e} : /\ cur'[EscrowRow(f)] = cur[EscrowRow(f)]
                                    /\ lock'[EscrowRow(f)] = lock[EscrowRow(f)]
<1>1. Write(t, EscrowRow(e), v) /\ StorageTyped
  BY DEF Update, IInv, TablesInv
<1> QED
  BY <1>1, WriteFacts, Rows

\* The request about escrows finds no escrow changed by another: what it has not written itself
\* is as committed.
LEMMA SeesCommitted ==
  ASSUME IInv, AloneInv, NEW t \in Tx, job[t].op \in OfEscrow, NEW e \in Escrow
  PROVE  /\ lock[EscrowRow(e)] \in {t, NoTx}
         /\ lock[EscrowRow(e)] # t => cur[EscrowRow(e)] = db[EscrowRow(e)]
         /\ View(t)[EscrowRow(e)] = cur[EscrowRow(e)]
         /\ Read(t, EscrowRow(e)) = cur[EscrowRow(e)]
<1>1. EscrowRow(e) \in Row /\ lock[EscrowRow(e)] \in Tx \cup {NoTx} /\ OneVersion
  BY Rows DEF IInv, TablesInv, StorageTyped
<1>2. lock[EscrowRow(e)] \in {t, NoTx}
  BY <1>1 DEF AloneInv, Alone
<1> QED
  BY <1>1, <1>2 DEF OneVersion, View, Read

-----------------------------------------------------------------------------
(* One request about escrows at a time, statement by statement             *)

\* Until its last write of an escrow a request has only expired escrows.
LEMMA WorksOn ==
  ASSUME NEW t \in Tx, NEW request, NEW next, Works(t, request), request.pc \notin Ending,
         next.op = request.op, next.pc \in Ending => next.op = "details"
  PROVE  Works(t, next)
  BY DEF Works

\* What a request about escrows has not written is as committed, and what it has it expired.
LEMMA Untamed ==
  ASSUME IInv, AloneInv, NEW t \in Tx, job[t].op \in OfEscrow, job[t].pc \notin Ending,
         NEW e \in Escrow, Now(e) # "expired"
  PROVE  cur[EscrowRow(e)] = db[EscrowRow(e)] /\ cur[EscrowRow(e)] \in EscrowValue
<1>1. lock[EscrowRow(e)] # t
  <2>1. SUFFICES ASSUME Expired(e), db[EscrowRow(e)] \in EscrowValue PROVE FALSE
    BY DEF AloneInv, Works, IInv, TablesInv, StorageTyped
  <2> QED
    BY <2>1 DEF Expired, Now, EscrowValue
<1>2. cur[EscrowRow(e)] \in EscrowValue
  BY DEF IInv, TablesInv, StorageTyped
<1> QED
  BY <1>1, <1>2, SeesCommitted

LEMMA CleanupAlone ==
  ASSUME IInv, IInv', BooksInv, BooksInv', AloneInv, NEW t \in Tx,
         CleanCreated(t) \/ CleanSelect(t) \/ RefundLate(t) \/ ExpireLate(t) \/ BurnLate(t)
  PROVE  AloneInv'
<1>1. /\ job[t] \in Job /\ Aims(job[t]) /\ Pays(job[t])
      /\ job[t].op \in OfEscrow /\ job[t].op # "create"
      /\ Sees(t, job[t]) /\ Works(t, job[t])
  BY DEF IInv, RequestsInv, BooksInv, AimedJob, Aims, CleanCreated, CleanSelect, RefundLate,
         ExpireLate, BurnLate, At, Audited, Settlement, OfEscrow, AloneInv
<1>2. /\ job[t].pc \in Loop \cup {"cleanup"} /\ job[t].pc \notin Ending
      /\ job[t].op \in Settlement => job[t].payee = NoUser
  BY <1>1 DEF CleanCreated, CleanSelect, RefundLate, ExpireLate, BurnLate, At, Loop, Ending, Sees
<1>3. Sees(t, AfterCleanup(job[t])) /\ Works(t, AfterCleanup(job[t]))
      /\ AfterCleanup(job[t]).op = job[t].op
  <2>1. PICK next : next = AfterCleanup(job[t])
    OBVIOUS
  <2>2. /\ next.op = job[t].op /\ next.payee = job[t].payee
        /\ next.pc = IF job[t].op = "details" THEN "commit" ELSE "select"
    BY <1>1, <2>1 DEF AfterCleanup, Job
  <2>3. Works(t, next)
    BY <1>1, <1>2, <2>2, WorksOn DEF Ending
  <2>4. Sees(t, next)
    BY <1>2, <2>2 DEF Sees, Loop, Settlement
  <2> QED
    BY <2>1, <2>2, <2>3, <2>4
<1>4. CASE CleanCreated(t)
  <2>1. PICK e \in Lapsed(t, "created") :
           Update(t, EscrowRow(e), [cur[EscrowRow(e)] EXCEPT !.status = "expired"], job[t])
    BY <1>4 DEF CleanCreated
  <2>2. PICK v : v = [cur[EscrowRow(e)] EXCEPT !.status = "expired"]
    OBVIOUS
  <2>3. e \in Escrow /\ Now(e) = "created"
    BY <1>1, <2>1, SeesCommitted DEF Lapsed, Job, Now
  <2>4. cur[EscrowRow(e)] = db[EscrowRow(e)] /\ cur[EscrowRow(e)] \in EscrowValue
    BY <1>1, <1>2, <2>3, Untamed
  <2>5. Update(t, EscrowRow(e), v, job[t]) /\ v.status = "expired"
    BY <2>1, <2>2, <2>4 DEF EscrowValue
  <2>6. /\ db' = db /\ cur'[EscrowRow(e)] = v /\ lock'[EscrowRow(e)] = t
        /\ \A f \in Escrow \ {e} : /\ cur'[EscrowRow(f)] = cur[EscrowRow(f)]
                                   /\ lock'[EscrowRow(f)] = lock[EscrowRow(f)]
    BY <2>3, <2>5, EscrowWritten
  <2>7. job'[t] = job[t] /\ job[t].pc = "cleanup"
    BY <1>4, <2>1 DEF Update, CleanCreated, At, IInv, RequestsInv
  <2>8. PICK next : next = job[t]
    OBVIOUS
  <2>9. Sees(t, next)'
    BY <1>1, <2>7, <2>8 DEF Sees, Loop, Settlement
  <2>10. \A f \in Escrow : lock'[EscrowRow(f)] = t => Expired(f)'
    <3> TAKE f \in Escrow
    <3>1. CASE f = e
      BY <2>2, <2>3, <2>4, <2>6, <3>1 DEF Expired, Now, Open
    <3>2. CASE f # e
      BY <1>1, <1>2, <2>6, <3>2 DEF Works, Expired
    <3> QED
      BY <3>1, <3>2
  <2>11. Works(t, next)'
    BY <1>1, <2>7, <2>8, <2>10 DEF Works, Ending
  <2> QED
    BY <1>1, <2>3, <2>5, <2>8, <2>9, <2>11, AloneWrites
<1>5. CASE CleanSelect(t)
  <2>1. PICK rows : /\ rows = {<<e, View(t)[EscrowRow(e)].customer>> : e \in Lapsed(t, "locked")}
                    /\ Select(t, IF rows = {} THEN AfterCleanup(job[t])
                                 ELSE [job[t] EXCEPT !.pc = "refundLate", !.overdue = rows])
    BY <1>5 DEF CleanSelect
  <2>2. CASE rows = {}
    BY <1>3, <2>1, <2>2, AloneElsewhere
  <2>3. CASE rows # {}
    <3>1. PICK next : next = [job[t] EXCEPT !.pc = "refundLate", !.overdue = rows]
      OBVIOUS
    <3>2. /\ next.pc = "refundLate" /\ next.op = job[t].op /\ next.overdue = rows
          /\ next.payee = job[t].payee
      BY <1>1, <3>1 DEF Job
    <3>3. \A x \in rows : Now(x[1]) = "locked" /\ cur[EscrowRow(x[1])].customer = x[2]
      <4> SUFFICES ASSUME NEW e \in Lapsed(t, "locked")
                   PROVE  Now(e) = "locked" /\ cur[EscrowRow(e)].customer = View(t)[EscrowRow(e)].customer
        BY <2>1
      <4> QED
        BY <1>1, SeesCommitted DEF Lapsed, Job, Now
    <3>4. Sees(t, next)
      BY <1>2, <3>2, <3>3 DEF Sees, Loop
    <3>5. Works(t, next)
      BY <1>1, <1>2, <3>2, WorksOn DEF Ending
    <3> QED
      BY <2>1, <2>3, <3>1, <3>2, <3>4, <3>5, AloneElsewhere
  <2> QED
    BY <2>2, <2>3
<1>6. CASE RefundLate(t)
  <2>1. PICK x \in job[t].overdue :
           Update(t, UserRow(x[2]), Grow(cur[UserRow(x[2])], Price[x[1]]),
                  [job[t] EXCEPT !.pc = "expireLate", !.row = x[1], !.overdue = @ \ {x}])
    BY <1>6 DEF RefundLate
  <2>2. PICK next : next = [job[t] EXCEPT !.pc = "expireLate", !.row = x[1], !.overdue = @ \ {x}]
    OBVIOUS
  <2>3. /\ next.pc = "expireLate" /\ next.op = job[t].op /\ next.row = x[1]
        /\ next.overdue = job[t].overdue \ {x} /\ next.payee = job[t].payee
    BY <1>1, <2>2 DEF Job
  <2>4. \A y \in job[t].overdue : Now(y[1]) = "locked" /\ cur[EscrowRow(y[1])].customer = y[2]
    BY <1>1, <1>6 DEF Sees, Loop, RefundLate, At
  <2>5. \A y \in next.overdue : y[1] # next.row
    <3> SUFFICES ASSUME NEW y \in job[t].overdue, y[1] = x[1] PROVE y = x
      BY <2>3
    <3>1. y[2] = x[2]
      BY <2>4
    <3>2. y \in Escrow \X User /\ x \in Escrow \X User
      BY <1>1 DEF Job
    <3> QED
      BY <3>1, <3>2
  <2>6. Sees(t, next)
    BY <1>2, <2>3, <2>4, <2>5 DEF Sees, Loop
  <2>7. Works(t, next)
    BY <1>1, <1>2, <2>3, WorksOn DEF Ending
  <2>8. \A e \in Escrow : UserRow(x[2]) # EscrowRow(e)
    BY Accounts
  <2> QED
    BY <2>1, <2>2, <2>3, <2>6, <2>7, <2>8, AloneElsewhere
<1>7. CASE ExpireLate(t)
  <2>1. PICK e \in Escrow : e = job[t].row
    BY <1>1, <1>7 DEF ExpireLate, At, Pays
  <2>2. PICK next : next = [job[t] EXCEPT !.pc = "burnLate"]
    OBVIOUS
  <2>3. PICK v : v = [cur[EscrowRow(e)] EXCEPT !.status = "expired"]
    OBVIOUS
  <2>4. job[t].pc = "expireLate" /\ Update(t, EscrowRow(e), v, next)
    BY <1>7, <2>1, <2>2, <2>3 DEF ExpireLate, At
  <2>5. /\ next.pc = "burnLate" /\ next.op = job[t].op /\ next.row = e
        /\ next.overdue = job[t].overdue /\ next.payee = job[t].payee
    BY <1>1, <2>1, <2>2, Relabelled
  <2>6. Now(e) = "locked" /\ \A x \in job[t].overdue : x[1] # e
    BY <1>1, <2>1, <2>4 DEF Sees
  <2>7. cur[EscrowRow(e)] = db[EscrowRow(e)] /\ cur[EscrowRow(e)] \in EscrowValue
    BY <1>1, <1>2, <2>6, Untamed
  <2>8. v.status = "expired"
    BY <2>3, <2>7 DEF EscrowValue
  <2>9. /\ db' = db /\ cur'[EscrowRow(e)] = v /\ lock'[EscrowRow(e)] = t
        /\ \A f \in Escrow \ {e} : /\ cur'[EscrowRow(f)] = cur[EscrowRow(f)]
                                   /\ lock'[EscrowRow(f)] = lock[EscrowRow(f)]
    BY <2>4, EscrowWritten
  <2>10. \A x \in next.overdue : Now(x[1])' = "locked" /\ cur'[EscrowRow(x[1])].customer = x[2]
    <3> TAKE x \in next.overdue
    <3>1. x[1] \in Escrow \ {e} /\ Now(x[1]) = "locked" /\ cur[EscrowRow(x[1])].customer = x[2]
      BY <1>1, <2>4, <2>5, <2>6 DEF Job, Sees, Loop
    <3> QED
      BY <2>9, <3>1 DEF Now
  <2>11. Sees(t, next)'
    BY <1>2, <2>5, <2>6, <2>7, <2>8, <2>9, <2>10 DEF Sees, Loop, Now
  <2>12. \A f \in Escrow : lock'[EscrowRow(f)] = t => Expired(f)'
    <3> TAKE f \in Escrow
    <3>1. CASE f = e
      BY <2>3, <2>6, <2>7, <2>9, <3>1 DEF Expired, Now, Open
    <3>2. CASE f # e
      BY <1>1, <1>2, <2>9, <3>2 DEF Works, Expired
    <3> QED
      BY <3>1, <3>2
  <2>13. Works(t, next)'
    BY <1>1, <2>5, <2>12 DEF Works, Ending
  <2> QED
    BY <1>1, <2>4, <2>5, <2>8, <2>11, <2>13, AloneWrites
<1>8. CASE BurnLate(t)
  <2>1. PICK next : next = IF job[t].overdue = {} THEN AfterCleanup(job[t])
                           ELSE [job[t] EXCEPT !.pc = "refundLate"]
    OBVIOUS
  <2>2. PICK v : Update(t, ReserveRow, v, next)
    BY <1>8, <2>1 DEF BurnLate
  <2>3. Sees(t, next) /\ Works(t, next) /\ next.op = job[t].op
    <3>1. CASE job[t].overdue = {}
      BY <1>3, <2>1, <3>1
    <3>2. CASE job[t].overdue # {}
      <4>1. /\ next.pc = "refundLate" /\ next.op = job[t].op /\ next.overdue = job[t].overdue
            /\ next.payee = job[t].payee
        BY <1>1, <2>1, <3>2, Relabelled
      <4>2. Works(t, next)
        BY <1>1, <1>2, <4>1, WorksOn DEF Ending
      <4>3. job[t].pc = "burnLate"
        BY <1>8 DEF BurnLate, At
      <4>4. Sees(t, next)
        BY <1>1, <1>2, <4>1, <4>3 DEF Sees, Loop
      <4> QED
        BY <4>1, <4>2, <4>4
    <3> QED
      BY <3>1, <3>2
  <2> QED
    BY <2>2, <2>3, Rows, AloneElsewhere
<1> QED
  BY <1>4, <1>5, <1>6, <1>7, <1>8

\* A statement that only goes on at another label, before the last write of an escrow.
LEMMA GoesOnAlone ==
  ASSUME IInv, IInv', BooksInv, BooksInv', AloneInv, NEW t \in Tx, NEW row, NEW v, NEW label, NEW next,
         next = [job[t] EXCEPT !.pc = label],
         Select(t, next) \/ (Update(t, row, v, next) /\ \A e \in Escrow : row # EscrowRow(e)),
         job[t].op \in OfEscrow => Sees(t, next) /\ job[t].pc \notin Ending /\ label \notin Ending
  PROVE  AloneInv'
<1>1. job[t] \in Job
  BY DEF IInv, RequestsInv, AimedJob
<1>2. next.op = job[t].op /\ next.pc = label
  BY <1>1, Relabelled
<1>3. job[t].op \in OfEscrow => Works(t, job[t])
  BY DEF AloneInv
<1>4. next.op \in OfEscrow => Works(t, next)
  BY <1>2, <1>3, WorksOn
<1> QED
  BY <1>2, <1>4, AloneElsewhere

LEMMA LockAlone ==
  ASSUME IInv, IInv', BooksInv, BooksInv', AloneInv, NEW t \in Tx, ~Throw(t),
         CreateInsert(t) \/ LockSelect(t) \/ SelectCoin(t) \/ Spend(t) \/ MarkLocked(t)
  PROVE  AloneInv'
<1>1. /\ job[t] \in Job /\ Aims(job[t])
      /\ job[t].op \in OfEscrow => Sees(t, job[t]) /\ Works(t, job[t])
  BY DEF IInv, RequestsInv, AimedJob, AloneInv
<1>2. CASE CreateInsert(t)
  <2>1. PICK next : next = [job[t] EXCEPT !.pc = "assert"]
    OBVIOUS
  <2>2. PICK v : v = [Absent EXCEPT !.status = "created"]
    OBVIOUS
  <2>3. /\ job[t].pc = "insert" /\ Update(t, EscrowRow(job[t].esc), v, next)
        /\ job[t].op = "create" /\ job[t].esc \in Escrow /\ job[t].op \in OfEscrow
    BY <1>1, <1>2, <2>1, <2>2 DEF CreateInsert, At, Aims, OfEscrow
  <2>4. PICK e \in Escrow : e = job[t].esc
    BY <2>3
  <2>5. next.pc = "assert" /\ next.op = "create" /\ next.esc = e
    BY <1>1, <2>1, <2>3, <2>4, Relabelled
  <2>6. ~Known(e)
    BY <2>3, <2>4 DEF IInv, RequestsInv, RequestInv, Vacant
  <2>7. db[EscrowRow(e)] = Absent
    BY <2>6 DEF Known, AloneInv, Blank
  <2>8. v.status = "created"
    BY <2>2 DEF Absent
  <2>9. /\ db' = db /\ cur'[EscrowRow(e)] = v /\ lock'[EscrowRow(e)] = t
        /\ \A f \in Escrow \ {e} : /\ cur'[EscrowRow(f)] = cur[EscrowRow(f)]
                                   /\ lock'[EscrowRow(f)] = lock[EscrowRow(f)]
    BY <2>3, <2>4, EscrowWritten
  <2>10. Sees(t, next)'
    BY <2>5 DEF Sees, Loop, Settlement
  <2>11. Effect(next)'
    BY <2>2, <2>5, <2>7, <2>9 DEF Effect
  <2>12. \A f \in Escrow : lock'[EscrowRow(f)] = t => f = e
    BY <1>1, <2>3, <2>9 DEF Works, Ending
  <2>13. Works(t, next)'
    BY <2>5, <2>9, <2>11, <2>12 DEF Works, Ending
  <2> QED
    BY <2>3, <2>4, <2>5, <2>8, <2>10, <2>13, AloneWrites
<1>3. CASE LockSelect(t)
  <2>1. PICK next : next = [job[t] EXCEPT !.pc = "coin"]
    OBVIOUS
  <2>2. /\ job[t].pc = "select" /\ job[t].op = "lock" /\ Select(t, next)
        /\ Selected(t).status = "created"
    BY <1>3, <2>1 DEF LockSelect, At
  <2>3. job[t].op \in OfEscrow /\ job[t].esc \in Escrow
    BY <1>1, <2>2 DEF OfEscrow, Audited, Aims
  <2>4. Now(job[t].esc) = "created"
    BY <2>2, <2>3, SeesCommitted DEF Selected, Now
  <2>5. next.pc = "coin" /\ next.op = "lock" /\ next.esc = job[t].esc
    BY <1>1, <2>1, <2>2, Relabelled
  <2>6. Sees(t, next)
    BY <2>4, <2>5 DEF Sees, Loop, Settlement
  <2> QED
    BY <2>1, <2>2, <2>6, GoesOnAlone DEF Ending
<1>4. CASE SelectCoin(t)
  <2>1. PICK next : next = [job[t] EXCEPT !.pc = "spend"]
    OBVIOUS
  <2>2. job[t].pc = "coin" /\ Select(t, next) /\ job[t].op \in Payment \cup {"lock"}
    BY <1>1, <1>4, <2>1 DEF SelectCoin, At, Aims
  <2>3. next.pc = "spend" /\ next.op = job[t].op /\ next.esc = job[t].esc
    BY <1>1, <2>1, Relabelled
  <2>4. job[t].op \in OfEscrow => Sees(t, next)
    BY <1>1, <2>2, <2>3 DEF Sees, Loop, Settlement, Payment
  <2> QED
    BY <2>1, <2>2, <2>4, GoesOnAlone DEF Ending
<1>5. CASE Spend(t)
  <2>1. PICK label : label = IF job[t].op = "lock" THEN "mark" ELSE "credit"
    OBVIOUS
  <2>2. PICK next : next = [job[t] EXCEPT !.pc = label]
    OBVIOUS
  <2>3. PICK v : v = DepositedTo(job[t])
    OBVIOUS
  <2>4. job[t].pc = "spend" /\ Update(t, CoinRow(job[t].coin), v, next)
    BY <1>5, <2>1, <2>2, <2>3 DEF Spend, At
  <2>5. job[t].coin \in Coin /\ job[t].op \in Payment \cup {"lock"}
    BY <1>1, <2>4 DEF Aims
  <2>6. next.pc = label /\ next.op = job[t].op /\ next.esc = job[t].esc
    BY <1>1, <2>2, Relabelled
  <2>7. job[t].op \in OfEscrow => job[t].op = "lock"
    BY <2>5 DEF OfEscrow, Audited, Settlement, Payment
  <2>8. job[t].op \in OfEscrow => Sees(t, next)
    BY <1>1, <2>1, <2>4, <2>6, <2>7 DEF Sees, Loop, Settlement
  <2>9. \A e \in Escrow : CoinRow(job[t].coin) # EscrowRow(e)
    BY <2>5, Rows
  <2> QED
    BY <2>1, <2>2, <2>4, <2>7, <2>8, <2>9, GoesOnAlone DEF Ending
<1>6. CASE MarkLocked(t)
  <2>1. PICK next : next = [job[t] EXCEPT !.pc = "assert"]
    OBVIOUS
  <2>2. PICK v : v = [status |-> "locked", customer |-> job[t].user, serial |-> job[t].coin]
    OBVIOUS
  <2>3. /\ job[t].pc = "mark" /\ Update(t, EscrowRow(job[t].esc), v, next)
        /\ job[t].op = "lock" /\ job[t].esc \in Escrow /\ job[t].op \in OfEscrow
    BY <1>1, <1>6, <2>1, <2>2 DEF MarkLocked, At, Aims, Audited, OfEscrow
  <2>4. PICK e \in Escrow : e = job[t].esc
    BY <2>3
  <2>5. /\ next.pc = "assert" /\ next.op = "lock" /\ next.esc = e
        /\ next.user = job[t].user /\ next.coin = job[t].coin
    BY <1>1, <2>1, <2>3, <2>4, Relabelled
  <2>6. Now(e) = "created"
    BY <1>1, <2>3, <2>4 DEF Sees
  <2>7. cur[EscrowRow(e)] = db[EscrowRow(e)] /\ cur[EscrowRow(e)] \in EscrowValue
    BY <2>3, <2>6, Untamed DEF Ending
  <2>9. /\ db' = db /\ cur'[EscrowRow(e)] = v /\ lock'[EscrowRow(e)] = t
        /\ \A f \in Escrow \ {e} : /\ cur'[EscrowRow(f)] = cur[EscrowRow(f)]
                                   /\ lock'[EscrowRow(f)] = lock[EscrowRow(f)]
    BY <2>3, <2>4, EscrowWritten
  <2>10. Sees(t, next)'
    BY <2>5 DEF Sees, Loop, Settlement
  <2>11. Effect(next)'
    BY <2>2, <2>5, <2>6, <2>7, <2>9 DEF Effect, Now
  <2>12. \A f \in Escrow : lock'[EscrowRow(f)] = t => Expired(f)' \/ f = e
    BY <1>1, <2>3, <2>9 DEF Works, Expired, Ending
  <2>13. Works(t, next)'
    BY <2>5, <2>9, <2>11, <2>12 DEF Works, Ending
  <2> QED
    BY <2>2, <2>3, <2>4, <2>5, <2>10, <2>13, AloneWrites
<1> QED
  BY <1>2, <1>3, <1>4, <1>5, <1>6

LEMMA SettleAlone ==
  ASSUME IInv, IInv', BooksInv, BooksInv', AloneInv, NEW t \in Tx, ~Throw(t),
         ConfirmSelect(t) \/ CancelSelect(t) \/ Credit(t) \/ Book(t) \/ Close(t)
  PROVE  AloneInv'
<1>1. /\ job[t] \in Job /\ Aims(job[t]) /\ Pays(job[t])
      /\ job[t].op \in OfEscrow => Sees(t, job[t]) /\ Works(t, job[t])
  BY DEF IInv, RequestsInv, BooksInv, AimedJob, AloneInv
<1>2. Settlement \subseteq OfEscrow /\ Settlement \subseteq Audited
  BY DEF OfEscrow, Audited
<1>3. ASSUME NEW p \in User, job[t].pc = "select", job[t].op \in Settlement,
             Now(job[t].esc) = "locked", p = Beneficiary(job[t]),
             Select(t, [job[t] EXCEPT !.pc = "credit", !.payee = p])
      PROVE  AloneInv'
  <2>1. PICK next : next = [job[t] EXCEPT !.pc = "credit", !.payee = p]
    OBVIOUS
  <2>2. next.pc = "credit" /\ next.op = job[t].op /\ next.payee = p /\ next.esc = job[t].esc
    BY <1>1, <2>1 DEF Job
  <2>3. p # NoUser /\ Beneficiary(next) = Beneficiary(job[t])
    BY <2>2, NullAssumption DEF Beneficiary
  <2>4. Sees(t, next)
    BY <1>3, <2>2, <2>3 DEF Sees, Loop, Settlement
  <2>5. Works(t, next)
    BY <1>1, <1>2, <1>3, <2>2, WorksOn DEF Ending
  <2> QED
    BY <1>3, <2>1, <2>2, <2>4, <2>5, AloneElsewhere
<1>4. CASE ConfirmSelect(t)
  <2>1. /\ job[t].op = "confirm" /\ job[t].pc = "select" /\ job[t].op \in Settlement
        /\ Selected(t).status = "locked"
        /\ Select(t, [job[t] EXCEPT !.pc = "credit", !.payee = Merchant[job[t].esc]])
    BY <1>4 DEF ConfirmSelect, At, Settlement
  <2>2. job[t].esc \in Escrow
    BY <1>1, <1>2, <2>1 DEF Aims
  <2>3. Now(job[t].esc) = "locked"
    BY <1>2, <2>1, <2>2, SeesCommitted DEF Selected, Now
  <2>4. Merchant[job[t].esc] \in User /\ Merchant[job[t].esc] = Beneficiary(job[t])
    BY <2>1, <2>2, MerchantAssumption DEF Beneficiary
  <2> QED
    BY <1>3, <2>1, <2>3, <2>4
<1>5. CASE CancelSelect(t)
  <2>1. /\ job[t].op = "cancel" /\ job[t].pc = "select" /\ job[t].op \in Settlement
        /\ job[t].op \in OfEscrow
    BY <1>2, <1>5 DEF CancelSelect, At, Settlement
  <2>2. job[t].esc \in Escrow
    BY <1>1, <1>2, <2>1 DEF Aims
  <2>3. Selected(t) = cur[EscrowRow(job[t].esc)]
    BY <2>1, <2>2, SeesCommitted DEF Selected
  <2>4. CASE Selected(t).status = "created" /\ Select(t, [job[t] EXCEPT !.pc = "close"])
    <3>1. PICK next : next = [job[t] EXCEPT !.pc = "close"]
      OBVIOUS
    <3>2. /\ next.pc = "close" /\ next.op = "cancel" /\ next.payee = job[t].payee
          /\ next.esc = job[t].esc
      BY <1>1, <2>1, <3>1, Relabelled
    <3>3. job[t].payee = NoUser
      BY <1>1, <2>1 DEF Sees
    <3>4. Sees(t, next)
      BY <2>3, <2>4, <3>2, <3>3 DEF Sees, Loop, Settlement, Now
    <3> QED
      BY <2>1, <2>4, <3>1, <3>4, GoesOnAlone DEF Ending
  <2>5. CASE /\ Selected(t).status = "locked"
             /\ Select(t, [job[t] EXCEPT !.pc = "credit", !.payee = Selected(t).customer])
    <3>1. Selected(t).customer \in User
      BY <2>2, <2>5, ReadsRow DEF Selected, RowInv
    <3>2. Now(job[t].esc) = "locked" /\ Selected(t).customer = Beneficiary(job[t])
      BY <2>1, <2>3, <2>5 DEF Now, Beneficiary
    <3> QED
      BY <1>3, <2>1, <2>5, <3>1, <3>2
  <2> QED
    BY <1>5, <2>4, <2>5 DEF CancelSelect
<1>6. ASSUME NEW label, NEW next, next = [job[t] EXCEPT !.pc = label],
             job[t].op \in OfEscrow,
             \/ job[t].pc = "credit" /\ label = "book"
             \/ job[t].pc = "book" /\ label = "close"
      PROVE  Sees(t, next)
  <2>1. next.pc = label /\ next.op = job[t].op /\ next.payee = job[t].payee /\ next.esc = job[t].esc
    BY <1>1, <1>6, Relabelled
  <2>2. job[t].op \in Settlement
    BY <1>6, EscrowRequest
  <2>3. job[t].payee # NoUser /\ Now(job[t].esc) = "locked" /\ job[t].payee = Beneficiary(job[t])
    BY <1>1, <1>6, <2>2 DEF Sees
  <2>4. Beneficiary(next) = Beneficiary(job[t])
    BY <2>1 DEF Beneficiary
  <2> QED
    BY <1>6, <2>1, <2>2, <2>3, <2>4 DEF Sees, Loop, Settlement
<1>7. CASE Credit(t)
  <2>1. PICK next : next = [job[t] EXCEPT !.pc = "book"]
    OBVIOUS
  <2>2. PICK row, v : row = UserRow(job[t].payee) /\ v = Credited(cur[row], job[t])
    OBVIOUS
  <2>3. job[t].pc = "credit" /\ Update(t, row, v, next)
    BY <1>7, <2>1, <2>2 DEF Credit, At
  <2>4. \A e \in Escrow : row # EscrowRow(e)
    BY <2>2, Accounts
  <2>5. job[t].op \in OfEscrow => Sees(t, next)
    BY <1>6, <2>1, <2>3
  <2> QED
    BY <2>1, <2>3, <2>4, <2>5, GoesOnAlone DEF Ending
<1>8. CASE Book(t)
  <2>1. PICK label : label = IF job[t].op \in Settlement THEN "close" ELSE "assert"
    OBVIOUS
  <2>2. PICK next : next = [job[t] EXCEPT !.pc = label]
    OBVIOUS
  <2>3. PICK v : v = Booked(cur[ReserveRow], job[t])
    OBVIOUS
  <2>4. job[t].pc = "book" /\ Update(t, ReserveRow, v, next)
    BY <1>8, <2>1, <2>2, <2>3 DEF Book, At
  <2>5. job[t].op \in OfEscrow => label = "close"
    BY <2>1, <2>4, EscrowRequest
  <2>6. job[t].op \in OfEscrow => Sees(t, next)
    BY <1>6, <2>2, <2>4, <2>5
  <2> QED
    BY <2>2, <2>4, <2>5, <2>6, Rows, GoesOnAlone DEF Ending
<1>9. CASE Close(t)
  <2>1. PICK next : next = [job[t] EXCEPT !.pc = "assert"]
    OBVIOUS
  <2>2. PICK status : status = IF job[t].op = "confirm" THEN "committed" ELSE "cancelled"
    OBVIOUS
  <2>3. PICK v : v = [cur[EscrowRow(job[t].esc)] EXCEPT !.status = status]
    OBVIOUS
  <2>4. /\ job[t].pc = "close" /\ Update(t, EscrowRow(job[t].esc), v, next)
        /\ job[t].op \in Settlement /\ job[t].op \in OfEscrow /\ job[t].esc \in Escrow
    BY <1>1, <1>2, <1>9, <2>1, <2>2, <2>3 DEF Close, At, Aims
  <2>5. PICK e \in Escrow : e = job[t].esc
    BY <2>4
  <2>6. next.pc = "assert" /\ next.op = job[t].op /\ next.esc = e /\ next.payee = job[t].payee
    BY <1>1, <2>1, <2>5, Relabelled
  <2>7. \/ /\ job[t].payee # NoUser /\ Now(e) = "locked"
           /\ job[t].payee = Beneficiary(job[t])
        \/ job[t].payee = NoUser /\ Now(e) = "created" /\ job[t].op = "cancel"
    BY <1>1, <2>4, <2>5 DEF Sees
  <2>8. cur[EscrowRow(e)] = db[EscrowRow(e)] /\ cur[EscrowRow(e)] \in EscrowValue
    BY <2>4, <2>7, Untamed DEF Ending
  <2>9. /\ db' = db /\ cur'[EscrowRow(e)] = v /\ lock'[EscrowRow(e)] = t
        /\ \A f \in Escrow \ {e} : /\ cur'[EscrowRow(f)] = cur[EscrowRow(f)]
                                   /\ lock'[EscrowRow(f)] = lock[EscrowRow(f)]
    BY <2>4, <2>5, EscrowWritten
  <2>10. v.status # "none"
    BY <2>2, <2>3, <2>5, <2>8 DEF EscrowValue
  <2>11. Sees(t, next)'
    BY <2>4, <2>6 DEF Sees, Loop, Settlement
  <2>12. Effect(next)'
    <3>1. v = [db[EscrowRow(e)] EXCEPT !.status = status]
      BY <2>3, <2>5, <2>8
    <3>2. Now(e) = db[EscrowRow(e)].status
      BY <2>8 DEF Now
    <3>3. CASE job[t].op = "confirm"
      BY <2>2, <2>5, <2>6, <2>7, <2>9, <3>1, <3>2, <3>3 DEF Effect, Beneficiary
    <3>4. CASE job[t].op = "cancel"
      BY <2>2, <2>5, <2>6, <2>7, <2>8, <2>9, <3>1, <3>2, <3>4 DEF Effect, Beneficiary
    <3> QED
      BY <2>4, <3>3, <3>4 DEF Settlement
  <2>13. \A f \in Escrow : lock'[EscrowRow(f)] = t => Expired(f)' \/ f = e
    BY <1>1, <2>4, <2>9 DEF Works, Expired, Ending
  <2>14. Works(t, next)'
    BY <2>4, <2>6, <2>9, <2>12, <2>13 DEF Works, Ending, Settlement
  <2> QED
    BY <2>4, <2>5, <2>6, <2>10, <2>11, <2>14, AloneWrites
<1> QED
  BY <1>4, <1>5, <1>7, <1>8, <1>9

\* assertInvariant and logAction.
LEMMA EndAlone ==
  ASSUME IInv, IInv', BooksInv, BooksInv', AloneInv, NEW t \in Tx, ~Throw(t),
         AssertBooks(t) \/ AuditOutside(t)
  PROVE  AloneInv'
<1>1. /\ job[t] \in Job /\ job[t].pc \in {"assert", "audit"}
      /\ job[t].op \in OfEscrow => Sees(t, job[t]) /\ Works(t, job[t])
  BY DEF IInv, RequestsInv, AimedJob, AloneInv, AssertBooks, AuditOutside, At
<1>2. PICK label : label \in {"audit", "commit"} /\ UNCHANGED storage
                   /\ job' = [job EXCEPT ![t] = [job[t] EXCEPT !.pc = label]]
  <2>1. CASE AssertBooks(t)
    <3>1. PICK label : label = IF LogsOutside(job[t]) THEN "audit" ELSE "commit"
      OBVIOUS
    <3> QED
      BY <2>1, <3>1 DEF AssertBooks, Select
  <2>2. CASE AuditOutside(t)
    <3>1. job' = [job EXCEPT ![t] = [job[t] EXCEPT !.pc = "commit"]] /\ UNCHANGED storage
      BY <2>2 DEF AuditOutside
    <3> QED
      BY <3>1
  <2> QED
    BY <2>1, <2>2
<1>3. PICK next : next = [job[t] EXCEPT !.pc = label]
  OBVIOUS
<1>4. /\ next.pc = label /\ next.op = job[t].op /\ next.payee = job[t].payee
      /\ next.esc = job[t].esc /\ next.user = job[t].user /\ next.coin = job[t].coin
  BY <1>1, <1>3, Relabelled
<1>5. ASSUME job[t].op \in OfEscrow PROVE Sees(t, next) /\ Works(t, next)
  <2>1. job[t].op # "details"
    BY <1>1, <1>5 DEF Sees, Loop
  <2>2. Sees(t, next)
    BY <1>2, <1>4, <2>1 DEF Sees, Loop
  <2>3. Effect(next) <=> Effect(job[t])
    BY <1>4 DEF Effect
  <2>4. Works(t, next)
    BY <1>1, <1>2, <1>4, <1>5, <2>1, <2>3 DEF Works, Ending
  <2> QED
    BY <2>2, <2>4
<1>6. SameEscrows
  BY <1>2 DEF storage, SameEscrows
<1>7. job' = [job EXCEPT ![t] = next]
  BY <1>2, <1>3
<1>8. /\ next.op \in OfEscrow => \A u \in Tx \ {t} : job[u].op \notin OfEscrow
      /\ next.op \notin OfEscrow => \A e \in Escrow : lock[EscrowRow(e)] # t
  BY <1>4 DEF AloneInv, Alone
<1> QED
  BY <1>4, <1>5, <1>6, <1>7, <1>8, AloneStep

\* A transaction is over: the escrows it held are free, and nobody else works on one.
LEMMA OverAlone ==
  ASSUME IInv, IInv', BooksInv, BooksInv', AloneInv, NEW t \in Tx, job' = [job EXCEPT ![t] = Idle],
         lock' = [r \in Row |-> IF lock[r] = t THEN NoTx ELSE lock[r]],
         \A r \in Row : lock[r] # t => db'[r] = db[r] /\ cur'[r] = cur[r],
         \A r \in Row : lock[r] = t => db'[r] \in {db[r], cur[r]} /\ cur'[r] \in {db[r], cur[r]}
  PROVE  AloneInv'
<1>1. job'[t] = Idle /\ (\A u \in Tx \ {t} : job'[u] = job[u]) /\ Idle.op \notin OfEscrow
  BY DEF IInv, RequestsInv, Idle, OfEscrow, Audited, Settlement
<1>2. CASE job[t].op \in OfEscrow
  <2>1. \A u \in Tx : job'[u].op \notin OfEscrow
    BY <1>1, <1>2 DEF AloneInv, Alone
  <2>2. Alone'
    BY <1>1, <1>2, <2>1, Rows, NoneAssumption DEF AloneInv, Alone
  <2>3. Blank'
    BY Rows DEF AloneInv, Blank
  <2> QED
    BY <2>1, <2>2, <2>3 DEF AloneInv
<1>3. CASE job[t].op \notin OfEscrow
  <2>1. \A e \in Escrow : lock[EscrowRow(e)] # t
    BY <1>3 DEF AloneInv, Alone
  <2>2. SameEscrows
    BY <2>1, Rows DEF SameEscrows
  <2> QED
    BY <1>1, <2>1, <2>2, AloneStep
<1> QED
  BY <1>2, <1>3

LEMMA ThrowAlone ==
  ASSUME IInv, IInv', BooksInv, BooksInv', AloneInv, NEW t \in Tx, Throw(t)
  PROVE  AloneInv'
<1>1. /\ db' = db /\ job' = [job EXCEPT ![t] = Idle]
      /\ cur' = [r \in Row |-> IF lock[r] = t THEN db[r] ELSE cur[r]]
      /\ lock' = [r \in Row |-> IF lock[r] = t THEN NoTx ELSE lock[r]]
  BY RollbackFacts DEF Throw, IInv, TablesInv
<1> QED
  BY <1>1, OverAlone

LEMMA CommitAlone ==
  ASSUME IInv, IInv', BooksInv, BooksInv', AloneInv, NEW t \in Tx, CommitTx(t)
  PROVE  AloneInv'
<1>1. /\ cur' = cur /\ job' = [job EXCEPT ![t] = Idle]
      /\ db' = [r \in Row |-> IF lock[r] = t THEN cur[r] ELSE db[r]]
      /\ lock' = [r \in Row |-> IF lock[r] = t THEN NoTx ELSE lock[r]]
  BY CommitFacts DEF CommitTx, IInv, TablesInv
<1> QED
  BY <1>1, OverAlone

\* A request about escrows only starts when there is no other.
LEMMA BeginAlone ==
  ASSUME Patient, IInv, IInv', BooksInv, BooksInv', AloneInv, NEW t \in Tx, Begin(t)
  PROVE  AloneInv'
<1>1. job[t].pc = "idle" /\ job[t].op = "none" /\ job[t].op \notin OfEscrow
  BY DEF Begin, BeginCreate, BeginDetails, BeginLock, BeginSettle, BeginPay, BeginDeposit,
         Start, At, IInv, RequestsInv, AimedJob, Aims, OfEscrow, Audited, Settlement
<1>2. \A e \in Escrow : lock[EscrowRow(e)] # t
  BY <1>1 DEF AloneInv, Alone
<1>3. ASSUME NEW request, Start(t, request),
             DOMAIN request = DOMAIN Idle, request = [x \in DOMAIN Idle |-> request[x]],
             request.op \in OfEscrow =>
                /\ request.pc \in {"insert", "cleanup"} /\ request.payee = NoUser
                /\ request.op = "details" => request.pc = "cleanup"
      PROVE  AloneInv'
  <2>1. PICK next : next = [request EXCEPT !.late = late]
    OBVIOUS
  <2>2. next.pc = request.pc /\ next.op = request.op /\ next.payee = request.payee
    BY <1>3, <2>1 DEF Idle
  <2>3. next.op \in OfEscrow => Sees(t, next) /\ Works(t, next)
    BY <1>2, <1>3, <2>2 DEF Sees, Works, Loop, Ending
  <2>4. job' = [job EXCEPT ![t] = next] /\ SameEscrows
    BY <1>3, <2>1 DEF Start, storage, SameEscrows
  <2>5. next.op \in OfEscrow => \A u \in Tx \ {t} : job[u].op \notin OfEscrow
    BY <1>3, <2>2 DEF Start, MayStart
  <2> QED
    BY <1>2, <2>3, <2>4, <2>5, AloneStep
<1>4. ASSUME NEW e \in Escrow, BeginCreate(t, e) PROVE AloneInv'
  BY <1>3, <1>4 DEF BeginCreate, Idle
<1>5. ASSUME NEW e \in Escrow, BeginDetails(t, e) PROVE AloneInv'
  BY <1>3, <1>5 DEF BeginDetails, Idle
<1>6. ASSUME NEW e \in Escrow, NEW u \in User, NEW c \in Coin, BeginLock(t, u, e, c) PROVE AloneInv'
  BY <1>3, <1>6 DEF BeginLock, Idle
<1>7. ASSUME NEW e \in Escrow, NEW u \in User, NEW op \in Settlement, BeginSettle(t, op, u, e)
      PROVE  AloneInv'
  BY <1>3, <1>7 DEF BeginSettle, Idle, Settlement
<1>8. ASSUME NEW u \in User, NEW c \in Coin, NEW op \in Payment, BeginPay(t, op, u, c) PROVE AloneInv'
  <2>1. op \notin OfEscrow
    BY DEF Payment, OfEscrow, Audited, Settlement
  <2> QED
    BY <1>3, <1>8, <2>1 DEF BeginPay, Idle
<1>9. ASSUME NEW u \in User, NEW amount \in Cash, BeginDeposit(t, u, amount) PROVE AloneInv'
  <2>1. "deposit" \notin OfEscrow
    BY DEF OfEscrow, Audited, Settlement
  <2> QED
    BY <1>3, <1>9, <2>1 DEF BeginDeposit, Idle
<1> QED
  BY <1>4, <1>5, <1>6, <1>7, <1>8, <1>9 DEF Begin

LEMMA InitAlone == DbInit => AloneInv
<1> SUFFICES ASSUME DbInit PROVE AloneInv
  OBVIOUS
<1>1. \A t \in Tx : job[t].op \notin OfEscrow
  BY DEF DbInit, Idle, OfEscrow, Audited, Settlement
<1>2. \A e \in Escrow : /\ lock[EscrowRow(e)] = NoTx
                        /\ db[EscrowRow(e)] = Absent /\ cur[EscrowRow(e)] = Absent
  <2>1. \A e \in Escrow : EscrowRow(e)[1] = "escrow" /\ EscrowRow(e) \in Row
    BY DEF EscrowRow, Row
  <2> QED
    BY <2>1 DEF DbInit
<1> QED
  BY <1>1, <1>2, NoneAssumption DEF AloneInv, Alone, Blank

LEMMA CrashAlone ==
  ASSUME AloneInv, Crash
  PROVE  AloneInv'
<1>1. /\ db' = db /\ cur' = db /\ lock' = [r \in Row |-> NoTx] /\ job' = [t \in Tx |-> Idle]
  BY DEF Crash, RollbackAll
<1>2. \A t \in Tx : job'[t].op \notin OfEscrow
  BY <1>1 DEF Idle, OfEscrow, Audited, Settlement
<1>3. Blank'
  BY <1>1 DEF AloneInv, Blank
<1>4. Alone'
  BY <1>1, <1>2, Rows, NoneAssumption DEF Alone
<1> QED
  BY <1>2, <1>3, <1>4 DEF AloneInv

LEMMA AloneStays ==
  ASSUME AloneInv, UNCHANGED <<storage, job>>
  PROVE  AloneInv'
  BY DEF storage, AloneInv, Alone, Blank, Sees, Works, Effect, Expired, Beneficiary, Now

LEMMA NextAlone ==
    Patient /\ IInv /\ IInv' /\ BooksInv /\ BooksInv' /\ AloneInv /\ [Next]_vars => AloneInv'
<1> SUFFICES ASSUME Patient, IInv, IInv', BooksInv, BooksInv', AloneInv, [Next]_vars PROVE AloneInv'
  OBVIOUS
<1>1. ASSUME NEW t \in Tx, Statement(t) PROVE AloneInv'
  <2>1. CASE Throw(t)
    BY <2>1, ThrowAlone
  <2>2. CASE ~Throw(t)
    BY <1>1, <2>2, CleanupAlone, LockAlone, SettleAlone, EndAlone, CommitAlone
       DEF Statement, PoolTimeout, DeadlockVictim
  <2> QED
    BY <2>1, <2>2
<1>2. ASSUME NEW t \in Tx, Begin(t) PROVE AloneInv'
  BY <1>2, BeginAlone
<1>3. CASE UNCHANGED vars \/ \E e \in Escrow : TimePasses(e)
  BY <1>3, AloneStays DEF vars, storage, TimePasses
<1>4. CASE Crash
  BY <1>4, CrashAlone
<1> QED
  BY <1>1, <1>2, <1>3, <1>4 DEF Next, Step

LEMMA AloneInvariance ==
  ASSUME Patient
  PROVE  Spec => []AloneInv
<1>1. IInv /\ IInv' /\ BooksInv /\ BooksInv' /\ AloneInv /\ [Next]_vars => AloneInv'
  BY NextAlone
<1> QED
  BY <1>1, InitAlone, BooksInvariance, PTL DEF Spec

-----------------------------------------------------------------------------
(***************************************************************************)
(* Tokens.  Excess says how far total_issued - total_redeemed is from the  *)
(* tokens that lie unspent and those that are locked; a request about      *)
(* escrows, being the only one, and a payment change it by what they still *)
(* owe.                                                                    *)
(***************************************************************************)
Outstanding(bank) == bank.total_issued - bank.total_redeemed
Excess(version) == Outstanding(version[ReserveRow]) - Unspent(version) - Locked(version)

\* What the statements of request t have changed of it so far.
Drift(t) == Excess(View(t)) - Excess(db)

\* What a token or a locked escrow counts.
Lying(value, c) == IF value = NoUser THEN Worth[c] ELSE 0
Held(value, e) == IF value.status = "locked" THEN Price[e] ELSE 0

\* A token is spent before it is locked or redeemed, an expired escrow closed before its token is
\* burnt, and a settled one after.
Owes(request) ==
    IF request.pc = "mark" THEN Worth[request.coin]
    ELSE IF request.op \in Payment /\ request.pc \in {"credit", "book"} THEN Worth[request.coin]
    ELSE IF request.pc = "close" /\ request.payee # NoUser THEN 0 - Price[request.esc]
    ELSE IF request.pc = "burnLate" THEN Price[request.row] ELSE 0

TokensInv == Excess(db) = 0 /\ \A t \in Tx : Drift(t) = Owes(job[t])

LEMMA ExcessTyped ==
  ASSUME NEW version, MoneyIn(version)
  PROVE  /\ Outstanding(version[ReserveRow]) \in Int
         /\ Unspent(version) \in Int /\ Locked(version) \in Int
         /\ Excess(version) \in Int
<1>1. [c \in Coin |-> IF version[CoinRow(c)] = NoUser THEN Worth[c] ELSE 0] \in [Coin -> Int]
  BY ValueAssumption
<1>2. [e \in Escrow |-> IF version[EscrowRow(e)].status = "locked" THEN Price[e] ELSE 0] \in [Escrow -> Int]
  BY ValueAssumption
<1>3. Unspent(version) \in Int
  BY <1>1, SumInt, FiniteAssumption DEF Unspent
<1>4. Locked(version) \in Int
  BY <1>2, SumInt, FiniteAssumption DEF Locked
<1>5. PICK bank \in ReserveValue : bank = version[ReserveRow]
  BY DEF MoneyIn
<1>6. bank.total_issued \in Int /\ bank.total_redeemed \in Int
  BY DEF ReserveValue
<1>7. Outstanding(version[ReserveRow]) \in Int
  BY <1>5, <1>6 DEF Outstanding
<1> QED
  BY <1>3, <1>4, <1>7 DEF Excess

\* A write of one token's row.
LEMMA ExcessOfCoin ==
  ASSUME NEW v, NEW w, MoneyIn(v), MoneyIn(w), NEW c \in Coin,
         \A r \in Row \ {CoinRow(c)} : w[r] = v[r]
  PROVE  Excess(w) = Excess(v) + Lying(v[CoinRow(c)], c) - Lying(w[CoinRow(c)], c)
<1> DEFINE f == [x \in Coin |-> IF v[CoinRow(x)] = NoUser THEN Worth[x] ELSE 0]
           g == [x \in Coin |-> IF w[CoinRow(x)] = NoUser THEN Worth[x] ELSE 0]
<1>1. f \in [Coin -> Int] /\ g \in [Coin -> Int]
  BY ValueAssumption
<1>2. \A x \in Coin : x # c => g[x] = f[x]
  BY Rows
<1>3. f[c] = Lying(v[CoinRow(c)], c) /\ g[c] = Lying(w[CoinRow(c)], c)
  BY DEF Lying
<1>4. Unspent(v) = SumFunction(f) /\ Unspent(w) = SumFunction(g)
  BY DEF Unspent
<1> HIDE DEF f, g
<1>5. SumFunction(g) = SumFunction(f) - f[c] + g[c]
  BY <1>1, <1>2, SumChange, FiniteAssumption
<1>6. w[ReserveRow] = v[ReserveRow] /\ Locked(w) = Locked(v)
  BY Rows DEF Row, Locked
<1>7. PICK a \in Int, b \in Int : a = f[c] /\ b = g[c]
  BY <1>1
<1>8. PICK p \in Int, x \in Int, y \in Int :
         p = Outstanding(v[ReserveRow]) /\ x = Unspent(v) /\ y = Locked(v)
  BY ExcessTyped
<1>9. Excess(v) = p - x - y /\ Excess(w) = p - (x - a + b) - y
  BY <1>4, <1>5, <1>6, <1>7, <1>8 DEF Excess
<1> QED
  BY <1>3, <1>7, <1>8, <1>9

\* A write of one escrow's row.
LEMMA ExcessOfEscrow ==
  ASSUME NEW v, NEW w, MoneyIn(v), MoneyIn(w), NEW e \in Escrow,
         \A r \in Row \ {EscrowRow(e)} : w[r] = v[r]
  PROVE  Excess(w) = Excess(v) + Held(v[EscrowRow(e)], e) - Held(w[EscrowRow(e)], e)
<1> DEFINE f == [x \in Escrow |-> IF v[EscrowRow(x)].status = "locked" THEN Price[x] ELSE 0]
           g == [x \in Escrow |-> IF w[EscrowRow(x)].status = "locked" THEN Price[x] ELSE 0]
<1>1. f \in [Escrow -> Int] /\ g \in [Escrow -> Int]
  BY ValueAssumption
<1>2. \A x \in Escrow : x # e => g[x] = f[x]
  BY Rows
<1>3. f[e] = Held(v[EscrowRow(e)], e) /\ g[e] = Held(w[EscrowRow(e)], e)
  BY DEF Held
<1>4. Locked(v) = SumFunction(f) /\ Locked(w) = SumFunction(g)
  BY DEF Locked
<1> HIDE DEF f, g
<1>5. SumFunction(g) = SumFunction(f) - f[e] + g[e]
  BY <1>1, <1>2, SumChange, FiniteAssumption
<1>6. w[ReserveRow] = v[ReserveRow] /\ Unspent(w) = Unspent(v)
  BY Rows DEF Row, Unspent
<1>7. PICK a \in Int, b \in Int : a = f[e] /\ b = g[e]
  BY <1>1
<1>8. PICK p \in Int, x \in Int, y \in Int :
         p = Outstanding(v[ReserveRow]) /\ x = Unspent(v) /\ y = Locked(v)
  BY ExcessTyped
<1>9. Excess(v) = p - x - y /\ Excess(w) = p - x - (y - a + b)
  BY <1>4, <1>5, <1>6, <1>7, <1>8 DEF Excess
<1> QED
  BY <1>3, <1>7, <1>8, <1>9

\* A write of a users row, or of bank_reserve.
LEMMA ExcessOfMoney ==
  ASSUME NEW v, NEW w, MoneyIn(v), MoneyIn(w),
         \A c \in Coin : w[CoinRow(c)] = v[CoinRow(c)],
         \A e \in Escrow : w[EscrowRow(e)] = v[EscrowRow(e)]
  PROVE  Excess(w) = Excess(v) - Outstanding(v[ReserveRow]) + Outstanding(w[ReserveRow])
<1>1. Unspent(w) = Unspent(v) /\ Locked(w) = Locked(v)
  BY DEF Unspent, Locked
<1>2. PICK p \in Int, q \in Int, x \in Int, y \in Int :
         /\ p = Outstanding(v[ReserveRow]) /\ q = Outstanding(w[ReserveRow])
         /\ x = Unspent(v) /\ y = Locked(v)
  BY ExcessTyped
<1>3. Excess(v) = p - x - y /\ Excess(w) = q - x - y
  BY <1>1, <1>2 DEF Excess
<1> QED
  BY <1>2, <1>3

\* Where a row is the same in v as in w and in x as in y, or else in v as in x and in w as in y.
LEMMA ExcessLinear ==
  ASSUME NEW v, NEW w, NEW x, NEW y, MoneyIn(v), MoneyIn(w), MoneyIn(x), MoneyIn(y),
         \A r \in Row : (v[r] = w[r] /\ x[r] = y[r]) \/ (v[r] = x[r] /\ w[r] = y[r])
  PROVE  Excess(v) - Excess(w) = Excess(x) - Excess(y)
<1>1. Unspent(v) - Unspent(w) = Unspent(x) - Unspent(y)
  <2> DEFINE f(a) == [c \in Coin |-> IF a[CoinRow(c)] = NoUser THEN Worth[c] ELSE 0]
  <2>1. /\ f(v) \in [Coin -> Int] /\ f(w) \in [Coin -> Int]
        /\ f(x) \in [Coin -> Int] /\ f(y) \in [Coin -> Int]
    BY ValueAssumption
  <2>2. \A c \in Coin : f(v)[c] - f(w)[c] = f(x)[c] - f(y)[c]
    <3> TAKE c \in Coin
    <3>1. CoinRow(c) \in Row
      BY Rows
    <3>2. (f(v)[c] = f(w)[c] /\ f(x)[c] = f(y)[c]) \/ (f(v)[c] = f(x)[c] /\ f(w)[c] = f(y)[c])
      BY <3>1
    <3>3. f(v)[c] \in Int /\ f(w)[c] \in Int /\ f(x)[c] \in Int /\ f(y)[c] \in Int
      BY <2>1
    <3> HIDE DEF f
    <3> QED
      BY <3>2, <3>3
  <2> HIDE DEF f
  <2>3. SumFunction(f(v)) - SumFunction(f(w)) = SumFunction(f(x)) - SumFunction(f(y))
    BY <2>1, <2>2, SumLinear, FiniteAssumption
  <2> QED
    BY <2>3 DEF Unspent, f
<1>2. Locked(v) - Locked(w) = Locked(x) - Locked(y)
  <2> DEFINE f(a) == [e \in Escrow |-> IF a[EscrowRow(e)].status = "locked" THEN Price[e] ELSE 0]
  <2>1. /\ f(v) \in [Escrow -> Int] /\ f(w) \in [Escrow -> Int]
        /\ f(x) \in [Escrow -> Int] /\ f(y) \in [Escrow -> Int]
    BY ValueAssumption
  <2>2. \A e \in Escrow : f(v)[e] - f(w)[e] = f(x)[e] - f(y)[e]
    <3> TAKE e \in Escrow
    <3>1. EscrowRow(e) \in Row
      BY Rows
    <3>2. (f(v)[e] = f(w)[e] /\ f(x)[e] = f(y)[e]) \/ (f(v)[e] = f(x)[e] /\ f(w)[e] = f(y)[e])
      BY <3>1
    <3>3. f(v)[e] \in Int /\ f(w)[e] \in Int /\ f(x)[e] \in Int /\ f(y)[e] \in Int
      BY <2>1
    <3> HIDE DEF f
    <3> QED
      BY <3>2, <3>3
  <2> HIDE DEF f
  <2>3. SumFunction(f(v)) - SumFunction(f(w)) = SumFunction(f(x)) - SumFunction(f(y))
    BY <2>1, <2>2, SumLinear, FiniteAssumption
  <2> QED
    BY <2>3 DEF Locked, f
<1>3. \/ /\ Outstanding(v[ReserveRow]) = Outstanding(w[ReserveRow])
         /\ Outstanding(x[ReserveRow]) = Outstanding(y[ReserveRow])
      \/ /\ Outstanding(v[ReserveRow]) = Outstanding(x[ReserveRow])
         /\ Outstanding(w[ReserveRow]) = Outstanding(y[ReserveRow])
  BY DEF Row
<1>4. /\ Outstanding(v[ReserveRow]) \in Int /\ Unspent(v) \in Int /\ Locked(v) \in Int
      /\ Outstanding(w[ReserveRow]) \in Int /\ Unspent(w) \in Int /\ Locked(w) \in Int
      /\ Outstanding(x[ReserveRow]) \in Int /\ Unspent(x) \in Int /\ Locked(x) \in Int
      /\ Outstanding(y[ReserveRow]) \in Int /\ Unspent(y) \in Int /\ Locked(y) \in Int
  BY ExcessTyped
<1>5. Outstanding(v[ReserveRow]) - Outstanding(w[ReserveRow])
         = Outstanding(x[ReserveRow]) - Outstanding(y[ReserveRow])
  BY <1>3, <1>4
<1>6. PICK a \in Int : /\ Outstanding(v[ReserveRow]) = Outstanding(w[ReserveRow]) + a
                       /\ Outstanding(x[ReserveRow]) = Outstanding(y[ReserveRow]) + a
  BY <1>4, <1>5
<1>7. PICK b \in Int : Unspent(v) = Unspent(w) + b /\ Unspent(x) = Unspent(y) + b
  BY <1>1, <1>4
<1>8. PICK c \in Int : Locked(v) = Locked(w) + c /\ Locked(x) = Locked(y) + c
  BY <1>2, <1>4
<1>9. Excess(v) = Excess(w) + (a - b - c)
  BY <1>4, <1>6, <1>7, <1>8 DEF Excess
<1>10. Excess(x) = Excess(y) + (a - b - c)
  BY <1>4, <1>6, <1>7, <1>8 DEF Excess
<1> QED
  BY <1>9, <1>10, ExcessTyped

-----------------------------------------------------------------------------
(* What a step does to the tokens                                          *)

LEMMA OwesTyped ==
  ASSUME NEW request \in AimedJob, Pays(request)
  PROVE  Owes(request) \in Int
<1>1. request \in Job /\ Aims(request)
  BY DEF AimedJob
<1>2. request.pc = "mark" \/ request.op \in Payment => Worth[request.coin] \in Int
  BY <1>1, ValueAssumption DEF Aims
<1>3. request.pc = "close" => Price[request.esc] \in Int
  BY <1>1, ValueAssumption DEF Aims, Audited
<1>4. request.pc = "burnLate" => Price[request.row] \in Int
  BY ValueAssumption DEF Pays
<1> QED
  BY <1>2, <1>3, <1>4 DEF Owes

\* A statement of t changes the excess t sees by as much as what it owes changes.
LEMMA TokensStep ==
  ASSUME IInv, IInv', BooksInv, BooksInv', TokensInv, NEW t \in Tx, NEW next,
         job' = [job EXCEPT ![t] = next], db' = db, \A u \in Tx \ {t} : View(u)' = View(u),
         NEW after, after = View(t)',
         Excess(after) = Excess(View(t)) + (Owes(next) - Owes(job[t]))
  PROVE  TokensInv'
<1>1. /\ job'[t] = next /\ \A u \in Tx \ {t} : job'[u] = job[u]
      /\ job[t] \in AimedJob /\ next \in AimedJob /\ Pays(job[t]) /\ Pays(next)
  BY DEF IInv, RequestsInv, BooksInv, Pays
<1>2. Excess(db)' = 0
  BY DEF TokensInv, Excess, Unspent, Locked
<1>3. ASSUME NEW u \in Tx \ {t} PROVE Drift(u)' = Owes(job[u])'
  <2>1. Drift(u)' = Drift(u)
    BY DEF Drift, Excess, Unspent, Locked
  <2> QED
    BY <1>1, <2>1 DEF TokensInv, Owes
<1>4. Drift(t)' = Excess(after) - Excess(db)
  BY DEF Drift, Excess, Unspent, Locked
<1>5. Drift(t)' = Owes(next)
  <2>1. PICK g \in Int : g = Excess(View(t))
    BY Views, ExcessTyped DEF BooksInv
  <2>2. Excess(db) = 0 /\ g = Owes(job[t])
    BY <2>1 DEF TokensInv, Drift
  <2>3. PICK d \in Int, x \in Int : d = Owes(next) /\ x = Owes(job[t])
    BY <1>1, OwesTyped
  <2>4. Excess(after) = g + (d - x)
    BY <2>1, <2>3
  <2> QED
    BY <1>4, <2>2, <2>3, <2>4
<1>6. Drift(t)' = Owes(job[t])'
  BY <1>1, <1>5 DEF Owes
<1> QED
  BY <1>2, <1>3, <1>6 DEF TokensInv

\* A SELECT, or anything else that leaves the tables alone.
LEMMA TokensRead ==
  ASSUME IInv, IInv', BooksInv, BooksInv', TokensInv, NEW t \in Tx, NEW next,
         job' = [job EXCEPT ![t] = next], UNCHANGED storage, Owes(next) = Owes(job[t])
  PROVE  TokensInv'
<1>1. db' = db /\ \A u \in Tx : View(u)' = View(u)
  BY DEF storage, View, Read
<1>2. PICK after : after = View(t)'
  OBVIOUS
<1>3. job[t] \in AimedJob /\ Pays(job[t])
  BY DEF IInv, RequestsInv, BooksInv
<1>4. PICK g \in Int : g = Excess(View(t))
  BY Views, ExcessTyped DEF BooksInv
<1>5. PICK d \in Int : d = Owes(job[t])
  BY <1>3, OwesTyped
<1>6. g = g + (d - d)
  BY <1>4, <1>5
<1>7. Excess(after) = Excess(View(t)) + (Owes(next) - Owes(job[t]))
  BY <1>1, <1>2, <1>4, <1>5, <1>6
<1> QED
  BY <1>1, <1>2, <1>7, TokensStep

\* What t sees before and after it writes a row.
LEMMA TokensSeen ==
  ASSUME IInv, BooksInv, BooksInv', NEW t \in Tx, NEW row \in Row, NEW v, NEW next,
         Update(t, row, v, next), NEW after, after = View(t)'
  PROVE  /\ db' = db /\ job' = [job EXCEPT ![t] = next] /\ \A u \in Tx \ {t} : View(u)' = View(u)
         /\ View(t)[row] = cur[row] /\ after[row] = v
         /\ \A r \in Row \ {row} : after[r] = View(t)[r]
         /\ MoneyIn(View(t)) /\ MoneyIn(after)
         /\ Excess(View(t)) \in Int
<1>1. Write(t, row, v) /\ job' = [job EXCEPT ![t] = next]
  BY DEF Update
<1>2. /\ db' = db /\ View(t)[row] = cur[row] /\ after[row] = v
      /\ \A r \in Row \ {row} : after[r] = View(t)[r]
      /\ \A u \in Tx \ {t} : View(u)' = View(u)
  BY <1>1, WriteViews
<1>3. MoneyIn(View(t)) /\ Excess(View(t)) \in Int
  BY Views, ExcessTyped DEF BooksInv
<1>4. MoneyIn(after)
  <2>1. \A r \in Row : after[r] = IF lock'[r] = t THEN cur'[r] ELSE db'[r]
    BY DEF View, Read
  <2>2. \A u \in User : cur'[UserRow(u)] \in UserValue /\ db'[UserRow(u)] \in UserValue
    BY DEF BooksInv, MoneyIn
  <2>3. cur'[ReserveRow] \in ReserveValue /\ db'[ReserveRow] \in ReserveValue
    BY DEF BooksInv, MoneyIn
  <2> QED
    BY <2>1, <2>2, <2>3, UserRows DEF MoneyIn, Row
<1> QED
  BY <1>1, <1>2, <1>3, <1>4

\* An UPDATE of users or of bank_reserve.
LEMMA TokensOfMoney ==
  ASSUME IInv, IInv', BooksInv, BooksInv', TokensInv, NEW t \in Tx, NEW row \in Row, NEW v, NEW next,
         Update(t, row, v, next),
         \/ (\E u \in User : row = UserRow(u)) /\ Owes(next) = Owes(job[t])
         \/ /\ row = ReserveRow
            /\ Outstanding(v) = Outstanding(cur[ReserveRow]) + (Owes(next) - Owes(job[t]))
  PROVE  TokensInv'
<1>1. PICK after : after = View(t)'
  OBVIOUS
<1>2. /\ db' = db /\ job' = [job EXCEPT ![t] = next] /\ \A u \in Tx \ {t} : View(u)' = View(u)
      /\ View(t)[row] = cur[row] /\ after[row] = v
      /\ \A r \in Row \ {row} : after[r] = View(t)[r]
      /\ MoneyIn(View(t)) /\ MoneyIn(after) /\ Excess(View(t)) \in Int
  BY <1>1, TokensSeen
<1>3. /\ \A c \in Coin : after[CoinRow(c)] = View(t)[CoinRow(c)]
      /\ \A e \in Escrow : after[EscrowRow(e)] = View(t)[EscrowRow(e)]
  BY <1>2, Rows, Accounts
<1>4. PICK g \in Int, p \in Int, q \in Int :
         /\ g = Excess(View(t)) /\ p = Outstanding(View(t)[ReserveRow])
         /\ q = Outstanding(after[ReserveRow])
  BY <1>2, ExcessTyped
<1>5. Excess(after) = g - p + q
  BY <1>2, <1>3, <1>4, ExcessOfMoney
<1>6. job[t] \in AimedJob /\ next \in AimedJob /\ Pays(job[t]) /\ Pays(next)
  BY <1>2 DEF IInv, RequestsInv, BooksInv, Pays
<1>7. PICK x \in Int, y \in Int : x = Owes(job[t]) /\ y = Owes(next)
  BY <1>6, OwesTyped
<1>8. q = p + (y - x)
  <2>1. CASE (\E u \in User : row = UserRow(u)) /\ Owes(next) = Owes(job[t])
    <3>1. after[ReserveRow] = View(t)[ReserveRow]
      BY <1>2, <2>1, UserRows DEF Row
    <3> QED
      BY <1>4, <1>7, <2>1, <3>1
  <2>2. CASE row = ReserveRow /\ Outstanding(v) = Outstanding(cur[ReserveRow]) + (Owes(next) - Owes(job[t]))
    BY <1>2, <1>4, <1>7, <2>2
  <2> QED
    BY <2>1, <2>2
<1>9. Excess(after) = g + (y - x)
  BY <1>5, <1>8
<1> QED
  BY <1>1, <1>2, <1>4, <1>7, <1>9, TokensStep

\* A write of a token, or of an escrow.
LEMMA TokensOfCoin ==
  ASSUME IInv, IInv', BooksInv, BooksInv', TokensInv, NEW t \in Tx, NEW c \in Coin, NEW v, NEW next,
         Update(t, CoinRow(c), v, next),
         Lying(cur[CoinRow(c)], c) - Lying(v, c) = Owes(next) - Owes(job[t])
  PROVE  TokensInv'
<1>1. PICK after : after = View(t)'
  OBVIOUS
<1>2. CoinRow(c) \in Row
  BY Rows
<1>3. /\ db' = db /\ job' = [job EXCEPT ![t] = next] /\ \A u \in Tx \ {t} : View(u)' = View(u)
      /\ View(t)[CoinRow(c)] = cur[CoinRow(c)] /\ after[CoinRow(c)] = v
      /\ \A r \in Row \ {CoinRow(c)} : after[r] = View(t)[r]
      /\ MoneyIn(View(t)) /\ MoneyIn(after) /\ Excess(View(t)) \in Int
  BY <1>1, <1>2, TokensSeen
<1>4. PICK g \in Int : g = Excess(View(t))
  BY <1>3
<1>5. PICK a \in Int, b \in Int : a = Lying(cur[CoinRow(c)], c) /\ b = Lying(v, c)
  BY ValueAssumption DEF Lying
<1>6. Excess(after) = g + a - b
  BY <1>3, <1>4, <1>5, ExcessOfCoin
<1>7. Excess(after) = g + (a - b)
  BY <1>6
<1> QED
  BY <1>1, <1>3, <1>4, <1>5, <1>7, TokensStep

LEMMA TokensOfEscrow ==
  ASSUME IInv, IInv', BooksInv, BooksInv', TokensInv, NEW t \in Tx, NEW e \in Escrow, NEW v, NEW next,
         Update(t, EscrowRow(e), v, next),
         Held(cur[EscrowRow(e)], e) - Held(v, e) = Owes(next) - Owes(job[t])
  PROVE  TokensInv'
<1>1. PICK after : after = View(t)'
  OBVIOUS
<1>2. EscrowRow(e) \in Row
  BY Rows
<1>3. /\ db' = db /\ job' = [job EXCEPT ![t] = next] /\ \A u \in Tx \ {t} : View(u)' = View(u)
      /\ View(t)[EscrowRow(e)] = cur[EscrowRow(e)] /\ after[EscrowRow(e)] = v
      /\ \A r \in Row \ {EscrowRow(e)} : after[r] = View(t)[r]
      /\ MoneyIn(View(t)) /\ MoneyIn(after) /\ Excess(View(t)) \in Int
  BY <1>1, <1>2, TokensSeen
<1>4. PICK g \in Int : g = Excess(View(t))
  BY <1>3
<1>5. PICK a \in Int, b \in Int : a = Held(cur[EscrowRow(e)], e) /\ b = Held(v, e)
  BY ValueAssumption DEF Held
<1>6. Excess(after) = g + a - b
  BY <1>3, <1>4, <1>5, ExcessOfEscrow
<1>7. Excess(after) = g + (a - b)
  BY <1>6
<1> QED
  BY <1>1, <1>3, <1>4, <1>5, <1>7, TokensStep

\* Labels at which no token is owed.
Clear == Label \ {"mark", "credit", "book", "close", "burnLate"}

LEMMA ClearOwes ==
  ASSUME NEW request, request.pc \in Clear
  PROVE  Owes(request) = 0
  BY DEF Owes, Clear

LEMMA CleanupTokens ==
  ASSUME IInv, IInv', BooksInv, BooksInv', AloneInv, TokensInv, NEW t \in Tx,
         CleanCreated(t) \/ CleanSelect(t) \/ RefundLate(t) \/ ExpireLate(t) \/ BurnLate(t)
  PROVE  TokensInv'
<1>1. /\ job[t] \in Job /\ Aims(job[t]) /\ Pays(job[t])
      /\ job[t].op \in OfEscrow /\ job[t].op \notin Payment /\ Sees(t, job[t])
  BY DEF IInv, RequestsInv, BooksInv, AimedJob, Aims, CleanCreated, CleanSelect, RefundLate,
         ExpireLate, BurnLate, At, Audited, Settlement, Payment, OfEscrow, AloneInv
<1>2. Owes(AfterCleanup(job[t])) = 0
  <2>1. AfterCleanup(job[t]).pc \in {"commit", "select"}
    BY <1>1 DEF AfterCleanup, Job
  <2> QED
    BY <2>1 DEF Owes
<1>3. CASE CleanCreated(t)
  <2>1. PICK e \in Lapsed(t, "created") :
           Update(t, EscrowRow(e), [cur[EscrowRow(e)] EXCEPT !.status = "expired"], job[t])
    BY <1>3 DEF CleanCreated
  <2>2. PICK v : v = [cur[EscrowRow(e)] EXCEPT !.status = "expired"]
    OBVIOUS
  <2>3. e \in Escrow /\ cur[EscrowRow(e)].status = "created" /\ cur[EscrowRow(e)] \in EscrowValue
    BY <1>1, <2>1, SeesCommitted DEF Lapsed, Job, IInv, TablesInv, StorageTyped
  <2>4. Held(cur[EscrowRow(e)], e) = 0 /\ Held(v, e) = 0
    BY <2>2, <2>3 DEF Held, EscrowValue
  <2>5. PICK x \in Int : x = Owes(job[t])
    BY <1>1, OwesTyped DEF AimedJob
  <2>6. 0 - 0 = x - x
    BY <2>5
  <2>7. Held(cur[EscrowRow(e)], e) - Held(v, e) = Owes(job[t]) - Owes(job[t])
    BY <2>4, <2>5, <2>6
  <2> QED
    BY <2>1, <2>2, <2>3, <2>7, TokensOfEscrow
<1>4. CASE CleanSelect(t)
  <2>1. PICK rows : Select(t, IF rows = {} THEN AfterCleanup(job[t])
                                   ELSE [job[t] EXCEPT !.pc = "refundLate", !.overdue = rows])
    BY <1>4 DEF CleanSelect
  <2>2. PICK next : next = IF rows = {} THEN AfterCleanup(job[t])
                                   ELSE [job[t] EXCEPT !.pc = "refundLate", !.overdue = rows]
    OBVIOUS
  <2>3. Owes(next) = 0
    <3>1. CASE rows = {}
      BY <1>2, <2>2, <3>1
    <3>2. CASE rows # {}
      <4>1. next.pc = "refundLate"
        BY <1>1, <2>2, <3>2 DEF Job
      <4> QED
        BY <4>1 DEF Owes
    <3> QED
      BY <3>1, <3>2
  <2>4. Owes(job[t]) = 0
    BY <1>4 DEF CleanSelect, At, Owes
  <2> QED
    BY <2>1, <2>2, <2>3, <2>4, TokensRead DEF Select
<1>5. CASE RefundLate(t)
  <2>1. PICK x \in job[t].overdue :
           Update(t, UserRow(x[2]), Grow(cur[UserRow(x[2])], Price[x[1]]),
                  [job[t] EXCEPT !.pc = "expireLate", !.row = x[1], !.overdue = @ \ {x}])
    BY <1>5 DEF RefundLate
  <2>2. PICK next : next = [job[t] EXCEPT !.pc = "expireLate", !.row = x[1], !.overdue = @ \ {x}]
    OBVIOUS
  <2>3. x[2] \in User /\ UserRow(x[2]) \in Row
    BY <1>1, UserRows DEF Job
  <2>4. next.pc = "expireLate"
    BY <1>1, <2>2 DEF Job
  <2>5. Owes(next) = 0 /\ Owes(job[t]) = 0
    BY <1>5, <2>4 DEF RefundLate, At, Owes
  <2>6. PICK v : Update(t, UserRow(x[2]), v, next)
    BY <2>1, <2>2
  <2> QED
    BY <2>3, <2>5, <2>6, TokensOfMoney
<1>6. CASE ExpireLate(t)
  <2>1. PICK e \in Escrow : e = job[t].row
    BY <1>1, <1>6 DEF ExpireLate, At, Pays
  <2>2. PICK next : next = [job[t] EXCEPT !.pc = "burnLate"]
    OBVIOUS
  <2>3. PICK v : v = [cur[EscrowRow(e)] EXCEPT !.status = "expired"]
    OBVIOUS
  <2>4. job[t].pc = "expireLate" /\ Update(t, EscrowRow(e), v, next)
    BY <1>6, <2>1, <2>2, <2>3 DEF ExpireLate, At
  <2>5. next.pc = "burnLate" /\ next.op = job[t].op /\ next.row = e
    BY <1>1, <2>1, <2>2, Relabelled
  <2>6. cur[EscrowRow(e)].status = "locked" /\ cur[EscrowRow(e)] \in EscrowValue
    BY <1>1, <2>1, <2>4 DEF Sees, Now, IInv, TablesInv, StorageTyped
  <2>7. v.status = "expired"
    BY <2>3, <2>6 DEF EscrowValue
  <2>8. PICK p \in Int : p = Price[e]
    BY ValueAssumption
  <2>9. Held(cur[EscrowRow(e)], e) = p /\ Held(v, e) = 0
    BY <2>6, <2>7, <2>8 DEF Held
  <2>10. Owes(next) = p /\ Owes(job[t]) = 0
    BY <1>1, <2>4, <2>5, <2>8 DEF Owes
  <2>11. Held(cur[EscrowRow(e)], e) - Held(v, e) = Owes(next) - Owes(job[t])
    BY <2>9, <2>10
  <2> QED
    BY <2>4, <2>11, TokensOfEscrow
<1>7. CASE BurnLate(t)
  <2>1. PICK e \in Escrow : e = job[t].row
    BY <1>1, <1>7 DEF Pays, BurnLate, At
  <2>2. PICK next : next = IF job[t].overdue = {} THEN AfterCleanup(job[t])
                           ELSE [job[t] EXCEPT !.pc = "refundLate"]
    OBVIOUS
  <2>3. Owes(next) = 0
    <3>1. CASE job[t].overdue = {}
      BY <1>2, <2>2, <3>1
    <3>2. CASE job[t].overdue # {}
      <4>1. next.pc = "refundLate"
        BY <1>1, <2>2, <3>2, Relabelled
      <4> QED
        BY <4>1 DEF Owes
    <3> QED
      BY <3>1, <3>2
  <2>4. PICK p \in Int : p = Price[e]
    BY ValueAssumption
  <2>5. Owes(job[t]) = p
    BY <1>1, <1>7, <2>1, <2>4 DEF BurnLate, At, Owes
  <2>6. PICK bank \in ReserveValue : bank = cur[ReserveRow]
    BY DEF BooksInv, MoneyIn
  <2>7. PICK v : v = Burn(bank, p)
    OBVIOUS
  <2>8. Outstanding(v) = Outstanding(bank) + (Owes(next) - Owes(job[t]))
    <3>1. v.total_issued = bank.total_issued - p /\ v.total_redeemed = bank.total_redeemed
      BY <2>7 DEF Burn, ReserveValue
    <3>2. bank.total_issued \in Int /\ bank.total_redeemed \in Int
      BY DEF ReserveValue
    <3> QED
      BY <2>3, <2>5, <3>1, <3>2 DEF Outstanding
  <2>9. Update(t, ReserveRow, v, next)
    BY <1>7, <2>1, <2>2, <2>4, <2>6, <2>7 DEF BurnLate
  <2>10. ReserveRow \in Row
    BY DEF Row
  <2> QED
    BY <2>6, <2>8, <2>9, <2>10, TokensOfMoney
<1> QED
  BY <1>3, <1>4, <1>5, <1>6, <1>7

LEMMA LockTokens ==
  ASSUME IInv, IInv', BooksInv, BooksInv', AloneInv, TokensInv, NEW t \in Tx, ~Throw(t),
         CreateInsert(t) \/ LockSelect(t) \/ SelectCoin(t) \/ Spend(t) \/ MarkLocked(t)
  PROVE  TokensInv'
<1>1. job[t] \in Job /\ Aims(job[t])
  BY DEF IInv, RequestsInv, AimedJob
<1>2. CASE CreateInsert(t)
  <2>1. PICK next : next = [job[t] EXCEPT !.pc = "assert"]
    OBVIOUS
  <2>2. PICK v : v = [Absent EXCEPT !.status = "created"]
    OBVIOUS
  <2>3. /\ job[t].pc = "insert" /\ Update(t, EscrowRow(job[t].esc), v, next)
        /\ job[t].op = "create" /\ job[t].op \in OfEscrow
    BY <1>1, <1>2, <2>1, <2>2 DEF CreateInsert, At, Aims, OfEscrow
  <2>4. PICK e \in Escrow : e = job[t].esc
    BY <1>1, <2>3 DEF Aims
  <2>5. next.pc = "assert"
    BY <1>1, <2>1, Relabelled
  <2>6. cur[EscrowRow(e)] = Absent
    <3>1. db[EscrowRow(e)].status = "none" /\ lock[EscrowRow(e)] = NoTx
      BY <2>3, <2>4 DEF IInv, RequestsInv, RequestInv, Vacant, Known
    <3> QED
      BY <2>3, <3>1, SeesCommitted, NoneAssumption DEF AloneInv, Blank
  <2>7. Held(cur[EscrowRow(e)], e) = 0 /\ Held(v, e) = 0 /\ Owes(next) = 0 /\ Owes(job[t]) = 0
    BY <2>2, <2>3, <2>5, <2>6 DEF Held, Absent, Owes
  <2>8. Held(cur[EscrowRow(e)], e) - Held(v, e) = Owes(next) - Owes(job[t])
    BY <2>7
  <2> QED
    BY <2>3, <2>4, <2>8, TokensOfEscrow
<1>3. CASE LockSelect(t) \/ SelectCoin(t)
  <2>1. PICK label \in {"coin", "spend"} :
           job[t].pc \in {"select", "coin"} /\ Select(t, [job[t] EXCEPT !.pc = label])
    BY <1>3 DEF LockSelect, SelectCoin, At
  <2>2. PICK next : next = [job[t] EXCEPT !.pc = label]
    OBVIOUS
  <2>3. next.pc = label
    BY <1>1, <2>2, Relabelled
  <2>4. Owes(next) = 0 /\ Owes(job[t]) = 0
    BY <2>1, <2>3 DEF Owes
  <2> QED
    BY <2>1, <2>2, <2>4, TokensRead DEF Select
<1>4. CASE Spend(t)
  <2>1. PICK label : label = IF job[t].op = "lock" THEN "mark" ELSE "credit"
    OBVIOUS
  <2>2. PICK next : next = [job[t] EXCEPT !.pc = label]
    OBVIOUS
  <2>3. PICK v : v = DepositedTo(job[t])
    OBVIOUS
  <2>4. /\ job[t].pc = "spend" /\ Update(t, CoinRow(job[t].coin), v, next)
        /\ cur[CoinRow(job[t].coin)] = NoUser
    BY <1>4, <2>1, <2>2, <2>3 DEF Spend, At
  <2>5. PICK c \in Coin : c = job[t].coin
    BY <1>1, <2>4 DEF Aims
  <2>6. job[t].op \in Payment \cup {"lock"} /\ job[t].user \in User
    BY <1>1, <2>4 DEF Aims
  <2>7. next.pc = label /\ next.op = job[t].op /\ next.coin = c
    BY <1>1, <2>2, <2>5, Relabelled
  <2>8. v \in User
    BY <1>1, <2>3, <2>6, MerchantAssumption DEF DepositedTo, Aims, Audited
  <2>9. PICK w \in Int : w = Worth[c]
    BY ValueAssumption
  <2>10. Lying(cur[CoinRow(c)], c) = w /\ Lying(v, c) = 0
    BY <2>4, <2>5, <2>8, <2>9, NullAssumption DEF Lying
  <2>11. Owes(job[t]) = 0 /\ Owes(next) = w
    BY <2>1, <2>4, <2>6, <2>7, <2>9 DEF Owes
  <2>12. Lying(cur[CoinRow(c)], c) - Lying(v, c) = Owes(next) - Owes(job[t])
    BY <2>10, <2>11
  <2> QED
    BY <2>4, <2>5, <2>12, TokensOfCoin
<1>5. CASE MarkLocked(t)
  <2>1. PICK next : next = [job[t] EXCEPT !.pc = "assert"]
    OBVIOUS
  <2>2. PICK v : v = [status |-> "locked", customer |-> job[t].user, serial |-> job[t].coin]
    OBVIOUS
  <2>3. job[t].pc = "mark" /\ Update(t, EscrowRow(job[t].esc), v, next) /\ job[t].op = "lock"
    BY <1>1, <1>5, <2>1, <2>2 DEF MarkLocked, At, Aims
  <2>4. PICK e \in Escrow : e = job[t].esc
    BY <1>1, <2>3 DEF Aims, Audited
  <2>5. next.pc = "assert"
    BY <1>1, <2>1, Relabelled
  <2>6. cur[EscrowRow(e)].status = "created"
    BY <2>3, <2>4 DEF AloneInv, Sees, OfEscrow, Audited, Now
  <2>7. PICK p \in Int : p = Price[e] /\ p = Worth[job[t].coin]
    BY <1>1, <2>3, <2>4, ValueAssumption DEF Aims, Holding
  <2>8. Held(cur[EscrowRow(e)], e) = 0 /\ Held(v, e) = p
    BY <2>2, <2>6, <2>7 DEF Held
  <2>9. Owes(job[t]) = p /\ Owes(next) = 0
    BY <2>3, <2>5, <2>7 DEF Owes
  <2>10. Held(cur[EscrowRow(e)], e) - Held(v, e) = Owes(next) - Owes(job[t])
    BY <2>8, <2>9
  <2> QED
    BY <2>3, <2>4, <2>10, TokensOfEscrow
<1> QED
  BY <1>2, <1>3, <1>4, <1>5

LEMMA SettleTokens ==
  ASSUME IInv, IInv', BooksInv, BooksInv', AloneInv, TokensInv, NEW t \in Tx, ~Throw(t),
         ConfirmSelect(t) \/ CancelSelect(t) \/ Credit(t) \/ Book(t) \/ Close(t)
  PROVE  TokensInv'
<1>1. /\ job[t] \in Job /\ Aims(job[t]) /\ Pays(job[t]) /\ job[t] \in AimedJob
      /\ job[t].op \in OfEscrow => Sees(t, job[t])
  BY DEF IInv, RequestsInv, BooksInv, AimedJob, AloneInv
<1>2. Settlement \subseteq OfEscrow /\ Settlement \cap Payment = {} /\ Settlement \subseteq Audited
  BY DEF OfEscrow, Audited, Settlement, Payment
<1>3. ASSUME NEW p, job[t].pc = "select", job[t].op \in Settlement,
             Select(t, [job[t] EXCEPT !.pc = "credit", !.payee = p])
      PROVE  TokensInv'
  <2>1. PICK next : next = [job[t] EXCEPT !.pc = "credit", !.payee = p]
    OBVIOUS
  <2>2. next.pc = "credit" /\ next.op = job[t].op
    BY <1>1, <2>1 DEF Job
  <2>3. Owes(next) = 0 /\ Owes(job[t]) = 0
    BY <1>2, <1>3, <2>2 DEF Owes
  <2> QED
    BY <1>3, <2>1, <2>3, TokensRead DEF Select
<1>4. CASE ConfirmSelect(t)
  BY <1>3, <1>4 DEF ConfirmSelect, At, Settlement
<1>5. CASE CancelSelect(t)
  <2>1. job[t].op = "cancel" /\ job[t].pc = "select" /\ job[t].op \in Settlement
    BY <1>5 DEF CancelSelect, At, Settlement
  <2>2. CASE Select(t, [job[t] EXCEPT !.pc = "close"])
    <3>1. PICK next : next = [job[t] EXCEPT !.pc = "close"]
      OBVIOUS
    <3>2. next.pc = "close" /\ next.op = "cancel" /\ next.payee = job[t].payee
      BY <1>1, <2>1, <3>1, Relabelled
    <3>3. job[t].payee = NoUser
      BY <1>1, <1>2, <2>1 DEF Sees
    <3>4. Owes(next) = 0 /\ Owes(job[t]) = 0
      BY <2>1, <3>2, <3>3 DEF Owes
    <3> QED
      BY <2>2, <3>1, <3>4, TokensRead DEF Select
  <2> QED
    BY <1>3, <1>5, <2>1, <2>2 DEF CancelSelect
<1>6. CASE Credit(t)
  <2>1. PICK next : next = [job[t] EXCEPT !.pc = "book"]
    OBVIOUS
  <2>2. PICK row, v : row = UserRow(job[t].payee) /\ v = Credited(cur[row], job[t])
    OBVIOUS
  <2>3. job[t].pc = "credit" /\ Update(t, row, v, next)
    BY <1>6, <2>1, <2>2 DEF Credit, At
  <2>4. job[t].payee \in User /\ row \in Row
    BY <1>1, <2>2, <2>3, UserRows DEF Pays
  <2>5. next.pc = "book" /\ next.op = job[t].op /\ next.coin = job[t].coin
    BY <1>1, <2>1, Relabelled
  <2>6. Owes(next) = Owes(job[t])
    BY <2>3, <2>5 DEF Owes
  <2> QED
    BY <2>2, <2>3, <2>4, <2>6, TokensOfMoney
<1>7. CASE Book(t)
  <2>1. job[t].pc = "book"
    BY <1>7 DEF Book, At
  <2>2. PICK label : label = IF job[t].op \in Settlement THEN "close" ELSE "assert"
    OBVIOUS
  <2>3. PICK next : next = [job[t] EXCEPT !.pc = label]
    OBVIOUS
  <2>4. /\ next.pc = label /\ next.op = job[t].op /\ next.payee = job[t].payee
        /\ next.esc = job[t].esc
    BY <1>1, <2>3, Relabelled
  <2>5. PICK bank \in ReserveValue : bank = cur[ReserveRow]
    BY DEF BooksInv, MoneyIn
  <2>6. PICK v : v = Booked(bank, job[t])
    OBVIOUS
  <2>7. Update(t, ReserveRow, v, next) /\ ReserveRow \in Row
    BY <1>7, <2>2, <2>3, <2>5, <2>6 DEF Book, Row
  <2>8. PICK m \in Int : m = Moved(job[t])
    BY <1>1, <2>1, DueTyped
  <2>9. /\ bank.reserve_balance \in Int /\ bank.total_issued \in Int /\ bank.total_redeemed \in Int
    BY DEF ReserveValue
  <2>10. /\ job[t].op = "deposit" => Outstanding(v) = Outstanding(bank)
         /\ job[t].op # "deposit" => Outstanding(v) = Outstanding(bank) - m
    <3>1. CASE job[t].op = "cancel"
      <4>1. v = [bank EXCEPT !.total_issued = @ - m]
        BY <2>6, <2>8, <3>1 DEF Booked, Burn
      <4> QED
        BY <2>9, <3>1, <4>1 DEF ReserveValue, Outstanding
    <3>2. CASE job[t].op = "deposit"
      <4>1. v = [bank EXCEPT !.reserve_balance = @ + m]
        BY <2>6, <2>8, <3>2 DEF Booked
      <4> QED
        BY <2>9, <3>2, <4>1 DEF ReserveValue, Outstanding
    <3>3. CASE job[t].op \notin {"cancel", "deposit"}
      <4>1. v = [bank EXCEPT !.total_redeemed = @ + m]
        BY <2>6, <2>8, <3>3 DEF Booked
      <4> QED
        BY <2>9, <3>3, <4>1 DEF ReserveValue, Outstanding
    <3> QED
      BY <3>1, <3>2, <3>3
  <2>11. Outstanding(bank) \in Int
    BY <2>9 DEF Outstanding
  <2>12. Outstanding(v) = Outstanding(bank) + (Owes(next) - Owes(job[t]))
    <3>1. CASE job[t].op \in Settlement
      <4>1. /\ label = "close" /\ job[t].op # "deposit" /\ job[t].op \notin Payment
            /\ job[t].payee # NoUser /\ m = Price[job[t].esc]
        BY <1>1, <1>2, <2>1, <2>2, <2>8, <3>1 DEF Sees, Settlement, Payment, Moved
      <4>2. Owes(next) = 0 - m /\ Owes(job[t]) = 0
        BY <2>1, <2>4, <4>1 DEF Owes
      <4> QED
        BY <2>10, <2>11, <4>1, <4>2
    <3>2. CASE job[t].op \in Payment
      <4>1. label = "assert" /\ job[t].op # "deposit" /\ m = Worth[job[t].coin]
        BY <1>2, <2>2, <2>8, <3>2 DEF Moved, Payment, Settlement
      <4>2. Owes(next) = 0 /\ Owes(job[t]) = m
        BY <2>1, <2>4, <3>2, <4>1 DEF Owes
      <4> QED
        BY <2>10, <2>11, <4>1, <4>2
    <3>3. CASE job[t].op = "deposit"
      <4>1. label = "assert" /\ job[t].op \notin Payment
        BY <2>2, <3>3 DEF Payment, Settlement
      <4>2. Owes(next) = 0 /\ Owes(job[t]) = 0
        BY <2>1, <2>4, <4>1 DEF Owes
      <4> QED
        BY <2>10, <2>11, <3>3, <4>2
    <3> QED
      BY <1>1, <2>1, <3>1, <3>2, <3>3 DEF Pays
  <2> QED
    BY <2>5, <2>7, <2>12, TokensOfMoney
<1>8. CASE Close(t)
  <2>1. PICK next : next = [job[t] EXCEPT !.pc = "assert"]
    OBVIOUS
  <2>2. PICK status : status = IF job[t].op = "confirm" THEN "committed" ELSE "cancelled"
    OBVIOUS
  <2>3. PICK v : v = [cur[EscrowRow(job[t].esc)] EXCEPT !.status = status]
    OBVIOUS
  <2>4. /\ job[t].pc = "close" /\ Update(t, EscrowRow(job[t].esc), v, next)
        /\ job[t].op \in Settlement
    BY <1>1, <1>8, <2>1, <2>2, <2>3 DEF Close, At, Aims
  <2>5. PICK e \in Escrow : e = job[t].esc
    BY <1>1, <1>2, <2>4 DEF Aims
  <2>6. next.pc = "assert"
    BY <1>1, <2>1, Relabelled
  <2>7. cur[EscrowRow(e)] \in EscrowValue
    BY DEF IInv, TablesInv, StorageTyped
  <2>8. Held(v, e) = 0 /\ Owes(next) = 0
    BY <2>2, <2>3, <2>5, <2>6, <2>7 DEF Held, EscrowValue, Owes
  <2>9. PICK p \in Int : p = Price[e]
    BY ValueAssumption
  <2>10. Held(cur[EscrowRow(e)], e) = 0 - Owes(job[t])
    <3>1. \/ job[t].payee # NoUser /\ cur[EscrowRow(e)].status = "locked"
          \/ job[t].payee = NoUser /\ cur[EscrowRow(e)].status = "created"
      BY <1>1, <1>2, <2>4, <2>5 DEF Sees, Now
    <3>2. CASE job[t].payee # NoUser /\ cur[EscrowRow(e)].status = "locked"
      <4>1. Owes(job[t]) = 0 - p /\ Held(cur[EscrowRow(e)], e) = p
        BY <1>2, <2>4, <2>5, <2>9, <3>2 DEF Owes, Held
      <4> QED
        BY <4>1
    <3>3. CASE job[t].payee = NoUser /\ cur[EscrowRow(e)].status = "created"
      BY <2>4, <3>3 DEF Owes, Held
    <3> QED
      BY <3>1, <3>2, <3>3
  <2>11. PICK x \in Int : x = Owes(job[t])
    BY <1>1, OwesTyped
  <2>12. Held(cur[EscrowRow(e)], e) - Held(v, e) = Owes(next) - Owes(job[t])
    BY <2>8, <2>10, <2>11
  <2> QED
    BY <2>4, <2>5, <2>12, TokensOfEscrow
<1> QED
  BY <1>4, <1>5, <1>6, <1>7, <1>8

\* An idle request owes no token.
LEMMA IdleOwes == Owes(Idle) = 0
  BY DEF Idle, Owes, Payment

\* assertInvariant and logAction.
LEMMA EndTokens ==
  ASSUME IInv, IInv', BooksInv, BooksInv', TokensInv, NEW t \in Tx, ~Throw(t),
         AssertBooks(t) \/ AuditOutside(t)
  PROVE  TokensInv'
<1>1. job[t] \in Job /\ job[t].pc \in {"assert", "audit"}
  BY DEF IInv, RequestsInv, AimedJob, AssertBooks, AuditOutside, At
<1>2. PICK label : label \in {"audit", "commit"} /\ UNCHANGED storage
                   /\ job' = [job EXCEPT ![t] = [job[t] EXCEPT !.pc = label]]
  <2>1. CASE AssertBooks(t)
    <3>1. PICK label : label = IF LogsOutside(job[t]) THEN "audit" ELSE "commit"
      OBVIOUS
    <3> QED
      BY <2>1, <3>1 DEF AssertBooks, Select
  <2>2. CASE AuditOutside(t)
    <3>1. job' = [job EXCEPT ![t] = [job[t] EXCEPT !.pc = "commit"]] /\ UNCHANGED storage
      BY <2>2 DEF AuditOutside
    <3> QED
      BY <3>1
  <2> QED
    BY <2>1, <2>2
<1>3. PICK next : next = [job[t] EXCEPT !.pc = label]
  OBVIOUS
<1>4. next.pc = label
  BY <1>1, <1>3, Relabelled
<1>5. Owes(next) = 0 /\ Owes(job[t]) = 0
  BY <1>1, <1>2, <1>4 DEF Owes
<1> QED
  BY <1>2, <1>3, <1>5, TokensRead

\* ROLLBACK: what the request saw is what is committed.
LEMMA ThrowTokens ==
  ASSUME IInv, IInv', BooksInv, BooksInv', TokensInv, NEW t \in Tx, Throw(t)
  PROVE  TokensInv'
<1>1. /\ db' = db /\ job' = [job EXCEPT ![t] = Idle]
      /\ cur' = [r \in Row |-> IF lock[r] = t THEN db[r] ELSE cur[r]]
      /\ lock' = [r \in Row |-> IF lock[r] = t THEN NoTx ELSE lock[r]]
  BY RollbackFacts DEF Throw, IInv, TablesInv
<1>2. ASSUME NEW u \in Tx \ {t} PROVE View(u)' = View(u)
  <2>1. \A r \in Row : (IF lock'[r] = u THEN cur'[r] ELSE db'[r]) = (IF lock[r] = u THEN cur[r] ELSE db[r])
    BY <1>1, NoneAssumption
  <2> QED
    BY <2>1 DEF View, Read
<1>3. PICK after : after = View(t)'
  OBVIOUS
<1>4. after = db
  <2>1. \A r \in Row : (IF lock'[r] = t THEN cur'[r] ELSE db'[r]) = db[r]
    BY <1>1, NoneAssumption
  <2>2. db = [r \in Row |-> db[r]]
    BY DEF IInv, TablesInv, StorageTyped
  <2> QED
    BY <1>3, <2>1, <2>2 DEF View, Read
<1>5. Excess(after) = Excess(View(t)) + (Owes(Idle) - Owes(job[t]))
  <2>1. PICK g \in Int : g = Excess(View(t))
    BY Views, ExcessTyped DEF BooksInv
  <2>2. Excess(db) = 0 /\ Owes(job[t]) = g
    BY <2>1 DEF TokensInv, Drift
  <2> QED
    BY <1>4, <2>1, <2>2, IdleOwes
<1> QED
  BY <1>1, <1>2, <1>3, <1>5, TokensStep

\* COMMIT: what the request has changed counts nothing, and what the others have changed adds to it.
LEMMA CommitTokens ==
  ASSUME IInv, IInv', BooksInv, BooksInv', TokensInv, NEW t \in Tx, CommitTx(t)
  PROVE  TokensInv'
<1>1. /\ cur' = cur /\ job' = [job EXCEPT ![t] = Idle] /\ job[t].pc = "commit"
      /\ db' = [r \in Row |-> IF lock[r] = t THEN cur[r] ELSE db[r]]
      /\ lock' = [r \in Row |-> IF lock[r] = t THEN NoTx ELSE lock[r]]
  BY CommitFacts DEF CommitTx, At, IInv, TablesInv
<1>2. MoneyIn(db) /\ MoneyIn(cur) /\ Excess(db) = 0 /\ job \in [Tx -> AimedJob]
  BY DEF BooksInv, TokensInv, IInv, RequestsInv
<1>3. PICK new : new = db'
  OBVIOUS
<1>4. new = View(t)
  BY <1>1, <1>3 DEF View, Read
<1>5. MoneyIn(new)
  BY <1>2, <1>4, Views
<1>6. Drift(t) = 0
  BY <1>1 DEF TokensInv, Owes
<1>7. Excess(new) = 0
  <2>1. PICK g \in Int : g = Excess(View(t))
    BY <1>2, Views, ExcessTyped
  <2> QED
    BY <1>2, <1>4, <1>6, <2>1 DEF Drift
<1>8. Excess(db)' = 0
  BY <1>3, <1>7 DEF Excess, Unspent, Locked
<1>9. ASSUME NEW u \in Tx PROVE Drift(u)' = Owes(job[u])'
  <2>1. PICK after : after = View(u)'
    OBVIOUS
  <2>2. \A r \in Row : after[r] = IF lock'[r] = u THEN cur'[r] ELSE new[r]
    BY <1>3, <2>1 DEF View, Read
  <2>3. MoneyIn(after)
    BY <1>1, <1>2, <1>5, <2>2, UserRows DEF MoneyIn, Row
  <2>4. Drift(u)' = Excess(after) - Excess(new)
    BY <1>3, <2>1 DEF Drift, Excess, Unspent, Locked
  <2>5. CASE u = t
    <3>1. \A r \in Row : after[r] = new[r]
      BY <1>1, <2>2, <2>5, NoneAssumption
    <3>2. after = new
      BY <2>1, <3>1, <1>3, <1>1 DEF View
    <3>3. job'[u] = Idle
      BY <1>1, <1>2, <2>5
    <3> QED
      BY <1>7, <2>4, <3>2, <3>3, IdleOwes DEF Owes
  <2>6. CASE u # t
    <3>1. \A r \in Row : /\ View(u)[r] = IF lock[r] = u THEN cur[r] ELSE db[r]
                         /\ (after[r] = new[r] /\ View(u)[r] = db[r])
                            \/ (after[r] = View(u)[r] /\ new[r] = db[r])
      BY <1>1, <1>3, <2>2, <2>6, NoneAssumption DEF View, Read
    <3>2. PICK before : before = View(u) /\ MoneyIn(before)
      BY <1>2, Views
    <3>3. \A r \in Row : (after[r] = new[r] /\ before[r] = db[r])
                          \/ (after[r] = before[r] /\ new[r] = db[r])
      BY <3>1, <3>2
    <3>4. Excess(after) - Excess(new) = Excess(before) - Excess(db)
      BY <1>2, <1>5, <2>3, <3>2, <3>3, ExcessLinear
    <3>5. job'[u] = job[u]
      BY <1>1, <1>2, <2>6
    <3> QED
      BY <2>4, <3>2, <3>4, <3>5 DEF TokensInv, Drift, Owes
  <2> QED
    BY <2>5, <2>6
<1> QED
  BY <1>8, <1>9 DEF TokensInv

\* A request arrives that owes nothing yet.
LEMMA BeginTokens ==
  ASSUME IInv, IInv', BooksInv, BooksInv', TokensInv, NEW t \in Tx, Begin(t)
  PROVE  TokensInv'
<1>1. job[t].pc = "idle" /\ Owes(job[t]) = 0
  <2>1. job[t].pc = "idle"
    BY DEF Begin, BeginCreate, BeginDetails, BeginLock, BeginSettle, BeginPay, BeginDeposit, Start, At
  <2> QED
    BY <2>1 DEF Owes
<1>2. ASSUME NEW request, Start(t, request),
             DOMAIN request = DOMAIN Idle, request = [x \in DOMAIN Idle |-> request[x]],
             \/ request.pc \in {"insert", "cleanup", "coin"}
             \/ request.pc = "credit" /\ request.op = "deposit"
      PROVE  TokensInv'
  <2>1. PICK next : next = [request EXCEPT !.late = late]
    OBVIOUS
  <2>2. next.pc = request.pc /\ next.op = request.op
    BY <1>2, <2>1 DEF Idle
  <2>3. Owes(next) = 0
    BY <1>2, <2>2 DEF Owes, Payment
  <2>4. job' = [job EXCEPT ![t] = next] /\ UNCHANGED storage
    BY <1>2, <2>1 DEF Start
  <2> QED
    BY <1>1, <2>3, <2>4, TokensRead
<1>3. ASSUME NEW e \in Escrow, BeginCreate(t, e) PROVE TokensInv'
  BY <1>2, <1>3 DEF BeginCreate, Idle
<1>4. ASSUME NEW e \in Escrow, BeginDetails(t, e) PROVE TokensInv'
  BY <1>2, <1>4 DEF BeginDetails, Idle
<1>5. ASSUME NEW e \in Escrow, NEW u \in User, NEW c \in Coin, BeginLock(t, u, e, c) PROVE TokensInv'
  BY <1>2, <1>5 DEF BeginLock, Idle
<1>6. ASSUME NEW e \in Escrow, NEW u \in User, NEW op \in Settlement, BeginSettle(t, op, u, e)
      PROVE  TokensInv'
  BY <1>2, <1>6 DEF BeginSettle, Idle
<1>7. ASSUME NEW u \in User, NEW c \in Coin, NEW op \in Payment, BeginPay(t, op, u, c) PROVE TokensInv'
  BY <1>2, <1>7 DEF BeginPay, Idle
<1>8. ASSUME NEW u \in User, NEW amount \in Cash, BeginDeposit(t, u, amount) PROVE TokensInv'
  BY <1>2, <1>8 DEF BeginDeposit, Idle
<1> QED
  BY <1>3, <1>4, <1>5, <1>6, <1>7, <1>8 DEF Begin

\* The bank opens with every token it has issued unspent.
LEMMA InitTokens == DbInit => TokensInv
<1> SUFFICES ASSUME DbInit PROVE TokensInv
  OBVIOUS
<1>1. /\ \A c \in Coin : db[CoinRow(c)] = NoUser
      /\ \A e \in Escrow : db[EscrowRow(e)].status = "none"
      /\ cur = db /\ lock = [r \in Row |-> NoTx] /\ job = [t \in Tx |-> Idle]
      /\ db = [r \in Row |-> db[r]]
  <2>1. /\ \A c \in Coin : CoinRow(c)[1] = "coin"
        /\ \A e \in Escrow : EscrowRow(e)[1] = "escrow"
    BY DEF CoinRow, EscrowRow
  <2> QED
    BY <2>1, Rows DEF DbInit, Absent
<1>2. Worth \in [Coin -> Int]
  BY ValueAssumption
<1>3. PICK b \in Int : b = SumFunction(Worth)
  BY <1>2, SumInt, FiniteAssumption
<1>4. Outstanding(db[ReserveRow]) = b
  <2>1. ReserveRow[1] = "reserve" /\ ReserveRow \in Row
    BY DEF ReserveRow, Row
  <2>2. db[ReserveRow].total_issued = b /\ db[ReserveRow].total_redeemed = 0
    BY <1>3, <2>1 DEF DbInit
  <2> QED
    BY <2>2 DEF Outstanding
<1>5. Unspent(db) = b
  <2>1. [c \in Coin |-> IF db[CoinRow(c)] = NoUser THEN Worth[c] ELSE 0] = Worth
    BY <1>1, <1>2
  <2> QED
    BY <1>3, <2>1 DEF Unspent
<1>6. Locked(db) = 0
  <2> DEFINE f == [e \in Escrow |-> IF db[EscrowRow(e)].status = "locked" THEN Price[e] ELSE 0]
  <2>1. \A e \in Escrow : f[e] = 0
    BY <1>1
  <2>2. f \in [Escrow -> Int]
    BY <2>1
  <2>3. Locked(db) = SumFunction(f)
    BY DEF Locked
  <2> HIDE DEF f
  <2> QED
    BY <2>1, <2>2, <2>3, SumZero, FiniteAssumption
<1>7. Excess(db) = 0
  BY <1>4, <1>5, <1>6 DEF Excess
<1>8. ASSUME NEW t \in Tx PROVE Drift(t) = Owes(job[t])
  <2>1. \A r \in Row : (IF lock[r] = t THEN cur[r] ELSE db[r]) = db[r]
    BY <1>1
  <2>2. View(t) = db
    BY <1>1, <2>1 DEF View, Read
  <2> QED
    BY <1>1, <1>7, <2>2, IdleOwes DEF Drift
<1> QED
  BY <1>7, <1>8 DEF TokensInv

LEMMA CrashTokens ==
  ASSUME IInv, TokensInv, Crash
  PROVE  TokensInv'
<1>1. db' = db /\ cur' = db /\ job' = [t \in Tx |-> Idle]
  BY DEF Crash, RollbackAll
<1>2. Excess(db)' = 0
  BY <1>1 DEF TokensInv, Excess, Unspent, Locked
<1>3. ASSUME NEW t \in Tx PROVE Drift(t)' = Owes(job[t])'
  <2>1. PICK after : after = View(t)'
    OBVIOUS
  <2>2. after = db
    <3>1. \A r \in Row : (IF lock'[r] = t THEN cur'[r] ELSE db'[r]) = db[r]
      BY <1>1
    <3>2. db = [r \in Row |-> db[r]]
      BY DEF IInv, TablesInv, StorageTyped
    <3> QED
      BY <2>1, <3>1, <3>2 DEF View, Read
  <2>3. Drift(t)' = Excess(after) - Excess(db)
    BY <1>1, <2>1 DEF Drift, Excess, Unspent, Locked
  <2>4. job'[t] = Idle /\ Excess(db) = 0
    BY <1>1 DEF TokensInv
  <2> QED
    BY <2>2, <2>3, <2>4, IdleOwes DEF Owes
<1> QED
  BY <1>2, <1>3 DEF TokensInv

LEMMA TokensStay ==
  ASSUME TokensInv, UNCHANGED <<storage, job>>
  PROVE  TokensInv'
<1>1. \A t \in Tx : Drift(t)' = Drift(t) /\ Owes(job[t])' = Owes(job[t])
  BY DEF storage, Drift, Excess, Unspent, Locked, View, Read, Owes
<1> QED
  BY <1>1 DEF TokensInv, storage, Excess, Unspent, Locked

LEMMA NextTokens ==
    IInv /\ IInv' /\ BooksInv /\ BooksInv' /\ AloneInv /\ TokensInv /\ [Next]_vars => TokensInv'
<1> SUFFICES ASSUME IInv, IInv', BooksInv, BooksInv', AloneInv, TokensInv, [Next]_vars
             PROVE  TokensInv'
  OBVIOUS
<1>1. ASSUME NEW t \in Tx, Statement(t) PROVE TokensInv'
  <2>1. CASE Throw(t)
    BY <2>1, ThrowTokens
  <2>2. CASE ~Throw(t)
    BY <1>1, <2>2, CleanupTokens, LockTokens, SettleTokens, EndTokens, CommitTokens
       DEF Statement, PoolTimeout, DeadlockVictim
  <2> QED
    BY <2>1, <2>2
<1>2. ASSUME NEW t \in Tx, Begin(t) PROVE TokensInv'
  BY <1>2, BeginTokens
<1>3. CASE UNCHANGED vars \/ \E e \in Escrow : TimePasses(e)
  BY <1>3, TokensStay DEF vars, storage, TimePasses
<1>4. CASE Crash
  BY <1>4, CrashTokens
<1> QED
  BY <1>1, <1>2, <1>3, <1>4 DEF Next, Step

\* bankReserveService.js: total_issued - total_redeemed is the value of the tokens in circulation,
\* those not spent yet and those locked in an escrow, as long as the requests about escrows do not
\* overlap; payments, splits and deposits may overlap with them and with each other.
THEOREM TokensBackedPatient ==
  ASSUME Patient
  PROVE  Spec => []TokensBacked
<1>1. BooksInv /\ TokensInv => TokensBacked
  <2> SUFFICES ASSUME BooksInv, TokensInv PROVE TokensBacked
    OBVIOUS
  <2>1. Excess(db) = 0 /\ MoneyIn(db)
    BY DEF BooksInv, TokensInv
  <2>2. Outstanding(db[ReserveRow]) \in Int /\ Unspent(db) \in Int /\ Locked(db) \in Int
    BY <2>1, ExcessTyped
  <2>3. Outstanding(db[ReserveRow]) = Unspent(db) + Locked(db)
    BY <2>1, <2>2 DEF Excess
  <2> QED
    BY <2>3 DEF TokensBacked, Outstanding
<1> QED
  BY <1>1, InitTokens, NextTokens, BooksInvariance, AloneInvariance, PTL DEF Spec

-----------------------------------------------------------------------------
(***************************************************************************)
(* The refinement.  At every point of its handler a request has paid and   *)
(* booked, in its view of the tables, what the ledger's step for it does   *)
(* in one: for the escrows it has expired, and for its own.                *)
(***************************************************************************)

\* The escrows it has expired.
Swept(t) == {e \in Escrow : lock[EscrowRow(e)] = t /\ Now(e) = "expired"}

\* Those whose value it has paid back to the customer, and those whose tokens it has burnt; S
\* are the ones it has expired.
Repaid(S, request) ==
    S \cup {e \in Escrow : request.pc = "expireLate" /\ e = request.row}
      \cup {e \in Escrow : Refunds(request) /\ request.pc \in {"book", "close"} \cup Ending
                                            /\ e = request.esc}
Burnt(S, request) ==
    {e \in S : ~(request.pc = "burnLate" /\ e = request.row)}
      \cup {e \in Escrow : Refunds(request) /\ request.pc \in {"close"} \cup Ending
                                            /\ e = request.esc}

\* What else it has paid to u, and booked under one of the operations ops.
Paying == {"confirm", "deposit"} \cup Payment
PaidTo(request, u) ==
    IF request.op \in Paying /\ request.pc \in {"book", "close"} \cup Ending /\ request.payee = u
      THEN Moved(request) ELSE 0
BookedAs(request, ops) ==
    IF request.op \in ops /\ request.pc \in {"close"} \cup Ending THEN Moved(request) ELSE 0

\* What the escrows of S give back, to u or in all, as they are in a version of the tables.
BackOf(version, e, u) ==
    IF version[EscrowRow(e)].status = "locked" /\ version[EscrowRow(e)].customer = u
      THEN Price[e] ELSE 0
Back(version, S, u) == SumFunction([e \in S |-> BackOf(version, e, u)])
WorthOf(version, S) == SumFunction([e \in S |-> Held(version[EscrowRow(e)], e)])

\* A request is about somebody.
Asked(request) ==
    /\ request.op = "none" => request.pc = "idle"
    /\ request.op \in Payment => request.payee = request.user
    /\ request.op = "deposit" => request.payee \in User /\ request.amount \in Cash

\* From old to new, request has paid and booked what it should have by now.
Did(old, new, S, request) ==
    /\ Asked(request)
    /\ \A u \in User : new[UserRow(u)].balance =
          old[UserRow(u)].balance + Back(old, Repaid(S, request), u) + PaidTo(request, u)
    /\ new[ReserveRow] =
          [reserve_balance |-> old[ReserveRow].reserve_balance + BookedAs(request, {"deposit"}),
           total_issued |-> old[ReserveRow].total_issued - WorthOf(old, Burnt(S, request)),
           total_redeemed |-> old[ReserveRow].total_redeemed
                                + BookedAs(request, {"confirm"} \cup Payment)]

DidInv == \A t \in Tx : Did(db, View(t), Swept(t), job[t])

-----------------------------------------------------------------------------
(* What the escrows give back                                              *)

LEMMA BackTyped ==
  ASSUME NEW version, NEW S \in SUBSET Escrow, NEW u
  PROVE  /\ [e \in S |-> BackOf(version, e, u)] \in [S -> Int]
         /\ [e \in S |-> Held(version[EscrowRow(e)], e)] \in [S -> Int]
         /\ Back(version, S, u) \in Int /\ WorthOf(version, S) \in Int
<1>1. [e \in S |-> BackOf(version, e, u)] \in [S -> Int]
  BY ValueAssumption DEF BackOf
<1>2. [e \in S |-> Held(version[EscrowRow(e)], e)] \in [S -> Int]
  BY ValueAssumption DEF Held
<1>3. IsFiniteSet(S)
  BY FS_Subset, FiniteAssumption
<1> QED
  BY <1>1, <1>2, <1>3, SumInt DEF Back, WorthOf

\* One more escrow gives back what it holds.
LEMMA BackInsert ==
  ASSUME NEW version, NEW S \in SUBSET Escrow, NEW x \in Escrow, x \notin S
  PROVE  /\ \A u : Back(version, S \cup {x}, u) = Back(version, S, u) + BackOf(version, x, u)
         /\ WorthOf(version, S \cup {x}) = WorthOf(version, S) + Held(version[EscrowRow(x)], x)
<1>1. PICK T \in SUBSET Escrow : T = S \cup {x}
  OBVIOUS
<1>2. x \in T /\ S \subseteq T /\ IsFiniteSet(S)
  BY <1>1, FS_Subset, FiniteAssumption
<1>3. ASSUME NEW u PROVE Back(version, T, u) = Back(version, S, u) + BackOf(version, x, u)
  <2> DEFINE f == [e \in S |-> BackOf(version, e, u)]
             g == [e \in T |-> BackOf(version, e, u)]
  <2>1. f \in [S -> Int] /\ g \in [T -> Int]
    BY ValueAssumption DEF BackOf
  <2>2. (\A e \in S : g[e] = f[e]) /\ g[x] = BackOf(version, x, u)
    BY <1>2
  <2>3. Back(version, S, u) = SumFunction(f) /\ Back(version, T, u) = SumFunction(g)
    BY DEF Back
  <2> HIDE DEF f, g
  <2>4. g \in [S \cup {x} -> Int]
    BY <1>1, <2>1
  <2>5. SumFunction(g) = SumFunction(f) + g[x]
    BY <1>2, <2>1, <2>2, <2>4, SumInsert
  <2> QED
    BY <2>2, <2>3, <2>5
<1>4. WorthOf(version, T) = WorthOf(version, S) + Held(version[EscrowRow(x)], x)
  <2> DEFINE f == [e \in S |-> Held(version[EscrowRow(e)], e)]
             g == [e \in T |-> Held(version[EscrowRow(e)], e)]
  <2>1. f \in [S -> Int] /\ g \in [T -> Int]
    BY ValueAssumption DEF Held
  <2>2. (\A e \in S : g[e] = f[e]) /\ g[x] = Held(version[EscrowRow(x)], x)
    BY <1>2
  <2>3. WorthOf(version, S) = SumFunction(f) /\ WorthOf(version, T) = SumFunction(g)
    BY DEF WorthOf
  <2> HIDE DEF f, g
  <2>4. g \in [S \cup {x} -> Int]
    BY <1>1, <2>1
  <2>5. SumFunction(g) = SumFunction(f) + g[x]
    BY <1>2, <2>1, <2>2, <2>4, SumInsert
  <2> QED
    BY <2>2, <2>3, <2>5
<1> QED
  BY <1>1, <1>3, <1>4

\* No escrows give nothing back.
LEMMA BackNone ==
  ASSUME NEW version
  PROVE  (\A u : Back(version, {}, u) = 0) /\ WorthOf(version, {}) = 0
<1>1. ASSUME NEW u PROVE Back(version, {}, u) = 0
  <2> DEFINE f == [e \in {} |-> BackOf(version, e, u)]
  <2>1. f \in [{} -> Int] /\ \A e \in {} : f[e] = 0
    OBVIOUS
  <2> HIDE DEF f
  <2> QED
    BY <2>1, SumZero, FS_EmptySet DEF Back, f
<1>2. WorthOf(version, {}) = 0
  <2> DEFINE f == [e \in {} |-> Held(version[EscrowRow(e)], e)]
  <2>1. f \in [{} -> Int] /\ \A e \in {} : f[e] = 0
    OBVIOUS
  <2> HIDE DEF f
  <2> QED
    BY <2>1, SumZero, FS_EmptySet DEF WorthOf, f
<1> QED
  BY <1>1, <1>2

\* What an escrow gives back is in its own row.
LEMMA BackLocal ==
  ASSUME NEW v, NEW w, NEW S \in SUBSET Escrow, \A e \in S : v[EscrowRow(e)] = w[EscrowRow(e)]
  PROVE  (\A u : Back(v, S, u) = Back(w, S, u)) /\ WorthOf(v, S) = WorthOf(w, S)
<1>1. ASSUME NEW u PROVE Back(v, S, u) = Back(w, S, u)
  <2>1. [e \in S |-> BackOf(v, e, u)] = [e \in S |-> BackOf(w, e, u)]
    BY DEF BackOf
  <2> QED
    BY <2>1 DEF Back
<1>2. WorthOf(v, S) = WorthOf(w, S)
  <2>1. [e \in S |-> Held(v[EscrowRow(e)], e)] = [e \in S |-> Held(w[EscrowRow(e)], e)]
    OBVIOUS
  <2> QED
    BY <2>1 DEF WorthOf
<1> QED
  BY <1>1, <1>2

-----------------------------------------------------------------------------
(* Points of a handler at which it has only expired escrows                *)

Early == {"idle", "insert", "cleanup", "refundLate", "select", "coin", "spend", "mark", "credit"}
Late == {"close"} \cup Ending

PaysNobody(request) ==
    \/ request.pc \in Early
    \/ /\ request.pc \in Late
       /\ request.op \in {"create", "details", "lock"} \/ (request.op = "cancel" /\ request.payee = NoUser)

\* Nothing is paid and booked but for the expired escrows.
Level(old, new, S) ==
    /\ \A u \in User : new[UserRow(u)].balance = old[UserRow(u)].balance + Back(old, S, u)
    /\ new[ReserveRow] = [reserve_balance |-> old[ReserveRow].reserve_balance,
                          total_issued |-> old[ReserveRow].total_issued - WorthOf(old, S),
                          total_redeemed |-> old[ReserveRow].total_redeemed]

LEMMA NobodyPaid ==
  ASSUME NEW S \in SUBSET Escrow, NEW request, PaysNobody(request)
  PROVE  /\ Repaid(S, request) = S /\ Burnt(S, request) = S
         /\ \A u : PaidTo(request, u) = 0
         /\ BookedAs(request, {"deposit"}) = 0 /\ BookedAs(request, {"confirm"} \cup Payment) = 0
<1>1. /\ request.pc # "expireLate" /\ request.pc # "burnLate"
      /\ ~(Refunds(request) /\ request.pc \in {"book", "close"} \cup Ending)
      /\ ~(Refunds(request) /\ request.pc \in {"close"} \cup Ending)
      /\ ~(request.op \in Paying /\ request.pc \in {"book", "close"} \cup Ending)
  BY DEF PaysNobody, Early, Late, Ending, Refunds, Paying, Payment
<1>2. Repaid(S, request) = S /\ Burnt(S, request) = S
  BY <1>1 DEF Repaid, Burnt
<1>3. \A u : PaidTo(request, u) = 0
  BY <1>1 DEF PaidTo
<1>4. BookedAs(request, {"deposit"}) = 0 /\ BookedAs(request, {"confirm"} \cup Payment) = 0
  BY <1>1 DEF BookedAs, Paying
<1> QED
  BY <1>2, <1>3, <1>4

LEMMA LevelDid ==
  ASSUME NEW old, NEW new, MoneyIn(old), NEW S \in SUBSET Escrow, NEW request, PaysNobody(request)
  PROVE  Did(old, new, S, request) <=> Asked(request) /\ Level(old, new, S)
<1>1. /\ Repaid(S, request) = S /\ Burnt(S, request) = S
      /\ \A u : PaidTo(request, u) = 0
      /\ BookedAs(request, {"deposit"}) = 0 /\ BookedAs(request, {"confirm"} \cup Payment) = 0
  BY NobodyPaid
<1>2. PICK bank \in ReserveValue : bank = old[ReserveRow]
  BY DEF MoneyIn
<1>3. bank.reserve_balance + 0 = bank.reserve_balance /\ bank.total_redeemed + 0 = bank.total_redeemed
  BY DEF ReserveValue
<1>4. \A u \in User : old[UserRow(u)].balance + Back(old, S, u) + 0 = old[UserRow(u)].balance + Back(old, S, u)
  <2> TAKE u \in User
  <2>1. PICK account \in UserValue : account = old[UserRow(u)]
    BY DEF MoneyIn
  <2>2. PICK a \in Int, b \in Int : a = account.balance /\ b = Back(old, S, u)
    BY BackTyped DEF UserValue
  <2> QED
    BY <2>1, <2>2
<1> QED
  BY <1>1, <1>2, <1>3, <1>4 DEF Did, Level

\* From its last UPDATE on, what a request has done does not depend on where it is.
LEMMA LateDid ==
  ASSUME NEW old, NEW new, NEW S \in SUBSET Escrow, NEW request \in Job, NEW label \in Late,
         request.pc \in Late, NEW next, next = [request EXCEPT !.pc = label], Did(old, new, S, request)
  PROVE  Did(old, new, S, next)
<1>1. /\ next.pc = label /\ next.op = request.op /\ next.user = request.user
      /\ next.esc = request.esc /\ next.amount = request.amount /\ next.payee = request.payee
      /\ Moved(next) = Moved(request)
  BY Relabelled
<1>2. Refunds(next) <=> Refunds(request)
  BY <1>1 DEF Refunds
<1>3. request.pc # "expireLate" /\ request.pc # "burnLate" /\ label # "expireLate" /\ label # "burnLate"
      /\ request.pc # "idle"
  BY DEF Late, Ending
<1>4. Repaid(S, next) = Repaid(S, request) /\ Burnt(S, next) = Burnt(S, request)
  BY <1>1, <1>2, <1>3 DEF Repaid, Burnt, Late
<1>5. \A u : PaidTo(next, u) = PaidTo(request, u)
  BY <1>1 DEF PaidTo, Late
<1>6. /\ BookedAs(next, {"deposit"}) = BookedAs(request, {"deposit"})
      /\ BookedAs(next, {"confirm"} \cup Payment) = BookedAs(request, {"confirm"} \cup Payment)
  BY <1>1 DEF BookedAs, Late
<1>7. Asked(next)
  BY <1>1, <1>3 DEF Did, Asked
<1> QED
  BY <1>4, <1>5, <1>6, <1>7 DEF Did

-----------------------------------------------------------------------------
(* What a step does to what has been done                                  *)

LEMMA SweptTyped == ASSUME NEW t \in Tx PROVE Swept(t) \in SUBSET Escrow
  BY DEF Swept

\* Only the request about escrows has expired some.
LEMMA SweptBy ==
  ASSUME AloneInv, NEW t \in Tx, job[t].op \notin OfEscrow
  PROVE  Swept(t) = {}
  BY DEF AloneInv, Alone, Swept

\* A step that writes no escrow.
LEMMA SweptStays ==
  ASSUME SameEscrows, NEW t \in Tx
  PROVE  Swept(t)' = Swept(t)
  BY DEF SameEscrows, Swept, Now

\* A write of an escrow.
LEMMA SweptWritten ==
  ASSUME IInv, NEW t \in Tx, NEW e \in Escrow, NEW v, NEW next, Update(t, EscrowRow(e), v, next)
  PROVE  /\ Swept(t)' = IF v.status = "expired" THEN Swept(t) \cup {e} ELSE Swept(t) \ {e}
         /\ \A u \in Tx \ {t} : Swept(u)' = Swept(u)
<1>1. /\ cur'[EscrowRow(e)] = v /\ lock'[EscrowRow(e)] = t
      /\ lock[EscrowRow(e)] \in {t, NoTx}
      /\ \A f \in Escrow \ {e} : /\ cur'[EscrowRow(f)] = cur[EscrowRow(f)]
                                 /\ lock'[EscrowRow(f)] = lock[EscrowRow(f)]
  BY EscrowWritten
<1>2. Swept(t)' = IF v.status = "expired" THEN Swept(t) \cup {e} ELSE Swept(t) \ {e}
  BY <1>1 DEF Swept, Now
<1>3. \A u \in Tx \ {t} : Swept(u)' = Swept(u)
  BY <1>1, NoneAssumption DEF Swept, Now
<1> QED
  BY <1>2, <1>3

\* What the others have done stays as it is.
LEMMA DidStep ==
  ASSUME IInv, DidInv, NEW t \in Tx, NEW next, job' = [job EXCEPT ![t] = next], db' = db,
         \A u \in Tx \ {t} : View(u)' = View(u) /\ Swept(u)' = Swept(u),
         Did(db, View(t)', Swept(t)', next)
  PROVE  DidInv'
<1>1. job'[t] = next /\ \A u \in Tx \ {t} : job'[u] = job[u]
  BY DEF IInv, RequestsInv
<1>2. ASSUME NEW u \in Tx PROVE Did(db', View(u)', Swept(u)', job'[u])
  <2>1. CASE u = t
    BY <1>1, <2>1
  <2>2. CASE u # t
    BY <1>1, <2>2 DEF DidInv
  <2> QED
    BY <2>1, <2>2
<1> QED
  BY <1>2 DEF DidInv

\* A SELECT, or anything else that leaves the tables alone.
LEMMA DidRead ==
  ASSUME IInv, DidInv, NEW t \in Tx, NEW next, job' = [job EXCEPT ![t] = next], UNCHANGED storage,
         Did(db, View(t), Swept(t), next)
  PROVE  DidInv'
<1>1. db' = db /\ SameEscrows /\ \A u \in Tx : View(u)' = View(u)
  BY DEF storage, SameEscrows, View, Read
<1>2. \A u \in Tx : Swept(u)' = Swept(u)
  BY <1>1, SweptStays
<1> QED
  BY <1>1, <1>2, DidStep

\* Where nothing but the expired escrows is paid, before and after a SELECT.
LEMMA LevelRead ==
  ASSUME IInv, BooksInv, DidInv, NEW t \in Tx, NEW next, job' = [job EXCEPT ![t] = next],
         UNCHANGED storage, PaysNobody(job[t]), PaysNobody(next), Asked(next)
  PROVE  DidInv'
<1>1. MoneyIn(db) /\ Swept(t) \in SUBSET Escrow /\ Did(db, View(t), Swept(t), job[t])
  BY SweptTyped DEF BooksInv, DidInv
<1>2. Did(db, View(t), Swept(t), next)
  BY <1>1, LevelDid
<1> QED
  BY <1>2, DidRead

\* What t sees before and after it writes a row.
LEMMA RowWritten ==
  ASSUME IInv, NEW t \in Tx, NEW row \in Row, NEW v, NEW next, Update(t, row, v, next)
  PROVE  /\ db' = db /\ job' = [job EXCEPT ![t] = next] /\ \A u \in Tx \ {t} : View(u)' = View(u)
         /\ View(t)[row] = cur[row] /\ View(t)'[row] = v
         /\ \A r \in Row \ {row} : View(t)'[r] = View(t)[r]
<1>1. Write(t, row, v) /\ job' = [job EXCEPT ![t] = next]
  BY DEF Update
<1> QED
  BY <1>1, WriteViews

\* An UPDATE of users or of bank_reserve.
LEMMA DidMoney ==
  ASSUME IInv, DidInv, NEW t \in Tx, NEW row \in Row, NEW v, NEW next, Update(t, row, v, next),
         \A e \in Escrow : row # EscrowRow(e),
         NEW after, after = View(t)', Did(db, after, Swept(t), next)
  PROVE  DidInv'
<1>1. /\ db' = db /\ job' = [job EXCEPT ![t] = next] /\ \A u \in Tx \ {t} : View(u)' = View(u)
  BY RowWritten
<1>2. SameEscrows
  <2>1. Write(t, row, v) /\ StorageTyped
    BY DEF Update, IInv, TablesInv
  <2> QED
    BY <2>1, WriteFacts, Rows DEF SameEscrows
<1>3. \A u \in Tx : Swept(u)' = Swept(u)
  BY <1>2, SweptStays
<1> QED
  BY <1>1, <1>3, DidStep

\* A write of a token, or of an escrow that is not expired by it.
LEMMA MoneyStays ==
  ASSUME IInv, NEW t \in Tx, NEW row \in Row, NEW v, NEW next, Update(t, row, v, next),
         \/ \E c \in Coin : row = CoinRow(c)
         \/ \E e \in Escrow : row = EscrowRow(e)
  PROVE  /\ \A u \in User : View(t)'[UserRow(u)] = View(t)[UserRow(u)]
         /\ View(t)'[ReserveRow] = View(t)[ReserveRow]
<1>1. \A u \in User : UserRow(u) \in Row /\ UserRow(u) # row
  BY UserRows, Accounts
<1>2. ReserveRow \in Row /\ ReserveRow # row
  BY Rows DEF Row
<1> QED
  BY <1>1, <1>2, RowWritten

\* What has been done depends on the rows of money alone.
LEMMA SameMoney ==
  ASSUME NEW old, NEW new, NEW after, NEW S, NEW request, Did(old, new, S, request),
         \A u \in User : after[UserRow(u)] = new[UserRow(u)], after[ReserveRow] = new[ReserveRow]
  PROVE  Did(old, after, S, request)
  BY DEF Did

LEMMA LevelCoin ==
  ASSUME IInv, BooksInv, DidInv, NEW t \in Tx, NEW c \in Coin, NEW v, NEW next,
         Update(t, CoinRow(c), v, next), PaysNobody(job[t]), PaysNobody(next), Asked(next)
  PROVE  DidInv'
<1>1. MoneyIn(db) /\ Swept(t) \in SUBSET Escrow /\ Did(db, View(t), Swept(t), job[t])
  BY SweptTyped DEF BooksInv, DidInv
<1>2. Did(db, View(t), Swept(t), next)
  BY <1>1, LevelDid
<1>3. CoinRow(c) \in Row /\ \A e \in Escrow : CoinRow(c) # EscrowRow(e)
  BY Rows
<1>4. PICK after : after = View(t)'
  OBVIOUS
<1>5. Did(db, after, Swept(t), next)
  BY <1>2, <1>3, <1>4, MoneyStays, SameMoney
<1> QED
  BY <1>3, <1>4, <1>5, DidMoney

\* A write of an escrow that does not expire it, and whatever has been done stays so.
LEMMA DidEscrow ==
  ASSUME IInv, DidInv, NEW t \in Tx, NEW e \in Escrow, NEW v, NEW next,
         Update(t, EscrowRow(e), v, next), e \notin Swept(t), v.status # "expired",
         Did(db, View(t), Swept(t), next)
  PROVE  DidInv'
<1>1. EscrowRow(e) \in Row
  BY Rows
<1>2. /\ db' = db /\ job' = [job EXCEPT ![t] = next] /\ \A u \in Tx \ {t} : View(u)' = View(u)
  BY <1>1, RowWritten
<1>3. Swept(t)' = Swept(t) /\ \A u \in Tx \ {t} : Swept(u)' = Swept(u)
  BY SweptWritten
<1>4. PICK after : after = View(t)'
  OBVIOUS
<1>5. Did(db, after, Swept(t), next)
  BY <1>1, <1>4, MoneyStays, SameMoney
<1> QED
  BY <1>2, <1>3, <1>4, <1>5, DidStep

\* A write of an escrow that expires it.
LEMMA DidExpire ==
  ASSUME IInv, DidInv, NEW t \in Tx, NEW e \in Escrow, NEW v, NEW next,
         Update(t, EscrowRow(e), v, next), v.status = "expired",
         Did(db, View(t), Swept(t) \cup {e}, next)
  PROVE  DidInv'
<1>1. EscrowRow(e) \in Row
  BY Rows
<1>2. /\ db' = db /\ job' = [job EXCEPT ![t] = next] /\ \A u \in Tx \ {t} : View(u)' = View(u)
  BY <1>1, RowWritten
<1>3. Swept(t)' = Swept(t) \cup {e} /\ \A u \in Tx \ {t} : Swept(u)' = Swept(u)
  BY SweptWritten
<1>4. PICK after : after = View(t)'
  OBVIOUS
<1>5. Did(db, after, Swept(t) \cup {e}, next)
  BY <1>1, <1>4, MoneyStays, SameMoney
<1> QED
  BY <1>2, <1>3, <1>4, <1>5, DidStep

\* next differs from request in m more paid to w.
PaysMore(S, request, next, w, m) ==
    /\ Burnt(S, next) = Burnt(S, request)
    /\ BookedAs(next, {"deposit"}) = BookedAs(request, {"deposit"})
    /\ BookedAs(next, {"confirm"} \cup Payment) = BookedAs(request, {"confirm"} \cup Payment)
    /\ \A u \in User :
          /\ PaidTo(next, u) \in Int /\ PaidTo(request, u) \in Int
          /\ Back(db, Repaid(S, next), u) \in Int /\ Back(db, Repaid(S, request), u) \in Int
          /\ Back(db, Repaid(S, next), u) + PaidTo(next, u) =
                Back(db, Repaid(S, request), u) + PaidTo(request, u) + (IF u = w THEN m ELSE 0)

\* An UPDATE of users.
LEMMA DidPay ==
  ASSUME IInv, BooksInv, DidInv, NEW t \in Tx, NEW w \in User, NEW v, NEW next,
         Update(t, UserRow(w), v, next), NEW m \in Int, v.balance = cur[UserRow(w)].balance + m,
         Asked(next), PaysMore(Swept(t), job[t], next, w, m)
  PROVE  DidInv'
<1>0. PICK S, request : S = Swept(t) /\ request = job[t] /\ PaysMore(S, request, next, w, m)
  OBVIOUS
<1>1. UserRow(w) \in Row /\ ReserveRow \in Row /\ ReserveRow # UserRow(w)
      /\ \A e \in Escrow : UserRow(w) # EscrowRow(e)
  BY UserRows, Accounts DEF Row
<1>2. PICK after : after = View(t)'
  OBVIOUS
<1>3. /\ View(t)[UserRow(w)] = cur[UserRow(w)] /\ after[UserRow(w)] = v
      /\ \A r \in Row \ {UserRow(w)} : after[r] = View(t)[r]
  BY <1>1, <1>2, RowWritten
<1>4. Did(db, View(t), S, request) /\ MoneyIn(View(t)) /\ MoneyIn(db)
  BY <1>0, Views DEF DidInv, BooksInv
<1>5. ASSUME NEW u \in User
      PROVE  after[UserRow(u)].balance = db[UserRow(u)].balance + Back(db, Repaid(S, next), u) + PaidTo(next, u)
  <2>1. PICK a \in Int, b \in Int, x \in Int, y \in Int :
           /\ a = Back(db, Repaid(S, request), u) /\ b = PaidTo(request, u)
           /\ x = Back(db, Repaid(S, next), u) /\ y = PaidTo(next, u)
    BY <1>0 DEF PaysMore
  <2>2. PICK old \in Int : old = db[UserRow(u)].balance
    BY <1>4 DEF MoneyIn, UserValue
  <2>3. View(t)[UserRow(u)].balance = old + a + b
    BY <1>4, <2>1, <2>2 DEF Did
  <2>4. CASE u = w
    <3>1. x + y = a + b + m
      BY <1>0, <2>1, <2>4 DEF PaysMore
    <3> QED
      BY <1>3, <2>1, <2>2, <2>3, <2>4, <3>1
  <2>5. CASE u # w
    <3>1. x + y = a + b
      BY <1>0, <2>1, <2>5 DEF PaysMore
    <3>2. UserRow(u) \in Row /\ UserRow(u) # UserRow(w)
      BY <2>5, UserRows
    <3> QED
      BY <1>3, <2>1, <2>2, <2>3, <3>1, <3>2
  <2> QED
    BY <2>4, <2>5
<1>6. after[ReserveRow] = View(t)[ReserveRow]
  BY <1>1, <1>3
<1>7. Did(db, after, S, next)
  BY <1>0, <1>4, <1>5, <1>6 DEF Did, PaysMore
<1> QED
  BY <1>0, <1>1, <1>2, <1>7, DidMoney

\* An UPDATE of bank_reserve.
LEMMA DidBook ==
  ASSUME IInv, BooksInv, DidInv, NEW t \in Tx, NEW v, NEW next, Update(t, ReserveRow, v, next),
         NEW S, S = Swept(t), NEW request, request = job[t],
         Asked(next), Repaid(S, next) = Repaid(S, request), \A u \in User : PaidTo(next, u) = PaidTo(request, u),
         v = [reserve_balance |-> db[ReserveRow].reserve_balance + BookedAs(next, {"deposit"}),
              total_issued |-> db[ReserveRow].total_issued - WorthOf(db, Burnt(S, next)),
              total_redeemed |-> db[ReserveRow].total_redeemed + BookedAs(next, {"confirm"} \cup Payment)]
  PROVE  DidInv'
<1>1. ReserveRow \in Row /\ \A e \in Escrow : ReserveRow # EscrowRow(e)
  BY Rows DEF Row
<1>2. PICK after : after = View(t)'
  OBVIOUS
<1>3. after[ReserveRow] = v /\ \A r \in Row \ {ReserveRow} : after[r] = View(t)[r]
  BY <1>1, <1>2, RowWritten
<1>4. Did(db, View(t), S, request)
  BY DEF DidInv
<1>5. \A u \in User : after[UserRow(u)] = View(t)[UserRow(u)]
  BY <1>3, UserRows
<1>6. Did(db, after, S, next)
  BY <1>3, <1>4, <1>5 DEF Did
<1> QED
  BY <1>1, <1>2, <1>6, DidMoney

\* What a request about escrows has done reads the escrows as they were.
LEMMA NotSwept ==
  ASSUME NEW t \in Tx, NEW e \in Escrow, Now(e) # "expired"
  PROVE  e \notin Swept(t)
  BY DEF Swept

-----------------------------------------------------------------------------
(* The cleanup                                                             *)

LEMMA AfterwardsAsked ==
  ASSUME NEW request \in Job, request.op \in Audited \cup {"details"}
  PROVE  Asked(AfterCleanup(request)) /\ PaysNobody(AfterCleanup(request))
<1> DEFINE next == AfterCleanup(request)
           label == IF request.op = "details" THEN "commit" ELSE "select"
<1>1. next.op = request.op /\ next.pc = label
  BY DEF AfterCleanup, Job
<1>2. request.op \notin {"none", "deposit"} \cup Payment
  BY DEF Audited, Settlement, Payment
<1> HIDE DEF next
<1>3. Asked(next) /\ PaysNobody(next)
  BY <1>1, <1>2 DEF Asked, PaysNobody, Early, Late, Ending
<1> QED
  BY <1>3 DEF next

\* The cleanup's statements, up to the customer's refund.
LEMMA SweepDid ==
  ASSUME IInv, IInv', BooksInv, BooksInv', AloneInv, DidInv, NEW t \in Tx,
         CleanCreated(t) \/ CleanSelect(t) \/ RefundLate(t)
  PROVE  DidInv'
<1>1. PICK request \in Job : request = job[t]
  BY DEF IInv, RequestsInv, AimedJob
<1>2. /\ Aims(request) /\ Sees(t, request) /\ Asked(request)
      /\ request.op \in Audited \cup {"details"} /\ request.op \in OfEscrow
      /\ request.pc \in {"cleanup", "refundLate"} /\ request.pc \notin Ending
      /\ MoneyIn(db) /\ Did(db, View(t), Swept(t), request)
  BY <1>1 DEF IInv, RequestsInv, BooksInv, AimedJob, Aims, CleanCreated, CleanSelect, RefundLate,
         At, Audited, Settlement, OfEscrow, AloneInv, DidInv, Did, Ending
<1>3. PaysNobody(request)
  BY <1>2 DEF PaysNobody, Early
<1>4. PICK S \in SUBSET Escrow : S = Swept(t)
  BY SweptTyped
<1>5. CASE CleanCreated(t)
  <2>1. PICK e \in Lapsed(t, "created") :
           Update(t, EscrowRow(e), [cur[EscrowRow(e)] EXCEPT !.status = "expired"], request)
    BY <1>1, <1>5 DEF CleanCreated
  <2>2. PICK v : v = [cur[EscrowRow(e)] EXCEPT !.status = "expired"]
    OBVIOUS
  <2>3. e \in Escrow /\ Now(e) = "created"
    BY <1>1, <1>2, <2>1, SeesCommitted DEF Lapsed, Job, Now
  <2>4. /\ cur[EscrowRow(e)] = db[EscrowRow(e)] /\ cur[EscrowRow(e)] \in EscrowValue
        /\ e \notin S
    BY <1>1, <1>2, <1>4, <2>3, Untamed, NotSwept
  <2>5. v.status = "expired"
    BY <2>2, <2>4 DEF EscrowValue
  <2>6. Held(db[EscrowRow(e)], e) = 0 /\ \A u : BackOf(db, e, u) = 0
    BY <2>3, <2>4 DEF Held, BackOf, Now
  <2>7. WorthOf(db, S \cup {e}) = WorthOf(db, S)
    <3>1. WorthOf(db, S \cup {e}) = WorthOf(db, S) + Held(db[EscrowRow(e)], e)
      BY <2>3, <2>4, BackInsert
    <3>2. PICK a \in Int : a = WorthOf(db, S)
      BY BackTyped
    <3> QED
      BY <2>6, <3>1, <3>2
  <2>8. ASSUME NEW u PROVE Back(db, S \cup {e}, u) = Back(db, S, u)
    <3>1. Back(db, S \cup {e}, u) = Back(db, S, u) + BackOf(db, e, u)
      BY <2>3, <2>4, BackInsert
    <3>2. PICK a \in Int : a = Back(db, S, u)
      BY BackTyped
    <3> QED
      BY <2>6, <3>1, <3>2
  <2>9. Level(db, View(t), S)
    BY <1>2, <1>3, <1>4, LevelDid
  <2>10. Level(db, View(t), S \cup {e})
    BY <2>7, <2>8, <2>9 DEF Level
  <2>11. PICK T \in SUBSET Escrow : T = S \cup {e}
    BY <2>3
  <2>12. Did(db, View(t), T, request)
    BY <1>2, <1>3, <2>10, <2>11, LevelDid
  <2> QED
    BY <1>4, <2>1, <2>2, <2>3, <2>5, <2>11, <2>12, DidExpire
<1>6. CASE CleanSelect(t)
  <2>1. PICK rows : Select(t, IF rows = {} THEN AfterCleanup(request)
                                   ELSE [request EXCEPT !.pc = "refundLate", !.overdue = rows])
    BY <1>1, <1>6 DEF CleanSelect
  <2>2. PICK next : next = IF rows = {} THEN AfterCleanup(request)
                                   ELSE [request EXCEPT !.pc = "refundLate", !.overdue = rows]
    OBVIOUS
  <2>3. Asked(next) /\ PaysNobody(next)
    <3>1. CASE rows = {}
      BY <1>2, <2>2, <3>1, AfterwardsAsked
    <3>2. CASE rows # {}
      <4>1. next.pc = "refundLate" /\ next.op = request.op /\ next.payee = request.payee
            /\ next.user = request.user /\ next.amount = request.amount
        BY <2>2, <3>2 DEF Job
      <4>2. request.op # "none"
        BY <1>2 DEF Audited, Settlement
      <4> QED
        BY <1>2, <4>1, <4>2 DEF Asked, PaysNobody, Early
    <3> QED
      BY <3>1, <3>2
  <2> QED
    BY <1>1, <1>3, <2>1, <2>2, <2>3, LevelRead DEF Select
<1>7. CASE RefundLate(t)
  <2>1. PICK x \in request.overdue :
           Update(t, UserRow(x[2]), Grow(cur[UserRow(x[2])], Price[x[1]]),
                  [request EXCEPT !.pc = "expireLate", !.row = x[1], !.overdue = @ \ {x}])
    BY <1>1, <1>7 DEF RefundLate
  <2>2. PICK next : next = [request EXCEPT !.pc = "expireLate", !.row = x[1], !.overdue = @ \ {x}]
    OBVIOUS
  <2>3. PICK e \in Escrow, w \in User : e = x[1] /\ w = x[2]
    BY DEF Job
  <2>4. /\ next.pc = "expireLate" /\ next.op = request.op /\ next.row = e
        /\ next.payee = request.payee /\ next.user = request.user /\ next.amount = request.amount
    BY <2>2, <2>3 DEF Job
  <2>5. Now(e) = "locked" /\ cur[EscrowRow(e)].customer = w /\ request.pc = "refundLate"
    BY <1>1, <1>2, <1>7, <2>3 DEF Sees, Loop, RefundLate, At
  <2>6. cur[EscrowRow(e)] = db[EscrowRow(e)] /\ e \notin S
    BY <1>1, <1>2, <1>4, <2>5, Untamed, NotSwept
  <2>7. PICK p \in Int : p = Price[e]
    BY ValueAssumption
  <2>8. \A u : BackOf(db, e, u) = IF u = w THEN p ELSE 0
    BY <2>5, <2>6, <2>7 DEF BackOf, Now
  <2>9. Repaid(S, request) = S /\ Burnt(S, request) = S
        /\ \A u : PaidTo(request, u) = 0
        /\ BookedAs(request, {"deposit"}) = 0 /\ BookedAs(request, {"confirm"} \cup Payment) = 0
    BY <1>3, NobodyPaid
  <2>10. /\ Repaid(S, next) = S \cup {e} /\ Burnt(S, next) = S
         /\ \A u : PaidTo(next, u) = 0
         /\ BookedAs(next, {"deposit"}) = 0 /\ BookedAs(next, {"confirm"} \cup Payment) = 0
    <3>1. next.pc \notin {"book", "close", "burnLate"} \cup Ending
      BY <2>4 DEF Ending
    <3>2. next.pc \notin {"close"} \cup Ending
      BY <3>1
    <3> QED
      BY <2>4, <3>1, <3>2 DEF Repaid, Burnt, PaidTo, BookedAs
  <2>11. ASSUME NEW u \in User
         PROVE  /\ PaidTo(next, u) \in Int /\ PaidTo(request, u) \in Int
                /\ Back(db, Repaid(S, next), u) \in Int /\ Back(db, Repaid(S, request), u) \in Int
                /\ Back(db, Repaid(S, next), u) + PaidTo(next, u) =
                      Back(db, Repaid(S, request), u) + PaidTo(request, u) + (IF u = w THEN p ELSE 0)
    <3>1. PICK a \in Int : a = Back(db, S, u)
      BY BackTyped
    <3>2. PICK d \in Int : d = IF u = w THEN p ELSE 0
      BY <2>7
    <3>3. Back(db, S \cup {e}, u) = Back(db, S, u) + BackOf(db, e, u)
      BY <2>6, BackInsert
    <3>4. Back(db, S \cup {e}, u) = a + d
      BY <2>8, <3>1, <3>2, <3>3
    <3> QED
      BY <2>9, <2>10, <3>1, <3>2, <3>4
  <2>12. Asked(next)
    BY <1>2, <2>4 DEF Asked, Audited, Settlement
  <2>13. PICK account \in UserValue : account = cur[UserRow(w)]
    BY DEF BooksInv, MoneyIn
  <2>14. PICK v : v = Grow(account, p)
    OBVIOUS
  <2>15. v.balance = account.balance + p
    BY <2>14 DEF Grow, UserValue
  <2>16. Update(t, UserRow(w), v, next)
    BY <2>1, <2>2, <2>3, <2>7, <2>13, <2>14
  <2>17. PaysMore(Swept(t), job[t], next, w, p)
    BY <1>1, <1>4, <2>9, <2>10, <2>11 DEF PaysMore
  <2>18. v.balance = cur[UserRow(w)].balance + p
    BY <2>13, <2>15
  <2> QED
    BY <2>12, <2>16, <2>17, <2>18, DidPay
<1> QED
  BY <1>5, <1>6, <1>7

\* The status of an overdue escrow, and the UPDATE of bank_reserve.
LEMMA ExpireDid ==
  ASSUME IInv, IInv', BooksInv, BooksInv', AloneInv, DidInv, NEW t \in Tx,
         ExpireLate(t) \/ BurnLate(t)
  PROVE  DidInv'
<1>1. PICK request \in Job : request = job[t]
  BY DEF IInv, RequestsInv, AimedJob
<1>2. /\ Aims(request) /\ Pays(request) /\ request.pc \in {"expireLate", "burnLate"}
  BY <1>1 DEF IInv, RequestsInv, BooksInv, AimedJob, ExpireLate, BurnLate, At
<1>3. request.op \in Audited \cup {"details"} /\ request.op \in OfEscrow /\ request.pc \notin Ending
  BY <1>2 DEF Aims, Audited, Settlement, OfEscrow, Ending
<1>4. Sees(t, request) /\ MoneyIn(db) /\ Did(db, View(t), Swept(t), request) /\ Asked(request)
  BY <1>1, <1>3 DEF BooksInv, AloneInv, DidInv, Did
<1>5. PICK S \in SUBSET Escrow : S = Swept(t)
  BY SweptTyped
<1>6. PICK e \in Escrow : e = request.row
  BY <1>2 DEF Pays
<1>7. PICK p \in Int : p = Price[e]
  BY ValueAssumption
<1>8. CASE ExpireLate(t)
  <2>1. PICK next : next = [request EXCEPT !.pc = "burnLate"]
    OBVIOUS
  <2>2. PICK v : v = [cur[EscrowRow(e)] EXCEPT !.status = "expired"]
    OBVIOUS
  <2>3. Update(t, EscrowRow(e), v, next) /\ request.pc = "expireLate"
    BY <1>1, <1>6, <1>8, <2>1, <2>2 DEF ExpireLate, At
  <2>4. /\ next.pc = "burnLate" /\ next.op = request.op /\ next.row = e
        /\ next.payee = request.payee /\ next.user = request.user /\ next.amount = request.amount
    BY <1>6, <2>1 DEF Job
  <2>5. Now(e) = "locked"
    BY <1>4, <1>6, <2>3 DEF Sees
  <2>6. cur[EscrowRow(e)] \in EscrowValue /\ e \notin S
    BY <1>1, <1>3, <1>5, <2>5, Untamed, NotSwept
  <2>7. v.status = "expired"
    BY <2>2, <2>6 DEF EscrowValue
  <2>8. PICK T \in SUBSET Escrow : T = S \cup {e}
    OBVIOUS
  <2>9. Repaid(T, next) = T /\ Repaid(S, request) = T
    BY <1>6, <2>3, <2>4, <2>8 DEF Repaid, Ending
  <2>10. Burnt(T, next) = S /\ Burnt(S, request) = S
    BY <1>6, <2>3, <2>4, <2>6, <2>8 DEF Burnt, Ending
  <2>11. /\ \A u : PaidTo(next, u) = 0 /\ PaidTo(request, u) = 0
         /\ BookedAs(next, {"deposit"}) = BookedAs(request, {"deposit"})
         /\ BookedAs(next, {"confirm"} \cup Payment) = BookedAs(request, {"confirm"} \cup Payment)
    BY <2>3, <2>4 DEF PaidTo, BookedAs, Ending
  <2>12. Asked(next)
    BY <1>3, <1>4, <2>4 DEF Asked, Audited, Settlement
  <2>13. Did(db, View(t), T, next)
    BY <1>4, <1>5, <2>9, <2>10, <2>11, <2>12 DEF Did
  <2> QED
    BY <1>5, <2>3, <2>7, <2>8, <2>13, DidExpire
<1>9. CASE BurnLate(t)
  <2>1. PICK next : next = IF request.overdue = {} THEN AfterCleanup(request)
                                                  ELSE [request EXCEPT !.pc = "refundLate"]
    OBVIOUS
  <2>2. PICK bank \in ReserveValue : bank = cur[ReserveRow]
    BY DEF BooksInv, MoneyIn
  <2>3. PICK v : v = Burn(bank, p)
    OBVIOUS
  <2>4. Update(t, ReserveRow, v, next) /\ request.pc = "burnLate" /\ ReserveRow \in Row
    BY <1>1, <1>6, <1>7, <1>9, <2>1, <2>2, <2>3 DEF BurnLate, At, Row
  <2>5. PaysNobody(next) /\ Asked(next)
    <3>1. CASE request.overdue = {}
      BY <1>3, <2>1, <3>1, AfterwardsAsked
    <3>2. CASE request.overdue # {}
      <4>1. next.pc = "refundLate" /\ next.op = request.op /\ next.payee = request.payee
            /\ next.user = request.user /\ next.amount = request.amount
        BY <2>1, <3>2 DEF Job
      <4> QED
        BY <1>3, <1>4, <4>1 DEF Asked, PaysNobody, Early, Audited, Settlement
    <3> QED
      BY <3>1, <3>2
  <2>6. db[EscrowRow(e)].status = "locked" /\ e \in S
    BY <1>4, <1>5, <1>6, <2>4 DEF Sees, Swept
  <2>7. PICK T \in SUBSET Escrow : T = S \ {e}
    OBVIOUS
  <2>8. Repaid(S, request) = S /\ Burnt(S, request) = T
    BY <1>6, <2>4, <2>7 DEF Repaid, Burnt, Ending
  <2>9. /\ Repaid(S, next) = S /\ Burnt(S, next) = S /\ \A u : PaidTo(next, u) = 0
        /\ BookedAs(next, {"deposit"}) = 0 /\ BookedAs(next, {"confirm"} \cup Payment) = 0
    BY <2>5, NobodyPaid
  <2>10. /\ \A u : PaidTo(request, u) = 0
         /\ BookedAs(request, {"deposit"}) = 0 /\ BookedAs(request, {"confirm"} \cup Payment) = 0
    BY <2>4 DEF PaidTo, BookedAs, Ending
  <2>11. WorthOf(db, S) = WorthOf(db, T) + p
    <3>1. WorthOf(db, T \cup {e}) = WorthOf(db, T) + Held(db[EscrowRow(e)], e)
      BY <2>7, BackInsert
    <3>2. T \cup {e} = S
      BY <2>6, <2>7
    <3> QED
      BY <1>7, <2>6, <3>1, <3>2 DEF Held
  <2>12. PICK a \in Int, b \in Int : a = WorthOf(db, S) /\ b = WorthOf(db, T)
    BY BackTyped
  <2>13. PICK old \in ReserveValue : old = db[ReserveRow]
    BY <1>4 DEF MoneyIn
  <2>14. bank = [reserve_balance |-> old.reserve_balance + 0, total_issued |-> old.total_issued - b,
                 total_redeemed |-> old.total_redeemed + 0]
    <3>1. View(t)[ReserveRow] = bank
      BY <2>2, <2>4, RowWritten
    <3> QED
      BY <1>4, <1>5, <2>8, <2>10, <2>12, <2>13, <3>1 DEF Did
  <2>15. v = [reserve_balance |-> old.reserve_balance + 0, total_issued |-> old.total_issued - a,
              total_redeemed |-> old.total_redeemed + 0]
    BY <1>7, <2>3, <2>11, <2>12, <2>14 DEF Burn, ReserveValue
  <2>16. v = [reserve_balance |-> db[ReserveRow].reserve_balance + BookedAs(next, {"deposit"}),
              total_issued |-> db[ReserveRow].total_issued - WorthOf(db, Burnt(S, next)),
              total_redeemed |-> db[ReserveRow].total_redeemed + BookedAs(next, {"confirm"} \cup Payment)]
    BY <2>9, <2>12, <2>13, <2>15
  <2> QED
    BY <1>1, <1>5, <2>4, <2>5, <2>8, <2>9, <2>10, <2>16, DidBook
<1> QED
  BY <1>8, <1>9

-----------------------------------------------------------------------------
(* createEscrow and lockToken                                              *)

LEMMA LockDid ==
  ASSUME IInv, IInv', BooksInv, BooksInv', AloneInv, DidInv, NEW t \in Tx, ~Throw(t),
         CreateInsert(t) \/ LockSelect(t) \/ SelectCoin(t) \/ Spend(t) \/ MarkLocked(t)
  PROVE  DidInv'
<1>1. PICK request \in Job : request = job[t]
  BY DEF IInv, RequestsInv, AimedJob
<1>2. /\ Aims(request) /\ Asked(request)
      /\ request.op \in OfEscrow => Sees(t, request)
      /\ MoneyIn(db) /\ Did(db, View(t), Swept(t), request)
  BY <1>1 DEF IInv, RequestsInv, BooksInv, AimedJob, AloneInv, DidInv, Did
<1>3. PICK S \in SUBSET Escrow : S = Swept(t)
  BY SweptTyped
\* Going on, it has still paid nobody.
<1>4. ASSUME NEW label, NEW next, next = [request EXCEPT !.pc = label],
             request.pc \in Early \ {"idle"},
             label \in Early \ {"idle"} \/ (label = "assert" /\ request.op \in {"create", "lock"})
      PROVE  PaysNobody(request) /\ PaysNobody(next) /\ Asked(next)
  <2>1. /\ next.pc = label /\ next.op = request.op /\ next.payee = request.payee
        /\ next.user = request.user /\ next.amount = request.amount
    BY <1>4 DEF Job
  <2>2. PaysNobody(request)
    BY <1>4 DEF PaysNobody
  <2>3. PaysNobody(next)
    BY <1>4, <2>1 DEF PaysNobody, Late, Ending
  <2>4. Asked(next)
    BY <1>2, <1>4, <2>1 DEF Asked
  <2> QED
    BY <2>2, <2>3, <2>4
<1>5. CASE CreateInsert(t)
  <2>1. PICK next : next = [request EXCEPT !.pc = "assert"]
    OBVIOUS
  <2>2. PICK v : v = [Absent EXCEPT !.status = "created"]
    OBVIOUS
  <2>3. request.pc = "insert" /\ Update(t, EscrowRow(request.esc), v, next)
    BY <1>1, <1>5, <2>1, <2>2 DEF CreateInsert, At
  <2>4. request.op = "create" /\ request.esc \in Escrow
    BY <1>2, <2>3 DEF Aims
  <2>5. PaysNobody(request) /\ PaysNobody(next) /\ Asked(next)
    BY <1>4, <2>1, <2>3, <2>4 DEF Early
  <2>6. Did(db, View(t), Swept(t), next)
    BY <1>2, <1>3, <2>5, LevelDid
  <2>7. v.status # "expired"
    BY <2>2 DEF Absent
  <2>8. request.esc \notin Swept(t)
    <3>1. lock[EscrowRow(request.esc)] = NoTx
      BY <1>1, <2>3, <2>4 DEF IInv, RequestsInv, RequestInv, Vacant
    <3> QED
      BY <3>1, NoneAssumption DEF Swept
  <2> QED
    BY <2>3, <2>4, <2>6, <2>7, <2>8, DidEscrow
<1>6. CASE LockSelect(t)
  <2>1. PICK next : next = [request EXCEPT !.pc = "coin"]
    OBVIOUS
  <2>2. request.pc = "select" /\ Select(t, next)
    BY <1>1, <1>6, <2>1 DEF LockSelect, At
  <2>3. PaysNobody(request) /\ PaysNobody(next) /\ Asked(next)
    BY <1>4, <2>1, <2>2 DEF Early
  <2> QED
    BY <1>1, <2>2, <2>3, LevelRead DEF Select
<1>7. CASE SelectCoin(t)
  <2>1. PICK next : next = [request EXCEPT !.pc = "spend"]
    OBVIOUS
  <2>2. request.pc = "coin" /\ Select(t, next)
    BY <1>1, <1>7, <2>1 DEF SelectCoin, At
  <2>3. PaysNobody(request) /\ PaysNobody(next) /\ Asked(next)
    BY <1>4, <2>1, <2>2 DEF Early
  <2> QED
    BY <1>1, <2>2, <2>3, LevelRead DEF Select
<1>8. CASE Spend(t)
  <2>1. PICK label : label = IF request.op = "lock" THEN "mark" ELSE "credit"
    OBVIOUS
  <2>2. PICK next : next = [request EXCEPT !.pc = label]
    OBVIOUS
  <2>3. PICK v : v = DepositedTo(request)
    OBVIOUS
  <2>4. request.pc = "spend" /\ Update(t, CoinRow(request.coin), v, next)
    BY <1>1, <1>8, <2>1, <2>2, <2>3 DEF Spend, At
  <2>5. request.coin \in Coin
    BY <1>2, <2>4 DEF Aims
  <2>6. PaysNobody(request) /\ PaysNobody(next) /\ Asked(next)
    BY <1>4, <2>1, <2>2, <2>4 DEF Early
  <2> QED
    BY <1>1, <2>4, <2>5, <2>6, LevelCoin
<1>9. CASE MarkLocked(t)
  <2>1. PICK next : next = [request EXCEPT !.pc = "assert"]
    OBVIOUS
  <2>2. PICK v : v = [status |-> "locked", customer |-> request.user, serial |-> request.coin]
    OBVIOUS
  <2>3. request.pc = "mark" /\ Update(t, EscrowRow(request.esc), v, next)
    BY <1>1, <1>9, <2>1, <2>2 DEF MarkLocked, At
  <2>4. request.op = "lock" /\ request.esc \in Escrow /\ request.op \in OfEscrow
    BY <1>2, <2>3 DEF Aims, OfEscrow, Audited
  <2>5. PaysNobody(request) /\ PaysNobody(next) /\ Asked(next)
    BY <1>4, <2>1, <2>3, <2>4 DEF Early
  <2>6. Did(db, View(t), Swept(t), next)
    BY <1>2, <1>3, <2>5, LevelDid
  <2>7. request.esc \notin Swept(t)
    BY <1>2, <2>3, <2>4, NotSwept DEF Sees
  <2>8. v.status # "expired"
    BY <2>2
  <2> QED
    BY <2>3, <2>4, <2>6, <2>7, <2>8, DidEscrow
<1> QED
  BY <1>5, <1>6, <1>7, <1>8, <1>9

-----------------------------------------------------------------------------
(* Settlements, payments and deposits                                      *)

\* A request stays about somebody.
LEMMA AskedOn ==
  ASSUME NEW request \in Job, Asked(request), request.pc # "idle", NEW label,
         NEW next, next = [request EXCEPT !.pc = label]
  PROVE  Asked(next)
<1>1. /\ next.op = request.op /\ next.user = request.user /\ next.payee = request.payee
      /\ next.amount = request.amount
  BY Relabelled
<1> QED
  BY <1>1 DEF Asked

\* The SELECT of a settlement.
LEMMA SettleDid ==
  ASSUME IInv, IInv', BooksInv, BooksInv', AloneInv, DidInv, NEW t \in Tx, ~Throw(t),
         ConfirmSelect(t) \/ CancelSelect(t)
  PROVE  DidInv'
<1>1. PICK request \in Job : request = job[t]
  BY DEF IInv, RequestsInv, AimedJob
<1>2. /\ request.pc = "select" /\ request.op \in Settlement /\ request.op \in OfEscrow
      /\ request.op # "none" /\ request.op # "deposit" /\ request.op \notin Payment
  BY <1>1 DEF ConfirmSelect, CancelSelect, At, Settlement, OfEscrow, Audited, Payment
<1>3. PaysNobody(request) /\ request.payee = NoUser
  BY <1>1, <1>2 DEF PaysNobody, Early, AloneInv, Sees
<1>4. ASSUME NEW p, Select(t, [request EXCEPT !.pc = "credit", !.payee = p]) PROVE DidInv'
  <2>1. PICK next : next = [request EXCEPT !.pc = "credit", !.payee = p]
    OBVIOUS
  <2>2. next.pc = "credit" /\ next.op = request.op
    BY <2>1 DEF Job
  <2>3. PaysNobody(next) /\ Asked(next)
    BY <1>2, <2>2 DEF PaysNobody, Early, Asked
  <2> QED
    BY <1>1, <1>3, <1>4, <2>1, <2>3, LevelRead DEF Select
<1>5. CASE ConfirmSelect(t)
  BY <1>1, <1>4, <1>5 DEF ConfirmSelect
<1>6. CASE CancelSelect(t)
  <2>1. CASE Select(t, [request EXCEPT !.pc = "close"])
    <3>1. PICK next : next = [request EXCEPT !.pc = "close"]
      OBVIOUS
    <3>2. next.pc = "close" /\ next.op = request.op /\ next.payee = NoUser /\ request.op = "cancel"
      BY <1>1, <1>3, <1>6, <3>1, Relabelled DEF CancelSelect
    <3>3. PaysNobody(next) /\ Asked(next)
      BY <1>2, <3>2 DEF PaysNobody, Late, Asked
    <3> QED
      BY <1>1, <1>3, <2>1, <3>1, <3>3, LevelRead DEF Select
  <2> QED
    BY <1>1, <1>4, <1>6, <2>1 DEF CancelSelect
<1> QED
  BY <1>5, <1>6

\* What a cancel finds of the escrow it gives back.
LEMMA CancelFinds ==
  ASSUME IInv, AloneInv, NEW t \in Tx, NEW request \in Job, request = job[t],
         request.op = "cancel", request.pc \in {"credit", "book"}
  PROVE  /\ request.esc \in Escrow \ Swept(t) /\ Refunds(request) /\ Moved(request) = Price[request.esc]
         /\ Held(db[EscrowRow(request.esc)], request.esc) = Price[request.esc]
         /\ \A u : BackOf(db, request.esc, u) = IF u = request.payee THEN Price[request.esc] ELSE 0
<1>1. Aims(request) /\ Sees(t, request) /\ request.op \in OfEscrow /\ request.op \in Settlement
      /\ request.pc \notin Ending
  BY DEF IInv, RequestsInv, AimedJob, AloneInv, OfEscrow, Audited, Settlement, Ending
<1>2. PICK e \in Escrow : e = request.esc
  BY <1>1 DEF Aims, Audited
<1>3. request.payee # NoUser /\ Now(e) = "locked" /\ request.payee = cur[EscrowRow(e)].customer
  BY <1>1, <1>2 DEF Sees, Beneficiary
<1>4. cur[EscrowRow(e)] = db[EscrowRow(e)] /\ e \notin Swept(t)
  BY <1>1, <1>3, Untamed, NotSwept
<1>5. Held(db[EscrowRow(e)], e) = Price[e]
  BY <1>3, <1>4 DEF Held, Now
<1>6. \A u : BackOf(db, e, u) = IF u = request.payee THEN Price[e] ELSE 0
  BY <1>3, <1>4 DEF BackOf, Now
<1>7. Refunds(request) /\ Moved(request) = Price[e]
  BY <1>1, <1>2, <1>3 DEF Refunds, Moved
<1> QED
  BY <1>2, <1>4, <1>5, <1>6, <1>7

LEMMA CreditDid ==
  ASSUME IInv, IInv', BooksInv, BooksInv', AloneInv, DidInv, NEW t \in Tx, Credit(t)
  PROVE  DidInv'
<1>1. PICK request \in Job : request = job[t]
  BY DEF IInv, RequestsInv, AimedJob
<1>2. /\ Aims(request) /\ Pays(request) /\ request \in AimedJob
      /\ Did(db, View(t), Swept(t), request) /\ Asked(request) /\ request.pc = "credit"
  BY <1>1 DEF IInv, RequestsInv, BooksInv, AimedJob, DidInv, Did, Credit, At
<1>3. PICK S \in SUBSET Escrow : S = Swept(t)
  BY SweptTyped
<1>4. PICK w \in User : w = request.payee
  BY <1>2 DEF Pays
<1>5. PICK m \in Nat : m = Moved(request)
  BY <1>2, DueTyped
<1>6. PICK next : next = [request EXCEPT !.pc = "book"]
  OBVIOUS
<1>7. /\ next.pc = "book" /\ next.op = request.op /\ next.payee = w /\ next.esc = request.esc
      /\ Moved(next) = m
  BY <1>4, <1>5, <1>6, Relabelled
<1>8. PICK account \in UserValue : account = cur[UserRow(w)]
  BY DEF BooksInv, MoneyIn
<1>9. PICK v : v = Credited(account, request)
  OBVIOUS
<1>10. Update(t, UserRow(w), v, next)
  BY <1>1, <1>4, <1>6, <1>8, <1>9 DEF Credit
<1>11. v.balance = cur[UserRow(w)].balance + m
  <2>1. PICK grown : grown = Grow(account, m)
    OBVIOUS
  <2>2. grown \in UserValue /\ grown.balance = account.balance + m
    BY <2>1 DEF Grow, UserValue
  <2>3. PICK cash, income : v = [grown EXCEPT !.cash = cash, !.income = income]
    BY <1>5, <1>9, <2>1 DEF Credited
  <2> QED
    BY <1>8, <2>2, <2>3 DEF UserValue
<1>12. Asked(next)
  BY <1>2, <1>6, AskedOn
<1>13. /\ Repaid(S, request) = S /\ Burnt(S, request) = S
       /\ \A u : PaidTo(request, u) = 0
       /\ BookedAs(request, {"deposit"}) = 0 /\ BookedAs(request, {"confirm"} \cup Payment) = 0
  BY <1>2, NobodyPaid DEF PaysNobody, Early
<1>14. /\ Burnt(S, next) = S
       /\ BookedAs(next, {"deposit"}) = 0 /\ BookedAs(next, {"confirm"} \cup Payment) = 0
  BY <1>7 DEF Burnt, BookedAs, Ending
<1>15. ASSUME NEW u \in User
       PROVE  /\ PaidTo(next, u) \in Int /\ Back(db, Repaid(S, next), u) \in Int
              /\ Back(db, S, u) \in Int
              /\ Back(db, Repaid(S, next), u) + PaidTo(next, u) =
                    Back(db, S, u) + (IF u = w THEN m ELSE 0)
  <2>1. PICK a \in Int : a = Back(db, S, u)
    BY BackTyped
  <2>2. PICK d \in Int : d = IF u = w THEN m ELSE 0
    OBVIOUS
  <2>3. CASE request.op = "cancel"
    <3>1. PICK e \in Escrow : e = request.esc
      BY <1>1, <1>2, <2>3, CancelFinds
    <3>2. /\ e \notin S /\ Refunds(request) /\ m = Price[e]
          /\ BackOf(db, e, u) = d
      BY <1>1, <1>2, <1>3, <1>4, <1>5, <2>2, <2>3, <3>1, CancelFinds
    <3>3. Repaid(S, next) = S \cup {e}
      BY <1>4, <1>7, <2>3, <3>1, <3>2 DEF Repaid, Refunds
    <3>4. Back(db, S \cup {e}, u) = Back(db, S, u) + BackOf(db, e, u)
      BY <3>2, BackInsert
    <3>5. PaidTo(next, u) = 0
      BY <1>7, <2>3 DEF PaidTo, Paying, Payment
    <3> QED
      BY <2>1, <2>2, <3>2, <3>3, <3>4, <3>5
  <2>4. CASE request.op # "cancel"
    <3>1. request.op \in Paying
      BY <1>2, <2>4 DEF Pays, Paying, Settlement
    <3>2. Repaid(S, next) = S
      BY <1>7, <2>4 DEF Repaid, Refunds
    <3>3. PaidTo(next, u) = d
      BY <1>7, <2>2, <3>1 DEF PaidTo
    <3> QED
      BY <2>1, <2>2, <3>2, <3>3
  <2> QED
    BY <2>3, <2>4
<1>16. ASSUME NEW u \in User
       PROVE  /\ PaidTo(next, u) \in Int /\ PaidTo(request, u) \in Int
              /\ Back(db, Repaid(S, next), u) \in Int /\ Back(db, Repaid(S, request), u) \in Int
              /\ Back(db, Repaid(S, next), u) + PaidTo(next, u) =
                    Back(db, Repaid(S, request), u) + PaidTo(request, u) + (IF u = w THEN m ELSE 0)
  <2>1. PICK a \in Int, d \in Int : a = Back(db, S, u) /\ d = IF u = w THEN m ELSE 0
    BY <1>15
  <2>2. a + d = a + 0 + d
    OBVIOUS
  <2> QED
    BY <1>13, <1>15, <2>1, <2>2
<1>17. PaysMore(Swept(t), job[t], next, w, m)
  BY <1>1, <1>3, <1>13, <1>14, <1>16 DEF PaysMore
<1> QED
  BY <1>10, <1>11, <1>12, <1>17, DidPay

LEMMA BookDid ==
  ASSUME IInv, IInv', BooksInv, BooksInv', AloneInv, DidInv, NEW t \in Tx, Book(t)
  PROVE  DidInv'
<1>1. PICK request \in Job : request = job[t]
  BY DEF IInv, RequestsInv, AimedJob
<1>2. /\ Aims(request) /\ Pays(request) /\ request \in AimedJob /\ MoneyIn(db)
      /\ Did(db, View(t), Swept(t), request) /\ Asked(request) /\ request.pc = "book"
      /\ request.op \in {"cancel", "confirm", "deposit"} \cup Payment
  BY <1>1 DEF IInv, RequestsInv, BooksInv, AimedJob, DidInv, Did, Book, At, Pays, Settlement
<1>3. PICK S \in SUBSET Escrow : S = Swept(t)
  BY SweptTyped
<1>4. PICK m \in Nat : m = Moved(request)
  BY <1>2, DueTyped
<1>5. PICK label : label = IF request.op \in Settlement THEN "close" ELSE "assert"
  OBVIOUS
<1>6. PICK next : next = [request EXCEPT !.pc = label]
  OBVIOUS
<1>7. /\ next.pc \in {"close"} \cup Ending /\ next.op = request.op /\ next.payee = request.payee
      /\ next.esc = request.esc /\ Moved(next) = m
  BY <1>4, <1>5, <1>6, Relabelled DEF Ending
<1>8. next.pc # "expireLate" /\ next.pc # "burnLate"
  BY <1>7 DEF Ending
<1>9. PICK bank \in ReserveValue : bank = cur[ReserveRow]
  BY DEF BooksInv, MoneyIn
<1>10. PICK v : v = Booked(bank, request)
  OBVIOUS
<1>11. Update(t, ReserveRow, v, next) /\ ReserveRow \in Row
  BY <1>1, <1>5, <1>6, <1>9, <1>10 DEF Book, Row
<1>12. Asked(next)
  BY <1>2, <1>6, AskedOn
<1>13. Repaid(S, next) = Repaid(S, request) /\ \A u \in User : PaidTo(next, u) = PaidTo(request, u)
  <2>1. Refunds(next) <=> Refunds(request)
    BY <1>7 DEF Refunds
  <2> QED
    BY <1>2, <1>4, <1>7, <1>8, <2>1 DEF Repaid, PaidTo
<1>14. /\ Burnt(S, request) = S
       /\ BookedAs(request, {"deposit"}) = 0 /\ BookedAs(request, {"confirm"} \cup Payment) = 0
  BY <1>2 DEF Burnt, BookedAs, Ending
<1>15. PICK old \in ReserveValue : old = db[ReserveRow]
  BY <1>2 DEF MoneyIn
<1>16. PICK x \in Int, y \in Int, b \in Int :
          x = old.reserve_balance /\ y = old.total_redeemed /\ b = old.total_issued - WorthOf(db, S)
  <2>1. WorthOf(db, S) \in Int
    BY BackTyped
  <2> QED
    BY <2>1 DEF ReserveValue
<1>17. bank = [reserve_balance |-> x, total_issued |-> b, total_redeemed |-> y]
  <2>1. View(t)[ReserveRow] = bank
    BY <1>9, <1>11, RowWritten
  <2>2. bank = [reserve_balance |-> x + 0, total_issued |-> b, total_redeemed |-> y + 0]
    BY <1>2, <1>3, <1>14, <1>15, <1>16, <2>1 DEF Did
  <2> QED
    BY <2>2
<1>18. v = [reserve_balance |-> x + BookedAs(next, {"deposit"}),
            total_issued |-> old.total_issued - WorthOf(db, Burnt(S, next)),
            total_redeemed |-> y + BookedAs(next, {"confirm"} \cup Payment)]
  <2>1. CASE request.op = "cancel"
    <3>1. PICK e \in Escrow : e = request.esc
      BY <1>1, <1>2, <2>1, CancelFinds
    <3>2. e \notin S /\ Refunds(request) /\ m = Price[e] /\ Held(db[EscrowRow(e)], e) = m
      BY <1>1, <1>2, <1>3, <1>4, <2>1, <3>1, CancelFinds
    <3>3. Burnt(S, next) = S \cup {e}
      BY <1>7, <1>8, <2>1, <3>1, <3>2 DEF Burnt, Refunds
    <3>4. WorthOf(db, S \cup {e}) = WorthOf(db, S) + m
      BY <3>2, BackInsert
    <3>5. PICK g \in Int, i \in Int : g = WorthOf(db, S) /\ i = old.total_issued
      BY BackTyped DEF ReserveValue
    <3>6. old.total_issued - WorthOf(db, Burnt(S, next)) = b - m
      BY <1>16, <3>3, <3>4, <3>5
    <3>7. BookedAs(next, {"deposit"}) = 0 /\ BookedAs(next, {"confirm"} \cup Payment) = 0
      BY <1>7, <2>1 DEF BookedAs, Payment
    <3>8. v = [bank EXCEPT !.total_issued = @ - m]
      BY <1>4, <1>10, <2>1 DEF Booked, Burn
    <3>9. v = [reserve_balance |-> x, total_issued |-> b - m, total_redeemed |-> y]
      BY <1>17, <3>8
    <3> QED
      BY <3>6, <3>7, <3>9
  <2>2. CASE request.op # "cancel"
    <3>1. Burnt(S, next) = S
      BY <1>7, <1>8, <2>2 DEF Burnt, Refunds
    <3>2. old.total_issued - WorthOf(db, Burnt(S, next)) = b
      BY <1>16, <3>1
    <3>3. CASE request.op = "deposit"
      <4>1. BookedAs(next, {"deposit"}) = m /\ BookedAs(next, {"confirm"} \cup Payment) = 0
        BY <1>7, <3>3 DEF BookedAs, Payment
      <4>2. v = [bank EXCEPT !.reserve_balance = @ + m]
        BY <1>4, <1>10, <3>3 DEF Booked
      <4>3. v = [reserve_balance |-> x + m, total_issued |-> b, total_redeemed |-> y]
        BY <1>17, <4>2
      <4> QED
        BY <3>2, <4>1, <4>3
    <3>4. CASE request.op # "deposit"
      <4>1. BookedAs(next, {"deposit"}) = 0 /\ BookedAs(next, {"confirm"} \cup Payment) = m
        BY <1>2, <1>7, <2>2, <3>4 DEF BookedAs
      <4>2. v = [bank EXCEPT !.total_redeemed = @ + m]
        BY <1>4, <1>10, <2>2, <3>4 DEF Booked
      <4>3. v = [reserve_balance |-> x, total_issued |-> b, total_redeemed |-> y + m]
        BY <1>17, <4>2
      <4> QED
        BY <3>2, <4>1, <4>3
    <3> QED
      BY <3>3, <3>4
  <2> QED
    BY <2>1, <2>2
<1>19. v = [reserve_balance |-> db[ReserveRow].reserve_balance + BookedAs(next, {"deposit"}),
            total_issued |-> db[ReserveRow].total_issued - WorthOf(db, Burnt(S, next)),
            total_redeemed |-> db[ReserveRow].total_redeemed + BookedAs(next, {"confirm"} \cup Payment)]
  BY <1>15, <1>16, <1>18
<1> QED
  BY <1>1, <1>3, <1>11, <1>12, <1>13, <1>19, DidBook

\* The last write of a settlement, and what follows the last write.
LEMMA EndDid ==
  ASSUME IInv, IInv', BooksInv, BooksInv', AloneInv, DidInv, NEW t \in Tx, ~Throw(t),
         Close(t) \/ AssertBooks(t) \/ AuditOutside(t)
  PROVE  DidInv'
<1>1. PICK request \in Job : request = job[t]
  BY DEF IInv, RequestsInv, AimedJob
<1>2. /\ Aims(request) /\ request.pc \in Late /\ Did(db, View(t), Swept(t), request)
  BY <1>1 DEF IInv, RequestsInv, AimedJob, DidInv, Late, Ending, Close, AssertBooks, AuditOutside, At
<1>3. ASSUME NEW label \in Ending, NEW next, next = [request EXCEPT !.pc = label]
      PROVE  Did(db, View(t), Swept(t), next)
  <2>1. label \in Late
    BY DEF Late
  <2>2. PICK S \in SUBSET Escrow : S = Swept(t)
    BY SweptTyped
  <2> QED
    BY <1>2, <1>3, <2>1, <2>2, LateDid
<1>4. CASE Close(t)
  <2>1. PICK next : next = [request EXCEPT !.pc = "assert"]
    OBVIOUS
  <2>2. PICK status : status = IF request.op = "confirm" THEN "committed" ELSE "cancelled"
    OBVIOUS
  <2>3. PICK v : v = [cur[EscrowRow(request.esc)] EXCEPT !.status = status]
    OBVIOUS
  <2>4. request.pc = "close" /\ Update(t, EscrowRow(request.esc), v, next)
    BY <1>1, <1>4, <2>1, <2>2, <2>3 DEF Close, At
  <2>5. request.op \in Settlement /\ request.op \in OfEscrow /\ request.esc \in Escrow
    BY <1>2, <2>4 DEF Aims, OfEscrow, Audited
  <2>6. Sees(t, request) /\ cur[EscrowRow(request.esc)] \in EscrowValue
    BY <1>1, <2>5 DEF AloneInv, IInv, TablesInv, StorageTyped
  <2>7. v.status # "expired"
    BY <2>2, <2>3, <2>6 DEF EscrowValue
  <2>8. Now(request.esc) # "expired"
    BY <2>4, <2>5, <2>6 DEF Sees
  <2>9. request.esc \notin Swept(t)
    BY <2>5, <2>8, NotSwept
  <2>10. Did(db, View(t), Swept(t), next)
    BY <1>3, <2>1 DEF Ending
  <2> QED
    BY <2>4, <2>5, <2>7, <2>9, <2>10, DidEscrow
<1>5. CASE AssertBooks(t) \/ AuditOutside(t)
  <2>1. PICK label : label \in {"audit", "commit"} /\ UNCHANGED storage
                     /\ job' = [job EXCEPT ![t] = [request EXCEPT !.pc = label]]
    <3>1. CASE AssertBooks(t)
      <4>1. PICK label : label = IF LogsOutside(request) THEN "audit" ELSE "commit"
        OBVIOUS
      <4> QED
        BY <1>1, <3>1, <4>1 DEF AssertBooks, Select
    <3>2. CASE AuditOutside(t)
      <4>1. job' = [job EXCEPT ![t] = [request EXCEPT !.pc = "commit"]] /\ UNCHANGED storage
        BY <1>1, <3>2 DEF AuditOutside
      <4> QED
        BY <4>1
    <3> QED
      BY <1>5, <3>1, <3>2
  <2>2. PICK next : next = [request EXCEPT !.pc = label]
    OBVIOUS
  <2>3. Did(db, View(t), Swept(t), next)
    BY <1>3, <2>1, <2>2 DEF Ending
  <2> QED
    BY <2>1, <2>2, <2>3, DidRead
<1> QED
  BY <1>4, <1>5

\* Nothing has been done by an idle request.
LEMMA IdleDid ==
  ASSUME NEW version, MoneyIn(version)
  PROVE  Did(version, version, {}, Idle)
<1>1. PaysNobody(Idle) /\ Asked(Idle)
  BY DEF Idle, PaysNobody, Early, Asked, Payment
<1>2. PICK bank \in ReserveValue : bank = version[ReserveRow]
  BY DEF MoneyIn
<1>3. bank = [reserve_balance |-> bank.reserve_balance, total_issued |-> bank.total_issued - 0,
              total_redeemed |-> bank.total_redeemed]
  BY DEF ReserveValue
<1>4. ASSUME NEW u \in User
      PROVE  version[UserRow(u)].balance = version[UserRow(u)].balance + Back(version, {}, u)
  <2>1. PICK account \in UserValue : account = version[UserRow(u)]
    BY DEF MoneyIn
  <2>2. account.balance = account.balance + 0
    BY DEF UserValue
  <2> QED
    BY <2>1, <2>2, BackNone
<1>5. Level(version, version, {})
  BY <1>2, <1>3, <1>4, BackNone DEF Level
<1> QED
  BY <1>1, <1>5, LevelDid

\* ROLLBACK.
LEMMA ThrowDid ==
  ASSUME IInv, IInv', BooksInv, BooksInv', DidInv, NEW t \in Tx, Throw(t)
  PROVE  DidInv'
<1>1. /\ db' = db /\ job' = [job EXCEPT ![t] = Idle]
      /\ cur' = [r \in Row |-> IF lock[r] = t THEN db[r] ELSE cur[r]]
      /\ lock' = [r \in Row |-> IF lock[r] = t THEN NoTx ELSE lock[r]]
  BY RollbackFacts DEF Throw, IInv, TablesInv
<1>2. ASSUME NEW u \in Tx \ {t} PROVE View(u)' = View(u)
  <2>1. \A r \in Row : (IF lock'[r] = u THEN cur'[r] ELSE db'[r]) = (IF lock[r] = u THEN cur[r] ELSE db[r])
    BY <1>1, NoneAssumption
  <2> QED
    BY <2>1 DEF View, Read
<1>3. ASSUME NEW u \in Tx \ {t} PROVE Swept(u)' = Swept(u)
  <2>1. \A e \in Escrow : EscrowRow(e) \in Row
    BY Rows
  <2> QED
    BY <1>1, <2>1, NoneAssumption DEF Swept, Now
<1>4. PICK after : after = View(t)'
  OBVIOUS
<1>5. after = db
  <2>1. \A r \in Row : (IF lock'[r] = t THEN cur'[r] ELSE db'[r]) = db[r]
    BY <1>1, NoneAssumption
  <2>2. db = [r \in Row |-> db[r]]
    BY DEF IInv, TablesInv, StorageTyped
  <2> QED
    BY <1>4, <2>1, <2>2 DEF View, Read
<1>6. Swept(t)' = {}
  <2>1. \A e \in Escrow : EscrowRow(e) \in Row
    BY Rows
  <2> QED
    BY <1>1, <2>1, NoneAssumption DEF Swept, Now
<1>7. Did(db, db, {}, Idle)
  BY IdleDid DEF BooksInv
<1> QED
  BY <1>1, <1>2, <1>3, <1>4, <1>5, <1>6, <1>7, DidStep

\* What a request moves is a number.
LEMMA MovedTyped ==
  ASSUME NEW request \in AimedJob, Asked(request), NEW u, NEW ops, ops \subseteq Paying
  PROVE  /\ request.op \in Paying => Moved(request) \in Nat
         /\ PaidTo(request, u) \in Int /\ BookedAs(request, ops) \in Int
<1>1. request \in Job /\ Aims(request)
  BY DEF AimedJob
<1>2. ASSUME request.op \in Paying PROVE Moved(request) \in Nat
  <2>1. CASE request.op = "confirm"
    <3>1. request.esc \in Escrow /\ Moved(request) = Price[request.esc]
      BY <1>1, <2>1 DEF Aims, Audited, Settlement, Moved
    <3> QED
      BY <3>1, ValueAssumption
  <2>2. CASE request.op \in Payment
    <3>1. request.coin \in Coin /\ Moved(request) = Worth[request.coin]
      BY <1>1, <2>2 DEF Aims, Moved, Settlement, Payment
    <3> QED
      BY <3>1, ValueAssumption
  <2>3. CASE request.op = "deposit"
    <3>1. request.amount \in Cash /\ Moved(request) = request.amount
      BY <2>3 DEF Asked, Moved, Settlement, Payment
    <3> QED
      BY <3>1, MoneyAssumption
  <2> QED
    BY <1>2, <2>1, <2>2, <2>3 DEF Paying
<1> QED
  BY <1>2 DEF PaidTo, BookedAs

\* A commit of another moves what u started from and what u sees by the same.
LEMMA DidAcross ==
  ASSUME NEW request \in AimedJob, NEW S \in SUBSET Escrow,
         NEW old, NEW before, NEW new, NEW after, Did(old, before, S, request),
         MoneyIn(old), MoneyIn(before), MoneyIn(new), MoneyIn(after),
         \A r \in Row : (after[r] = new[r] /\ before[r] = old[r]) \/ (after[r] = before[r] /\ new[r] = old[r]),
         \A e \in Repaid(S, request) \cup Burnt(S, request) : new[EscrowRow(e)] = old[EscrowRow(e)]
  PROVE  Did(new, after, S, request)
<1>1. Asked(request)
  BY DEF Did
<1>2. PICK R \in SUBSET Escrow, B \in SUBSET Escrow : R = Repaid(S, request) /\ B = Burnt(S, request)
  BY DEF Repaid, Burnt
<1>3. (\A u : Back(new, R, u) = Back(old, R, u)) /\ WorthOf(new, B) = WorthOf(old, B)
  BY <1>2, BackLocal
<1>4. ASSUME NEW u \in User
      PROVE  after[UserRow(u)].balance = new[UserRow(u)].balance + Back(new, R, u) + PaidTo(request, u)
  <2>1. PICK a \in Int, b \in Int : a = Back(old, R, u) /\ b = PaidTo(request, u)
    BY <1>1, BackTyped, MovedTyped
  <2>2. PICK o \in Int, n \in Int : o = old[UserRow(u)].balance /\ n = new[UserRow(u)].balance
    BY DEF MoneyIn, UserValue
  <2>3. before[UserRow(u)].balance = o + a + b
    BY <1>2, <2>1, <2>2 DEF Did
  <2>4. UserRow(u) \in Row
    BY UserRows
  <2>5. CASE after[UserRow(u)] = new[UserRow(u)] /\ before[UserRow(u)] = old[UserRow(u)]
    <3>1. o = o + a + b
      BY <2>2, <2>3, <2>5
    <3>2. n = n + a + b
      BY <3>1
    <3> QED
      BY <1>3, <2>1, <2>2, <2>5, <3>2
  <2>6. CASE after[UserRow(u)] = before[UserRow(u)] /\ new[UserRow(u)] = old[UserRow(u)]
    BY <1>3, <2>1, <2>2, <2>3, <2>6
  <2> QED
    BY <2>4, <2>5, <2>6
<1>5. after[ReserveRow] =
        [reserve_balance |-> new[ReserveRow].reserve_balance + BookedAs(request, {"deposit"}),
         total_issued |-> new[ReserveRow].total_issued - WorthOf(new, B),
         total_redeemed |-> new[ReserveRow].total_redeemed + BookedAs(request, {"confirm"} \cup Payment)]
  <2>1. {"deposit"} \subseteq Paying /\ {"confirm"} \cup Payment \subseteq Paying
    BY DEF Paying
  <2>2. PICK x \in Int, y \in Int, z \in Int :
           /\ x = BookedAs(request, {"deposit"}) /\ y = WorthOf(old, B)
           /\ z = BookedAs(request, {"confirm"} \cup Payment)
    BY <1>1, <2>1, BackTyped, MovedTyped
  <2>3. PICK o \in ReserveValue, n \in ReserveValue : o = old[ReserveRow] /\ n = new[ReserveRow]
    BY DEF MoneyIn
  <2>4. before[ReserveRow] = [reserve_balance |-> o.reserve_balance + x, total_issued |-> o.total_issued - y,
                              total_redeemed |-> o.total_redeemed + z]
    BY <1>2, <2>2, <2>3 DEF Did
  <2>5. ReserveRow \in Row
    BY DEF Row
  <2>6. after[ReserveRow] = [reserve_balance |-> n.reserve_balance + x, total_issued |-> n.total_issued - y,
                             total_redeemed |-> n.total_redeemed + z]
    <3>1. CASE after[ReserveRow] = new[ReserveRow] /\ before[ReserveRow] = old[ReserveRow]
      <4>1. x = 0 /\ y = 0 /\ z = 0
        <5>1. o.reserve_balance = o.reserve_balance + x /\ o.total_issued = o.total_issued - y
              /\ o.total_redeemed = o.total_redeemed + z
          BY <2>3, <2>4, <3>1
        <5> QED
          BY <5>1 DEF ReserveValue
      <4>2. n = [reserve_balance |-> n.reserve_balance + 0, total_issued |-> n.total_issued - 0,
                 total_redeemed |-> n.total_redeemed + 0]
        BY DEF ReserveValue
      <4> QED
        BY <2>3, <3>1, <4>1, <4>2
    <3>2. CASE after[ReserveRow] = before[ReserveRow] /\ new[ReserveRow] = old[ReserveRow]
      BY <2>3, <2>4, <3>2
    <3> QED
      BY <2>5, <3>1, <3>2
  <2> QED
    BY <1>3, <2>2, <2>3, <2>6
<1> QED
  BY <1>1, <1>2, <1>4, <1>5 DEF Did

\* COMMIT.
LEMMA CommitDid ==
  ASSUME IInv, IInv', BooksInv, BooksInv', AloneInv, DidInv, NEW t \in Tx, CommitTx(t)
  PROVE  DidInv'
<1>1. /\ cur' = cur /\ job' = [job EXCEPT ![t] = Idle]
      /\ db' = [r \in Row |-> IF lock[r] = t THEN cur[r] ELSE db[r]]
      /\ lock' = [r \in Row |-> IF lock[r] = t THEN NoTx ELSE lock[r]]
  BY CommitFacts DEF CommitTx, IInv, TablesInv
<1>2. MoneyIn(db) /\ MoneyIn(cur) /\ job \in [Tx -> AimedJob]
  BY DEF BooksInv, IInv, RequestsInv
<1>3. PICK new : new = db'
  OBVIOUS
<1>4. new = View(t)
  BY <1>1, <1>3 DEF View, Read
<1>5. MoneyIn(new)
  BY <1>2, <1>4, Views
<1>6. ASSUME NEW u \in Tx PROVE Did(db', View(u)', Swept(u)', job'[u])
  <2>1. PICK after : after = View(u)'
    OBVIOUS
  <2>2. \A r \in Row : after[r] = IF lock'[r] = u THEN cur'[r] ELSE new[r]
    BY <1>3, <2>1 DEF View, Read
  <2>3. MoneyIn(after)
    BY <1>1, <1>2, <1>5, <2>2, UserRows DEF MoneyIn, Row
  <2>4. \A e \in Escrow : EscrowRow(e) \in Row
    BY Rows
  <2>5. CASE u = t
    <3>1. \A r \in Row : after[r] = new[r]
      BY <1>1, <2>2, <2>5, NoneAssumption
    <3>2. after = new
      BY <2>1, <3>1, <1>3, <1>1 DEF View
    <3>3. job'[u] = Idle
      BY <1>1, <1>2, <2>5
    <3>4. Swept(u)' = {}
      BY <1>1, <2>4, <2>5, NoneAssumption DEF Swept, Now
    <3>5. Did(new, new, {}, Idle)
      BY <1>5, IdleDid
    <3> QED
      BY <1>3, <2>1, <3>2, <3>3, <3>4, <3>5
  <2>6. CASE u # t
    <3>1. PICK before : before = View(u) /\ MoneyIn(before)
      BY <1>2, Views
    <3>2. \A r \in Row : (after[r] = new[r] /\ before[r] = db[r])
                          \/ (after[r] = before[r] /\ new[r] = db[r])
      BY <1>1, <1>3, <2>2, <2>6, <3>1, NoneAssumption DEF View, Read
    <3>3. PICK request \in AimedJob : request = job[u]
      BY <1>2
    <3>4. job'[u] = request
      BY <1>1, <1>2, <2>6, <3>3
    <3>5. PICK S \in SUBSET Escrow : S = Swept(u)
      BY SweptTyped
    <3>6. Swept(u)' = S
      BY <1>1, <2>4, <2>6, <3>5, NoneAssumption DEF Swept, Now
    <3>7. \A e \in Repaid(S, request) \cup Burnt(S, request) : new[EscrowRow(e)] = db[EscrowRow(e)]
      <4>1. CASE request.op \in OfEscrow
        <5>1. \A e \in Escrow : lock[EscrowRow(e)] # t
          BY <2>6, <3>3, <4>1 DEF AloneInv, Alone
        <5>2. \A e \in Escrow : new[EscrowRow(e)] = db[EscrowRow(e)]
          BY <1>1, <1>3, <2>4, <5>1
        <5>3. Repaid(S, request) \cup Burnt(S, request) \subseteq Escrow
          BY DEF Repaid, Burnt
        <5> QED
          BY <5>2, <5>3
      <4>2. CASE request.op \notin OfEscrow
        <5>1. S = {}
          BY <3>3, <3>5, <4>2, SweptBy
        <5>2. request.pc # "expireLate" /\ ~Refunds(request)
          BY <4>2 DEF AimedJob, Aims, OfEscrow, Audited, Settlement, Refunds
        <5>3. Repaid(S, request) = {} /\ Burnt(S, request) = {}
          BY <5>1, <5>2 DEF Repaid, Burnt
        <5> QED
          BY <5>3
      <4> QED
        BY <4>1, <4>2
    <3>8. Did(db, before, S, request)
      BY <3>1, <3>3, <3>5 DEF DidInv
    <3>9. Did(new, after, S, request)
      BY <1>2, <1>5, <2>3, <3>1, <3>2, <3>7, <3>8, DidAcross
    <3> QED
      BY <1>3, <2>1, <3>4, <3>6, <3>9
  <2> QED
    BY <2>5, <2>6
<1> QED
  BY <1>6 DEF DidInv

\* A request arrives.
LEMMA BeginDid ==
  ASSUME IInv, IInv', BooksInv, BooksInv', DidInv, NEW t \in Tx, Begin(t)
  PROVE  DidInv'
<1>1. PaysNobody(job[t])
  <2>1. job[t].pc = "idle"
    BY DEF Begin, BeginCreate, BeginDetails, BeginLock, BeginSettle, BeginPay, BeginDeposit, Start, At
  <2> QED
    BY <2>1 DEF PaysNobody, Early
<1>2. ASSUME NEW request, Start(t, request),
             DOMAIN request = DOMAIN Idle, request = [x \in DOMAIN Idle |-> request[x]],
             request.pc \in {"insert", "cleanup", "coin", "credit"}, Asked(request)
      PROVE  DidInv'
  <2>1. PICK next : next = [request EXCEPT !.late = late]
    OBVIOUS
  <2>2. /\ next.pc = request.pc /\ next.op = request.op /\ next.user = request.user
        /\ next.payee = request.payee /\ next.amount = request.amount
    BY <1>2, <2>1 DEF Idle
  <2>3. PaysNobody(next) /\ Asked(next)
    BY <1>2, <2>2 DEF PaysNobody, Early, Asked
  <2>4. job' = [job EXCEPT ![t] = next] /\ UNCHANGED storage
    BY <1>2, <2>1 DEF Start
  <2> QED
    BY <1>1, <2>3, <2>4, LevelRead
<1>3. ASSUME NEW e \in Escrow, BeginCreate(t, e) PROVE DidInv'
  BY <1>2, <1>3 DEF BeginCreate, Idle, Asked, Payment
<1>4. ASSUME NEW e \in Escrow, BeginDetails(t, e) PROVE DidInv'
  BY <1>2, <1>4 DEF BeginDetails, Idle, Asked, Payment
<1>5. ASSUME NEW e \in Escrow, NEW u \in User, NEW c \in Coin, BeginLock(t, u, e, c) PROVE DidInv'
  BY <1>2, <1>5 DEF BeginLock, Idle, Asked, Payment
<1>6. ASSUME NEW e \in Escrow, NEW u \in User, NEW op \in Settlement, BeginSettle(t, op, u, e)
      PROVE  DidInv'
  BY <1>2, <1>6 DEF BeginSettle, Idle, Asked, Settlement, Payment
<1>7. ASSUME NEW u \in User, NEW c \in Coin, NEW op \in Payment, BeginPay(t, op, u, c) PROVE DidInv'
  BY <1>2, <1>7 DEF BeginPay, Idle, Asked, Payment
<1>8. ASSUME NEW u \in User, NEW amount \in Cash, BeginDeposit(t, u, amount) PROVE DidInv'
  BY <1>2, <1>8 DEF BeginDeposit, Idle, Asked, Payment
<1> QED
  BY <1>3, <1>4, <1>5, <1>6, <1>7, <1>8 DEF Begin

\* With nothing under way, nothing is done yet.
LEMMA NothingDid ==
  ASSUME MoneyIn(db), cur = db, lock = [r \in Row |-> NoTx], job = [t \in Tx |-> Idle],
         db = [r \in Row |-> db[r]]
  PROVE  DidInv
<1> SUFFICES ASSUME NEW t \in Tx PROVE Did(db, View(t), Swept(t), job[t])
  BY DEF DidInv
<1>1. \A r \in Row : (IF lock[r] = t THEN cur[r] ELSE db[r]) = db[r]
  OBVIOUS
<1>2. View(t) = db
  BY <1>1 DEF View, Read
<1>3. Swept(t) = {}
  <2>1. \A e \in Escrow : lock[EscrowRow(e)] = NoTx
    BY Rows
  <2> QED
    BY <2>1, NoneAssumption DEF Swept
<1> QED
  BY <1>2, <1>3, IdleDid

LEMMA InitDid == DbInit /\ BooksInv => DidInv
<1> SUFFICES ASSUME DbInit, BooksInv PROVE DidInv
  OBVIOUS
<1>1. cur = db /\ lock = [r \in Row |-> NoTx] /\ job = [t \in Tx |-> Idle] /\ db = [r \in Row |-> db[r]]
  BY DEF DbInit
<1> QED
  BY <1>1, NothingDid DEF BooksInv

LEMMA CrashDid ==
  ASSUME IInv, IInv', BooksInv, BooksInv', Crash
  PROVE  DidInv'
<1>1. /\ db' = db /\ cur' = db /\ lock' = [r \in Row |-> NoTx] /\ job' = [t \in Tx |-> Idle]
  BY DEF Crash, RollbackAll
<1>2. MoneyIn(db) /\ db = [r \in Row |-> db[r]]
  BY DEF BooksInv, IInv, TablesInv, StorageTyped
<1>3. ASSUME NEW t \in Tx PROVE Did(db', View(t)', Swept(t)', job'[t])
  <2>1. \A r \in Row : (IF lock'[r] = t THEN cur'[r] ELSE db'[r]) = db[r]
    BY <1>1
  <2>2. View(t)' = db
    BY <1>2, <2>1 DEF View, Read
  <2>3. Swept(t)' = {}
    <3>1. \A e \in Escrow : lock'[EscrowRow(e)] = NoTx
      BY <1>1, Rows
    <3> QED
      BY <3>1, NoneAssumption DEF Swept
  <2>4. job'[t] = Idle
    BY <1>1
  <2> QED
    BY <1>1, <1>2, <2>2, <2>3, <2>4, IdleDid
<1> QED
  BY <1>3 DEF DidInv

LEMMA DidStays ==
  ASSUME DidInv, UNCHANGED <<storage, job>>
  PROVE  DidInv'
<1>1. \A t \in Tx : View(t)' = View(t) /\ Swept(t)' = Swept(t)
  BY DEF storage, View, Read, Swept, Now
<1> QED
  BY <1>1 DEF DidInv, storage

LEMMA NextDid ==
    IInv /\ IInv' /\ BooksInv /\ BooksInv' /\ AloneInv /\ DidInv /\ [Next]_vars => DidInv'
<1> SUFFICES ASSUME IInv, IInv', BooksInv, BooksInv', AloneInv, DidInv, [Next]_vars
             PROVE  DidInv'
  OBVIOUS
<1>1. ASSUME NEW t \in Tx, Statement(t) PROVE DidInv'
  <2>1. CASE Throw(t)
    BY <2>1, ThrowDid
  <2>2. CASE ~Throw(t)
    BY <1>1, <2>2, SweepDid, ExpireDid, LockDid, SettleDid, CreditDid, BookDid, EndDid, CommitDid
       DEF Statement, PoolTimeout, DeadlockVictim
  <2> QED
    BY <2>1, <2>2
<1>2. ASSUME NEW t \in Tx, Begin(t) PROVE DidInv'
  BY <1>2, BeginDid
<1>3. CASE UNCHANGED vars \/ \E e \in Escrow : TimePasses(e)
  BY <1>3, DidStays DEF vars, storage, TimePasses
<1>4. CASE Crash
  BY <1>4, CrashDid
<1> QED
  BY <1>1, <1>2, <1>3, <1>4 DEF Next, Step

LEMMA DidInvariance == ASSUME Patient PROVE Spec => [](IInv /\ BooksInv /\ AloneInv /\ DidInv)
  BY InitDid, NextDid, InitBooks, BooksInvariance, AloneInvariance, PTL DEF Spec

-----------------------------------------------------------------------------
(* The ledger's words                                                      *)

\* The ledger sums as the tables do.
LEMMA SameSum == ASSUME NEW f PROVE Ledger!SumFunction(f) = SumFunction(f)
<1>1. Ledger!SumFunction(f) = SumOver(f, DOMAIN f)
  BY DEF Ledger!SumFunction, Ledger!SumFunctionOnSet, Ledger!FoldFunctionOnSet,
         Ledger!MapThenFoldSet, SumOver, AddsUp
<1> QED
  BY <1>1, SumIs

LEMMA SameParams ==
    /\ Ledger!Absent = Absent /\ Ledger!Open = Open
    /\ \A e \in Escrow : Ledger!OpenNow(e) <=> db[EscrowRow(e)].status \in Open
    /\ \A S \in SUBSET Escrow : /\ \A u : Ledger!HeldFor(S, u) = Back(db, S, u)
                                /\ Ledger!Held(S) = WorthOf(db, S)
<1>1. Ledger!Absent = Absent /\ Ledger!Open = Open
  BY DEF Ledger!Absent, Absent, Ledger!Open, Open
<1>2. \A e \in Escrow : Ledger!OpenNow(e) <=> db[EscrowRow(e)].status \in Open
  BY <1>1 DEF Ledger!OpenNow
<1>3. ASSUME NEW S \in SUBSET Escrow
      PROVE  /\ \A u : Ledger!HeldFor(S, u) = Back(db, S, u)
             /\ Ledger!Held(S) = WorthOf(db, S)
  <2>1. ASSUME NEW u PROVE Ledger!HeldFor(S, u) = Back(db, S, u)
    <3> DEFINE f == [e \in S |-> IF db[EscrowRow(e)].status = "locked" /\ db[EscrowRow(e)].customer = u
                                   THEN Price[e] ELSE 0]
               g == [e \in S |-> BackOf(db, e, u)]
    <3>1. f = g
      BY DEF BackOf
    <3>2. Ledger!HeldFor(S, u) = Ledger!SumFunction(f)
      BY DEF Ledger!HeldFor
    <3> HIDE DEF f
    <3> QED
      BY <3>1, <3>2, SameSum DEF Back
  <2>2. Ledger!Held(S) = WorthOf(db, S)
    <3> DEFINE f == [e \in S |-> IF db[EscrowRow(e)].status = "locked" THEN Price[e] ELSE 0]
               g == [e \in S |-> Held(db[EscrowRow(e)], e)]
    <3>1. f = g
      BY DEF Held
    <3>2. Ledger!Held(S) = Ledger!SumFunction(f)
      BY DEF Ledger!Held
    <3> HIDE DEF f
    <3> QED
      BY <3>1, <3>2, SameSum DEF WorthOf
  <2> QED
    BY <2>1, <2>2
<1> QED
  BY <1>1, <1>2, <1>3

\* The opening accounts are the ledger's.
LEMMA InitRefines == DbInit => Ledger!Init
<1> SUFFICES ASSUME DbInit PROVE Ledger!Init
  OBVIOUS
<1>1. /\ \A e \in Escrow : EscrowRow(e) \in Row /\ EscrowRow(e)[1] = "escrow"
      /\ \A u \in User : UserRow(u) \in Row /\ UserRow(u)[1] = "user"
      /\ \A c \in Coin : CoinRow(c) \in Row /\ CoinRow(c)[1] = "coin"
      /\ ReserveRow \in Row /\ ReserveRow[1] = "reserve"
  BY Rows, UserRows DEF EscrowRow, UserRow, CoinRow, ReserveRow, Row
<1>2. /\ \A e \in Escrow : db[EscrowRow(e)] = Absent
      /\ \A u \in User : db[UserRow(u)].balance = Opening
      /\ \A c \in Coin : db[CoinRow(c)] = NoUser
      /\ db[ReserveRow] = [reserve_balance |-> SumFunction([u \in User |-> Opening]) + SumFunction(Worth),
                           total_issued |-> SumFunction(Worth), total_redeemed |-> 0]
  BY <1>1 DEF DbInit
<1>3. [u \in User |-> db[UserRow(u)].balance] = [u \in User |-> Opening]
  BY <1>2
<1>4. Ledger!SumFunction([u \in User |-> Opening]) = SumFunction([u \in User |-> Opening])
      /\ Ledger!SumFunction(Worth) = SumFunction(Worth)
  BY SameSum
<1> QED
  BY <1>2, <1>3, <1>4, SameParams DEF Ledger!Init

\* What the ledger's tables are once the escrows of S have expired.
After(S) ==
    /\ Ledger!BalanceAfter(S) = [u \in User |-> db[UserRow(u)].balance + Back(db, S, u)]
    /\ Ledger!BankAfter(S) =
          [reserve_balance |-> db[ReserveRow].reserve_balance,
           total_issued |-> db[ReserveRow].total_issued - WorthOf(db, S),
           total_redeemed |-> db[ReserveRow].total_redeemed]
    /\ Ledger!EscrowAfter(S) =
          [e \in Escrow |-> IF e \in S THEN [db[EscrowRow(e)] EXCEPT !.status = "expired"]
                                       ELSE db[EscrowRow(e)]]

LEMMA LedgerAfter == ASSUME MoneyIn(db), NEW S \in SUBSET Escrow PROVE After(S)
<1>1. Ledger!BalanceAfter(S) = [u \in User |-> db[UserRow(u)].balance + Back(db, S, u)]
  BY SameParams DEF Ledger!BalanceAfter
<1>2. PICK bank \in ReserveValue : bank = db[ReserveRow]
  BY DEF MoneyIn
<1>3. Ledger!BankAfter(S) = [bank EXCEPT !.total_issued = @ - WorthOf(db, S)]
  BY <1>2, SameParams DEF Ledger!BankAfter
<1>4. [bank EXCEPT !.total_issued = @ - WorthOf(db, S)] =
          [reserve_balance |-> bank.reserve_balance, total_issued |-> bank.total_issued - WorthOf(db, S),
           total_redeemed |-> bank.total_redeemed]
  BY DEF ReserveValue
<1>5. Ledger!EscrowAfter(S) =
          [e \in Escrow |-> IF e \in S THEN [db[EscrowRow(e)] EXCEPT !.status = "expired"]
                                       ELSE db[EscrowRow(e)]]
  BY DEF Ledger!EscrowAfter
<1> QED
  BY <1>1, <1>2, <1>3, <1>4, <1>5 DEF After

-----------------------------------------------------------------------------
(* What a COMMIT publishes                                                 *)

\* new is what t publishes: of the tokens, of the escrows, of the money.
LEMMA Published ==
  ASSUME IInv, BooksInv, AloneInv, DidInv, NEW t \in Tx, CommitTx(t),
         NEW request, request = job[t], NEW new, new = db'
  PROVE  /\ request \in AimedJob /\ request.pc = "commit" /\ Asked(request) /\ request.op # "none"
         /\ \A e \in Escrow : /\ new[EscrowRow(e)] =
                                    IF lock[EscrowRow(e)] = t THEN cur[EscrowRow(e)] ELSE db[EscrowRow(e)]
                              /\ cur[EscrowRow(e)] \in EscrowValue /\ db[EscrowRow(e)] \in EscrowValue
         /\ \A c \in Coin : new[CoinRow(c)] = IF c = request.coin THEN DepositedTo(request) ELSE db[CoinRow(c)]
         /\ request.coin \in Coin => db[CoinRow(request.coin)] = NoUser
         /\ Did(db, new, Swept(t), request)
<1>1. /\ request.pc = "commit" /\ db' = [r \in Row |-> IF lock[r] = t THEN cur[r] ELSE db[r]]
  BY CommitFacts DEF CommitTx, At, IInv, TablesInv
<1>2. request \in AimedJob
  BY DEF IInv, RequestsInv
<1>3. new = View(t)
  BY <1>1 DEF View, Read
<1>4. Did(db, new, Swept(t), request) /\ Asked(request)
  BY <1>3 DEF DidInv, Did
<1>5. request.op # "none"
  BY <1>1, <1>4 DEF Asked
<1>6. \A e \in Escrow : /\ new[EscrowRow(e)] =
                              IF lock[EscrowRow(e)] = t THEN cur[EscrowRow(e)] ELSE db[EscrowRow(e)]
                        /\ cur[EscrowRow(e)] \in EscrowValue /\ db[EscrowRow(e)] \in EscrowValue
  BY <1>1, Rows DEF IInv, TablesInv, StorageTyped
<1>7. ASSUME NEW c \in Coin
      PROVE  /\ new[CoinRow(c)] = IF c = request.coin THEN DepositedTo(request) ELSE db[CoinRow(c)]
             /\ c = request.coin => db[CoinRow(c)] = NoUser
  <2>1. CoinInv(c) /\ CoinRow(c) \in Row
    BY Rows DEF IInv, TablesInv
  <2>2. Holds(request, c) <=> c = request.coin
    BY <1>1 DEF Holds, Holding
  <2>3. lock[CoinRow(c)] = t <=> c = request.coin
    BY <2>1, <2>2 DEF CoinInv
  <2>4. c = request.coin => db[CoinRow(c)] = NoUser /\ cur[CoinRow(c)] = DepositedTo(request)
    BY <2>1, <2>2 DEF CoinInv
  <2> QED
    BY <1>1, <2>1, <2>3, <2>4
<1> QED
  BY <1>1, <1>2, <1>4, <1>5, <1>6, <1>7

\* A request about escrows has expired those of S, all open, and written its own.
LEMMA PublishedEscrows ==
  ASSUME IInv, BooksInv, AloneInv, DidInv, NEW t \in Tx, CommitTx(t),
         NEW request, request = job[t], NEW new, new = db', request.op \in OfEscrow
  PROVE  /\ \A e \in Swept(t) : /\ db[EscrowRow(e)].status \in Open
                                /\ new[EscrowRow(e)] = [db[EscrowRow(e)] EXCEPT !.status = "expired"]
         /\ \A e \in Escrow : e \notin Swept(t) /\ (request.op = "details" \/ e # request.esc) =>
                                  new[EscrowRow(e)] = db[EscrowRow(e)]
         /\ request.op = "create" => Swept(t) = {}
         /\ request.op # "details" =>
               /\ request.esc \in Escrow /\ request.esc \notin Swept(t) /\ Effect(request)
               /\ new[EscrowRow(request.esc)] = cur[EscrowRow(request.esc)]
<1>1. /\ request \in AimedJob /\ request.pc = "commit"
      /\ \A e \in Escrow : /\ new[EscrowRow(e)] =
                                 IF lock[EscrowRow(e)] = t THEN cur[EscrowRow(e)] ELSE db[EscrowRow(e)]
                           /\ cur[EscrowRow(e)] \in EscrowValue /\ db[EscrowRow(e)] \in EscrowValue
  BY Published
<1>2. Works(t, request) /\ request.pc \in Ending
  BY <1>1 DEF AloneInv, Ending
<1>3. ASSUME request.op # "details"
      PROVE  /\ request.esc \in Escrow /\ request.esc \notin Swept(t) /\ Effect(request)
             /\ new[EscrowRow(request.esc)] = cur[EscrowRow(request.esc)]
  <2>1. request.esc \in Escrow
    BY <1>1, <1>3 DEF AimedJob, Aims, OfEscrow
  <2>2. lock[EscrowRow(request.esc)] = t /\ Effect(request)
    BY <1>2, <1>3 DEF Works
  <2>3. cur[EscrowRow(request.esc)].status # "expired"
    BY <1>1, <2>1, <2>2 DEF Effect, Absent, EscrowValue
  <2> QED
    BY <1>1, <2>1, <2>2, <2>3, NotSwept DEF Now
<1>4. ASSUME NEW e \in Swept(t)
      PROVE  /\ db[EscrowRow(e)].status \in Open /\ request.op # "create"
             /\ new[EscrowRow(e)] = [db[EscrowRow(e)] EXCEPT !.status = "expired"]
  <2>1. e \in Escrow /\ lock[EscrowRow(e)] = t
    BY DEF Swept
  <2>2. request.op # "create" /\ Expired(e)
    BY <1>2, <1>3, <2>1 DEF Works
  <2> QED
    BY <1>1, <2>1, <2>2 DEF Expired
<1>5. ASSUME NEW e \in Escrow, e \notin Swept(t), request.op = "details" \/ e # request.esc
      PROVE  new[EscrowRow(e)] = db[EscrowRow(e)]
  <2>1. lock[EscrowRow(e)] # t
    <3>1. SUFFICES ASSUME lock[EscrowRow(e)] = t PROVE FALSE
      OBVIOUS
    <3>2. Expired(e)
      BY <1>2, <1>5, <3>1 DEF Works
    <3>3. cur[EscrowRow(e)].status = "expired"
      BY <1>1, <3>2 DEF Expired, EscrowValue
    <3> QED
      BY <1>5, <3>1, <3>3 DEF Swept, Now
  <2> QED
    BY <1>1, <2>1
<1> QED
  BY <1>3, <1>4, <1>5

-----------------------------------------------------------------------------
(* Every COMMIT is a step of the ledger                                    *)

\* Where only escrows have been given back, balances and bank_reserve end as the ledger says.
LEMMA LevelAfter ==
  ASSUME NEW S \in SUBSET Escrow, After(S), NEW new, new = db', Level(db, new, S)
  PROVE  /\ [u \in User |-> db'[UserRow(u)].balance] = Ledger!BalanceAfter(S)
         /\ db'[ReserveRow] = Ledger!BankAfter(S)
  BY DEF After, Level

\* details, and a request that only expires.
LEMMA DetailsRefines ==
  ASSUME IInv, BooksInv, AloneInv, DidInv, NEW t \in Tx, CommitTx(t), job[t].op = "details"
  PROVE  Ledger!Next
<1>1. PICK request, new : request = job[t] /\ new = db'
  OBVIOUS
<1>2. PICK S \in SUBSET Escrow : S = Swept(t)
  BY SweptTyped
<1>3. /\ request \in AimedJob /\ request.op = "details" /\ request.op \in OfEscrow /\ request.pc = "commit"
      /\ Did(db, new, S, request) /\ MoneyIn(db)
      /\ \A c \in Coin : new[CoinRow(c)] = IF c = request.coin THEN DepositedTo(request) ELSE db[CoinRow(c)]
  BY <1>1, <1>2, Published DEF OfEscrow, BooksInv
<1>4. PaysNobody(request)
  BY <1>3 DEF PaysNobody, Late, Ending
<1>5. Level(db, new, S) /\ After(S)
  BY <1>3, <1>4, LevelDid, LedgerAfter
<1>6. request.coin \notin Coin
  BY <1>3, NullAssumption DEF AimedJob, Aims
<1>7. [c \in Coin |-> db'[CoinRow(c)]] = [c \in Coin |-> db[CoinRow(c)]]
  BY <1>1, <1>3, <1>6
<1>8. /\ \A e \in S : /\ db[EscrowRow(e)].status \in Open
                      /\ new[EscrowRow(e)] = [db[EscrowRow(e)] EXCEPT !.status = "expired"]
      /\ \A e \in Escrow : e \notin S => new[EscrowRow(e)] = db[EscrowRow(e)]
  BY <1>1, <1>2, <1>3, PublishedEscrows
<1>9. [e \in Escrow |-> db'[EscrowRow(e)]] = Ledger!EscrowAfter(S)
  BY <1>1, <1>5, <1>8 DEF After
<1>10. /\ [u \in User |-> db'[UserRow(u)].balance] = Ledger!BalanceAfter(S)
       /\ db'[ReserveRow] = Ledger!BankAfter(S)
  BY <1>1, <1>5, LevelAfter
<1>11. Ledger!Expire(S)
  BY <1>7, <1>9, <1>10 DEF Ledger!Expire
<1>12. S \in SUBSET {e \in Escrow : Ledger!OpenNow(e)}
  BY <1>8, SameParams
<1> QED
  BY <1>11, <1>12 DEF Ledger!Next

LEMMA CreateRefines ==
  ASSUME IInv, BooksInv, AloneInv, DidInv, NEW t \in Tx, CommitTx(t), job[t].op = "create"
  PROVE  Ledger!Next
<1>1. PICK request, new : request = job[t] /\ new = db'
  OBVIOUS
<1>2. /\ request \in AimedJob /\ request.op = "create" /\ request.op \in OfEscrow /\ request.pc = "commit"
      /\ Did(db, new, Swept(t), request) /\ MoneyIn(db)
      /\ \A c \in Coin : new[CoinRow(c)] = IF c = request.coin THEN DepositedTo(request) ELSE db[CoinRow(c)]
  BY <1>1, Published DEF OfEscrow, BooksInv
<1>3. PICK e \in Escrow : e = request.esc
  BY <1>1, <1>2, PublishedEscrows
<1>4. /\ Swept(t) = {} /\ Effect(request) /\ new[EscrowRow(e)] = cur[EscrowRow(e)]
      /\ \A f \in Escrow : f # e => new[EscrowRow(f)] = db[EscrowRow(f)]
  BY <1>1, <1>2, <1>3, PublishedEscrows
<1>5. db[EscrowRow(e)] = Absent /\ new[EscrowRow(e)] = [Absent EXCEPT !.status = "created"]
  BY <1>2, <1>3, <1>4 DEF Effect
<1>6. PaysNobody(request)
  BY <1>2 DEF PaysNobody, Late, Ending
<1>7. Level(db, new, {})
  BY <1>2, <1>4, <1>6, LevelDid
<1>8. request.coin \notin Coin
  BY <1>2, NullAssumption DEF AimedJob, Aims
<1>9. [c \in Coin |-> db'[CoinRow(c)]] = [c \in Coin |-> db[CoinRow(c)]]
  BY <1>1, <1>2, <1>8
<1>10. \A u \in User : new[UserRow(u)].balance = db[UserRow(u)].balance
  <2> TAKE u \in User
  <2>1. PICK o \in Int : o = db[UserRow(u)].balance
    BY <1>2 DEF MoneyIn, UserValue
  <2>2. new[UserRow(u)].balance = o + 0
    BY <1>7, <2>1, BackNone DEF Level
  <2> QED
    BY <2>1, <2>2
<1>11. new[ReserveRow] = db[ReserveRow]
  <2>1. PICK bank \in ReserveValue : bank = db[ReserveRow]
    BY <1>2 DEF MoneyIn
  <2>2. new[ReserveRow] = [reserve_balance |-> bank.reserve_balance, total_issued |-> bank.total_issued - 0,
                           total_redeemed |-> bank.total_redeemed]
    BY <1>7, <2>1, BackNone DEF Level
  <2>3. bank = [reserve_balance |-> bank.reserve_balance, total_issued |-> bank.total_issued - 0,
                total_redeemed |-> bank.total_redeemed]
    BY DEF ReserveValue
  <2> QED
    BY <2>1, <2>2, <2>3
<1>12. [f \in Escrow |-> db'[EscrowRow(f)]] =
          [[f \in Escrow |-> db[EscrowRow(f)]] EXCEPT ![e].status = "created"]
  BY <1>1, <1>4, <1>5
<1>13. Ledger!Create(e)
  BY <1>1, <1>5, <1>9, <1>10, <1>11, <1>12, SameParams DEF Ledger!Create
<1> QED
  BY <1>13 DEF Ledger!Next

LEMMA LockRefines ==
  ASSUME IInv, BooksInv, AloneInv, DidInv, NEW t \in Tx, CommitTx(t), job[t].op = "lock"
  PROVE  Ledger!Next
<1>1. PICK request, new : request = job[t] /\ new = db'
  OBVIOUS
<1>2. PICK S \in SUBSET Escrow : S = Swept(t)
  BY SweptTyped
<1>3. /\ request \in AimedJob /\ request.op = "lock" /\ request.op \in OfEscrow /\ request.pc = "commit"
      /\ Did(db, new, S, request) /\ MoneyIn(db)
      /\ \A c \in Coin : new[CoinRow(c)] = IF c = request.coin THEN DepositedTo(request) ELSE db[CoinRow(c)]
      /\ request.coin \in Coin => db[CoinRow(request.coin)] = NoUser
  BY <1>1, <1>2, Published DEF OfEscrow, Audited, BooksInv
<1>4. PICK e \in Escrow, u \in User, c \in Coin : e = request.esc /\ u = request.user /\ c = request.coin
  BY <1>3 DEF AimedJob, Aims, Audited
<1>5. Worth[c] = Price[e] /\ db[CoinRow(c)] = NoUser
  BY <1>3, <1>4 DEF AimedJob, Aims, Holding
<1>6. PaysNobody(request)
  BY <1>3 DEF PaysNobody, Late, Ending
<1>7. Level(db, new, S) /\ After(S)
  BY <1>3, <1>6, LevelDid, LedgerAfter
<1>8. [d \in Coin |-> db'[CoinRow(d)]] = [[d \in Coin |-> db[CoinRow(d)]] EXCEPT ![c] = Merchant[e]]
  BY <1>1, <1>3, <1>4 DEF DepositedTo
<1>9. /\ \A f \in S : /\ db[EscrowRow(f)].status \in Open
                      /\ new[EscrowRow(f)] = [db[EscrowRow(f)] EXCEPT !.status = "expired"]
      /\ \A f \in Escrow : f \notin S /\ f # e => new[EscrowRow(f)] = db[EscrowRow(f)]
      /\ e \notin S /\ Effect(request) /\ new[EscrowRow(e)] = cur[EscrowRow(e)]
  BY <1>1, <1>2, <1>3, <1>4, PublishedEscrows
<1>10. /\ db[EscrowRow(e)].status = "created"
       /\ new[EscrowRow(e)] = [status |-> "locked", customer |-> u, serial |-> c]
  BY <1>3, <1>4, <1>9 DEF Effect
<1>11. [f \in Escrow |-> db'[EscrowRow(f)]] =
          [Ledger!EscrowAfter(S) EXCEPT ![e] = [status |-> "locked", customer |-> u, serial |-> c]]
  BY <1>1, <1>7, <1>9, <1>10 DEF After
<1>12. /\ [w \in User |-> db'[UserRow(w)].balance] = Ledger!BalanceAfter(S)
       /\ db'[ReserveRow] = Ledger!BankAfter(S)
  BY <1>1, <1>7, LevelAfter
<1>13. Ledger!Lock(S, e, u, c)
  BY <1>5, <1>8, <1>10, <1>11, <1>12 DEF Ledger!Lock
<1>14. S \in SUBSET {f \in Escrow : Ledger!OpenNow(f)} /\ e \in Escrow \ S
  BY <1>9, SameParams
<1> QED
  BY <1>13, <1>14 DEF Ledger!Next

LEMMA ConfirmRefines ==
  ASSUME IInv, BooksInv, AloneInv, DidInv, NEW t \in Tx, CommitTx(t), job[t].op = "confirm"
  PROVE  Ledger!Next
<1>1. PICK request, new : request = job[t] /\ new = db'
  OBVIOUS
<1>2. PICK S \in SUBSET Escrow : S = Swept(t)
  BY SweptTyped
<1>3. /\ request \in AimedJob /\ request.op = "confirm" /\ request.op \in OfEscrow /\ request.pc = "commit"
      /\ Did(db, new, S, request) /\ MoneyIn(db)
      /\ \A c \in Coin : new[CoinRow(c)] = IF c = request.coin THEN DepositedTo(request) ELSE db[CoinRow(c)]
  BY <1>1, <1>2, Published DEF OfEscrow, Audited, Settlement, BooksInv
<1>4. PICK e \in Escrow : e = request.esc
  BY <1>1, <1>3, PublishedEscrows
<1>5. PICK w \in User, p \in Int : w = Merchant[e] /\ p = Price[e]
  BY MerchantAssumption, ValueAssumption
<1>6. request.coin \notin Coin
  BY <1>3, NullAssumption DEF AimedJob, Aims, Settlement
<1>7. [c \in Coin |-> db'[CoinRow(c)]] = [c \in Coin |-> db[CoinRow(c)]]
  BY <1>1, <1>3, <1>6
<1>8. /\ \A f \in S : /\ db[EscrowRow(f)].status \in Open
                      /\ new[EscrowRow(f)] = [db[EscrowRow(f)] EXCEPT !.status = "expired"]
      /\ \A f \in Escrow : f \notin S /\ f # e => new[EscrowRow(f)] = db[EscrowRow(f)]
      /\ e \notin S /\ Effect(request) /\ new[EscrowRow(e)] = cur[EscrowRow(e)]
  BY <1>1, <1>2, <1>3, <1>4, PublishedEscrows
<1>9. /\ db[EscrowRow(e)].status = "locked" /\ request.payee = w
      /\ new[EscrowRow(e)] = [db[EscrowRow(e)] EXCEPT !.status = "committed"]
  BY <1>3, <1>4, <1>5, <1>8 DEF Effect
<1>10. /\ Repaid(S, request) = S /\ Burnt(S, request) = S
       /\ \A u : PaidTo(request, u) = IF u = w THEN p ELSE 0
       /\ BookedAs(request, {"deposit"}) = 0 /\ BookedAs(request, {"confirm"} \cup Payment) = p
  <2>1. Moved(request) = p /\ ~Refunds(request)
    BY <1>3, <1>4, <1>5 DEF Moved, Settlement, Refunds
  <2> QED
    BY <1>3, <1>9, <2>1 DEF Repaid, Burnt, PaidTo, BookedAs, Ending, Paying
<1>11. After(S)
  BY <1>3, LedgerAfter
<1>12. [f \in Escrow |-> db'[EscrowRow(f)]] = [Ledger!EscrowAfter(S) EXCEPT ![e].status = "committed"]
  BY <1>1, <1>8, <1>9, <1>11 DEF After
<1>13. [u \in User |-> db'[UserRow(u)].balance] = [Ledger!BalanceAfter(S) EXCEPT ![Merchant[e]] = @ + Price[e]]
  <2>1. ASSUME NEW u \in User
        PROVE  new[UserRow(u)].balance =
                  (IF u = w THEN db[UserRow(u)].balance + Back(db, S, u) + p
                            ELSE db[UserRow(u)].balance + Back(db, S, u))
    <3>1. PICK a \in Int, o \in Int : a = Back(db, S, u) /\ o = db[UserRow(u)].balance
      BY <1>3, BackTyped DEF MoneyIn, UserValue
    <3>2. new[UserRow(u)].balance = o + a + (IF u = w THEN p ELSE 0)
      BY <1>3, <1>10, <3>1 DEF Did
    <3> QED
      BY <3>1, <3>2
  <2> QED
    BY <1>1, <1>5, <1>11, <2>1 DEF After
<1>14. db'[ReserveRow] = [Ledger!BankAfter(S) EXCEPT !.total_redeemed = @ + Price[e]]
  <2>1. PICK bank \in ReserveValue : bank = db[ReserveRow]
    BY <1>3 DEF MoneyIn
  <2>2. bank.reserve_balance + 0 = bank.reserve_balance
    BY DEF ReserveValue
  <2>3. new[ReserveRow] = [reserve_balance |-> bank.reserve_balance + 0,
                           total_issued |-> bank.total_issued - WorthOf(db, S),
                           total_redeemed |-> bank.total_redeemed + p]
    BY <1>3, <1>10, <2>1 DEF Did
  <2> QED
    BY <1>1, <1>5, <1>11, <2>1, <2>2, <2>3 DEF After
<1>15. Ledger!Confirm(S, e)
  BY <1>7, <1>9, <1>12, <1>13, <1>14 DEF Ledger!Confirm
<1>16. S \in SUBSET {f \in Escrow : Ledger!OpenNow(f)} /\ e \in Escrow \ S
  BY <1>8, SameParams
<1> QED
  BY <1>15, <1>16 DEF Ledger!Next

LEMMA CancelRefines ==
  ASSUME IInv, BooksInv, AloneInv, DidInv, NEW t \in Tx, CommitTx(t), job[t].op = "cancel"
  PROVE  Ledger!Next
<1>1. PICK request, new : request = job[t] /\ new = db'
  OBVIOUS
<1>2. PICK S \in SUBSET Escrow : S = Swept(t)
  BY SweptTyped
<1>3. /\ request \in AimedJob /\ request.op = "cancel" /\ request.op \in OfEscrow /\ request.pc = "commit"
      /\ Did(db, new, S, request) /\ MoneyIn(db)
      /\ \A c \in Coin : new[CoinRow(c)] = IF c = request.coin THEN DepositedTo(request) ELSE db[CoinRow(c)]
  BY <1>1, <1>2, Published DEF OfEscrow, Audited, Settlement, BooksInv
<1>4. PICK e \in Escrow : e = request.esc
  BY <1>1, <1>3, PublishedEscrows
<1>5. request.coin \notin Coin
  BY <1>3, NullAssumption DEF AimedJob, Aims, Settlement
<1>6. [c \in Coin |-> db'[CoinRow(c)]] = [c \in Coin |-> db[CoinRow(c)]]
  BY <1>1, <1>3, <1>5
<1>7. /\ \A f \in S : /\ db[EscrowRow(f)].status \in Open
                      /\ new[EscrowRow(f)] = [db[EscrowRow(f)] EXCEPT !.status = "expired"]
      /\ \A f \in Escrow : f \notin S /\ f # e => new[EscrowRow(f)] = db[EscrowRow(f)]
      /\ e \notin S /\ Effect(request) /\ new[EscrowRow(e)] = cur[EscrowRow(e)]
  BY <1>1, <1>2, <1>3, <1>4, PublishedEscrows
<1>8. /\ new[EscrowRow(e)] = [db[EscrowRow(e)] EXCEPT !.status = "cancelled"]
      /\ \/ db[EscrowRow(e)].status = "locked" /\ request.payee # NoUser
         \/ db[EscrowRow(e)].status = "created" /\ request.payee = NoUser
  BY <1>3, <1>4, <1>7 DEF Effect
<1>9. PICK T \in SUBSET Escrow : T = S \cup {e}
  OBVIOUS
<1>10. Level(db, new, T)
  <2>1. CASE request.payee # NoUser
    <3>1. /\ Repaid(S, request) = T /\ Burnt(S, request) = T
          /\ \A u : PaidTo(request, u) = 0
          /\ BookedAs(request, {"deposit"}) = 0 /\ BookedAs(request, {"confirm"} \cup Payment) = 0
      <4>1. Refunds(request)
        BY <1>3, <2>1 DEF Refunds
      <4> QED
        BY <1>3, <1>4, <1>9, <4>1 DEF Repaid, Burnt, PaidTo, BookedAs, Ending, Paying, Payment
    <3>2. ASSUME NEW u \in User
          PROVE  new[UserRow(u)].balance = db[UserRow(u)].balance + Back(db, T, u)
      <4>1. PICK a \in Int, o \in Int : a = Back(db, T, u) /\ o = db[UserRow(u)].balance
        BY <1>3, BackTyped DEF MoneyIn, UserValue
      <4>2. new[UserRow(u)].balance = o + a + 0
        BY <1>3, <3>1, <4>1 DEF Did
      <4> QED
        BY <4>1, <4>2
    <3>3. PICK bank \in ReserveValue : bank = db[ReserveRow]
      BY <1>3 DEF MoneyIn
    <3>4. bank.reserve_balance + 0 = bank.reserve_balance /\ bank.total_redeemed + 0 = bank.total_redeemed
      BY DEF ReserveValue
    <3> QED
      BY <1>3, <3>1, <3>2, <3>3, <3>4 DEF Did, Level
  <2>2. CASE request.payee = NoUser
    <3>1. db[EscrowRow(e)].status = "created"
      BY <1>8, <2>2
    <3>2. PaysNobody(request)
      BY <1>3, <2>2 DEF PaysNobody, Late, Ending
    <3>3. Level(db, new, S)
      BY <1>3, <3>2, LevelDid
    <3>4. ASSUME NEW u PROVE Back(db, T, u) = Back(db, S, u)
      <4>1. Back(db, S \cup {e}, u) = Back(db, S, u) + BackOf(db, e, u)
        BY <1>7, BackInsert
      <4>2. PICK a \in Int : a = Back(db, S, u)
        BY BackTyped
      <4>3. BackOf(db, e, u) = 0
        BY <3>1 DEF BackOf
      <4> QED
        BY <1>9, <4>1, <4>2, <4>3
    <3>5. WorthOf(db, T) = WorthOf(db, S)
      <4>1. WorthOf(db, S \cup {e}) = WorthOf(db, S) + Held(db[EscrowRow(e)], e)
        BY <1>7, BackInsert
      <4>2. PICK a \in Int : a = WorthOf(db, S)
        BY BackTyped
      <4>3. Held(db[EscrowRow(e)], e) = 0
        BY <3>1 DEF Held
      <4> QED
        BY <1>9, <4>1, <4>2, <4>3
    <3> QED
      BY <3>3, <3>4, <3>5 DEF Level
  <2> QED
    BY <2>1, <2>2
<1>11. After(S) /\ After(T)
  BY <1>3, LedgerAfter
<1>12. [f \in Escrow |-> db'[EscrowRow(f)]] = [Ledger!EscrowAfter(S) EXCEPT ![e].status = "cancelled"]
  BY <1>1, <1>7, <1>8, <1>11 DEF After
<1>13. /\ [u \in User |-> db'[UserRow(u)].balance] = Ledger!BalanceAfter(T)
       /\ db'[ReserveRow] = Ledger!BankAfter(T)
  BY <1>1, <1>10, <1>11, LevelAfter
<1>14. Ledger!OpenNow(e)
  BY <1>8, SameParams DEF Open
<1>15. Ledger!Cancel(S, e)
  BY <1>6, <1>9, <1>12, <1>13, <1>14 DEF Ledger!Cancel
<1>16. S \in SUBSET {f \in Escrow : Ledger!OpenNow(f)} /\ e \in Escrow \ S
  BY <1>7, SameParams
<1> QED
  BY <1>15, <1>16 DEF Ledger!Next

\* A payment, a split or a deposit.
LEMMA PayRefines ==
  ASSUME IInv, BooksInv, AloneInv, DidInv, NEW t \in Tx, CommitTx(t),
         job[t].op \in Payment \cup {"deposit"}
  PROVE  Ledger!Next
<1>1. PICK request, new : request = job[t] /\ new = db'
  OBVIOUS
<1>2. /\ request \in AimedJob /\ request.op \in Payment \cup {"deposit"} /\ request.pc = "commit"
      /\ request.op \notin OfEscrow /\ Asked(request)
      /\ Did(db, new, Swept(t), request) /\ MoneyIn(db)
      /\ \A e \in Escrow : new[EscrowRow(e)] =
                              IF lock[EscrowRow(e)] = t THEN cur[EscrowRow(e)] ELSE db[EscrowRow(e)]
      /\ \A c \in Coin : new[CoinRow(c)] = IF c = request.coin THEN DepositedTo(request) ELSE db[CoinRow(c)]
      /\ request.coin \in Coin => db[CoinRow(request.coin)] = NoUser
  BY <1>1, Published DEF OfEscrow, Audited, Settlement, Payment, BooksInv
<1>3. Swept(t) = {} /\ \A e \in Escrow : new[EscrowRow(e)] = db[EscrowRow(e)]
  BY <1>1, <1>2, SweptBy DEF AloneInv, Alone
<1>4. [e \in Escrow |-> db'[EscrowRow(e)]] = [e \in Escrow |-> db[EscrowRow(e)]]
  BY <1>1, <1>3
<1>5. request.op \in Paying /\ ~Refunds(request)
  BY <1>2 DEF Paying, Refunds, Payment
<1>6. PICK w, m : w = request.payee /\ m = Moved(request)
  OBVIOUS
<1>7. w \in User /\ m \in Int
  <2>1. m \in Int
    BY <1>2, <1>5, <1>6, MovedTyped
  <2>2. w \in User
    BY <1>2, <1>6 DEF Asked, AimedJob, Aims
  <2> QED
    BY <2>1, <2>2
<1>8. /\ Repaid({}, request) = {} /\ Burnt({}, request) = {}
      /\ \A u : PaidTo(request, u) = IF u = w THEN m ELSE 0
      /\ BookedAs(request, {"deposit"}) = IF request.op = "deposit" THEN m ELSE 0
      /\ BookedAs(request, {"confirm"} \cup Payment) = IF request.op = "deposit" THEN 0 ELSE m
  BY <1>2, <1>5, <1>6 DEF Repaid, Burnt, PaidTo, BookedAs, Ending, Payment
<1>9. [u \in User |-> db'[UserRow(u)].balance] = [[u \in User |-> db[UserRow(u)].balance] EXCEPT ![w] = @ + m]
  <2>1. ASSUME NEW u \in User
        PROVE  new[UserRow(u)].balance =
                  (IF u = w THEN db[UserRow(u)].balance + m ELSE db[UserRow(u)].balance)
    <3>1. PICK o \in Int : o = db[UserRow(u)].balance
      BY <1>2 DEF MoneyIn, UserValue
    <3>2. Did(db, new, {}, request)
      BY <1>2, <1>3
    <3>3. new[UserRow(u)].balance = o + Back(db, Repaid({}, request), u) + PaidTo(request, u)
      BY <3>1, <3>2 DEF Did
    <3>4. Back(db, Repaid({}, request), u) = 0
      BY <1>8, BackNone
    <3> QED
      BY <1>7, <1>8, <3>1, <3>3, <3>4
  <2> QED
    BY <1>1, <1>7, <2>1
<1>10. PICK bank \in ReserveValue : bank = db[ReserveRow]
  BY <1>2 DEF MoneyIn
<1>11. PICK x \in Int, y \in Int : /\ x = BookedAs(request, {"deposit"})
                                   /\ y = BookedAs(request, {"confirm"} \cup Payment)
  BY <1>7, <1>8
<1>12. new[ReserveRow] = [reserve_balance |-> bank.reserve_balance + x,
                          total_issued |-> bank.total_issued - 0, total_redeemed |-> bank.total_redeemed + y]
  BY <1>2, <1>3, <1>8, <1>10, <1>11, BackNone DEF Did
<1>13. CASE request.op \in Payment
  <2>1. x = 0 /\ y = m
    BY <1>8, <1>11, <1>13 DEF Payment
  <2>2. db'[ReserveRow] = [db[ReserveRow] EXCEPT !.total_redeemed = @ + m]
    BY <1>1, <1>10, <1>12, <2>1 DEF ReserveValue
  <2>3. PICK c \in Coin : c = request.coin
    BY <1>2, <1>13 DEF AimedJob, Aims
  <2>4. m = Worth[c] /\ DepositedTo(request) = w /\ db[CoinRow(c)] = NoUser
    BY <1>2, <1>6, <1>13, <2>3 DEF Moved, DepositedTo, Asked, Payment, Settlement
  <2>5. [d \in Coin |-> db'[CoinRow(d)]] = [[d \in Coin |-> db[CoinRow(d)]] EXCEPT ![c] = w]
    BY <1>1, <1>2, <2>3, <2>4
  <2>6. Ledger!Pay(w, c)
    BY <1>4, <1>9, <2>2, <2>4, <2>5 DEF Ledger!Pay
  <2> QED
    BY <1>7, <2>6 DEF Ledger!Next
<1>14. CASE request.op = "deposit"
  <2>1. x = m /\ y = 0
    BY <1>8, <1>11, <1>14
  <2>2. db'[ReserveRow] = [db[ReserveRow] EXCEPT !.reserve_balance = @ + m]
    BY <1>1, <1>10, <1>12, <2>1 DEF ReserveValue
  <2>3. m \in Cash
    BY <1>2, <1>6, <1>14 DEF Moved, Asked, Payment, Settlement
  <2>4. request.coin \notin Coin
    BY <1>2, <1>14, NullAssumption DEF AimedJob, Aims
  <2>5. [d \in Coin |-> db'[CoinRow(d)]] = [d \in Coin |-> db[CoinRow(d)]]
    BY <1>1, <1>2, <2>4
  <2>6. Ledger!Deposit(w, m)
    BY <1>4, <1>9, <2>2, <2>5 DEF Ledger!Deposit
  <2> QED
    BY <1>7, <2>3, <2>6 DEF Ledger!Next
<1> QED
  BY <1>2, <1>13, <1>14

\* A COMMIT is the request taking effect at once.
LEMMA CommitRefines ==
  ASSUME IInv, BooksInv, AloneInv, DidInv, NEW t \in Tx, CommitTx(t)
  PROVE  Ledger!Next
<1>1. job[t] \in Job /\ job[t].op # "none"
  BY Published DEF AimedJob
<1>2. job[t].op \in {"create", "details", "lock", "confirm", "cancel"} \cup (Payment \cup {"deposit"})
  BY <1>1 DEF Job, Op, Audited, Settlement
<1> QED
  BY <1>2, CreateRefines, DetailsRefines, LockRefines, ConfirmRefines, CancelRefines, PayRefines

\* Only a COMMIT changes what is committed.
LEMMA OnlyCommits ==
  ASSUME NEW t \in Tx, Statement(t)
  PROVE  CommitTx(t) \/ db' = db
<1>1. Throw(t) => db' = db
  BY DEF Throw, Rollback
<1>2. \A next : Select(t, next) => db' = db
  BY DEF Select, storage
<1>3. \A row, v, next : Update(t, row, v, next) => db' = db
  BY DEF Update, Write
<1>4. AuditOutside(t) => db' = db
  BY DEF AuditOutside, storage
<1>5. CleanCreated(t) \/ CleanSelect(t) \/ RefundLate(t) \/ ExpireLate(t) \/ BurnLate(t) => db' = db
  BY <1>1, <1>2, <1>3 DEF CleanCreated, CleanSelect, RefundLate, ExpireLate, BurnLate
<1>6. CreateInsert(t) \/ LockSelect(t) \/ SelectCoin(t) \/ Spend(t) \/ MarkLocked(t) => db' = db
  BY <1>1, <1>2, <1>3 DEF CreateInsert, LockSelect, SelectCoin, Spend, MarkLocked
<1>7. ConfirmSelect(t) \/ CancelSelect(t) \/ Credit(t) \/ Book(t) \/ Close(t) => db' = db
  BY <1>1, <1>2, <1>3 DEF ConfirmSelect, CancelSelect, Credit, Book, Close
<1>8. AssertBooks(t) \/ PoolTimeout(t) \/ DeadlockVictim(t) => db' = db
  BY <1>1, <1>2 DEF AssertBooks, PoolTimeout, DeadlockVictim
<1> QED
  BY <1>4, <1>5, <1>6, <1>7, <1>8 DEF Statement

\* A step of the server is a step of the ledger, or leaves its tables alone.
LEMMA NextRefines ==
    IInv /\ BooksInv /\ AloneInv /\ DidInv /\ [Next]_vars => [Ledger!Next]_(Ledger!ledger)
<1> SUFFICES ASSUME IInv, BooksInv, AloneInv, DidInv, [Next]_vars
             PROVE  [Ledger!Next]_(Ledger!ledger)
  OBVIOUS
<1>1. ASSUME db' = db PROVE [Ledger!Next]_(Ledger!ledger)
  <2>1. UNCHANGED Ledger!ledger
    BY <1>1 DEF Ledger!ledger
  <2> QED
    BY <2>1
<1>2. ASSUME NEW t \in Tx, Step(t) PROVE [Ledger!Next]_(Ledger!ledger)
  BY <1>1, <1>2, OnlyCommits, CommitRefines DEF Step
<1>3. ASSUME NEW t \in Tx, Begin(t) PROVE db' = db
  BY <1>3 DEF Begin, BeginCreate, BeginDetails, BeginLock, BeginSettle, BeginPay, BeginDeposit,
              Start, storage
<1>4. CASE UNCHANGED vars \/ \E e \in Escrow : TimePasses(e)
  BY <1>1, <1>4 DEF vars, storage, TimePasses
<1>5. CASE Crash
  BY <1>1, <1>5 DEF Crash, RollbackAll
<1> QED
  BY <1>1, <1>2, <1>3, <1>4, <1>5 DEF Next

\* escrowService.js, header items 4 to 7: with one request about escrows at a time, every request
\* takes effect at once or not at all; payments, splits and deposits may overlap with it and with
\* each other.
THEOREM AtomicPatient == ASSUME Patient PROVE Spec => Atomic
<1>1. DbInit => Ledger!Init
  BY InitRefines
<1>2. IInv /\ BooksInv /\ AloneInv /\ DidInv /\ [Next]_vars => [Ledger!Next]_(Ledger!ledger)
  BY NextRefines
<1> QED
  BY <1>1, <1>2, DidInvariance, PTL DEF Spec, Atomic, Ledger!Spec
=============================================================================
