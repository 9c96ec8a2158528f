------------------------ MODULE WithdrawalTx_proofs ------------------------
(***************************************************************************)
(* For every number of customers, sessions and connections:                *)
(*   - however the requests overlap, the row locks and the partial unique  *)
(*     index keep every customer at one committed active session at most,  *)
(*     and the reserve invariant finds every error: as long as no commit   *)
(*     fell between its reads, the books balance and no session was        *)
(*     settled twice;                                                      *)
(*   - as long as no two requests serve one customer at a time, nobody is  *)
(*     overdrawn, no session is settled twice, the books balance, and the  *)
(*     service implements the atomic WithdrawalLedger.                     *)
(***************************************************************************)
EXTENDS WithdrawalTx, Sums

(***************************************************************************)
(* The inductive invariant.  Two sessions of one customer are never both   *)
(* active, neither in the committed tables nor in the latest ones; and if  *)
(* one is active as committed and the other as written since, then a       *)
(* single transaction holds both rows, so they change places in one COMMIT *)
(* or not at all.                                                          *)
(***************************************************************************)
KeptApart(s, r) ==
    /\ ~(IsActive(db, s) /\ IsActive(db, r))
    /\ ~(IsActive(cur, s) /\ IsActive(cur, r))
    /\ IsActive(db, s) /\ IsActive(cur, r) =>
          /\ lock[SessionRow(s)] \in Tx
          /\ lock[SessionRow(r)] = lock[SessionRow(s)]

Apart == \A s \in Session : \A r \in Rival(s) : KeptApart(s, r)

StorageInv == StorageTyped /\ OneVersion /\ Apart

\* A request about to run a statement that needs a session has one.
Aims(request) ==
    /\ request.pc \in {"refund", "close", "mark", "sign", "issue"} => request.sess \in Session
    /\ request.pc \in {"lazy", "balance", "debit", "insert"} =>
          request.op = "init" /\ request.opens \in Session
    /\ request.pc = "select" =>
          /\ request.op = "init" => request.opens \in Session
          /\ request.op \in {"submit", "reveal", "cancel"} => request.sess \in Session
    /\ request.then = "select" => request.op = "init" /\ request.opens \in Session

AimedJob == {request \in Job : Aims(request)}

RequestsInv == job \in [Tx -> AimedJob] /\ late \subseteq Session

IInv == StorageInv /\ RequestsInv

-----------------------------------------------------------------------------
(* Rows                                                                    *)

\* The rows of different tables, and of different sessions, differ.
LEMMA Rows ==
    /\ \A u \in User : UserRow(u) \in Row
    /\ \A s \in Session : SessionRow(s) \in Row
    /\ ReserveRow \in Row
    /\ \A u \in User, s \in Session : UserRow(u) # SessionRow(s)
    /\ \A s \in Session : ReserveRow # SessionRow(s)
    /\ \A s, r \in Session : SessionRow(s) = SessionRow(r) => s = r
  BY DEF Row, UserRow, SessionRow, ReserveRow

\* An empty database meets StorageInv: no session is active yet.
LEMMA InitStorage == DbInit => StorageInv
<1> SUFFICES ASSUME DbInit PROVE StorageInv
  OBVIOUS
<1>1. \A s \in Session : db[SessionRow(s)] = Absent
  BY Rows DEF DbInit, SessionRow
<1>2. Absent \in SessionValue /\ Absent.status \notin Active
  BY DEF Absent, SessionValue, Status, Active
<1>3. StorageTyped
  BY <1>1, <1>2 DEF DbInit, StorageTyped
<1>4. OneVersion
  BY DEF DbInit, OneVersion
<1>5. Apart
  BY <1>1, <1>2 DEF DbInit, Apart, KeptApart, IsActive, Rival
<1> QED
  BY <1>3, <1>4, <1>5 DEF StorageInv

-----------------------------------------------------------------------------
(* What the engine does to StorageInv                                      *)

\* A write outside withdrawal_sessions.
LEMMA WriteElsewhere ==
  ASSUME StorageInv, NEW t \in Tx, NEW row \in Row, NEW v,
         \A s \in Session : row # SessionRow(s),
         Write(t, row, v)
  PROVE  StorageInv'
<1>1. \A s \in Session : cur'[SessionRow(s)] = cur[SessionRow(s)] /\ db'[SessionRow(s)] = db[SessionRow(s)]
                        /\ lock'[SessionRow(s)] = lock[SessionRow(s)]
  BY Rows DEF StorageInv, StorageTyped, Write
<1>2. StorageTyped'
  BY <1>1, Rows DEF StorageInv, StorageTyped, Write
<1>3. OneVersion'
  BY NoValueAssumption DEF StorageInv, StorageTyped, OneVersion, Write
<1>4. Apart'
  BY <1>1 DEF StorageInv, Apart, KeptApart, IsActive, Rival
<1> QED
  BY <1>2, <1>3, <1>4 DEF StorageInv

\* Facts about a write of a session row.
LEMMA WriteSession ==
  ASSUME StorageInv, NEW t \in Tx, NEW s \in Session, NEW v \in SessionValue,
         Write(t, SessionRow(s), v)
  PROVE  /\ StorageTyped' /\ OneVersion'
         /\ cur'[SessionRow(s)] = v /\ lock'[SessionRow(s)] = t
         /\ lock[SessionRow(s)] \in {t, NoTx}
         /\ \A r \in Session \ {s} : /\ cur'[SessionRow(r)] = cur[SessionRow(r)]
                                    /\ lock'[SessionRow(r)] = lock[SessionRow(r)]
         /\ db' = db
<1>1. SessionRow(s) \in Row /\ \A r \in Session \ {s} : SessionRow(r) \in Row /\ SessionRow(r) # SessionRow(s)
  BY Rows
<1>2. /\ cur'[SessionRow(s)] = v /\ lock'[SessionRow(s)] = t
      /\ lock[SessionRow(s)] \in {t, NoTx}
      /\ \A r \in Session \ {s} : /\ cur'[SessionRow(r)] = cur[SessionRow(r)]
                                 /\ lock'[SessionRow(r)] = lock[SessionRow(r)]
      /\ db' = db
  BY <1>1 DEF StorageInv, StorageTyped, Write, Writable
<1>3. StorageTyped'
  BY <1>1, <1>2 DEF StorageInv, StorageTyped, Write
<1>4. OneVersion'
  BY NoValueAssumption DEF StorageInv, StorageTyped, OneVersion, Write
<1> QED
  BY <1>2, <1>3, <1>4

\* A session row stops being active: no index entry to check.
LEMMA WriteInactive ==
  ASSUME StorageInv, NEW t \in Tx, NEW s \in Session, NEW v \in SessionValue,
         v.status \notin Active,
         Write(t, SessionRow(s), v)
  PROVE  StorageInv'
<1>1. StorageTyped' /\ OneVersion'
  BY WriteSession
<1>2. ASSUME NEW q \in Session, NEW r \in Rival(q)
      PROVE  KeptApart(q, r)'
  <2>1. r \in Session /\ r # q
    BY DEF Rival
  <2>2. KeptApart(q, r)
    BY DEF StorageInv, Apart
  <2> QED
    BY <2>1, <2>2, WriteSession, NoValueAssumption DEF KeptApart, IsActive
<1> QED
  BY <1>1, <1>2 DEF StorageInv, Apart, Rival

\* A session row becomes or stays active, past the check of the unique index.
LEMMA WriteActive ==
  ASSUME StorageInv, NEW t \in Tx, NEW s \in Session, NEW v \in SessionValue,
         ~IndexBusy(t, s), ~IndexHit(t, s),
         Write(t, SessionRow(s), v)
  PROVE  StorageInv'
<1>1. StorageTyped' /\ OneVersion'
  BY WriteSession
<1>2. ASSUME NEW r \in Rival(s)
      PROVE  /\ ~IsActive(cur, r)
             /\ IsActive(db, r) => lock[SessionRow(r)] = t
  <2>1. r \in Session /\ SessionRow(r) \in Row
    BY Rows DEF Rival
  <2>2. ~IsActive(View(t), r)
    BY DEF IndexHit
  <2>3. View(t)[SessionRow(r)] = IF lock[SessionRow(r)] = t THEN cur[SessionRow(r)] ELSE db[SessionRow(r)]
    BY <2>1 DEF View, Read
  <2>4. CASE lock[SessionRow(r)] = t
    BY <2>2, <2>3, <2>4 DEF IsActive
  <2>5. CASE lock[SessionRow(r)] = NoTx
    BY <2>1, <2>2, <2>3, <2>5, NoValueAssumption DEF IsActive, StorageInv, OneVersion
  <2>6. CASE lock[SessionRow(r)] \notin {t, NoTx}
    BY <2>6 DEF IndexBusy, Writable
  <2> QED
    BY <2>4, <2>5, <2>6
<1>3. ASSUME NEW q \in Session, NEW r \in Rival(q)
      PROVE  KeptApart(q, r)'
  <2>1. r \in Session /\ r # q /\ q \in Rival(r)
    BY DEF Rival
  <2>2. KeptApart(q, r)
    BY DEF StorageInv, Apart
  <2>3. CASE q = s
    BY <1>2, <2>1, <2>2, <2>3, WriteSession DEF KeptApart, IsActive
  <2>4. CASE r = s
    BY <1>2, <2>1, <2>2, <2>4, WriteSession DEF KeptApart, IsActive
  <2>5. CASE q # s /\ r # s
    BY <2>1, <2>2, <2>5, WriteSession DEF KeptApart, IsActive
  <2> QED
    BY <2>3, <2>4, <2>5
<1> QED
  BY <1>1, <1>3 DEF StorageInv, Apart, Rival

\* COMMIT: what was kept apart in the latest versions is kept apart once committed.
LEMMA CommitKeeps ==
  ASSUME StorageInv, NEW t \in Tx, Commit(t)
  PROVE  StorageInv'
<1>1. \A s \in Session : SessionRow(s) \in Row
  BY Rows
<1>2. /\ \A r \in Row : db'[r] = IF lock[r] = t THEN cur[r] ELSE db[r]
      /\ \A r \in Row : lock'[r] = IF lock[r] = t THEN NoTx ELSE lock[r]
      /\ cur' = cur
      /\ db' = [r \in Row |-> db'[r]]
      /\ lock' \in [Row -> Tx \cup {NoTx}]
  BY DEF Commit, Release, Read, StorageInv, StorageTyped
<1>3. StorageTyped'
  BY <1>1, <1>2 DEF StorageInv, StorageTyped
<1>4. OneVersion'
  BY <1>2, NoValueAssumption DEF StorageInv, OneVersion, StorageTyped
<1>5. ASSUME NEW q \in Session, NEW r \in Rival(q)
      PROVE  KeptApart(q, r)'
  <2>1. r \in Session /\ q \in Rival(r)
    BY DEF Rival
  <2>2. KeptApart(q, r) /\ KeptApart(r, q)
    BY <2>1 DEF StorageInv, Apart
  <2> QED
    BY <1>1, <1>2, <2>1, <2>2 DEF KeptApart, IsActive
<1> QED
  BY <1>3, <1>4, <1>5 DEF StorageInv, Apart, Rival

\* ROLLBACK: what was kept apart in the committed versions is kept apart again.
LEMMA RollbackKeeps ==
  ASSUME StorageInv, NEW t \in Tx, Rollback(t)
  PROVE  StorageInv'
<1>1. \A s \in Session : SessionRow(s) \in Row
  BY Rows
<1>2. /\ \A r \in Row : cur'[r] = IF lock[r] = t THEN db[r] ELSE cur[r]
      /\ \A r \in Row : lock'[r] = IF lock[r] = t THEN NoTx ELSE lock[r]
      /\ db' = db
      /\ cur' = [r \in Row |-> cur'[r]]
      /\ lock' \in [Row -> Tx \cup {NoTx}]
  BY DEF Rollback, Release, StorageInv, StorageTyped
<1>3. StorageTyped'
  BY <1>1, <1>2 DEF StorageInv, StorageTyped
<1>4. OneVersion'
  BY <1>2, NoValueAssumption DEF StorageInv, OneVersion, StorageTyped
<1>5. ASSUME NEW q \in Session, NEW r \in Rival(q)
      PROVE  KeptApart(q, r)'
  <2>1. r \in Session /\ q \in Rival(r)
    BY DEF Rival
  <2>2. KeptApart(q, r) /\ KeptApart(r, q)
    BY <2>1 DEF StorageInv, Apart
  <2> QED
    BY <1>1, <1>2, <2>1, <2>2 DEF KeptApart, IsActive
<1> QED
  BY <1>3, <1>4, <1>5 DEF StorageInv, Apart, Rival

\* Losing every connection leaves the committed versions only.
LEMMA RollbackAllKeeps ==
  ASSUME StorageInv, RollbackAll
  PROVE  StorageInv'
  BY Rows DEF StorageInv, StorageTyped, OneVersion, Apart, KeptApart, RollbackAll, IsActive

-----------------------------------------------------------------------------
(* Requests                                                                *)

\* A connection that serves nobody needs no session.
LEMMA IdleAims == Idle \in AimedJob
  BY DEF Idle, AimedJob, Job, Aims, Op, Label

\* A SELECT changes only the request, which must aim at what its next statement needs.
LEMMA SelectKeeps ==
  ASSUME IInv, NEW t \in Tx, NEW next \in AimedJob, Select(t, next), late' = late
  PROVE  IInv'
<1>1. StorageInv'
  BY DEF IInv, Select, storage, StorageInv, StorageTyped, OneVersion, Apart, KeptApart, IsActive
<1>2. RequestsInv'
  BY DEF IInv, Select, RequestsInv
<1> QED
  BY <1>1, <1>2 DEF IInv

\* A handler that throws rolls back and forgets its request.
LEMMA ThrowKeeps ==
  ASSUME IInv, NEW t \in Tx, Throw(t), late' = late
  PROVE  IInv'
<1>1. StorageInv'
  BY RollbackKeeps DEF IInv, Throw
<1>2. RequestsInv'
  BY IdleAims DEF IInv, Throw, RequestsInv
<1> QED
  BY <1>1, <1>2 DEF IInv

\* An UPDATE or INSERT leaves the other requests alone.
LEMMA UpdateRequests ==
  ASSUME IInv, NEW t \in Tx, NEW row, NEW v, NEW next \in AimedJob,
         Update(t, row, v, next), late' = late
  PROVE  RequestsInv' /\ Write(t, row, v)
  BY DEF IInv, Update, RequestsInv

\* A request arrives with the session it is about.
LEMMA BeginKeeps ==
  ASSUME IInv, NEW t \in Tx, Begin(t)
  PROVE  IInv'
<1>1. ASSUME NEW request \in AimedJob, NEW customers, Start(t, request, customers)
      PROVE  IInv'
  BY <1>1, SelectKeeps DEF Start, Select
<1>2. ASSUME NEW s \in Session, BeginInit(t, s)
      PROVE  IInv'
  <2>1. [Idle EXCEPT !.op = "init", !.pc = "lazy", !.opens = s] \in AimedJob
    BY DEF Idle, AimedJob, Job, Aims, Op, Label
  <2> QED
    BY <1>1, <1>2, <2>1 DEF BeginInit
<1>3. ASSUME NEW s \in Session, NEW op \in {"submit", "reveal", "cancel"}, BeginOnSession(t, s, op)
      PROVE  IInv'
  <2>1. [Idle EXCEPT !.op = op, !.pc = "select", !.sess = s] \in AimedJob
    BY DEF Idle, AimedJob, Job, Aims, Op, Label
  <2> QED
    BY <1>1, <1>3, <2>1 DEF BeginOnSession
<1>4. ASSUME BeginSweep(t)
      PROVE  IInv'
  <2>1. [Idle EXCEPT !.op = "sweep", !.pc = "select"] \in AimedJob
    BY DEF Idle, AimedJob, Job, Aims, Op, Label
  <2> QED
    BY <1>1, <1>4, <2>1 DEF BeginSweep
<1> QED
  BY <1>2, <1>3, <1>4 DEF Begin

-----------------------------------------------------------------------------
(* Statements                                                              *)

\* A request that turns to refunding a session aims at that session.
LEMMA Refunds ==
  ASSUME NEW request \in AimedJob, NEW s \in Session, NEW rest \in SUBSET Session,
         NEW newStatus \in Closed
  PROVE  Refunding(request, s, rest, newStatus) \in AimedJob
  BY DEF Refunding, AimedJob, Job, Aims, Label

\* The statements that close a session: they serve every kind of request.
LEMMA RefundKeeps ==
  ASSUME IInv, NEW t \in Tx, RefundUser(t) \/ CloseSession(t), late' = late
  PROVE  IInv'
<1> DEFINE s == job[t].sess
<1>1. job[t] \in AimedJob
  BY DEF IInv, RequestsInv
<1>2. CASE RefundUser(t)
  <2>1. s \in Session /\ [job[t] EXCEPT !.pc = "close"] \in AimedJob
    BY <1>1, <1>2 DEF RefundUser, At, AimedJob, Job, Aims, Label
  <2>2. RequestsInv' /\ \E v : Write(t, UserRow(Owner[s]), v)
    BY <1>2, <2>1, UpdateRequests DEF RefundUser
  <2>3. UserRow(Owner[s]) \in Row /\ \A r \in Session : UserRow(Owner[s]) # SessionRow(r)
    BY <2>1, Rows, OwnerAssumption
  <2> QED
    BY <2>2, <2>3, WriteElsewhere DEF IInv
<1>3. CASE CloseSession(t)
  <2> DEFINE v == [cur[SessionRow(s)] EXCEPT !.status = job[t].close]
  <2>1. s \in Session /\ [job[t] EXCEPT !.pc = "readReserve", !.did = @ \cup {s}] \in AimedJob
    BY <1>1, <1>3 DEF CloseSession, At, AimedJob, Job, Aims, Label
  <2>2. RequestsInv' /\ Write(t, SessionRow(s), v)
    BY <1>3, <2>1, UpdateRequests DEF CloseSession
  <2>3. v \in SessionValue /\ v.status \notin Active
    BY <1>1, <2>1 DEF IInv, StorageInv, StorageTyped, SessionValue, AimedJob, Job, Status, Closed, Active
  <2> QED
    BY <2>1, <2>2, <2>3, WriteInactive DEF IInv
<1> QED
  BY <1>2, <1>3

\* The statements of lazyCleanupExpiredSessions and initWithdrawal.
LEMMA InitKeeps ==
  ASSUME IInv, NEW t \in Tx, late' = late,
         \/ LazyCleanup(t) \/ InitSelect(t) \/ InitBalance(t) \/ InitDebit(t) \/ InitInsert(t)
  PROVE  IInv'
<1>1. job[t] \in AimedJob
  BY DEF IInv, RequestsInv
<1>2. CASE LazyCleanup(t)
  <2>1. job[t].opens \in Session
    BY <1>1, <1>2 DEF LazyCleanup, At, AimedJob, Aims
  <2> DEFINE mine == {s \in Session : Owner[s] = Owner[job[t].opens]}
             request == [job[t] EXCEPT !.then = "select"]
  <2>2. CASE Select(t, [request EXCEPT !.pc = "readReserve"])
    <3>1. [request EXCEPT !.pc = "readReserve"] \in AimedJob
      BY <1>1, <1>2, <2>1 DEF LazyCleanup, At, AimedJob, Job, Aims, Label
    <3> QED
      BY <2>2, <3>1, SelectKeeps
  <2>3. ASSUME NEW s \in Expired(t) \cap mine,
               Select(t, Refunding(request, s, (Expired(t) \cap mine) \ {s}, "expired"))
        PROVE  IInv'
    <3>1. request \in AimedJob
      BY <1>1, <1>2, <2>1 DEF LazyCleanup, At, AimedJob, Job, Aims, Label
    <3> QED
      BY <2>3, <3>1, Refunds, SelectKeeps DEF Expired, Closed
  <2> QED
    BY <1>2, <2>2, <2>3 DEF LazyCleanup
<1>3. CASE InitSelect(t)
  <2>1. [job[t] EXCEPT !.pc = "balance"] \in AimedJob
    BY <1>1, <1>3 DEF InitSelect, At, AimedJob, Job, Aims, Label
  <2> QED
    BY <1>3, <2>1, SelectKeeps, ThrowKeeps DEF InitSelect
<1>4. CASE InitBalance(t)
  <2>1. [job[t] EXCEPT !.pc = "debit"] \in AimedJob
    BY <1>1, <1>4 DEF InitBalance, At, AimedJob, Job, Aims, Label
  <2> QED
    BY <1>4, <2>1, SelectKeeps, ThrowKeeps DEF InitBalance
<1>5. CASE InitDebit(t)
  <2> DEFINE account == UserRow(Owner[job[t].opens])
  <2>1. job[t].opens \in Session /\ [job[t] EXCEPT !.pc = "insert"] \in AimedJob
    BY <1>1, <1>5 DEF InitDebit, At, AimedJob, Job, Aims, Label
  <2>2. RequestsInv' /\ \E v : Write(t, account, v)
    BY <1>5, <2>1, UpdateRequests DEF InitDebit
  <2>3. account \in Row /\ \A r \in Session : account # SessionRow(r)
    BY <2>1, Rows, OwnerAssumption
  <2> QED
    BY <2>2, <2>3, WriteElsewhere DEF IInv
<1>6. CASE InitInsert(t)
  <2> DEFINE s == job[t].opens
             v == [Absent EXCEPT !.status = "pending"]
  <2>1. s \in Session /\ [job[t] EXCEPT !.pc = "readReserve"] \in AimedJob
    BY <1>1, <1>6 DEF InitInsert, At, AimedJob, Job, Aims, Label
  <2>2. CASE Throw(t)
    BY <2>2, ThrowKeeps
  <2>3. CASE ~IndexHit(t, s) /\ Update(t, SessionRow(s), v, [job[t] EXCEPT !.pc = "readReserve"])
    <3>1. RequestsInv' /\ Write(t, SessionRow(s), v)
      BY <2>1, <2>3, UpdateRequests
    <3>2. v \in SessionValue
      BY DEF Absent, SessionValue, Status, Active
    <3> QED
      BY <1>6, <2>1, <2>3, <3>1, <3>2, WriteActive DEF IInv, InitInsert
  <2> QED
    BY <1>6, <2>2, <2>3 DEF InitInsert
<1> QED
  BY <1>2, <1>3, <1>4, <1>5, <1>6

\* The statements of submitCandidates.
LEMMA SubmitKeeps ==
  ASSUME IInv, NEW t \in Tx, SubmitSelect(t) \/ SubmitMark(t), late' = late
  PROVE  IInv'
<1> DEFINE s == job[t].sess
<1>1. job[t] \in AimedJob
  BY DEF IInv, RequestsInv
<1>2. CASE SubmitSelect(t)
  <2>1. s \in Session
    BY <1>1, <1>2 DEF SubmitSelect, At, AimedJob, Aims
  <2>2. CASE ExpireOnUse(t)
    BY <1>1, <2>1, <2>2, Refunds, SelectKeeps DEF ExpireOnUse, Closed
  <2>3. CASE Throw(t)
    BY <2>3, ThrowKeeps
  <2>4. ASSUME NEW j \in Index, Select(t, [job[t] EXCEPT !.pc = "mark", !.j = j])
        PROVE  IInv'
    <3>1. [job[t] EXCEPT !.pc = "mark", !.j = j] \in AimedJob
      BY <1>1, <1>2, <2>1 DEF SubmitSelect, At, AimedJob, Job, Aims, Label
    <3> QED
      BY <2>4, <3>1, SelectKeeps
  <2> QED
    BY <1>2, <2>2, <2>3, <2>4 DEF SubmitSelect
<1>3. CASE SubmitMark(t)
  <2> DEFINE v == [status |-> "submitted", j_index |-> job[t].j]
  <2>1. s \in Session /\ [job[t] EXCEPT !.pc = "readReserve"] \in AimedJob
    BY <1>1, <1>3 DEF SubmitMark, At, AimedJob, Job, Aims, Label
  <2>2. CASE Throw(t)
    BY <2>2, ThrowKeeps
  <2>3. CASE ~IndexHit(t, s) /\ Update(t, SessionRow(s), v, [job[t] EXCEPT !.pc = "readReserve"])
    <3>1. RequestsInv' /\ Write(t, SessionRow(s), v)
      BY <2>1, <2>3, UpdateRequests
    <3>2. v \in SessionValue
      BY <1>1 DEF AimedJob, Job, SessionValue, Status, Active
    <3> QED
      BY <1>3, <2>1, <2>3, <3>1, <3>2, WriteActive DEF IInv, SubmitMark
  <2> QED
    BY <1>3, <2>2, <2>3 DEF SubmitMark
<1> QED
  BY <1>2, <1>3

\* The statements of revealAndSign.
LEMMA RevealKeeps ==
  ASSUME IInv, NEW t \in Tx, RevealSelect(t) \/ RevealSign(t) \/ RevealIssue(t), late' = late
  PROVE  IInv'
<1> DEFINE s == job[t].sess
<1>1. job[t] \in AimedJob
  BY DEF IInv, RequestsInv
<1>2. CASE RevealSelect(t)
  <2>1. s \in Session
    BY <1>1, <1>2 DEF RevealSelect, At, AimedJob, Aims
  <2>2. CASE ExpireOnUse(t)
    BY <1>1, <2>1, <2>2, Refunds, SelectKeeps DEF ExpireOnUse, Closed
  <2>3. CASE Throw(t)
    BY <2>3, ThrowKeeps
  <2>4. CASE Select(t, Refunding(job[t], s, {}, "aborted"))
    BY <1>1, <2>1, <2>4, Refunds, SelectKeeps DEF Closed
  <2>5. CASE Select(t, [job[t] EXCEPT !.pc = "sign"])
    <3>1. [job[t] EXCEPT !.pc = "sign"] \in AimedJob
      BY <1>1, <1>2, <2>1 DEF RevealSelect, At, AimedJob, Job, Aims, Label
    <3> QED
      BY <2>5, <3>1, SelectKeeps
  <2> QED
    BY <1>2, <2>2, <2>3, <2>4, <2>5 DEF RevealSelect
<1>3. CASE RevealSign(t)
  <2> DEFINE v == [cur[SessionRow(s)] EXCEPT !.status = "committed"]
  <2>1. s \in Session /\ [job[t] EXCEPT !.pc = "issue", !.did = @ \cup {s}] \in AimedJob
    BY <1>1, <1>3 DEF RevealSign, At, AimedJob, Job, Aims, Label
  <2>2. RequestsInv' /\ Write(t, SessionRow(s), v)
    BY <1>3, <2>1, UpdateRequests DEF RevealSign
  <2>3. v \in SessionValue /\ v.status \notin Active
    BY <2>1 DEF IInv, StorageInv, StorageTyped, SessionValue, Status, Active
  <2> QED
    BY <2>1, <2>2, <2>3, WriteInactive DEF IInv
<1>4. CASE RevealIssue(t)
  <2>1. [job[t] EXCEPT !.pc = "readReserve"] \in AimedJob
    BY <1>1, <1>4 DEF RevealIssue, At, AimedJob, Job, Aims, Label
  <2>2. RequestsInv' /\ \E v : Write(t, ReserveRow, v)
    BY <1>4, <2>1, UpdateRequests DEF RevealIssue
  <2> QED
    BY <2>2, Rows, WriteElsewhere DEF IInv
<1> QED
  BY <1>2, <1>3, <1>4

\* The SELECTs of cancelWithdrawal and of runGlobalCleanup.
LEMMA CloseKeeps ==
  ASSUME IInv, NEW t \in Tx, CancelSelect(t) \/ SweepSelect(t), late' = late
  PROVE  IInv'
<1>1. job[t] \in AimedJob
  BY DEF IInv, RequestsInv
<1>2. CASE CancelSelect(t)
  <2>1. job[t].sess \in Session
    BY <1>1, <1>2 DEF CancelSelect, At, AimedJob, Aims
  <2> QED
    BY <1>1, <1>2, <2>1, Refunds, SelectKeeps, ThrowKeeps DEF CancelSelect, Closed
<1>3. CASE SweepSelect(t)
  <2>1. ASSUME NEW s \in Expired(t), Select(t, Refunding(job[t], s, Expired(t) \ {s}, "expired"))
        PROVE  IInv'
    BY <1>1, <2>1, Refunds, SelectKeeps DEF Expired, Closed
  <2> QED
    BY <1>3, <2>1, ThrowKeeps DEF SweepSelect
<1> QED
  BY <1>2, <1>3

\* assertInvariant reads; the loop of a cleanup goes round; COMMIT.
LEMMA AssertKeeps ==
  ASSUME IInv, NEW t \in Tx, AssertAndCommit(t), late' = late
  PROVE  IInv'
<1>1. job[t] \in AimedJob /\ job \in [Tx -> AimedJob]
  BY DEF IInv, RequestsInv
<1>2. ASSUME NEW next \in AimedJob, job' = [job EXCEPT ![t] = next], UNCHANGED storage
      PROVE  IInv'
  <2>1. StorageInv'
    BY <1>2 DEF IInv, storage, StorageInv, StorageTyped, OneVersion, Apart, KeptApart, IsActive
  <2>2. RequestsInv'
    BY <1>2 DEF IInv, RequestsInv
  <2> QED
    BY <2>1, <2>2 DEF IInv
<1>3. CASE ReadReserve(t)
  <2>1. [job[t] EXCEPT !.pc = "readBalances"] \in AimedJob
    BY <1>1, <1>3 DEF ReadReserve, At, AimedJob, Job, Aims, Label
  <2> QED
    BY <1>1, <1>2, <1>3, <2>1 DEF ReadReserve, Goto
<1>4. CASE ReadBalances(t)
  <2>1. [job[t] EXCEPT !.pc = "readInFlight"] \in AimedJob
    BY <1>1, <1>4 DEF ReadBalances, At, AimedJob, Job, Aims, Label
  <2> QED
    BY <1>1, <1>2, <1>4, <2>1 DEF ReadBalances, Goto
<1>5. CASE ReadInFlight(t)
  <2>1. CASE Throw(t)
    BY <2>1, ThrowKeeps
  <2>2. CASE Goto(t, "commit") /\ UNCHANGED storage
    <3>1. [job[t] EXCEPT !.pc = "commit"] \in AimedJob
      BY <1>1 DEF AimedJob, Job, Aims, Label
    <3> QED
      BY <1>1, <1>2, <2>2, <3>1 DEF Goto
  <2>3. ASSUME NEW s \in job[t].todo, UNCHANGED storage,
               job' = [job EXCEPT ![t] = [job[t] EXCEPT !.pc = "refund", !.sess = s, !.todo = @ \ {s}]]
        PROVE  IInv'
    <3>1. [job[t] EXCEPT !.pc = "refund", !.sess = s, !.todo = @ \ {s}] \in AimedJob
      BY <1>1 DEF AimedJob, Job, Aims, Label
    <3> QED
      BY <1>1, <1>2, <2>3, <3>1
  <2> QED
    BY <1>5, <2>1, <2>2, <2>3 DEF ReadInFlight
<1>6. CASE CommitTx(t)
  <2> DEFINE next == IF job[t].then = "idle" THEN Idle
                     ELSE [Idle EXCEPT !.op = job[t].op, !.pc = job[t].then, !.opens = job[t].opens]
  <2>1. next \in AimedJob
    BY <1>1, IdleAims DEF Idle, AimedJob, Job, Aims, Label
  <2>2. StorageInv'
    BY <1>6, CommitKeeps DEF IInv, CommitTx
  <2>3. RequestsInv'
    BY <1>1, <1>6, <2>1 DEF IInv, RequestsInv, CommitTx
  <2> QED
    BY <2>2, <2>3 DEF IInv
<1> QED
  BY <1>3, <1>4, <1>5, <1>6 DEF AssertAndCommit

-----------------------------------------------------------------------------
(* The theorems                                                            *)

\* IInv holds in the initial states.
LEMMA InitIInv == DbInit => IInv
  BY InitStorage, IdleAims DEF IInv, RequestsInv, DbInit

\* Every step, a crash included, preserves IInv.
LEMMA NextIInv == IInv /\ [Next]_vars => IInv'
<1> SUFFICES ASSUME IInv, [Next]_vars PROVE IInv'
  OBVIOUS
<1>1. ASSUME NEW t \in Tx, Begin(t) PROVE IInv'
  BY <1>1, BeginKeeps
<1>2. ASSUME NEW t \in Tx, Step(t) PROVE IInv'
  BY <1>2, InitKeeps, SubmitKeeps, RevealKeeps, CloseKeeps, RefundKeeps, AssertKeeps
     DEF Step, Statement
<1>3. ASSUME NEW s \in Session, TtlElapses(s) PROVE IInv'
  <2>1. StorageInv'
    BY <1>3 DEF TtlElapses, IInv, storage, StorageInv, StorageTyped, OneVersion, Apart,
                KeptApart, IsActive
  <2>2. RequestsInv'
    BY <1>3 DEF TtlElapses, IInv, RequestsInv
  <2> QED
    BY <2>1, <2>2 DEF IInv
<1>4. CASE Crash
  BY <1>4, RollbackAllKeeps, IdleAims DEF Crash, IInv, RequestsInv
<1>5. CASE UNCHANGED vars
  <2>1. StorageInv'
    BY <1>5 DEF vars, IInv, storage, StorageInv, StorageTyped, OneVersion, Apart, KeptApart, IsActive
  <2>2. RequestsInv'
    BY <1>5 DEF vars, IInv, RequestsInv
  <2> QED
    BY <2>1, <2>2 DEF IInv
<1> QED
  BY <1>1, <1>2, <1>3, <1>4, <1>5 DEF Next

\* IInv is an invariant.
THEOREM Invariance == Spec => []IInv
  BY InitIInv, NextIInv, PTL DEF Spec

\* Type correctness of the tables' session rows, of the row locks and of the requests.
THEOREM TypeCorrect == Spec => [](StorageTyped /\ RequestsTyped)
<1>1. IInv => StorageTyped /\ RequestsTyped
  BY DEF IInv, StorageInv, RequestsInv, RequestsTyped, AimedJob
<1> QED
  BY <1>1, Invariance, PTL

\* At most one active session per customer is ever committed.
THEOREM OneActiveAlways == Spec => []OneActive
<1>1. IInv => OneActive
  BY DEF IInv, StorageInv, Apart, KeptApart, OneActive
<1> QED
  BY <1>1, Invariance, PTL

\* The row locks stay coherent: what is not locked has a single version.
THEOREM OneVersionAlways == Spec => []OneVersion
<1>1. IInv => OneVersion
  BY DEF IInv, StorageInv
<1> QED
  BY <1>1, Invariance, PTL

-----------------------------------------------------------------------------
(***************************************************************************)
(* Patient customers: the service implements the atomic ledger.  A request *)
(* has the rows of the customers it serves to itself, so what it has read  *)
(* is still so when it writes and when it commits.  Underway says, for each    *)
(* point of each handler, which rows the request holds, what is committed  *)
(* and what it has written.                                                *)
(***************************************************************************)
Served(request) == IF request.opens # NoSession THEN request.opens ELSE request.sess

\* The customers whose rows the request may touch.
Clients(request) ==
    IF request.op = "none" THEN {}
    ELSE IF request.op = "sweep" THEN User ELSE {Owner[Served(request)]}

Asserting == {"readReserve", "readBalances", "readInFlight", "commit"}

\* What the request has under way, from its first write on.
Debits(request) == /\ request.op = "init" /\ request.close = "none" /\ request.then = "idle"
                   /\ request.pc \in {"insert"} \cup Asserting
Opens(request) == Debits(request) /\ request.pc # "insert"
Submits(request) == request.op = "submit" /\ request.close = "none" /\ request.pc \in Asserting
Signs(request) == /\ request.op = "reveal" /\ request.close = "none"
                  /\ request.pc \in {"issue"} \cup Asserting
Issues(request) == Signs(request) /\ request.pc # "issue"
Closes(request) == request.close # "none"

\* The sessions whose refund is written, and those still to be written.
Paid(request) == request.did \cup (IF request.pc = "close" THEN {request.sess} ELSE {})
Unpaid(request) == request.todo \cup (IF request.pc = "refund" THEN {request.sess} ELSE {})

\* How the fields of a request go together.
Kinds(request) ==
    /\ request.pc = "idle" <=> request.op = "none"
    /\ IF request.op = "init" THEN request.opens \in Session ELSE request.opens = NoSession
    /\ request.op \in {"submit", "reveal", "cancel"} => request.sess \in Session
    /\ request.pc \in {"lazy", "balance", "debit", "insert"} => request.op = "init"
    /\ request.pc = "mark" => request.op = "submit"
    /\ request.pc \in {"sign", "issue"} => request.op = "reveal"
    /\ request.pc \in {"refund", "close"} => Closes(request) /\ request.sess \in Session
    /\ request.then = "select" => request.op = "init" /\ request.pc \in {"refund", "close"} \cup Asserting
    /\ request.pc = "mark" \/ Submits(request) => request.j \in Index
    /\ request.did = IF Signs(request) THEN {request.sess}
                     ELSE IF Closes(request) THEN request.did ELSE {}
    /\ ~Closes(request) => /\ request.todo = {}
                           /\ request.pc \in Asserting => request.op \in {"init", "submit", "reveal"}
    /\ Closes(request) =>
          /\ request.pc \in {"refund", "close"} \cup Asserting
          /\ request.op = "init" => request.then = "select"
          /\ request.op \in {"init", "sweep"} => request.close = "expired"
          /\ request.op \notin {"init", "sweep"} => request.todo = {} /\ request.did \subseteq {request.sess}
          /\ request.pc \in Asserting => request.did # {}
          /\ Paid(request) \cap Unpaid(request) = {}
          /\ request.pc \in {"refund", "close"} => request.sess \notin request.did \cup request.todo

\* The rows the request holds.
Holds(t, request) ==
    /\ \A s \in Session : lock[SessionRow(s)] = t <=>
          \/ Opens(request) /\ s = request.opens
          \/ (Submits(request) \/ Signs(request)) /\ s = request.sess
          \/ Closes(request) /\ s \in request.did
    /\ \A u \in User : lock[UserRow(u)] = t <=>
          \/ Debits(request) /\ u = Owner[request.opens]
          \/ Closes(request) /\ \E s \in Paid(request) : Owner[s] = u
    /\ lock[ReserveRow] = t <=> Issues(request)

\* What is committed of the rows the request has read.
Found(request) ==
    /\ request.op = "init" => db[SessionRow(request.opens)] = Absent
    /\ request.pc \in {"balance", "debit"} \/ Debits(request) =>
          \A s \in Session : Owner[s] = Owner[request.opens] => ~IsActive(db, s)
    /\ request.pc = "debit" \/ Debits(request) =>
          db[UserRow(Owner[request.opens])] >= Amount[request.opens]
    /\ request.pc = "mark" \/ Submits(request) => db[SessionRow(request.sess)].status = "pending"
    /\ request.pc = "sign" \/ Signs(request) => db[SessionRow(request.sess)].status = "submitted"
    /\ Closes(request) =>
          /\ \A s \in Paid(request) \cup Unpaid(request) : IsActive(db, s) /\ Owner[s] \in Clients(request)
          /\ request.close = "aborted" => db[SessionRow(request.sess)].status = "submitted"

\* What it has written.
Written(request) ==
    /\ Debits(request) => LET account == UserRow(Owner[request.opens])
                          IN  cur[account] = db[account] - Amount[request.opens]
    /\ Opens(request) => cur[SessionRow(request.opens)] = [status |-> "pending", j_index |-> NoIndex]
    /\ Submits(request) => cur[SessionRow(request.sess)] = [status |-> "submitted", j_index |-> request.j]
    /\ Signs(request) => cur[SessionRow(request.sess)] =
                            [status |-> "committed", j_index |-> db[SessionRow(request.sess)].j_index]
    /\ Issues(request) => cur[ReserveRow].total_issued = db[ReserveRow].total_issued + Amount[request.sess]
    /\ Closes(request) =>
          /\ \A s \in request.did : cur[SessionRow(s)] =
                                       [status |-> request.close, j_index |-> db[SessionRow(s)].j_index]
          /\ \A s \in Paid(request) : cur[UserRow(Owner[s])] = db[UserRow(Owner[s])] + Amount[s]

Underway(t, request) == Kinds(request) /\ Holds(t, request) /\ Found(request) /\ Written(request)

\* No two requests serve one customer.
Alone == \A t \in Tx : \A u \in Tx \ {t} : Clients(job[t]) \cap Clients(job[u]) = {}

\* Balances and rows are what they should be in both versions.
ReserveShaped(bank) ==
    bank = [reserve_balance |-> bank.reserve_balance, total_issued |-> bank.total_issued,
            total_redeemed |-> bank.total_redeemed]

TablesInv ==
    \A version \in {db, cur} :
        /\ \A u \in User : version[UserRow(u)] \in Nat
        /\ \A s \in Session : version[SessionRow(s)].status = "none" => version[SessionRow(s)] = Absent
        /\ ReserveShaped(version[ReserveRow])

PatientInv == TablesInv /\ Alone /\ \A t \in Tx : Underway(t, job[t])

\* The rows of the customers a request serves.
RowOf(request, row) ==
    \/ \E u \in Clients(request) : row = UserRow(u)
    \/ \E s \in Session : Owner[s] \in Clients(request) /\ row = SessionRow(s)

-----------------------------------------------------------------------------
(* The rows of a request are its own.                                      *)

\* Rows of different tables, and of different users, differ.
LEMMA RowsDiffer ==
    /\ \A u \in User, v \in User : UserRow(u) = UserRow(v) => u = v
    /\ \A u \in User : UserRow(u) # ReserveRow
    /\ \A r \in Row : \/ r = ReserveRow
                      \/ \E u \in User : r = UserRow(u)
                      \/ \E s \in Session : r = SessionRow(s)
  BY DEF Row, UserRow, SessionRow, ReserveRow

\* The session a request serves is one, and so its customers are.
LEMMA ServedTyped ==
  ASSUME NEW request \in Job, Kinds(request)
  PROVE  /\ request.op \notin {"none", "sweep"} => Served(request) \in Session
         /\ request.op = "init" => Served(request) = request.opens
         /\ request.op \in {"submit", "reveal", "cancel"} => Served(request) = request.sess
         /\ Clients(request) \subseteq User
<1>1. /\ request.op \notin {"none", "sweep"} => Served(request) \in Session
      /\ request.op = "init" => Served(request) = request.opens
      /\ request.op \in {"submit", "reveal", "cancel"} => Served(request) = request.sess
  BY NoValueAssumption DEF Kinds, Served, Job, Op
<1> QED
  BY <1>1, OwnerAssumption DEF Clients

\* The sessions a closing request has refunded or will refund belong to its customers,
\* and no two of them to the same one.
LEMMA Refunded ==
  ASSUME Apart, NEW t \in Tx, NEW request \in Job, Underway(t, request), Closes(request)
  PROVE  /\ Paid(request) \cup Unpaid(request) \subseteq Session
         /\ \A s \in Paid(request) \cup Unpaid(request) : IsActive(db, s) /\ Owner[s] \in Clients(request)
         /\ \A s, r \in Paid(request) \cup Unpaid(request) : Owner[s] = Owner[r] => s = r
<1>1. Paid(request) \cup Unpaid(request) \subseteq Session
  BY DEF Underway, Kinds, Paid, Unpaid, Job
<1>2. \A s \in Paid(request) \cup Unpaid(request) : IsActive(db, s) /\ Owner[s] \in Clients(request)
  BY DEF Underway, Found
<1> QED
  BY <1>1, <1>2 DEF Apart, KeptApart, Rival

\* What a request has locked is a row of its customers, or the reserve.
LEMMA HeldOwn ==
  ASSUME Apart, NEW t \in Tx, NEW request \in Job, Underway(t, request),
         NEW row \in Row, lock[row] = t, row # ReserveRow
  PROVE  RowOf(request, row)
<1>1. CASE \E u \in User : row = UserRow(u)
  <2>1. PICK u \in User : row = UserRow(u)
    BY <1>1
  <2>2. \/ Debits(request) /\ u = Owner[request.opens]
        \/ Closes(request) /\ \E s \in Paid(request) : Owner[s] = u
    BY <2>1 DEF Underway, Holds
  <2>3. u \in Clients(request)
    BY <2>2, ServedTyped, Refunded DEF Debits, Clients, Underway
  <2> QED
    BY <2>1, <2>3 DEF RowOf
<1>2. CASE \E s \in Session : row = SessionRow(s)
  <2>1. PICK s \in Session : row = SessionRow(s)
    BY <1>2
  <2>2. \/ Opens(request) /\ s = request.opens
        \/ (Submits(request) \/ Signs(request)) /\ s = request.sess
        \/ Closes(request) /\ s \in request.did
    BY <2>1 DEF Underway, Holds
  <2>3. Owner[s] \in Clients(request)
    BY <2>2, ServedTyped, Refunded DEF Opens, Debits, Submits, Signs, Paid, Clients, Underway
  <2> QED
    BY <2>1, <2>3 DEF RowOf
<1> QED
  BY <1>1, <1>2, RowsDiffer

\* A step that leaves alone the locks and the rows of a request leaves what it knows true.
LEMMA LeftAlone ==
  ASSUME Apart, NEW t \in Tx, NEW request \in Job, Underway(t, request),
         \A row \in Row : lock'[row] = t <=> lock[row] = t,
         \A row \in Row : lock[row] = t \/ RowOf(request, row) =>
                             db'[row] = db[row] /\ cur'[row] = cur[row]
  PROVE  Underway(t, request)'
<1>1. \A u \in Clients(request) : u \in User /\ /\ db'[UserRow(u)] = db[UserRow(u)]
                                               /\ cur'[UserRow(u)] = cur[UserRow(u)]
  <2> SUFFICES ASSUME NEW u \in Clients(request)
               PROVE  u \in User /\ /\ db'[UserRow(u)] = db[UserRow(u)]
                                    /\ cur'[UserRow(u)] = cur[UserRow(u)]
    OBVIOUS
  <2>1. u \in User
    BY ServedTyped DEF Underway
  <2>2. UserRow(u) \in Row /\ RowOf(request, UserRow(u))
    BY <2>1, Rows DEF RowOf
  <2> QED
    BY <2>1, <2>2
<1>2. \A s \in Session : Owner[s] \in Clients(request) =>
          /\ db'[SessionRow(s)] = db[SessionRow(s)]
          /\ cur'[SessionRow(s)] = cur[SessionRow(s)]
  BY Rows DEF RowOf
<1>3. Kinds(request)
  BY DEF Underway
<1>4. Holds(t, request)'
  BY Rows DEF Underway, Holds
<1>5. request.op = "init" =>
          /\ db'[SessionRow(request.opens)] = db[SessionRow(request.opens)]
          /\ cur'[SessionRow(request.opens)] = cur[SessionRow(request.opens)]
          /\ db'[UserRow(Owner[request.opens])] = db[UserRow(Owner[request.opens])]
          /\ cur'[UserRow(Owner[request.opens])] = cur[UserRow(Owner[request.opens])]
          /\ \A s \in Session : Owner[s] = Owner[request.opens] =>
                                  (IsActive(db, s)' <=> IsActive(db, s))
  BY <1>1, <1>2, <1>3, ServedTyped DEF Clients, IsActive
<1>6. request.op \in {"submit", "reveal", "cancel"} =>
          /\ db'[SessionRow(request.sess)] = db[SessionRow(request.sess)]
          /\ cur'[SessionRow(request.sess)] = cur[SessionRow(request.sess)]
  BY <1>2, <1>3, ServedTyped DEF Clients
<1>7. Closes(request) => \A s \in Paid(request) \cup Unpaid(request) :
          /\ db'[SessionRow(s)] = db[SessionRow(s)]
          /\ cur'[SessionRow(s)] = cur[SessionRow(s)]
          /\ db'[UserRow(Owner[s])] = db[UserRow(Owner[s])]
          /\ cur'[UserRow(Owner[s])] = cur[UserRow(Owner[s])]
          /\ IsActive(db, s)' <=> IsActive(db, s)
  BY <1>1, <1>2, Refunded DEF IsActive
<1>8. Issues(request) => /\ db'[ReserveRow] = db[ReserveRow]
                         /\ cur'[ReserveRow] = cur[ReserveRow]
  BY Rows DEF Underway, Holds
<1>9. Found(request)'
  <2>1. /\ request.pc \in {"balance", "debit"} \/ Debits(request) => request.op = "init"
        /\ request.pc = "mark" \/ Submits(request) => request.op = "submit"
        /\ request.pc = "sign" \/ Signs(request) => request.op = "reveal"
    BY <1>3 DEF Kinds, Debits, Submits, Signs
  <2>2. Closes(request) /\ request.close = "aborted" => request.op \in {"submit", "reveal", "cancel"}
    BY <1>3 DEF Kinds, Closes, Job, Op, Asserting
  <2>3. Found(request)
    BY DEF Underway
  <2>4. \A s \in Paid(request) \cup Unpaid(request) :
             Closes(request) => IsActive(db, s)' /\ Owner[s] \in Clients(request)
    BY <1>7, <2>3 DEF Found
  <2>5. request.pc \in {"balance", "debit"} \/ Debits(request) =>
           \A s \in Session : Owner[s] = Owner[request.opens] => ~IsActive(db, s)'
    BY <1>5, <2>1, <2>3 DEF Found
  <2> QED
    BY <1>5, <1>6, <2>1, <2>2, <2>3, <2>4, <2>5 DEF Found
<1>10. Written(request)'
  <2>1. /\ Debits(request) => request.op = "init"
        /\ Opens(request) => request.op = "init"
        /\ Submits(request) => request.op = "submit"
        /\ Signs(request) => request.op = "reveal"
    BY DEF Debits, Opens, Submits, Signs
  <2>2. Written(request)
    BY DEF Underway
  <2>3. Closes(request) =>
          /\ \A s \in request.did : cur'[SessionRow(s)] =
                 [status |-> request.close, j_index |-> db'[SessionRow(s)].j_index]
          /\ \A s \in Paid(request) : cur'[UserRow(Owner[s])] = db'[UserRow(Owner[s])] + Amount[s]
    BY <1>7, <2>2 DEF Written, Paid
  <2> QED
    BY <1>5, <1>6, <1>8, <2>1, <2>2, <2>3 DEF Written
<1> QED
  BY <1>3, <1>4, <1>9, <1>10 DEF Underway

-----------------------------------------------------------------------------
(* A step of one request leaves the others what they have.                 *)

\* The part of PatientInv that is about the requests other than t, and about who they serve.
LEMMA OthersKeep ==
  ASSUME IInv, PatientInv, NEW t \in Tx, NEW next \in Job,
         job' = [job EXCEPT ![t] = next],
         Clients(next) \subseteq Clients(job[t]),
         lock' \in [Row -> Tx \cup {NoTx}],
         \A row \in Row : lock'[row] # lock[row] => {lock[row], lock'[row]} \subseteq {t, NoTx},
         \A row \in Row : db'[row] # db[row] \/ cur'[row] # cur[row] =>
                             /\ lock[row] \in {t, NoTx}
                             /\ RowOf(job[t], row) \/ row = ReserveRow
  PROVE  Alone' /\ \A u \in Tx \ {t} : Underway(u, job[u])'
<1>1. job \in [Tx -> Job] /\ Apart
  BY DEF IInv, StorageInv, RequestsInv, AimedJob
<1>2. job'[t] = next /\ \A u \in Tx \ {t} : job'[u] = job[u]
  BY <1>1
<1>3. Alone'
  BY <1>2 DEF PatientInv, Alone, Clients
<1>4. ASSUME NEW u \in Tx \ {t}
      PROVE  Underway(u, job[u])'
  <2>1. PICK request \in Job : request = job[u]
    BY <1>1
  <2>2. Underway(u, request) /\ Clients(job[t]) \cap Clients(request) = {}
    BY <2>1 DEF PatientInv, Alone
  <2>3. \A row \in Row : lock'[row] = u <=> lock[row] = u
    BY NoValueAssumption
  <2>4. ASSUME NEW row \in Row, lock[row] = u \/ RowOf(request, row)
        PROVE  db'[row] = db[row] /\ cur'[row] = cur[row]
    <3>1. CASE lock[row] = u
      BY <3>1, NoValueAssumption
    <3>2. CASE RowOf(request, row)
      <4>1. Clients(request) \subseteq User /\ Clients(job[t]) \subseteq User
        BY <1>1, <2>2, ServedTyped DEF PatientInv, Underway
      <4>2. row # ReserveRow
        BY <3>2, <4>1, Rows, RowsDiffer DEF RowOf
      <4>3. ~RowOf(job[t], row)
        <5> SUFFICES ASSUME RowOf(job[t], row) PROVE FALSE
          OBVIOUS
        <5>1. CASE \E v \in Clients(request) : row = UserRow(v)
          BY <2>2, <4>1, <5>1, Rows, RowsDiffer DEF RowOf
        <5>2. CASE \E s \in Session : Owner[s] \in Clients(request) /\ row = SessionRow(s)
          BY <2>2, <4>1, <5>2, Rows, RowsDiffer DEF RowOf
        <5> QED
          BY <3>2, <5>1, <5>2 DEF RowOf
      <4> QED
        BY <4>2, <4>3
    <3> QED
      BY <2>4, <3>1, <3>2
  <2>5. Underway(u, request)'
    BY <1>1, <2>2, <2>3, <2>4, LeftAlone
  <2> QED
    BY <1>2, <2>1, <2>5
<1> QED
  BY <1>3, <1>4

\* A SELECT, or a step of the handler between two statements.
LEMMA ReadStep ==
  ASSUME IInv, PatientInv, NEW t \in Tx, NEW next \in Job,
         job' = [job EXCEPT ![t] = next], UNCHANGED storage,
         Clients(next) \subseteq Clients(job[t]),
         Underway(t, next)
  PROVE  PatientInv'
<1>1. UNCHANGED <<db, cur, lock>>
  BY DEF storage
<1>2. lock' \in [Row -> Tx \cup {NoTx}] /\ job \in [Tx -> Job]
  BY <1>1 DEF IInv, StorageInv, StorageTyped, RequestsInv, AimedJob
<1>3. Alone' /\ \A u \in Tx \ {t} : Underway(u, job[u])'
  BY <1>1, <1>2, OthersKeep
<1>4. TablesInv'
  BY <1>1 DEF PatientInv, TablesInv, ReserveShaped
<1>5. Underway(t, next)'
  BY <1>1 DEF Underway, Holds, Found, Written, IsActive
<1>6. job'[t] = next
  BY <1>2
<1>7. Underway(t, job[t])'
  BY <1>5, <1>6
<1> QED
  BY <1>3, <1>4, <1>7 DEF PatientInv

\* An UPDATE or INSERT of a row that no other request may touch, or of the reserve.
LEMMA WriteStep ==
  ASSUME IInv, PatientInv, NEW t \in Tx, NEW next \in Job, NEW row \in Row, NEW v,
         Update(t, row, v, next),
         RowOf(job[t], row) \/ row = ReserveRow,
         Clients(next) \subseteq Clients(job[t])
  PROVE  /\ Alone' /\ \A u \in Tx \ {t} : Underway(u, job[u])'
         /\ job'[t] = next
         /\ lock[row] \in {t, NoTx}
         /\ db' = db /\ cur'[row] = v /\ lock'[row] = t
         /\ \A r \in Row \ {row} : cur'[r] = cur[r] /\ lock'[r] = lock[r]
<1>1. job \in [Tx -> Job] /\ lock \in [Row -> Tx \cup {NoTx}] /\ cur = [r \in Row |-> cur[r]]
  BY DEF IInv, StorageInv, StorageTyped, RequestsInv, AimedJob
<1>2. /\ job' = [job EXCEPT ![t] = next]
      /\ lock[row] \in {t, NoTx}
      /\ cur' = [cur EXCEPT ![row] = v]
      /\ lock' = [lock EXCEPT ![row] = t]
      /\ db' = db
  BY DEF Update, Write, Writable
<1>3. /\ cur'[row] = v /\ lock'[row] = t /\ job'[t] = next
      /\ \A r \in Row \ {row} : cur'[r] = cur[r] /\ lock'[r] = lock[r]
  BY <1>1, <1>2
<1>4. lock' \in [Row -> Tx \cup {NoTx}]
  BY <1>1, <1>2
<1>5. \A r \in Row : lock'[r] # lock[r] => {lock[r], lock'[r]} \subseteq {t, NoTx}
  BY <1>2, <1>3
<1>6. \A r \in Row : db'[r] # db[r] \/ cur'[r] # cur[r] =>
           lock[r] \in {t, NoTx} /\ (RowOf(job[t], r) \/ r = ReserveRow)
  BY <1>2, <1>3
<1>7. Alone' /\ \A u \in Tx \ {t} : Underway(u, job[u])'
  BY <1>2, <1>4, <1>5, <1>6, OthersKeep
<1> QED
  BY <1>2, <1>3, <1>7

\* A connection that serves nobody holds nothing, and that is all.
LEMMA IdleUnderway ==
  ASSUME NEW t \in Tx
  PROVE  /\ Underway(t, Idle) <=> \A row \in Row : lock[row] # t
         /\ (\A row \in Row : lock'[row] # t) => Underway(t, Idle)'
<1>1. /\ Kinds(Idle)
      /\ ~Debits(Idle) /\ ~Opens(Idle) /\ ~Submits(Idle) /\ ~Signs(Idle) /\ ~Issues(Idle) /\ ~Closes(Idle)
  BY DEF Idle, Kinds, Debits, Opens, Submits, Signs, Issues, Closes, Asserting
<1>2. Found(Idle) /\ Written(Idle) /\ Found(Idle)' /\ Written(Idle)'
  BY <1>1 DEF Idle, Found, Written
<1>3. Holds(t, Idle) <=> \A row \in Row : lock[row] # t
  BY <1>1, Rows, RowsDiffer DEF Holds
<1>4. (\A row \in Row : lock'[row] # t) => Holds(t, Idle)'
  BY <1>1, Rows DEF Holds
<1> QED
  BY <1>1, <1>2, <1>3, <1>4 DEF Underway

\* ROLLBACK: the request is forgotten with all it has written.
LEMMA ThrowStep ==
  ASSUME IInv, PatientInv, NEW t \in Tx, Throw(t)
  PROVE  PatientInv'
<1>1. /\ job \in [Tx -> Job] /\ Idle \in Job /\ Apart /\ Underway(t, job[t])
      /\ lock \in [Row -> Tx \cup {NoTx}]
  BY IdleAims DEF IInv, StorageInv, StorageTyped, RequestsInv, AimedJob, PatientInv
<1>2. /\ job' = [job EXCEPT ![t] = Idle]
      /\ db' = db
      /\ \A r \in Row : cur'[r] = IF lock[r] = t THEN db[r] ELSE cur[r]
      /\ \A r \in Row : lock'[r] = IF lock[r] = t THEN NoTx ELSE lock[r]
      /\ lock' \in [Row -> Tx \cup {NoTx}]
  BY <1>1 DEF Throw, Rollback, Release
<1>3. \A row \in Row : db'[row] # db[row] \/ cur'[row] # cur[row] =>
           lock[row] \in {t, NoTx} /\ (RowOf(job[t], row) \/ row = ReserveRow)
  BY <1>1, <1>2, HeldOwn
<1>4. Clients(Idle) \subseteq Clients(job[t])
  BY DEF Clients, Idle
<1>5. Alone' /\ \A u \in Tx \ {t} : Underway(u, job[u])'
  BY <1>1, <1>2, <1>3, <1>4, OthersKeep
<1>6. TablesInv'
  BY <1>2, Rows DEF PatientInv, TablesInv, ReserveShaped
<1>7. \A row \in Row : lock'[row] # t
  BY <1>2, NoValueAssumption
<1>8. job'[t] = Idle
  BY <1>1, <1>2
<1>9. Underway(t, Idle)'
  BY <1>7, IdleUnderway
<1>10. Underway(t, job[t])'
  BY <1>8, <1>9
<1> QED
  BY <1>5, <1>6, <1>10 DEF PatientInv

-----------------------------------------------------------------------------
(* The statements that only read.                                          *)

Unwritten == {"lazy", "select", "balance", "debit", "mark", "sign"}

\* Until its first write a request holds nothing and reads what is committed.
LEMMA NothingHeld ==
  ASSUME NEW t \in Tx, NEW request \in Job, Underway(t, request), request.pc \in Unwritten
  PROVE  /\ \A row \in Row : lock[row] # t
         /\ \A row \in Row : Read(t, row) = db[row] /\ View(t)[row] = db[row]
         /\ request.did = {} /\ request.todo = {} /\ request.close = "none" /\ request.then = "idle"
<1>1. /\ ~Debits(request) /\ ~Opens(request) /\ ~Submits(request) /\ ~Signs(request)
      /\ ~Issues(request) /\ ~Closes(request)
  BY DEF Underway, Kinds, Unwritten, Asserting, Debits, Opens, Submits, Signs, Issues, Closes
<1>2. \A row \in Row : lock[row] # t
  BY <1>1, RowsDiffer DEF Underway, Holds
<1>3. \A row \in Row : Read(t, row) = db[row] /\ View(t)[row] = db[row]
  BY <1>2 DEF Read, View
<1>4. request.then = "idle"
  BY DEF Underway, Kinds, Unwritten, Asserting, Job
<1> QED
  BY <1>1, <1>2, <1>3, <1>4 DEF Underway, Kinds, Closes

\* A request that has written nothing turns to its next statement, with what it has found.
LEMMA GoesOn ==
  ASSUME NEW t \in Tx, NEW request \in Job, Underway(t, request), request.pc \in Unwritten,
         NEW next \in Job, next.pc \in Unwritten,
         /\ next.op = request.op /\ next.opens = request.opens /\ next.sess = request.sess
         /\ next.todo = {} /\ next.close = "none" /\ next.then = "idle" /\ next.did = {},
         next.pc \in {"lazy", "balance", "debit"} => next.op = "init",
         next.pc = "mark" => next.op = "submit" /\ next.j \in Index,
         next.pc = "sign" => next.op = "reveal",
         Found(next)
  PROVE  Underway(t, next) /\ Clients(next) = Clients(request)
<1>1. /\ ~Debits(next) /\ ~Opens(next) /\ ~Submits(next) /\ ~Signs(next)
      /\ ~Issues(next) /\ ~Closes(next)
  BY DEF Unwritten, Asserting, Debits, Opens, Submits, Signs, Issues, Closes
<1>2. request.op # "none"
  BY DEF Underway, Kinds, Unwritten
<1>3. Kinds(next)
  BY <1>1, <1>2 DEF Underway, Kinds, Unwritten, Asserting
<1>4. \A row \in Row : lock[row] # t
  BY NothingHeld
<1>5. Holds(t, next)
  BY <1>1, <1>4, Rows DEF Holds
<1>6. Written(next)
  BY <1>1 DEF Written
<1>7. Clients(next) = Clients(request)
  BY DEF Clients, Served
<1> QED
  BY <1>3, <1>5, <1>6, <1>7 DEF Underway

\* A request that has written nothing turns to refunding sessions it has found active.
LEMMA TurnsToRefund ==
  ASSUME NEW t \in Tx, NEW request \in Job, Underway(t, request),
         request.pc \in {"lazy", "select"},
         NEW next \in Job, NEW s \in Session, NEW rest \in SUBSET (Session \ {s}),
         /\ next.op = request.op /\ next.opens = request.opens
         /\ next.pc = "refund" /\ next.sess = s /\ next.todo = rest /\ next.did = {}
         /\ next.close \in Closed,
         next.then = (IF request.op = "init" THEN "select" ELSE "idle"),
         request.op \in {"init", "sweep"} => next.close = "expired",
         request.op \notin {"init", "sweep"} => rest = {} /\ s = request.sess,
         \A r \in {s} \cup rest : IsActive(db, r) /\ Owner[r] \in Clients(request),
         next.close = "aborted" => db[SessionRow(s)].status = "submitted"
  PROVE  Underway(t, next) /\ Clients(next) = Clients(request)
<1>1. /\ ~Debits(next) /\ ~Opens(next) /\ ~Submits(next) /\ ~Signs(next)
      /\ ~Issues(next) /\ Closes(next)
  BY DEF Asserting, Debits, Opens, Submits, Signs, Issues, Closes, Closed
<1>2. request.op # "none" /\ Kinds(request)
  BY DEF Underway, Kinds
<1>3. Paid(next) = {} /\ Unpaid(next) = {s} \cup rest
  BY DEF Paid, Unpaid
<1>4. Kinds(next)
  BY <1>1, <1>2, <1>3 DEF Kinds, Asserting
<1>5. \A row \in Row : lock[row] # t
  BY NothingHeld DEF Unwritten
<1>6. Holds(t, next)
  BY <1>1, <1>3, <1>5, Rows DEF Holds
<1>7. Clients(next) = Clients(request)
  BY <1>2, ServedTyped, <1>4 DEF Clients, Kinds, Served
<1>8. Found(next)
  <2>1. request.op = "init" => db[SessionRow(request.opens)] = Absent
    BY DEF Underway, Found
  <2> QED
    BY <1>1, <1>3, <1>7, <2>1 DEF Found
<1>9. Written(next)
  BY <1>1, <1>3 DEF Written
<1> QED
  BY <1>4, <1>6, <1>7, <1>8, <1>9 DEF Underway

\* What the statements of a request start from.
LEMMA Requests ==
  ASSUME IInv, PatientInv, NEW t \in Tx
  PROVE  /\ job \in [Tx -> Job] /\ job[t] \in Job /\ Apart
         /\ Underway(t, job[t]) /\ Kinds(job[t]) /\ Found(job[t])
         /\ Clients(job[t]) \subseteq User
<1>1. job \in [Tx -> Job] /\ job[t] \in Job /\ Apart
  BY DEF IInv, StorageInv, RequestsInv, AimedJob
<1>2. Underway(t, job[t]) /\ Kinds(job[t]) /\ Found(job[t])
  BY DEF PatientInv, Underway
<1> QED
  BY <1>1, <1>2, ServedTyped

\* The sessions a request finds expired are active as committed.
LEMMA ExpiredActive ==
  ASSUME IInv, PatientInv, NEW t \in Tx, job[t].pc \in {"lazy", "select"}
  PROVE  \A s \in Expired(t) : s \in Session /\ IsActive(db, s)
  BY Requests, NothingHeld, Rows DEF Unwritten, Expired, IsActive

\* The SELECT of the lazy cleanup.
LEMMA LazyPatient ==
  ASSUME IInv, PatientInv, NEW t \in Tx, LazyCleanup(t)
  PROVE  PatientInv'
<1> DEFINE mine == {s \in Session : Owner[s] = Owner[job[t].opens]}
           request == [job[t] EXCEPT !.then = "select"]
<1>1. /\ job[t] \in Job /\ Underway(t, job[t]) /\ Kinds(job[t]) /\ Found(job[t])
      /\ job[t].pc = "lazy" /\ job[t].op = "init"
      /\ job[t].opens \in Session
  BY Requests DEF LazyCleanup, At, Kinds
<1>2. Clients(job[t]) = {Owner[job[t].opens]}
  BY <1>1, ServedTyped DEF Clients
<1>3. /\ \A row \in Row : lock[row] # t
      /\ job[t].did = {} /\ job[t].todo = {} /\ job[t].close = "none"
  BY <1>1, NothingHeld DEF Unwritten
<1>4. CASE Select(t, [request EXCEPT !.pc = "readReserve"])
  <2>1. PICK next : next = [request EXCEPT !.pc = "readReserve"]
    OBVIOUS
  <2>2. /\ next \in Job
        /\ next.op = "init" /\ next.pc = "readReserve" /\ next.then = "select"
        /\ next.opens = job[t].opens /\ next.did = {} /\ next.todo = {} /\ next.close = "none"
    BY <1>1, <1>3, <2>1 DEF Job, Label
  <2>3. /\ ~Debits(next) /\ ~Opens(next) /\ ~Submits(next) /\ ~Signs(next)
        /\ ~Issues(next) /\ ~Closes(next)
    BY <2>2 DEF Debits, Opens, Submits, Signs, Issues, Closes
  <2>4. Kinds(next)
    BY <1>1, <2>2, <2>3 DEF Kinds, Asserting
  <2>5. Holds(t, next) /\ Written(next)
    BY <1>3, <2>3, Rows DEF Holds, Written
  <2>6. Found(next)
    BY <1>1, <2>2, <2>3 DEF Found
  <2>7. Clients(next) = Clients(job[t])
    BY <1>1, <1>2, <2>2, NoValueAssumption DEF Clients, Served
  <2> QED
    BY <1>4, <2>1, <2>2, <2>4, <2>5, <2>6, <2>7, ReadStep DEF Select, Underway
<1>5. ASSUME NEW s \in Expired(t) \cap mine,
             Select(t, Refunding(request, s, (Expired(t) \cap mine) \ {s}, "expired"))
      PROVE  PatientInv'
  <2>1. PICK rest : rest = (Expired(t) \cap mine) \ {s}
    OBVIOUS
  <2>2. PICK next : next = Refunding(request, s, rest, "expired")
    OBVIOUS
  <2>3. \A r \in {s} \cup rest : r \in Session /\ IsActive(db, r) /\ Owner[r] \in Clients(job[t])
    BY <1>1, <1>2, <2>1, ExpiredActive
  <2>4. /\ next \in Job
        /\ next.op = job[t].op /\ next.opens = job[t].opens
        /\ next.pc = "refund" /\ next.sess = s /\ next.todo = rest /\ next.did = {}
        /\ next.close = "expired" /\ next.then = "select"
    BY <1>1, <1>3, <2>2, <2>3 DEF Refunding, Job, Label, Closed
  <2>5. rest \in SUBSET (Session \ {s})
    BY <2>1, <2>3
  <2>6. Underway(t, next) /\ Clients(next) = Clients(job[t])
    BY <1>1, <2>3, <2>4, <2>5, TurnsToRefund DEF Closed
  <2> QED
    BY <1>5, <2>1, <2>2, <2>4, <2>6, ReadStep DEF Select
<1> QED
  BY <1>4, <1>5 DEF LazyCleanup

\* The SELECTs of init.
LEMMA InitReadsPatient ==
  ASSUME IInv, PatientInv, NEW t \in Tx, InitSelect(t) \/ InitBalance(t)
  PROVE  PatientInv'
<1>1. /\ job[t] \in Job /\ Underway(t, job[t]) /\ Kinds(job[t]) /\ Found(job[t])
      /\ job[t].pc \in Unwritten /\ job[t].op = "init" /\ job[t].opens \in Session
  BY Requests DEF InitSelect, InitBalance, At, Kinds, Unwritten
<1>2. /\ \A row \in Row : Read(t, row) = db[row] /\ View(t)[row] = db[row]
      /\ job[t].did = {} /\ job[t].todo = {} /\ job[t].close = "none" /\ job[t].then = "idle"
  BY <1>1, NothingHeld
<1>3. CASE Throw(t)
  BY <1>3, ThrowStep
<1>4. ASSUME NEW label \in {"balance", "debit"}, Select(t, [job[t] EXCEPT !.pc = label]),
             \A s \in Session : Owner[s] = Owner[job[t].opens] => ~IsActive(db, s),
             label = "debit" => db[UserRow(Owner[job[t].opens])] >= Amount[job[t].opens]
      PROVE  PatientInv'
  <2>1. PICK next : next = [job[t] EXCEPT !.pc = label]
    OBVIOUS
  <2>2. /\ next \in Job /\ next.pc = label
        /\ next.op = job[t].op /\ next.opens = job[t].opens /\ next.sess = job[t].sess
        /\ next.todo = {} /\ next.close = "none" /\ next.then = "idle" /\ next.did = {}
    BY <1>1, <1>2, <2>1 DEF Job, Label
  <2>3. Found(next)
    BY <1>1, <1>4, <2>2 DEF Found, Debits, Submits, Signs, Closes, Asserting
  <2>4. Underway(t, next) /\ Clients(next) = Clients(job[t])
    BY <1>1, <2>2, <2>3, GoesOn DEF Unwritten
  <2> QED
    BY <1>4, <2>1, <2>2, <2>4, ReadStep DEF Select
<1>5. CASE InitSelect(t)
  BY <1>2, <1>3, <1>4, <1>5, Rows DEF InitSelect, IsActive
<1>6. CASE InitBalance(t)
  <2>1. UserRow(Owner[job[t].opens]) \in Row
    BY <1>1, Rows, OwnerAssumption
  <2>2. \A s \in Session : Owner[s] = Owner[job[t].opens] => ~IsActive(db, s)
    BY <1>1, <1>6 DEF InitBalance, At, Found
  <2>3. db[UserRow(Owner[job[t].opens])] \in Nat /\ Amount[job[t].opens] \in Nat
    BY <1>1, OwnerAssumption, AmountAssumption DEF PatientInv, TablesInv
  <2> QED
    BY <1>2, <1>3, <1>4, <1>6, <2>1, <2>2, <2>3 DEF InitBalance
<1> QED
  BY <1>5, <1>6

\* The SELECTs of submit, reveal, cancel and the sweep.
LEMMA SelectsPatient ==
  ASSUME IInv, PatientInv, NEW t \in Tx,
         SubmitSelect(t) \/ RevealSelect(t) \/ CancelSelect(t) \/ SweepSelect(t)
  PROVE  PatientInv'
<1> DEFINE s == job[t].sess
<1>1. /\ job[t] \in Job /\ Underway(t, job[t]) /\ Kinds(job[t]) /\ Found(job[t])
      /\ job[t].pc = "select" /\ job[t].op \in {"submit", "reveal", "cancel", "sweep"}
      /\ job[t].opens = NoSession
      /\ job[t].op # "sweep" => s \in Session
  BY Requests DEF SubmitSelect, RevealSelect, CancelSelect, SweepSelect, At, Kinds
<1>2. /\ \A row \in Row : Read(t, row) = db[row] /\ View(t)[row] = db[row]
      /\ job[t].did = {} /\ job[t].todo = {} /\ job[t].close = "none" /\ job[t].then = "idle"
  BY <1>1, NothingHeld DEF Unwritten
<1>3. CASE Throw(t)
  BY <1>3, ThrowStep
<1>4. job[t].op # "sweep" => /\ Selected(t) = db[SessionRow(s)]
                             /\ Owner[s] \in Clients(job[t])
  BY <1>1, <1>2, Rows, ServedTyped DEF Selected, Clients
<1>5. ASSUME NEW how \in Closed, Select(t, Refunding(job[t], s, {}, how)),
             job[t].op # "sweep", Selected(t).status \in Active,
             how = "aborted" => Selected(t).status = "submitted"
      PROVE  PatientInv'
  <2>1. PICK next : next = Refunding(job[t], s, {}, how)
    OBVIOUS
  <2>2. /\ next \in Job
        /\ next.op = job[t].op /\ next.opens = job[t].opens
        /\ next.pc = "refund" /\ next.sess = s /\ next.todo = {} /\ next.did = {}
        /\ next.close = how /\ next.then = "idle"
    BY <1>1, <1>2, <1>5, <2>1 DEF Refunding, Job, Label
  <2>3. IsActive(db, s) /\ Owner[s] \in Clients(job[t])
    BY <1>4, <1>5 DEF IsActive
  <2>4. Underway(t, next) /\ Clients(next) = Clients(job[t])
    BY <1>1, <1>4, <1>5, <2>2, <2>3, TurnsToRefund
  <2> QED
    BY <1>5, <2>1, <2>2, <2>4, ReadStep DEF Select
<1>6. CASE SubmitSelect(t)
  <2>1. CASE ExpireOnUse(t) /\ Selected(t).status = "pending"
    BY <1>5, <1>6, <2>1 DEF SubmitSelect, ExpireOnUse, Active, Closed
  <2>2. ASSUME NEW j \in Index, Select(t, [job[t] EXCEPT !.pc = "mark", !.j = j]),
               Selected(t).status = "pending"
        PROVE  PatientInv'
    <3>1. PICK next : next = [job[t] EXCEPT !.pc = "mark", !.j = j]
      OBVIOUS
    <3>2. /\ next \in Job /\ next.pc = "mark" /\ next.j = j
          /\ next.op = job[t].op /\ next.opens = job[t].opens /\ next.sess = s
          /\ next.todo = {} /\ next.close = "none" /\ next.then = "idle" /\ next.did = {}
      BY <1>1, <1>2, <3>1 DEF Job, Label
    <3>3. job[t].op = "submit"
      BY <1>6 DEF SubmitSelect
    <3>4. Found(next)
      BY <1>4, <2>2, <3>2, <3>3 DEF Found, Debits, Submits, Signs, Closes, Asserting
    <3>5. Underway(t, next) /\ Clients(next) = Clients(job[t])
      BY <1>1, <2>2, <3>2, <3>3, <3>4, GoesOn DEF Unwritten
    <3> QED
      BY <2>2, <3>1, <3>2, <3>5, ReadStep DEF Select
  <2> QED
    BY <1>3, <1>6, <2>1, <2>2 DEF SubmitSelect
<1>7. CASE RevealSelect(t)
  <2>1. CASE ExpireOnUse(t) /\ Selected(t).status = "submitted"
    BY <1>5, <1>7, <2>1 DEF RevealSelect, ExpireOnUse, Active, Closed
  <2>2. CASE Select(t, Refunding(job[t], s, {}, "aborted")) /\ Selected(t).status = "submitted"
    BY <1>5, <1>7, <2>2 DEF RevealSelect, Active, Closed
  <2>3. CASE Select(t, [job[t] EXCEPT !.pc = "sign"]) /\ Selected(t).status = "submitted"
    <3>1. PICK next : next = [job[t] EXCEPT !.pc = "sign"]
      OBVIOUS
    <3>2. /\ next \in Job /\ next.pc = "sign"
          /\ next.op = job[t].op /\ next.opens = job[t].opens /\ next.sess = s
          /\ next.todo = {} /\ next.close = "none" /\ next.then = "idle" /\ next.did = {}
      BY <1>1, <1>2, <3>1 DEF Job, Label
    <3>3. job[t].op = "reveal"
      BY <1>7 DEF RevealSelect
    <3>4. Found(next)
      BY <1>4, <2>3, <3>2, <3>3 DEF Found, Debits, Submits, Signs, Closes, Asserting
    <3>5. Underway(t, next) /\ Clients(next) = Clients(job[t])
      BY <1>1, <3>2, <3>3, <3>4, GoesOn DEF Unwritten
    <3> QED
      BY <2>3, <3>1, <3>2, <3>5, ReadStep DEF Select
  <2> QED
    BY <1>3, <1>7, <2>1, <2>2, <2>3 DEF RevealSelect
<1>8. CASE CancelSelect(t)
  BY <1>3, <1>5, <1>8 DEF CancelSelect, Closed
<1>9. CASE SweepSelect(t)
  <2>1. ASSUME NEW r \in Expired(t), Select(t, Refunding(job[t], r, Expired(t) \ {r}, "expired"))
        PROVE  PatientInv'
    <3>1. PICK rest : rest = Expired(t) \ {r}
      OBVIOUS
    <3>2. PICK next : next = Refunding(job[t], r, rest, "expired")
      OBVIOUS
    <3>3. job[t].op = "sweep" /\ Clients(job[t]) = User
      BY <1>9 DEF SweepSelect, Clients
    <3>4. \A q \in {r} \cup rest : q \in Session /\ IsActive(db, q) /\ Owner[q] \in Clients(job[t])
      BY <1>1, <3>1, <3>3, ExpiredActive, OwnerAssumption
    <3>5. /\ next \in Job
          /\ next.op = job[t].op /\ next.opens = job[t].opens
          /\ next.pc = "refund" /\ next.sess = r /\ next.todo = rest /\ next.did = {}
          /\ next.close = "expired" /\ next.then = "idle"
      BY <1>1, <1>2, <3>2, <3>4 DEF Refunding, Job, Label, Closed
    <3>6. rest \in SUBSET (Session \ {r})
      BY <3>1, <3>4
    <3>7. Underway(t, next) /\ Clients(next) = Clients(job[t])
      BY <1>1, <3>3, <3>4, <3>5, <3>6, TurnsToRefund DEF Closed
    <3> QED
      BY <2>1, <3>1, <3>2, <3>5, <3>7, ReadStep DEF Select
  <2> QED
    BY <1>3, <1>9, <2>1 DEF SweepSelect
<1> QED
  BY <1>6, <1>7, <1>8, <1>9

\* The reads of assertInvariant; a cleanup turns to its next session.
LEMMA AssertPatient ==
  ASSUME IInv, PatientInv, NEW t \in Tx, ReadReserve(t) \/ ReadBalances(t) \/ ReadInFlight(t)
  PROVE  PatientInv'
<1>1. /\ job[t] \in Job /\ Underway(t, job[t]) /\ Kinds(job[t]) /\ Found(job[t]) /\ Apart
      /\ job \in [Tx -> Job]
      /\ job[t].pc \in {"readReserve", "readBalances", "readInFlight"}
  BY Requests DEF ReadReserve, ReadBalances, ReadInFlight, At
<1>2. ASSUME NEW label \in Asserting, Goto(t, label), UNCHANGED storage
      PROVE  PatientInv'
  <2>1. PICK next : next = [job[t] EXCEPT !.pc = label]
    OBVIOUS
  <2>2. /\ next \in Job /\ next.pc = label
        /\ next.op = job[t].op /\ next.opens = job[t].opens /\ next.sess = job[t].sess
        /\ next.todo = job[t].todo /\ next.close = job[t].close /\ next.then = job[t].then
        /\ next.did = job[t].did /\ next.j = job[t].j
    BY <1>1, <2>1 DEF Job, Label, Asserting
  <2>3. /\ Debits(next) <=> Debits(job[t])
        /\ Opens(next) <=> Opens(job[t])
        /\ Submits(next) <=> Submits(job[t])
        /\ Signs(next) <=> Signs(job[t])
        /\ Issues(next) <=> Issues(job[t])
        /\ Closes(next) <=> Closes(job[t])
        /\ Paid(next) = Paid(job[t]) /\ Unpaid(next) = Unpaid(job[t])
    BY <1>1, <2>2 DEF Asserting, Debits, Opens, Submits, Signs, Issues, Closes, Paid, Unpaid
  <2>4. Kinds(next)
    BY <1>1, <2>2, <2>3 DEF Kinds, Asserting
  <2>5. Holds(t, next) /\ Written(next)
    BY <1>1, <2>2, <2>3 DEF Underway, Holds, Written
  <2>6. Clients(next) = Clients(job[t])
    BY <2>2 DEF Clients, Served
  <2>7. Found(next)
    BY <1>1, <2>2, <2>3, <2>6 DEF Found, Asserting
  <2>8. job' = [job EXCEPT ![t] = next]
    BY <1>1, <1>2, <2>1 DEF Goto
  <2> QED
    BY <1>2, <2>2, <2>4, <2>5, <2>6, <2>7, <2>8, ReadStep DEF Underway
<1>3. ASSUME NEW s \in job[t].todo, UNCHANGED storage,
             job' = [job EXCEPT ![t] = [job[t] EXCEPT !.pc = "refund", !.sess = s, !.todo = @ \ {s}]]
      PROVE  PatientInv'
  <2>1. PICK next : next = [job[t] EXCEPT !.pc = "refund", !.sess = s, !.todo = @ \ {s}]
    OBVIOUS
  <2>2. /\ next \in Job /\ next.pc = "refund" /\ next.sess = s /\ s \in Session
        /\ next.op = job[t].op /\ next.opens = job[t].opens
        /\ next.todo = job[t].todo \ {s} /\ next.close = job[t].close /\ next.then = job[t].then
        /\ next.did = job[t].did
    BY <1>1, <1>3, <2>1 DEF Job, Label
  <2>3. Closes(job[t]) /\ Closes(next) /\ job[t].op \in {"init", "sweep"} /\ job[t].close = "expired"
    BY <1>1, <1>3, <2>2 DEF Kinds, Closes, Op, Job
  <2>4. /\ ~Debits(next) /\ ~Opens(next) /\ ~Submits(next) /\ ~Signs(next) /\ ~Issues(next)
        /\ ~Debits(job[t]) /\ ~Opens(job[t]) /\ ~Submits(job[t]) /\ ~Signs(job[t]) /\ ~Issues(job[t])
    BY <2>3 DEF Closes, Debits, Opens, Submits, Signs, Issues
  <2>5. /\ Paid(job[t]) = job[t].did /\ Unpaid(job[t]) = job[t].todo
        /\ Paid(next) = job[t].did /\ Unpaid(next) = job[t].todo
    BY <1>1, <1>3, <2>2 DEF Paid, Unpaid
  <2>6. Kinds(next)
    BY <1>1, <1>3, <2>2, <2>3, <2>4, <2>5 DEF Kinds, Asserting
  <2>7. Holds(t, next) /\ Written(next)
    BY <1>1, <2>2, <2>3, <2>4, <2>5 DEF Underway, Holds, Written
  <2>8. Clients(next) = Clients(job[t])
    BY <1>1, <2>2, <2>3, <2>6, ServedTyped DEF Clients
  <2>9. Found(next)
    BY <1>1, <2>2, <2>3, <2>4, <2>5, <2>8 DEF Found
  <2> QED
    BY <1>3, <2>1, <2>2, <2>6, <2>7, <2>8, <2>9, ReadStep DEF Underway
<1>4. CASE Throw(t)
  BY <1>4, ThrowStep
<1> QED
  BY <1>2, <1>3, <1>4 DEF ReadReserve, ReadBalances, ReadInFlight, Asserting

-----------------------------------------------------------------------------
(* The statements that write.                                              *)

\* A row the request may touch and does not hold is as committed.
LEMMA FoundAsCommitted ==
  ASSUME IInv, PatientInv, NEW t \in Tx, NEW row \in Row, lock[row] \in {t, NoTx}, lock[row] # t
  PROVE  cur[row] = db[row]
  BY DEF IInv, StorageInv, OneVersion

\* The debit of init.
LEMMA DebitPatient ==
  ASSUME IInv, PatientInv, NEW t \in Tx, InitDebit(t)
  PROVE  PatientInv'
<1> DEFINE s == job[t].opens
           account == UserRow(Owner[s])
<1>1. /\ job[t] \in Job /\ Underway(t, job[t]) /\ Kinds(job[t]) /\ Found(job[t]) /\ Apart
      /\ job[t].pc = "debit" /\ job[t].op = "init" /\ s \in Session
      /\ Owner[s] \in User /\ account \in Row
  BY Requests, OwnerAssumption, Rows DEF InitDebit, At, Kinds
<1>2. /\ \A row \in Row : lock[row] # t
      /\ job[t].did = {} /\ job[t].todo = {} /\ job[t].close = "none" /\ job[t].then = "idle"
  BY <1>1, NothingHeld DEF Unwritten
<1>3. Clients(job[t]) = {Owner[s]}
  BY <1>1, ServedTyped DEF Clients
<1>4. PICK next : next = [job[t] EXCEPT !.pc = "insert"]
  OBVIOUS
<1>5. /\ next \in Job /\ next.pc = "insert"
      /\ next.op = "init" /\ next.opens = s /\ next.sess = job[t].sess
      /\ next.todo = {} /\ next.close = "none" /\ next.then = "idle" /\ next.did = {}
  BY <1>1, <1>2, <1>4 DEF Job, Label
<1>6. Update(t, account, cur[account] - Amount[s], next) /\ RowOf(job[t], account)
  BY <1>3, <1>4 DEF InitDebit, RowOf
<1>7. Clients(next) = Clients(job[t])
  BY <1>1, <1>3, <1>5, NoValueAssumption DEF Clients, Served
<1>8. PICK v : v = cur[account] - Amount[s]
  OBVIOUS
<1>9. /\ Alone' /\ \A u \in Tx \ {t} : Underway(u, job[u])'
      /\ job'[t] = next
      /\ lock[account] \in {t, NoTx}
      /\ db' = db /\ cur'[account] = v /\ lock'[account] = t
      /\ \A r \in Row \ {account} : cur'[r] = cur[r] /\ lock'[r] = lock[r]
  BY <1>1, <1>5, <1>6, <1>7, <1>8, WriteStep
<1>10. cur[account] = db[account] /\ db[account] \in Nat /\ Amount[s] \in Nat /\ db[account] >= Amount[s]
  BY <1>1, <1>2, <1>9, FoundAsCommitted, AmountAssumption DEF PatientInv, TablesInv, Found
<1>11. TablesInv'
  <2>1. v \in Nat
    BY <1>8, <1>10
  <2>2. \A r \in Row : r # account => cur'[r] = cur[r]
    BY <1>9
  <2>3. \A u \in User : cur'[UserRow(u)] \in Nat
    BY <1>9, <2>1, <2>2, Rows DEF PatientInv, TablesInv
  <2>4. /\ cur'[ReserveRow] = cur[ReserveRow]
        /\ \A q \in Session : cur'[SessionRow(q)] = cur[SessionRow(q)]
    BY <1>1, <2>2, Rows, RowsDiffer
  <2> QED
    BY <1>9, <2>3, <2>4 DEF PatientInv, TablesInv, ReserveShaped
<1>12. /\ Debits(next) /\ ~Opens(next) /\ ~Submits(next) /\ ~Signs(next)
       /\ ~Issues(next) /\ ~Closes(next)
  BY <1>5 DEF Asserting, Debits, Opens, Submits, Signs, Issues, Closes
<1>13. Kinds(next)
  BY <1>1, <1>5, <1>12 DEF Kinds, Asserting
<1>14. Holds(t, next)'
  BY <1>1, <1>2, <1>5, <1>9, <1>12, Rows, RowsDiffer DEF Holds
<1>15. Found(next)'
  BY <1>1, <1>5, <1>9, <1>12 DEF Found, IsActive
<1>16. Written(next)'
  BY <1>5, <1>8, <1>9, <1>10, <1>12 DEF Written
<1>17. Underway(t, job[t])'
  BY <1>9, <1>13, <1>14, <1>15, <1>16 DEF Underway
<1> QED
  BY <1>9, <1>11, <1>17 DEF PatientInv

\* A written session row leaves the tables well formed.
LEMMA SessionWritten ==
  ASSUME PatientInv, NEW s \in Session, NEW v, v.status # "none",
         db' = db, cur'[SessionRow(s)] = v,
         \A r \in Row \ {SessionRow(s)} : cur'[r] = cur[r]
  PROVE  TablesInv'
<1>1. /\ \A u \in User : cur'[UserRow(u)] = cur[UserRow(u)]
      /\ cur'[ReserveRow] = cur[ReserveRow]
      /\ \A q \in Session \ {s} : cur'[SessionRow(q)] = cur[SessionRow(q)]
  BY Rows
<1>2. \A q \in Session : cur'[SessionRow(q)].status = "none" => cur'[SessionRow(q)] = Absent
  BY <1>1 DEF PatientInv, TablesInv
<1> QED
  BY <1>1, <1>2 DEF PatientInv, TablesInv, ReserveShaped

\* The INSERT of init.
LEMMA InsertPatient ==
  ASSUME IInv, PatientInv, NEW t \in Tx, InitInsert(t)
  PROVE  PatientInv'
<1> DEFINE s == job[t].opens
<1>1. /\ job[t] \in Job /\ Underway(t, job[t]) /\ Kinds(job[t]) /\ Found(job[t]) /\ Apart
      /\ job[t].pc = "insert" /\ job[t].op = "init" /\ s \in Session
      /\ Owner[s] \in User /\ UserRow(Owner[s]) \in Row /\ SessionRow(s) \in Row
      /\ UserRow(Owner[s]) # SessionRow(s)
  <2>1. /\ job[t] \in Job /\ Underway(t, job[t]) /\ Kinds(job[t]) /\ Found(job[t]) /\ Apart
        /\ job[t].pc = "insert"
    BY Requests DEF InitInsert, At
  <2>2. job[t].op = "init" /\ s \in Session
    BY <2>1 DEF Kinds
  <2> QED
    BY <2>1, <2>2, OwnerAssumption, Rows
<1>2. job[t].did = {} /\ job[t].todo = {} /\ job[t].close = "none" /\ job[t].then = "idle"
  BY <1>1 DEF Kinds, Closes, Signs, Asserting, Job
<1>3. Clients(job[t]) = {Owner[s]}
  BY <1>1, ServedTyped DEF Clients
<1>4. CASE Throw(t)
  BY <1>4, ThrowStep
<1>5. CASE Update(t, SessionRow(s), [Absent EXCEPT !.status = "pending"],
                  [job[t] EXCEPT !.pc = "readReserve"])
  <2>1. PICK next : next = [job[t] EXCEPT !.pc = "readReserve"]
    OBVIOUS
  <2>2. PICK v : v = [Absent EXCEPT !.status = "pending"]
    OBVIOUS
  <2>3. v = [status |-> "pending", j_index |-> NoIndex] /\ v.status # "none"
    BY <2>2 DEF Absent
  <2>4. /\ next \in Job /\ next.pc = "readReserve"
        /\ next.op = "init" /\ next.opens = s /\ next.sess = job[t].sess
        /\ next.todo = {} /\ next.close = "none" /\ next.then = "idle" /\ next.did = {}
    BY <1>1, <1>2, <2>1 DEF Job, Label
  <2>5. Clients(next) = Clients(job[t])
    BY <1>1, <1>3, <2>4, NoValueAssumption DEF Clients, Served
  <2>6. RowOf(job[t], SessionRow(s))
    BY <1>1, <1>3 DEF RowOf
  <2>7. /\ Alone' /\ \A u \in Tx \ {t} : Underway(u, job[u])'
        /\ job'[t] = next
        /\ db' = db /\ cur'[SessionRow(s)] = v /\ lock'[SessionRow(s)] = t
        /\ \A r \in Row \ {SessionRow(s)} : cur'[r] = cur[r] /\ lock'[r] = lock[r]
    BY <1>1, <1>5, <2>1, <2>2, <2>4, <2>5, <2>6, WriteStep
  <2>8. TablesInv'
    BY <1>1, <2>3, <2>7, SessionWritten
  <2>9. /\ Debits(next) /\ Opens(next) /\ ~Submits(next) /\ ~Signs(next)
        /\ ~Issues(next) /\ ~Closes(next)
        /\ Debits(job[t]) /\ ~Opens(job[t]) /\ ~Submits(job[t]) /\ ~Signs(job[t])
        /\ ~Issues(job[t]) /\ ~Closes(job[t])
    BY <1>1, <1>2, <2>4 DEF Asserting, Debits, Opens, Submits, Signs, Issues, Closes
  <2>10. Kinds(next)
    BY <1>1, <2>4, <2>9 DEF Kinds, Asserting
  <2>11. Holds(t, job[t])
    BY <1>1 DEF Underway
  <2>12. Holds(t, next)'
    BY <1>1, <2>4, <2>7, <2>9, <2>11, Rows DEF Holds
  <2>13. Found(next)'
    BY <1>1, <2>4, <2>7, <2>9 DEF Found, IsActive
  <2>14. Written(next)'
    BY <1>1, <2>3, <2>4, <2>7, <2>9 DEF Underway, Written
  <2>15. Underway(t, job[t])'
    BY <2>7, <2>10, <2>12, <2>13, <2>14 DEF Underway
  <2> QED
    BY <2>7, <2>8, <2>15 DEF PatientInv
<1> QED
  BY <1>4, <1>5 DEF InitInsert

\* The UPDATE of submit.
LEMMA MarkPatient ==
  ASSUME IInv, PatientInv, NEW t \in Tx, SubmitMark(t)
  PROVE  PatientInv'
<1> DEFINE s == job[t].sess
<1>1. /\ job[t] \in Job /\ Underway(t, job[t]) /\ Kinds(job[t]) /\ Found(job[t]) /\ Apart
      /\ job[t].pc = "mark" /\ job[t].op = "submit" /\ s \in Session /\ SessionRow(s) \in Row
      /\ job[t].opens = NoSession /\ job[t].j \in Index
  BY Requests, Rows DEF SubmitMark, At, Kinds
<1>2. /\ \A row \in Row : lock[row] # t
      /\ job[t].did = {} /\ job[t].todo = {} /\ job[t].close = "none" /\ job[t].then = "idle"
  BY <1>1, NothingHeld DEF Unwritten
<1>3. Clients(job[t]) = {Owner[s]}
  BY <1>1, ServedTyped DEF Clients
<1>4. CASE Throw(t)
  BY <1>4, ThrowStep
<1>5. CASE Update(t, SessionRow(s), [status |-> "submitted", j_index |-> job[t].j],
                  [job[t] EXCEPT !.pc = "readReserve"])
  <2>1. PICK next : next = [job[t] EXCEPT !.pc = "readReserve"]
    OBVIOUS
  <2>2. PICK v : v = [status |-> "submitted", j_index |-> job[t].j]
    OBVIOUS
  <2>3. v.status # "none"
    BY <2>2
  <2>4. /\ next \in Job /\ next.pc = "readReserve" /\ next.j = job[t].j
        /\ next.op = "submit" /\ next.opens = NoSession /\ next.sess = s
        /\ next.todo = {} /\ next.close = "none" /\ next.then = "idle" /\ next.did = {}
    BY <1>1, <1>2, <2>1 DEF Job, Label
  <2>5. Clients(next) = Clients(job[t])
    BY <1>1, <1>3, <2>4 DEF Clients, Served
  <2>6. RowOf(job[t], SessionRow(s))
    BY <1>1, <1>3 DEF RowOf
  <2>7. /\ Alone' /\ \A u \in Tx \ {t} : Underway(u, job[u])'
        /\ job'[t] = next
        /\ db' = db /\ cur'[SessionRow(s)] = v /\ lock'[SessionRow(s)] = t
        /\ \A r \in Row \ {SessionRow(s)} : cur'[r] = cur[r] /\ lock'[r] = lock[r]
    BY <1>1, <1>5, <2>1, <2>2, <2>4, <2>5, <2>6, WriteStep
  <2>8. TablesInv'
    BY <1>1, <2>3, <2>7, SessionWritten
  <2>9. /\ ~Debits(next) /\ ~Opens(next) /\ Submits(next) /\ ~Signs(next)
        /\ ~Issues(next) /\ ~Closes(next)
    BY <2>4 DEF Asserting, Debits, Opens, Submits, Signs, Issues, Closes
  <2>10. Kinds(next)
    BY <1>1, <2>4, <2>9 DEF Kinds, Asserting
  <2>11. Holds(t, next)'
    BY <1>1, <1>2, <2>4, <2>7, <2>9, Rows DEF Holds
  <2>12. Found(next)'
    BY <1>1, <2>4, <2>7, <2>9 DEF Found, IsActive
  <2>13. Written(next)'
    BY <1>1, <2>2, <2>4, <2>7, <2>9 DEF Written
  <2>14. Underway(t, job[t])'
    BY <2>7, <2>10, <2>11, <2>12, <2>13 DEF Underway
  <2> QED
    BY <2>7, <2>8, <2>14 DEF PatientInv
<1> QED
  BY <1>4, <1>5 DEF SubmitMark

\* The UPDATE of withdrawal_sessions by reveal.
LEMMA SignPatient ==
  ASSUME IInv, PatientInv, NEW t \in Tx, RevealSign(t)
  PROVE  PatientInv'
<1> DEFINE s == job[t].sess
<1>1. /\ job[t] \in Job /\ Underway(t, job[t]) /\ Kinds(job[t]) /\ Found(job[t]) /\ Apart
      /\ job[t].pc = "sign" /\ job[t].op = "reveal" /\ s \in Session /\ SessionRow(s) \in Row
      /\ job[t].opens = NoSession
  BY Requests, Rows DEF RevealSign, At, Kinds
<1>2. /\ \A row \in Row : lock[row] # t
      /\ job[t].did = {} /\ job[t].todo = {} /\ job[t].close = "none" /\ job[t].then = "idle"
  BY <1>1, NothingHeld DEF Unwritten
<1>3. Clients(job[t]) = {Owner[s]}
  BY <1>1, ServedTyped DEF Clients
<1>4. PICK next : next = [job[t] EXCEPT !.pc = "issue", !.did = @ \cup {s}]
  OBVIOUS
<1>5. PICK v : v = [cur[SessionRow(s)] EXCEPT !.status = "committed"]
  OBVIOUS
<1>6. /\ next \in Job /\ next.pc = "issue"
      /\ next.op = "reveal" /\ next.opens = NoSession /\ next.sess = s
      /\ next.todo = {} /\ next.close = "none" /\ next.then = "idle" /\ next.did = {s}
  BY <1>1, <1>2, <1>4 DEF Job, Label
<1>7. Clients(next) = Clients(job[t])
  BY <1>1, <1>3, <1>6 DEF Clients, Served
<1>8. RowOf(job[t], SessionRow(s))
  BY <1>1, <1>3 DEF RowOf
<1>9. Update(t, SessionRow(s), v, next)
  BY <1>4, <1>5 DEF RevealSign
<1>10. /\ Alone' /\ \A u \in Tx \ {t} : Underway(u, job[u])'
       /\ job'[t] = next
       /\ lock[SessionRow(s)] \in {t, NoTx}
       /\ db' = db /\ cur'[SessionRow(s)] = v /\ lock'[SessionRow(s)] = t
       /\ \A r \in Row \ {SessionRow(s)} : cur'[r] = cur[r] /\ lock'[r] = lock[r]
  BY <1>1, <1>6, <1>7, <1>8, <1>9, WriteStep
<1>11. cur[SessionRow(s)] = db[SessionRow(s)] /\ db[SessionRow(s)] \in SessionValue
  BY <1>1, <1>2, <1>10, FoundAsCommitted DEF IInv, StorageInv, StorageTyped
<1>12. v = [status |-> "committed", j_index |-> db[SessionRow(s)].j_index] /\ v.status # "none"
  BY <1>5, <1>11 DEF SessionValue
<1>13. TablesInv'
  BY <1>1, <1>10, <1>12, SessionWritten
<1>14. /\ ~Debits(next) /\ ~Opens(next) /\ ~Submits(next) /\ Signs(next)
       /\ ~Issues(next) /\ ~Closes(next)
  BY <1>6 DEF Asserting, Debits, Opens, Submits, Signs, Issues, Closes
<1>15. Kinds(next)
  BY <1>1, <1>6, <1>14 DEF Kinds, Asserting
<1>16. Holds(t, next)'
  BY <1>1, <1>2, <1>6, <1>10, <1>14, Rows DEF Holds
<1>17. Found(next)'
  BY <1>1, <1>6, <1>10, <1>14 DEF Found, IsActive
<1>18. Written(next)'
  BY <1>1, <1>6, <1>10, <1>12, <1>14 DEF Written
<1>19. Underway(t, job[t])'
  BY <1>10, <1>15, <1>16, <1>17, <1>18 DEF Underway
<1> QED
  BY <1>10, <1>13, <1>19 DEF PatientInv

\* The UPDATE of the reserve by reveal.
LEMMA IssuePatient ==
  ASSUME IInv, PatientInv, NEW t \in Tx, RevealIssue(t)
  PROVE  PatientInv'
<1> DEFINE s == job[t].sess
<1>1. /\ job[t] \in Job /\ Underway(t, job[t]) /\ Kinds(job[t]) /\ Found(job[t]) /\ Apart
      /\ job[t].pc = "issue"
  BY Requests DEF RevealIssue, At
<1>2. /\ job[t].op = "reveal" /\ s \in Session /\ SessionRow(s) \in Row
      /\ job[t].opens = NoSession /\ job[t].todo = {} /\ job[t].close = "none"
      /\ job[t].then = "idle"
  BY <1>1, Rows DEF Kinds, Closes, Asserting, Job
<1>3. /\ ~Debits(job[t]) /\ ~Opens(job[t]) /\ ~Submits(job[t]) /\ Signs(job[t])
      /\ ~Issues(job[t]) /\ ~Closes(job[t])
  BY <1>1, <1>2 DEF Asserting, Debits, Opens, Submits, Signs, Issues, Closes
<1>4. job[t].did = {s}
  BY <1>1, <1>3 DEF Kinds
<1>5. PICK next : next = [job[t] EXCEPT !.pc = "readReserve"]
  OBVIOUS
<1>6. PICK v : v = [cur[ReserveRow] EXCEPT !.total_issued = @ + Amount[s]]
  OBVIOUS
<1>7. /\ next \in Job /\ next.pc = "readReserve"
      /\ next.op = "reveal" /\ next.opens = NoSession /\ next.sess = s
      /\ next.todo = {} /\ next.close = "none" /\ next.then = "idle" /\ next.did = {s}
  BY <1>1, <1>2, <1>4, <1>5 DEF Job, Label
<1>8. Clients(next) = Clients(job[t])
  BY <1>2, <1>7 DEF Clients, Served
<1>9. Update(t, ReserveRow, v, next) /\ ReserveRow \in Row
  BY <1>5, <1>6, Rows DEF RevealIssue
<1>10. /\ Alone' /\ \A u \in Tx \ {t} : Underway(u, job[u])'
       /\ job'[t] = next
       /\ lock[ReserveRow] \in {t, NoTx}
       /\ db' = db /\ cur'[ReserveRow] = v /\ lock'[ReserveRow] = t
       /\ \A r \in Row \ {ReserveRow} : cur'[r] = cur[r] /\ lock'[r] = lock[r]
  BY <1>7, <1>8, <1>9, WriteStep
<1>11. lock[ReserveRow] # t
  BY <1>1, <1>3 DEF Underway, Holds
<1>12. cur[ReserveRow] = db[ReserveRow] /\ ReserveShaped(db[ReserveRow])
  BY <1>9, <1>10, <1>11, FoundAsCommitted DEF PatientInv, TablesInv
<1>13. ReserveShaped(v) /\ v.total_issued = db[ReserveRow].total_issued + Amount[s]
  BY <1>6, <1>12 DEF ReserveShaped
<1>14. /\ \A u \in User : cur'[UserRow(u)] = cur[UserRow(u)] /\ lock'[UserRow(u)] = lock[UserRow(u)]
       /\ \A q \in Session : cur'[SessionRow(q)] = cur[SessionRow(q)]
                             /\ lock'[SessionRow(q)] = lock[SessionRow(q)]
  BY <1>10, Rows, RowsDiffer
<1>15. TablesInv'
  BY <1>10, <1>13, <1>14 DEF PatientInv, TablesInv
<1>16. /\ ~Debits(next) /\ ~Opens(next) /\ ~Submits(next) /\ Signs(next)
       /\ Issues(next) /\ ~Closes(next)
  BY <1>7 DEF Asserting, Debits, Opens, Submits, Signs, Issues, Closes
<1>17. Kinds(next)
  BY <1>1, <1>2, <1>7, <1>16 DEF Kinds, Asserting
<1>18. Holds(t, next)'
  BY <1>1, <1>3, <1>7, <1>10, <1>14, <1>16 DEF Underway, Holds
<1>19. Found(next)'
  BY <1>1, <1>3, <1>7, <1>10, <1>16 DEF Found, IsActive
<1>20. Written(next)'
  BY <1>1, <1>2, <1>3, <1>7, <1>10, <1>13, <1>14, <1>16 DEF Underway, Written
<1>21. Underway(t, job[t])'
  BY <1>10, <1>17, <1>18, <1>19, <1>20 DEF Underway
<1> QED
  BY <1>10, <1>15, <1>21 DEF PatientInv

\* What a request that closes sessions starts its two UPDATEs from.
LEMMA Closing ==
  ASSUME IInv, PatientInv, NEW t \in Tx, job[t].pc \in {"refund", "close"}
  PROVE  /\ Closes(job[t]) /\ job[t].sess \in Session
         /\ Owner[job[t].sess] \in User /\ Owner[job[t].sess] \in Clients(job[t])
         /\ job[t].sess \notin job[t].did \cup job[t].todo
         /\ job[t].did \subseteq Session /\ job[t].todo \subseteq Session
         /\ \A s \in job[t].did : Owner[s] # Owner[job[t].sess]
         /\ lock[SessionRow(job[t].sess)] # t
         /\ job[t].pc = "refund" => lock[UserRow(Owner[job[t].sess])] # t
<1>1. /\ job[t] \in Job /\ Underway(t, job[t]) /\ Kinds(job[t]) /\ Found(job[t]) /\ Apart
      /\ Holds(t, job[t])
  BY Requests DEF Underway
<1>2. /\ Closes(job[t]) /\ job[t].sess \in Session
      /\ job[t].sess \notin job[t].did \cup job[t].todo
  BY <1>1 DEF Kinds
<1>3. /\ ~Debits(job[t]) /\ ~Opens(job[t]) /\ ~Submits(job[t]) /\ ~Signs(job[t])
  BY <1>2 DEF Closes, Debits, Opens, Submits, Signs
<1>4. job[t].sess \in Paid(job[t]) \cup Unpaid(job[t]) /\ job[t].did \subseteq Paid(job[t])
  BY DEF Paid, Unpaid
<1>5. Owner[job[t].sess] \in Clients(job[t]) /\ \A s \in job[t].did : Owner[s] # Owner[job[t].sess]
  BY <1>1, <1>2, <1>4, Refunded
<1>6. lock[SessionRow(job[t].sess)] # t
  BY <1>1, <1>2, <1>3 DEF Holds
<1>7. job[t].pc = "refund" => lock[UserRow(Owner[job[t].sess])] # t
  BY <1>1, <1>2, <1>3, <1>5, OwnerAssumption DEF Holds, Paid
<1> QED
  BY <1>1, <1>2, <1>5, <1>6, <1>7, OwnerAssumption DEF Job

\* The refund of refundAndClose.
LEMMA RefundPatient ==
  ASSUME IInv, PatientInv, NEW t \in Tx, RefundUser(t)
  PROVE  PatientInv'
<1> DEFINE s == job[t].sess
           account == UserRow(Owner[s])
<1>1. /\ job[t] \in Job /\ Underway(t, job[t]) /\ Kinds(job[t]) /\ Found(job[t]) /\ Apart
      /\ job[t].pc = "refund"
  BY Requests DEF RefundUser, At
<1>2. /\ Closes(job[t]) /\ s \in Session
      /\ Owner[s] \in User /\ Owner[s] \in Clients(job[t])
      /\ s \notin job[t].did \cup job[t].todo
      /\ job[t].did \subseteq Session
      /\ \A r \in job[t].did : Owner[r] # Owner[s]
      /\ lock[account] # t /\ account \in Row
  BY <1>1, Closing, Rows
<1>3. PICK next : next = [job[t] EXCEPT !.pc = "close"]
  OBVIOUS
<1>4. PICK v : v = cur[account] + Amount[s]
  OBVIOUS
<1>5. /\ next \in Job /\ next.pc = "close"
      /\ next.op = job[t].op /\ next.opens = job[t].opens /\ next.sess = s
      /\ next.todo = job[t].todo /\ next.close = job[t].close /\ next.then = job[t].then
      /\ next.did = job[t].did
  BY <1>1, <1>3 DEF Job, Label
<1>6. Clients(next) = Clients(job[t])
  BY <1>5 DEF Clients, Served
<1>7. Update(t, account, v, next) /\ RowOf(job[t], account)
  BY <1>2, <1>3, <1>4 DEF RefundUser, RowOf
<1>8. /\ Alone' /\ \A u \in Tx \ {t} : Underway(u, job[u])'
      /\ job'[t] = next
      /\ lock[account] \in {t, NoTx}
      /\ db' = db /\ cur'[account] = v /\ lock'[account] = t
      /\ \A r \in Row \ {account} : cur'[r] = cur[r] /\ lock'[r] = lock[r]
  BY <1>2, <1>5, <1>6, <1>7, WriteStep
<1>9. cur[account] = db[account] /\ db[account] \in Nat /\ Amount[s] \in Nat
  BY <1>2, <1>8, FoundAsCommitted, AmountAssumption DEF PatientInv, TablesInv
<1>10. /\ \A u \in User \ {Owner[s]} : /\ cur'[UserRow(u)] = cur[UserRow(u)]
                                      /\ lock'[UserRow(u)] = lock[UserRow(u)]
       /\ \A q \in Session : /\ cur'[SessionRow(q)] = cur[SessionRow(q)]
                             /\ lock'[SessionRow(q)] = lock[SessionRow(q)]
       /\ cur'[ReserveRow] = cur[ReserveRow] /\ lock'[ReserveRow] = lock[ReserveRow]
  BY <1>2, <1>8, Rows, RowsDiffer
<1>11. TablesInv'
  <2>1. \A u \in User : cur'[UserRow(u)] \in Nat
    BY <1>4, <1>8, <1>9, <1>10 DEF PatientInv, TablesInv
  <2> QED
    BY <1>8, <1>10, <2>1 DEF PatientInv, TablesInv, ReserveShaped
<1>12. /\ ~Debits(next) /\ ~Opens(next) /\ ~Submits(next) /\ ~Signs(next)
       /\ ~Issues(next) /\ Closes(next)
       /\ ~Debits(job[t]) /\ ~Opens(job[t]) /\ ~Submits(job[t]) /\ ~Signs(job[t])
       /\ ~Issues(job[t])
  BY <1>2, <1>5 DEF Debits, Opens, Submits, Signs, Issues, Closes
<1>13. /\ Paid(next) = job[t].did \cup {s} /\ Unpaid(next) = job[t].todo
       /\ Paid(job[t]) = job[t].did /\ Unpaid(job[t]) = job[t].todo \cup {s}
  BY <1>1, <1>5 DEF Paid, Unpaid
<1>14. Kinds(next)
  BY <1>1, <1>2, <1>5, <1>12, <1>13 DEF Kinds, Asserting
<1>15. Holds(t, next)'
  BY <1>1, <1>2, <1>5, <1>8, <1>10, <1>12, <1>13 DEF Underway, Holds
<1>16. Found(next)'
  BY <1>1, <1>2, <1>5, <1>6, <1>8, <1>12, <1>13 DEF Found, IsActive
<1>17. Written(next)'
  <2>1. \A r \in job[t].did : cur'[UserRow(Owner[r])] = db[UserRow(Owner[r])] + Amount[r]
    BY <1>1, <1>2, <1>10, <1>13, OwnerAssumption DEF Underway, Written
  <2>2. cur'[UserRow(Owner[s])] = db[UserRow(Owner[s])] + Amount[s]
    BY <1>4, <1>8, <1>9
  <2>3. \A r \in job[t].did : cur'[SessionRow(r)] =
            [status |-> job[t].close, j_index |-> db[SessionRow(r)].j_index]
    BY <1>1, <1>2, <1>10 DEF Underway, Written
  <2> QED
    BY <1>5, <1>8, <1>12, <1>13, <2>1, <2>2, <2>3 DEF Written
<1>18. Underway(t, job[t])'
  BY <1>8, <1>14, <1>15, <1>16, <1>17 DEF Underway
<1> QED
  BY <1>8, <1>11, <1>18 DEF PatientInv

\* The UPDATE of withdrawal_sessions by refundAndClose.
LEMMA ClosePatient ==
  ASSUME IInv, PatientInv, NEW t \in Tx, CloseSession(t)
  PROVE  PatientInv'
<1> DEFINE s == job[t].sess
<1>1. /\ job[t] \in Job /\ Underway(t, job[t]) /\ Kinds(job[t]) /\ Found(job[t]) /\ Apart
      /\ job[t].pc = "close"
  BY Requests DEF CloseSession, At
<1>2. /\ Closes(job[t]) /\ s \in Session
      /\ Owner[s] \in User /\ Owner[s] \in Clients(job[t])
      /\ s \notin job[t].did \cup job[t].todo
      /\ job[t].did \subseteq Session
      /\ lock[SessionRow(s)] # t /\ SessionRow(s) \in Row
  BY <1>1, Closing, Rows
<1>3. PICK next : next = [job[t] EXCEPT !.pc = "readReserve", !.did = @ \cup {s}]
  OBVIOUS
<1>4. PICK v : v = [cur[SessionRow(s)] EXCEPT !.status = job[t].close]
  OBVIOUS
<1>5. /\ next \in Job /\ next.pc = "readReserve"
      /\ next.op = job[t].op /\ next.opens = job[t].opens /\ next.sess = s
      /\ next.todo = job[t].todo /\ next.close = job[t].close /\ next.then = job[t].then
      /\ next.did = job[t].did \cup {s}
  BY <1>1, <1>2, <1>3 DEF Job, Label
<1>6. Clients(next) = Clients(job[t])
  BY <1>5 DEF Clients, Served
<1>7. Update(t, SessionRow(s), v, next) /\ RowOf(job[t], SessionRow(s))
  BY <1>2, <1>3, <1>4 DEF CloseSession, RowOf
<1>8. /\ Alone' /\ \A u \in Tx \ {t} : Underway(u, job[u])'
      /\ job'[t] = next
      /\ lock[SessionRow(s)] \in {t, NoTx}
      /\ db' = db /\ cur'[SessionRow(s)] = v /\ lock'[SessionRow(s)] = t
      /\ \A r \in Row \ {SessionRow(s)} : cur'[r] = cur[r] /\ lock'[r] = lock[r]
  BY <1>2, <1>5, <1>6, <1>7, WriteStep
<1>9. cur[SessionRow(s)] = db[SessionRow(s)] /\ db[SessionRow(s)] \in SessionValue
  BY <1>2, <1>8, FoundAsCommitted DEF IInv, StorageInv, StorageTyped
<1>10. /\ v = [status |-> job[t].close, j_index |-> db[SessionRow(s)].j_index]
       /\ v.status # "none"
  BY <1>2, <1>4, <1>9 DEF SessionValue, Closes
<1>11. TablesInv'
  BY <1>2, <1>8, <1>10, SessionWritten
<1>12. /\ \A u \in User : /\ cur'[UserRow(u)] = cur[UserRow(u)]
                          /\ lock'[UserRow(u)] = lock[UserRow(u)]
       /\ \A q \in Session \ {s} : /\ cur'[SessionRow(q)] = cur[SessionRow(q)]
                                   /\ lock'[SessionRow(q)] = lock[SessionRow(q)]
       /\ cur'[ReserveRow] = cur[ReserveRow] /\ lock'[ReserveRow] = lock[ReserveRow]
  BY <1>2, <1>8, Rows
<1>13. /\ ~Debits(next) /\ ~Opens(next) /\ ~Submits(next) /\ ~Signs(next)
       /\ ~Issues(next) /\ Closes(next)
       /\ ~Debits(job[t]) /\ ~Opens(job[t]) /\ ~Submits(job[t]) /\ ~Signs(job[t])
       /\ ~Issues(job[t])
  BY <1>2, <1>5 DEF Debits, Opens, Submits, Signs, Issues, Closes
<1>14. /\ Paid(next) = job[t].did \cup {s} /\ Unpaid(next) = job[t].todo
       /\ Paid(job[t]) = job[t].did \cup {s} /\ Unpaid(job[t]) = job[t].todo
  BY <1>1, <1>5 DEF Paid, Unpaid
<1>15. Kinds(next)
  BY <1>1, <1>2, <1>5, <1>13, <1>14 DEF Kinds, Asserting
<1>16. Holds(t, next)'
  BY <1>1, <1>2, <1>5, <1>8, <1>12, <1>13, <1>14 DEF Underway, Holds
<1>17. Found(next)'
  BY <1>1, <1>2, <1>5, <1>6, <1>8, <1>13, <1>14 DEF Found, IsActive
<1>18. Written(next)'
  <2>1. \A r \in job[t].did \cup {s} : cur'[UserRow(Owner[r])] = db[UserRow(Owner[r])] + Amount[r]
    BY <1>1, <1>2, <1>12, <1>14, OwnerAssumption DEF Underway, Written
  <2>2. \A r \in job[t].did \cup {s} : cur'[SessionRow(r)] =
            [status |-> job[t].close, j_index |-> db[SessionRow(r)].j_index]
    BY <1>1, <1>2, <1>8, <1>10, <1>12 DEF Underway, Written
  <2> QED
    BY <1>5, <1>8, <1>13, <1>14, <2>1, <2>2 DEF Written
<1>19. Underway(t, job[t])'
  BY <1>8, <1>15, <1>16, <1>17, <1>18 DEF Underway
<1> QED
  BY <1>8, <1>11, <1>19 DEF PatientInv

-----------------------------------------------------------------------------
(* COMMIT, requests that arrive, crashes                                   *)

\* COMMIT publishes rows of the request's own customers; init may go on to its transaction.
LEMMA CommitPatient ==
  ASSUME IInv, PatientInv, NEW t \in Tx, CommitTx(t)
  PROVE  PatientInv'
<1>1. /\ job[t] \in Job /\ job \in [Tx -> Job] /\ Apart
      /\ Underway(t, job[t]) /\ Kinds(job[t]) /\ Found(job[t])
      /\ job[t].pc = "commit" /\ lock \in [Row -> Tx \cup {NoTx}]
  BY Requests DEF CommitTx, At, IInv, StorageInv, StorageTyped
<1>2. PICK next : next = IF job[t].then = "idle" THEN Idle
                         ELSE [Idle EXCEPT !.op = job[t].op, !.pc = job[t].then, !.opens = job[t].opens]
  OBVIOUS
<1>3. /\ job' = [job EXCEPT ![t] = next]
      /\ \A r \in Row : db'[r] = IF lock[r] = t THEN cur[r] ELSE db[r]
      /\ \A r \in Row : lock'[r] = IF lock[r] = t THEN NoTx ELSE lock[r]
      /\ lock' \in [Row -> Tx \cup {NoTx}]
      /\ cur' = cur
  BY <1>1, <1>2 DEF CommitTx, Commit, Release, Read
<1>4. \A row \in Row : lock'[row] # t
  BY <1>3, NoValueAssumption
<1>5. TablesInv'
  BY <1>3, Rows DEF PatientInv, TablesInv, ReserveShaped
<1>6. \A row \in Row : db'[row] # db[row] \/ cur'[row] # cur[row] =>
           lock[row] \in {t, NoTx} /\ (RowOf(job[t], row) \/ row = ReserveRow)
  BY <1>1, <1>3, HeldOwn
<1>7. next \in Job /\ Clients(next) \subseteq Clients(job[t]) /\ Underway(t, next)'
  <2>1. CASE job[t].then = "idle"
    <3>1. next = Idle
      BY <1>2, <2>1
    <3>2. Idle \in Job /\ Clients(Idle) = {}
      BY IdleAims DEF AimedJob, Clients, Idle
    <3>3. Underway(t, Idle)'
      BY <1>4, IdleUnderway
    <3> QED
      BY <3>1, <3>2, <3>3
  <2>2. CASE job[t].then = "select"
    <3>1. job[t].op = "init" /\ job[t].opens \in Session
      BY <1>1, <2>2 DEF Kinds
    <3>2. /\ next \in Job /\ next.op = "init" /\ next.pc = "select" /\ next.opens = job[t].opens
          /\ next.sess = NoSession /\ next.todo = {} /\ next.close = "none" /\ next.then = "idle"
          /\ next.did = {}
      BY <1>1, <1>2, <2>2, <3>1 DEF Idle, Job, Op, Label
    <3>3. /\ ~Debits(next) /\ ~Opens(next) /\ ~Submits(next) /\ ~Signs(next)
          /\ ~Issues(next) /\ ~Closes(next)
          /\ ~Opens(job[t]) /\ ~Submits(job[t]) /\ ~Signs(job[t])
      BY <2>2, <3>1, <3>2 DEF Debits, Opens, Submits, Signs, Issues, Closes, Asserting
    <3>4. Clients(next) = Clients(job[t])
      BY <3>1, <3>2, NoValueAssumption DEF Clients, Served
    <3>5. Kinds(next)
      BY <3>1, <3>2, <3>3 DEF Kinds, Asserting
    <3>6. db[SessionRow(job[t].opens)] = Absent /\ ~IsActive(db, job[t].opens)
      BY <1>1, <3>1 DEF Found, IsActive, Absent, Active
    <3>7. lock[SessionRow(job[t].opens)] # t
      <4>1. ~(Closes(job[t]) /\ job[t].opens \in job[t].did)
        BY <1>1, <3>6, Refunded DEF Paid
      <4> QED
        BY <1>1, <3>1, <3>3, <4>1 DEF Underway, Holds
    <3>8. db'[SessionRow(job[t].opens)] = Absent
      BY <1>3, <3>1, <3>6, <3>7, Rows
    <3>9. Found(next)' /\ Written(next)' /\ Holds(t, next)'
      BY <1>4, <3>2, <3>3, <3>8, Rows DEF Found, Written, Holds
    <3> QED
      BY <3>2, <3>4, <3>5, <3>9 DEF Underway
  <2> QED
    BY <1>1, <2>1, <2>2 DEF Job
<1>8. Alone' /\ \A u \in Tx \ {t} : Underway(u, job[u])'
  BY <1>3, <1>6, <1>7, OthersKeep
<1>9. job'[t] = next
  BY <1>1, <1>3
<1>10. Underway(t, job[t])'
  BY <1>7, <1>9
<1> QED
  BY <1>5, <1>8, <1>10 DEF PatientInv

\* A row under way is never a row not inserted.
LEMMA HeldInserted ==
  ASSUME IInv, PatientInv, NEW s \in Session, lock[SessionRow(s)] # NoTx
  PROVE  cur[SessionRow(s)].status # "none"
<1>1. PICK u \in Tx : lock[SessionRow(s)] = u
  BY Rows DEF IInv, StorageInv, StorageTyped
<1>2. PICK request \in Job : request = job[u]
  BY Requests
<1>3. Holds(u, request) /\ Written(request)
  BY <1>2, Requests DEF Underway
<1>4. CASE Opens(request) /\ s = request.opens
  BY <1>3, <1>4 DEF Written
<1>5. CASE Submits(request) /\ s = request.sess
  BY <1>3, <1>5 DEF Written
<1>6. CASE Signs(request) /\ s = request.sess
  BY <1>3, <1>6 DEF Written
<1>7. CASE Closes(request) /\ s \in request.did
  <2>1. cur[SessionRow(s)] = [status |-> request.close, j_index |-> db[SessionRow(s)].j_index]
    BY <1>3, <1>7 DEF Written
  <2>2. cur[SessionRow(s)].status = request.close
    BY <2>1
  <2> QED
    BY <1>7, <2>2 DEF Closes
<1> QED
  BY <1>1, <1>3, <1>4, <1>5, <1>6, <1>7 DEF Holds

\* A patient customer's request, and the sweep, find nobody else serving whom they serve.
LEMMA BeginPatient ==
  ASSUME Patient, IInv, PatientInv, NEW t \in Tx, Begin(t)
  PROVE  PatientInv'
<1>1. job \in [Tx -> Job]
  BY Requests
<1>2. ASSUME NEW next \in Job, NEW customers, Start(t, next, customers),
             Clients(next) \subseteq customers, Kinds(next), Found(next),
             next.pc \in {"lazy", "select"}, next.close = "none"
      PROVE  PatientInv'
  <2>1. /\ job' = [job EXCEPT ![t] = next] /\ job[t].pc = "idle"
        /\ UNCHANGED <<db, cur, lock>>
        /\ \A u \in Tx : job[u].pc # "idle" => /\ job[u].op # "sweep"
                                              /\ Owner[Served(job[u])] \notin customers
    BY <1>2 DEF Start, MayStart, At, Subject, Served, storage
  <2>2. job'[t] = next /\ \A u \in Tx \ {t} : job'[u] = job[u]
    BY <1>1, <2>1
  <2>3. \A u \in Tx \ {t} : Clients(job[u]) \cap Clients(next) = {}
    <3> SUFFICES ASSUME NEW u \in Tx \ {t} PROVE Clients(job[u]) \cap Clients(next) = {}
      OBVIOUS
    <3>1. Kinds(job[u])
      BY Requests
    <3> QED
      BY <1>2, <2>1, <3>1 DEF Clients, Kinds
  <2>4. Alone'
    BY <2>2, <2>3 DEF PatientInv, Alone, Clients
  <2>5. TablesInv'
    BY <2>1 DEF PatientInv, TablesInv, ReserveShaped
  <2>6. ASSUME NEW u \in Tx \ {t} PROVE Underway(u, job[u])'
    <3>1. PICK request : request = job[u]
      OBVIOUS
    <3>2. Underway(u, request)
      BY <3>1 DEF PatientInv
    <3>3. Underway(u, request)'
      BY <2>1, <3>2 DEF Underway, Holds, Found, Written, IsActive
    <3> QED
      BY <2>2, <3>1, <3>3
  <2>7. /\ ~Debits(job[t]) /\ ~Opens(job[t]) /\ ~Submits(job[t]) /\ ~Signs(job[t])
        /\ ~Issues(job[t]) /\ ~Closes(job[t])
    BY <2>1, Requests DEF Kinds, Debits, Opens, Submits, Signs, Issues, Closes, Asserting
  <2>8. /\ ~Debits(next) /\ ~Opens(next) /\ ~Submits(next) /\ ~Signs(next)
        /\ ~Issues(next) /\ ~Closes(next)
    BY <1>2 DEF Debits, Opens, Submits, Signs, Issues, Closes, Asserting
  <2>9. Holds(t, next) /\ Written(next)
    BY <2>7, <2>8, Requests DEF Underway, Holds, Written
  <2>10. Underway(t, next)'
    BY <1>2, <2>1, <2>9 DEF Underway, Holds, Found, Written, IsActive
  <2>11. Underway(t, job[t])'
    BY <2>2, <2>10
  <2> QED
    BY <2>4, <2>5, <2>6, <2>11 DEF PatientInv
<1>3. ASSUME NEW s \in Session, BeginInit(t, s)
      PROVE  PatientInv'
  <2>1. PICK next : next = [Idle EXCEPT !.op = "init", !.pc = "lazy", !.opens = s]
    OBVIOUS
  <2>2. /\ next \in Job /\ next.op = "init" /\ next.pc = "lazy" /\ next.opens = s
        /\ next.sess = NoSession /\ next.todo = {} /\ next.close = "none" /\ next.then = "idle"
        /\ next.did = {}
    BY <2>1 DEF Idle, Job, Op, Label
  <2>3. lock[SessionRow(s)] = NoTx /\ cur[SessionRow(s)] = Absent
    BY <1>3, HeldInserted DEF BeginInit, PatientInv, TablesInv
  <2>4. db[SessionRow(s)] = Absent
    BY <2>3, Rows DEF IInv, StorageInv, OneVersion
  <2>5. Clients(next) = {Owner[s]}
    BY <2>2, NoValueAssumption DEF Clients, Served
  <2>6. /\ ~Debits(next) /\ ~Submits(next) /\ ~Signs(next) /\ ~Closes(next)
    BY <2>2 DEF Debits, Submits, Signs, Closes, Asserting
  <2>7. Kinds(next) /\ Found(next)
    BY <2>2, <2>4, <2>6 DEF Kinds, Found, Asserting
  <2> QED
    BY <1>2, <1>3, <2>1, <2>2, <2>5, <2>7 DEF BeginInit
<1>4. ASSUME NEW s \in Session, NEW op \in {"submit", "reveal", "cancel"}, BeginOnSession(t, s, op)
      PROVE  PatientInv'
  <2>1. PICK next : next = [Idle EXCEPT !.op = op, !.pc = "select", !.sess = s]
    OBVIOUS
  <2>2. /\ next \in Job /\ next.op = op /\ next.pc = "select" /\ next.opens = NoSession
        /\ next.sess = s /\ next.todo = {} /\ next.close = "none" /\ next.then = "idle"
        /\ next.did = {}
    BY <2>1 DEF Idle, Job, Op, Label
  <2>3. Clients(next) = {Owner[s]}
    BY <2>2 DEF Clients, Served
  <2>4. /\ ~Debits(next) /\ ~Submits(next) /\ ~Signs(next) /\ ~Closes(next)
    BY <2>2 DEF Debits, Submits, Signs, Closes, Asserting
  <2>5. Kinds(next) /\ Found(next)
    BY <2>2, <2>4 DEF Kinds, Found, Asserting
  <2> QED
    BY <1>2, <1>4, <2>1, <2>2, <2>3, <2>5 DEF BeginOnSession
<1>5. ASSUME BeginSweep(t)
      PROVE  PatientInv'
  <2>1. PICK next : next = [Idle EXCEPT !.op = "sweep", !.pc = "select"]
    OBVIOUS
  <2>2. /\ next \in Job /\ next.op = "sweep" /\ next.pc = "select" /\ next.opens = NoSession
        /\ next.todo = {} /\ next.close = "none" /\ next.then = "idle" /\ next.did = {}
    BY <2>1 DEF Idle, Job, Op, Label
  <2>3. Clients(next) = User
    BY <2>2 DEF Clients
  <2>4. /\ ~Debits(next) /\ ~Submits(next) /\ ~Signs(next) /\ ~Closes(next)
    BY <2>2 DEF Debits, Submits, Signs, Closes, Asserting
  <2>5. Kinds(next) /\ Found(next)
    BY <2>2, <2>4 DEF Kinds, Found, Asserting
  <2> QED
    BY <1>2, <1>5, <2>1, <2>2, <2>3, <2>5 DEF BeginSweep
<1> QED
  BY <1>3, <1>4, <1>5 DEF Begin

\* The opening accounts.
LEMMA InitPatient == DbInit => PatientInv
<1> SUFFICES ASSUME DbInit PROVE PatientInv
  OBVIOUS
<1>1. /\ \A s \in Session : db[SessionRow(s)] = Absent
      /\ \A u \in User : db[UserRow(u)] = Opening
      /\ db[ReserveRow] = OpeningReserve
  BY Rows DEF DbInit, SessionRow, UserRow, ReserveRow
<1>2. ReserveShaped(OpeningReserve)
  BY DEF ReserveShaped, OpeningReserve, NoBooks
<1>3. TablesInv
  BY <1>1, <1>2, OpeningAssumption DEF DbInit, TablesInv
<1>4. Clients(Idle) = {}
  BY DEF Clients, Idle
<1>5. Alone
  BY <1>4 DEF Alone, DbInit
<1>6. \A t \in Tx : Underway(t, job[t])
  BY IdleUnderway, NoValueAssumption DEF DbInit
<1> QED
  BY <1>3, <1>5, <1>6 DEF PatientInv

\* Every step of a service with patient customers, a crash included, preserves PatientInv.
LEMMA NextPatient ==
  ASSUME Patient, IInv, PatientInv, [Next]_vars
  PROVE  PatientInv'
<1>1. ASSUME NEW t \in Tx, Begin(t) PROVE PatientInv'
  BY <1>1, BeginPatient
<1>2. ASSUME NEW t \in Tx, Step(t) PROVE PatientInv'
  BY <1>2, LazyPatient, InitReadsPatient, DebitPatient, InsertPatient, SelectsPatient,
     MarkPatient, SignPatient, IssuePatient, RefundPatient, ClosePatient, AssertPatient,
     CommitPatient
     DEF Step, Statement, AssertAndCommit
<1>3. CASE UNCHANGED <<db, cur, lock, job>>
  <2>1. TablesInv' /\ Alone'
    BY <1>3 DEF PatientInv, TablesInv, ReserveShaped, Alone, Clients
  <2>2. ASSUME NEW t \in Tx PROVE Underway(t, job[t])'
    <3>1. PICK request : request = job[t]
      OBVIOUS
    <3>2. Underway(t, request)
      BY <3>1 DEF PatientInv
    <3>3. Underway(t, request)'
      BY <1>3, <3>2 DEF Underway, Holds, Found, Written, IsActive
    <3> QED
      BY <1>3, <3>1, <3>3
  <2> QED
    BY <2>1, <2>2 DEF PatientInv
<1>4. ASSUME NEW s \in Session, TtlElapses(s) PROVE PatientInv'
  BY <1>3, <1>4 DEF TtlElapses, storage
<1>5. CASE Crash
  <2>1. /\ cur' = db /\ db' = db
        /\ \A row \in Row : lock'[row] = NoTx
        /\ \A t \in Tx : job'[t] = Idle
    BY <1>5 DEF Crash, RollbackAll
  <2>2. TablesInv'
    BY <2>1 DEF PatientInv, TablesInv, ReserveShaped
  <2>3. Clients(Idle) = {}
    BY DEF Clients, Idle
  <2>4. Alone'
    BY <2>1, <2>3 DEF Alone, Clients
  <2>5. ASSUME NEW t \in Tx PROVE Underway(t, job[t])'
    <3>1. Underway(t, Idle)'
      BY <2>1, IdleUnderway, NoValueAssumption
    <3> QED
      BY <2>1, <3>1
  <2> QED
    BY <2>2, <2>4, <2>5 DEF PatientInv
<1>6. CASE UNCHANGED vars
  BY <1>3, <1>6 DEF vars
<1> QED
  BY <1>1, <1>2, <1>4, <1>5, <1>6 DEF Next

-----------------------------------------------------------------------------
(* The refinement                                                          *)

\* Only COMMIT changes the tables the ledger sees.
LEMMA Unchanging ==
  ASSUME [Next]_vars, \A t \in Tx : ~CommitTx(t)
  PROVE  db' = db
<1>1. ASSUME NEW t \in Tx, Begin(t) PROVE db' = db
  BY <1>1 DEF Begin, BeginInit, BeginOnSession, BeginSweep, Start, storage
<1>2. ASSUME NEW t \in Tx, Step(t) PROVE db' = db
  BY <1>2 DEF Step, Statement, AssertAndCommit, LazyCleanup, InitSelect, InitBalance, InitDebit,
     InitInsert, SubmitSelect, ExpireOnUse, SubmitMark, RevealSelect, RevealSign, RevealIssue,
     CancelSelect, SweepSelect, RefundUser, CloseSession, ReadReserve, ReadBalances, ReadInFlight,
     Select, Update, Write, Throw, Rollback, storage
<1>3. ASSUME NEW s \in Session, TtlElapses(s) PROVE db' = db
  BY <1>3 DEF TtlElapses, storage
<1>4. CASE Crash
  BY <1>4 DEF Crash, RollbackAll
<1> QED
  BY <1>1, <1>2, <1>3, <1>4 DEF Next, vars

\* The ledger speaks of the same statuses and of the same rivals.
LEMMA SameParams ==
    /\ Ledger!Absent = Absent /\ Ledger!Active = Active /\ Ledger!Closed = Closed
    /\ \A s \in Session : Ledger!Rival(s) = Rival(s)
    /\ \A s \in Session : Ledger!IsOpen(s) <=> IsActive(db, s)
  BY DEF Ledger!Absent, Absent, Ledger!Active, Active, Ledger!Closed, Closed, Ledger!Rival, Rival,
         Ledger!IsOpen, IsActive

\* The opening accounts are the ledger's.
LEMMA InitRefines == DbInit => Ledger!Init
<1> SUFFICES ASSUME DbInit PROVE Ledger!Init
  OBVIOUS
<1>1. /\ \A s \in Session : db[SessionRow(s)] = Absent
      /\ \A u \in User : db[UserRow(u)] = Opening
      /\ db[ReserveRow] = OpeningReserve
  BY Rows DEF DbInit, SessionRow, UserRow, ReserveRow
<1>2. OpeningReserve.total_issued = 0
  BY DEF OpeningReserve, NoBooks
<1> QED
  BY <1>1, <1>2, SameParams DEF Ledger!Init

\* A COMMIT is the request taking effect at once, or changes nothing.
LEMMA CommitRefines ==
  ASSUME IInv, PatientInv, NEW t \in Tx, CommitTx(t)
  PROVE  [Ledger!Next]_(Ledger!ledger)
<1>1. /\ Apart /\ IInv /\ job[t] \in Job /\ job[t].pc = "commit" /\ job[t].pc \in Asserting
  BY Requests DEF CommitTx, At, Asserting
<1>2. PICK request \in Job : request = job[t]
  BY <1>1
<1>3. /\ Underway(t, request) /\ Kinds(request) /\ Found(request) /\ Holds(t, request)
      /\ Written(request) /\ request.pc = "commit"
  BY <1>1, <1>2, Requests DEF Underway
<1>4. \A r \in Row : db'[r] = IF lock[r] = t THEN cur[r] ELSE db[r]
  BY DEF CommitTx, Commit, Read
<1>5. /\ \A u \in User : db'[UserRow(u)] =
             IF lock[UserRow(u)] = t THEN cur[UserRow(u)] ELSE db[UserRow(u)]
      /\ \A s \in Session : db'[SessionRow(s)] =
             IF lock[SessionRow(s)] = t THEN cur[SessionRow(s)] ELSE db[SessionRow(s)]
      /\ db'[ReserveRow] = IF lock[ReserveRow] = t THEN cur[ReserveRow] ELSE db[ReserveRow]
  BY <1>4, Rows
<1>6. \A s \in Session : db[SessionRow(s)] \in SessionValue
  BY DEF IInv, StorageInv, StorageTyped
<1>7. CASE Opens(request)
  <2> DEFINE s == request.opens
  <2>1. /\ Debits(request) /\ ~Submits(request) /\ ~Signs(request) /\ ~Issues(request) /\ ~Closes(request)
        /\ s \in Session /\ Owner[s] \in User
    BY <1>3, <1>7, OwnerAssumption DEF Opens, Debits, Submits, Signs, Issues, Closes, Kinds
  <2>2. /\ db[SessionRow(s)] = Absent
        /\ \A r \in Rival(s) : ~IsActive(db, r)
        /\ db[UserRow(Owner[s])] >= Amount[s]
    BY <1>3, <2>1 DEF Found, Debits, Rival
  <2>3. /\ \A u \in User : db'[UserRow(u)] =
                IF u = Owner[s] THEN db[UserRow(u)] - Amount[s] ELSE db[UserRow(u)]
        /\ \A q \in Session : db'[SessionRow(q)] =
                IF q = s THEN [status |-> "pending", j_index |-> NoIndex] ELSE db[SessionRow(q)]
        /\ db'[ReserveRow] = db[ReserveRow]
    BY <1>3, <1>5, <1>7, <2>1 DEF Holds, Written
  <2>4. [Absent EXCEPT !.status = "pending"] = [status |-> "pending", j_index |-> NoIndex]
    BY DEF Absent
  <2>5. [u \in User |-> db[UserRow(u)]]' =
            [[u \in User |-> db[UserRow(u)]] EXCEPT ![Owner[s]] = @ - Amount[s]]
    BY <2>1, <2>3
  <2>6. [q \in Session |-> db[SessionRow(q)]]' =
            [[q \in Session |-> db[SessionRow(q)]] EXCEPT ![s].status = "pending"]
    BY <2>1, <2>2, <2>3, <2>4
  <2>7. Ledger!Open(s)
    BY <2>1, <2>2, <2>3, <2>5, <2>6, SameParams DEF Ledger!Open, Rival
  <2> QED
    BY <2>1, <2>7 DEF Ledger!Next
<1>8. CASE Submits(request)
  <2> DEFINE s == request.sess
  <2>1. /\ ~Debits(request) /\ ~Opens(request) /\ ~Signs(request) /\ ~Issues(request) /\ ~Closes(request)
        /\ s \in Session /\ request.j \in Index
    BY <1>3, <1>8 DEF Opens, Debits, Submits, Signs, Issues, Closes, Kinds
  <2>2. db[SessionRow(s)].status = "pending"
    BY <1>3, <1>8 DEF Found
  <2>3. /\ \A u \in User : db'[UserRow(u)] = db[UserRow(u)]
        /\ \A q \in Session : db'[SessionRow(q)] =
                IF q = s THEN [status |-> "submitted", j_index |-> request.j] ELSE db[SessionRow(q)]
        /\ db'[ReserveRow] = db[ReserveRow]
    BY <1>3, <1>5, <1>8, <2>1 DEF Holds, Written
  <2>4. Ledger!Submit(s, request.j)
    BY <2>1, <2>2, <2>3 DEF Ledger!Submit
  <2> QED
    BY <2>1, <2>4 DEF Ledger!Next
<1>9. CASE Signs(request)
  <2> DEFINE s == request.sess
  <2>1. /\ ~Debits(request) /\ ~Opens(request) /\ ~Submits(request) /\ Issues(request) /\ ~Closes(request)
        /\ s \in Session
    BY <1>3, <1>9 DEF Opens, Debits, Submits, Signs, Issues, Closes, Kinds
  <2>2. db[SessionRow(s)].status = "submitted"
    BY <1>3, <1>9 DEF Found
  <2>3. /\ \A u \in User : db'[UserRow(u)] = db[UserRow(u)]
        /\ \A q \in Session : db'[SessionRow(q)] =
                IF q = s THEN [status |-> "committed", j_index |-> db[SessionRow(s)].j_index]
                ELSE db[SessionRow(q)]
        /\ db'[ReserveRow].total_issued = db[ReserveRow].total_issued + Amount[s]
    BY <1>3, <1>5, <1>9, <2>1 DEF Holds, Written
  <2>4. [db[SessionRow(s)] EXCEPT !.status = "committed"]
            = [status |-> "committed", j_index |-> db[SessionRow(s)].j_index]
    BY <1>6, <2>1 DEF SessionValue
  <2>5. Ledger!Sign(s)
    BY <2>1, <2>2, <2>3, <2>4 DEF Ledger!Sign
  <2> QED
    BY <2>1, <2>5 DEF Ledger!Next
<1>10. CASE Closes(request)
  <2> DEFINE S == request.did
             how == request.close
  <2>1. /\ ~Debits(request) /\ ~Opens(request) /\ ~Submits(request) /\ ~Signs(request) /\ ~Issues(request)
        /\ how \in Closed /\ S # {} /\ S \subseteq Session /\ Paid(request) = S
    BY <1>3, <1>10 DEF Opens, Debits, Submits, Signs, Issues, Closes, Kinds, Asserting, Paid, Job
  <2>2. /\ \A s \in S : IsActive(db, s)
        /\ \A s, r \in S : Owner[s] = Owner[r] => s = r
    BY <1>1, <1>3, <1>10, <2>1, Refunded
  <2>3. how # "expired" => S = {request.sess} /\ request.sess \in Session
    BY <1>3, <1>10, <2>1 DEF Kinds, Closes, Job, Op
  <2>4. how = "aborted" => \A s \in S : db[SessionRow(s)].status = "submitted"
    BY <1>3, <1>10, <2>3 DEF Found
  <2>5. \A s \in Session : db'[SessionRow(s)] =
            IF s \in S THEN [status |-> how, j_index |-> db[SessionRow(s)].j_index]
            ELSE db[SessionRow(s)]
    BY <1>3, <1>5, <1>10, <2>1 DEF Holds, Written
  <2>6. db'[ReserveRow] = db[ReserveRow]
    BY <1>3, <1>5, <2>1 DEF Holds
  <2>7. \A u \in User : db'[UserRow(u)] = db[UserRow(u)] + Ledger!Refund(S, u)
    <3> SUFFICES ASSUME NEW u \in User
                 PROVE  db'[UserRow(u)] = db[UserRow(u)] + Ledger!Refund(S, u)
      OBVIOUS
    <3>1. CASE \E s \in S : Owner[s] = u
      <4>1. PICK s \in S : Owner[s] = u
        BY <3>1
      <4>2. (CHOOSE r \in S : Owner[r] = u) = s
        BY <2>2, <4>1
      <4>3. Ledger!Refund(S, u) = Amount[s]
        BY <4>1, <4>2 DEF Ledger!Refund
      <4>4. lock[UserRow(u)] = t /\ cur[UserRow(u)] = db[UserRow(u)] + Amount[s]
        BY <1>3, <1>10, <2>1, <4>1 DEF Holds, Written
      <4> QED
        BY <1>5, <4>3, <4>4
    <3>2. CASE ~\E s \in S : Owner[s] = u
      <4>1. Ledger!Refund(S, u) = 0
        BY <3>2 DEF Ledger!Refund
      <4>2. lock[UserRow(u)] # t
        BY <1>3, <2>1, <3>2 DEF Holds
      <4>3. db[UserRow(u)] \in Nat
        BY DEF PatientInv, TablesInv
      <4> QED
        BY <1>5, <4>1, <4>2, <4>3
    <3> QED
      BY <3>1, <3>2
  <2>8. \A s \in S : [db[SessionRow(s)] EXCEPT !.status = how]
                        = [status |-> how, j_index |-> db[SessionRow(s)].j_index]
    BY <1>6, <2>1 DEF SessionValue
  <2>9. Ledger!Close(S, how)
    <3>1. S # {} /\ (how = "aborted" => \A s \in S : db[SessionRow(s)].status = "submitted")
      BY <2>1, <2>4
    <3>2. how # "expired" => \E s \in Session : S = {s}
      BY <2>3
    <3> QED
      BY <2>1, <2>5, <2>6, <2>7, <2>8, <3>1, <3>2 DEF Ledger!Close
  <2>10. S \in SUBSET {s \in Session : Ledger!IsOpen(s)}
    BY <2>1, <2>2, SameParams
  <2> QED
    BY <2>1, <2>9, <2>10, SameParams DEF Ledger!Next
<1>11. CASE ~Opens(request) /\ ~Submits(request) /\ ~Signs(request) /\ ~Closes(request)
  <2>1. ~Debits(request) /\ ~Issues(request)
    BY <1>3, <1>11 DEF Opens, Debits, Issues
  <2>2. /\ \A u \in User : db'[UserRow(u)] = db[UserRow(u)]
        /\ \A s \in Session : db'[SessionRow(s)] = db[SessionRow(s)]
        /\ db'[ReserveRow] = db[ReserveRow]
    BY <1>3, <1>5, <1>11, <2>1 DEF Holds
  <2>3. UNCHANGED Ledger!ledger
    BY <2>2 DEF Ledger!ledger
  <2> QED
    BY <2>3
<1> QED
  BY <1>7, <1>8, <1>9, <1>10, <1>11

\* Every other step changes nothing the ledger sees.
LEMMA NextRefines ==
  ASSUME IInv, PatientInv, [Next]_vars
  PROVE  [Ledger!Next]_(Ledger!ledger)
<1>1. CASE \E t \in Tx : CommitTx(t)
  BY <1>1, CommitRefines
<1>2. CASE \A t \in Tx : ~CommitTx(t)
  <2>1. db' = db
    BY <1>2, Unchanging
  <2>2. UNCHANGED Ledger!ledger
    BY <2>1 DEF Ledger!ledger
  <2> QED
    BY <2>2
<1> QED
  BY <1>1, <1>2

\* With one request per customer at a time, PatientInv holds throughout.
LEMMA PatientInvariance == ASSUME Patient PROVE Spec => [](IInv /\ PatientInv)
<1>1. DbInit => IInv /\ PatientInv
  BY InitIInv, InitPatient
<1>2. IInv /\ PatientInv /\ [Next]_vars => (IInv /\ PatientInv)'
  BY NextIInv, NextPatient
<1> QED
  BY <1>1, <1>2, PTL DEF Spec

\* With one request per customer at a time, nobody is ever debited more than they have.
THEOREM NoOverdraftPatient == ASSUME Patient PROVE Spec => []NoOverdraft
<1>1. PatientInv => NoOverdraft
  BY DEF PatientInv, TablesInv, NoOverdraft
<1> QED
  BY <1>1, PatientInvariance, PTL

\* With one request per customer at a time, every request takes effect at once or not at all.
THEOREM AtomicPatient == ASSUME Patient PROVE Spec => Atomic
<1>1. DbInit => Ledger!Init
  BY InitRefines
<1>2. IInv /\ PatientInv /\ [Next]_vars => [Ledger!Next]_(Ledger!ledger)
  BY NextRefines
<1> QED
  BY <1>1, <1>2, PatientInvariance, PTL DEF Spec, Atomic, Ledger!Spec

-----------------------------------------------------------------------------
(* Each session is settled once                                            *)

Ended == Closed \cup {"committed"}

\* The history counts what the tables show: a session that ended was settled once.
Counted ==
    /\ settled = [s \in Session |-> settled[s]]
    /\ \A s \in Session : settled[s] = IF db[SessionRow(s)].status \in Ended THEN 1 ELSE 0

\* COMMIT settles the sessions its request has refunded or signed; they were active until then.
LEMMA CommitCounts ==
  ASSUME IInv, PatientInv, Counted, NEW t \in Tx, CommitTx(t)
  PROVE  Counted'
<1>1. PICK request \in Job : request = job[t]
  BY Requests
<1>2. /\ Underway(t, request) /\ Kinds(request) /\ Found(request) /\ Holds(t, request)
      /\ Written(request) /\ request.pc = "commit" /\ Apart
  BY <1>1, Requests DEF Underway, CommitTx, At
<1>3. settled' = [s \in Session |-> IF s \in request.did THEN settled[s] + 1 ELSE settled[s]]
  BY <1>1 DEF CommitTx
<1>4. \A s \in Session : db'[SessionRow(s)] =
           IF lock[SessionRow(s)] = t THEN cur[SessionRow(s)] ELSE db[SessionRow(s)]
  BY Rows DEF CommitTx, Commit, Read
<1>5. ASSUME NEW s \in Session
      PROVE  settled'[s] = IF db'[SessionRow(s)].status \in Ended THEN 1 ELSE 0
  <2>1. settled[s] = IF db[SessionRow(s)].status \in Ended THEN 1 ELSE 0
    BY DEF Counted
  <2>2. CASE Closes(request) /\ s \in request.did
    <3>1. lock[SessionRow(s)] = t
      BY <1>2, <2>2 DEF Holds
    <3>2. cur[SessionRow(s)] = [status |-> request.close, j_index |-> db[SessionRow(s)].j_index]
      BY <1>2, <2>2 DEF Written
    <3>3. cur[SessionRow(s)].status \in Ended
      BY <2>2, <3>2 DEF Closes, Job, Ended
    <3>4. db[SessionRow(s)].status \notin Ended
      <4>1. IsActive(db, s)
        BY <1>2, <2>2, Refunded DEF Paid
      <4> QED
        BY <4>1 DEF IsActive, Active, Ended, Closed
    <3> QED
      BY <1>3, <1>4, <2>1, <2>2, <3>1, <3>3, <3>4
  <2>3. CASE Signs(request) /\ s = request.sess
    <3>1. lock[SessionRow(s)] = t /\ s \in request.did
      BY <1>2, <2>3 DEF Holds, Kinds
    <3>2. cur[SessionRow(s)].status \in Ended /\ db[SessionRow(s)].status \notin Ended
      BY <1>2, <2>3 DEF Written, Found, Ended, Closed
    <3> QED
      BY <1>3, <1>4, <2>1, <3>1, <3>2
  <2>4. CASE ~(Closes(request) /\ s \in request.did) /\ ~(Signs(request) /\ s = request.sess)
    <3>1. s \notin request.did
      BY <1>2, <2>4 DEF Kinds
    <3>2. lock[SessionRow(s)] = t => /\ cur[SessionRow(s)].status \notin Ended
                                     /\ db[SessionRow(s)].status \notin Ended
      <4>1. CASE Opens(request) /\ s = request.opens
        BY <1>2, <4>1 DEF Opens, Debits, Written, Found, Absent, Ended, Closed
      <4>2. CASE Submits(request) /\ s = request.sess
        BY <1>2, <4>2 DEF Written, Found, Ended, Closed
      <4> QED
        BY <1>2, <2>4, <4>1, <4>2 DEF Holds
    <3> QED
      BY <1>3, <1>4, <2>1, <3>1, <3>2
  <2> QED
    BY <2>2, <2>3, <2>4
<1> QED
  BY <1>3, <1>5 DEF Counted

\* Every other step leaves both the history and the committed tables alone.
LEMMA NextCounts ==
  ASSUME IInv, PatientInv, Counted, [Next]_vars
  PROVE  Counted'
<1>1. CASE \E t \in Tx : CommitTx(t)
  BY <1>1, CommitCounts
<1>2. CASE \A t \in Tx : ~CommitTx(t)
  <2>1. db' = db
    BY <1>2, Unchanging
  <2>2. settled' = settled
    <3>1. ASSUME NEW t \in Tx, Begin(t) PROVE settled' = settled
      BY <3>1 DEF Begin, BeginInit, BeginOnSession, BeginSweep, Start, history
    <3>2. ASSUME NEW t \in Tx, Step(t) PROVE settled' = settled
      BY <1>2, <3>2 DEF Step, Statement, AssertAndCommit, LazyCleanup, InitSelect, InitBalance,
         InitDebit, InitInsert, SubmitSelect, ExpireOnUse, SubmitMark, RevealSelect, RevealSign,
         RevealIssue, CancelSelect, SweepSelect, RefundUser, CloseSession, ReadReserve,
         ReadBalances, ReadInFlight, Select, Update, Throw, history
    <3>3. ASSUME NEW s \in Session, TtlElapses(s) PROVE settled' = settled
      BY <3>3 DEF TtlElapses, history
    <3>4. CASE Crash
      BY <3>4 DEF Crash, history
    <3> QED
      BY <3>1, <3>2, <3>3, <3>4 DEF Next, vars
  <2> QED
    BY <2>1, <2>2 DEF Counted
<1> QED
  BY <1>1, <1>2

\* With one request per customer at a time, no session is ever refunded or signed twice,
\* whatever the reads of assertInvariant saw.
THEOREM SettledOncePatient ==
  ASSUME Patient PROVE Spec => [](SettledOnce /\ \A s \in Session : settled[s] <= 1)
<1>1. DbInit => Counted
  <2> SUFFICES ASSUME DbInit PROVE Counted
    OBVIOUS
  <2>1. \A s \in Session : db[SessionRow(s)] = Absent
    BY Rows DEF DbInit, SessionRow
  <2>2. Absent.status \notin Ended
    BY DEF Absent, Ended, Closed
  <2>3. settled = [s \in Session |-> settled[s]] /\ \A s \in Session : settled[s] = 0
    BY DEF DbInit
  <2> QED
    BY <2>1, <2>2, <2>3 DEF Counted
<1>2. IInv /\ PatientInv /\ Counted /\ [Next]_vars => Counted'
  BY NextCounts
<1>3. Counted => SettledOnce /\ \A s \in Session : settled[s] <= 1
  BY DEF Counted, SettledOnce
<1> QED
  BY <1>1, <1>2, <1>3, PatientInvariance, PTL DEF Spec

-----------------------------------------------------------------------------
(***************************************************************************)
(* The books, however the requests overlap.  Gap says how far a version of *)
(* the tables is from the reserve equation, Change what one request has    *)
(* done to it; the sums of assertInvariant are additive, so the changes of *)
(* requests that hold different rows add up, in whatever order they        *)
(* commit.                                                                 *)
(***************************************************************************)
Gap(version) ==
    LET bank == version[ReserveRow]
    IN  bank.reserve_balance - SumBalance(version) - (bank.total_issued - bank.total_redeemed)
            - InFlight(version)

\* What the statements of request t have changed of it so far.
Change(t) == Gap(View(t)) - Gap(db)

\* What they should have changed of it, at this point of the handler.
Due(request) ==
    IF request.pc = "insert" THEN Amount[request.opens]
    ELSE IF request.pc = "issue" THEN Amount[request.sess]
    ELSE IF request.pc = "close" THEN 0 - Amount[request.sess]
    ELSE 0

\* The sessions it has written that it took for active.
Touched(request) ==
    request.did \cup (IF Submits(request) \/ Signs(request) THEN {request.sess} ELSE {})

\* The books are as they should be unless it wrote over a session that is not active, and
\* then money is missing.
Settles(t, request) ==
    /\ Change(t) <= Due(request)
    /\ Change(t) = Due(request) <=> \A s \in Touched(request) : IsActive(db, s)

\* What assertInvariant has read, unless a commit fell between its reads.
Tallied(t, request) ==
    ~tally[t].torn =>
       /\ request.pc \in {"readBalances", "readInFlight"} => tally[t].books = View(t)[ReserveRow]
       /\ request.pc = "readInFlight" => tally[t].sum = SumBalance(View(t))
       /\ request.pc = "commit" /\ ~blind => Change(t) = 0

\* The session init is going to insert is not there yet, those a request works on are.
Present(request) ==
    /\ request.opens \in Session => db[SessionRow(request.opens)].status = "none"
    /\ \A s \in {request.sess} \cup request.todo \cup request.did :
          s \in Session => db[SessionRow(s)].status # "none"

\* The statuses it has written.
Marks(request) ==
    /\ Opens(request) => cur[SessionRow(request.opens)].status = "pending"
    /\ Submits(request) => cur[SessionRow(request.sess)].status = "submitted"
    /\ \A s \in request.did : cur[SessionRow(s)].status \in Ended

Shape(t, request) == Kinds(request) /\ Holds(t, request) /\ Present(request) /\ Marks(request)

Booked(t, request) == Shape(t, request) /\ Settles(t, request) /\ Tallied(t, request)

\* No two inits insert the same session.
OwnIds == \A t \in Tx : \A u \in Tx \ {t} :
             job[t].opens \in Session => job[u].opens # job[t].opens

MoneyIn(version) ==
    /\ \A u \in User : version[UserRow(u)] \in Int
    /\ version[ReserveRow] \in ReserveValue

MoneyTyped ==
    /\ MoneyIn(db) /\ MoneyIn(cur)
    /\ tally \in [Tx -> Tally]
    /\ blind \in BOOLEAN
    /\ settled \in [Session -> Nat]

\* As long as nobody has committed on torn reads, the books balance and a session that ended
\* was settled once.
Audited ==
    ~blind => /\ Gap(db) = 0
              /\ \A s \in Session :
                    settled[s] = IF db[SessionRow(s)].status \in Ended THEN 1 ELSE 0

BooksInv == MoneyTyped /\ OwnIds /\ Audited /\ \A t \in Tx : Booked(t, job[t])

Paper(bank) == bank.reserve_balance - (bank.total_issued - bank.total_redeemed)

\* What session s has in flight in a version of the tables.
Owed(version, s) == IF IsActive(version, s) THEN Amount[s] ELSE 0

\* The sums are integers, and the reserve equation says that there is no gap.
LEMMA GapTyped ==
  ASSUME NEW version, MoneyIn(version)
  PROVE  /\ SumBalance(version) \in Int /\ InFlight(version) \in Int
         /\ Paper(version[ReserveRow]) \in Int
         /\ Gap(version) = Paper(version[ReserveRow]) - SumBalance(version) - InFlight(version)
         /\ Gap(version) \in Int
         /\ Balanced(version) <=> Gap(version) = 0
<1>1. [u \in User |-> version[UserRow(u)]] \in [User -> Int]
  BY DEF MoneyIn
<1>2. SumBalance(version) \in Int
  BY <1>1, SumInt, FiniteAssumption DEF SumBalance
<1>3. [s \in Session |-> IF IsActive(version, s) THEN Amount[s] ELSE 0] \in [Session -> Int]
  BY AmountAssumption
<1>4. InFlight(version) \in Int
  BY <1>3, SumInt, FiniteAssumption DEF InFlight
<1>5. PICK bank \in ReserveValue : bank = version[ReserveRow]
  BY DEF MoneyIn
<1>6. bank.reserve_balance \in Int /\ bank.total_issued \in Int /\ bank.total_redeemed \in Int
  BY DEF ReserveValue
<1> QED
  BY <1>2, <1>4, <1>5, <1>6 DEF Gap, Balanced, Paper

\* A write of one users row.
LEMMA GapOfUser ==
  ASSUME NEW v, NEW w, MoneyIn(v), MoneyIn(w), NEW u \in User,
         \A r \in Row \ {UserRow(u)} : w[r] = v[r]
  PROVE  Gap(w) = Gap(v) + v[UserRow(u)] - w[UserRow(u)]
<1> DEFINE f == [x \in User |-> v[UserRow(x)]]
           g == [x \in User |-> w[UserRow(x)]]
<1>1. f \in [User -> Int] /\ g \in [User -> Int] /\ \A x \in User : x # u => g[x] = f[x]
  BY Rows, RowsDiffer DEF MoneyIn
<1> HIDE DEF f, g
<1>2. SumFunction(g) = SumFunction(f) - f[u] + g[u]
  BY <1>1, SumChange, FiniteAssumption
<1>3. SumBalance(w) = SumBalance(v) - v[UserRow(u)] + w[UserRow(u)]
  BY <1>2 DEF SumBalance, f, g
<1>4. w[ReserveRow] = v[ReserveRow] /\ \A s \in Session : w[SessionRow(s)] = v[SessionRow(s)]
  BY Rows, RowsDiffer
<1>5. InFlight(w) = InFlight(v)
  BY <1>4 DEF InFlight, IsActive
<1>6. v[UserRow(u)] \in Int /\ w[UserRow(u)] \in Int
  BY DEF MoneyIn
<1> QED
  BY <1>3, <1>4, <1>5, <1>6, GapTyped

\* A write of one session row.
LEMMA GapOfSession ==
  ASSUME NEW v, NEW w, MoneyIn(v), MoneyIn(w), NEW s \in Session,
         \A r \in Row \ {SessionRow(s)} : w[r] = v[r]
  PROVE  Gap(w) = Gap(v) + Owed(v, s) - Owed(w, s)
<1> DEFINE f == [x \in Session |-> IF IsActive(v, x) THEN Amount[x] ELSE 0]
           g == [x \in Session |-> IF IsActive(w, x) THEN Amount[x] ELSE 0]
<1>1. \A x \in Session : x # s => w[SessionRow(x)] = v[SessionRow(x)]
  BY Rows
<1>2. f \in [Session -> Int] /\ g \in [Session -> Int] /\ \A x \in Session : x # s => g[x] = f[x]
  BY <1>1, AmountAssumption DEF IsActive
<1>3. f[s] = Owed(v, s) /\ g[s] = Owed(w, s)
  BY DEF Owed
<1> HIDE DEF f, g
<1>4. SumFunction(g) = SumFunction(f) - f[s] + g[s]
  BY <1>2, SumChange, FiniteAssumption
<1>5. InFlight(w) = InFlight(v) - Owed(v, s) + Owed(w, s)
  BY <1>3, <1>4 DEF InFlight, f, g
<1>6. w[ReserveRow] = v[ReserveRow] /\ \A u \in User : w[UserRow(u)] = v[UserRow(u)]
  BY Rows, RowsDiffer
<1>7. SumBalance(w) = SumBalance(v)
  BY <1>6 DEF SumBalance
<1>8. Owed(v, s) \in Int /\ Owed(w, s) \in Int
  BY AmountAssumption DEF Owed
<1> QED
  BY <1>5, <1>6, <1>7, <1>8, GapTyped

\* A write of the reserve.
LEMMA GapOfReserve ==
  ASSUME NEW v, NEW w, MoneyIn(v), MoneyIn(w),
         \A r \in Row \ {ReserveRow} : w[r] = v[r]
  PROVE  Gap(w) = Gap(v) - Paper(v[ReserveRow]) + Paper(w[ReserveRow])
<1>1. /\ \A u \in User : w[UserRow(u)] = v[UserRow(u)]
      /\ \A s \in Session : w[SessionRow(s)] = v[SessionRow(s)]
  BY Rows, RowsDiffer
<1>2. SumBalance(w) = SumBalance(v) /\ InFlight(w) = InFlight(v)
  BY <1>1 DEF SumBalance, InFlight, IsActive
<1> QED
  BY <1>2, GapTyped

\* Where a row is the same in v as in w and in x as in y, or else in v as in x and in w as in y.
LEMMA GapLinear ==
  ASSUME NEW v, NEW w, NEW x, NEW y, MoneyIn(v), MoneyIn(w), MoneyIn(x), MoneyIn(y),
         \A r \in Row : (v[r] = w[r] /\ x[r] = y[r]) \/ (v[r] = x[r] /\ w[r] = y[r])
  PROVE  Gap(v) - Gap(w) = Gap(x) - Gap(y)
<1>1. SumBalance(v) - SumBalance(w) = SumBalance(x) - SumBalance(y)
  <2> DEFINE f(a) == [u \in User |-> a[UserRow(u)]]
  <2>1. /\ f(v) \in [User -> Int] /\ f(w) \in [User -> Int]
        /\ f(x) \in [User -> Int] /\ f(y) \in [User -> Int]
    BY DEF MoneyIn
  <2>2. \A u \in User : f(v)[u] - f(w)[u] = f(x)[u] - f(y)[u]
    <3> TAKE u \in User
    <3>1. UserRow(u) \in Row
      BY Rows
    <3>2. /\ v[UserRow(u)] \in Int /\ w[UserRow(u)] \in Int
          /\ x[UserRow(u)] \in Int /\ y[UserRow(u)] \in Int
      BY DEF MoneyIn
    <3>3. v[UserRow(u)] - w[UserRow(u)] = x[UserRow(u)] - y[UserRow(u)]
      BY <3>1, <3>2
    <3> QED
      BY <3>3
  <2> HIDE DEF f
  <2>3. SumFunction(f(v)) - SumFunction(f(w)) = SumFunction(f(x)) - SumFunction(f(y))
    BY <2>1, <2>2, SumLinear, FiniteAssumption
  <2> QED
    BY <2>3 DEF SumBalance, f
<1>2. InFlight(v) - InFlight(w) = InFlight(x) - InFlight(y)
  <2> DEFINE f(a) == [s \in Session |-> IF IsActive(a, s) THEN Amount[s] ELSE 0]
  <2>1. /\ f(v) \in [Session -> Int] /\ f(w) \in [Session -> Int]
        /\ f(x) \in [Session -> Int] /\ f(y) \in [Session -> Int]
    BY AmountAssumption
  <2>2. \A s \in Session : f(v)[s] - f(w)[s] = f(x)[s] - f(y)[s]
    <3> TAKE s \in Session
    <3>1. SessionRow(s) \in Row
      BY Rows
    <3>2. (f(v)[s] = f(w)[s] /\ f(x)[s] = f(y)[s]) \/ (f(v)[s] = f(x)[s] /\ f(w)[s] = f(y)[s])
      BY <3>1 DEF IsActive
    <3>3. f(v)[s] \in Int /\ f(w)[s] \in Int /\ f(x)[s] \in Int /\ f(y)[s] \in Int
      BY <2>1
    <3> HIDE DEF f
    <3> QED
      BY <3>2, <3>3
  <2> HIDE DEF f
  <2>3. SumFunction(f(v)) - SumFunction(f(w)) = SumFunction(f(x)) - SumFunction(f(y))
    BY <2>1, <2>2, SumLinear, FiniteAssumption
  <2> QED
    BY <2>3 DEF InFlight, f
<1>3. Paper(v[ReserveRow]) - Paper(w[ReserveRow]) = Paper(x[ReserveRow]) - Paper(y[ReserveRow])
  <2>1. /\ Paper(v[ReserveRow]) \in Int /\ Paper(w[ReserveRow]) \in Int
        /\ Paper(x[ReserveRow]) \in Int /\ Paper(y[ReserveRow]) \in Int
    BY GapTyped
  <2>2. \/ Paper(v[ReserveRow]) = Paper(w[ReserveRow]) /\ Paper(x[ReserveRow]) = Paper(y[ReserveRow])
        \/ Paper(v[ReserveRow]) = Paper(x[ReserveRow]) /\ Paper(w[ReserveRow]) = Paper(y[ReserveRow])
    BY Rows
  <2> QED
    BY <2>1, <2>2
<1>4. /\ Gap(v) = Paper(v[ReserveRow]) - SumBalance(v) - InFlight(v)
      /\ Gap(w) = Paper(w[ReserveRow]) - SumBalance(w) - InFlight(w)
      /\ Gap(x) = Paper(x[ReserveRow]) - SumBalance(x) - InFlight(x)
      /\ Gap(y) = Paper(y[ReserveRow]) - SumBalance(y) - InFlight(y)
  BY GapTyped
<1>5. /\ Paper(v[ReserveRow]) \in Int /\ SumBalance(v) \in Int /\ InFlight(v) \in Int
      /\ Paper(w[ReserveRow]) \in Int /\ SumBalance(w) \in Int /\ InFlight(w) \in Int
      /\ Paper(x[ReserveRow]) \in Int /\ SumBalance(x) \in Int /\ InFlight(x) \in Int
      /\ Paper(y[ReserveRow]) \in Int /\ SumBalance(y) \in Int /\ InFlight(y) \in Int
  BY GapTyped
<1> QED
  BY <1>1, <1>2, <1>3, <1>4, <1>5

-----------------------------------------------------------------------------
(* What a request sees                                                     *)

\* The view of a request, row by row.
LEMMA Views ==
  ASSUME MoneyTyped, NEW t \in Tx
  PROVE  /\ \A r \in Row : View(t)[r] = IF lock[r] = t THEN cur[r] ELSE db[r]
         /\ MoneyIn(View(t)) /\ MoneyIn(db)
         /\ Gap(View(t)) \in Int /\ Gap(db) \in Int /\ Change(t) \in Int
<1>1. \A r \in Row : View(t)[r] = IF lock[r] = t THEN cur[r] ELSE db[r]
  BY DEF View, Read
<1>2. MoneyIn(View(t))
  BY <1>1, Rows DEF MoneyTyped, MoneyIn
<1> QED
  BY <1>1, <1>2, GapTyped DEF MoneyTyped, Change

\* A request that holds nothing sees what is committed and has changed nothing.
LEMMA NothingChanged ==
  ASSUME IInv, MoneyTyped, NEW t \in Tx, \A r \in Row : lock[r] # t
  PROVE  View(t) = db /\ Change(t) = 0
<1>1. View(t) = [r \in Row |-> db[r]]
  BY DEF View, Read
<1>2. db = [r \in Row |-> db[r]]
  BY DEF IInv, StorageInv, StorageTyped
<1> QED
  BY <1>1, <1>2, Views DEF Change

\* Requests that hold nothing.
LEMMA ShapeHoldsNothing ==
  ASSUME NEW t \in Tx, NEW request \in Job, Shape(t, request),
         request.pc \in Unwritten \cup {"idle"}
  PROVE  /\ \A row \in Row : lock[row] # t
         /\ request.did = {} /\ request.todo = {} /\ request.close = "none" /\ request.then = "idle"
<1>1. Kinds(request) /\ Holds(t, request)
  BY DEF Shape
<1>2. request.then = "idle"
  BY <1>1 DEF Kinds, Unwritten, Asserting, Job
<1>3. /\ ~Debits(request) /\ ~Opens(request) /\ ~Submits(request) /\ ~Signs(request)
      /\ ~Issues(request) /\ ~Closes(request)
  BY <1>1 DEF Kinds, Unwritten, Asserting, Debits, Opens, Submits, Signs, Issues, Closes
<1>4. \A row \in Row : lock[row] # t
  BY <1>1, <1>3, RowsDiffer DEF Holds
<1> QED
  BY <1>1, <1>2, <1>3, <1>4 DEF Kinds, Closes

\* Being booked depends only on the rows a request holds and on what is committed.
LEMMA StaysBooked ==
  ASSUME IInv, MoneyTyped, NEW u \in Tx, NEW request \in Job, Booked(u, request),
         db' = db, blind' = blind, tally'[u] = tally[u],
         \A row \in Row : lock'[row] = u <=> lock[row] = u,
         \A row \in Row : lock[row] = u => cur'[row] = cur[row]
  PROVE  Booked(u, request)'
<1>1. View(u)' = View(u)
  BY DEF View, Read
<1>2. Change(u)' = Change(u)
  BY <1>1 DEF Change, Gap, SumBalance, InFlight, IsActive
<1>3. Kinds(request) /\ Holds(u, request) /\ Present(request) /\ Marks(request)
  BY DEF Booked, Shape
<1>4. Holds(u, request)'
  BY <1>3, Rows DEF Holds
<1>5. Present(request)'
  BY <1>3 DEF Present
<1>6. Marks(request)'
  <2>1. Opens(request) => request.opens \in Session /\ lock[SessionRow(request.opens)] = u
    BY <1>3 DEF Kinds, Holds, Opens, Debits
  <2>2. Submits(request) => request.sess \in Session /\ lock[SessionRow(request.sess)] = u
    BY <1>3 DEF Kinds, Holds, Submits
  <2>3. \A s \in request.did : s \in Session /\ lock[SessionRow(s)] = u
    BY <1>3 DEF Kinds, Holds, Job, Closes
  <2> QED
    BY <1>3, <2>1, <2>2, <2>3, Rows DEF Marks
<1>7. Settles(u, request)'
  BY <1>2 DEF Booked, Settles, IsActive
<1>8. Tallied(u, request)'
  BY <1>1, <1>2 DEF Booked, Tallied, SumBalance
<1> QED
  BY <1>3, <1>4, <1>5, <1>6, <1>7, <1>8 DEF Booked, Shape

-----------------------------------------------------------------------------
(* What a step of one request does to the books                            *)

\* What the requests other than t hold, and what they have read of the books, stays.
OthersStay(t) ==
    \A u \in Tx \ {t} : /\ tally'[u] = tally[u]
                        /\ \A row \in Row : /\ lock'[row] = u <=> lock[row] = u
                                            /\ lock[row] = u => cur'[row] = cur[row]

\* The requests other than t, and the history, are as they were: what is left is t itself.
LEMMA BooksStep ==
  ASSUME IInv, BooksInv, NEW t \in Tx, NEW next \in Job,
         job' = [job EXCEPT ![t] = next], next.opens \in {job[t].opens, NoSession},
         db' = db, UNCHANGED history, MoneyTyped',
         OthersStay(t), Booked(t, next)'
  PROVE  BooksInv'
<1>1. job \in [Tx -> Job] /\ blind' = blind /\ settled' = settled
  BY DEF IInv, RequestsInv, AimedJob, history
<1>2. job'[t] = next /\ \A u \in Tx \ {t} : job'[u] = job[u]
  BY <1>1
<1>3. OwnIds'
  BY <1>2, NoValueAssumption DEF BooksInv, OwnIds
<1>4. Audited'
  BY <1>1 DEF BooksInv, Audited, Gap, SumBalance, InFlight, IsActive
<1>5. ASSUME NEW u \in Tx \ {t} PROVE Booked(u, job[u])'
  <2>1. PICK request \in Job : request = job[u]
    BY <1>1
  <2>2. Booked(u, request)
    BY <2>1 DEF BooksInv
  <2>3. MoneyTyped
    BY DEF BooksInv
  <2>4. Booked(u, request)'
    BY <1>1, <2>2, <2>3, StaysBooked DEF OthersStay
  <2> QED
    BY <1>2, <2>1, <2>4
<1>6. Booked(t, job[t])'
  BY <1>2
<1> QED
  BY <1>3, <1>4, <1>5, <1>6 DEF BooksInv

\* A request that reads: nothing but its own record and its tally may change.
LEMMA BooksRead ==
  ASSUME IInv, BooksInv, NEW t \in Tx, NEW next \in Job,
         job' = [job EXCEPT ![t] = next], next.opens \in {job[t].opens, NoSession},
         UNCHANGED <<storage, history>>,
         tally' \in [Tx -> Tally], \A u \in Tx \ {t} : tally'[u] = tally[u],
         Shape(t, next), Settles(t, next), Tallied(t, next)'
  PROVE  BooksInv'
<1>1. /\ db' = db /\ cur' = cur /\ lock' = lock /\ UNCHANGED history
      /\ blind' = blind /\ settled' = settled
  BY DEF storage, history
<1>2. View(t)' = View(t)
  BY <1>1 DEF View, Read
<1>3. Shape(t, next)'
  BY <1>1 DEF Shape, Holds, Present, Marks
<1>4. Settles(t, next)'
  BY <1>1, <1>2 DEF Settles, Change, Gap, SumBalance, InFlight, IsActive
<1>5. MoneyTyped'
  BY <1>1 DEF BooksInv, MoneyTyped, MoneyIn
<1>6. Booked(t, next)'
  BY <1>3, <1>4 DEF Booked
<1>7. OthersStay(t)
  BY <1>1 DEF OthersStay
<1> QED
  BY <1>1, <1>5, <1>6, <1>7, BooksStep

\* The labels at which assertInvariant has read something.
Tallies == {"readBalances", "readInFlight", "commit"}

LEMMA BooksSelect ==
  ASSUME IInv, BooksInv, NEW t \in Tx, NEW next \in Job, Select(t, next),
         next.opens = job[t].opens, next.pc \notin Tallies,
         Shape(t, next), Settles(t, next)
  PROVE  BooksInv'
<1>1. /\ job' = [job EXCEPT ![t] = next] /\ UNCHANGED <<storage, history>>
      /\ tally' \in [Tx -> Tally] /\ \A u \in Tx \ {t} : tally'[u] = tally[u]
  BY DEF Select, BooksInv, MoneyTyped
<1>2. Tallied(t, next)'
  BY DEF Tallied, Tallies
<1> QED
  BY <1>1, <1>2, BooksRead

\* What a request sees after a write of its own.
LEMMA WriteView ==
  ASSUME IInv, BooksInv, NEW t \in Tx, NEW row \in Row, NEW v, NEW next,
         Update(t, row, v, next), MoneyIn(cur)'
  PROVE  /\ View(t)[row] = cur[row] /\ View(t)'[row] = v
         /\ \A r \in Row \ {row} : View(t)'[r] = View(t)[r]
         /\ MoneyIn(View(t)) /\ MoneyIn(View(t)') /\ MoneyTyped'
         /\ db' = db /\ cur'[row] = v /\ lock'[row] = t /\ lock[row] \in {t, NoTx}
         /\ \A r \in Row \ {row} : cur'[r] = cur[r] /\ lock'[r] = lock[r]
         /\ Change(t) \in Int
         /\ Change(t)' = Change(t) + (Gap(View(t)') - Gap(View(t)))
<1>1. /\ lock \in [Row -> Tx \cup {NoTx}] /\ cur = [r \in Row |-> cur[r]] /\ OneVersion
  BY DEF IInv, StorageInv, StorageTyped
<1>2. /\ lock[row] \in {t, NoTx}
      /\ cur' = [cur EXCEPT ![row] = v] /\ lock' = [lock EXCEPT ![row] = t] /\ db' = db
      /\ tally' = tally /\ blind' = blind /\ settled' = settled
  BY DEF Update, Write, Writable, history
<1>3. /\ cur'[row] = v /\ lock'[row] = t
      /\ \A r \in Row \ {row} : cur'[r] = cur[r] /\ lock'[r] = lock[r]
  BY <1>1, <1>2
<1>4. MoneyTyped /\ MoneyTyped'
  BY <1>2 DEF BooksInv, MoneyTyped, MoneyIn
<1>5. \A r \in Row : /\ View(t)[r] = IF lock[r] = t THEN cur[r] ELSE db[r]
                     /\ View(t)'[r] = IF lock'[r] = t THEN cur'[r] ELSE db[r]
  BY <1>2 DEF View, Read
<1>6. /\ View(t)[row] = cur[row] /\ View(t)'[row] = v
      /\ \A r \in Row \ {row} : View(t)'[r] = View(t)[r]
  BY <1>1, <1>2, <1>3, <1>5 DEF OneVersion
<1>7. MoneyIn(View(t)) /\ MoneyIn(db) /\ Change(t) \in Int
  BY <1>4, Views
<1>8. PICK after : after = View(t)'
  OBVIOUS
<1>9. MoneyIn(after)
  BY <1>4, <1>5, <1>2, <1>8, Rows DEF MoneyTyped, MoneyIn
<1>10. Change(t)' = Gap(after) - Gap(db)
  BY <1>2, <1>8 DEF Change, Gap, SumBalance, InFlight, IsActive
<1>11. Gap(after) \in Int /\ Gap(db) \in Int /\ Gap(View(t)) \in Int
  BY <1>7, <1>9, GapTyped
<1>12. Change(t)' = Change(t) + (Gap(after) - Gap(View(t)))
  <2>1. PICK a \in Int : a = Gap(after)
    BY <1>11
  <2>2. PICK b \in Int : b = Gap(db)
    BY <1>11
  <2>3. PICK c \in Int : c = Gap(View(t))
    BY <1>11
  <2>4. Change(t) = c - b /\ Change(t)' = a - b
    BY <1>10, <2>1, <2>2, <2>3 DEF Change
  <2> QED
    BY <2>1, <2>3, <2>4
<1>13. MoneyIn(View(t)') /\ Gap(View(t)') = Gap(after)
  BY <1>8, <1>9
<1> QED
  BY <1>2, <1>3, <1>4, <1>6, <1>7, <1>12, <1>13

LEMMA BooksWrite ==
  ASSUME IInv, BooksInv, NEW t \in Tx, NEW row \in Row, NEW v, NEW next \in Job,
         Update(t, row, v, next), MoneyIn(cur)',
         next.opens = job[t].opens, next.pc \notin Tallies,
         Shape(t, next)', Settles(t, next)'
  PROVE  BooksInv'
<1>1. /\ job' = [job EXCEPT ![t] = next] /\ UNCHANGED history /\ tally' = tally
  BY DEF Update
<1>2. Tallied(t, next)'
  BY DEF Tallied, Tallies
<1>3. Booked(t, next)'
  BY <1>2 DEF Booked
<1>4. /\ MoneyTyped' /\ db' = db /\ lock'[row] = t /\ lock[row] \in {t, NoTx}
      /\ \A r \in Row \ {row} : cur'[r] = cur[r] /\ lock'[r] = lock[r]
  BY WriteView
<1>5. OthersStay(t)
  BY <1>1, <1>4, NoValueAssumption DEF OthersStay
<1> QED
  BY <1>1, <1>3, <1>4, <1>5, BooksStep

\* A request that is forgotten with all it has written.
LEMMA IdleBooked ==
  ASSUME IInv, MoneyTyped, NEW t \in Tx, \A row \in Row : lock[row] # t
  PROVE  Booked(t, Idle)
<1>1. /\ Kinds(Idle)
      /\ ~Debits(Idle) /\ ~Opens(Idle) /\ ~Submits(Idle) /\ ~Signs(Idle) /\ ~Issues(Idle) /\ ~Closes(Idle)
      /\ Idle.opens = NoSession /\ Idle.sess = NoSession /\ Idle.todo = {} /\ Idle.did = {}
      /\ Idle.pc = "idle"
  BY DEF Idle, Kinds, Debits, Opens, Submits, Signs, Issues, Closes, Asserting
<1>2. Holds(t, Idle)
  BY <1>1, Rows DEF Holds
<1>3. Present(Idle) /\ Marks(Idle)
  BY <1>1, NoValueAssumption DEF Present, Marks
<1>4. Change(t) = 0 /\ Due(Idle) = 0 /\ Touched(Idle) = {}
  BY <1>1, NothingChanged DEF Due, Touched
<1>5. Settles(t, Idle)
  BY <1>4 DEF Settles
<1>6. Tallied(t, Idle)
  BY <1>1 DEF Tallied
<1> QED
  BY <1>1, <1>2, <1>3, <1>5, <1>6 DEF Booked, Shape

\* The same after the step that forgets it.
LEMMA IdleBookedNext ==
  ASSUME db' = [r \in Row |-> db'[r]], MoneyIn(db)', NEW t \in Tx, \A row \in Row : lock'[row] # t
  PROVE  Booked(t, Idle)' /\ Change(t)' = 0 /\ \A row \in Row : View(t)'[row] = db'[row]
<1>1. /\ Kinds(Idle)
      /\ ~Debits(Idle) /\ ~Opens(Idle) /\ ~Submits(Idle) /\ ~Signs(Idle) /\ ~Issues(Idle) /\ ~Closes(Idle)
      /\ Idle.opens = NoSession /\ Idle.sess = NoSession /\ Idle.todo = {} /\ Idle.did = {}
      /\ Idle.pc = "idle"
  BY DEF Idle, Kinds, Debits, Opens, Submits, Signs, Issues, Closes, Asserting
<1>2. Holds(t, Idle)'
  BY <1>1, Rows DEF Holds
<1>3. Present(Idle)' /\ Marks(Idle)'
  BY <1>1, NoValueAssumption DEF Present, Marks
<1>4. View(t)' = db'
  BY DEF View, Read
<1>5. PICK after : after = db'
  OBVIOUS
<1>6. MoneyIn(after)
  BY <1>5 DEF MoneyIn
<1>7. Gap(after) \in Int
  BY <1>6, GapTyped
<1>8. Change(t)' = Gap(after) - Gap(after)
  BY <1>4, <1>5 DEF Change, Gap, SumBalance, InFlight, IsActive
<1>9. Change(t)' = 0
  BY <1>7, <1>8
<1>10. Due(Idle) = 0 /\ Touched(Idle) = {}
  BY <1>1 DEF Due, Touched
<1>11. Settles(t, Idle)'
  BY <1>9, <1>10 DEF Settles
<1>12. Tallied(t, Idle)'
  BY <1>1 DEF Tallied
<1> QED
  BY <1>1, <1>2, <1>3, <1>4, <1>9, <1>11, <1>12 DEF Booked, Shape

\* ROLLBACK.
LEMMA BooksThrow ==
  ASSUME IInv, BooksInv, NEW t \in Tx, Throw(t)
  PROVE  BooksInv'
<1>1. /\ job' = [job EXCEPT ![t] = Idle] /\ db' = db /\ UNCHANGED history
      /\ tally' = [tally EXCEPT ![t] = NoTally]
      /\ blind' = blind /\ settled' = settled
      /\ \A r \in Row : cur'[r] = IF lock[r] = t THEN db[r] ELSE cur[r]
      /\ \A r \in Row : lock'[r] = IF lock[r] = t THEN NoTx ELSE lock[r]
      /\ db = [r \in Row |-> db[r]]
  BY DEF Throw, Rollback, Release, history, IInv, StorageInv, StorageTyped
<1>2. NoTally \in Tally /\ Idle \in Job /\ Idle.opens = NoSession
  BY IdleAims DEF NoTally, Tally, NoBooks, ReserveValue, AimedJob, Idle
<1>3. /\ tally' \in [Tx -> Tally] /\ \A u \in Tx \ {t} : tally'[u] = tally[u]
  BY <1>1, <1>2 DEF BooksInv, MoneyTyped
<1>4. MoneyTyped'
  BY <1>1, <1>3, Rows DEF BooksInv, MoneyTyped, MoneyIn
<1>5. \A row \in Row : lock'[row] # t
  BY <1>1, NoValueAssumption
<1>6. MoneyIn(db)'
  BY <1>4 DEF MoneyTyped
<1>7. db' = [r \in Row |-> db'[r]]
  BY <1>1
<1>8. Booked(t, Idle)'
  BY <1>5, <1>6, <1>7, IdleBookedNext
<1>9. OthersStay(t)
  BY <1>1, <1>3, NoValueAssumption DEF OthersStay
<1> QED
  BY <1>1, <1>2, <1>4, <1>8, <1>9, BooksStep

-----------------------------------------------------------------------------
(* The statements that only read                                           *)

\* What the statements of a request start from.
LEMMA BookedRequest ==
  ASSUME IInv, BooksInv, NEW t \in Tx
  PROVE  /\ job \in [Tx -> Job] /\ job[t] \in Job
         /\ Shape(t, job[t]) /\ Settles(t, job[t]) /\ Tallied(t, job[t])
         /\ Kinds(job[t]) /\ Holds(t, job[t]) /\ Present(job[t]) /\ Marks(job[t])
         /\ MoneyTyped
  BY DEF IInv, RequestsInv, AimedJob, BooksInv, Booked, Shape

\* A request that has written nothing turns to its next statement.
LEMMA TurnsBooked ==
  ASSUME IInv, BooksInv, NEW t \in Tx, job[t].pc \in Unwritten, NEW next \in Job,
         next.pc \in Unwritten \cup {"readReserve"}, Select(t, next),
         /\ next.op = job[t].op /\ next.opens = job[t].opens /\ next.sess = job[t].sess
         /\ next.todo = {} /\ next.close = "none" /\ next.did = {},
         next.then = (IF next.pc = "readReserve" THEN "select" ELSE "idle"),
         next.pc \in {"lazy", "balance", "debit", "readReserve"} => next.op = "init",
         next.pc = "mark" => next.op = "submit" /\ next.j \in Index,
         next.pc = "sign" => next.op = "reveal"
  PROVE  BooksInv'
<1>1. /\ job[t] \in Job /\ Shape(t, job[t]) /\ Kinds(job[t]) /\ Present(job[t]) /\ MoneyTyped
  BY BookedRequest
<1>2. \A row \in Row : lock[row] # t
  BY <1>1, ShapeHoldsNothing
<1>3. /\ ~Debits(next) /\ ~Opens(next) /\ ~Submits(next) /\ ~Signs(next)
      /\ ~Issues(next) /\ ~Closes(next)
  BY DEF Unwritten, Asserting, Debits, Opens, Submits, Signs, Issues, Closes
<1>4. job[t].op # "none"
  BY <1>1 DEF Kinds, Unwritten
<1>5. Kinds(next)
  BY <1>1, <1>3, <1>4 DEF Kinds, Unwritten, Asserting
<1>6. Holds(t, next)
  BY <1>2, <1>3, Rows DEF Holds
<1>7. Present(next) /\ Marks(next)
  BY <1>1, <1>3 DEF Present, Marks
<1>8. Change(t) = 0 /\ Due(next) = 0 /\ Touched(next) = {}
  BY <1>1, <1>2, <1>3, NothingChanged DEF Due, Touched, Unwritten
<1>9. Settles(t, next)
  BY <1>8 DEF Settles
<1>10. Shape(t, next) /\ next.pc \notin Tallies
  BY <1>5, <1>6, <1>7 DEF Shape, Unwritten, Tallies
<1> QED
  BY <1>9, <1>10, BooksSelect

\* A request that has written nothing turns to refunding sessions that are there.
LEMMA RefundsBooked ==
  ASSUME IInv, BooksInv, NEW t \in Tx, job[t].pc \in {"lazy", "select"}, NEW next \in Job,
         NEW s \in Session, NEW rest \in SUBSET (Session \ {s}), Select(t, next),
         /\ next.op = job[t].op /\ next.opens = job[t].opens
         /\ next.pc = "refund" /\ next.sess = s /\ next.todo = rest /\ next.did = {}
         /\ next.close \in Closed,
         next.then = (IF job[t].op = "init" THEN "select" ELSE "idle"),
         job[t].op \in {"init", "sweep"} => next.close = "expired",
         job[t].op \notin {"init", "sweep"} => rest = {} /\ s = job[t].sess,
         \A r \in {s} \cup rest : db[SessionRow(r)].status # "none"
  PROVE  BooksInv'
<1>1. /\ job[t] \in Job /\ Shape(t, job[t]) /\ Kinds(job[t]) /\ Present(job[t]) /\ MoneyTyped
      /\ job[t].pc \in Unwritten
  BY BookedRequest DEF Unwritten
<1>2. \A row \in Row : lock[row] # t
  BY <1>1, ShapeHoldsNothing
<1>3. /\ ~Debits(next) /\ ~Opens(next) /\ ~Submits(next) /\ ~Signs(next)
      /\ ~Issues(next) /\ Closes(next)
  BY DEF Asserting, Debits, Opens, Submits, Signs, Issues, Closes, Closed
<1>4. job[t].op # "none" /\ Paid(next) = {} /\ Unpaid(next) = {s} \cup rest
  BY <1>1 DEF Kinds, Paid, Unpaid
<1>5. Kinds(next)
  BY <1>1, <1>3, <1>4 DEF Kinds, Asserting
<1>6. Holds(t, next)
  BY <1>2, <1>3, <1>4, Rows DEF Holds
<1>7. Present(next) /\ Marks(next)
  BY <1>1, <1>3 DEF Present, Marks
<1>8. Change(t) = 0 /\ Due(next) = 0 /\ Touched(next) = {}
  BY <1>1, <1>2, <1>3, NothingChanged DEF Due, Touched
<1>9. Settles(t, next)
  BY <1>8 DEF Settles
<1>10. Shape(t, next) /\ next.pc \notin Tallies
  BY <1>5, <1>6, <1>7 DEF Shape, Tallies
<1> QED
  BY <1>9, <1>10, BooksSelect

\* Sessions a request that has written nothing finds expired are there.
LEMMA ExpiredThere ==
  ASSUME IInv, BooksInv, NEW t \in Tx, job[t].pc \in {"lazy", "select"}
  PROVE  /\ \A row \in Row : lock[row] # t
         /\ \A row \in Row : Read(t, row) = db[row] /\ View(t)[row] = db[row]
         /\ \A s \in Expired(t) : s \in Session /\ IsActive(db, s) /\ db[SessionRow(s)].status # "none"
<1>1. \A row \in Row : lock[row] # t
  BY BookedRequest, ShapeHoldsNothing DEF Unwritten
<1>2. \A row \in Row : Read(t, row) = db[row] /\ View(t)[row] = db[row]
  BY <1>1 DEF Read, View
<1>3. \A s \in Expired(t) : s \in Session /\ IsActive(db, s)
  BY <1>2, Rows DEF Expired, IsActive
<1> QED
  BY <1>1, <1>2, <1>3 DEF IsActive, Active

\* The SELECT of the lazy cleanup.
LEMMA LazyBooks ==
  ASSUME IInv, BooksInv, NEW t \in Tx, LazyCleanup(t)
  PROVE  BooksInv'
<1> DEFINE mine == {s \in Session : Owner[s] = Owner[job[t].opens]}
           request == [job[t] EXCEPT !.then = "select"]
<1>1. /\ job[t] \in Job /\ Shape(t, job[t]) /\ job[t].pc = "lazy" /\ job[t].op = "init"
  BY BookedRequest DEF LazyCleanup, At, Kinds
<1>2. job[t].did = {} /\ job[t].todo = {} /\ job[t].close = "none"
  BY <1>1, ShapeHoldsNothing DEF Unwritten
<1>3. CASE Select(t, [request EXCEPT !.pc = "readReserve"])
  <2>1. PICK next : next = [request EXCEPT !.pc = "readReserve"]
    OBVIOUS
  <2>2. /\ next \in Job
        /\ next.op = "init" /\ next.pc = "readReserve" /\ next.then = "select"
        /\ next.opens = job[t].opens /\ next.sess = job[t].sess
        /\ next.did = {} /\ next.todo = {} /\ next.close = "none"
    BY <1>1, <1>2, <2>1 DEF Job, Label
  <2> QED
    BY <1>1, <1>3, <2>1, <2>2, TurnsBooked DEF Unwritten
<1>4. ASSUME NEW s \in Expired(t) \cap mine,
             Select(t, Refunding(request, s, (Expired(t) \cap mine) \ {s}, "expired"))
      PROVE  BooksInv'
  <2>1. PICK rest : rest = (Expired(t) \cap mine) \ {s}
    OBVIOUS
  <2>2. PICK next : next = Refunding(request, s, rest, "expired")
    OBVIOUS
  <2>3. \A r \in {s} \cup rest : r \in Session /\ db[SessionRow(r)].status # "none"
    BY <1>1, <2>1, ExpiredThere
  <2>4. /\ next \in Job
        /\ next.op = job[t].op /\ next.opens = job[t].opens
        /\ next.pc = "refund" /\ next.sess = s /\ next.todo = rest /\ next.did = {}
        /\ next.close = "expired" /\ next.then = "select"
    BY <1>1, <1>2, <2>2, <2>3 DEF Refunding, Job, Label, Closed
  <2>5. rest \in SUBSET (Session \ {s}) /\ s \in Session /\ Select(t, next)
    BY <1>4, <2>1, <2>2, <2>3
  <2> QED
    BY <1>1, <2>3, <2>4, <2>5, RefundsBooked DEF Closed
<1> QED
  BY <1>3, <1>4 DEF LazyCleanup

\* The SELECTs of init.
LEMMA InitReadsBooks ==
  ASSUME IInv, BooksInv, NEW t \in Tx, InitSelect(t) \/ InitBalance(t)
  PROVE  BooksInv'
<1>1. /\ job[t] \in Job /\ Shape(t, job[t]) /\ job[t].pc \in Unwritten /\ job[t].op = "init"
  BY BookedRequest DEF InitSelect, InitBalance, At, Kinds, Unwritten
<1>2. job[t].did = {} /\ job[t].todo = {} /\ job[t].close = "none" /\ job[t].then = "idle"
  BY <1>1, ShapeHoldsNothing
<1>3. ASSUME NEW label \in {"balance", "debit"}, Select(t, [job[t] EXCEPT !.pc = label])
      PROVE  BooksInv'
  <2>1. PICK next : next = [job[t] EXCEPT !.pc = label]
    OBVIOUS
  <2>2. /\ next \in Job /\ next.pc = label
        /\ next.op = job[t].op /\ next.opens = job[t].opens /\ next.sess = job[t].sess
        /\ next.todo = {} /\ next.close = "none" /\ next.then = "idle" /\ next.did = {}
    BY <1>1, <1>2, <2>1 DEF Job, Label
  <2>3. Select(t, next)
    BY <1>3, <2>1
  <2> QED
    BY <1>1, <2>2, <2>3, TurnsBooked DEF Unwritten
<1> QED
  BY <1>3, BooksThrow DEF InitSelect, InitBalance

\* The SELECTs of submit, reveal, cancel and the sweep.
LEMMA SelectsBooks ==
  ASSUME IInv, BooksInv, NEW t \in Tx,
         SubmitSelect(t) \/ RevealSelect(t) \/ CancelSelect(t) \/ SweepSelect(t)
  PROVE  BooksInv'
<1> DEFINE s == job[t].sess
<1>1. /\ job[t] \in Job /\ Shape(t, job[t]) /\ job[t].pc = "select"
      /\ job[t].op \in {"submit", "reveal", "cancel", "sweep"}
      /\ job[t].op # "sweep" => s \in Session /\ db[SessionRow(s)].status # "none"
  BY BookedRequest DEF SubmitSelect, RevealSelect, CancelSelect, SweepSelect, At, Kinds, Present
<1>2. job[t].did = {} /\ job[t].todo = {} /\ job[t].close = "none" /\ job[t].then = "idle"
  BY <1>1, ShapeHoldsNothing DEF Unwritten
<1>3. CASE Throw(t)
  BY <1>3, BooksThrow
<1>4. ASSUME NEW how \in Closed, Select(t, Refunding(job[t], s, {}, how)), job[t].op # "sweep"
      PROVE  BooksInv'
  <2>1. PICK next : next = Refunding(job[t], s, {}, how)
    OBVIOUS
  <2>2. /\ next \in Job
        /\ next.op = job[t].op /\ next.opens = job[t].opens
        /\ next.pc = "refund" /\ next.sess = s /\ next.todo = {} /\ next.did = {}
        /\ next.close = how /\ next.then = "idle"
    BY <1>1, <1>2, <1>4, <2>1 DEF Refunding, Job, Label
  <2>3. Select(t, next) /\ s \in Session /\ {} \in SUBSET (Session \ {s})
        /\ \A r \in {s} \cup {} : db[SessionRow(r)].status # "none"
    BY <1>1, <1>4, <2>1
  <2> QED
    BY <1>1, <1>4, <2>2, <2>3, RefundsBooked
<1>5. ASSUME NEW label \in {"mark", "sign"}, NEW next, Select(t, next),
             \/ label = "mark" /\ job[t].op = "submit"
                               /\ \E j \in Index : next = [job[t] EXCEPT !.pc = "mark", !.j = j]
             \/ label = "sign" /\ job[t].op = "reveal" /\ next = [job[t] EXCEPT !.pc = "sign"]
      PROVE  BooksInv'
  <2>1. /\ next \in Job /\ next.pc = label
        /\ next.op = job[t].op /\ next.opens = job[t].opens /\ next.sess = s
        /\ next.todo = {} /\ next.close = "none" /\ next.then = "idle" /\ next.did = {}
        /\ label = "mark" => next.j \in Index
    BY <1>1, <1>2, <1>5 DEF Job, Label
  <2> QED
    BY <1>1, <1>5, <2>1, TurnsBooked DEF Unwritten
<1>6. CASE SubmitSelect(t)
  BY <1>3, <1>4, <1>5, <1>6 DEF SubmitSelect, ExpireOnUse, Closed
<1>7. CASE RevealSelect(t)
  BY <1>3, <1>4, <1>5, <1>7 DEF RevealSelect, ExpireOnUse, Closed
<1>8. CASE CancelSelect(t)
  BY <1>3, <1>4, <1>8 DEF CancelSelect, Closed
<1>9. CASE SweepSelect(t)
  <2>1. ASSUME NEW r \in Expired(t), Select(t, Refunding(job[t], r, Expired(t) \ {r}, "expired"))
        PROVE  BooksInv'
    <3>1. PICK rest : rest = Expired(t) \ {r}
      OBVIOUS
    <3>2. PICK next : next = Refunding(job[t], r, rest, "expired")
      OBVIOUS
    <3>3. \A q \in {r} \cup rest : q \in Session /\ db[SessionRow(q)].status # "none"
      BY <1>1, <3>1, ExpiredThere
    <3>4. /\ next \in Job
          /\ next.op = job[t].op /\ next.opens = job[t].opens
          /\ next.pc = "refund" /\ next.sess = r /\ next.todo = rest /\ next.did = {}
          /\ next.close = "expired" /\ next.then = "idle"
      BY <1>1, <1>2, <3>2, <3>3 DEF Refunding, Job, Label, Closed
    <3>5. rest \in SUBSET (Session \ {r}) /\ r \in Session /\ Select(t, next) /\ job[t].op = "sweep"
      BY <1>9, <2>1, <3>1, <3>2, <3>3 DEF SweepSelect
    <3> QED
      BY <1>1, <3>3, <3>4, <3>5, RefundsBooked DEF Closed
  <2> QED
    BY <1>3, <1>9, <2>1 DEF SweepSelect
<1> QED
  BY <1>6, <1>7, <1>8, <1>9

-----------------------------------------------------------------------------
(* assertInvariant                                                         *)

\* A request at one of the reads of assertInvariant goes on to the next.
LEMMA NextRead ==
  ASSUME NEW t \in Tx, NEW request \in Job, Shape(t, request), Settles(t, request),
         request.pc \in {"readReserve", "readBalances", "readInFlight"},
         NEW label \in Asserting
  PROVE  LET next == [request EXCEPT !.pc = label]
         IN  next \in Job /\ Shape(t, next) /\ Settles(t, next)
<1>1. PICK next : next = [request EXCEPT !.pc = label]
  OBVIOUS
<1>2. /\ next \in Job /\ next.pc = label
      /\ next.op = request.op /\ next.opens = request.opens /\ next.sess = request.sess
      /\ next.todo = request.todo /\ next.close = request.close /\ next.then = request.then
      /\ next.did = request.did /\ next.j = request.j
  BY <1>1 DEF Job, Label, Asserting
<1>3. /\ Debits(next) <=> Debits(request)
      /\ Opens(next) <=> Opens(request)
      /\ Submits(next) <=> Submits(request)
      /\ Signs(next) <=> Signs(request)
      /\ Issues(next) <=> Issues(request)
      /\ Closes(next) <=> Closes(request)
      /\ Paid(next) = Paid(request) /\ Unpaid(next) = Unpaid(request)
  BY <1>2 DEF Asserting, Debits, Opens, Submits, Signs, Issues, Closes, Paid, Unpaid
<1>4. Kinds(next)
  BY <1>2, <1>3 DEF Shape, Kinds, Asserting
<1>5. Holds(t, next) /\ Present(next) /\ Marks(next)
  BY <1>2, <1>3 DEF Shape, Holds, Present, Marks
<1>6. Due(next) = 0 /\ Due(request) = 0 /\ Touched(next) = Touched(request)
  BY <1>2, <1>3 DEF Due, Touched, Asserting
<1>7. Settles(t, next)
  BY <1>6 DEF Settles
<1> QED
  BY <1>1, <1>2, <1>4, <1>5, <1>7 DEF Shape

\* assertInvariant's comparison says whether the books the request sees balance, unless a
\* commit fell between its reads.
LEMMA ComparesWhole ==
  ASSUME IInv, BooksInv, NEW t \in Tx, At(t, "readInFlight"), ~tally[t].torn
  PROVE  BooksBalance(t) <=> Gap(View(t)) = 0
<1>1. tally[t].books = View(t)[ReserveRow] /\ tally[t].sum = SumBalance(View(t))
  BY BookedRequest DEF At, Tallied
<1>2. MoneyIn(View(t))
  BY BookedRequest, Views
<1>3. BooksBalance(t) <=> Balanced(View(t))
  BY <1>1 DEF BooksBalance, Balanced
<1> QED
  BY <1>2, <1>3, GapTyped

\* The reads of assertInvariant; a cleanup turns to its next session.
LEMMA AssertBooks ==
  ASSUME IInv, BooksInv, NEW t \in Tx, ReadReserve(t) \/ ReadBalances(t) \/ ReadInFlight(t)
  PROVE  BooksInv'
<1>1. /\ job[t] \in Job /\ job \in [Tx -> Job] /\ MoneyTyped /\ tally \in [Tx -> Tally]
      /\ Shape(t, job[t]) /\ Settles(t, job[t]) /\ Tallied(t, job[t])
      /\ Kinds(job[t]) /\ Holds(t, job[t]) /\ Present(job[t]) /\ Marks(job[t])
      /\ job[t].pc \in {"readReserve", "readBalances", "readInFlight"}
  BY BookedRequest DEF ReadReserve, ReadBalances, ReadInFlight, At, MoneyTyped
<1>2. /\ MoneyIn(View(t)) /\ Change(t) \in Int /\ View(t)[ReserveRow] = Read(t, ReserveRow)
      /\ Gap(View(t)) \in Int /\ SumBalance(View(t)) \in Int
  BY <1>1, Views, GapTyped, Rows DEF View
<1>3. ASSUME NEW label \in Asserting, NEW mine \in Tally, NEW next,
             next = [job[t] EXCEPT !.pc = label], job' = [job EXCEPT ![t] = next],
             tally' = [tally EXCEPT ![t] = mine], UNCHANGED <<storage, history>>,
             Tallied(t, next)'
      PROVE  BooksInv'
  <2>1. next \in Job /\ Shape(t, next) /\ Settles(t, next) /\ next.opens = job[t].opens
    <3>1. LET after == [job[t] EXCEPT !.pc = label]
          IN  after \in Job /\ Shape(t, after) /\ Settles(t, after)
      BY <1>1, NextRead
    <3> QED
      BY <1>1, <1>3, <3>1 DEF Job
  <2>2. tally' \in [Tx -> Tally] /\ \A u \in Tx \ {t} : tally'[u] = tally[u]
    BY <1>1, <1>3
  <2> QED
    BY <1>3, <2>1, <2>2, BooksRead
<1>4. CASE ReadReserve(t)
  <2>1. PICK next : next = [job[t] EXCEPT !.pc = "readBalances"]
    OBVIOUS
  <2>2. PICK mine : mine = [NoTally EXCEPT !.books = Read(t, ReserveRow)]
    OBVIOUS
  <2>3. mine \in Tally /\ mine.books = View(t)[ReserveRow] /\ next.pc = "readBalances"
    <3>1. PICK bank \in ReserveValue : bank = Read(t, ReserveRow) /\ bank = View(t)[ReserveRow]
      BY <1>2 DEF MoneyIn
    <3>2. mine = [books |-> bank, sum |-> 0, torn |-> FALSE]
      BY <2>2, <3>1 DEF NoTally
    <3>3. mine \in Tally /\ mine.books = bank
      BY <3>2 DEF Tally
    <3> QED
      BY <1>1, <2>1, <3>1, <3>3 DEF Job
  <2>4. /\ tally' = [tally EXCEPT ![t] = mine] /\ job' = [job EXCEPT ![t] = next]
        /\ UNCHANGED <<storage, history>>
    BY <1>1, <1>4, <2>1, <2>2 DEF ReadReserve, Goto
  <2>5. View(t)' = View(t) /\ tally'[t] = mine
    BY <1>1, <2>4 DEF View, Read, storage
  <2>6. Tallied(t, next)'
    BY <2>3, <2>5 DEF Tallied
  <2> QED
    BY <1>3, <2>1, <2>3, <2>4, <2>6 DEF Asserting
<1>5. CASE ReadBalances(t)
  <2>1. PICK next : next = [job[t] EXCEPT !.pc = "readInFlight"]
    OBVIOUS
  <2>2. PICK mine : mine = [tally[t] EXCEPT !.sum = SumBalance(View(t))]
    OBVIOUS
  <2>3. /\ mine \in Tally /\ mine.sum = SumBalance(View(t)) /\ next.pc = "readInFlight"
        /\ mine.torn = tally[t].torn /\ mine.books = tally[t].books
    BY <1>1, <1>2, <2>1, <2>2 DEF Tally, Job
  <2>4. /\ tally' = [tally EXCEPT ![t] = mine] /\ job' = [job EXCEPT ![t] = next]
        /\ UNCHANGED <<storage, history>>
    BY <1>1, <1>5, <2>1, <2>2 DEF ReadBalances, Goto
  <2>5. View(t)' = View(t) /\ tally'[t] = mine
    BY <1>1, <2>4 DEF View, Read, storage
  <2>6. ~tally[t].torn => tally[t].books = View(t)[ReserveRow]
    BY <1>1, <1>5 DEF Tallied, ReadBalances, At
  <2>7. Tallied(t, next)'
    BY <2>3, <2>5, <2>6 DEF Tallied, SumBalance
  <2> QED
    BY <1>3, <2>1, <2>3, <2>4, <2>7 DEF Asserting
<1>6. CASE ReadInFlight(t)
  <2>1. CASE Throw(t)
    BY <2>1, BooksThrow
  <2> DEFINE s0 == [NoTally EXCEPT !.torn = tally[t].torn]
  <2>2. PICK mine : mine = s0
    OBVIOUS
  <2>3. mine \in Tally /\ mine.torn = tally[t].torn
    BY <1>1, <2>2 DEF Tally, NoTally, NoBooks, ReserveValue
  <2>4. CASE BooksBalance(t) /\ job[t].todo = {} /\ Goto(t, "commit") /\ tally' = [tally EXCEPT ![t] = mine]
             /\ UNCHANGED <<storage, history>>
    <3>1. PICK next : next = [job[t] EXCEPT !.pc = "commit"]
      OBVIOUS
    <3>2. next.pc = "commit" /\ job' = [job EXCEPT ![t] = next]
      BY <1>1, <2>4, <3>1 DEF Goto, Job
    <3>3. tally'[t] = mine /\ View(t)' = View(t) /\ db' = db /\ blind' = blind
      BY <1>1, <2>4 DEF View, Read, storage, history
    <3>4. Change(t)' = Change(t)
      BY <3>3 DEF Change, Gap, SumBalance, InFlight, IsActive
    <3>5. ~tally[t].torn /\ ~blind => Change(t) = 0
      BY <1>6, <2>4, ComparesWhole DEF ReadInFlight, BooksInv, Audited, Change
    <3>6. Tallied(t, next)'
      BY <2>3, <3>2, <3>3, <3>4, <3>5 DEF Tallied
    <3> QED
      BY <1>3, <2>3, <2>4, <3>1, <3>2, <3>6 DEF Asserting
  <2>5. ASSUME NEW s \in job[t].todo, tally' = [tally EXCEPT ![t] = mine], UNCHANGED <<storage, history>>,
               job' = [job EXCEPT ![t] = [job[t] EXCEPT !.pc = "refund", !.sess = s, !.todo = @ \ {s}]]
        PROVE  BooksInv'
    <3>1. PICK next : next = [job[t] EXCEPT !.pc = "refund", !.sess = s, !.todo = @ \ {s}]
      OBVIOUS
    <3>2. /\ next \in Job /\ next.pc = "refund" /\ next.sess = s /\ s \in Session
          /\ next.op = job[t].op /\ next.opens = job[t].opens
          /\ next.todo = job[t].todo \ {s} /\ next.close = job[t].close /\ next.then = job[t].then
          /\ next.did = job[t].did
      BY <1>1, <2>5, <3>1 DEF Job, Label
    <3>3. Closes(job[t]) /\ Closes(next) /\ job[t].op \in {"init", "sweep"} /\ job[t].close = "expired"
      BY <1>1, <2>5, <3>2 DEF Kinds, Closes, Op, Job
    <3>4. /\ ~Debits(next) /\ ~Opens(next) /\ ~Submits(next) /\ ~Signs(next) /\ ~Issues(next)
          /\ ~Debits(job[t]) /\ ~Opens(job[t]) /\ ~Submits(job[t]) /\ ~Signs(job[t]) /\ ~Issues(job[t])
      BY <3>3 DEF Closes, Debits, Opens, Submits, Signs, Issues
    <3>5. /\ Paid(job[t]) = job[t].did /\ Unpaid(job[t]) = job[t].todo
          /\ Paid(next) = job[t].did /\ Unpaid(next) = job[t].todo
      BY <1>1, <2>5, <3>2 DEF Paid, Unpaid
    <3>6. Kinds(next)
      BY <1>1, <2>5, <3>2, <3>3, <3>4, <3>5 DEF Kinds, Asserting
    <3>7. Holds(t, next)
      BY <1>1, <3>2, <3>3, <3>4, <3>5 DEF Holds
    <3>8. Present(next) /\ Marks(next)
      BY <1>1, <2>5, <3>2, <3>4 DEF Present, Marks
    <3>9. Due(next) = 0 /\ Due(job[t]) = 0 /\ Touched(next) = Touched(job[t])
      BY <1>1, <3>2, <3>4 DEF Due, Touched
    <3>10. Settles(t, next)
      BY <1>1, <3>9 DEF Settles
    <3>11. tally' \in [Tx -> Tally] /\ \A u \in Tx \ {t} : tally'[u] = tally[u]
      BY <1>1, <2>3, <2>5
    <3>12. Tallied(t, next)'
      BY <3>2 DEF Tallied
    <3> QED
      BY <2>5, <3>1, <3>2, <3>6, <3>7, <3>8, <3>10, <3>11, <3>12, BooksRead DEF Shape
  <2> QED
    BY <1>6, <2>1, <2>2, <2>4, <2>5 DEF ReadInFlight
<1> QED
  BY <1>4, <1>5, <1>6

-----------------------------------------------------------------------------
(* The statements that write: what each changes of the books               *)

LEMMA MoneyWritten ==
  ASSUME IInv, BooksInv, NEW t \in Tx, NEW row \in Row, NEW v, NEW next, Update(t, row, v, next),
         \A u \in User : row = UserRow(u) => v \in Int,
         row = ReserveRow => v \in ReserveValue
  PROVE  MoneyIn(cur)'
<1>1. cur' = [cur EXCEPT ![row] = v] /\ cur = [r \in Row |-> cur[r]] /\ MoneyIn(cur)
  BY DEF Update, Write, IInv, StorageInv, StorageTyped, BooksInv, MoneyTyped
<1>2. \A r \in Row : cur'[r] = IF r = row THEN v ELSE cur[r]
  BY <1>1
<1> QED
  BY <1>1, <1>2, Rows DEF MoneyIn

\* An UPDATE of users.
LEMMA UserChange ==
  ASSUME IInv, BooksInv, NEW t \in Tx, NEW u \in User, NEW x \in Int, NEW next,
         Update(t, UserRow(u), x, next)
  PROVE  /\ MoneyIn(cur)' /\ cur[UserRow(u)] \in Int /\ Change(t) \in Int
         /\ Change(t)' = Change(t) + (cur[UserRow(u)] - x)
<1>1. UserRow(u) \in Row /\ MoneyIn(cur)'
  BY MoneyWritten, Rows, RowsDiffer
<1>2. PICK before : before = View(t)
  OBVIOUS
<1>3. PICK after : after = View(t)'
  OBVIOUS
<1>4. /\ before[UserRow(u)] = cur[UserRow(u)] /\ after[UserRow(u)] = x
      /\ \A r \in Row \ {UserRow(u)} : after[r] = before[r]
      /\ MoneyIn(before) /\ MoneyIn(after) /\ Change(t) \in Int
      /\ Change(t)' = Change(t) + (Gap(after) - Gap(before))
  BY <1>1, <1>2, <1>3, WriteView
<1>5. Gap(after) = Gap(before) + before[UserRow(u)] - after[UserRow(u)]
  BY <1>4, GapOfUser
<1>6. PICK g \in Int : g = Gap(before)
  BY <1>4, GapTyped
<1>7. PICK b \in Int : b = cur[UserRow(u)]
  BY DEF BooksInv, MoneyTyped, MoneyIn
<1>8. Gap(after) - Gap(before) = b - x
  BY <1>4, <1>5, <1>6, <1>7
<1> QED
  BY <1>1, <1>4, <1>7, <1>8

\* An UPDATE or INSERT of withdrawal_sessions.
LEMMA SessionChange ==
  ASSUME IInv, BooksInv, NEW t \in Tx, NEW s \in Session, NEW x, NEW next,
         Update(t, SessionRow(s), x, next)
  PROVE  /\ MoneyIn(cur)' /\ Change(t) \in Int
         /\ cur[SessionRow(s)] = View(t)[SessionRow(s)]
         /\ Change(t)' = Change(t) + (Owed(cur, s) - IF x.status \in Active THEN Amount[s] ELSE 0)
<1>1. SessionRow(s) \in Row /\ MoneyIn(cur)'
  BY MoneyWritten, Rows
<1>2. PICK before : before = View(t)
  OBVIOUS
<1>3. PICK after : after = View(t)'
  OBVIOUS
<1>4. /\ before[SessionRow(s)] = cur[SessionRow(s)] /\ after[SessionRow(s)] = x
      /\ \A r \in Row \ {SessionRow(s)} : after[r] = before[r]
      /\ MoneyIn(before) /\ MoneyIn(after) /\ Change(t) \in Int
      /\ Change(t)' = Change(t) + (Gap(after) - Gap(before))
  BY <1>1, <1>2, <1>3, WriteView
<1>5. Gap(after) = Gap(before) + Owed(before, s) - Owed(after, s)
  BY <1>4, GapOfSession
<1>6. /\ Owed(before, s) = Owed(cur, s)
      /\ Owed(after, s) = IF x.status \in Active THEN Amount[s] ELSE 0
  BY <1>4 DEF Owed, IsActive
<1>7. PICK g \in Int : g = Gap(before)
  BY <1>4, GapTyped
<1>8. PICK a \in Int, b \in Int : a = Owed(before, s) /\ b = Owed(after, s)
  BY AmountAssumption DEF Owed
<1>9. Gap(after) - Gap(before) = a - b
  BY <1>5, <1>7, <1>8
<1> QED
  BY <1>1, <1>2, <1>4, <1>6, <1>8, <1>9

\* An UPDATE of bank_reserve.
LEMMA ReserveChange ==
  ASSUME IInv, BooksInv, NEW t \in Tx, NEW x \in ReserveValue, NEW next,
         Update(t, ReserveRow, x, next)
  PROVE  /\ MoneyIn(cur)' /\ Change(t) \in Int
         /\ Change(t)' = Change(t) + (Paper(x) - Paper(cur[ReserveRow]))
<1>1. ReserveRow \in Row /\ MoneyIn(cur)'
  BY MoneyWritten, Rows, RowsDiffer
<1>2. PICK before : before = View(t)
  OBVIOUS
<1>3. PICK after : after = View(t)'
  OBVIOUS
<1>4. /\ before[ReserveRow] = cur[ReserveRow] /\ after[ReserveRow] = x
      /\ \A r \in Row \ {ReserveRow} : after[r] = before[r]
      /\ MoneyIn(before) /\ MoneyIn(after) /\ Change(t) \in Int
      /\ Change(t)' = Change(t) + (Gap(after) - Gap(before))
  BY <1>1, <1>2, <1>3, WriteView
<1>5. Gap(after) = Gap(before) - Paper(before[ReserveRow]) + Paper(after[ReserveRow])
  BY <1>4, GapOfReserve
<1>6. PICK g \in Int : g = Gap(before)
  BY <1>4, GapTyped
<1>7. PICK a \in Int, b \in Int : a = Paper(before[ReserveRow]) /\ b = Paper(after[ReserveRow])
  BY <1>4, GapTyped
<1>8. Gap(after) - Gap(before) = b - a
  BY <1>5, <1>6, <1>7
<1> QED
  BY <1>1, <1>4, <1>7, <1>8

\* What the sessions a request has touched are, as committed, a write does not change.
LEMMA SettlesNext ==
  ASSUME db' = db, NEW t \in Tx, NEW next,
         Change(t)' <= Due(next),
         Change(t)' = Due(next) <=> \A s \in Touched(next) : IsActive(db, s)
  PROVE  Settles(t, next)'
  BY DEF Settles, IsActive

-----------------------------------------------------------------------------
(* The statements that write, one by one                                   *)

\* The debit of init.
LEMMA DebitBooks ==
  ASSUME IInv, BooksInv, NEW t \in Tx, InitDebit(t)
  PROVE  BooksInv'
<1> DEFINE s == job[t].opens
           account == UserRow(Owner[s])
<1>1. /\ job[t] \in Job /\ MoneyTyped /\ Shape(t, job[t]) /\ Kinds(job[t]) /\ Present(job[t])
      /\ job[t].pc = "debit" /\ job[t].op = "init" /\ s \in Session
      /\ Owner[s] \in User /\ account \in Row
  BY BookedRequest, OwnerAssumption, Rows DEF InitDebit, At, Kinds
<1>2. /\ \A row \in Row : lock[row] # t
      /\ job[t].did = {} /\ job[t].todo = {} /\ job[t].close = "none" /\ job[t].then = "idle"
  BY <1>1, ShapeHoldsNothing DEF Unwritten
<1>3. Change(t) = 0
  BY <1>1, <1>2, NothingChanged
<1>4. PICK next : next = [job[t] EXCEPT !.pc = "insert"]
  OBVIOUS
<1>5. PICK v : v = cur[account] - Amount[s]
  OBVIOUS
<1>6. /\ next \in Job /\ next.pc = "insert"
      /\ next.op = "init" /\ next.opens = s /\ next.sess = job[t].sess
      /\ next.todo = {} /\ next.close = "none" /\ next.then = "idle" /\ next.did = {}
  BY <1>1, <1>2, <1>4 DEF Job, Label
<1>7. Update(t, account, v, next)
  BY <1>4, <1>5 DEF InitDebit
<1>8. cur[account] \in Int /\ Amount[s] \in Int /\ v \in Int
  BY <1>1, <1>5, AmountAssumption DEF MoneyTyped, MoneyIn
<1>9. MoneyIn(cur)' /\ Change(t)' = Change(t) + (cur[account] - v)
  BY <1>1, <1>7, <1>8, UserChange
<1>10. Change(t)' = Amount[s]
  BY <1>3, <1>5, <1>8, <1>9
<1>11. /\ db' = db /\ lock'[account] = t
       /\ \A r \in Row \ {account} : cur'[r] = cur[r] /\ lock'[r] = lock[r]
  BY <1>1, <1>7, <1>9, WriteView
<1>12. /\ Debits(next) /\ ~Opens(next) /\ ~Submits(next) /\ ~Signs(next)
       /\ ~Issues(next) /\ ~Closes(next)
  BY <1>6 DEF Asserting, Debits, Opens, Submits, Signs, Issues, Closes
<1>13. Kinds(next)
  BY <1>1, <1>6, <1>12 DEF Kinds, Asserting
<1>14. Holds(t, next)'
  BY <1>1, <1>2, <1>6, <1>11, <1>12, Rows, RowsDiffer DEF Holds
<1>15. Present(next)' /\ Marks(next)'
  BY <1>1, <1>2, <1>6, <1>11, <1>12 DEF Present, Marks
<1>16. Due(next) = Amount[s] /\ Touched(next) = {}
  BY <1>6, <1>12 DEF Due, Touched
<1>17. Settles(t, next)'
  BY <1>8, <1>10, <1>11, <1>16, SettlesNext
<1> QED
  BY <1>1, <1>6, <1>7, <1>9, <1>13, <1>14, <1>15, <1>17, BooksWrite DEF Shape, Tallies

\* The INSERT of init: the row is not there yet, in any version.
LEMMA InsertBooks ==
  ASSUME IInv, BooksInv, NEW t \in Tx, InitInsert(t)
  PROVE  BooksInv'
<1> DEFINE s == job[t].opens
           row == SessionRow(s)
<1>1. /\ job[t] \in Job /\ MoneyTyped /\ Shape(t, job[t]) /\ Kinds(job[t]) /\ Present(job[t])
      /\ Holds(t, job[t]) /\ Settles(t, job[t])
      /\ job[t].pc = "insert" /\ job[t].op = "init" /\ s \in Session /\ row \in Row
  BY BookedRequest, Rows DEF InitInsert, At, Kinds
<1>2. CASE Throw(t)
  BY <1>2, BooksThrow
<1>3. CASE ~IndexHit(t, s)
  <2>1. PICK next : next = [job[t] EXCEPT !.pc = "readReserve"]
    OBVIOUS
  <2>2. PICK v : v = [Absent EXCEPT !.status = "pending"]
    OBVIOUS
  <2>3. v.status = "pending"
    BY <2>2 DEF Absent
  <2>4. job[t].then = "idle" /\ job[t].close = "none" /\ job[t].todo = {} /\ job[t].did = {}
    BY <1>1 DEF Kinds, Closes, Signs, Job, Asserting
  <2>5. /\ next \in Job /\ next.pc = "readReserve"
        /\ next.op = "init" /\ next.opens = s /\ next.sess = job[t].sess
        /\ next.todo = {} /\ next.close = "none" /\ next.then = "idle" /\ next.did = {}
    BY <1>1, <2>1, <2>4 DEF Job, Label
  <2>6. Update(t, row, v, next)
    BY <1>3, <2>1, <2>2 DEF InitInsert
  <2>7. /\ Debits(job[t]) /\ ~Opens(job[t]) /\ ~Submits(job[t]) /\ ~Signs(job[t])
        /\ ~Issues(job[t]) /\ ~Closes(job[t])
    BY <1>1, <2>4 DEF Asserting, Debits, Opens, Submits, Signs, Issues, Closes
  <2>8. /\ Debits(next) /\ Opens(next) /\ ~Submits(next) /\ ~Signs(next)
        /\ ~Issues(next) /\ ~Closes(next)
    BY <2>5 DEF Asserting, Debits, Opens, Submits, Signs, Issues, Closes
  <2>9. lock[row] # t /\ View(t)[row] = db[row]
    BY <1>1, <2>7 DEF Holds, View, Read
  <2>10. /\ MoneyIn(cur)' /\ cur[row] = View(t)[row] /\ Change(t) \in Int
         /\ Change(t)' = Change(t) + (Owed(cur, s) - Amount[s])
    BY <1>1, <2>3, <2>6, SessionChange DEF Active
  <2>11. Owed(cur, s) = 0
    BY <1>1, <2>9, <2>10 DEF Owed, IsActive, Present, Active
  <2>12. Due(job[t]) = Amount[s] /\ Touched(job[t]) = {}
    BY <1>1, <2>4, <2>7 DEF Due, Touched
  <2>13. Change(t) = Amount[s] /\ Amount[s] \in Int
    BY <1>1, <2>12, AmountAssumption DEF Settles
  <2>14. Change(t)' = 0
    BY <2>10, <2>11, <2>13
  <2>15. /\ db' = db /\ lock'[row] = t /\ cur'[row] = v
         /\ \A r \in Row \ {row} : cur'[r] = cur[r] /\ lock'[r] = lock[r]
    BY <1>1, <2>6, <2>10, WriteView
  <2>16. Kinds(next)
    BY <1>1, <2>5, <2>8 DEF Kinds, Asserting
  <2>17. /\ \A u \in User : lock'[UserRow(u)] = lock[UserRow(u)]
         /\ \A q \in Session \ {s} : lock'[SessionRow(q)] = lock[SessionRow(q)]
         /\ lock'[ReserveRow] = lock[ReserveRow]
    BY <1>1, <2>15, Rows
  <2>18. Holds(t, next)'
    BY <1>1, <2>5, <2>7, <2>8, <2>15, <2>17 DEF Holds
  <2>19. Present(next)' /\ Marks(next)'
    BY <1>1, <2>3, <2>4, <2>5, <2>8, <2>15 DEF Present, Marks
  <2>20. Due(next) = 0 /\ Touched(next) = {}
    BY <2>5, <2>8 DEF Due, Touched
  <2>21. Settles(t, next)'
    BY <2>14, <2>15, <2>20, SettlesNext
  <2> QED
    BY <1>1, <2>5, <2>6, <2>10, <2>16, <2>18, <2>19, <2>21, BooksWrite DEF Shape, Tallies
<1> QED
  BY <1>2, <1>3 DEF InitInsert

\* The UPDATE of submit, whatever the session is by now.
LEMMA MarkBooks ==
  ASSUME IInv, BooksInv, NEW t \in Tx, SubmitMark(t)
  PROVE  BooksInv'
<1> DEFINE s == job[t].sess
           row == SessionRow(s)
<1>1. /\ job[t] \in Job /\ MoneyTyped /\ Shape(t, job[t]) /\ Kinds(job[t]) /\ Present(job[t])
      /\ job[t].pc = "mark" /\ job[t].op = "submit" /\ s \in Session /\ row \in Row
      /\ job[t].j \in Index
  BY BookedRequest, Rows DEF SubmitMark, At, Kinds
<1>2. /\ \A r \in Row : lock[r] # t
      /\ job[t].did = {} /\ job[t].todo = {} /\ job[t].close = "none" /\ job[t].then = "idle"
  BY <1>1, ShapeHoldsNothing DEF Unwritten
<1>3. CASE Throw(t)
  BY <1>3, BooksThrow
<1>4. CASE ~IndexHit(t, s)
  <2>1. PICK next : next = [job[t] EXCEPT !.pc = "readReserve"]
    OBVIOUS
  <2>2. PICK v : v = [status |-> "submitted", j_index |-> job[t].j]
    OBVIOUS
  <2>3. v.status = "submitted"
    BY <2>2
  <2>4. /\ next \in Job /\ next.pc = "readReserve" /\ next.j = job[t].j
        /\ next.op = "submit" /\ next.opens = job[t].opens /\ next.sess = s
        /\ next.todo = {} /\ next.close = "none" /\ next.then = "idle" /\ next.did = {}
    BY <1>1, <1>2, <2>1 DEF Job, Label
  <2>5. Update(t, row, v, next)
    BY <1>4, <2>1, <2>2 DEF SubmitMark
  <2>6. /\ ~Debits(next) /\ ~Opens(next) /\ Submits(next) /\ ~Signs(next)
        /\ ~Issues(next) /\ ~Closes(next)
    BY <2>4 DEF Asserting, Debits, Opens, Submits, Signs, Issues, Closes
  <2>7. Change(t) = 0 /\ View(t)[row] = db[row]
    BY <1>1, <1>2, NothingChanged
  <2>8. /\ MoneyIn(cur)' /\ cur[row] = View(t)[row]
        /\ Change(t)' = Change(t) + (Owed(cur, s) - Amount[s])
    BY <1>1, <2>3, <2>5, SessionChange DEF Active
  <2>9. Owed(cur, s) = IF IsActive(db, s) THEN Amount[s] ELSE 0
    BY <2>7, <2>8 DEF Owed, IsActive
  <2>10. PICK amount \in Nat \ {0} : amount = Amount[s]
    BY <1>1, AmountAssumption
  <2>11. Change(t)' <= 0 /\ (Change(t)' = 0 <=> IsActive(db, s))
    <3>1. CASE IsActive(db, s)
      <4>1. Change(t)' = 0 + (amount - amount)
        BY <2>7, <2>8, <2>9, <2>10, <3>1
      <4> QED
        BY <3>1, <4>1
    <3>2. CASE ~IsActive(db, s)
      <4>1. Change(t)' = 0 + (0 - amount)
        BY <2>7, <2>8, <2>9, <2>10, <3>2
      <4> QED
        BY <3>2, <4>1
    <3> QED
      BY <3>1, <3>2
  <2>12. /\ db' = db /\ lock'[row] = t /\ cur'[row] = v
         /\ \A r \in Row \ {row} : cur'[r] = cur[r] /\ lock'[r] = lock[r]
    BY <1>1, <2>5, <2>8, WriteView
  <2>13. Kinds(next)
    BY <1>1, <2>4, <2>6 DEF Kinds, Asserting
  <2>14. Holds(t, next)'
    BY <1>1, <1>2, <2>4, <2>6, <2>12, Rows, RowsDiffer DEF Holds
  <2>15. Present(next)' /\ Marks(next)'
    BY <1>1, <1>2, <2>3, <2>4, <2>6, <2>12 DEF Present, Marks
  <2>16. Due(next) = 0 /\ Touched(next) = {s}
    BY <2>4, <2>6 DEF Due, Touched
  <2>17. Settles(t, next)'
    BY <2>11, <2>12, <2>16, SettlesNext
  <2> QED
    BY <1>1, <2>4, <2>5, <2>8, <2>13, <2>14, <2>15, <2>17, BooksWrite DEF Shape, Tallies
<1> QED
  BY <1>3, <1>4 DEF SubmitMark

\* The UPDATE of reveal, whatever the session is by now.
LEMMA SignBooks ==
  ASSUME IInv, BooksInv, NEW t \in Tx, RevealSign(t)
  PROVE  BooksInv'
<1> DEFINE s == job[t].sess
           row == SessionRow(s)
<1>1. /\ job[t] \in Job /\ MoneyTyped /\ Shape(t, job[t]) /\ Kinds(job[t]) /\ Present(job[t])
      /\ job[t].pc = "sign" /\ job[t].op = "reveal" /\ s \in Session /\ row \in Row
  BY BookedRequest, Rows DEF RevealSign, At, Kinds
<1>2. /\ \A r \in Row : lock[r] # t
      /\ job[t].did = {} /\ job[t].todo = {} /\ job[t].close = "none" /\ job[t].then = "idle"
  BY <1>1, ShapeHoldsNothing DEF Unwritten
<1>3. PICK next : next = [job[t] EXCEPT !.pc = "issue", !.did = @ \cup {s}]
  OBVIOUS
<1>4. PICK v : v = [cur[row] EXCEPT !.status = "committed"]
  OBVIOUS
<1>5. v.status = "committed"
  BY <1>1, <1>4 DEF IInv, StorageInv, StorageTyped, SessionValue
<1>6. /\ next \in Job /\ next.pc = "issue"
      /\ next.op = "reveal" /\ next.opens = job[t].opens /\ next.sess = s
      /\ next.todo = {} /\ next.close = "none" /\ next.then = "idle" /\ next.did = {s}
  BY <1>1, <1>2, <1>3 DEF Job, Label
<1>7. Update(t, row, v, next)
  BY <1>3, <1>4 DEF RevealSign
<1>8. /\ ~Debits(next) /\ ~Opens(next) /\ ~Submits(next) /\ Signs(next)
      /\ ~Issues(next) /\ ~Closes(next)
  BY <1>6 DEF Asserting, Debits, Opens, Submits, Signs, Issues, Closes
<1>9. Change(t) = 0 /\ View(t)[row] = db[row]
  BY <1>1, <1>2, NothingChanged
<1>10. /\ MoneyIn(cur)' /\ cur[row] = View(t)[row]
       /\ Change(t)' = Change(t) + (Owed(cur, s) - 0)
  BY <1>1, <1>5, <1>7, SessionChange DEF Active
<1>11. Owed(cur, s) = IF IsActive(db, s) THEN Amount[s] ELSE 0
  BY <1>9, <1>10 DEF Owed, IsActive
<1>12. PICK amount \in Nat \ {0} : amount = Amount[s]
  BY <1>1, AmountAssumption
<1>13. Change(t)' <= amount /\ (Change(t)' = amount <=> IsActive(db, s))
  <2>1. CASE IsActive(db, s)
    <3>1. Change(t)' = 0 + (amount - 0)
      BY <1>9, <1>10, <1>11, <1>12, <2>1
    <3> QED
      BY <2>1, <3>1
  <2>2. CASE ~IsActive(db, s)
    <3>1. Change(t)' = 0 + (0 - 0)
      BY <1>9, <1>10, <1>11, <1>12, <2>2
    <3> QED
      BY <2>2, <3>1
  <2> QED
    BY <2>1, <2>2
<1>14. /\ db' = db /\ lock'[row] = t /\ cur'[row] = v
       /\ \A r \in Row \ {row} : cur'[r] = cur[r] /\ lock'[r] = lock[r]
  BY <1>1, <1>7, <1>10, WriteView
<1>15. Kinds(next)
  BY <1>1, <1>6, <1>8 DEF Kinds, Asserting
<1>16. Holds(t, next)'
  BY <1>1, <1>2, <1>6, <1>8, <1>14, Rows, RowsDiffer DEF Holds
<1>17. Present(next)' /\ Marks(next)'
  BY <1>1, <1>2, <1>5, <1>6, <1>8, <1>14 DEF Present, Marks, Ended
<1>18. Due(next) = amount /\ Touched(next) = {s}
  BY <1>6, <1>8, <1>12 DEF Due, Touched
<1>19. Settles(t, next)'
  BY <1>13, <1>14, <1>18, SettlesNext
<1> QED
  BY <1>1, <1>6, <1>7, <1>10, <1>15, <1>16, <1>17, <1>19, BooksWrite DEF Shape, Tallies

\* The UPDATE of bank_reserve by reveal.
LEMMA IssueBooks ==
  ASSUME IInv, BooksInv, NEW t \in Tx, RevealIssue(t)
  PROVE  BooksInv'
<1> DEFINE s == job[t].sess
<1>1. /\ job[t] \in Job /\ MoneyTyped /\ Shape(t, job[t]) /\ Kinds(job[t]) /\ Present(job[t])
      /\ Holds(t, job[t]) /\ Settles(t, job[t]) /\ Marks(job[t])
      /\ job[t].pc = "issue" /\ job[t].op = "reveal" /\ s \in Session /\ ReserveRow \in Row
  BY BookedRequest, Rows DEF RevealIssue, At, Kinds
<1>2. job[t].close = "none" /\ job[t].then = "idle" /\ job[t].todo = {} /\ job[t].did = {s}
  BY <1>1 DEF Kinds, Closes, Signs, Job, Asserting
<1>3. PICK next : next = [job[t] EXCEPT !.pc = "readReserve"]
  OBVIOUS
<1>4. PICK bank \in ReserveValue : bank = cur[ReserveRow]
  BY <1>1 DEF MoneyTyped, MoneyIn
<1>5. PICK amount \in Nat \ {0} : amount = Amount[s]
  BY <1>1, AmountAssumption
<1>6. PICK v : v = [bank EXCEPT !.total_issued = @ + amount]
  OBVIOUS
<1>7. /\ v \in ReserveValue /\ v.reserve_balance = bank.reserve_balance
      /\ v.total_issued = bank.total_issued + amount /\ v.total_redeemed = bank.total_redeemed
      /\ bank.reserve_balance \in Int /\ bank.total_issued \in Int /\ bank.total_redeemed \in Int
  BY <1>6 DEF ReserveValue
<1>8. Paper(v) - Paper(bank) = 0 - amount
  BY <1>7 DEF Paper
<1>9. /\ next \in Job /\ next.pc = "readReserve"
      /\ next.op = "reveal" /\ next.opens = job[t].opens /\ next.sess = s
      /\ next.todo = {} /\ next.close = "none" /\ next.then = "idle" /\ next.did = {s}
  BY <1>1, <1>2, <1>3 DEF Job, Label
<1>10. Update(t, ReserveRow, v, next)
  BY <1>3, <1>4, <1>5, <1>6 DEF RevealIssue
<1>11. /\ ~Debits(next) /\ ~Opens(next) /\ ~Submits(next) /\ Signs(next)
       /\ Issues(next) /\ ~Closes(next)
       /\ ~Debits(job[t]) /\ ~Opens(job[t]) /\ ~Submits(job[t]) /\ Signs(job[t])
       /\ ~Issues(job[t]) /\ ~Closes(job[t])
  BY <1>1, <1>2, <1>9 DEF Asserting, Debits, Opens, Submits, Signs, Issues, Closes
<1>12. /\ MoneyIn(cur)' /\ Change(t) \in Int
       /\ Change(t)' = Change(t) + (Paper(v) - Paper(bank))
  BY <1>4, <1>7, <1>10, ReserveChange
<1>13. PICK c \in Int : c = Change(t)
  BY <1>12
<1>14. Change(t)' = c - amount
  BY <1>8, <1>12, <1>13
<1>15. /\ db' = db /\ lock'[ReserveRow] = t
       /\ \A r \in Row \ {ReserveRow} : cur'[r] = cur[r] /\ lock'[r] = lock[r]
  BY <1>1, <1>10, <1>12, WriteView
<1>16. /\ \A u \in User : lock'[UserRow(u)] = lock[UserRow(u)]
       /\ \A q \in Session : /\ lock'[SessionRow(q)] = lock[SessionRow(q)]
                             /\ cur'[SessionRow(q)] = cur[SessionRow(q)]
  BY <1>15, Rows, RowsDiffer
<1>17. Kinds(next)
  BY <1>1, <1>9, <1>11 DEF Kinds, Asserting
<1>18. Holds(t, next)'
  BY <1>1, <1>9, <1>11, <1>15, <1>16 DEF Holds
<1>19. Present(next)' /\ Marks(next)'
  BY <1>1, <1>2, <1>9, <1>11, <1>15, <1>16 DEF Present, Marks
<1>20. Due(next) = 0 /\ Due(job[t]) = amount /\ Touched(next) = {s} /\ Touched(job[t]) = {s}
  BY <1>1, <1>2, <1>5, <1>9, <1>11 DEF Due, Touched
<1>21. c <= amount /\ (c = amount <=> IsActive(db, s))
  BY <1>1, <1>13, <1>20 DEF Settles
<1>22. Change(t)' <= 0 /\ (Change(t)' = 0 <=> IsActive(db, s))
  <2>1. c - amount <= 0 /\ (c - amount = 0 <=> c = amount)
    BY <1>21
  <2> QED
    BY <1>14, <1>21, <2>1
<1>23. Settles(t, next)'
  BY <1>15, <1>20, <1>22, SettlesNext
<1> QED
  BY <1>1, <1>9, <1>10, <1>12, <1>17, <1>18, <1>19, <1>23, BooksWrite DEF Shape, Tallies

\* The refund of refundAndClose.
LEMMA RefundBooks ==
  ASSUME IInv, BooksInv, NEW t \in Tx, RefundUser(t)
  PROVE  BooksInv'
<1> DEFINE s == job[t].sess
           account == UserRow(Owner[s])
<1>1. /\ job[t] \in Job /\ MoneyTyped /\ Shape(t, job[t]) /\ Kinds(job[t]) /\ Present(job[t])
      /\ Holds(t, job[t]) /\ Settles(t, job[t]) /\ Marks(job[t])
      /\ job[t].pc = "refund" /\ Closes(job[t]) /\ s \in Session
      /\ s \notin job[t].did \cup job[t].todo /\ job[t].did \subseteq Session
      /\ Owner[s] \in User /\ account \in Row
  BY BookedRequest, OwnerAssumption, Rows DEF RefundUser, At, Kinds, Job
<1>2. PICK next : next = [job[t] EXCEPT !.pc = "close"]
  OBVIOUS
<1>3. PICK amount \in Nat \ {0} : amount = Amount[s]
  BY <1>1, AmountAssumption
<1>4. PICK b \in Int : b = cur[account]
  BY <1>1 DEF MoneyTyped, MoneyIn
<1>5. PICK v \in Int : v = b + amount
  BY <1>3, <1>4
<1>6. /\ next \in Job /\ next.pc = "close"
      /\ next.op = job[t].op /\ next.opens = job[t].opens /\ next.sess = s
      /\ next.todo = job[t].todo /\ next.close = job[t].close /\ next.then = job[t].then
      /\ next.did = job[t].did
  BY <1>1, <1>2 DEF Job, Label
<1>7. Update(t, account, v, next)
  BY <1>2, <1>3, <1>4, <1>5 DEF RefundUser
<1>8. /\ MoneyIn(cur)' /\ Change(t) \in Int /\ Change(t)' = Change(t) + (b - v)
  BY <1>1, <1>4, <1>7, UserChange
<1>9. PICK c \in Int : c = Change(t)
  BY <1>8
<1>10. Change(t)' = c - amount
  BY <1>5, <1>8, <1>9
<1>11. /\ db' = db /\ lock'[account] = t
       /\ \A r \in Row \ {account} : cur'[r] = cur[r] /\ lock'[r] = lock[r]
  BY <1>1, <1>7, <1>8, WriteView
<1>12. /\ \A u \in User \ {Owner[s]} : lock'[UserRow(u)] = lock[UserRow(u)]
       /\ \A q \in Session : /\ cur'[SessionRow(q)] = cur[SessionRow(q)]
                             /\ lock'[SessionRow(q)] = lock[SessionRow(q)]
       /\ lock'[ReserveRow] = lock[ReserveRow]
  BY <1>1, <1>11, Rows, RowsDiffer
<1>13. /\ ~Debits(next) /\ ~Opens(next) /\ ~Submits(next) /\ ~Signs(next)
       /\ ~Issues(next) /\ Closes(next)
       /\ ~Debits(job[t]) /\ ~Opens(job[t]) /\ ~Submits(job[t]) /\ ~Signs(job[t])
       /\ ~Issues(job[t])
  BY <1>1, <1>6 DEF Debits, Opens, Submits, Signs, Issues, Closes
<1>14. /\ Paid(next) = job[t].did \cup {s} /\ Unpaid(next) = job[t].todo
       /\ Paid(job[t]) = job[t].did /\ Unpaid(job[t]) = job[t].todo \cup {s}
  BY <1>1, <1>6 DEF Paid, Unpaid
<1>15. Kinds(next)
  BY <1>1, <1>6, <1>13, <1>14 DEF Kinds, Asserting
<1>16. Holds(t, next)'
  BY <1>1, <1>6, <1>11, <1>12, <1>13, <1>14 DEF Holds
<1>17. Present(next)' /\ Marks(next)'
  BY <1>1, <1>6, <1>11, <1>12, <1>13 DEF Present, Marks
<1>18. /\ Due(next) = 0 - amount /\ Due(job[t]) = 0
       /\ Touched(next) = job[t].did /\ Touched(job[t]) = job[t].did
  BY <1>1, <1>3, <1>6, <1>13 DEF Due, Touched
<1>19. c <= 0 /\ (c = 0 <=> \A q \in job[t].did : IsActive(db, q))
  BY <1>1, <1>9, <1>18 DEF Settles
<1>20. c - amount <= 0 - amount /\ (c - amount = 0 - amount <=> c = 0)
  BY <1>19
<1>21. Settles(t, next)'
  BY <1>10, <1>11, <1>18, <1>19, <1>20, SettlesNext
<1> QED
  BY <1>1, <1>6, <1>7, <1>8, <1>15, <1>16, <1>17, <1>21, BooksWrite DEF Shape, Tallies

\* The UPDATE of withdrawal_sessions by refundAndClose, whatever the session is by now.
LEMMA CloseBooks ==
  ASSUME IInv, BooksInv, NEW t \in Tx, CloseSession(t)
  PROVE  BooksInv'
<1> DEFINE s == job[t].sess
           row == SessionRow(s)
<1>1. /\ job[t] \in Job /\ MoneyTyped /\ Shape(t, job[t]) /\ Kinds(job[t]) /\ Present(job[t])
      /\ Holds(t, job[t]) /\ Settles(t, job[t]) /\ Marks(job[t])
      /\ job[t].pc = "close" /\ Closes(job[t]) /\ s \in Session /\ row \in Row
      /\ s \notin job[t].did \cup job[t].todo /\ job[t].did \subseteq Session
  BY BookedRequest, Rows DEF CloseSession, At, Kinds, Job
<1>2. PICK next : next = [job[t] EXCEPT !.pc = "readReserve", !.did = @ \cup {s}]
  OBVIOUS
<1>3. PICK v : v = [cur[row] EXCEPT !.status = job[t].close]
  OBVIOUS
<1>4. v.status = job[t].close /\ job[t].close \in Closed
  BY <1>1, <1>3 DEF IInv, StorageInv, StorageTyped, SessionValue, Job, Closes
<1>5. PICK amount \in Nat \ {0} : amount = Amount[s]
  BY <1>1, AmountAssumption
<1>6. /\ next \in Job /\ next.pc = "readReserve"
      /\ next.op = job[t].op /\ next.opens = job[t].opens /\ next.sess = s
      /\ next.todo = job[t].todo /\ next.close = job[t].close /\ next.then = job[t].then
      /\ next.did = job[t].did \cup {s}
  BY <1>1, <1>2 DEF Job, Label
<1>7. Update(t, row, v, next)
  BY <1>2, <1>3 DEF CloseSession
<1>8. /\ ~Debits(next) /\ ~Opens(next) /\ ~Submits(next) /\ ~Signs(next)
      /\ ~Issues(next) /\ Closes(next)
      /\ ~Debits(job[t]) /\ ~Opens(job[t]) /\ ~Submits(job[t]) /\ ~Signs(job[t])
      /\ ~Issues(job[t])
  BY <1>1, <1>6 DEF Debits, Opens, Submits, Signs, Issues, Closes
<1>9. lock[row] # t /\ View(t)[row] = db[row]
  BY <1>1, <1>8 DEF Holds, View, Read
<1>10. /\ MoneyIn(cur)' /\ Change(t) \in Int /\ cur[row] = View(t)[row]
       /\ Change(t)' = Change(t) + (Owed(cur, s) - 0)
  BY <1>1, <1>4, <1>7, SessionChange DEF Active, Closed
<1>11. Owed(cur, s) = IF IsActive(db, s) THEN amount ELSE 0
  BY <1>5, <1>9, <1>10 DEF Owed, IsActive
<1>12. PICK c \in Int : c = Change(t)
  BY <1>10
<1>13. /\ db' = db /\ lock'[row] = t /\ cur'[row] = v
       /\ \A r \in Row \ {row} : cur'[r] = cur[r] /\ lock'[r] = lock[r]
  BY <1>1, <1>7, <1>10, WriteView
<1>14. /\ \A u \in User : lock'[UserRow(u)] = lock[UserRow(u)]
       /\ \A q \in Session \ {s} : /\ cur'[SessionRow(q)] = cur[SessionRow(q)]
                                   /\ lock'[SessionRow(q)] = lock[SessionRow(q)]
       /\ lock'[ReserveRow] = lock[ReserveRow]
  BY <1>1, <1>13, Rows
<1>15. /\ Paid(next) = job[t].did \cup {s} /\ Unpaid(next) = job[t].todo
       /\ Paid(job[t]) = job[t].did \cup {s} /\ Unpaid(job[t]) = job[t].todo
  BY <1>1, <1>6 DEF Paid, Unpaid
<1>16. Kinds(next)
  BY <1>1, <1>6, <1>8, <1>15 DEF Kinds, Asserting
<1>17. Holds(t, next)'
  BY <1>1, <1>6, <1>8, <1>13, <1>14, <1>15 DEF Holds
<1>18. Present(next)' /\ Marks(next)'
  BY <1>1, <1>4, <1>6, <1>8, <1>13, <1>14 DEF Present, Marks, Ended
<1>19. /\ Due(next) = 0 /\ Due(job[t]) = 0 - amount
       /\ Touched(next) = job[t].did \cup {s} /\ Touched(job[t]) = job[t].did
  BY <1>1, <1>5, <1>6, <1>8 DEF Due, Touched
<1>20. c <= 0 - amount /\ (c = 0 - amount <=> \A q \in job[t].did : IsActive(db, q))
  BY <1>1, <1>12, <1>19 DEF Settles
<1>21. Change(t)' <= 0 /\ (Change(t)' = 0 <=> \A q \in job[t].did \cup {s} : IsActive(db, q))
  <2>1. CASE IsActive(db, s)
    <3>1. Change(t)' = c + (amount - 0)
      BY <1>10, <1>11, <1>12, <2>1
    <3>2. Change(t)' <= 0 /\ (Change(t)' = 0 <=> c = 0 - amount)
      BY <1>20, <3>1
    <3> QED
      BY <1>20, <2>1, <3>2
  <2>2. CASE ~IsActive(db, s)
    <3>1. Change(t)' = c + (0 - 0)
      BY <1>10, <1>11, <1>12, <2>2
    <3>2. Change(t)' < 0
      BY <1>20, <3>1
    <3>3. Change(t)' <= 0 /\ Change(t)' # 0
      BY <1>20, <3>1
    <3> QED
      BY <2>2, <3>3
  <2> QED
    BY <2>1, <2>2
<1>22. Settles(t, next)'
  BY <1>13, <1>19, <1>21, SettlesNext
<1> QED
  BY <1>1, <1>6, <1>7, <1>10, <1>16, <1>17, <1>18, <1>22, BooksWrite DEF Shape, Tallies

-----------------------------------------------------------------------------
(* COMMIT                                                                  *)

\* A session row a request holds has been inserted, by the request itself if it is not committed.
LEMMA HeldThere ==
  ASSUME IInv, BooksInv, NEW t \in Tx, NEW s \in Session, lock[SessionRow(s)] = t
  PROVE  /\ cur[SessionRow(s)].status # "none"
         /\ s # job[t].opens => db[SessionRow(s)].status # "none"
<1>1. PICK request \in Job : request = job[t]
  BY BookedRequest
<1>2. /\ Kinds(request) /\ Holds(t, request) /\ Present(request) /\ Marks(request)
  BY <1>1, BookedRequest
<1>3. CASE Opens(request) /\ s = request.opens
  BY <1>1, <1>2, <1>3 DEF Marks
<1>4. CASE Submits(request) /\ s = request.sess
  BY <1>1, <1>2, <1>4 DEF Marks, Present
<1>5. CASE (Signs(request) \/ Closes(request)) /\ s \in request.did
  BY <1>1, <1>2, <1>5 DEF Marks, Present, Ended, Closed
<1>6. Signs(request) /\ s = request.sess => s \in request.did
  BY <1>2 DEF Kinds
<1> QED
  BY <1>2, <1>3, <1>4, <1>5, <1>6 DEF Holds

\* What a request has touched it holds.
LEMMA TouchedHeld ==
  ASSUME NEW t \in Tx, NEW request \in Job, Kinds(request), Holds(t, request)
  PROVE  \A s \in Touched(request) : s \in Session /\ lock[SessionRow(s)] = t
<1> SUFFICES ASSUME NEW s \in Touched(request) PROVE s \in Session /\ lock[SessionRow(s)] = t
  OBVIOUS
<1>1. s \in Session
  BY DEF Touched, Job, Kinds, Submits, Signs
<1>2. CASE (Submits(request) \/ Signs(request)) /\ s = request.sess
  BY <1>1, <1>2 DEF Holds
<1>3. CASE s \in request.did
  BY <1>1, <1>3 DEF Kinds, Holds
<1> QED
  BY <1>1, <1>2, <1>3 DEF Touched

\* What COMMIT does to the tables and to the history.
LEMMA CommitFacts ==
  ASSUME IInv, BooksInv, NEW t \in Tx, CommitTx(t)
  PROVE  /\ db' = View(t) /\ cur' = cur
         /\ \A r \in Row : db'[r] = IF lock[r] = t THEN cur[r] ELSE db[r]
         /\ \A r \in Row : lock'[r] = IF lock[r] = t THEN NoTx ELSE lock[r]
         /\ \A row \in Row : lock'[row] # t
         /\ db' = [r \in Row |-> db'[r]] /\ db = [r \in Row |-> db[r]]
         /\ MoneyTyped'
         /\ ~blind' => ~blind /\ (Wrote(t) => ~tally[t].torn)
         /\ \A s \in Session : settled'[s] = IF s \in job[t].did THEN settled[s] + 1 ELSE settled[s]
<1>1. /\ db' = View(t) /\ cur' = cur
      /\ \A r \in Row : db'[r] = IF lock[r] = t THEN cur[r] ELSE db[r]
      /\ \A r \in Row : lock'[r] = IF lock[r] = t THEN NoTx ELSE lock[r]
      /\ db' = [r \in Row |-> db'[r]] /\ db = [r \in Row |-> db[r]]
  BY DEF CommitTx, Commit, Release, Read, View, IInv, StorageInv, StorageTyped
<1>2. \A row \in Row : lock'[row] # t
  BY <1>1, NoValueAssumption
<1>3. MoneyTyped
  BY DEF BooksInv
<1>4. MoneyIn(View(t)) /\ MoneyIn(cur)
  BY <1>3, Views DEF MoneyTyped
<1>5. MoneyIn(db)' /\ MoneyIn(cur)'
  BY <1>1, <1>4 DEF MoneyIn
<1>6. tally' \in [Tx -> Tally]
  <2>1. NoTally \in Tally
    BY DEF NoTally, Tally, NoBooks, ReserveValue
  <2>2. \A u \in Tx, b \in BOOLEAN : [tally[u] EXCEPT !.torn = b] \in Tally
    BY <1>3 DEF MoneyTyped, Tally
  <2>3. \A u \in Tx : (tally[u].torn \/ Tears(t, u)) \in BOOLEAN
    BY <1>3 DEF MoneyTyped, Tally, Tears
  <2>4. tally' = [u \in Tx |-> IF u = t THEN NoTally
                              ELSE [tally[u] EXCEPT !.torn = tally[u].torn \/ Tears(t, u)]]
    BY <1>3 DEF CommitTx, MoneyTyped, Tally
  <2> QED
    BY <2>1, <2>2, <2>3, <2>4
<1>7. blind' \in BOOLEAN /\ (~blind' => ~blind /\ (Wrote(t) => ~tally[t].torn))
  BY <1>3 DEF CommitTx, MoneyTyped
<1>8. /\ settled' \in [Session -> Nat]
      /\ \A s \in Session : settled'[s] = IF s \in job[t].did THEN settled[s] + 1 ELSE settled[s]
  BY <1>3 DEF CommitTx, MoneyTyped
<1> QED
  BY <1>1, <1>2, <1>5, <1>6, <1>7, <1>8 DEF MoneyTyped

\* A request whose assertInvariant saw the books balance settles sessions not settled before.
LEMMA CommitAudited ==
  ASSUME IInv, BooksInv, NEW t \in Tx, CommitTx(t)
  PROVE  Audited'
<1> SUFFICES ASSUME ~blind'
             PROVE  /\ Gap(db)' = 0
                    /\ \A s \in Session : settled'[s] = IF db'[SessionRow(s)].status \in Ended THEN 1 ELSE 0
  BY DEF Audited
<1>1. PICK request \in Job : request = job[t]
  BY BookedRequest
<1>2. /\ Kinds(request) /\ Holds(t, request) /\ Present(request) /\ Marks(request)
      /\ Settles(t, request) /\ Tallied(t, request) /\ request.pc = "commit" /\ MoneyTyped
  BY <1>1, BookedRequest DEF CommitTx, At
<1>3. /\ db' = View(t) /\ ~blind /\ (Wrote(t) => ~tally[t].torn)
      /\ \A r \in Row : db'[r] = IF lock[r] = t THEN cur[r] ELSE db[r]
      /\ db = [r \in Row |-> db[r]]
      /\ \A s \in Session : settled'[s] = IF s \in request.did THEN settled[s] + 1 ELSE settled[s]
  BY <1>1, CommitFacts
<1>4. /\ Gap(db) = 0
      /\ \A s \in Session : settled[s] = IF db[SessionRow(s)].status \in Ended THEN 1 ELSE 0
  BY <1>3 DEF BooksInv, Audited
<1>5. \A s \in Touched(request) : s \in Session /\ lock[SessionRow(s)] = t
  BY <1>2, TouchedHeld
<1>6. Change(t) = 0
  <2>1. CASE Wrote(t)
    BY <1>2, <1>3, <2>1 DEF Tallied
  <2>2. CASE ~Wrote(t)
    BY <1>2, <2>2, NothingChanged DEF Wrote
  <2> QED
    BY <2>1, <2>2
<1>7. Gap(db)' = 0
  <2>1. Gap(db)' = Gap(View(t))
    BY <1>3 DEF Gap, SumBalance, InFlight, IsActive
  <2>2. Gap(View(t)) \in Int /\ Gap(db) \in Int
    BY <1>2, Views
  <2> QED
    BY <1>4, <1>6, <2>1, <2>2 DEF Change
<1>8. \A s \in Touched(request) : IsActive(db, s)
  BY <1>2, <1>6 DEF Settles, Due
<1>9. ASSUME NEW s \in Session
      PROVE  settled'[s] = IF db'[SessionRow(s)].status \in Ended THEN 1 ELSE 0
  <2>1. db'[SessionRow(s)] = IF lock[SessionRow(s)] = t THEN cur[SessionRow(s)] ELSE db[SessionRow(s)]
    BY <1>3, Rows
  <2>2. settled[s] = IF db[SessionRow(s)].status \in Ended THEN 1 ELSE 0
    BY <1>4
  <2>3. CASE s \in request.did
    <3>1. lock[SessionRow(s)] = t /\ IsActive(db, s)
      BY <1>5, <1>8, <2>3 DEF Touched
    <3>2. cur[SessionRow(s)].status \in Ended /\ db[SessionRow(s)].status \notin Ended
      BY <1>2, <2>3, <3>1 DEF Marks, IsActive, Active, Ended, Closed
    <3> QED
      BY <1>3, <2>1, <2>2, <2>3, <3>1, <3>2
  <2>4. CASE s \notin request.did
    <3>1. lock[SessionRow(s)] = t => /\ cur[SessionRow(s)].status \notin Ended
                                     /\ db[SessionRow(s)].status \notin Ended
      <4>1. CASE Opens(request) /\ s = request.opens
        BY <1>2, <4>1 DEF Marks, Present, Ended, Closed
      <4>2. CASE Submits(request) /\ s = request.sess
        <5>1. IsActive(db, s)
          BY <1>8, <4>2 DEF Touched
        <5> QED
          BY <1>2, <4>2, <5>1 DEF Marks, IsActive, Active, Ended, Closed
      <4>3. ~(Signs(request) /\ s = request.sess) /\ ~(Closes(request) /\ s \in request.did)
        BY <1>2, <2>4 DEF Kinds
      <4> QED
        BY <1>2, <4>1, <4>2, <4>3 DEF Holds
    <3> QED
      BY <1>3, <2>1, <2>2, <2>4, <3>1
  <2> QED
    BY <2>3, <2>4
<1> QED
  BY <1>7, <1>9

\* A COMMIT does not disturb what another request has changed, only what it has read.
LEMMA CommitOthers ==
  ASSUME IInv, BooksInv, NEW t \in Tx, CommitTx(t), NEW u \in Tx \ {t},
         NEW request \in Job, request = job[u]
  PROVE  Booked(u, request)'
<1>1. /\ Kinds(request) /\ Holds(u, request) /\ Present(request) /\ Marks(request)
      /\ Settles(u, request) /\ Tallied(u, request) /\ MoneyTyped
  BY BookedRequest
<1>2. /\ cur' = cur
      /\ \A r \in Row : db'[r] = IF lock[r] = t THEN cur[r] ELSE db[r]
      /\ \A r \in Row : lock'[r] = IF lock[r] = t THEN NoTx ELSE lock[r]
      /\ db' = [r \in Row |-> db'[r]] /\ db = [r \in Row |-> db[r]]
      /\ MoneyTyped' /\ (~blind' => ~blind)
  BY CommitFacts
<1>3. /\ \A r \in Row : lock'[r] = u <=> lock[r] = u
      /\ \A r \in Row : lock[r] = u => db'[r] = db[r]
  BY <1>2, NoValueAssumption
<1>4. Holds(u, request)'
  BY <1>1, <1>3, Rows DEF Holds
<1>5. Marks(request)'
  BY <1>1, <1>2 DEF Marks
<1>6. Present(request)'
  <2>1. ASSUME NEW s \in Session
        PROVE  db'[SessionRow(s)] = IF lock[SessionRow(s)] = t THEN cur[SessionRow(s)]
                                    ELSE db[SessionRow(s)]
    BY <1>2, Rows
  <2>2. request.opens \in Session => db'[SessionRow(request.opens)].status = "none"
    <3> SUFFICES ASSUME request.opens \in Session
                 PROVE  db'[SessionRow(request.opens)].status = "none"
      OBVIOUS
    <3>1. request.opens # job[t].opens
      BY DEF BooksInv, OwnIds
    <3>2. db[SessionRow(request.opens)].status = "none"
      BY <1>1 DEF Present
    <3>3. lock[SessionRow(request.opens)] # t
      BY <3>1, <3>2, HeldThere
    <3> QED
      BY <2>1, <3>2, <3>3
  <2>3. ASSUME NEW s \in {request.sess} \cup request.todo \cup request.did, s \in Session
        PROVE  db'[SessionRow(s)].status # "none"
    <3>1. db[SessionRow(s)].status # "none"
      BY <1>1, <2>3 DEF Present
    <3>2. lock[SessionRow(s)] = t => cur[SessionRow(s)].status # "none"
      BY <2>3, HeldThere
    <3> QED
      BY <2>1, <2>3, <3>1, <3>2
  <2> QED
    BY <2>2, <2>3 DEF Present
<1>7. PICK before : before = View(u)
  OBVIOUS
<1>8. PICK after : after = View(u)'
  OBVIOUS
<1>9. PICK base : base = db'
  OBVIOUS
<1>10. /\ \A r \in Row : before[r] = IF lock[r] = u THEN cur[r] ELSE db[r]
       /\ \A r \in Row : after[r] = IF lock[r] = u THEN cur[r] ELSE base[r]
       /\ MoneyIn(before) /\ MoneyIn(db)
  BY <1>1, <1>2, <1>3, <1>7, <1>8, <1>9, Views DEF View, Read
<1>11. MoneyIn(base) /\ MoneyIn(after)
  BY <1>2, <1>9, <1>10, Rows DEF MoneyTyped, MoneyIn
<1>12. \A r \in Row : \/ after[r] = base[r] /\ before[r] = db[r]
                      \/ after[r] = before[r] /\ base[r] = db[r]
  BY <1>2, <1>3, <1>9, <1>10
<1>13. Gap(after) - Gap(base) = Gap(before) - Gap(db)
  BY <1>10, <1>11, <1>12, GapLinear
<1>14. Change(u)' = Change(u)
  <2>1. Change(u)' = Gap(after) - Gap(base)
    BY <1>8, <1>9 DEF Change, Gap, SumBalance, InFlight, IsActive
  <2> QED
    BY <1>7, <1>13, <2>1 DEF Change
<1>15. \A s \in Touched(request) : IsActive(db, s)' <=> IsActive(db, s)
  <2>1. \A s \in Touched(request) : s \in Session /\ lock[SessionRow(s)] = u
    BY <1>1, TouchedHeld
  <2> QED
    BY <1>3, <2>1, Rows DEF IsActive
<1>16. Settles(u, request)'
  BY <1>1, <1>14, <1>15 DEF Settles
<1>17. Tallied(u, request)'
  <2>1. tally'[u] = [tally[u] EXCEPT !.torn = @ \/ Tears(t, u)]
    BY DEF CommitTx
  <2>2. /\ tally'[u].books = tally[u].books /\ tally'[u].sum = tally[u].sum
        /\ ~tally'[u].torn => ~tally[u].torn /\ ~Tears(t, u)
    BY <1>1, <2>1 DEF MoneyTyped, Tally
  <2>3. CASE request.pc \in {"readBalances", "readInFlight"} /\ ~tally'[u].torn
    <3>1. ~Wrote(t)
      BY <2>2, <2>3 DEF Tears
    <3>2. db' = db
      BY <1>2, <3>1 DEF Wrote
    <3>3. View(u)' = View(u)
      BY <1>2, <1>3, <3>2 DEF View, Read
    <3> QED
      BY <1>1, <2>2, <2>3, <3>3 DEF Tallied, SumBalance
  <2>4. CASE request.pc \notin {"readBalances", "readInFlight"} /\ ~tally'[u].torn
    BY <1>1, <1>2, <1>14, <2>2, <2>4 DEF Tallied
  <2> QED
    BY <2>3, <2>4 DEF Tallied
<1> QED
  BY <1>1, <1>4, <1>5, <1>6, <1>16, <1>17 DEF Booked, Shape

\* The request itself answers, or goes on to its next transaction.
LEMMA CommitOwn ==
  ASSUME IInv, BooksInv, NEW t \in Tx, CommitTx(t), NEW next,
         next = IF job[t].then = "idle" THEN Idle
                ELSE [Idle EXCEPT !.op = job[t].op, !.pc = job[t].then, !.opens = job[t].opens]
  PROVE  Booked(t, next)' /\ next \in Job /\ next.opens \in {job[t].opens, NoSession}
<1>1. /\ job[t] \in Job /\ Kinds(job[t]) /\ Holds(t, job[t]) /\ Present(job[t]) /\ job[t].pc = "commit"
  BY BookedRequest DEF CommitTx, At
<1>2. /\ \A r \in Row : db'[r] = IF lock[r] = t THEN cur[r] ELSE db[r]
      /\ \A row \in Row : lock'[row] # t
      /\ db' = [r \in Row |-> db'[r]] /\ MoneyIn(db)'
  BY CommitFacts DEF MoneyTyped
<1>3. Booked(t, Idle)' /\ Change(t)' = 0
  BY <1>2, IdleBookedNext
<1>4. CASE job[t].then = "idle"
  <2>1. Idle \in Job /\ Idle.opens = NoSession
    BY IdleAims DEF AimedJob, Idle
  <2>2. next = Idle
    BY <1>4
  <2> QED
    BY <1>3, <2>1, <2>2
<1>5. CASE job[t].then = "select"
  <2>1. job[t].op = "init" /\ job[t].opens \in Session
    BY <1>1, <1>5 DEF Kinds
  <2>2. /\ next \in Job /\ next.op = "init" /\ next.pc = "select" /\ next.opens = job[t].opens
        /\ next.sess = NoSession /\ next.todo = {} /\ next.close = "none" /\ next.then = "idle"
        /\ next.did = {}
    BY <1>1, <1>5, <2>1 DEF Idle, Job, Op, Label
  <2>3. /\ ~Debits(next) /\ ~Opens(next) /\ ~Submits(next) /\ ~Signs(next)
        /\ ~Issues(next) /\ ~Closes(next)
        /\ ~Opens(job[t]) /\ ~Submits(job[t]) /\ ~Signs(job[t])
    BY <1>5, <2>1, <2>2 DEF Debits, Opens, Submits, Signs, Issues, Closes, Asserting
  <2>4. Kinds(next)
    BY <2>1, <2>2, <2>3 DEF Kinds, Asserting
  <2>5. db[SessionRow(job[t].opens)].status = "none" /\ job[t].opens \notin job[t].did
    BY <1>1, <2>1 DEF Present
  <2>6. lock[SessionRow(job[t].opens)] # t
    BY <1>1, <2>1, <2>3, <2>5 DEF Holds
  <2>7. db'[SessionRow(next.opens)].status = "none"
    BY <1>2, <2>1, <2>2, <2>5, <2>6, Rows
  <2>8. Holds(t, next)' /\ Marks(next)'
    BY <1>2, <2>2, <2>3, Rows DEF Holds, Marks
  <2>9. Present(next)'
    BY <2>2, <2>7, NoValueAssumption DEF Present
  <2>10. Due(next) = 0 /\ Touched(next) = {}
    BY <2>2, <2>3 DEF Due, Touched
  <2>11. Settles(t, next)'
    BY <1>3, <2>10 DEF Settles
  <2>12. Tallied(t, next)'
    BY <2>2 DEF Tallied
  <2> QED
    BY <2>2, <2>4, <2>8, <2>9, <2>11, <2>12 DEF Booked, Shape
<1> QED
  BY <1>1, <1>4, <1>5 DEF Job

LEMMA CommitBooks ==
  ASSUME IInv, BooksInv, NEW t \in Tx, CommitTx(t)
  PROVE  BooksInv'
<1>1. PICK next : next = IF job[t].then = "idle" THEN Idle
                         ELSE [Idle EXCEPT !.op = job[t].op, !.pc = job[t].then, !.opens = job[t].opens]
  OBVIOUS
<1>2. job \in [Tx -> Job] /\ job' = [job EXCEPT ![t] = next]
  BY <1>1, BookedRequest DEF CommitTx
<1>3. job'[t] = next /\ \A u \in Tx \ {t} : job'[u] = job[u]
  BY <1>2
<1>4. Booked(t, next)' /\ next.opens \in {job[t].opens, NoSession}
  BY <1>1, CommitOwn
<1>5. OwnIds'
  BY <1>3, <1>4, NoValueAssumption DEF BooksInv, OwnIds
<1>6. MoneyTyped' /\ Audited'
  BY CommitFacts, CommitAudited
<1>7. ASSUME NEW u \in Tx \ {t} PROVE Booked(u, job[u])'
  <2>1. PICK request \in Job : request = job[u]
    BY <1>2
  <2>2. Booked(u, request)'
    BY <2>1, CommitOthers
  <2> QED
    BY <1>3, <2>1, <2>2
<1>8. Booked(t, job[t])'
  BY <1>3, <1>4
<1> QED
  BY <1>5, <1>6, <1>7, <1>8 DEF BooksInv

-----------------------------------------------------------------------------
(* Requests that arrive, the clock, crashes                                *)

\* A request arrives: a session id that init draws is not in use, and the others know theirs.
LEMMA BeginBooks ==
  ASSUME IInv, BooksInv, NEW t \in Tx, Begin(t)
  PROVE  BooksInv'
<1>1. /\ job \in [Tx -> Job] /\ job[t] \in Job /\ Shape(t, job[t]) /\ Kinds(job[t]) /\ Present(job[t])
      /\ MoneyTyped
  BY BookedRequest
<1>2. ASSUME NEW next \in Job, NEW customers, Start(t, next, customers), Kinds(next), Present(next),
             next.pc \in {"lazy", "select"}, next.did = {}, next.close = "none",
             \A u \in Tx : next.opens \in Session => job[u].opens # next.opens
      PROVE  BooksInv'
  <2>1. /\ job' = [job EXCEPT ![t] = next] /\ job[t].pc = "idle"
        /\ db' = db /\ cur' = cur /\ lock' = lock /\ tally' = tally
        /\ blind' = blind /\ settled' = settled
    BY <1>2 DEF Start, At, storage, history
  <2>2. \A row \in Row : lock[row] # t
    BY <1>1, <2>1, ShapeHoldsNothing DEF Unwritten
  <2>3. /\ ~Debits(next) /\ ~Opens(next) /\ ~Submits(next) /\ ~Signs(next)
        /\ ~Issues(next) /\ ~Closes(next)
    BY <1>2 DEF Debits, Opens, Submits, Signs, Issues, Closes, Asserting
  <2>4. Holds(t, next) /\ Marks(next)
    BY <1>2, <2>2, <2>3, Rows DEF Holds, Marks
  <2>5. Change(t) = 0 /\ Due(next) = 0 /\ Touched(next) = {}
    BY <1>1, <1>2, <2>2, <2>3, NothingChanged DEF Due, Touched
  <2>6. Settles(t, next)
    BY <2>5 DEF Settles
  <2>7. View(t)' = View(t)
    BY <2>1 DEF View, Read
  <2>8. Holds(t, next)' /\ Marks(next)' /\ Present(next)'
    BY <1>2, <2>1, <2>4 DEF Holds, Marks, Present
  <2>9. Settles(t, next)'
    BY <2>1, <2>6, <2>7 DEF Settles, Change, Gap, SumBalance, InFlight, IsActive
  <2>10. Tallied(t, next)'
    BY <1>2 DEF Tallied
  <2>11. job'[t] = next /\ \A u \in Tx \ {t} : job'[u] = job[u]
    BY <1>1, <2>1
  <2>12. OwnIds'
    BY <1>2, <2>11 DEF BooksInv, OwnIds
  <2>13. MoneyTyped' /\ Audited'
    BY <2>1 DEF BooksInv, MoneyTyped, MoneyIn, Audited, Gap, SumBalance, InFlight, IsActive
  <2>14. ASSUME NEW u \in Tx \ {t} PROVE Booked(u, job[u])'
    <3>1. PICK request \in Job : request = job[u]
      BY <1>1
    <3>2. Booked(u, request)
      BY <3>1 DEF BooksInv
    <3>3. Booked(u, request)'
      BY <1>1, <2>1, <3>2, StaysBooked
    <3> QED
      BY <2>11, <3>1, <3>3
  <2>15. Booked(t, next)'
    BY <1>2, <2>8, <2>9, <2>10 DEF Booked, Shape
  <2>16. Booked(t, job[t])'
    BY <2>11, <2>15
  <2> QED
    BY <2>12, <2>13, <2>14, <2>16 DEF BooksInv
<1>3. ASSUME NEW s \in Session, BeginInit(t, s)
      PROVE  BooksInv'
  <2>1. PICK next : next = [Idle EXCEPT !.op = "init", !.pc = "lazy", !.opens = s]
    OBVIOUS
  <2>2. /\ next \in Job /\ next.op = "init" /\ next.pc = "lazy" /\ next.opens = s
        /\ next.sess = NoSession /\ next.todo = {} /\ next.close = "none" /\ next.then = "idle"
        /\ next.did = {}
    BY <2>1 DEF Idle, Job, Op, Label
  <2>3. ~(lock[SessionRow(s)] \in Tx)
    <3> SUFFICES ASSUME NEW u \in Tx, lock[SessionRow(s)] = u PROVE FALSE
      OBVIOUS
    <3> QED
      BY <1>3, HeldThere DEF BeginInit
  <2>4. db[SessionRow(s)].status = "none"
    BY <1>3, <2>3, Rows DEF BeginInit, IInv, StorageInv, StorageTyped, OneVersion
  <2>5. ~Submits(next) /\ ~Signs(next) /\ ~Closes(next)
    BY <2>2 DEF Submits, Signs, Closes
  <2>6. Kinds(next) /\ Present(next)
    BY <2>2, <2>4, <2>5, NoValueAssumption DEF Kinds, Present, Asserting
  <2>7. \A u \in Tx : job[u].opens # next.opens
    BY <1>3, <2>2 DEF BeginInit
  <2> QED
    BY <1>2, <1>3, <2>1, <2>2, <2>6, <2>7 DEF BeginInit
<1>4. ASSUME NEW s \in Session, NEW op \in {"submit", "reveal", "cancel"}, BeginOnSession(t, s, op)
      PROVE  BooksInv'
  <2>1. PICK next : next = [Idle EXCEPT !.op = op, !.pc = "select", !.sess = s]
    OBVIOUS
  <2>2. /\ next \in Job /\ next.op = op /\ next.pc = "select" /\ next.opens = NoSession
        /\ next.sess = s /\ next.todo = {} /\ next.close = "none" /\ next.then = "idle"
        /\ next.did = {}
    BY <2>1 DEF Idle, Job, Op, Label
  <2>3. ~Submits(next) /\ ~Signs(next) /\ ~Closes(next)
    BY <2>2 DEF Submits, Signs, Closes, Asserting
  <2>4. Kinds(next) /\ Present(next)
    BY <1>4, <2>2, <2>3, NoValueAssumption DEF Kinds, Present, Asserting, BeginOnSession
  <2> QED
    BY <1>2, <1>4, <2>1, <2>2, <2>4, NoValueAssumption DEF BeginOnSession
<1>5. ASSUME BeginSweep(t)
      PROVE  BooksInv'
  <2>1. PICK next : next = [Idle EXCEPT !.op = "sweep", !.pc = "select"]
    OBVIOUS
  <2>2. /\ next \in Job /\ next.op = "sweep" /\ next.pc = "select" /\ next.opens = NoSession
        /\ next.sess = NoSession /\ next.todo = {} /\ next.close = "none" /\ next.then = "idle"
        /\ next.did = {}
    BY <2>1 DEF Idle, Job, Op, Label
  <2>3. ~Submits(next) /\ ~Signs(next) /\ ~Closes(next)
    BY <2>2 DEF Submits, Signs, Closes, Asserting
  <2>4. Kinds(next) /\ Present(next)
    BY <2>2, <2>3, NoValueAssumption DEF Kinds, Present, Asserting
  <2> QED
    BY <1>2, <1>5, <2>1, <2>2, <2>4, NoValueAssumption DEF BeginSweep
<1> QED
  BY <1>3, <1>4, <1>5 DEF Begin

\* The opening books balance: the reserve holds what the customers do.
LEMMA InitBooks == DbInit => BooksInv
<1> SUFFICES ASSUME DbInit PROVE BooksInv
  OBVIOUS
<1>1. IInv
  BY InitIInv
<1>2. /\ \A s \in Session : db[SessionRow(s)] = Absent
      /\ \A u \in User : db[UserRow(u)] = Opening
      /\ db[ReserveRow] = OpeningReserve
      /\ cur = db /\ lock = [r \in Row |-> NoTx] /\ job = [t \in Tx |-> Idle]
      /\ tally = [t \in Tx |-> NoTally] /\ blind = FALSE /\ settled = [s \in Session |-> 0]
  BY Rows DEF DbInit, SessionRow, UserRow, ReserveRow
<1>3. PICK total : total = SumFunction([u \in User |-> Opening])
  OBVIOUS
<1>4. total \in Int
  <2>1. [u \in User |-> Opening] \in [User -> Int]
    BY OpeningAssumption
  <2> QED
    BY <1>3, <2>1, SumInt, FiniteAssumption
<1>5. /\ OpeningReserve = [reserve_balance |-> total, total_issued |-> 0, total_redeemed |-> 0]
      /\ OpeningReserve \in ReserveValue
  BY <1>3, <1>4 DEF OpeningReserve, NoBooks, ReserveValue
<1>6. NoTally \in Tally
  BY DEF NoTally, Tally, NoBooks, ReserveValue
<1>7. MoneyTyped
  <2>1. MoneyIn(db) /\ MoneyIn(cur)
    BY <1>2, <1>5, OpeningAssumption DEF MoneyIn
  <2>2. tally \in [Tx -> Tally] /\ settled \in [Session -> Nat]
    BY <1>2, <1>6
  <2> QED
    BY <1>2, <2>1, <2>2 DEF MoneyTyped
<1>8. Gap(db) = 0
  <2>1. SumBalance(db) = total
    <3>1. [u \in User |-> db[UserRow(u)]] = [u \in User |-> Opening]
      BY <1>2
    <3> QED
      BY <1>3, <3>1 DEF SumBalance
  <2>2. \A s \in Session : ~IsActive(db, s)
    BY <1>2 DEF IsActive, Absent, Active
  <2>3. InFlight(db) = 0
    <3>1. [s \in Session |-> IF IsActive(db, s) THEN Amount[s] ELSE 0] = [s \in Session |-> 0]
      BY <2>2
    <3>2. SumFunction([s \in Session |-> 0]) = 0
      BY SumZero, FiniteAssumption
    <3> QED
      BY <3>1, <3>2 DEF InFlight
  <2>4. Paper(db[ReserveRow]) = total
    BY <1>2, <1>4, <1>5 DEF Paper
  <2> QED
    BY <1>4, <1>7, <2>1, <2>3, <2>4, GapTyped DEF MoneyTyped
<1>9. Audited
  BY <1>2, <1>8 DEF Audited, Absent, Ended, Closed
<1>10. OwnIds
  BY <1>2, NoValueAssumption DEF OwnIds, Idle
<1>11. ASSUME NEW t \in Tx PROVE Booked(t, job[t])
  <2>1. Booked(t, Idle)
    BY <1>1, <1>2, <1>7, IdleBooked, NoValueAssumption
  <2> QED
    BY <1>2, <2>1
<1> QED
  BY <1>7, <1>9, <1>10, <1>11 DEF BooksInv

\* The server dies.
LEMMA CrashBooks ==
  ASSUME IInv, BooksInv, Crash
  PROVE  BooksInv'
<1>1. /\ cur' = db /\ db' = db /\ \A row \in Row : lock'[row] = NoTx
      /\ job' = [t \in Tx |-> Idle] /\ tally' = [t \in Tx |-> NoTally]
      /\ blind' = blind /\ settled' = settled /\ db = [r \in Row |-> db[r]]
  BY DEF Crash, RollbackAll, history, IInv, StorageInv, StorageTyped
<1>2. NoTally \in Tally
  BY DEF NoTally, Tally, NoBooks, ReserveValue
<1>3. MoneyTyped' /\ Audited'
  BY <1>1, <1>2 DEF BooksInv, MoneyTyped, MoneyIn, Audited, Gap, SumBalance, InFlight, IsActive
<1>4. OwnIds'
  BY <1>1, NoValueAssumption DEF OwnIds, Idle
<1>5. MoneyIn(db)' /\ db' = [r \in Row |-> db'[r]]
  BY <1>1, <1>3 DEF MoneyTyped
<1>6. ASSUME NEW t \in Tx PROVE Booked(t, job[t])'
  <2>1. Booked(t, Idle)'
    BY <1>1, <1>5, IdleBookedNext, NoValueAssumption
  <2> QED
    BY <1>1, <2>1
<1> QED
  BY <1>3, <1>4, <1>6 DEF BooksInv

\* Every step, however the requests overlap, keeps the books.
LEMMA NextBooks ==
  ASSUME IInv, BooksInv, [Next]_vars
  PROVE  BooksInv'
<1>1. ASSUME NEW t \in Tx, Begin(t) PROVE BooksInv'
  BY <1>1, BeginBooks
<1>2. ASSUME NEW t \in Tx, Step(t) PROVE BooksInv'
  BY <1>2, LazyBooks, InitReadsBooks, SelectsBooks, AssertBooks, DebitBooks, InsertBooks,
     MarkBooks, SignBooks, IssueBooks, RefundBooks, CloseBooks, CommitBooks
     DEF Step, Statement, AssertAndCommit
<1>3. CASE UNCHANGED <<db, cur, lock, job, tally, blind, settled>>
  <2>1. MoneyTyped' /\ Audited' /\ OwnIds'
    BY <1>3 DEF BooksInv, MoneyTyped, MoneyIn, Audited, OwnIds, Gap, SumBalance, InFlight, IsActive
  <2>2. ASSUME NEW u \in Tx PROVE Booked(u, job[u])'
    <3>1. PICK request \in Job : request = job[u]
      BY BookedRequest
    <3>2. Booked(u, request) /\ MoneyTyped
      BY <3>1 DEF BooksInv
    <3>3. Booked(u, request)'
      BY <1>3, <3>2, StaysBooked
    <3> QED
      BY <1>3, <3>1, <3>3
  <2> QED
    BY <2>1, <2>2 DEF BooksInv
<1>4. ASSUME NEW s \in Session, TtlElapses(s) PROVE BooksInv'
  BY <1>3, <1>4 DEF TtlElapses, storage, history
<1>5. CASE Crash
  BY <1>5, CrashBooks
<1>6. CASE UNCHANGED vars
  BY <1>3, <1>6 DEF vars
<1> QED
  BY <1>1, <1>2, <1>4, <1>5, <1>6 DEF Next

LEMMA BooksInvariance == Spec => [](IInv /\ BooksInv)
<1>1. DbInit => IInv /\ BooksInv
  BY InitIInv, InitBooks
<1>2. IInv /\ BooksInv /\ [Next]_vars => (IInv /\ BooksInv)'
  BY NextIInv, NextBooks
<1> QED
  BY <1>1, <1>2, PTL DEF Spec

\* Type correctness, the balances and the sums included.
THEOREM TypeOKAlways == Spec => []TypeOK
<1>1. IInv /\ BooksInv => TypeOK
  BY DEF IInv, StorageInv, RequestsInv, RequestsTyped, AimedJob, BooksInv, MoneyTyped, MoneyIn, TypeOK
<1> QED
  BY <1>1, BooksInvariance, PTL

\* However the requests overlap, the reserve equation holds of what is committed as long as no
\* transaction has committed on torn reads of assertInvariant.
THEOREM BackstopAlways == Spec => []BackstopHolds
<1>1. BooksInv => BackstopHolds
  BY GapTyped DEF BooksInv, Audited, BackstopHolds, MoneyTyped
<1> QED
  BY <1>1, BooksInvariance, PTL

\* ... and no session has been refunded or signed twice.
THEOREM SettledOnceAlways == Spec => []SettledOnce
<1>1. BooksInv => SettledOnce
  BY DEF BooksInv, Audited, SettledOnce
<1> QED
  BY <1>1, BooksInvariance, PTL

-----------------------------------------------------------------------------
(***************************************************************************)
(* Patient customers: what a request has touched is active as committed    *)
(* until it commits, so every COMMIT leaves the books balanced, whether or *)
(* not the reads of assertInvariant were torn.                             *)
(***************************************************************************)

\* A request of a patient customer has changed of the books what it should have.
LEMMA ChangesDue ==
  ASSUME IInv, BooksInv, PatientInv, NEW t \in Tx
  PROVE  Change(t) = Due(job[t])
<1>1. PICK request \in Job : request = job[t]
  BY Requests
<1>2. /\ Underway(t, request) /\ Kinds(request) /\ Found(request) /\ Apart /\ Settles(t, request)
  BY <1>1, Requests, BookedRequest
<1>3. ASSUME NEW s \in Touched(request) PROVE IsActive(db, s)
  <2>1. CASE Closes(request) /\ s \in request.did
    BY <1>2, <2>1, Refunded DEF Paid
  <2>2. CASE Signs(request) /\ s = request.sess
    BY <1>2, <2>2 DEF Found, IsActive, Active
  <2>3. CASE Submits(request) /\ s = request.sess
    BY <1>2, <2>3 DEF Found, IsActive, Active
  <2> QED
    BY <1>2, <1>3, <2>1, <2>2, <2>3 DEF Touched, Kinds
<1> QED
  BY <1>1, <1>2, <1>3 DEF Settles

\* COMMIT moves the committed books by what its request is due, that is not at all.
LEMMA NextConserves ==
  ASSUME IInv, BooksInv, PatientInv, Gap(db) = 0, [Next]_vars
  PROVE  Gap(db)' = 0
<1>1. ASSUME NEW t \in Tx, CommitTx(t) PROVE Gap(db)' = 0
  <2>1. Change(t) = 0
    <3>1. job[t].pc = "commit"
      BY <1>1 DEF CommitTx, At
    <3> QED
      BY <3>1, ChangesDue DEF Due
  <2>2. db' = View(t)
    BY <1>1, CommitFacts
  <2>3. Gap(View(t)) \in Int
    BY BookedRequest, Views
  <2>4. Gap(View(t)) = 0
    BY <2>1, <2>3 DEF Change
  <2> QED
    BY <2>2, <2>4 DEF Gap, SumBalance, InFlight, IsActive
<1>2. CASE \A t \in Tx : ~CommitTx(t)
  <2>1. db' = db
    BY <1>2, Unchanging
  <2> QED
    BY <2>1 DEF Gap, SumBalance, InFlight, IsActive
<1> QED
  BY <1>1, <1>2

LEMMA PatientBooks == ASSUME Patient PROVE Spec => [](IInv /\ PatientInv /\ BooksInv /\ Gap(db) = 0)
<1>1. DbInit => Gap(db) = 0
  BY InitBooks DEF BooksInv, Audited, DbInit
<1>2. IInv /\ BooksInv /\ PatientInv /\ Gap(db) = 0 /\ [Next]_vars => (Gap(db) = 0)'
  BY NextConserves
<1> QED
  BY <1>1, <1>2, PatientInvariance, BooksInvariance, PTL DEF Spec

\* With one request per customer at a time, the reserve equation holds of every committed state.
THEOREM ConservationPatient == ASSUME Patient PROVE Spec => []Conservation
<1>1. BooksInv /\ Gap(db) = 0 => Conservation
  BY GapTyped DEF BooksInv, MoneyTyped, Conservation
<1> QED
  BY <1>1, PatientBooks, PTL

\* ... and assertInvariant raises no alarm but on torn reads.
THEOREM NoFalseAlarmPatient == ASSUME Patient PROVE Spec => []NoFalseAlarm
<1>1. IInv /\ PatientInv /\ BooksInv /\ Gap(db) = 0 => NoFalseAlarm
  <2> SUFFICES ASSUME IInv, PatientInv, BooksInv, Gap(db) = 0, NEW t \in Tx,
                      At(t, "readInFlight"), ~BooksBalance(t), ~tally[t].torn
               PROVE  FALSE
    BY DEF NoFalseAlarm
  <2>1. Change(t) = 0
    BY ChangesDue DEF At, Due
  <2>2. Gap(View(t)) \in Int
    BY BookedRequest, Views
  <2>3. Gap(View(t)) = 0
    BY <2>1, <2>2 DEF Change
  <2> QED
    BY <2>3, ComparesWhole
<1> QED
  BY <1>1, PatientBooks, PTL
=============================================================================
