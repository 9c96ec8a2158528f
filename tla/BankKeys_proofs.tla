-------------------------- MODULE BankKeys_proofs --------------------------
(***************************************************************************)
(* However many processes boot, generate and rotate at once, and whatever  *)
(* their caches say, the row locks and the partial unique index on active  *)
(* keys keep every denomination at one committed active key at most, and   *)
(* no denomination that has a key is ever without one.  What a process     *)
(* remembers, and what a request has read, agrees with the table but where *)
(* the history variables say why not.  Five invariants, each resting on    *)
(* the ones before: IInv (the tables), KInv (who holds what), TInv (types),*)
(* BInv (boots and migrations), MInv (caches and what was read).           *)
(***************************************************************************)
EXTENDS BankKeys, FiniteSetTheorems, TLAPS

(***************************************************************************)
(* The first invariant speaks of the tables alone.  Two versions of one    *)
(* denomination are never both active as committed nor both active as      *)
(* written since; and if one is active as committed and the other as       *)
(* written since, a single transaction holds both rows.                    *)
(***************************************************************************)
KeptApart(v, w, d) ==
    /\ ~(IsActive(db, v, d) /\ IsActive(db, w, d))
    /\ ~(IsActive(cur, v, d) /\ IsActive(cur, w, d))
    /\ IsActive(db, v, d) /\ IsActive(cur, w, d) =>
          lock[KeyRow(v)] \in Tx /\ lock[KeyRow(w)] = lock[KeyRow(v)]

Apart == \A v \in Version : \A w \in Version \ {v} : \A d \in Denom : KeptApart(v, w, d)

\* A row of bank_keys has its columns.
Shaped(key) == key = [status |-> key.status, denom |-> key.denom, sealed |-> key.sealed]

TablesShaped ==
    /\ \A version \in {db, cur} :
          /\ version = [r \in Row |-> version[r]]
          /\ \A v \in Version : Shaped(version[KeyRow(v)])
    /\ lock \in [Row -> Tx \cup {NoTx}]

IInv == TablesShaped /\ OneVersion /\ Apart

\* The rows of different tables, and of different versions, differ.
LEMMA Rows ==
    /\ \A v \in Version : KeyRow(v) \in Row
    /\ \A v, w \in Version : KeyRow(v) = KeyRow(w) => v = w
    /\ \A v \in Version : KeyRow(v) # AdvisoryRow
  BY DEF Row, KeyRow, AdvisoryRow

\* What a write does to each row.
LEMMA WriteFacts ==
  ASSUME IInv, NEW t \in Tx, NEW row, NEW x, Write(t, row, x)
  PROVE  /\ db' = db
         /\ cur' = [r \in Row |-> IF r = row THEN x ELSE cur[r]]
         /\ lock' = [r \in Row |-> IF r = row THEN t ELSE lock[r]]
         /\ lock[row] \in {t, NoTx}
         /\ OneVersion'
<1>1. /\ db' = db
      /\ cur' = [r \in Row |-> IF r = row THEN x ELSE cur[r]]
      /\ lock' = [r \in Row |-> IF r = row THEN t ELSE lock[r]]
      /\ lock[row] \in {t, NoTx}
  BY DEF IInv, TablesShaped, Write, Writable
<1>2. OneVersion'
  BY <1>1, NoneAssumption DEF IInv, OneVersion
<1> QED
  BY <1>1, <1>2

\* A write outside bank_keys.
LEMMA WriteElsewhere ==
  ASSUME IInv, NEW t \in Tx, NEW row, NEW x, Write(t, row, x),
         \A v \in Version : row # KeyRow(v)
  PROVE  IInv'
<1>1. TablesShaped'
  BY WriteFacts, Rows DEF IInv, TablesShaped
<1>2. Apart'
  BY WriteFacts, Rows DEF IInv, Apart, KeptApart, IsActive
<1> QED
  BY <1>1, <1>2, WriteFacts DEF IInv

\* A key is retired: no index entry to check.
LEMMA RetireKeeps ==
  ASSUME IInv, NEW t \in Tx, Retire(t)
  PROVE  IInv'
<1> DEFINE row == KeyRow(job[t].old)
           x == [cur[row] EXCEPT !.status = "retired"]
<1>1. CASE UNCHANGED storage
  BY <1>1 DEF storage, IInv, TablesShaped, OneVersion, Apart, KeptApart, IsActive
<1>2. CASE Write(t, row, x)
  <2>1. CASE \E v \in Version : row = KeyRow(v)
    <3>1. PICK o \in Version : row = KeyRow(o)
      BY <2>1
    <3>2. Shaped(cur[KeyRow(o)])
      BY DEF IInv, TablesShaped
    <3>3. x = [status |-> "retired", denom |-> cur[row].denom, sealed |-> cur[row].sealed]
      BY <3>1, <3>2 DEF Shaped
    <3>4. TablesShaped'
      BY <1>2, <3>1, <3>3, WriteFacts, Rows DEF IInv, TablesShaped, Shaped
    <3>5. ASSUME NEW v \in Version, NEW w \in Version \ {v}, NEW d \in Denom
          PROVE  KeptApart(v, w, d)'
      <4>1. KeptApart(v, w, d)
        BY DEF IInv, Apart
      <4>2. ~IsActive(cur, o, d)'
        BY <1>2, <3>1, <3>3, WriteFacts, Rows DEF IsActive
      <4>3. \A u \in Version \ {o} : /\ cur'[KeyRow(u)] = cur[KeyRow(u)]
                                    /\ lock'[KeyRow(u)] = lock[KeyRow(u)]
        BY <1>2, <3>1, WriteFacts, Rows
      <4>4. lock'[KeyRow(o)] = t /\ lock[KeyRow(o)] \in {t, NoTx}
        BY <1>2, <3>1, WriteFacts, Rows
      <4>5. db' = db
        BY <1>2, WriteFacts
      <4> QED
        BY <4>1, <4>2, <4>3, <4>4, <4>5, NoneAssumption DEF KeptApart, IsActive
    <3> QED
      BY <1>2, <3>4, <3>5, WriteFacts DEF IInv, Apart
  <2>2. CASE \A v \in Version : row # KeyRow(v)
    BY <1>2, <2>2, WriteElsewhere
  <2> QED
    BY <2>1, <2>2
<1> QED
  BY <1>1, <1>2 DEF Retire, Update, GoOn

\* The INSERT of a new active key, past the unique indexes.
LEMMA InsertKeeps ==
  ASSUME IInv, NEW t \in Tx, Insert(t), ~Throw(t)
  PROVE  IInv'
<1> DEFINE n == job[t].fresh
           e == job[t].denom
           x == [status |-> "active", denom |-> e, sealed |-> TRUE]
<1>1. n \in Version /\ ~MustWait(t) /\ ~Collides(t) /\ Write(t, KeyRow(n), x)
  BY DEF Insert, Update
<1>2. TablesShaped'
  BY <1>1, WriteFacts, Rows DEF IInv, TablesShaped, Shaped
<1>3. \A u \in Version : ~IsActive(cur, u, e)
  BY <1>1 DEF Collides
<1>4. ASSUME NEW u \in Version, IsActive(db, u, e) PROVE lock[KeyRow(u)] = t
  <2>1. CASE lock[KeyRow(u)] = NoTx
    BY <1>3, <1>4, <2>1, Rows DEF IInv, OneVersion, IsActive
  <2>2. CASE lock[KeyRow(u)] \notin {t, NoTx}
    BY <1>1, <1>4, <2>2 DEF MustWait, Rival, Writable
  <2> QED
    BY <2>1, <2>2
<1>5. ASSUME NEW v \in Version, NEW w \in Version \ {v}, NEW d \in Denom
      PROVE  KeptApart(v, w, d)'
  <2>1. KeptApart(v, w, d)
    BY DEF IInv, Apart
  <2>2. cur'[KeyRow(n)] = x /\ x.status = "active" /\ x.denom = e
    BY <1>1, WriteFacts, Rows
  <2>3. \A u \in Version \ {n} : /\ cur'[KeyRow(u)] = cur[KeyRow(u)]
                                /\ lock'[KeyRow(u)] = lock[KeyRow(u)]
    BY <1>1, WriteFacts, Rows
  <2>4. lock'[KeyRow(n)] = t /\ lock[KeyRow(n)] \in {t, NoTx}
    BY <1>1, WriteFacts, Rows
  <2>5. db' = db
    BY <1>1, WriteFacts
  <2>6. CASE d = e
    <3>1. \A u \in Version : ~IsActive(cur, u, d) /\ (IsActive(db, u, d) => lock[KeyRow(u)] = t)
      BY <1>3, <1>4, <2>6
    <3>2. \A u \in Version : IsActive(cur, u, d)' => u = n
      BY <2>3, <3>1 DEF IsActive
    <3>3. \A u \in Version : IsActive(db, u, d)' => lock'[KeyRow(u)] = t
      BY <2>3, <2>4, <2>5, <3>1 DEF IsActive
    <3> QED
      BY <2>1, <2>4, <2>5, <3>2, <3>3 DEF KeptApart, IsActive
  <2>7. CASE d # e
    <3>1. ~IsActive(cur', n, d)
      BY <2>2, <2>7 DEF IsActive
    <3>2. CASE v = n
      BY <2>1, <2>3, <2>4, <2>5, <3>1, <3>2, NoneAssumption DEF KeptApart, IsActive
    <3>3. CASE w = n
      BY <2>1, <2>3, <2>4, <2>5, <3>1, <3>3, NoneAssumption DEF KeptApart, IsActive
    <3>4. CASE v # n /\ w # n
      BY <2>1, <2>3, <2>5, <3>4 DEF KeptApart, IsActive
    <3> QED
      BY <3>2, <3>3, <3>4
  <2> QED
    BY <2>6, <2>7
<1> QED
  BY <1>1, <1>2, <1>5, WriteFacts DEF IInv, Apart

\* The private key of a row becomes ciphertext: status and denomination stay.
LEMMA SealFields ==
  ASSUME IInv, NEW t \in Tx, Seal(t)
  PROVE  /\ lock' = lock
         /\ db' = [db EXCEPT ![KeyRow(job[t].got)].sealed = TRUE]
         /\ cur' = [cur EXCEPT ![KeyRow(job[t].got)].sealed = TRUE]
         /\ \A v \in Version : /\ Shaped(db'[KeyRow(v)]) /\ Shaped(cur'[KeyRow(v)])
                                /\ db'[KeyRow(v)].status = db[KeyRow(v)].status
                                /\ db'[KeyRow(v)].denom = db[KeyRow(v)].denom
                                /\ cur'[KeyRow(v)].status = cur[KeyRow(v)].status
                                /\ cur'[KeyRow(v)].denom = cur[KeyRow(v)].denom
<1> DEFINE row == KeyRow(job[t].got)
<1>1. /\ db' = [db EXCEPT ![row].sealed = TRUE]
      /\ cur' = [cur EXCEPT ![row].sealed = TRUE]
      /\ lock' = lock
  BY DEF Seal
<1>2. ASSUME NEW v \in Version
      PROVE  /\ Shaped(db'[KeyRow(v)]) /\ Shaped(cur'[KeyRow(v)])
             /\ db'[KeyRow(v)].status = db[KeyRow(v)].status
             /\ db'[KeyRow(v)].denom = db[KeyRow(v)].denom
             /\ cur'[KeyRow(v)].status = cur[KeyRow(v)].status
             /\ cur'[KeyRow(v)].denom = cur[KeyRow(v)].denom
  <2>1. Shaped(db[KeyRow(v)]) /\ Shaped(cur[KeyRow(v)]) /\ KeyRow(v) \in Row
        /\ db = [r \in Row |-> db[r]] /\ cur = [r \in Row |-> cur[r]]
    BY Rows DEF IInv, TablesShaped
  <2>2. CASE KeyRow(v) = row
    <3>1. /\ db'[KeyRow(v)] = [db[KeyRow(v)] EXCEPT !.sealed = TRUE]
          /\ cur'[KeyRow(v)] = [cur[KeyRow(v)] EXCEPT !.sealed = TRUE]
      BY <1>1, <2>1, <2>2
    <3>2. /\ db'[KeyRow(v)] = [status |-> db[KeyRow(v)].status, denom |-> db[KeyRow(v)].denom, sealed |-> TRUE]
          /\ cur'[KeyRow(v)] = [status |-> cur[KeyRow(v)].status, denom |-> cur[KeyRow(v)].denom, sealed |-> TRUE]
      BY <2>1, <3>1 DEF Shaped
    <3> QED
      BY <3>2 DEF Shaped
  <2>3. CASE KeyRow(v) # row
    <3>1. db'[KeyRow(v)] = db[KeyRow(v)] /\ cur'[KeyRow(v)] = cur[KeyRow(v)]
      BY <1>1, <2>1, <2>3
    <3> QED
      BY <2>1, <3>1
  <2> QED
    BY <2>2, <2>3
<1> QED
  BY <1>1, <1>2

LEMMA SealKeeps ==
  ASSUME IInv, NEW t \in Tx, Seal(t)
  PROVE  IInv'
<1> DEFINE row == KeyRow(job[t].got)
<1>1. /\ db' = [db EXCEPT ![row].sealed = TRUE]
      /\ cur' = [cur EXCEPT ![row].sealed = TRUE]
      /\ lock' = lock
  BY SealFields
<1>2. \A v \in Version : /\ Shaped(db'[KeyRow(v)]) /\ Shaped(cur'[KeyRow(v)])
                          /\ db'[KeyRow(v)].status = db[KeyRow(v)].status
                          /\ db'[KeyRow(v)].denom = db[KeyRow(v)].denom
                          /\ cur'[KeyRow(v)].status = cur[KeyRow(v)].status
                          /\ cur'[KeyRow(v)].denom = cur[KeyRow(v)].denom
  BY SealFields
<1>3. TablesShaped'
  BY <1>1, <1>2 DEF IInv, TablesShaped
<1>4. OneVersion'
  BY <1>1 DEF IInv, TablesShaped, OneVersion
<1>5. Apart'
  BY <1>1, <1>2 DEF IInv, Apart, KeptApart, IsActive
<1> QED
  BY <1>3, <1>4, <1>5 DEF IInv

\* The transactions of S are rolled back.
LEMMA RollbackKeeps ==
  ASSUME IInv, NEW S \in SUBSET Tx, db' = db,
         cur' = [r \in Row |-> IF lock[r] \in S THEN db[r] ELSE cur[r]],
         lock' = [r \in Row |-> IF lock[r] \in S THEN NoTx ELSE lock[r]]
  PROVE  IInv'
<1>1. TablesShaped'
  BY Rows DEF IInv, TablesShaped
<1>2. OneVersion'
  BY NoneAssumption DEF IInv, OneVersion
<1>3. ASSUME NEW v \in Version, NEW w \in Version \ {v}, NEW d \in Denom
      PROVE  KeptApart(v, w, d)'
  <2>1. KeptApart(v, w, d) /\ KeptApart(w, v, d)
    BY DEF IInv, Apart
  <2> QED
    BY <2>1, Rows DEF KeptApart, IsActive
<1> QED
  BY <1>1, <1>2, <1>3 DEF IInv, Apart

\* Versions kept apart as written are kept apart once committed.
LEMMA CommitKeeps ==
  ASSUME IInv, NEW t \in Tx, Commit(t)
  PROVE  IInv'
<1>1. /\ cur' = cur
      /\ db' = [r \in Row |-> IF lock[r] = t THEN cur[r] ELSE db[r]]
      /\ lock' = [r \in Row |-> IF lock[r] = t THEN NoTx ELSE lock[r]]
  BY DEF Commit, Release, Read
<1>2. TablesShaped'
  BY <1>1, Rows DEF IInv, TablesShaped
<1>3. OneVersion'
  BY <1>1, NoneAssumption DEF IInv, OneVersion
<1>4. ASSUME NEW v \in Version, NEW w \in Version \ {v}, NEW d \in Denom
      PROVE  KeptApart(v, w, d)'
  <2>1. KeptApart(v, w, d) /\ KeptApart(w, v, d)
    BY DEF IInv, Apart
  <2> QED
    BY <1>1, <2>1, Rows DEF KeptApart, IsActive
<1> QED
  BY <1>2, <1>3, <1>4 DEF IInv, Apart

\* Tables a step leaves alone.
LEMMA SameKeeps ==
  ASSUME IInv, UNCHANGED storage
  PROVE  IInv'
  BY DEF storage, IInv, TablesShaped, OneVersion, Apart, KeptApart, IsActive

\* Every step preserves the invariant.
LEMMA NextIInv == IInv /\ [Next]_vars => IInv'
<1> SUFFICES ASSUME IInv, [Next]_vars PROVE IInv'
  OBVIOUS
<1>1. ASSUME NEW t \in Tx, Throw(t) PROVE IInv'
  <2>1. /\ cur' = [r \in Row |-> IF lock[r] \in {t} THEN db[r] ELSE cur[r]]
        /\ lock' = [r \in Row |-> IF lock[r] \in {t} THEN NoTx ELSE lock[r]]
        /\ db' = db
    BY <1>1 DEF Throw, Rollback, Release
  <2> QED
    BY <2>1, RollbackKeeps
<1>2. ASSUME NEW t \in Tx, Begin(t) PROVE IInv'
  BY <1>2, SameKeeps DEF Begin, Boot, BeginKey, BeginRotate, BeginCheck, BeginSign, Start, GoOn, storage
<1>3. ASSUME NEW t \in Tx, Step(t) PROVE IInv'
  <2>1. CASE Record(t)
    <3>1. \A m : \A v \in Version : MigrationRow(m) # KeyRow(v)
      BY DEF MigrationRow, KeyRow
    <3> QED
      BY <1>1, <2>1, <3>1, WriteElsewhere DEF Record, Update
  <2>2. CASE Advisory(t)
    BY <2>2, Rows, WriteElsewhere DEF Advisory, Update
  <2>3. CASE Insert(t)
    BY <1>1, <2>3, InsertKeeps
  <2>4. CASE Retire(t)
    BY <2>4, RetireKeeps
  <2>5. CASE Seal(t)
    BY <2>5, SealKeeps
  <2>6. CASE CommitTx(t)
    BY <2>6, CommitKeeps DEF CommitTx
  <2>7. CASE BaselineSelect(t) \/ AppliedSelect(t) \/ Get(t) \/ Keep(t) \/ MaxSelect(t)
    BY <2>7, SameKeeps DEF BaselineSelect, AppliedSelect, Get, Keep, MaxSelect, GoOn, Obtained
  <2>8. CASE Forget(t) \/ LogRotation(t) \/ Look(t) \/ Remember(t) \/ Answer(t)
    BY <1>1, <2>8, SameKeeps DEF Forget, LogRotation, Look, Remember, Answer, GoOn
  <2> QED
    BY <1>3, <2>1, <2>2, <2>3, <2>4, <2>5, <2>6, <2>7, <2>8 DEF Step
<1>4. ASSUME NEW v \in Version, GracePasses(v) PROVE IInv'
  BY <1>4, SameKeeps DEF GracePasses
<1>5. ASSUME NEW p \in Process, Crash(p) PROVE IInv'
  BY <1>5, RollbackKeeps DEF Crash
<1>6. CASE UNCHANGED vars
  BY <1>6, SameKeeps DEF vars, storage
<1> QED
  BY <1>2, <1>3, <1>4, <1>5, <1>6 DEF Next

\* A database with one key, or none.
LEMMA InitIInv == KeyDbInit => IInv
<1> SUFFICES ASSUME KeyDbInit PROVE IInv
  OBVIOUS
<1>1. PICK legacy \in BOOLEAN :
         db = [r \in Row |->
                 IF r = KeyRow(1) /\ legacy
                   THEN [status |-> "active", denom |-> BootDenom, sealed |-> FALSE]
                 ELSE IF r[1] = "key" THEN NoKey
                 ELSE FALSE]
  BY DEF KeyDbInit
<1>2. ASSUME NEW v \in Version
      PROVE  /\ Shaped(db[KeyRow(v)])
             /\ db[KeyRow(v)].status = "active" => v = 1
  <2>1. KeyRow(v) \in Row /\ KeyRow(v)[1] = "key" /\ (KeyRow(v) = KeyRow(1) => v = 1)
    BY Rows DEF KeyRow
  <2>2. db[KeyRow(v)] = NoKey \/ (v = 1 /\ db[KeyRow(v)] = [status |-> "active", denom |-> BootDenom, sealed |-> FALSE])
    BY <1>1, <2>1
  <2> QED
    BY <2>2 DEF Shaped, NoKey
<1>3. cur = db /\ lock = [r \in Row |-> NoTx] /\ db = [r \in Row |-> db[r]]
  BY <1>1 DEF KeyDbInit
<1>4. TablesShaped /\ OneVersion
  BY <1>2, <1>3 DEF TablesShaped, OneVersion
<1>5. Apart
  BY <1>2, <1>3 DEF Apart, KeptApart, IsActive
<1> QED
  BY <1>4, <1>5 DEF IInv

\* At most one active key per denomination is committed, whoever rotates, boots or dies.
THEOREM OneActiveKey == Spec => []OneActive
<1>1. IInv => OneActive
  BY DEF IInv, Apart, KeptApart, OneActive
<1> QED
  BY <1>1, InitIInv, NextIInv, PTL DEF Spec

-----------------------------------------------------------------------------
(***************************************************************************)
(* No denomination loses its key.  A rotation retires a version of its own *)
(* denomination, whatever the caches say: versions never change their      *)
(* denomination, and a cache holds under a denomination only versions of   *)
(* it.  It commits only after its INSERT, when it holds both rows.         *)
(***************************************************************************)
IsOf(v, d) == v \in Version /\ db[KeyRow(v)].status # "none" /\ db[KeyRow(v)].denom = d

\* A version's denomination is fixed.
VersionsInv ==
    \A v \in Version :
        /\ db[KeyRow(v)].status # "none" => /\ cur[KeyRow(v)].status # "none"
                                           /\ cur[KeyRow(v)].denom = db[KeyRow(v)].denom
        /\ cur[KeyRow(v)].status # "none" => cur[KeyRow(v)].denom \in Denom

CachesInv ==
    /\ activeCache = [p \in Process |-> [d \in Denom |-> activeCache[p][d]]]
    /\ \A p \in Process, d \in Denom : activeCache[p][d] # 0 => IsOf(activeCache[p][d], d)

FieldNames == {"op", "pc", "home", "denom", "todo", "version", "got", "old", "fresh", "read",
               "signed", "named", "overtaken"}
Fields(r) == DOMAIN r = FieldNames /\ r = [f \in FieldNames |-> r[f]]

\* Who asks for what, and what the labels tell of it.
Aims(r) ==
    /\ Fields(r)
    /\ r.op = "none" => r.pc = "idle"
    /\ r.op = "check" => r.pc \in {"look", "seal", "remember", "answer"}
    /\ r.pc \in {"look", "remember"} => r.op = "check"
    /\ r.pc = "idle" => r.op = "none"
    /\ r.op \notin {"none", "check"} => r.home \in Process /\ r.denom \in Denom
    /\ r.todo # {} => r.pc \in {"record", "commit"}
    /\ r.pc = "record" => r.todo # {}

\* What a request knows of versions.
Knows(r) ==
    /\ r.pc \in {"seal", "keep"} /\ r.op # "check" => IsOf(r.got, r.denom)
    /\ r.pc = "retire" => IsOf(r.old, r.denom)

\* The rows of bank_keys a request holds.
HoldsKeys(t, r) ==
    /\ r.pc = "commit" /\ r.todo = {} =>
          r.fresh \in Version /\ lock[KeyRow(r.fresh)] = t /\ IsActive(cur, r.fresh, r.denom)
    /\ \A v \in Version : lock[KeyRow(v)] = t =>
          /\ r.pc \in {"max", "insert", "commit"} /\ r.todo = {}
          /\ db[KeyRow(v)].status # "none" => db[KeyRow(v)].denom = r.denom

RInv(t, r) == Aims(r) /\ Knows(r) /\ HoldsKeys(t, r)

KInv == /\ VersionsInv /\ CachesInv
        /\ job = [t \in Tx |-> job[t]]
        /\ \A t \in Tx : RInv(t, job[t])

-----------------------------------------------------------------------------
\* What a request keeps when some of its other fields are set.
Like(n, r) == Fields(n) /\ n.op = r.op /\ n.home = r.home /\ n.denom = r.denom

-----------------------------------------------------------------------------
(* Steps and what they keep                                                *)

SameFields(version, next, v) ==
    /\ next[KeyRow(v)].status = version[KeyRow(v)].status
    /\ next[KeyRow(v)].denom = version[KeyRow(v)].denom

\* A version that is there stays, and stays of its denomination.
VersionsStay == \A v, d : IsOf(v, d) => IsOf(v, d)'

\* What another request holds is left to it.
LeftTo(u) ==
    \A v \in Version :
        /\ lock'[KeyRow(v)] = u <=> lock[KeyRow(v)] = u
        /\ lock[KeyRow(v)] = u => SameFields(db, db', v) /\ SameFields(cur, cur', v)

LEMMA OthersKnow ==
  ASSUME NEW u \in Tx, RInv(u, job[u]), VersionsStay, LeftTo(u),
         job'[u] \in {job[u], [job[u] EXCEPT !.overtaken = TRUE]}
  PROVE  RInv(u, job[u])'
<1>1. Like(job'[u], job[u]) /\ job'[u].pc = job[u].pc /\ job'[u].todo = job[u].todo
      /\ job'[u].got = job[u].got /\ job'[u].old = job[u].old /\ job'[u].fresh = job[u].fresh
  <2>1. Fields(job[u])
    BY DEF RInv, Aims
  <2>2. CASE job'[u] = job[u]
    BY <2>1, <2>2 DEF Like
  <2>3. CASE job'[u] = [job[u] EXCEPT !.overtaken = TRUE]
    BY <2>1, <2>3 DEF Like, Fields, FieldNames
  <2> QED
    BY <2>2, <2>3
<1>2. Aims(job[u])'
  BY <1>1 DEF RInv, Aims, Like
<1>3. Knows(job[u])'
  BY <1>1 DEF RInv, Knows, Like, VersionsStay
<1>4. HoldsKeys(u, job[u])'
  BY <1>1 DEF RInv, HoldsKeys, Like, LeftTo, SameFields, IsActive
<1> QED
  BY <1>2, <1>3, <1>4 DEF RInv

\* A step of request t.
LEMMA OneMoves ==
  ASSUME KInv, NEW t \in Tx, job' = [u \in Tx |-> job'[u]],
         \A u \in Tx \ {t} : job'[u] \in {job[u], [job[u] EXCEPT !.overtaken = TRUE]},
         VersionsInv', CachesInv', VersionsStay, \A u \in Tx \ {t} : LeftTo(u),
         RInv(t, job[t])'
  PROVE  KInv'
<1>1. \A u \in Tx \ {t} : RInv(u, job[u])'
  BY OthersKnow DEF KInv
<1> QED
  BY <1>1 DEF KInv

\* Rows of bank_keys keep status, denomination and holder.
KeysStay == \A v \in Version : /\ SameFields(db, db', v) /\ SameFields(cur, cur', v)
                               /\ lock'[KeyRow(v)] = lock[KeyRow(v)]

\* A step that writes nothing of the kind.
LEMMA ElsewhereMoves ==
  ASSUME KInv, NEW t \in Tx, NEW next, job' = [job EXCEPT ![t] = next], KeysStay,
         Aims(next), Knows(next), HoldsKeys(t, next), CachesInv'
  PROVE  KInv'
<1>1. job'[t] = next /\ \A u \in Tx \ {t} : job'[u] = job[u]
  BY DEF KInv
<1>2. job' = [u \in Tx |-> job'[u]]
  BY DEF KInv
<1>3. VersionsInv' /\ VersionsStay
  BY DEF KInv, VersionsInv, KeysStay, SameFields, VersionsStay, IsOf
<1>4. \A u \in Tx : LeftTo(u)
  BY DEF KeysStay, LeftTo
<1>5. Aims(job[t])'
  BY <1>1 DEF Aims, Fields
<1>6. Knows(job[t])'
  BY <1>1, <1>3 DEF Knows, VersionsStay
<1>7. HoldsKeys(t, job[t])'
  BY <1>1 DEF HoldsKeys, KeysStay, SameFields, IsActive
<1> QED
  BY <1>1, <1>2, <1>3, <1>4, <1>5, <1>6, <1>7, OneMoves DEF RInv

\* Caches that were not touched.
LEMMA CachesStay ==
  ASSUME KInv, KeysStay, activeCache' = activeCache
  PROVE  CachesInv'
  BY DEF KInv, CachesInv, KeysStay, SameFields, IsOf

\* A handler that goes on with no row of bank_keys in hand, or as it is.
LEMMA GoesOn ==
  ASSUME KInv, NEW t \in Tx, NEW next, GoOn(t, next), Aims(next), Knows(next),
         HoldsKeys(t, next)
  PROVE  KInv'
<1>1. KeysStay /\ job' = [job EXCEPT ![t] = next] /\ activeCache' = activeCache
  BY DEF GoOn, storage, memory, KeysStay, SameFields
<1> QED
  BY <1>1, ElsewhereMoves, CachesStay

\* A request at another label than these three holds no row.
LEMMA EmptyHanded ==
  ASSUME KInv, NEW t \in Tx, job[t].pc \notin {"max", "insert", "commit"} \/ job[t].todo # {}
  PROVE  \A v \in Version : lock[KeyRow(v)] # t
  BY DEF KInv, RInv, HoldsKeys

LEMMA HoldsNothing ==
  ASSUME NEW t, NEW next, \A v \in Version : lock[KeyRow(v)] # t, next.pc # "commit" \/ next.todo # {}
  PROVE  HoldsKeys(t, next)
  BY DEF HoldsKeys

\* A request that is over holds nothing and knows nothing.
LEMMA IdleAims == Aims(Idle) /\ Knows(Idle) /\ Idle.pc = "idle"
  BY DEF Idle, Aims, Fields, FieldNames, Knows

-----------------------------------------------------------------------------
(* Every step                                                              *)

\* A request at a label that only requests about one denomination reach.
LEMMA Purpose ==
  ASSUME KInv, NEW t \in Tx, job[t].pc \notin {"idle", "look", "seal", "remember", "answer"}
  PROVE  job[t].op \notin {"none", "check"} /\ job[t].home \in Process /\ job[t].denom \in Denom
  BY DEF KInv, RInv, Aims

\* What the caller of getOrGenerate goes on as.
LEMMA ContinueAims ==
  ASSUME NEW r, Aims(r), r.op \notin {"none", "check"}, r.todo = {}, NEW v, IsOf(v, r.denom),
         NEW next, next = Continue(r, v)
  PROVE  Aims(next) /\ Knows(next) /\ next.pc # "commit"
<1>1. ASSUME NEW n, Like(n, r), n.todo = {}, n.pc \in {"retire", "answer", "name"},
             n.pc = "retire" => IsOf(n.old, n.denom)
      PROVE  Aims(n) /\ Knows(n) /\ n.pc # "commit"
  BY <1>1 DEF Aims, Knows, Like
<1>2. CASE next = [r EXCEPT !.pc = "retire", !.old = v]
  <2>1. Like(next, r) /\ next.pc = "retire" /\ next.old = v /\ next.todo = r.todo
    BY <1>2 DEF Aims, Like, Fields, FieldNames
  <2> QED
    BY <1>1, <2>1 DEF Like
<1>3. CASE next = [r EXCEPT !.pc = "answer", !.named = v] \/ next = [r EXCEPT !.pc = "name", !.signed = v]
  <2>1. Like(next, r) /\ next.pc \in {"answer", "name"} /\ next.todo = r.todo
    BY <1>3 DEF Aims, Like, Fields, FieldNames
  <2> QED
    BY <1>1, <2>1
<1>4. CASE next = Idle
  BY <1>4, IdleAims
<1> QED
  BY <1>2, <1>3, <1>4 DEF Continue

\* Requests arrive.
LEMMA BeginMoves ==
  ASSUME KInv, NEW t \in Tx, Begin(t)
  PROVE  KInv'
<1>1. ASSUME NEW next, job[t].pc = "idle", job' = [job EXCEPT ![t] = next], UNCHANGED storage,
             activeCache' = activeCache, Aims(next), next.pc \in {"get", "look", "baseline"}
      PROVE  KInv'
  <2>1. KeysStay
    BY <1>1 DEF storage, KeysStay, SameFields
  <2>2. Knows(next)
    BY <1>1 DEF Knows
  <2>3. HoldsKeys(t, next)
    BY <1>1, EmptyHanded, HoldsNothing
  <2> QED
    BY <1>1, <2>1, <2>2, <2>3, ElsewhereMoves, CachesStay
<1>2. ASSUME NEW request, Start(t, request), Fields(request), request.op # "none", request.todo = {},
             \/ request.op = "check" /\ request.pc = "look"
             \/ request.op # "check" /\ request.pc = "get" /\ request.denom \in Denom
      PROVE  KInv'
  <2>1. PICK p \in Process : GoOn(t, [request EXCEPT !.home = p])
    BY <1>2 DEF Start
  <2> DEFINE next == [request EXCEPT !.home = p]
  <2>2. /\ Fields(next) /\ next.op = request.op /\ next.pc = request.pc /\ next.home = p
        /\ next.denom = request.denom /\ next.todo = {}
    BY <1>2 DEF Fields, FieldNames
  <2> HIDE DEF next
  <2>3. Aims(next)
    BY <1>2, <2>2 DEF Aims
  <2>4. job[t].pc = "idle"
    BY <1>2 DEF Start, At
  <2>5. job' = [job EXCEPT ![t] = next] /\ UNCHANGED storage /\ activeCache' = activeCache
    BY <2>1 DEF GoOn, memory, next
  <2> QED
    BY <1>1, <1>2, <2>2, <2>3, <2>4, <2>5
<1>3. ASSUME NEW d \in Denom, BeginKey(t, d) PROVE KInv'
  <2> DEFINE request == [Idle EXCEPT !.op = "key", !.pc = "get", !.denom = d]
  <2>1. /\ Fields(request) /\ request.op = "key" /\ request.pc = "get" /\ request.denom = d
        /\ request.todo = {}
    BY DEF Idle, Fields, FieldNames
  <2>2. Start(t, request)
    BY <1>3 DEF BeginKey
  <2> HIDE DEF request
  <2> QED
    BY <1>2, <2>1, <2>2
<1>4. ASSUME NEW d \in Denom, BeginRotate(t, d) PROVE KInv'
  <2> DEFINE request == [Idle EXCEPT !.op = "rotate", !.pc = "get", !.denom = d]
  <2>1. /\ Fields(request) /\ request.op = "rotate" /\ request.pc = "get" /\ request.denom = d
        /\ request.todo = {}
    BY DEF Idle, Fields, FieldNames
  <2>2. Start(t, request)
    BY <1>4 DEF BeginRotate
  <2> HIDE DEF request
  <2> QED
    BY <1>2, <2>1, <2>2
<1>5. ASSUME NEW v \in Version, BeginCheck(t, v) PROVE KInv'
  <2> DEFINE request == [Idle EXCEPT !.op = "check", !.pc = "look", !.version = v]
  <2>1. Fields(request) /\ request.op = "check" /\ request.pc = "look" /\ request.todo = {}
    BY DEF Idle, Fields, FieldNames
  <2>2. Start(t, request)
    BY <1>5 DEF BeginCheck
  <2> HIDE DEF request
  <2> QED
    BY <1>2, <2>1, <2>2
<1>6. ASSUME NEW v \in Version, BeginSign(t, v) PROVE KInv'
  <2> DEFINE d == db[KeyRow(v)].denom
             request == [Idle EXCEPT !.op = "sign", !.pc = "get", !.version = v, !.denom = d]
  <2>1. d \in Denom
    BY <1>6 DEF BeginSign, KInv, VersionsInv
  <2> HIDE DEF d
  <2>2. /\ Fields(request) /\ request.op = "sign" /\ request.pc = "get" /\ request.denom = d
        /\ request.todo = {}
    BY DEF Idle, Fields, FieldNames
  <2>3. Start(t, request)
    BY <1>6 DEF BeginSign, d
  <2> HIDE DEF request
  <2> QED
    BY <1>2, <2>1, <2>2, <2>3
<1>7. ASSUME NEW p \in Process, Boot(t, p) PROVE KInv'
  <2> DEFINE next == [Idle EXCEPT !.op = "boot", !.pc = "baseline", !.home = p, !.denom = BootDenom]
  <2>1. /\ Fields(next) /\ next.op = "boot" /\ next.pc = "baseline" /\ next.home = p
        /\ next.denom = BootDenom /\ next.todo = {}
    BY DEF Idle, Fields, FieldNames
  <2>2. /\ job[t].pc = "idle" /\ job' = [job EXCEPT ![t] = next] /\ UNCHANGED storage
        /\ activeCache' = activeCache
    BY <1>7 DEF Boot, At
  <2> HIDE DEF next
  <2>3. Aims(next)
    BY <2>1, DenomAssumption DEF Aims
  <2> QED
    BY <1>1, <2>1, <2>2, <2>3
<1> QED
  BY <1>3, <1>4, <1>5, <1>6, <1>7 DEF Begin

\* A write outside bank_keys.
LEMMA WritesElsewhere ==
  ASSUME IInv, NEW t \in Tx, NEW row, NEW x, Write(t, row, x),
         \A v \in Version : row # KeyRow(v)
  PROVE  KeysStay
<1>1. /\ db' = db
      /\ cur' = [r \in Row |-> IF r = row THEN x ELSE cur[r]]
      /\ lock' = [r \in Row |-> IF r = row THEN t ELSE lock[r]]
  BY WriteFacts
<1> QED
  BY <1>1, Rows DEF KeysStay, SameFields

\* The statements of a boot before getOrGenerate.
LEMMA BootMoves ==
  ASSUME KInv, IInv, NEW t \in Tx, BaselineSelect(t) \/ AppliedSelect(t) \/ Record(t), ~Throw(t)
  PROVE  KInv'
<1>1. Fields(job[t]) /\ Aims(job[t])
  BY DEF KInv, RInv, Aims
<1>2. job[t].pc \in {"baseline", "applied", "record"}
  BY DEF BaselineSelect, AppliedSelect, Record, At
<1>3. job[t].op \notin {"none", "check"} /\ job[t].home \in Process /\ job[t].denom \in Denom
  BY <1>2, Purpose
<1>4. \A v \in Version : lock[KeyRow(v)] # t
  BY <1>2, EmptyHanded
<1>5. ASSUME NEW next, Like(next, job[t]), next.pc \in {"applied", "get", "record", "commit"},
             next.todo # {} <=> next.pc \in {"record", "commit"}
      PROVE  Aims(next) /\ Knows(next) /\ HoldsKeys(t, next)
  <2>1. Aims(next)
    BY <1>3, <1>5 DEF Aims, Like
  <2>2. Knows(next)
    BY <1>5 DEF Knows
  <2> QED
    BY <1>4, <1>5, <2>1, <2>2, HoldsNothing
<1>6. CASE BaselineSelect(t)
  <2>1. ASSUME GoOn(t, [job[t] EXCEPT !.pc = "applied"]) PROVE KInv'
    <3> DEFINE next == [job[t] EXCEPT !.pc = "applied"]
    <3>1. Like(next, job[t]) /\ next.pc = "applied" /\ next.todo = {}
      BY <1>1, <1>6 DEF Aims, BaselineSelect, At, Like, Fields, FieldNames
    <3> HIDE DEF next
    <3> QED
      BY <1>5, <2>1, <3>1, GoesOn DEF next
  <2>2. ASSUME GoOn(t, [job[t] EXCEPT !.pc = "record", !.todo = {1}]) PROVE KInv'
    <3> DEFINE next == [job[t] EXCEPT !.pc = "record", !.todo = {1}]
    <3>1. Like(next, job[t]) /\ next.pc = "record" /\ next.todo # {}
      BY <1>1 DEF Like, Fields, FieldNames
    <3> HIDE DEF next
    <3> QED
      BY <1>5, <2>2, <3>1, GoesOn DEF next
  <2> QED
    BY <1>6, <2>1, <2>2 DEF BaselineSelect
<1>7. CASE AppliedSelect(t)
  <2> DEFINE left == {m \in Migration : ~db[MigrationRow(m)]}
             label == IF left = {} THEN "get" ELSE "record"
             next == [job[t] EXCEPT !.pc = label, !.todo = left]
  <2>1. GoOn(t, next)
    BY <1>7 DEF AppliedSelect
  <2>2. (label = "get" /\ left = {}) \/ (label = "record" /\ left # {})
    OBVIOUS
  <2> HIDE DEF left, label
  <2>3. Like(next, job[t]) /\ next.pc = label /\ next.todo = left
    BY <1>1 DEF Like, Fields, FieldNames
  <2> HIDE DEF next
  <2> QED
    BY <1>5, <2>1, <2>2, <2>3, GoesOn
<1>8. CASE Record(t)
  <2> DEFINE next == [job[t] EXCEPT !.pc = "commit"]
             row == MigrationRow(Min(job[t].todo))
  <2>1. Update(t, row, TRUE, next) /\ job[t].todo # {}
    BY <1>1, <1>8 DEF Record, Aims, At
  <2>2. Like(next, job[t]) /\ next.pc = "commit" /\ next.todo = job[t].todo
    BY <1>1 DEF Like, Fields, FieldNames
  <2>3. \A v \in Version : row # KeyRow(v)
    BY DEF MigrationRow, KeyRow
  <2> HIDE DEF next, row
  <2>4. KeysStay /\ job' = [job EXCEPT ![t] = next] /\ activeCache' = activeCache
    BY <2>1, <2>3, WritesElsewhere DEF Update, memory
  <2> QED
    BY <1>5, <2>1, <2>2, <2>4, ElsewhereMoves, CachesStay
<1> QED
  BY <1>6, <1>7, <1>8

\* What a request about one denomination is, before it holds any row.
LEMMA AimsAt ==
  ASSUME NEW r, Aims(r), r.op \notin {"none", "check"}, r.todo = {},
         NEW n, Like(n, r), n.todo = {}, n.pc \notin {"idle", "look", "remember", "record"}
  PROVE  Aims(n)
  BY DEF Aims, Like

\* getOrGenerate: a cached key, a key of the table, or none yet.
LEMMA GetMoves ==
  ASSUME KInv, NEW t \in Tx, Get(t)
  PROVE  KInv'
<1> DEFINE d == job[t].denom
           cached == activeCache[job[t].home][d]
<1>1. /\ Aims(job[t]) /\ job[t].op \notin {"none", "check"} /\ job[t].todo = {}
      /\ job[t].home \in Process /\ d \in Denom
      /\ \A v \in Version : lock[KeyRow(v)] # t
  <2>1. job[t].pc \in {"get", "name"}
    BY DEF Get
  <2>2. Aims(job[t])
    BY DEF KInv, RInv
  <2> QED
    BY <2>1, <2>2, Purpose, EmptyHanded DEF Aims
<1>2. CASE cached # 0 /\ Obtained(t, cached) /\ activeCache' = activeCache
  <2>1. PICK next : next = Continue([job[t] EXCEPT !.got = 0, !.fresh = 0], cached)
    OBVIOUS
  <2>2. PICK r : r = [job[t] EXCEPT !.got = 0, !.fresh = 0]
    OBVIOUS
  <2>3. Aims(r) /\ r.op = job[t].op /\ r.todo = {} /\ r.denom = d
    BY <1>1, <2>2 DEF Aims, Fields, FieldNames
  <2>4. IsOf(cached, d)
    BY <1>1, <1>2 DEF KInv, CachesInv
  <2>5. Aims(next) /\ Knows(next) /\ next.pc # "commit"
    BY <1>1, <2>1, <2>2, <2>3, <2>4, ContinueAims
  <2>6. KeysStay /\ job' = [job EXCEPT ![t] = next]
    BY <1>2, <2>1 DEF Obtained, storage, KeysStay, SameFields
  <2> QED
    BY <1>1, <1>2, <2>5, <2>6, HoldsNothing, ElsewhereMoves, CachesStay
<1>3. ASSUME NEW next, GoOn(t, next), Like(next, job[t]), next.todo = {},
             \/ next.pc = "advisory"
             \/ next.pc \in {"keep", "seal"} /\ IsOf(next.got, d)
      PROVE  KInv'
  <2>1. Aims(next)
    BY <1>1, <1>3, AimsAt
  <2>2. Knows(next)
    BY <1>3 DEF Knows, Like
  <2> QED
    BY <1>1, <1>3, <2>1, <2>2, HoldsNothing, GoesOn
<1>4. ASSUME NEW v \in Version, IsActive(db, v, d), NEW label, label \in {"keep", "seal"},
             GoOn(t, [job[t] EXCEPT !.got = v, !.pc = label])
      PROVE  KInv'
  <2>1. PICK next : next = [job[t] EXCEPT !.got = v, !.pc = label]
    OBVIOUS
  <2>2. Like(next, job[t]) /\ next.todo = {} /\ next.pc = label /\ next.got = v
    BY <1>1, <2>1 DEF Aims, Like, Fields, FieldNames
  <2>3. IsOf(v, d)
    BY <1>4 DEF IsActive, IsOf
  <2> QED
    BY <1>3, <1>4, <2>1, <2>2, <2>3
<1>5. ASSUME GoOn(t, [job[t] EXCEPT !.pc = "advisory"])
      PROVE  KInv'
  <2>1. PICK next : next = [job[t] EXCEPT !.pc = "advisory"]
    OBVIOUS
  <2>2. Like(next, job[t]) /\ next.todo = {} /\ next.pc = "advisory"
    BY <1>1, <2>1 DEF Aims, Like, Fields, FieldNames
  <2> QED
    BY <1>3, <1>5, <2>1, <2>2
<1> QED
  BY <1>2, <1>4, <1>5 DEF Get

\* A private key becomes ciphertext.
LEMMA SealMoves ==
  ASSUME KInv, IInv, NEW t \in Tx, Seal(t)
  PROVE  KInv'
<1>1. Aims(job[t]) /\ Knows(job[t]) /\ job[t].pc = "seal"
  BY DEF KInv, RInv, Seal, At
<1>2. PICK label \in {"remember", "keep"} :
         /\ label = IF job[t].op = "check" THEN "remember" ELSE "keep"
         /\ job' = [job EXCEPT ![t].pc = label]
  BY DEF Seal
<1>3. PICK next : next = [job[t] EXCEPT !.pc = label]
  OBVIOUS
<1>4. Like(next, job[t]) /\ next.todo = job[t].todo /\ next.pc = label /\ next.got = job[t].got
  BY <1>1, <1>3 DEF Aims, Like, Fields, FieldNames
<1>5. Aims(next)
  BY <1>1, <1>2, <1>4 DEF Aims, Like
<1>6. Knows(next)
  BY <1>1, <1>2, <1>4 DEF Knows, Like
<1>7. job' = [job EXCEPT ![t] = next]
  BY <1>2, <1>3 DEF KInv
<1>8. KeysStay
  BY SealFields DEF KeysStay, SameFields
<1>9. activeCache' = activeCache
  BY DEF Seal, memory
<1>10. HoldsKeys(t, next)
  BY <1>1, <1>2, <1>4, EmptyHanded, HoldsNothing
<1> QED
  BY <1>5, <1>6, <1>7, <1>8, <1>9, <1>10, ElsewhereMoves, CachesStay

\* The key goes into the cache, under the denomination it is of.
LEMMA KeepMoves ==
  ASSUME KInv, NEW t \in Tx, Keep(t)
  PROVE  KInv'
<1>1. /\ Aims(job[t]) /\ Knows(job[t]) /\ job[t].pc = "keep" /\ job[t].todo = {}
      /\ \A v \in Version : lock[KeyRow(v)] # t
  <2>1. Aims(job[t]) /\ Knows(job[t]) /\ job[t].pc = "keep"
    BY DEF KInv, RInv, Keep, At
  <2> QED
    BY <2>1, EmptyHanded DEF Aims
<1>2. job[t].op \notin {"none", "check"} /\ IsOf(job[t].got, job[t].denom)
      /\ job[t].home \in Process /\ job[t].denom \in Denom
  BY <1>1 DEF Aims, Knows
<1>3. PICK r : r = [job[t] EXCEPT !.got = 0, !.fresh = 0]
  OBVIOUS
<1>4. PICK next : next = Continue(r, job[t].got)
  OBVIOUS
<1>5. Aims(r) /\ r.op = job[t].op /\ r.todo = {} /\ r.denom = job[t].denom
  BY <1>1, <1>3 DEF Aims, Fields, FieldNames
<1>6. Aims(next) /\ Knows(next) /\ next.pc # "commit"
  BY <1>2, <1>4, <1>5, ContinueAims
<1>7. KeysStay /\ job' = [job EXCEPT ![t] = next]
  BY <1>3, <1>4 DEF Keep, Obtained, storage, KeysStay, SameFields
<1>8. CachesInv'
  <2>1. activeCache' = [activeCache EXCEPT ![job[t].home][job[t].denom] = job[t].got]
    BY DEF Keep
  <2>2. \A p \in Process, d \in Denom :
           \/ activeCache'[p][d] = activeCache[p][d]
           \/ p = job[t].home /\ d = job[t].denom /\ activeCache'[p][d] = job[t].got
    BY <2>1 DEF KInv, CachesInv
  <2>3. activeCache' = [p \in Process |-> [d \in Denom |-> activeCache'[p][d]]]
    BY <2>1 DEF KInv, CachesInv
  <2>4. \A v, d : IsOf(v, d) => IsOf(v, d)'
    BY <1>7 DEF KeysStay, SameFields, IsOf
  <2> QED
    BY <1>2, <2>2, <2>3, <2>4 DEF KInv, CachesInv
<1> QED
  BY <1>1, <1>6, <1>7, <1>8, HoldsNothing, ElsewhereMoves

\* The advisory lock, and MAX(key_version).
LEMMA MaxMoves ==
  ASSUME KInv, IInv, NEW t \in Tx, Advisory(t) \/ MaxSelect(t)
  PROVE  KInv'
<1>1. Aims(job[t]) /\ HoldsKeys(t, job[t]) /\ job[t].pc \in {"advisory", "max"} /\ job[t].todo = {}
      /\ job[t].op \notin {"none", "check"}
  <2>1. job[t].pc \in {"advisory", "max"}
    BY DEF Advisory, MaxSelect, At
  <2>2. Aims(job[t]) /\ HoldsKeys(t, job[t])
    BY DEF KInv, RInv
  <2> QED
    BY <2>1, <2>2 DEF Aims
<1>2. ASSUME NEW next, Like(next, job[t]), next.todo = {}, next.pc \in {"max", "insert"}
      PROVE  Aims(next) /\ Knows(next) /\ HoldsKeys(t, next)
  <2>1. Aims(next)
    BY <1>1, <1>2, AimsAt
  <2>2. Knows(next)
    BY <1>2 DEF Knows
  <2>3. HoldsKeys(t, next)
    BY <1>1, <1>2 DEF HoldsKeys, Like
  <2> QED
    BY <2>1, <2>2, <2>3
<1>3. CASE Advisory(t)
  <2>1. PICK next : next = [job[t] EXCEPT !.pc = "max"]
    OBVIOUS
  <2>2. Like(next, job[t]) /\ next.todo = {} /\ next.pc = "max"
    BY <1>1, <2>1 DEF Aims, Like, Fields, FieldNames
  <2>3. Write(t, AdvisoryRow, cur[AdvisoryRow]) /\ job' = [job EXCEPT ![t] = next]
        /\ activeCache' = activeCache
    BY <1>3, <2>1 DEF Advisory, Update, memory
  <2>4. KeysStay
    BY <2>3, Rows, WritesElsewhere
  <2> QED
    BY <1>2, <2>2, <2>3, <2>4, ElsewhereMoves, CachesStay
<1>4. CASE MaxSelect(t)
  <2>1. PICK n : n = Max(Used(View(t)) \cup {0}) + 1
    OBVIOUS
  <2>2. PICK next : next = [job[t] EXCEPT !.pc = "insert", !.fresh = n]
    OBVIOUS
  <2>3. Like(next, job[t]) /\ next.todo = {} /\ next.pc = "insert"
    BY <1>1, <2>2 DEF Aims, Like, Fields, FieldNames
  <2>4. GoOn(t, next)
    BY <1>4, <2>1, <2>2 DEF MaxSelect
  <2> QED
    BY <1>2, <2>3, <2>4, GoesOn
<1> QED
  BY <1>3, <1>4

\* A write to the row of version v.
LEMMA KeyWritten ==
  ASSUME KInv, IInv, NEW t \in Tx, NEW v \in Version, NEW x, NEW next,
         Write(t, KeyRow(v), x), job' = [job EXCEPT ![t] = next], activeCache' = activeCache,
         x.status # "none", x.denom \in Denom,
         db[KeyRow(v)].status # "none" => db[KeyRow(v)].denom = x.denom,
         Aims(next), Knows(next), next.todo = {}, next.pc \in {"max", "commit"}, x.denom = next.denom,
         next.pc = "commit" => next.fresh = v /\ x.status = "active",
         \A w \in Version : lock[KeyRow(w)] = t /\ db[KeyRow(w)].status # "none" =>
                              db[KeyRow(w)].denom = next.denom
  PROVE  KInv'
<1>1. /\ db' = db
      /\ cur'[KeyRow(v)] = x /\ lock'[KeyRow(v)] = t /\ lock[KeyRow(v)] \in {t, NoTx}
      /\ \A w \in Version \ {v} : /\ cur'[KeyRow(w)] = cur[KeyRow(w)]
                                 /\ lock'[KeyRow(w)] = lock[KeyRow(w)]
  BY WriteFacts, Rows
<1>2. job'[t] = next /\ job' = [u \in Tx |-> job'[u]] /\ \A u \in Tx \ {t} : job'[u] = job[u]
  BY DEF KInv
<1>3. VersionsInv'
  BY <1>1 DEF KInv, VersionsInv
<1>4. VersionsStay
  BY <1>1 DEF VersionsStay, IsOf
<1>5. CachesInv'
  BY <1>1 DEF KInv, CachesInv, IsOf
<1>6. ASSUME NEW u \in Tx \ {t} PROVE LeftTo(u)
  BY <1>1, NoneAssumption DEF LeftTo, SameFields
<1>7. Aims(job[t])'
  BY <1>2 DEF Aims, Fields
<1>8. Knows(job[t])'
  BY <1>2, <1>4 DEF Knows, VersionsStay
<1>9. HoldsKeys(t, job[t])'
  BY <1>1, <1>2 DEF HoldsKeys, IsActive
<1> QED
  BY <1>2, <1>3, <1>4, <1>5, <1>6, <1>7, <1>8, <1>9, OneMoves DEF RInv

\* A new key: its version is of no denomination yet.
LEMMA InsertMoves ==
  ASSUME KInv, IInv, NEW t \in Tx, Insert(t), ~Throw(t)
  PROVE  KInv'
<1>1. Aims(job[t]) /\ HoldsKeys(t, job[t]) /\ job[t].pc = "insert" /\ job[t].todo = {}
      /\ job[t].op \notin {"none", "check"} /\ job[t].denom \in Denom
  <2>1. job[t].pc = "insert"
    BY DEF Insert, At
  <2>2. Aims(job[t]) /\ HoldsKeys(t, job[t])
    BY DEF KInv, RInv
  <2> QED
    BY <2>1, <2>2 DEF Aims
<1>2. PICK next : next = [job[t] EXCEPT !.pc = "commit"]
  OBVIOUS
<1>3. Like(next, job[t]) /\ next.todo = {} /\ next.pc = "commit" /\ next.fresh = job[t].fresh
      /\ next.denom = job[t].denom
  BY <1>1, <1>2 DEF Aims, Like, Fields, FieldNames
<1>4. PICK x : x = [status |-> "active", denom |-> job[t].denom, sealed |-> TRUE]
  OBVIOUS
<1>5. x.status = "active" /\ x.status # "none" /\ x.denom = next.denom /\ x.denom \in Denom
  BY <1>1, <1>3, <1>4
<1>6. ~Collides(t) /\ job[t].fresh \in Version /\ Write(t, KeyRow(job[t].fresh), x)
      /\ job' = [job EXCEPT ![t] = next] /\ activeCache' = activeCache
  BY <1>2, <1>4 DEF Insert, Update, memory
<1>7. db[KeyRow(job[t].fresh)].status = "none"
  BY <1>6 DEF Collides, Used, KInv, VersionsInv
<1>8. Aims(next)
  BY <1>1, <1>3, AimsAt
<1>9. Knows(next)
  BY <1>3 DEF Knows
<1>10. \A w \in Version : lock[KeyRow(w)] = t /\ db[KeyRow(w)].status # "none" =>
                             db[KeyRow(w)].denom = next.denom
  BY <1>1, <1>3 DEF HoldsKeys, Like
<1> QED
  BY <1>3, <1>5, <1>6, <1>7, <1>8, <1>9, <1>10, KeyWritten

\* The key a rotation retires is of its denomination, active or not.
LEMMA RetireMoves ==
  ASSUME KInv, IInv, NEW t \in Tx, Retire(t)
  PROVE  KInv'
<1> DEFINE row == KeyRow(job[t].old)
<1>1. Aims(job[t]) /\ Knows(job[t]) /\ job[t].pc = "retire" /\ job[t].todo = {}
      /\ job[t].op \notin {"none", "check"} /\ IsOf(job[t].old, job[t].denom)
      /\ \A v \in Version : lock[KeyRow(v)] # t
  <2>1. job[t].pc = "retire"
    BY DEF Retire, At
  <2>2. Aims(job[t]) /\ Knows(job[t])
    BY DEF KInv, RInv
  <2> QED
    BY <2>1, <2>2, EmptyHanded DEF Aims, Knows
<1>2. PICK next : next = [job[t] EXCEPT !.pc = "max"]
  OBVIOUS
<1>3. Like(next, job[t]) /\ next.todo = {} /\ next.pc = "max" /\ next.denom = job[t].denom
  BY <1>1, <1>2 DEF Aims, Like, Fields, FieldNames
<1>4. Aims(next)
  BY <1>1, <1>3, AimsAt
<1>5. Knows(next)
  BY <1>3 DEF Knows
<1>6. CASE GoOn(t, next)
  BY <1>1, <1>3, <1>4, <1>5, <1>6, HoldsNothing, GoesOn
<1>7. CASE Update(t, row, [cur[row] EXCEPT !.status = "retired"], next)
  <2>1. PICK x : x = [cur[row] EXCEPT !.status = "retired"]
    OBVIOUS
  <2>2. Shaped(cur[row]) /\ cur[row].denom = job[t].denom /\ job[t].denom \in Denom
        /\ job[t].old \in Version /\ db[row].denom = job[t].denom
    BY <1>1 DEF IInv, TablesShaped, KInv, VersionsInv, IsOf
  <2>3. x = [status |-> "retired", denom |-> cur[row].denom, sealed |-> cur[row].sealed]
    BY <2>1, <2>2 DEF Shaped
  <2>4. x.status # "none" /\ x.denom = next.denom /\ x.denom \in Denom
        /\ (db[row].status # "none" => db[row].denom = x.denom)
    BY <1>3, <2>2, <2>3
  <2>5. Write(t, KeyRow(job[t].old), x) /\ job' = [job EXCEPT ![t] = next]
        /\ activeCache' = activeCache
    BY <1>7, <2>1 DEF Update, memory
  <2> QED
    BY <1>1, <1>3, <1>4, <1>5, <2>2, <2>4, <2>5, KeyWritten
<1> QED
  BY <1>2, <1>6, <1>7 DEF Retire

\* The others of a step that overtakes them.
LEMMA Overtaken ==
  ASSUME KInv, NEW t \in Tx, NEW next, NEW S, job' = Overtaking(t, next, S)
  PROVE  /\ job' = [u \in Tx |-> job'[u]] /\ job'[t] = next
         /\ \A u \in Tx \ {t} : job'[u] \in {job[u], [job[u] EXCEPT !.overtaken = TRUE]}
  BY DEF Overtaking

\* What a transaction that commits has written is of the denominations it was.
LEMMA Committed ==
  ASSUME KInv, IInv, NEW t \in Tx, Commit(t)
  PROVE  /\ VersionsInv' /\ VersionsStay /\ \A u \in Tx \ {t} : LeftTo(u)
         /\ \A v \in Version : /\ cur'[KeyRow(v)] = cur[KeyRow(v)]
                               /\ lock[KeyRow(v)] = t => db'[KeyRow(v)] = cur[KeyRow(v)]
                               /\ lock[KeyRow(v)] # t => db'[KeyRow(v)] = db[KeyRow(v)]
                               /\ lock'[KeyRow(v)] # t
<1>1. \A v \in Version : /\ cur'[KeyRow(v)] = cur[KeyRow(v)]
                         /\ lock[KeyRow(v)] = t => db'[KeyRow(v)] = cur[KeyRow(v)]
                         /\ lock[KeyRow(v)] # t => db'[KeyRow(v)] = db[KeyRow(v)]
                         /\ lock'[KeyRow(v)] = IF lock[KeyRow(v)] = t THEN NoTx ELSE lock[KeyRow(v)]
  BY Rows DEF Commit, Release, Read
<1>2. VersionsInv'
  BY <1>1 DEF KInv, VersionsInv
<1>3. VersionsStay
  BY <1>1 DEF KInv, VersionsInv, VersionsStay, IsOf
<1>4. \A u \in Tx \ {t} : LeftTo(u)
  BY <1>1, NoneAssumption DEF LeftTo, SameFields
<1> QED
  BY <1>1, <1>2, <1>3, <1>4, NoneAssumption

\* After COMMIT the request has nothing in hand.
LEMMA CommitMoves ==
  ASSUME KInv, IInv, NEW t \in Tx, CommitTx(t)
  PROVE  KInv'
<1>1. Aims(job[t]) /\ HoldsKeys(t, job[t]) /\ job[t].pc = "commit"
      /\ job[t].op \notin {"none", "check"} /\ Commit(t)
  <2>1. job[t].pc = "commit" /\ Commit(t)
    BY DEF CommitTx, At
  <2>2. Aims(job[t]) /\ HoldsKeys(t, job[t])
    BY DEF KInv, RInv
  <2> QED
    BY <2>1, <2>2 DEF Aims
<1>2. PICK next : next = AfterCommit(job[t])
  OBVIOUS
<1>3. /\ job' = [u \in Tx |-> job'[u]] /\ job'[t] = next
      /\ \A u \in Tx \ {t} : job'[u] \in {job[u], [job[u] EXCEPT !.overtaken = TRUE]}
  <2>1. PICK S : job' = Overtaking(t, next, S)
    BY <1>2 DEF CommitTx
  <2> QED
    BY <2>1, Overtaken
<1>4. /\ VersionsInv' /\ VersionsStay /\ \A u \in Tx \ {t} : LeftTo(u)
      /\ \A v \in Version : /\ lock[KeyRow(v)] = t => db'[KeyRow(v)] = cur[KeyRow(v)]
                            /\ lock'[KeyRow(v)] # t
  BY <1>1, Committed
<1>5. CachesInv'
  BY <1>4 DEF CommitTx, memory, KInv, CachesInv, VersionsStay
<1>6. \/ Like(next, job[t]) /\ next.pc \in {"applied", "get", "forget"} /\ next.todo = {}
      \/ Like(next, job[t]) /\ next.pc = "record" /\ next.todo # {}
      \/ Like(next, job[t]) /\ next.pc = "keep" /\ next.todo = {} /\ job[t].todo = {}
           /\ next.got = job[t].fresh
  <2>1. CASE job[t].todo = {1}
    <3>1. next = [job[t] EXCEPT !.pc = "applied", !.todo = {}]
      BY <1>2, <2>1 DEF AfterCommit
    <3> QED
      BY <1>1, <3>1 DEF Aims, Like, Fields, FieldNames
  <2>2. CASE job[t].todo # {1} /\ job[t].todo # {}
    <3>1. PICK left : left = job[t].todo \ {Min(job[t].todo)}
      OBVIOUS
    <3>2. PICK label : label = IF left = {} THEN "get" ELSE "record"
      OBVIOUS
    <3>3. next = [job[t] EXCEPT !.todo = left, !.pc = label]
      BY <1>2, <2>2, <3>1, <3>2 DEF AfterCommit
    <3>4. Like(next, job[t]) /\ next.pc = label /\ next.todo = left
      BY <1>1, <3>3 DEF Aims, Like, Fields, FieldNames
    <3> QED
      BY <3>2, <3>4
  <2>3. CASE job[t].todo = {} /\ job[t].old # 0
    <3>1. next = [job[t] EXCEPT !.pc = "forget"]
      BY <1>2, <2>3 DEF AfterCommit
    <3> QED
      BY <1>1, <2>3, <3>1 DEF Aims, Like, Fields, FieldNames
  <2>4. CASE job[t].todo = {} /\ job[t].old = 0
    <3>1. next = [job[t] EXCEPT !.pc = "keep", !.got = job[t].fresh]
      BY <1>2, <2>4 DEF AfterCommit
    <3> QED
      BY <1>1, <2>4, <3>1 DEF Aims, Like, Fields, FieldNames
  <2> QED
    BY <2>1, <2>2, <2>3, <2>4
<1>7. Aims(next)
  BY <1>1, <1>6 DEF Aims, Like
<1>8. Aims(job[t])'
  BY <1>3, <1>7 DEF Aims, Fields
<1>9. Knows(job[t])'
  <2>1. next.pc = "keep" => IsOf(next.got, next.denom)'
    BY <1>1, <1>4, <1>6 DEF HoldsKeys, IsActive, IsOf, Like
  <2>2. next.pc \notin {"seal", "retire"}
    BY <1>6
  <2> QED
    BY <1>3, <2>1, <2>2 DEF Knows
<1>10. HoldsKeys(t, job[t])'
  <2>1. next.pc # "commit"
    BY <1>6
  <2> QED
    BY <1>3, <1>4, <2>1 DEF HoldsKeys
<1> QED
  BY <1>3, <1>4, <1>5, <1>8, <1>9, <1>10, OneMoves DEF RInv

\* The rotation's process forgets the key it knew.
LEMMA ForgetMoves ==
  ASSUME KInv, NEW t \in Tx, Forget(t)
  PROVE  KInv'
<1>1. Aims(job[t]) /\ job[t].pc = "forget" /\ job[t].todo = {} /\ job[t].op \notin {"none", "check"}
      /\ job[t].home \in Process /\ job[t].denom \in Denom
      /\ \A v \in Version : lock[KeyRow(v)] # t
  <2>1. job[t].pc = "forget"
    BY DEF Forget, At
  <2>2. Aims(job[t])
    BY DEF KInv, RInv
  <2> QED
    BY <2>1, <2>2, EmptyHanded DEF Aims
<1>2. PICK next : next = [job[t] EXCEPT !.pc = "log"]
  OBVIOUS
<1>3. Like(next, job[t]) /\ next.pc = "log" /\ next.todo = {}
  BY <1>1, <1>2 DEF Aims, Like, Fields, FieldNames
<1>4. /\ job' = [u \in Tx |-> job'[u]] /\ job'[t] = next
      /\ \A u \in Tx \ {t} : job'[u] \in {job[u], [job[u] EXCEPT !.overtaken = TRUE]}
  <2>1. PICK S : job' = Overtaking(t, next, S)
    BY <1>2 DEF Forget
  <2> QED
    BY <2>1, Overtaken
<1>5. db' = db /\ cur' = cur /\ lock' = lock
  BY DEF Forget, storage
<1>6. VersionsInv' /\ VersionsStay
  BY <1>5 DEF KInv, VersionsInv, VersionsStay, IsOf
<1>7. \A u \in Tx : LeftTo(u)
  BY <1>5 DEF LeftTo, SameFields
<1>8. CachesInv'
  <2>1. activeCache' = [activeCache EXCEPT ![job[t].home][job[t].denom] = 0]
    BY DEF Forget
  <2>2. \A p \in Process, d \in Denom : activeCache'[p][d] \in {activeCache[p][d], 0}
    BY <2>1 DEF KInv, CachesInv
  <2>3. activeCache' = [p \in Process |-> [d \in Denom |-> activeCache'[p][d]]]
    BY <2>1 DEF KInv, CachesInv
  <2> QED
    BY <1>6, <2>2, <2>3 DEF KInv, CachesInv, VersionsStay
<1>9. Aims(next)
  BY <1>1, <1>3, AimsAt
<1>10. Aims(job[t])'
  BY <1>4, <1>9 DEF Aims, Fields
<1>11. Knows(job[t])' /\ HoldsKeys(t, job[t])'
  BY <1>1, <1>3, <1>4, <1>5 DEF Knows, HoldsKeys
<1> QED
  BY <1>4, <1>6, <1>7, <1>8, <1>10, <1>11, OneMoves DEF RInv

\* What a lookup by version, an answer and a log entry leave behind.
LEMMA LookMoves ==
  ASSUME KInv, NEW t \in Tx, ~Throw(t), Look(t) \/ Remember(t) \/ Answer(t) \/ LogRotation(t)
  PROVE  KInv'
<1>1. Aims(job[t]) /\ job[t].pc \in {"look", "remember", "answer", "log"} /\ job[t].todo = {}
      /\ (job[t].pc \in {"look", "remember"} => job[t].op = "check")
      /\ \A v \in Version : lock[KeyRow(v)] # t
  <2>1. job[t].pc \in {"look", "remember", "answer", "log"}
    BY DEF Look, Remember, Answer, LogRotation, At
  <2>2. Aims(job[t])
    BY DEF KInv, RInv
  <2> QED
    BY <2>1, <2>2, EmptyHanded DEF Aims
<1>2. ASSUME NEW next, job' = [job EXCEPT ![t] = next], UNCHANGED storage,
             activeCache' = activeCache, Aims(next), Knows(next), next.pc # "commit"
      PROVE  KInv'
  <2>1. KeysStay
    BY <1>2 DEF storage, KeysStay, SameFields
  <2> QED
    BY <1>1, <1>2, <2>1, HoldsNothing, ElsewhereMoves, CachesStay
<1>3. ASSUME NEW next, job' = [job EXCEPT ![t] = next], UNCHANGED storage,
             activeCache' = activeCache, job[t].op = "check", Like(next, job[t]), next.todo = {},
             next.pc \in {"answer", "seal", "remember"}
      PROVE  KInv'
  <2>1. Aims(next) /\ Knows(next) /\ next.pc # "commit"
    BY <1>1, <1>3 DEF Aims, Knows, Like
  <2> QED
    BY <1>2, <1>3, <2>1
<1>4. ASSUME NEW status, job' = [job EXCEPT ![t] = Judged(t, status)], UNCHANGED storage,
             activeCache' = activeCache, job[t].op = "check"
      PROVE  KInv'
  <2>1. PICK next : next = [job[t] EXCEPT !.pc = "answer", !.got = 0, !.read = status]
    OBVIOUS
  <2>2. Like(next, job[t]) /\ next.pc = "answer" /\ next.todo = {}
    BY <1>1, <2>1 DEF Aims, Like, Fields, FieldNames
  <2> QED
    BY <1>3, <1>4, <2>1, <2>2 DEF Judged
<1>5. CASE Look(t)
  <2>1. job[t].op = "check"
    BY <1>1, <1>5 DEF Look, At
  <2> DEFINE v == job[t].version
             cached == versionCache[job[t].home][v]
             status == db[KeyRow(v)].status
  <2>2. CASE GoOn(t, Judged(t, cached))
    BY <1>4, <2>1, <2>2 DEF GoOn, memory
  <2>3. ASSUME NEW label \in {"seal", "remember"},
               GoOn(t, [job[t] EXCEPT !.got = v, !.read = status, !.pc = label])
        PROVE  KInv'
    <3>1. PICK next : next = [job[t] EXCEPT !.got = v, !.read = status, !.pc = label]
      OBVIOUS
    <3>2. Like(next, job[t]) /\ next.pc = label /\ next.todo = {}
      BY <1>1, <3>1 DEF Aims, Like, Fields, FieldNames
    <3> QED
      BY <1>3, <2>1, <2>3, <3>1, <3>2 DEF GoOn, memory
  <2> QED
    BY <1>5, <2>2, <2>3 DEF Look
<1>6. CASE Remember(t)
  <2>1. job[t].op = "check"
    BY <1>1, <1>6 DEF Remember, At
  <2> QED
    BY <1>4, <1>6, <2>1 DEF Remember
<1>7. CASE Answer(t) \/ LogRotation(t)
  <2>1. GoOn(t, Idle)
    BY <1>7 DEF Answer, LogRotation
  <2>2. Aims(Idle) /\ Knows(Idle) /\ Idle.pc # "commit"
    BY IdleAims
  <2> QED
    BY <1>2, <2>1, <2>2 DEF GoOn, memory
<1> QED
  BY <1>5, <1>6, <1>7

\* The transactions of S are rolled back and their requests are over.
LEMMA RolledBack ==
  ASSUME KInv, NEW S \in SUBSET Tx, db' = db,
         cur' = [r \in Row |-> IF lock[r] \in S THEN db[r] ELSE cur[r]],
         lock' = [r \in Row |-> IF lock[r] \in S THEN NoTx ELSE lock[r]],
         job' = [u \in Tx |-> IF u \in S THEN Idle ELSE job[u]],
         CachesInv'
  PROVE  KInv'
<1>1. \A v \in Version :
         /\ cur'[KeyRow(v)] = IF lock[KeyRow(v)] \in S THEN db[KeyRow(v)] ELSE cur[KeyRow(v)]
         /\ lock'[KeyRow(v)] = IF lock[KeyRow(v)] \in S THEN NoTx ELSE lock[KeyRow(v)]
  BY Rows
<1>2. VersionsInv'
  BY <1>1 DEF KInv, VersionsInv
<1>3. VersionsStay
  BY DEF VersionsStay, IsOf
<1>4. job' = [u \in Tx |-> job'[u]]
  OBVIOUS
<1>5. ASSUME NEW u \in S PROVE RInv(u, job[u])'
  <2>1. job'[u] = Idle
    OBVIOUS
  <2>2. \A v \in Version : lock'[KeyRow(v)] # u
    BY <1>1, NoneAssumption
  <2>3. Aims(Idle) /\ Idle.pc = "idle"
    BY IdleAims
  <2>4. Aims(job[u])'
    BY <2>1, <2>3 DEF Aims, Fields
  <2>5. Knows(job[u])' /\ HoldsKeys(u, job[u])'
    BY <2>1, <2>2, <2>3 DEF Knows, HoldsKeys
  <2> QED
    BY <2>4, <2>5 DEF RInv
<1>6. ASSUME NEW u \in Tx \ S PROVE RInv(u, job[u])'
  <2>1. LeftTo(u)
    BY <1>1, NoneAssumption DEF LeftTo, SameFields
  <2>2. job'[u] = job[u] /\ RInv(u, job[u])
    BY DEF KInv
  <2> QED
    BY <1>3, <2>1, <2>2, OthersKnow
<1> QED
  BY <1>2, <1>4, <1>5, <1>6 DEF KInv

\* A throw.
LEMMA ThrowMoves ==
  ASSUME KInv, NEW t \in Tx, Throw(t)
  PROVE  KInv'
<1>1. /\ cur' = [r \in Row |-> IF lock[r] \in {t} THEN db[r] ELSE cur[r]]
      /\ lock' = [r \in Row |-> IF lock[r] \in {t} THEN NoTx ELSE lock[r]]
      /\ db' = db /\ activeCache' = activeCache
  BY DEF Throw, Rollback, Release
<1>2. job' = [u \in Tx |-> IF u \in {t} THEN Idle ELSE job[u]]
  BY DEF Throw, KInv
<1>3. CachesInv'
  BY <1>1 DEF KInv, CachesInv, IsOf
<1> QED
  BY <1>1, <1>2, <1>3, RolledBack

\* A process dies.
LEMMA CrashMoves ==
  ASSUME KInv, NEW p \in Process, Crash(p)
  PROVE  KInv'
<1> DEFINE mine == {t \in Tx : job[t].home = p}
<1>1. /\ cur' = [r \in Row |-> IF lock[r] \in mine THEN db[r] ELSE cur[r]]
      /\ lock' = [r \in Row |-> IF lock[r] \in mine THEN NoTx ELSE lock[r]]
      /\ job' = [u \in Tx |-> IF u \in mine THEN Idle ELSE job[u]]
      /\ db' = db
  BY DEF Crash
<1>2. CachesInv'
  <2>1. activeCache' = [activeCache EXCEPT ![p] = [d \in Denom |-> 0]]
    BY DEF Crash
  <2>2. \A q \in Process, d \in Denom : activeCache'[q][d] \in {activeCache[q][d], 0}
    BY <2>1 DEF KInv, CachesInv
  <2>3. activeCache' = [q \in Process |-> [d \in Denom |-> activeCache'[q][d]]]
    BY <2>1 DEF KInv, CachesInv
  <2> QED
    BY <1>1, <2>2, <2>3 DEF KInv, CachesInv, IsOf
<1> HIDE DEF mine
<1>3. mine \in SUBSET Tx
  BY DEF mine
<1> QED
  BY <1>1, <1>2, <1>3, RolledBack

\* A step that changes none of this.
LEMMA SameMoves ==
  ASSUME KInv, UNCHANGED <<storage, job, activeCache>>
  PROVE  KInv'
<1>1. db' = db /\ cur' = cur /\ lock' = lock /\ job' = job /\ activeCache' = activeCache
  BY DEF storage
<1>2. VersionsInv' /\ CachesInv' /\ (job = [t \in Tx |-> job[t]])'
  BY <1>1 DEF KInv, VersionsInv, CachesInv, IsOf
<1>3. ASSUME NEW t \in Tx PROVE RInv(t, job[t])'
  BY <1>1, <1>3 DEF KInv, RInv, Aims, Fields, Knows, HoldsKeys, IsOf, IsActive
<1> QED
  BY <1>2, <1>3 DEF KInv

\* Every step preserves the invariant.
LEMMA NextKInv == IInv /\ KInv /\ [Next]_vars => KInv'
<1> SUFFICES ASSUME IInv, KInv, [Next]_vars PROVE KInv'
  OBVIOUS
<1>1. ASSUME NEW t \in Tx, Step(t) PROVE KInv'
  <2>1. CASE Throw(t)
    BY <2>1, ThrowMoves
  <2>2. CASE ~Throw(t)
    BY <1>1, <2>2, BootMoves, GetMoves, SealMoves, KeepMoves, MaxMoves, InsertMoves, RetireMoves,
       CommitMoves, ForgetMoves, LookMoves DEF Step
  <2> QED
    BY <2>1, <2>2
<1>2. ASSUME NEW t \in Tx, Begin(t) PROVE KInv'
  BY <1>2, BeginMoves
<1>3. ASSUME NEW v \in Version, GracePasses(v) PROVE KInv'
  BY <1>3, SameMoves DEF GracePasses, memory
<1>4. ASSUME NEW p \in Process, Crash(p) PROVE KInv'
  BY <1>4, CrashMoves
<1>5. CASE UNCHANGED vars
  BY <1>5, SameMoves DEF vars, storage
<1> QED
  BY <1>1, <1>2, <1>3, <1>4, <1>5 DEF Next

\* Nothing is under way at first, and the one key there may be is of BootDenom.
LEMMA InitKInv == KeyDbInit => KInv
<1> SUFFICES ASSUME KeyDbInit PROVE KInv
  OBVIOUS
<1>1. PICK legacy \in BOOLEAN :
         db = [r \in Row |->
                 IF r = KeyRow(1) /\ legacy
                   THEN [status |-> "active", denom |-> BootDenom, sealed |-> FALSE]
                 ELSE IF r[1] = "key" THEN NoKey
                 ELSE FALSE]
  BY DEF KeyDbInit
<1>2. ASSUME NEW v \in Version
      PROVE  db[KeyRow(v)].status # "none" => db[KeyRow(v)].denom \in Denom
  <2>1. KeyRow(v) \in Row /\ KeyRow(v)[1] = "key"
    BY Rows DEF KeyRow
  <2>2. db[KeyRow(v)] = NoKey \/ db[KeyRow(v)] = [status |-> "active", denom |-> BootDenom, sealed |-> FALSE]
    BY <1>1, <2>1
  <2> QED
    BY <2>2, DenomAssumption DEF NoKey
<1>3. /\ cur = db /\ lock = [r \in Row |-> NoTx] /\ job = [t \in Tx |-> Idle]
      /\ activeCache = [p \in Process |-> [d \in Denom |-> 0]]
  BY DEF KeyDbInit
<1>4. VersionsInv
  BY <1>2, <1>3 DEF VersionsInv
<1>5. CachesInv
  BY <1>3 DEF CachesInv
<1>6. ASSUME NEW t \in Tx PROVE RInv(t, job[t])
  <2>1. job[t] = Idle /\ \A v \in Version : lock[KeyRow(v)] # t
    BY <1>3, Rows, NoneAssumption
  <2>2. HoldsKeys(t, Idle)
    BY <2>1, IdleAims, HoldsNothing
  <2> QED
    BY <2>1, <2>2, IdleAims DEF RInv
<1> QED
  BY <1>3, <1>4, <1>5, <1>6 DEF KInv

\* A denomination with an active key has one after the step.
KeyKept == \A d \in Denom : (\E v \in Version : IsActive(db, v, d)) =>
                               (\E v \in Version : IsActive(db, v, d))'

\* Only COMMIT can retire a committed key, and what it commits has the successor with it.
LEMMA CommitKeepsKey ==
  ASSUME IInv, KInv, NEW t \in Tx, CommitTx(t)
  PROVE  KeyKept
<1>1. HoldsKeys(t, job[t]) /\ job[t].pc = "commit"
  BY DEF KInv, RInv, CommitTx, At
<1>2. \A v \in Version : /\ lock[KeyRow(v)] = t => db'[KeyRow(v)] = cur[KeyRow(v)]
                         /\ lock[KeyRow(v)] # t => db'[KeyRow(v)] = db[KeyRow(v)]
  BY Committed DEF CommitTx
<1>3. ASSUME NEW d \in Denom, NEW v \in Version, IsActive(db, v, d)
      PROVE  \E w \in Version : IsActive(db', w, d)
  <2>1. CASE lock[KeyRow(v)] # t
    BY <1>2, <1>3, <2>1 DEF IsActive
  <2>2. CASE lock[KeyRow(v)] = t
    <3>1. job[t].todo = {} /\ job[t].denom = d
      BY <1>1, <1>3, <2>2 DEF HoldsKeys, IsActive
    <3>2. job[t].fresh \in Version /\ lock[KeyRow(job[t].fresh)] = t /\ IsActive(cur, job[t].fresh, d)
      BY <1>1, <3>1 DEF HoldsKeys
    <3>3. IsActive(db', job[t].fresh, d)
      BY <1>2, <3>2 DEF IsActive
    <3> QED
      BY <3>2, <3>3
  <2> QED
    BY <2>1, <2>2
<1> QED
  BY <1>3 DEF KeyKept, IsActive

\* No step leaves a denomination without the key it had.
LEMMA NextKeepsKey == IInv /\ KInv /\ [Next]_vars => KeyKept
<1> SUFFICES ASSUME IInv, KInv, [Next]_vars PROVE KeyKept
  OBVIOUS
<1>1. ASSUME db' = db PROVE KeyKept
  BY <1>1 DEF KeyKept, IsActive
<1>2. ASSUME NEW t \in Tx, Step(t) PROVE KeyKept
  <2>1. CASE CommitTx(t)
    BY <2>1, CommitKeepsKey
  <2>2. CASE Seal(t)
    <3>1. \A v \in Version : /\ db'[KeyRow(v)].status = db[KeyRow(v)].status
                             /\ db'[KeyRow(v)].denom = db[KeyRow(v)].denom
      BY <2>2, SealFields
    <3> QED
      BY <3>1 DEF KeyKept, IsActive
  <2>3. CASE Throw(t)
    BY <1>1, <2>3 DEF Throw, Rollback
  <2>4. CASE BaselineSelect(t) \/ AppliedSelect(t) \/ Record(t) \/ Advisory(t) \/ MaxSelect(t)
             \/ Insert(t) \/ Retire(t)
    BY <1>1, <2>3, <2>4
       DEF BaselineSelect, AppliedSelect, Record, Advisory, MaxSelect, Insert, Retire,
           GoOn, Update, Write, storage
  <2>5. CASE Get(t) \/ Keep(t) \/ Forget(t) \/ LogRotation(t) \/ Look(t) \/ Remember(t) \/ Answer(t)
    BY <1>1, <2>3, <2>5
       DEF Get, Keep, Forget, LogRotation, Look, Remember, Answer, GoOn, Obtained, storage
  <2> QED
    BY <1>2, <2>1, <2>2, <2>4, <2>5 DEF Step
<1>3. ASSUME NEW t \in Tx, Begin(t) PROVE KeyKept
  BY <1>1, <1>3 DEF Begin, Boot, BeginKey, BeginRotate, BeginCheck, BeginSign, Start, GoOn, storage
<1>4. ASSUME NEW v \in Version, GracePasses(v) PROVE KeyKept
  BY <1>1, <1>4 DEF GracePasses, storage
<1>5. ASSUME NEW p \in Process, Crash(p) PROVE KeyKept
  BY <1>1, <1>5 DEF Crash
<1>6. CASE UNCHANGED vars
  BY <1>1, <1>6 DEF vars
<1> QED
  BY <1>2, <1>3, <1>4, <1>5, <1>6 DEF Next

\* A denomination that has an active key keeps one, through rotations that fail, collide, start
\* from a stale cache or die half way.
THEOREM NeverKeylessAlways == Spec => NeverKeyless
<1>1. IInv /\ KInv /\ [Next]_vars =>
         [\A d \in Denom : (\E v \in Version : IsActive(db, v, d)) =>
                              (\E v \in Version : IsActive(db, v, d))']_vars
  BY NextKeepsKey DEF KeyKept
<1> QED
  BY <1>1, InitIInv, NextIInv, InitKInv, NextKInv, PTL DEF Spec, NeverKeyless

-----------------------------------------------------------------------------
(* The least and the greatest of a set of versions or migrations.          *)

\* Of the intervals that end in S, one contains no other.
LEMMA LeastIn ==
  ASSUME NEW n \in Nat, NEW S \in SUBSET (0..n), S # {}
  PROVE  \E x \in S : \A y \in S : x <= y
<1> DEFINE T == {0..y : y \in S}
<1>1. PICK D : D = 0..n
  OBVIOUS
<1>2. IsWellFoundedOn(StrictSubsetOrdering(D), SUBSET D)
  <2>1. IsFiniteSet(D)
    BY <1>1, FS_Interval
  <2>2. FiniteSubsetsOf(D) = SUBSET D
    BY <2>1, FS_FiniteSubsetsOfFinite
  <2>3. IsWellFoundedOn(StrictSubsetOrdering(D), FiniteSubsetsOf(D))
    BY FS_StrictSubsetOrderingWellFounded
  <2> QED
    BY <2>2, <2>3
<1>3. T \subseteq SUBSET D
  BY <1>1
<1>7. T # {}
  OBVIOUS
<1>4. PICK s \in T : \A u \in T : <<u, s>> \notin StrictSubsetOrdering(D)
  <2> HIDE DEF T
  <2> QED
    BY <1>2, <1>3, <1>7, WFMin
<1>5. PICK x \in S : s = 0..x
  BY <1>4
<1>6. ASSUME NEW y \in S, y < x PROVE FALSE
  <2>1. 0..y \in T /\ 0..y \in SUBSET D /\ s \in SUBSET D
    BY <1>1, <1>5
  <2>2. 0..y \subseteq s /\ x \in s /\ x \notin 0..y
    BY <1>5, <1>6
  <2> QED
    BY <1>4, <2>1, <2>2 DEF StrictSubsetOrdering
<1> QED
  BY <1>6

LEMMA MinIs ==
  ASSUME NEW n \in Nat, NEW S \in SUBSET (0..n), S # {}
  PROVE  Min(S) \in S /\ \A y \in S : Min(S) <= y
  BY LeastIn DEF Min

LEMMA MaxIs ==
  ASSUME NEW n \in Nat, NEW S \in SUBSET (0..n), S # {}
  PROVE  Max(S) \in S /\ \A y \in S : y <= Max(S)
<1> DEFINE T == {n - y : y \in S}
<1>1. T \in SUBSET (0..n)
  OBVIOUS
<1>6. T # {}
  OBVIOUS
<1> HIDE DEF T
<1>2. PICK z \in T : \A y \in T : z <= y
  BY <1>1, <1>6, LeastIn
<1>3. PICK x \in S : z = n - x
  BY <1>2 DEF T
<1>4. ASSUME NEW y \in S PROVE x >= y
  <2>1. n - y \in T
    BY DEF T
  <2> QED
    BY <1>2, <1>3, <2>1
<1>5. Max(S) \in S /\ \A y \in S : Max(S) >= y
  BY <1>4 DEF Max
<1> QED
  BY <1>5

-----------------------------------------------------------------------------
(***************************************************************************)
(* Type correctness, for which a request that is served has a process, and *)
(* a lookup by version names one.                                          *)
(***************************************************************************)
Asks(r) ==
    /\ r \in Job
    /\ r.op = "none" => r = Idle
    /\ r.op # "none" => r.home \in Process
    /\ r.op = "check" => r.version \in Version /\ r.signed = 0 /\ r.old = 0
    /\ r.op = "check" /\ r.pc \in {"seal", "remember"} => r.got = r.version

TInv == TypeOK /\ \A t \in Tx : Asks(job[t])

\* A request that is served goes on.
SameRequest(n, r) ==
    /\ n \in Job /\ n.op = r.op /\ n.home = r.home /\ n.denom = r.denom /\ n.version = r.version
    /\ n.overtaken = r.overtaken

LEMMA AsksOn ==
  ASSUME NEW r, Asks(r), NEW n, SameRequest(n, r), r.op # "none",
         n.op = "check" => n.signed = r.signed /\ n.old = r.old,
         n.op = "check" /\ n.pc \in {"seal", "remember"} => n.got = n.version
  PROVE  Asks(n)
  BY DEF Asks, SameRequest

LEMMA IdleAsks == Asks(Idle)
<1>1. Idle \in Job
  BY BoundAssumption DEF Idle, Job, Op, Label
<1>2. Idle.op = "none"
  BY DEF Idle
<1> QED
  BY <1>1, <1>2 DEF Asks

\* The rows of the three tables.
LEMMA AllRows ==
  /\ \A v \in Version : KeyRow(v) \in Row
  /\ \A m \in Migration : MigrationRow(m) \in Row
  /\ AdvisoryRow \in Row
  /\ \A m, n : MigrationRow(m) = MigrationRow(n) => m = n
  /\ \A m : MigrationRow(m) # AdvisoryRow
  /\ \A v, m : KeyRow(v) # MigrationRow(m)
  /\ \A v : KeyRow(v) # AdvisoryRow
  BY DEF Row, KeyRow, MigrationRow, AdvisoryRow

\* Engine operations keep the types of the rows.
LEMMA WriteTyped ==
  ASSUME StorageTyped, NEW t \in Tx, NEW row, NEW x, Write(t, row, x),
         \A v \in Version : row = KeyRow(v) => x \in KeyValue,
         \A m \in Migration : row = MigrationRow(m) => x \in BOOLEAN
  PROVE  StorageTyped'
<1>1. db' = db /\ cur' = [cur EXCEPT ![row] = x] /\ lock' = [lock EXCEPT ![row] = t]
  BY DEF Write
<1>2. \A r \in Row : cur'[r] = IF r = row THEN x ELSE cur[r]
  BY <1>1 DEF StorageTyped
<1>3. cur' = [r \in Row |-> cur'[r]]
  BY <1>1 DEF StorageTyped
<1>4. lock' \in [Row -> Tx \cup {NoTx}]
  BY <1>1 DEF StorageTyped
<1>5. \A v \in Version : cur'[KeyRow(v)] \in KeyValue
  BY <1>2, AllRows DEF StorageTyped
<1>6. \A m \in Migration : cur'[MigrationRow(m)] \in BOOLEAN
  BY <1>2, AllRows DEF StorageTyped
<1> QED
  BY <1>1, <1>3, <1>4, <1>5, <1>6 DEF StorageTyped

LEMMA RollbackTyped ==
  ASSUME StorageTyped, NEW S, db' = db,
         cur' = [r \in Row |-> IF lock[r] \in S THEN db[r] ELSE cur[r]],
         lock' = [r \in Row |-> IF lock[r] \in S THEN NoTx ELSE lock[r]]
  PROVE  StorageTyped'
<1>1. \A v \in Version : cur'[KeyRow(v)] \in KeyValue
  BY AllRows DEF StorageTyped
<1>2. \A m \in Migration : cur'[MigrationRow(m)] \in BOOLEAN
  BY AllRows DEF StorageTyped
<1>3. lock' \in [Row -> Tx \cup {NoTx}]
  BY DEF StorageTyped
<1>4. cur' = [r \in Row |-> cur'[r]]
  OBVIOUS
<1> QED
  BY <1>1, <1>2, <1>3, <1>4 DEF StorageTyped

LEMMA CommitTyped ==
  ASSUME StorageTyped, NEW t \in Tx, Commit(t)
  PROVE  StorageTyped'
<1>1. /\ db' = [r \in Row |-> IF lock[r] = t THEN cur[r] ELSE db[r]]
      /\ lock' = [r \in Row |-> IF lock[r] = t THEN NoTx ELSE lock[r]]
      /\ cur' = cur
  BY DEF Commit, Release, Read
<1>2. \A v \in Version : db'[KeyRow(v)] \in KeyValue
  BY <1>1, AllRows DEF StorageTyped
<1>3. \A m \in Migration : db'[MigrationRow(m)] \in BOOLEAN
  BY <1>1, AllRows DEF StorageTyped
<1>4. lock' \in [Row -> Tx \cup {NoTx}]
  BY <1>1 DEF StorageTyped
<1>5. db' = [r \in Row |-> db'[r]]
  BY <1>1
<1> QED
  BY <1>1, <1>2, <1>3, <1>4, <1>5 DEF StorageTyped

\* Request t goes on as next, the others as they were, or overtaken.
Goes(t, next) ==
    /\ job' = [u \in Tx |-> job'[u]] /\ job'[t] = next
    /\ \A u \in Tx \ {t} : \/ job'[u] = job[u]
                           \/ job[u].pc # "idle" /\ job'[u] = [job[u] EXCEPT !.overtaken = TRUE]

LEMMA SetGoes ==
  ASSUME TInv, NEW t \in Tx, NEW next, job' = [job EXCEPT ![t] = next]
  PROVE  Goes(t, next)
  BY DEF Goes, TInv, TypeOK, RequestsTyped

LEMMA OvertakingGoes ==
  ASSUME NEW t \in Tx, NEW next, NEW S, job' = Overtaking(t, next, S)
  PROVE  Goes(t, next)
  BY DEF Goes, Overtaking, At

\* The other requests keep their types.
LEMMA RequestsKept ==
  ASSUME TInv, NEW t \in Tx, NEW next, Goes(t, next), Asks(next)
  PROVE  job' \in [Tx -> Job] /\ \A u \in Tx : Asks(job[u])'
<1>1. ASSUME NEW u \in Tx \ {t} PROVE Asks(job'[u])
  <2>1. Asks(job[u])
    BY DEF TInv
  <2>2. CASE job'[u] = job[u]
    BY <2>1, <2>2
  <2>3. CASE job'[u] = [job[u] EXCEPT !.overtaken = TRUE] /\ job[u].op # "none"
    <3>1. PICK n : n = [job[u] EXCEPT !.overtaken = TRUE]
      OBVIOUS
    <3>2. /\ n \in Job /\ n.op = job[u].op /\ n.home = job[u].home /\ n.denom = job[u].denom
          /\ n.version = job[u].version
      BY <2>1, <3>1 DEF Asks, Job
    <3>3. n.pc = job[u].pc /\ n.signed = job[u].signed /\ n.old = job[u].old /\ n.got = job[u].got
      BY <2>1, <3>1 DEF Asks, Job
    <3> QED
      BY <2>1, <2>3, <3>1, <3>2, <3>3 DEF Asks
  <2>4. job[u].pc # "idle" => job[u].op # "none"
    BY <2>1 DEF Asks, Idle
  <2> QED
    BY <2>2, <2>3, <2>4 DEF Goes
<1>2. \A u \in Tx : Asks(job'[u])
  BY <1>1 DEF Goes
<1>3. job' \in [Tx -> Job]
  BY <1>2 DEF Goes, Asks
<1> QED
  BY <1>2, <1>3 DEF Asks, Idle

LEMMA Bounds ==
  /\ 0 \in 0..MaxVersion /\ 0 \in 0..(MaxVersion + 1)
  /\ \A v \in Version : v \in 0..MaxVersion /\ v \in 0..(MaxVersion + 1) /\ v # 0
  BY BoundAssumption DEF Version

\* What a step of one request has to keep.
LEMMA TypedBy ==
  ASSUME TInv, NEW t \in Tx, NEW next, Goes(t, next), Asks(next), StorageTyped', CachesTyped',
         proc' \in [Process -> {"down", "booting", "up"}],
         past' \subseteq Version, tainted' \subseteq Process \X Version
  PROVE  TInv'
<1>1. job' \in [Tx -> Job] /\ \A u \in Tx : Asks(job[u])'
  BY RequestsKept
<1> QED
  BY <1>1 DEF TInv, TypeOK, RequestsTyped

LEMMA SameTables ==
  ASSUME StorageTyped, UNCHANGED storage
  PROVE  StorageTyped'
  BY DEF StorageTyped, storage

LEMMA GoOnTyped ==
  ASSUME TInv, NEW t \in Tx, NEW next, GoOn(t, next), Asks(next)
  PROVE  TInv'
<1>1. Goes(t, next)
  BY SetGoes DEF GoOn
<1>2. StorageTyped' /\ CachesTyped'
  BY SameTables DEF GoOn, memory, TInv, TypeOK, CachesTyped
<1>3. proc' = proc /\ past' = past /\ tainted' = tainted
  BY DEF GoOn, memory
<1> QED
  BY <1>1, <1>2, <1>3, TypedBy DEF TInv, TypeOK, RequestsTyped

LEMMA UpdateTyped ==
  ASSUME TInv, NEW t \in Tx, NEW row, NEW x, NEW next, Update(t, row, x, next), Asks(next),
         \A v \in Version : row = KeyRow(v) => x \in KeyValue,
         \A m \in Migration : row = MigrationRow(m) => x \in BOOLEAN
  PROVE  TInv'
<1>1. Goes(t, next)
  BY SetGoes DEF Update
<1>2. StorageTyped'
  BY WriteTyped DEF Update, TInv, TypeOK
<1>3. CachesTyped' /\ proc' = proc /\ past' = past /\ tainted' = tainted
  BY DEF Update, memory, TInv, TypeOK, CachesTyped
<1> QED
  BY <1>1, <1>2, <1>3, TypedBy DEF TInv, TypeOK, RequestsTyped

LEMMA ThrowTyped ==
  ASSUME TInv, NEW t \in Tx, Throw(t)
  PROVE  TInv'
<1>1. Goes(t, Idle)
  BY SetGoes DEF Throw
<1>2. StorageTyped'
  <2>1. /\ db' = db
        /\ cur' = [r \in Row |-> IF lock[r] \in {t} THEN db[r] ELSE cur[r]]
        /\ lock' = [r \in Row |-> IF lock[r] \in {t} THEN NoTx ELSE lock[r]]
    BY DEF Throw, Rollback, Release
  <2> QED
    BY <2>1, RollbackTyped DEF TInv, TypeOK
<1>3. proc' \in [Process -> {"down", "booting", "up"}]
  BY DEF Throw, TInv, TypeOK, RequestsTyped
<1>4. CachesTyped' /\ past' = past /\ tainted' = tainted
  BY DEF Throw, TInv, TypeOK, CachesTyped
<1> QED
  BY <1>1, <1>2, <1>3, <1>4, IdleAsks, TypedBy DEF TInv, TypeOK

\* What the caller of getOrGenerate goes on as.
LEMMA ContinueAsks ==
  ASSUME NEW r, Asks(r), r.op \notin {"none", "check"}, NEW v \in Version,
         NEW next, next = Continue([r EXCEPT !.got = 0, !.fresh = 0], v)
  PROVE  Asks(next)
<1>1. PICK s : s = [r EXCEPT !.got = 0, !.fresh = 0]
  OBVIOUS
<1>2. SameRequest(s, r)
  BY <1>1, Bounds DEF Asks, Job, SameRequest
<1>3. Asks(s) /\ s.op \notin {"none", "check"}
  BY <1>2, AsksOn DEF SameRequest
<1>4. v \in 0..MaxVersion
  BY Bounds
<1>5. ASSUME next = [s EXCEPT !.pc = "retire", !.old = v] PROVE Asks(next)
  <2>1. SameRequest(next, s)
    BY <1>3, <1>4, <1>5 DEF Asks, Job, Label, SameRequest
  <2> QED
    BY <1>3, <2>1, AsksOn DEF SameRequest
<1>6. ASSUME next = [s EXCEPT !.pc = "answer", !.named = v] PROVE Asks(next)
  <2>1. SameRequest(next, s)
    BY <1>3, <1>4, <1>6 DEF Asks, Job, Label, SameRequest
  <2> QED
    BY <1>3, <2>1, AsksOn DEF SameRequest
<1>7. ASSUME next = [s EXCEPT !.pc = "name", !.signed = v] PROVE Asks(next)
  <2>1. SameRequest(next, s)
    BY <1>3, <1>4, <1>7 DEF Asks, Job, Label, SameRequest
  <2> QED
    BY <1>3, <2>1, AsksOn DEF SameRequest
<1> QED
  BY <1>1, <1>5, <1>6, <1>7, IdleAsks DEF Continue

LEMMA ObtainedTyped ==
  ASSUME TInv, NEW t \in Tx, NEW v \in Version, job[t].op \notin {"none", "check"}, Obtained(t, v),
         CachesTyped', tainted' \subseteq Process \X Version
  PROVE  TInv'
<1>1. PICK next : next = Continue([job[t] EXCEPT !.got = 0, !.fresh = 0], v)
  OBVIOUS
<1>2. Asks(next)
  BY <1>1, ContinueAsks DEF TInv
<1>3. Goes(t, next)
  BY <1>1, SetGoes DEF Obtained
<1>4. StorageTyped' /\ past' = past
  BY SameTables DEF Obtained, TInv, TypeOK
<1>5. proc' \in [Process -> {"down", "booting", "up"}]
  BY DEF Obtained, TInv, TypeOK, RequestsTyped
<1> QED
  BY <1>2, <1>3, <1>4, <1>5, TypedBy DEF TInv, TypeOK

\* Requests arrive.
LEMMA BeginTyped ==
  ASSUME TInv, KInv, NEW t \in Tx, Begin(t)
  PROVE  TInv'
<1>1. ASSUME NEW request, Start(t, request), request \in Job, request.op # "none",
             request.pc \in {"get", "look"},
             request.op = "check" => request.version \in Version /\ request.signed = 0 /\ request.old = 0
      PROVE  TInv'
  <2>1. PICK p \in Process : GoOn(t, [request EXCEPT !.home = p])
    BY <1>1 DEF Start
  <2>2. PICK next : next = [request EXCEPT !.home = p]
    OBVIOUS
  <2>3. /\ next \in Job /\ next.op = request.op /\ next.pc = request.pc /\ next.home = p
        /\ next.version = request.version /\ next.signed = request.signed /\ next.old = request.old
    BY <1>1, <2>2 DEF Job
  <2>4. Asks(next)
    BY <1>1, <2>3 DEF Asks
  <2> QED
    BY <2>1, <2>2, <2>4, GoOnTyped
<1>2. Idle \in Job
  BY IdleAsks DEF Asks
<1>3. ASSUME NEW d \in Denom, BeginKey(t, d) PROVE TInv'
  <2>1. PICK request : request = [Idle EXCEPT !.op = "key", !.pc = "get", !.denom = d]
    OBVIOUS
  <2>2. request \in Job /\ request.op = "key" /\ request.pc = "get"
    BY <1>2, <2>1 DEF Job, Op, Label
  <2> QED
    BY <1>1, <1>3, <2>1, <2>2 DEF BeginKey
<1>4. ASSUME NEW d \in Denom, BeginRotate(t, d) PROVE TInv'
  <2>1. PICK request : request = [Idle EXCEPT !.op = "rotate", !.pc = "get", !.denom = d]
    OBVIOUS
  <2>2. request \in Job /\ request.op = "rotate" /\ request.pc = "get"
    BY <1>2, <2>1 DEF Job, Op, Label
  <2> QED
    BY <1>1, <1>4, <2>1, <2>2 DEF BeginRotate
<1>5. ASSUME NEW v \in Version, BeginCheck(t, v) PROVE TInv'
  <2>1. PICK request : request = [Idle EXCEPT !.op = "check", !.pc = "look", !.version = v]
    OBVIOUS
  <2>2. /\ request \in Job /\ request.op = "check" /\ request.pc = "look" /\ request.version = v
        /\ request.signed = 0 /\ request.old = 0
    BY <1>2, <1>5, <2>1, Bounds DEF Job, Op, Label, Idle
  <2> QED
    BY <1>1, <1>5, <2>1, <2>2 DEF BeginCheck
<1>6. ASSUME NEW v \in Version, BeginSign(t, v) PROVE TInv'
  <2>1. PICK d \in Denom : d = db[KeyRow(v)].denom
    BY <1>6 DEF BeginSign, KInv, VersionsInv
  <2>2. PICK request : request = [Idle EXCEPT !.op = "sign", !.pc = "get", !.version = v, !.denom = d]
    OBVIOUS
  <2>3. request \in Job /\ request.op = "sign" /\ request.pc = "get"
    BY <1>2, <1>6, <2>2, Bounds DEF Job, Op, Label
  <2> QED
    BY <1>1, <1>6, <2>1, <2>2, <2>3 DEF BeginSign
<1>7. ASSUME NEW p \in Process, Boot(t, p) PROVE TInv'
  <2>1. PICK next : next = [Idle EXCEPT !.op = "boot", !.pc = "baseline", !.home = p,
                                        !.denom = BootDenom]
    OBVIOUS
  <2>2. next \in Job /\ next.op = "boot" /\ next.home = p
    BY <1>2, <2>1, DenomAssumption DEF Job, Op, Label
  <2>3. Asks(next)
    BY <2>2 DEF Asks
  <2>4. Goes(t, next)
    BY <1>7, <2>1, SetGoes DEF Boot
  <2>5. StorageTyped' /\ CachesTyped'
    BY <1>7, SameTables DEF Boot, TInv, TypeOK, CachesTyped
  <2>6. proc' \in [Process -> {"down", "booting", "up"}] /\ past' = past /\ tainted' = tainted
    BY <1>7 DEF Boot, TInv, TypeOK, RequestsTyped
  <2> QED
    BY <2>3, <2>4, <2>5, <2>6, TypedBy DEF TInv, TypeOK
<1> QED
  BY <1>3, <1>4, <1>5, <1>6, <1>7 DEF Begin

\* The statements of a boot.
LEMMA BootTyped ==
  ASSUME TInv, KInv, NEW t \in Tx, ~Throw(t), BaselineSelect(t) \/ AppliedSelect(t) \/ Record(t)
  PROVE  TInv'
<1>1. job[t].pc \in {"baseline", "applied", "record"}
  BY DEF BaselineSelect, AppliedSelect, Record, At
<1>2. Asks(job[t]) /\ job[t].op \notin {"none", "check"}
  BY <1>1, Purpose DEF TInv
<1>3. ASSUME NEW next, SameRequest(next, job[t]) PROVE Asks(next)
  BY <1>2, <1>3, AsksOn DEF SameRequest
<1>4. CASE BaselineSelect(t)
  <2>1. 1 \in Migration
    BY BoundAssumption DEF Migration
  <2>2. PICK next : /\ GoOn(t, next)
                    /\ next \in {[job[t] EXCEPT !.pc = "applied"],
                                 [job[t] EXCEPT !.pc = "record", !.todo = {1}]}
    BY <1>4 DEF BaselineSelect
  <2>3. ASSUME next = [job[t] EXCEPT !.pc = "applied"] PROVE SameRequest(next, job[t])
    BY <1>2, <2>3 DEF Asks, Job, Label, SameRequest
  <2>4. ASSUME next = [job[t] EXCEPT !.pc = "record", !.todo = {1}] PROVE SameRequest(next, job[t])
    <3>1. PICK left \in SUBSET Migration : left = {1}
      BY <2>1
    <3>2. next = [job[t] EXCEPT !.pc = "record", !.todo = left]
      BY <2>4, <3>1
    <3> QED
      BY <1>2, <3>2 DEF Asks, Job, Label, SameRequest
  <2>5. SameRequest(next, job[t])
    BY <2>2, <2>3, <2>4
  <2> QED
    BY <1>3, <2>2, <2>5, GoOnTyped
<1>5. CASE AppliedSelect(t)
  <2>1. PICK label \in Label, left \in SUBSET Migration :
           GoOn(t, [job[t] EXCEPT !.pc = label, !.todo = left])
    <3> DEFINE left == {m \in Migration : ~db[MigrationRow(m)]}
               label == IF left = {} THEN "get" ELSE "record"
    <3>1. left \in SUBSET Migration
      OBVIOUS
    <3>2. label \in Label
      BY DEF Label
    <3>3. GoOn(t, [job[t] EXCEPT !.pc = label, !.todo = left])
      BY <1>5 DEF AppliedSelect
    <3> QED
      BY <3>1, <3>2, <3>3
  <2>2. PICK next : next = [job[t] EXCEPT !.pc = label, !.todo = left]
    OBVIOUS
  <2>3. SameRequest(next, job[t])
    BY <1>2, <2>2 DEF Asks, Job, SameRequest
  <2> QED
    BY <1>3, <2>1, <2>2, <2>3, GoOnTyped
<1>6. CASE Record(t)
  <2>1. PICK next : next = [job[t] EXCEPT !.pc = "commit"]
    OBVIOUS
  <2>2. SameRequest(next, job[t])
    BY <1>2, <2>1 DEF Asks, Job, Label, SameRequest
  <2>3. PICK row : row = MigrationRow(Min(job[t].todo))
    OBVIOUS
  <2>4. Update(t, row, TRUE, next)
    BY <1>6, <2>1, <2>3 DEF Record
  <2>5. \A v \in Version : row # KeyRow(v)
    BY <2>3, AllRows
  <2> QED
    BY <1>3, <2>2, <2>4, <2>5, UpdateTyped
<1> QED
  BY <1>4, <1>5, <1>6

\* The statements of getOrGenerate.
LEMMA GetTyped ==
  ASSUME TInv, KInv, NEW t \in Tx, Get(t)
  PROVE  TInv'
<1>1. job[t].pc \in {"get", "name"}
  BY DEF Get
<1>2. /\ Asks(job[t]) /\ job[t].op \notin {"none", "check"} /\ job[t].home \in Process
      /\ job[t].denom \in Denom
  BY <1>1, Purpose DEF TInv
<1>3. ASSUME NEW next, GoOn(t, next), SameRequest(next, job[t]) PROVE TInv'
  <2>1. Asks(next)
    BY <1>2, <1>3, AsksOn DEF SameRequest
  <2> QED
    BY <1>3, <2>1, GoOnTyped
<1>4. PICK cached : cached = activeCache[job[t].home][job[t].denom]
  OBVIOUS
<1>5. CASE cached # 0 /\ Obtained(t, cached) /\ UNCHANGED <<activeCache, tainted>>
  <2>1. cached \in Version
    BY <1>2, <1>4, <1>5 DEF KInv, CachesInv, IsOf
  <2>2. CachesTyped' /\ tainted' \subseteq Process \X Version
    BY <1>5 DEF Obtained, TInv, TypeOK, CachesTyped
  <2> QED
    BY <1>2, <1>5, <2>1, <2>2, ObtainedTyped
<1>6. ASSUME NEW v \in Version, NEW label \in {"keep", "seal"},
             GoOn(t, [job[t] EXCEPT !.got = v, !.pc = label])
      PROVE  TInv'
  <2>1. PICK next : next = [job[t] EXCEPT !.got = v, !.pc = label]
    OBVIOUS
  <2>2. SameRequest(next, job[t])
    BY <1>2, <2>1, Bounds DEF Asks, Job, Label, SameRequest
  <2> QED
    BY <1>3, <1>6, <2>1, <2>2
<1>7. ASSUME GoOn(t, [job[t] EXCEPT !.pc = "advisory"]) PROVE TInv'
  <2>1. PICK next : next = [job[t] EXCEPT !.pc = "advisory"]
    OBVIOUS
  <2>2. SameRequest(next, job[t])
    BY <1>2, <2>1 DEF Asks, Job, Label, SameRequest
  <2> QED
    BY <1>3, <1>7, <2>1, <2>2
<1> QED
  BY <1>4, <1>5, <1>6, <1>7 DEF Get

LEMMA SealTyped ==
  ASSUME TInv, IInv, KInv, NEW t \in Tx, Seal(t)
  PROVE  TInv'
<1>1. Asks(job[t]) /\ job[t].pc = "seal" /\ job[t].op # "none"
  BY DEF TInv, Seal, At, KInv, RInv, Aims
<1>2. PICK label \in {"remember", "keep"} : job' = [job EXCEPT ![t].pc = label]
  BY DEF Seal
<1>3. PICK next : next = [job[t] EXCEPT !.pc = label]
  OBVIOUS
<1>4. SameRequest(next, job[t]) /\ next.signed = job[t].signed /\ next.old = job[t].old
      /\ next.got = job[t].got
  BY <1>1, <1>3 DEF Asks, Job, Label, SameRequest
<1>5. Asks(next)
  <2>1. next.op = "check" => next.got = next.version
    BY <1>1, <1>4 DEF Asks, SameRequest
  <2> QED
    BY <1>1, <1>4, <2>1, AsksOn
<1>6. Goes(t, next)
  BY <1>2, <1>3, SetGoes DEF TInv, TypeOK, RequestsTyped
<1>7. StorageTyped'
  <2>1. PICK v \in Version : job[t].got = v
    BY <1>1 DEF Asks, KInv, RInv, Knows, IsOf
  <2>2. /\ db' = [db EXCEPT ![KeyRow(v)].sealed = TRUE] /\ cur' = [cur EXCEPT ![KeyRow(v)].sealed = TRUE]
        /\ lock' = lock
    BY <2>1 DEF Seal
  <2>3. db = [r \in Row |-> db[r]] /\ cur = [r \in Row |-> cur[r]]
        /\ db[KeyRow(v)] \in KeyValue /\ cur[KeyRow(v)] \in KeyValue
    BY DEF TInv, TypeOK, StorageTyped
  <2>4. [db[KeyRow(v)] EXCEPT !.sealed = TRUE] \in KeyValue
        /\ [cur[KeyRow(v)] EXCEPT !.sealed = TRUE] \in KeyValue
    BY <2>3 DEF KeyValue
  <2>5. \A r \in Row : /\ db'[r] = IF r = KeyRow(v) THEN [db[KeyRow(v)] EXCEPT !.sealed = TRUE] ELSE db[r]
                       /\ cur'[r] = IF r = KeyRow(v) THEN [cur[KeyRow(v)] EXCEPT !.sealed = TRUE] ELSE cur[r]
    BY <2>2, <2>3
  <2>6. db' = [r \in Row |-> db'[r]] /\ cur' = [r \in Row |-> cur'[r]]
    BY <2>2, <2>3
  <2>7. \A w \in Version : db'[KeyRow(w)] \in KeyValue /\ cur'[KeyRow(w)] \in KeyValue
    <3> SUFFICES ASSUME NEW w \in Version PROVE db'[KeyRow(w)] \in KeyValue /\ cur'[KeyRow(w)] \in KeyValue
      OBVIOUS
    <3>1. KeyRow(w) \in Row /\ db[KeyRow(w)] \in KeyValue /\ cur[KeyRow(w)] \in KeyValue
      BY AllRows DEF TInv, TypeOK, StorageTyped
    <3> QED
      BY <2>4, <2>5, <3>1
  <2>8. \A m \in Migration : db'[MigrationRow(m)] \in BOOLEAN /\ cur'[MigrationRow(m)] \in BOOLEAN
    <3> SUFFICES ASSUME NEW m \in Migration
                 PROVE  db'[MigrationRow(m)] \in BOOLEAN /\ cur'[MigrationRow(m)] \in BOOLEAN
      OBVIOUS
    <3>1. MigrationRow(m) \in Row /\ db[MigrationRow(m)] \in BOOLEAN /\ cur[MigrationRow(m)] \in BOOLEAN
          /\ MigrationRow(m) # KeyRow(v)
      BY AllRows DEF TInv, TypeOK, StorageTyped
    <3>2. db'[MigrationRow(m)] = db[MigrationRow(m)] /\ cur'[MigrationRow(m)] = cur[MigrationRow(m)]
      BY <2>5, <3>1
    <3> QED
      BY <3>1, <3>2
  <2>9. lock' \in [Row -> Tx \cup {NoTx}]
    BY <2>2 DEF TInv, TypeOK, StorageTyped
  <2> QED
    BY <2>6, <2>7, <2>8, <2>9 DEF StorageTyped
<1>8. CachesTyped' /\ proc' = proc /\ past' = past /\ tainted' = tainted
  BY DEF Seal, memory, TInv, TypeOK, CachesTyped
<1> QED
  BY <1>5, <1>6, <1>7, <1>8, TypedBy DEF TInv, TypeOK, RequestsTyped

LEMMA KeepTyped ==
  ASSUME TInv, KInv, NEW t \in Tx, Keep(t)
  PROVE  TInv'
<1>1. job[t].pc = "keep"
  BY DEF Keep, At
<1>2. job[t].op \notin {"none", "check"} /\ job[t].home \in Process /\ job[t].denom \in Denom
  BY <1>1, Purpose
<1>3. job[t].got \in Version
  BY <1>1, <1>2 DEF KInv, RInv, Knows, IsOf
<1>4. CachesTyped'
  BY <1>2, <1>3, Bounds DEF Keep, Obtained, TInv, TypeOK, CachesTyped
<1>5. tainted' \subseteq Process \X Version
  BY <1>2, <1>3 DEF Keep, TaintIf, TInv, TypeOK
<1> QED
  BY <1>2, <1>3, <1>4, <1>5, ObtainedTyped DEF Keep

LEMMA GenerateTyped ==
  ASSUME TInv, KInv, NEW t \in Tx, ~Throw(t), Advisory(t) \/ MaxSelect(t) \/ Insert(t) \/ Retire(t)
  PROVE  TInv'
<1>1. job[t].pc \in {"advisory", "max", "insert", "retire"}
  BY DEF Advisory, MaxSelect, Insert, Retire, At
<1>2. Asks(job[t]) /\ job[t].op \notin {"none", "check"} /\ job[t].denom \in Denom
  BY <1>1, Purpose DEF TInv
<1>3. ASSUME NEW next, SameRequest(next, job[t]) PROVE Asks(next)
  BY <1>2, <1>3, AsksOn DEF SameRequest
<1>4. ASSUME NEW label \in {"max", "commit"}, NEW next, next = [job[t] EXCEPT !.pc = label]
      PROVE  Asks(next)
  <2>1. SameRequest(next, job[t])
    BY <1>2, <1>4 DEF Asks, Job, Label, SameRequest
  <2> QED
    BY <1>3, <2>1
<1>5. CASE Advisory(t)
  <2>1. PICK next : next = [job[t] EXCEPT !.pc = "max"]
    OBVIOUS
  <2>2. Update(t, AdvisoryRow, cur[AdvisoryRow], next)
    BY <1>5, <2>1 DEF Advisory
  <2> QED
    BY <1>4, <2>1, <2>2, UpdateTyped, AllRows
<1>6. CASE MaxSelect(t)
  <2>1. PICK n : n = Max(Used(View(t)) \cup {0}) + 1
    OBVIOUS
  <2>2. n \in 0..(MaxVersion + 1)
    <3>1. Used(View(t)) \cup {0} \in SUBSET (0..MaxVersion)
      BY Bounds DEF Used
    <3>2. Used(View(t)) \cup {0} # {}
      OBVIOUS
    <3>3. Max(Used(View(t)) \cup {0}) \in 0..MaxVersion
      BY <3>1, <3>2, MaxIs, BoundAssumption
    <3> QED
      BY <2>1, <3>3, BoundAssumption
  <2>3. PICK next : next = [job[t] EXCEPT !.pc = "insert", !.fresh = n]
    OBVIOUS
  <2>4. SameRequest(next, job[t])
    BY <1>2, <2>2, <2>3 DEF Asks, Job, Label, SameRequest
  <2>5. GoOn(t, next)
    BY <1>6, <2>1, <2>3 DEF MaxSelect
  <2> QED
    BY <1>3, <2>4, <2>5, GoOnTyped
<1>7. CASE Insert(t)
  <2>1. PICK next : next = [job[t] EXCEPT !.pc = "commit"]
    OBVIOUS
  <2>2. PICK x : x = [status |-> "active", denom |-> job[t].denom, sealed |-> TRUE]
    OBVIOUS
  <2>3. x \in KeyValue
    BY <1>2, <2>2 DEF KeyValue
  <2>4. Update(t, KeyRow(job[t].fresh), x, next)
    BY <1>7, <2>1, <2>2 DEF Insert
  <2> QED
    BY <1>4, <2>1, <2>3, <2>4, UpdateTyped, AllRows
<1>8. CASE Retire(t)
  <2>1. PICK next : next = [job[t] EXCEPT !.pc = "max"]
    OBVIOUS
  <2>2. CASE GoOn(t, next)
    BY <1>4, <2>1, <2>2, GoOnTyped
  <2>3. CASE Update(t, KeyRow(job[t].old), [cur[KeyRow(job[t].old)] EXCEPT !.status = "retired"], next)
    <3>1. job[t].old \in Version
      BY <1>8 DEF Retire, At, KInv, RInv, Knows, IsOf
    <3>2. cur[KeyRow(job[t].old)] \in KeyValue
      BY <3>1 DEF TInv, TypeOK, StorageTyped
    <3>3. PICK x : x = [cur[KeyRow(job[t].old)] EXCEPT !.status = "retired"]
      OBVIOUS
    <3>4. x \in KeyValue
      BY <3>2, <3>3 DEF KeyValue
    <3> QED
      BY <1>4, <2>1, <2>3, <3>3, <3>4, UpdateTyped, AllRows
  <2> QED
    BY <1>8, <2>1, <2>2, <2>3 DEF Retire
<1> QED
  BY <1>5, <1>6, <1>7, <1>8

\* The end of a transaction, and of a rotation.
LEMMA CommitTxTyped ==
  ASSUME TInv, KInv, NEW t \in Tx, CommitTx(t)
  PROVE  TInv'
<1>1. job[t].pc = "commit" /\ Commit(t)
  BY DEF CommitTx, At
<1>2. Asks(job[t]) /\ job[t].op \notin {"none", "check"}
  BY <1>1, Purpose DEF TInv
<1>3. PICK next : next = AfterCommit(job[t])
  OBVIOUS
<1>4. SameRequest(next, job[t])
  <2>1. ASSUME NEW label \in Label, next = [job[t] EXCEPT !.pc = label] PROVE SameRequest(next, job[t])
    BY <1>2, <2>1 DEF Asks, Job, SameRequest
  <2>2. ASSUME NEW label \in Label, NEW left \in SUBSET Migration,
               next = [job[t] EXCEPT !.pc = label, !.todo = left]
        PROVE  SameRequest(next, job[t])
    BY <1>2, <2>2 DEF Asks, Job, SameRequest
  <2>3. CASE job[t].todo = {1}
    <3>1. next = [job[t] EXCEPT !.pc = "applied", !.todo = {}]
      BY <1>3, <2>3 DEF AfterCommit
    <3>2. "applied" \in Label /\ {} \in SUBSET Migration
      BY DEF Label
    <3> QED
      BY <2>2, <3>1, <3>2
  <2>4. CASE job[t].todo # {1} /\ job[t].todo # {}
    <3>1. PICK left : left = job[t].todo \ {Min(job[t].todo)}
      OBVIOUS
    <3>2. PICK label \in Label : label = IF left = {} THEN "get" ELSE "record"
      BY DEF Label
    <3>3. left \in SUBSET Migration
      BY <1>2, <3>1 DEF Asks, Job
    <3>4. next = [job[t] EXCEPT !.todo = left, !.pc = label]
      BY <1>3, <2>4, <3>1, <3>2 DEF AfterCommit
    <3> QED
      BY <1>2, <3>3, <3>4 DEF Asks, Job, SameRequest
  <2>5. CASE job[t].todo = {} /\ job[t].old # 0
    BY <1>3, <2>1, <2>5 DEF AfterCommit, Label
  <2>6. CASE job[t].todo = {} /\ job[t].old = 0
    <3>1. next = [job[t] EXCEPT !.pc = "keep", !.got = job[t].fresh]
      BY <1>3, <2>6 DEF AfterCommit
    <3>2. job[t].fresh \in Version
      BY <1>1, <2>6 DEF KInv, RInv, HoldsKeys
    <3>3. PICK v \in Version : v = job[t].fresh
      BY <3>2
    <3>4. next = [job[t] EXCEPT !.pc = "keep", !.got = v]
      BY <3>1, <3>3
    <3> QED
      BY <1>2, <3>4, Bounds DEF Asks, Job, Label, SameRequest
  <2> QED
    BY <2>3, <2>4, <2>5, <2>6
<1>5. Asks(next)
  BY <1>2, <1>4, AsksOn DEF SameRequest
<1>6. Goes(t, next)
  BY <1>3, OvertakingGoes DEF CommitTx
<1>7. StorageTyped'
  BY <1>1, CommitTyped DEF TInv, TypeOK
<1>8. CachesTyped' /\ proc' = proc /\ past' = past
  BY DEF CommitTx, memory, TInv, TypeOK, CachesTyped
<1>9. tainted' \subseteq Process \X Version
  <2>1. job[t].old # 0 => job[t].old \in Version
    BY <1>2, BoundAssumption DEF Asks, Job, Version
  <2> QED
    BY <2>1 DEF CommitTx, TInv, TypeOK
<1> QED
  BY <1>5, <1>6, <1>7, <1>8, <1>9, TypedBy DEF TInv, TypeOK, RequestsTyped

LEMMA ForgetTyped ==
  ASSUME TInv, KInv, NEW t \in Tx, Forget(t)
  PROVE  TInv'
<1>1. Asks(job[t]) /\ job[t].op \notin {"none", "check"}
  BY Purpose DEF TInv, Forget, At
<1>2. PICK next : next = [job[t] EXCEPT !.pc = "log"]
  OBVIOUS
<1>3. SameRequest(next, job[t])
  BY <1>1, <1>2 DEF Asks, Job, Label, SameRequest
<1>4. Asks(next)
  BY <1>1, <1>3, AsksOn DEF SameRequest
<1>5. Goes(t, next)
  BY <1>2, OvertakingGoes DEF Forget
<1>6. StorageTyped' /\ proc' = proc /\ past' = past
  BY SameTables DEF Forget, TInv, TypeOK
<1>7. CachesTyped'
  BY Bounds DEF Forget, TInv, TypeOK, CachesTyped
<1>8. tainted' \subseteq Process \X Version
  BY DEF Forget, TInv, TypeOK
<1> QED
  BY <1>4, <1>5, <1>6, <1>7, <1>8, TypedBy DEF TInv, TypeOK, RequestsTyped

\* A lookup by version; what answers and logs leaves nothing.
LEMMA LookTyped ==
  ASSUME TInv, KInv, NEW t \in Tx, ~Throw(t), Look(t) \/ Remember(t) \/ Answer(t) \/ LogRotation(t)
  PROVE  TInv'
<1>1. CASE Answer(t) \/ LogRotation(t)
  BY <1>1, IdleAsks, GoOnTyped DEF Answer, LogRotation
<1>2. ASSUME job[t].pc \in {"look", "remember"}
      PROVE  Asks(job[t]) /\ job[t].op = "check" /\ job[t].home \in Process /\ job[t].version \in Version
  BY <1>2 DEF TInv, KInv, RInv, Aims, Asks
<1>3. ASSUME NEW status \in {"none", "active", "retired"}, NEW next, next = Judged(t, status),
             Asks(job[t]), job[t].op = "check"
      PROVE  Asks(next)
  <2>1. SameRequest(next, job[t]) /\ next.signed = job[t].signed /\ next.old = job[t].old
        /\ next.pc = "answer"
    BY <1>3, Bounds DEF Judged, Asks, Job, Label, SameRequest
  <2> QED
    BY <1>3, <2>1, AsksOn
<1>4. CASE Look(t)
  <2>1. Asks(job[t]) /\ job[t].op = "check" /\ job[t].home \in Process /\ job[t].version \in Version
    BY <1>2, <1>4 DEF Look, At
  <2>2. PICK cached \in {"none", "active", "retired"} : cached = versionCache[job[t].home][job[t].version]
    BY <2>1 DEF TInv, TypeOK, CachesTyped
  <2>3. CASE GoOn(t, Judged(t, cached))
    BY <1>3, <2>1, <2>3, GoOnTyped
  <2>4. PICK status \in {"none", "active", "retired"} : status = db[KeyRow(job[t].version)].status
    BY <2>1 DEF TInv, TypeOK, StorageTyped, KeyValue
  <2>5. ASSUME NEW label \in {"remember", "seal"},
               GoOn(t, [job[t] EXCEPT !.got = job[t].version, !.read = status, !.pc = label])
        PROVE  TInv'
    <3>1. PICK next : next = [job[t] EXCEPT !.got = job[t].version, !.read = status, !.pc = label]
      OBVIOUS
    <3>2. SameRequest(next, job[t]) /\ next.signed = job[t].signed /\ next.old = job[t].old
          /\ next.got = next.version
      BY <2>1, <3>1, Bounds DEF Asks, Job, Label, SameRequest
    <3>3. Asks(next)
      BY <2>1, <3>2, AsksOn
    <3> QED
      BY <2>5, <3>1, <3>3, GoOnTyped
  <2> QED
    BY <1>4, <2>2, <2>3, <2>4, <2>5 DEF Look
<1>5. CASE Remember(t)
  <2>1. Asks(job[t]) /\ job[t].op = "check" /\ job[t].home \in Process /\ job[t].version \in Version
        /\ job[t].got = job[t].version /\ job[t].read \in {"none", "active", "retired"}
    BY <1>2, <1>5 DEF Remember, At, Asks, Job
  <2>2. PICK next : next = Judged(t, job[t].read)
    OBVIOUS
  <2>3. Asks(next)
    BY <1>3, <2>1, <2>2
  <2>4. Goes(t, next)
    BY <1>5, <2>2, SetGoes DEF Remember
  <2>5. StorageTyped' /\ proc' = proc /\ past' = past
    BY <1>5, SameTables DEF Remember, TInv, TypeOK
  <2>6. CachesTyped'
    BY <1>5, <2>1 DEF Remember, TInv, TypeOK, CachesTyped
  <2>7. tainted' \subseteq Process \X Version
    BY <1>5, <2>1 DEF Remember, TaintIf, TInv, TypeOK
  <2> QED
    BY <2>3, <2>4, <2>5, <2>6, <2>7, TypedBy DEF TInv, TypeOK, RequestsTyped
<1> QED
  BY <1>1, <1>4, <1>5

LEMMA CrashTyped ==
  ASSUME TInv, NEW p \in Process, Crash(p)
  PROVE  TInv'
<1>1. PICK mine : mine = {t \in Tx : job[t].home = p}
  OBVIOUS
<1>2. /\ db' = db
      /\ cur' = [r \in Row |-> IF lock[r] \in mine THEN db[r] ELSE cur[r]]
      /\ lock' = [r \in Row |-> IF lock[r] \in mine THEN NoTx ELSE lock[r]]
      /\ job' = [t \in Tx |-> IF t \in mine THEN Idle ELSE job[t]]
  BY <1>1 DEF Crash
<1>3. StorageTyped'
  BY <1>2, RollbackTyped DEF TInv, TypeOK
<1>4. \A t \in Tx : Asks(job'[t])
  BY <1>2, IdleAsks DEF TInv
<1>5. job' \in [Tx -> Job]
  BY <1>2, <1>4 DEF Asks
<1>6. proc' \in [Process -> {"down", "booting", "up"}] /\ CachesTyped'
  BY Bounds DEF Crash, TInv, TypeOK, RequestsTyped, CachesTyped
<1>7. past' \subseteq Version /\ tainted' \subseteq Process \X Version
  BY DEF Crash, TInv, TypeOK
<1> QED
  BY <1>3, <1>4, <1>5, <1>6, <1>7 DEF TInv, TypeOK, RequestsTyped, Asks, Idle

\* Types are kept.
LEMMA NextTInv == TInv /\ IInv /\ KInv /\ [Next]_vars => TInv'
<1> SUFFICES ASSUME TInv, IInv, KInv, [Next]_vars PROVE TInv'
  OBVIOUS
<1>1. ASSUME NEW t \in Tx, Step(t) PROVE TInv'
  <2>1. CASE Throw(t)
    BY <2>1, ThrowTyped
  <2>2. CASE ~Throw(t)
    BY <1>1, <2>2, BootTyped, GetTyped, SealTyped, KeepTyped, GenerateTyped, CommitTxTyped,
       ForgetTyped, LookTyped DEF Step
  <2> QED
    BY <2>1, <2>2
<1>2. ASSUME NEW t \in Tx, Begin(t) PROVE TInv'
  BY <1>2, BeginTyped
<1>3. ASSUME NEW v \in Version, GracePasses(v) PROVE TInv'
  <2>1. StorageTyped' /\ CachesTyped' /\ job' = job
    BY <1>3, SameTables DEF GracePasses, memory, TInv, TypeOK, CachesTyped
  <2>2. RequestsTyped' /\ tainted' = tainted /\ past' \subseteq Version
    BY <1>3, <2>1 DEF GracePasses, memory, TInv, TypeOK, RequestsTyped
  <2> QED
    BY <2>1, <2>2 DEF TInv, TypeOK, Asks, Idle
<1>4. ASSUME NEW p \in Process, Crash(p) PROVE TInv'
  BY <1>4, CrashTyped
<1>5. CASE UNCHANGED vars
  <2>1. UNCHANGED <<db, cur, lock, job, proc, activeCache, versionCache, past, tainted>>
    BY <1>5 DEF vars
  <2>2. StorageTyped'
    BY <2>1, SameTables DEF storage, TInv, TypeOK
  <2>3. RequestsTyped' /\ CachesTyped' /\ past' \subseteq Version /\ tainted' \subseteq Process \X Version
    BY <2>1 DEF TInv, TypeOK, RequestsTyped, CachesTyped
  <2> QED
    BY <2>1, <2>2, <2>3 DEF TInv, TypeOK, Asks, Idle
<1> QED
  BY <1>1, <1>2, <1>3, <1>4, <1>5 DEF Next

LEMMA InitTInv == KeyDbInit => TInv
<1> SUFFICES ASSUME KeyDbInit PROVE TInv
  OBVIOUS
<1>1. PICK legacy \in BOOLEAN :
         db = [r \in Row |->
                 IF r = KeyRow(1) /\ legacy
                   THEN [status |-> "active", denom |-> BootDenom, sealed |-> FALSE]
                 ELSE IF r[1] = "key" THEN NoKey
                 ELSE FALSE]
  BY DEF KeyDbInit
<1>2. ASSUME NEW v \in Version PROVE db[KeyRow(v)] \in KeyValue
  <2>1. KeyRow(v) \in Row /\ KeyRow(v)[1] = "key"
    BY Rows DEF KeyRow
  <2>2. db[KeyRow(v)] = NoKey \/ db[KeyRow(v)] = [status |-> "active", denom |-> BootDenom, sealed |-> FALSE]
    BY <1>1, <2>1
  <2>3. NoKey \in KeyValue
    BY DEF NoKey, KeyValue
  <2>4. [status |-> "active", denom |-> BootDenom, sealed |-> FALSE] \in KeyValue
    BY DenomAssumption DEF KeyValue
  <2> QED
    BY <2>2, <2>3, <2>4
<1>3. ASSUME NEW m \in Migration PROVE db[MigrationRow(m)] = FALSE
  <2>1. MigrationRow(m) \in Row /\ MigrationRow(m)[1] # "key" /\ MigrationRow(m) # KeyRow(1)
    BY AllRows DEF MigrationRow
  <2> QED
    BY <1>1, <2>1
<1>4. StorageTyped
  <2>1. cur = db /\ lock = [r \in Row |-> NoTx] /\ db = [r \in Row |-> db[r]]
    BY <1>1 DEF KeyDbInit
  <2> QED
    BY <1>2, <1>3, <2>1 DEF StorageTyped
<1>5. Idle \in Job
  BY IdleAsks DEF Asks
<1>6. RequestsTyped /\ CachesTyped /\ past = {} /\ tainted = {}
  BY <1>5, Bounds DEF KeyDbInit, RequestsTyped, CachesTyped
<1>7. \A t \in Tx : Asks(job[t])
  BY IdleAsks DEF KeyDbInit
<1> QED
  BY <1>4, <1>6, <1>7 DEF TInv, TypeOK

\* However requests overlap and processes die, tables, requests, caches and history keep their types.
THEOREM TypeOKAlways == Spec => []TypeOK
<1>1. TInv => TypeOK
  BY DEF TInv
<1> QED
  BY <1>1, InitIInv, NextIInv, InitKInv, NextKInv, InitTInv, NextTInv, PTL DEF Spec

-----------------------------------------------------------------------------
(***************************************************************************)
(* Boots and migrations.  A request runs in a process that is up, a boot   *)
(* in the one it boots, and a process is up only when every migration has  *)
(* been recorded.  A boot goes through them in order, and what it has left *)
(* to do is what it found missing.                                         *)
(***************************************************************************)
Serves(r) ==
    /\ r.op # "none" => proc[r.home] = IF r.op = "boot" THEN "booting" ELSE "up"
    /\ r.signed # 0 => r.op = "sign"

Migrated(m) == db[MigrationRow(m)]
AllMigrated == \A m \in Migration : Migrated(m)

Migrating(r) == r.pc = "record" \/ (r.pc = "commit" /\ r.todo # {})

Migrates(t, r) ==
    /\ r.pc \in {"baseline", "applied"} \/ Migrating(r) => r.op = "boot"
    /\ Migrating(r) => r.todo = {1} \/ \A m \in Migration \ r.todo : Migrated(m)
    /\ Migrating(r) => r.overtaken \/ \A m \in r.todo : ~Migrated(m)
    /\ r.op = "boot" /\ r.pc \notin {"baseline", "applied"} /\ ~Migrating(r) => AllMigrated
    /\ r.pc = "commit" /\ r.todo # {} => lock[MigrationRow(Min(r.todo))] = t
    /\ \A m \in Migration : lock[MigrationRow(m)] = t =>
          r.pc = "commit" /\ r.todo # {} /\ m = Min(r.todo) /\ cur[MigrationRow(m)]
    /\ lock[AdvisoryRow] = t => r.pc \in {"max", "insert", "commit"} /\ r.todo = {}

OneBoot == \A t, u \in Tx : job[t].op = "boot" /\ job[u].op = "boot" /\ job[t].home = job[u].home => t = u

\* A process that is not up has not cached anything yet.
Emptied ==
    \A p \in Process : proc[p] # "up" => /\ \A d \in Denom : activeCache[p][d] = 0
                                        /\ \A v \in Version : versionCache[p][v] = "none"

UpMigrated == \A p \in Process : proc[p] = "up" => AllMigrated

Gapless == \A m \in Migration \ {1} : Migrated(m) => Migrated(m - 1)

BInv == /\ OneBoot /\ Emptied /\ UpMigrated /\ Gapless
        /\ \A t \in Tx : Serves(job[t]) /\ Migrates(t, job[t])

-----------------------------------------------------------------------------
\* What others hold stays as it is.
LeftAlone(t) ==
    \A r \in Row : \A u \in Tx \ {t} : /\ lock'[r] = u <=> lock[r] = u
                                       /\ lock[r] = u => cur'[r] = cur[r] /\ db'[r] = db[r]

LEMMA SameLeaves ==
  ASSUME NEW t \in Tx, UNCHANGED storage
  PROVE  LeftAlone(t)
  BY DEF LeftAlone, storage

LEMMA WriteLeaves ==
  ASSUME TInv, NEW t \in Tx, NEW row, NEW x, Write(t, row, x)
  PROVE  LeftAlone(t)
<1>1. \A r \in Row : /\ cur'[r] = IF r = row THEN x ELSE cur[r]
                     /\ lock'[r] = IF r = row THEN t ELSE lock[r]
  BY DEF Write, TInv, TypeOK, StorageTyped
<1>2. db' = db /\ lock[row] \in {t, NoTx}
  BY DEF Write, Writable
<1> QED
  BY <1>1, <1>2, NoneAssumption DEF LeftAlone

LEMMA CommitLeaves ==
  ASSUME NEW t \in Tx, Commit(t)
  PROVE  LeftAlone(t)
  BY NoneAssumption DEF LeftAlone, Commit, Release, Read

LEMMA RollbackLeaves ==
  ASSUME NEW t \in Tx, Rollback(t)
  PROVE  LeftAlone(t)
  BY NoneAssumption DEF LeftAlone, Rollback, Release

\* What a request serves is told by its pc.
LEMMA Serving ==
  ASSUME TInv, KInv, NEW t \in Tx
  PROVE  /\ job[t].op = "none" <=> job[t].pc = "idle"
         /\ job[t].op # "none" => job[t].home \in Process
         /\ job[t].todo # {} => job[t].pc \in {"record", "commit"}
         /\ job[t].todo \in SUBSET Migration
         /\ job[t].pc = "record" => job[t].todo # {}
  BY DEF TInv, Asks, KInv, RInv, Aims, Job

\* The other requests.
LEMMA OthersBoot ==
  ASSUME TInv, BInv, NEW t \in Tx, NEW next, Goes(t, next), LeftAlone(t),
         \A m \in Migration : Migrated(m) => Migrated(m)',
         NEW u \in Tx \ {t},
         job[u].op # "none" => proc'[job[u].home] = proc[job[u].home],
         job[u].op = "boot" =>
            (job[u].pc # "idle" /\ job'[u] = [job[u] EXCEPT !.overtaken = TRUE]) \/ \A m \in Migration : Migrated(m) <=> Migrated(m)'
  PROVE  (Serves(job[u]) /\ Migrates(u, job[u]))'
<1>1. Serves(job[u]) /\ Migrates(u, job[u]) /\ job[u] \in Job
  BY DEF BInv, TInv, Asks
<1>2. PICK n : n = job'[u]
  OBVIOUS
<1>3. /\ n.op = job[u].op /\ n.pc = job[u].pc /\ n.home = job[u].home /\ n.todo = job[u].todo
      /\ n.signed = job[u].signed
      /\ job[u].overtaken => n.overtaken
      /\ job'[u] = [job[u] EXCEPT !.overtaken = TRUE] => n.overtaken
  BY <1>1, <1>2 DEF Goes, Job
<1>4. Serves(job[u])'
  BY <1>1, <1>2, <1>3 DEF Serves
<1>5. /\ \A m \in Migration : lock'[MigrationRow(m)] = u <=> lock[MigrationRow(m)] = u
      /\ \A m \in Migration : lock[MigrationRow(m)] = u => cur'[MigrationRow(m)] = cur[MigrationRow(m)]
      /\ lock'[AdvisoryRow] = u <=> lock[AdvisoryRow] = u
  BY AllRows DEF LeftAlone
<1>6. n.pc = "commit" /\ n.todo # {} => lock'[MigrationRow(Min(n.todo))] = u
  <2> SUFFICES ASSUME n.pc = "commit", n.todo # {} PROVE lock'[MigrationRow(Min(n.todo))] = u
    OBVIOUS
  <2>1. Min(n.todo) \in Migration
    <3>1. n.todo \in SUBSET (0..LastMigration) /\ n.todo \in SUBSET Migration
      BY <1>1, <1>3, BoundAssumption DEF Job, Migration
    <3>2. Min(n.todo) \in n.todo
      BY <3>1, MinIs, BoundAssumption
    <3> QED
      BY <3>1, <3>2
  <2>2. lock[MigrationRow(Min(n.todo))] = u
    BY <1>1, <1>3 DEF Migrates
  <2> QED
    BY <1>5, <2>1, <2>2
<1>7. Migrates(u, n)'
  <2>1. Migrating(n) => \/ n.overtaken
                        \/ \A m \in Migration : Migrated(m) <=> Migrated(m)'
    BY <1>1, <1>3 DEF Migrates, Migrating
  <2>2. Migrating(n) => n.overtaken \/ \A m \in n.todo : ~Migrated(m)'
    BY <1>1, <1>3, <2>1 DEF Migrates, Migrating, Job
  <2>3. Migrating(n) => n.todo = {1} \/ \A m \in Migration \ n.todo : Migrated(m)'
    BY <1>1, <1>3 DEF Migrates, Migrating
  <2>4. n.op = "boot" /\ n.pc \notin {"baseline", "applied"} /\ ~Migrating(n) => AllMigrated'
    BY <1>1, <1>3 DEF Migrates, Migrating, AllMigrated
  <2>5. n.pc \in {"baseline", "applied"} \/ Migrating(n) => n.op = "boot"
    BY <1>1, <1>3 DEF Migrates, Migrating
  <2>6. \A m \in Migration : lock'[MigrationRow(m)] = u =>
           n.pc = "commit" /\ n.todo # {} /\ m = Min(n.todo) /\ cur'[MigrationRow(m)]
    BY <1>1, <1>3, <1>5 DEF Migrates
  <2>7. lock'[AdvisoryRow] = u => n.pc \in {"max", "insert", "commit"} /\ n.todo = {}
    BY <1>1, <1>3, <1>5 DEF Migrates
  <2> QED
    BY <1>6, <2>2, <2>3, <2>4, <2>5, <2>6, <2>7 DEF Migrates, Migrating
<1> QED
  BY <1>2, <1>4, <1>7 DEF Migrates, Migrating, Migrated, AllMigrated

\* No other request runs in a process that boots.
LEMMA OwnBoot ==
  ASSUME BInv, NEW t \in Tx, job[t].op = "boot", NEW u \in Tx \ {t}, job[u].op # "none"
  PROVE  job[u].home # job[t].home
  BY DEF BInv, Serves, OneBoot

\* What a step of one request has to keep.
LEMMA BootBy ==
  ASSUME TInv, BInv, NEW t \in Tx, NEW next, Goes(t, next), LeftAlone(t),
         \A m \in Migration : Migrated(m) => Migrated(m)',
         \A u \in Tx \ {t} : job[u].op # "none" => proc'[job[u].home] = proc[job[u].home],
         \A u \in Tx \ {t} : job[u].op = "boot" =>
            \/ job[u].pc # "idle" /\ job'[u] = [job[u] EXCEPT !.overtaken = TRUE]
            \/ \A m \in Migration : Migrated(m) <=> Migrated(m)',
         Serves(next)', Migrates(t, next)',
         next.op = "boot" => \/ job[t].op = "boot" /\ next.home = job[t].home
                             \/ proc[next.home] = "down",
         Emptied', UpMigrated', Gapless'
  PROVE  BInv'
<1>1. \A u \in Tx \ {t} : (Serves(job[u]) /\ Migrates(u, job[u]))'
  BY OthersBoot
<1>2. (Serves(job[t]) /\ Migrates(t, job[t]))'
  BY DEF Goes, Serves, Migrates, Migrating, Migrated, AllMigrated
<1>3. OneBoot'
  <2>1. \A u \in Tx \ {t} : job'[u].op = job[u].op /\ job'[u].home = job[u].home
    BY DEF Goes, TInv, Asks, Job
  <2>2. \A u \in Tx : job[u].op = "boot" => proc[job[u].home] # "down"
    BY DEF BInv, Serves
  <2>3. ASSUME NEW u \in Tx \ {t}, job'[u].op = "boot", next.op = "boot", job'[u].home = next.home
        PROVE  FALSE
    BY <2>1, <2>2, <2>3 DEF BInv, OneBoot
  <2>4. ASSUME NEW u \in Tx, NEW v \in Tx, job'[u].op = "boot", job'[v].op = "boot",
               job'[u].home = job'[v].home
        PROVE  u = v
    <3>1. job'[t] = next
      BY DEF Goes
    <3>2. CASE u # t /\ v # t
      BY <2>1, <2>4, <3>2 DEF BInv, OneBoot
    <3> QED
      BY <2>3, <2>4, <3>1, <3>2
  <2> QED
    BY <2>4 DEF OneBoot
<1> QED
  BY <1>1, <1>2, <1>3 DEF BInv

\* A step of a request that has no migration to run, or no longer.
LEMMA QuietBoot ==
  ASSUME TInv, KInv, BInv, NEW t \in Tx, job[t].pc \notin {"baseline", "applied", "record"},
         job[t].todo = {}, NEW next, Goes(t, next), LeftAlone(t),
         \A m \in Migration : /\ lock'[MigrationRow(m)] = t => lock[MigrationRow(m)] = t
                              /\ Migrated(m) <=> Migrated(m)',
         next.pc \notin {"baseline", "applied", "record"}, next.todo = {},
         lock'[AdvisoryRow] = t => next.pc \in {"max", "insert", "commit"},
         \/ proc' = proc /\ Serves(next)
         \/ job[t].op = "boot" /\ next = Idle /\ proc' = [proc EXCEPT ![job[t].home] = "up"],
         next.op = "boot" => job[t].op = "boot" /\ next.home = job[t].home,
         Emptied'
  PROVE  BInv'
<1>1. Migrates(t, job[t]) /\ Serves(job[t]) /\ UpMigrated /\ Gapless
  BY DEF BInv
<1>2. job[t].op = "boot" => AllMigrated
  BY <1>1 DEF Migrates, Migrating
<1>3. \A m \in Migration : lock'[MigrationRow(m)] # t
  BY <1>1 DEF Migrates
<1>4. AllMigrated => AllMigrated'
  BY DEF AllMigrated
<1>5. Migrates(t, next)'
  BY <1>2, <1>3, <1>4 DEF Migrates, Migrating
<1>6. Serves(next)'
  BY DEF Serves, Idle
<1>7. UpMigrated'
  <2>1. proc = [p \in Process |-> proc[p]]
    BY DEF TInv, TypeOK, RequestsTyped
  <2>2. \A p \in Process : proc'[p] = "up" => proc[p] = "up" \/ job[t].op = "boot"
    BY <2>1
  <2> QED
    BY <1>1, <1>2, <1>4, <2>2 DEF UpMigrated
<1>8. Gapless'
  <2>1. \A m \in Migration \ {1} : m - 1 \in Migration
    BY BoundAssumption DEF Migration
  <2> QED
    BY <1>1, <2>1 DEF Gapless
<1>9. \A u \in Tx \ {t} : job[u].op # "none" => proc'[job[u].home] = proc[job[u].home]
  <2>1. proc = [p \in Process |-> proc[p]]
    BY DEF TInv, TypeOK, RequestsTyped
  <2>2. \A u \in Tx \ {t} : job[u].op # "none" => job[u].home \in Process
    BY DEF TInv, Asks
  <2> QED
    BY <2>1, <2>2, OwnBoot
<1> QED
  BY <1>5, <1>6, <1>7, <1>8, <1>9, BootBy

\* Locks after a write, and after none.
LEMMA KeyLocks ==
  ASSUME TInv, NEW t \in Tx, NEW row, NEW x, Write(t, row, x), \A m : row # MigrationRow(m)
  PROVE  /\ LeftAlone(t)
         /\ \A m \in Migration : /\ lock'[MigrationRow(m)] = t => lock[MigrationRow(m)] = t
                                 /\ Migrated(m) <=> Migrated(m)'
         /\ row # AdvisoryRow => lock'[AdvisoryRow] = lock[AdvisoryRow]
<1>1. db' = db /\ \A r \in Row : lock'[r] = IF r = row THEN t ELSE lock[r]
  BY DEF Write, TInv, TypeOK, StorageTyped
<1> QED
  BY <1>1, WriteLeaves, AllRows DEF Migrated

LEMMA SameLocks ==
  ASSUME NEW t \in Tx, UNCHANGED storage
  PROVE  /\ LeftAlone(t)
         /\ \A m \in Migration : /\ lock'[MigrationRow(m)] = t => lock[MigrationRow(m)] = t
                                 /\ Migrated(m) <=> Migrated(m)'
         /\ lock'[AdvisoryRow] = lock[AdvisoryRow]
  BY SameLeaves DEF storage, Migrated

\* The advisory lock is taken between its statement and COMMIT.
LEMMA AdvisoryAt ==
  ASSUME BInv, NEW t \in Tx, lock[AdvisoryRow] = t
  PROVE  job[t].pc \in {"max", "insert", "commit"}
  BY DEF BInv, Migrates

\* Caches as they were, or those of a process that is up.
LEMMA SameEmptied ==
  ASSUME BInv, \A p \in Process : proc'[p] = proc[p] \/ proc'[p] = "up" \/ proc[p] # "up",
         activeCache' = activeCache, versionCache' = versionCache
  PROVE  Emptied'
  BY DEF BInv, Emptied

LEMMA QuietGoOn ==
  ASSUME TInv, KInv, BInv, NEW t \in Tx, job[t].pc \notin {"baseline", "applied", "record"},
         job[t].todo = {}, NEW next, GoOn(t, next),
         next.pc \notin {"baseline", "applied", "record"}, next.todo = {}, Serves(next),
         job[t].pc \in {"max", "insert", "commit"} => next.pc \in {"max", "insert", "commit"} \/ lock[AdvisoryRow] # t,
         next.op = "boot" => job[t].op = "boot" /\ next.home = job[t].home
  PROVE  BInv'
<1>1. Goes(t, next) /\ UNCHANGED storage /\ proc' = proc
  BY SetGoes DEF GoOn, memory
<1>2. Emptied'
  BY <1>1, SameEmptied DEF GoOn, memory
<1>3. lock'[AdvisoryRow] = t => next.pc \in {"max", "insert", "commit"}
  BY <1>1, AdvisoryAt, SameLocks
<1> QED
  BY <1>1, <1>2, <1>3, SameLocks, QuietBoot

LEMMA ThrowBoot ==
  ASSUME TInv, KInv, BInv, NEW t \in Tx, Throw(t)
  PROVE  BInv'
<1>1. Goes(t, Idle) /\ LeftAlone(t) /\ db' = db
  BY SetGoes, RollbackLeaves DEF Throw, Rollback
<1>2. \A r \in Row : lock'[r] # t
  BY NoneAssumption DEF Throw, Rollback, Release
<1>3. proc' = IF job[t].op = "boot" THEN [proc EXCEPT ![job[t].home] = "down"] ELSE proc
  BY DEF Throw
<1>4. Idle.op = "none" /\ Idle.pc = "idle" /\ Idle.todo = {} /\ Idle.signed = 0
  BY DEF Idle
<1>5. Serves(Idle)' /\ Migrates(t, Idle)'
  BY <1>2, <1>4, AllRows DEF Serves, Migrates, Migrating
<1>6. \A u \in Tx \ {t} : job[u].op # "none" => proc'[job[u].home] = proc[job[u].home]
  BY <1>3, OwnBoot DEF TInv, TypeOK, RequestsTyped
<1>7. \A p \in Process : proc'[p] = proc[p] \/ (proc'[p] = "down" /\ proc[p] # "up")
  <2>1. job[t].op = "boot" => proc[job[t].home] = "booting"
    BY DEF BInv, Serves
  <2>2. proc = [p \in Process |-> proc[p]]
    BY DEF TInv, TypeOK, RequestsTyped
  <2>3. CASE job[t].op = "boot"
    BY <1>3, <2>1, <2>2, <2>3
  <2>4. CASE job[t].op # "boot"
    BY <1>3, <2>4
  <2> QED
    BY <2>3, <2>4
<1>8. Emptied' /\ UpMigrated' /\ Gapless'
  BY <1>1, <1>7 DEF Throw, BInv, Emptied, UpMigrated, Gapless, AllMigrated, Migrated
<1>9. \A m \in Migration : Migrated(m) <=> Migrated(m)'
  BY <1>1 DEF Migrated
<1> QED
  BY <1>1, <1>4, <1>5, <1>6, <1>8, <1>9, BootBy

\* A request at these labels has no migration to run.
LEMMA NotMigrating ==
  ASSUME TInv, KInv, BInv, NEW t \in Tx, job[t].pc \notin {"baseline", "applied", "record", "commit"}
  PROVE  /\ job[t].todo = {} /\ job[t] \in Job /\ Serves(job[t])
         /\ \A m \in Migration : lock[MigrationRow(m)] # t
         /\ job[t].op = "boot" => AllMigrated
<1>1. job[t].todo = {}
  BY Serving
<1> QED
  BY <1>1 DEF BInv, TInv, Asks, Migrates, Migrating

\* It goes on.
LEMMA GoesOnServing ==
  ASSUME TInv, KInv, BInv, NEW t \in Tx, job[t].pc \notin {"baseline", "applied", "record", "commit"},
         NEW next, GoOn(t, next),
         \/ next = Idle
         \/ /\ next.op = job[t].op /\ next.home = job[t].home /\ next.todo = {}
            /\ next.signed = job[t].signed \/ job[t].op = "sign",
         next.pc \notin {"baseline", "applied", "record"},
         job[t].pc \in {"max", "insert"} => next.pc \in {"max", "insert", "commit"}
  PROVE  BInv'
<1>1. job[t].todo = {} /\ Serves(job[t])
  BY NotMigrating
<1>2. next.todo = {} /\ Serves(next) /\ (next.op = "boot" => job[t].op = "boot" /\ next.home = job[t].home)
  BY <1>1 DEF Serves, Idle
<1> QED
  BY <1>1, <1>2, QuietGoOn

\* Requests arrive.
LEMMA BeginBoots ==
  ASSUME TInv, KInv, BInv, NEW t \in Tx, Begin(t)
  PROVE  BInv'
<1>1. job[t].pc = "idle"
  BY DEF Begin, BeginKey, BeginRotate, BeginCheck, BeginSign, Start, Boot, At
<1>2. job[t].todo = {} /\ \A m \in Migration : lock[MigrationRow(m)] # t
  BY <1>1, NotMigrating
<1>3. lock[AdvisoryRow] # t
  BY <1>1, AdvisoryAt
<1>4. ASSUME NEW request, Start(t, request), request \in Job, request.op \notin {"none", "boot"},
             request.pc \in {"get", "look"}, request.todo = {}, request.signed = 0
      PROVE  BInv'
  <2>1. PICK p \in Process : proc[p] = "up" /\ GoOn(t, [request EXCEPT !.home = p])
    BY <1>4 DEF Start
  <2>2. PICK next : next = [request EXCEPT !.home = p]
    OBVIOUS
  <2>3. next.op = request.op /\ next.pc = request.pc /\ next.home = p /\ next.todo = {}
        /\ next.signed = 0
    BY <1>4, <2>2 DEF Job
  <2>4. Serves(next)
    BY <1>4, <2>1, <2>3 DEF Serves
  <2> QED
    BY <1>1, <1>2, <1>4, <2>1, <2>2, <2>3, <2>4, QuietGoOn
<1>5. Idle \in Job
  BY IdleAsks DEF Asks
<1>6. ASSUME NEW op \in {"key", "rotate"}, NEW d \in Denom,
             Start(t, [Idle EXCEPT !.op = op, !.pc = "get", !.denom = d])
      PROVE  BInv'
  <2>1. PICK request : request = [Idle EXCEPT !.op = op, !.pc = "get", !.denom = d]
    OBVIOUS
  <2>2. request \in Job /\ request.op = op /\ request.pc = "get" /\ request.todo = {}
        /\ request.signed = 0
    BY <1>5, <2>1 DEF Job, Op, Label, Idle
  <2> QED
    BY <1>4, <1>6, <2>1, <2>2
<1>7. ASSUME NEW v \in Version, BeginCheck(t, v) PROVE BInv'
  <2>1. PICK request : request = [Idle EXCEPT !.op = "check", !.pc = "look", !.version = v]
    OBVIOUS
  <2>2. request \in Job /\ request.op = "check" /\ request.pc = "look" /\ request.todo = {}
        /\ request.signed = 0
    BY <1>5, <1>7, <2>1, Bounds DEF Job, Op, Label, Idle
  <2> QED
    BY <1>4, <1>7, <2>1, <2>2 DEF BeginCheck
<1>8. ASSUME NEW v \in Version, BeginSign(t, v) PROVE BInv'
  <2>1. PICK d \in Denom : d = db[KeyRow(v)].denom
    BY <1>8 DEF BeginSign, KInv, VersionsInv
  <2>2. PICK request : request = [Idle EXCEPT !.op = "sign", !.pc = "get", !.version = v, !.denom = d]
    OBVIOUS
  <2>3. request \in Job /\ request.op = "sign" /\ request.pc = "get" /\ request.todo = {}
        /\ request.signed = 0
    BY <1>5, <1>8, <2>2, Bounds DEF Job, Op, Label, Idle
  <2> QED
    BY <1>4, <1>8, <2>1, <2>2, <2>3 DEF BeginSign
<1>9. ASSUME NEW p \in Process, Boot(t, p) PROVE BInv'
  <2>1. PICK next : next = [Idle EXCEPT !.op = "boot", !.pc = "baseline", !.home = p,
                                        !.denom = BootDenom]
    OBVIOUS
  <2>2. next.op = "boot" /\ next.pc = "baseline" /\ next.home = p /\ next.todo = {}
        /\ next.signed = 0
    BY <2>1 DEF Idle
  <2>3. Goes(t, next) /\ proc' = [proc EXCEPT ![p] = "booting"] /\ proc[p] = "down"
        /\ UNCHANGED storage /\ activeCache' = activeCache /\ versionCache' = versionCache
    BY <1>9, <2>1, SetGoes DEF Boot
  <2>4. proc = [q \in Process |-> proc[q]]
    BY DEF TInv, TypeOK, RequestsTyped
  <2>5. \A q \in Process : IF q = p THEN proc'[q] = "booting" ELSE proc'[q] = proc[q]
    BY <2>3, <2>4
  <2>6. \A u \in Tx \ {t} : job[u].op # "none" => proc'[job[u].home] = proc[job[u].home]
    <3>1. \A u \in Tx : job[u].op # "none" => job[u].home \in Process /\ job[u].home # p
      BY <2>3 DEF BInv, Serves, TInv, Asks
    <3> QED
      BY <2>5, <3>1
  <2>7. Serves(next)'
    BY <1>9, <2>2, <2>5 DEF Serves
  <2>8. LeftAlone(t) /\ (\A m \in Migration : Migrated(m) <=> Migrated(m)')
    BY <2>3, SameLocks
  <2>9. Migrates(t, next)'
    BY <1>2, <1>3, <2>2, <2>3 DEF Migrates, Migrating, storage
  <2>10. Emptied' /\ UpMigrated' /\ Gapless'
    BY <2>3, <2>5 DEF BInv, Emptied, UpMigrated, Gapless, AllMigrated, Migrated, storage
  <2> QED
    BY <2>2, <2>3, <2>6, <2>7, <2>8, <2>9, <2>10, BootBy
<1> QED
  BY <1>6, <1>7, <1>8, <1>9 DEF Begin, BeginKey, BeginRotate

\* The least migration a boot has left.
LEMMA NextMigration ==
  ASSUME TInv, NEW t \in Tx, job[t].todo # {}
  PROVE  /\ job[t].todo \in SUBSET Migration
         /\ Min(job[t].todo) \in job[t].todo /\ \A y \in job[t].todo : Min(job[t].todo) <= y
<1>1. job[t].todo \in SUBSET Migration
  BY DEF TInv, Asks, Job
<1>2. job[t].todo \in SUBSET (0..LastMigration)
  BY <1>1, BoundAssumption DEF Migration
<1> QED
  BY <1>1, <1>2, MinIs, BoundAssumption

\* The statements of a boot before getOrGenerate.
LEMMA BootSteps ==
  ASSUME TInv, KInv, BInv, NEW t \in Tx, ~Throw(t), BaselineSelect(t) \/ AppliedSelect(t) \/ Record(t)
  PROVE  BInv'
<1>1. job[t].pc \in {"baseline", "applied", "record"}
  BY DEF BaselineSelect, AppliedSelect, Record, At
<1>2. /\ Migrates(t, job[t]) /\ Serves(job[t]) /\ job[t].op = "boot" /\ job[t] \in Job
      /\ \A m \in Migration : lock[MigrationRow(m)] # t
      /\ lock[AdvisoryRow] # t
  BY <1>1 DEF BInv, Migrates, Migrating, TInv, Asks
<1>3. ASSUME NEW next, GoOn(t, next), next.op = "boot", next.home = job[t].home, Migrates(t, next),
             next.signed = job[t].signed
      PROVE  BInv'
  <2>1. Goes(t, next) /\ UNCHANGED <<storage, proc, activeCache, versionCache>>
    BY <1>3, SetGoes DEF GoOn, memory
  <2>2. LeftAlone(t) /\ \A m \in Migration : Migrated(m) <=> Migrated(m)'
    BY <2>1, SameLocks
  <2>3. Serves(next)' /\ Migrates(t, next)'
    BY <1>2, <1>3, <2>1 DEF Serves, Migrates, Migrating, Migrated, AllMigrated, storage
  <2>4. Emptied' /\ UpMigrated' /\ Gapless'
    BY <2>1 DEF BInv, Emptied, UpMigrated, Gapless, AllMigrated, Migrated, storage
  <2> QED
    BY <1>2, <1>3, <2>1, <2>2, <2>3, <2>4, BootBy
<1>4. CASE BaselineSelect(t)
  <2>1. ASSUME GoOn(t, [job[t] EXCEPT !.pc = "applied"]) PROVE BInv'
    <3>1. PICK next : next = [job[t] EXCEPT !.pc = "applied"]
      OBVIOUS
    <3>2. next.op = "boot" /\ next.home = job[t].home /\ next.pc = "applied"
          /\ next.signed = job[t].signed
      BY <1>2, <3>1 DEF Job
    <3>3. Migrates(t, next)
      BY <1>2, <3>2 DEF Migrates, Migrating
    <3> QED
      BY <1>3, <2>1, <3>1, <3>2, <3>3
  <2>2. ASSUME GoOn(t, [job[t] EXCEPT !.pc = "record", !.todo = {1}]), ~Migrated(1) PROVE BInv'
    <3>1. PICK next : next = [job[t] EXCEPT !.pc = "record", !.todo = {1}]
      OBVIOUS
    <3>2. next.op = "boot" /\ next.home = job[t].home /\ next.pc = "record" /\ next.todo = {1}
          /\ next.signed = job[t].signed
      BY <1>2, <3>1 DEF Job
    <3>3. Migrates(t, next)
      BY <1>2, <2>2, <3>2 DEF Migrates, Migrating
    <3> QED
      BY <1>3, <2>2, <3>1, <3>2, <3>3
  <2> QED
    BY <1>4, <2>1, <2>2 DEF BaselineSelect, Migrated
<1>5. CASE AppliedSelect(t)
  <2>1. PICK left : left = {m \in Migration : ~Migrated(m)}
    OBVIOUS
  <2>2. PICK label : label = IF left = {} THEN "get" ELSE "record"
    OBVIOUS
  <2>3. PICK next : next = [job[t] EXCEPT !.pc = label, !.todo = left]
    OBVIOUS
  <2>4. next.op = "boot" /\ next.home = job[t].home /\ next.pc = label /\ next.todo = left
        /\ next.signed = job[t].signed
    BY <1>2, <2>3 DEF Job
  <2>5. Migrates(t, next)
    BY <1>2, <2>1, <2>2, <2>4 DEF Migrates, Migrating, AllMigrated
  <2>6. GoOn(t, next)
    BY <1>5, <2>1, <2>2, <2>3 DEF AppliedSelect, Migrated
  <2> QED
    BY <1>3, <2>4, <2>5, <2>6
<1>6. CASE Record(t)
  <2>1. job[t].pc = "record" /\ job[t].todo # {}
    BY <1>6, Serving DEF Record, At
  <2>2. PICK m \in Migration : m = Min(job[t].todo)
    BY <2>1, NextMigration
  <2>3. PICK next : next = [job[t] EXCEPT !.pc = "commit"]
    OBVIOUS
  <2>4. next.op = "boot" /\ next.home = job[t].home /\ next.pc = "commit" /\ next.todo = job[t].todo
        /\ next.overtaken = job[t].overtaken /\ next.signed = job[t].signed
    BY <1>2, <2>3 DEF Job
  <2>5. Update(t, MigrationRow(m), TRUE, next)
    BY <1>6, <2>2, <2>3 DEF Record
  <2>6. Write(t, MigrationRow(m), TRUE) /\ Goes(t, next) /\ UNCHANGED <<proc, activeCache, versionCache>>
    BY <2>5, SetGoes DEF Update, memory
  <2>7. LeftAlone(t)
    BY <2>6, WriteLeaves
  <2>8. /\ db' = db
        /\ \A r \in Row : /\ lock'[r] = IF r = MigrationRow(m) THEN t ELSE lock[r]
                          /\ cur'[r] = IF r = MigrationRow(m) THEN TRUE ELSE cur[r]
    BY <2>6 DEF Write, TInv, TypeOK, StorageTyped
  <2>9. Migrates(t, next)'
    <3>1. \A n \in Migration : lock'[MigrationRow(n)] = t => n = m /\ cur'[MigrationRow(n)]
      BY <1>2, <2>8, AllRows
    <3>2. lock'[MigrationRow(m)] = t /\ lock'[AdvisoryRow] # t
      BY <1>2, <2>8, AllRows
    <3>3. \A n : Migrated(n)' <=> Migrated(n)
      BY <2>8 DEF Migrated
    <3>4. \/ next.todo = {1}
          \/ \A n \in Migration \ next.todo : Migrated(n)
      BY <1>2, <2>1, <2>4 DEF Migrates, Migrating
    <3>5. next.overtaken \/ \A n \in next.todo : ~Migrated(n)
      BY <1>2, <2>1, <2>4 DEF Migrates, Migrating
    <3> QED
      BY <2>1, <2>2, <2>4, <3>1, <3>2, <3>3, <3>4, <3>5 DEF Migrates, Migrating
  <2>10. Serves(next)'
    BY <1>2, <2>4, <2>6 DEF Serves
  <2>11. Emptied' /\ UpMigrated' /\ Gapless' /\ \A n \in Migration : Migrated(n) <=> Migrated(n)'
    BY <2>6, <2>8 DEF BInv, Emptied, UpMigrated, Gapless, AllMigrated, Migrated
  <2> QED
    BY <1>2, <2>4, <2>6, <2>7, <2>9, <2>10, <2>11, BootBy
<1> QED
  BY <1>4, <1>5, <1>6

\* The caller of getOrGenerate goes on in its process, a boot is done.
LEMMA ContinueServes ==
  ASSUME NEW s \in Job, s.todo = {}, s.signed # 0 => s.op = "sign", NEW v, NEW next, next = Continue(s, v)
  PROVE  \/ next = Idle
         \/ /\ next.op = s.op /\ next.home = s.home /\ next.todo = {} /\ s.op # "boot"
            /\ next.signed # 0 => next.op = "sign"
            /\ next.pc \in {"retire", "answer", "name"}
<1>1. CASE next = [s EXCEPT !.pc = "retire", !.old = v] /\ s.op = "rotate"
  BY <1>1 DEF Job
<1>2. CASE next = [s EXCEPT !.pc = "answer", !.named = v] /\ s.signed # 0
  BY <1>2 DEF Job
<1>3. CASE next = [s EXCEPT !.pc = "name", !.signed = v] /\ s.op = "sign"
  BY <1>3 DEF Job
<1> QED
  BY <1>1, <1>2, <1>3 DEF Continue

LEMMA ObtainedBoots ==
  ASSUME TInv, KInv, BInv, NEW t \in Tx, job[t].pc \in {"get", "name", "keep"}, NEW v \in Version,
         Obtained(t, v), Emptied'
  PROVE  BInv'
<1>1. PICK next : next = Continue([job[t] EXCEPT !.got = 0, !.fresh = 0], v)
  OBVIOUS
<1>2. job[t].todo = {} /\ job[t] \in Job /\ Serves(job[t])
  BY NotMigrating
<1>3. \/ next = Idle
      \/ /\ next.op = job[t].op /\ next.home = job[t].home /\ next.todo = {} /\ job[t].op # "boot"
         /\ next.signed # 0 => next.op = "sign"
         /\ next.pc \in {"retire", "answer", "name"}
  <2>1. PICK s : s = [job[t] EXCEPT !.got = 0, !.fresh = 0]
    OBVIOUS
  <2>2. s \in Job /\ s.op = job[t].op /\ s.home = job[t].home /\ s.todo = {} /\ s.signed = job[t].signed
    BY <1>2, <2>1, Bounds DEF Job
  <2>3. (s.signed # 0 => s.op = "sign") /\ next = Continue(s, v)
    BY <1>1, <1>2, <2>1, <2>2 DEF Serves
  <2> QED
    BY <2>2, <2>3, ContinueServes
<1>4. Idle.op = "none" /\ Idle.pc = "idle" /\ Idle.todo = {} /\ Idle.signed = 0
  BY DEF Idle
<1>5. Goes(t, next) /\ UNCHANGED storage
  BY <1>1, SetGoes DEF Obtained
<1>6. lock'[AdvisoryRow] # t
  BY <1>5, AdvisoryAt, SameLocks
<1>7. \/ proc' = proc /\ Serves(next)
      \/ job[t].op = "boot" /\ next = Idle /\ proc' = [proc EXCEPT ![job[t].home] = "up"]
  BY <1>2, <1>3, <1>4 DEF Obtained, Serves
<1>8. next.pc \notin {"baseline", "applied", "record"} /\ next.todo = {}
      /\ (next.op = "boot" => job[t].op = "boot" /\ next.home = job[t].home)
  BY <1>3, <1>4
<1> QED
  BY <1>2, <1>5, <1>6, <1>7, <1>8, SameLocks, QuietBoot

\* Obtaining a key leaves no process less far than it was.
LEMMA ObtainedProc ==
  ASSUME TInv, NEW t \in Tx, NEW v, Obtained(t, v)
  PROVE  \A p \in Process : proc'[p] = proc[p] \/ proc'[p] = "up"
  BY DEF Obtained, TInv, TypeOK, RequestsTyped

\* The statements of getOrGenerate up to the advisory lock.
LEMMA GetBoots ==
  ASSUME TInv, KInv, BInv, NEW t \in Tx, Get(t)
  PROVE  BInv'
<1>1. job[t].pc \in {"get", "name"}
  BY DEF Get
<1>2. job[t].todo = {} /\ job[t] \in Job
  BY <1>1, NotMigrating
<1>3. job[t].home \in Process /\ job[t].denom \in Denom
  BY <1>1, Purpose
<1>4. PICK cached : cached = activeCache[job[t].home][job[t].denom]
  OBVIOUS
<1>5. CASE cached # 0 /\ Obtained(t, cached) /\ UNCHANGED <<activeCache, tainted>>
  <2>1. cached \in Version
    BY <1>3, <1>4, <1>5 DEF KInv, CachesInv, IsOf
  <2>2. Emptied'
    BY <1>5, ObtainedProc, SameEmptied DEF Obtained
  <2> QED
    BY <1>1, <1>5, <2>1, <2>2, ObtainedBoots
<1>6. ASSUME NEW v \in Version, NEW label \in {"keep", "seal"},
             GoOn(t, [job[t] EXCEPT !.got = v, !.pc = label])
      PROVE  BInv'
  <2>1. PICK next : next = [job[t] EXCEPT !.got = v, !.pc = label]
    OBVIOUS
  <2>2. next.op = job[t].op /\ next.home = job[t].home /\ next.todo = {} /\ next.pc = label
        /\ next.signed = job[t].signed
    BY <1>2, <2>1 DEF Job
  <2> QED
    BY <1>1, <1>6, <2>1, <2>2, GoesOnServing
<1>7. ASSUME GoOn(t, [job[t] EXCEPT !.pc = "advisory"]) PROVE BInv'
  <2>1. PICK next : next = [job[t] EXCEPT !.pc = "advisory"]
    OBVIOUS
  <2>2. next.op = job[t].op /\ next.home = job[t].home /\ next.todo = {} /\ next.pc = "advisory"
        /\ next.signed = job[t].signed
    BY <1>2, <2>1 DEF Job
  <2> QED
    BY <1>1, <1>7, <2>1, <2>2, GoesOnServing
<1> QED
  BY <1>4, <1>5, <1>6, <1>7 DEF Get

LEMMA SealBoots ==
  ASSUME TInv, KInv, BInv, NEW t \in Tx, Seal(t)
  PROVE  BInv'
<1>1. job[t].pc = "seal" /\ lock' = lock /\ lock[KeyRow(job[t].got)] = NoTx /\ proc' = proc
  BY DEF Seal, At, memory
<1>2. job[t].todo = {} /\ job[t] \in Job /\ Serves(job[t]) /\ job[t].op # "none"
  BY <1>1, NotMigrating, Serving
<1>3. PICK label \in {"remember", "keep"} : job' = [job EXCEPT ![t].pc = label]
  BY DEF Seal
<1>4. PICK next : next = [job[t] EXCEPT !.pc = label]
  OBVIOUS
<1>5. next.op = job[t].op /\ next.home = job[t].home /\ next.todo = {} /\ next.pc = label
      /\ next.signed = job[t].signed
  BY <1>2, <1>4 DEF Job
<1>6. Goes(t, next)
  BY <1>3, <1>4, SetGoes DEF TInv, TypeOK, RequestsTyped
<1>7. PICK row : row = KeyRow(job[t].got)
  OBVIOUS
<1>8. \A r \in Row : r # row => db'[r] = db[r] /\ cur'[r] = cur[r]
  <2>1. db = [r \in Row |-> db[r]] /\ cur = [r \in Row |-> cur[r]]
    BY DEF TInv, TypeOK, StorageTyped
  <2>2. db' = [db EXCEPT ![row].sealed = TRUE] /\ cur' = [cur EXCEPT ![row].sealed = TRUE]
    BY <1>7 DEF Seal
  <2> QED
    BY <2>1, <2>2
<1>9. LeftAlone(t)
  BY <1>1, <1>7, <1>8, NoneAssumption DEF LeftAlone
<1>10. \A m \in Migration : /\ lock'[MigrationRow(m)] = t => lock[MigrationRow(m)] = t
                            /\ Migrated(m) <=> Migrated(m)'
  BY <1>1, <1>7, <1>8, AllRows DEF Migrated
<1>11. lock'[AdvisoryRow] # t
  BY <1>1, AdvisoryAt
<1>12. Emptied'
  BY <1>1, SameEmptied DEF Seal, memory
<1>13. Serves(next)
  BY <1>2, <1>5 DEF Serves
<1> QED
  BY <1>1, <1>2, <1>5, <1>6, <1>9, <1>10, <1>11, <1>12, <1>13, QuietBoot

LEMMA KeepBoots ==
  ASSUME TInv, KInv, BInv, NEW t \in Tx, Keep(t)
  PROVE  BInv'
<1>1. job[t].pc = "keep" /\ Obtained(t, job[t].got)
  BY DEF Keep, At
<1>2. job[t].op \notin {"none", "check"} /\ job[t].home \in Process /\ job[t].denom \in Denom
  BY <1>1, Purpose
<1>3. job[t].got \in Version
  BY <1>1, <1>2 DEF KInv, RInv, Knows, IsOf
<1>4. proc'[job[t].home] = "up" /\ \A p \in Process : proc'[p] = proc[p] \/ proc'[p] = "up"
  <2>1. Serves(job[t])
    BY DEF BInv
  <2> QED
    BY <1>1, <1>2, <2>1 DEF Serves, Obtained, TInv, TypeOK, RequestsTyped
<1>5. Emptied'
  <2>1. \A p \in Process : p # job[t].home => activeCache'[p] = activeCache[p]
    BY DEF Keep, KInv, CachesInv
  <2>2. versionCache' = versionCache
    BY <1>1 DEF Obtained
  <2> QED
    BY <1>4, <2>1, <2>2 DEF BInv, Emptied
<1> QED
  BY <1>1, <1>3, <1>5, ObtainedBoots

\* The transaction that makes a key, up to its COMMIT.
LEMMA GenerateBoots ==
  ASSUME TInv, KInv, BInv, NEW t \in Tx, ~Throw(t),
         Advisory(t) \/ MaxSelect(t) \/ Insert(t) \/ Retire(t)
  PROVE  BInv'
<1>1. job[t].pc \in {"advisory", "max", "insert", "retire"}
  BY DEF Advisory, MaxSelect, Insert, Retire, At
<1>2. job[t].todo = {} /\ job[t] \in Job /\ Serves(job[t])
  BY <1>1, NotMigrating
<1>3. ASSUME NEW row, NEW x, NEW label \in {"max", "commit"},
             Update(t, row, x, [job[t] EXCEPT !.pc = label]), \A m : row # MigrationRow(m)
      PROVE  BInv'
  <2>1. PICK next : next = [job[t] EXCEPT !.pc = label]
    OBVIOUS
  <2>2. next.op = job[t].op /\ next.home = job[t].home /\ next.todo = {} /\ next.pc = label
        /\ next.signed = job[t].signed
    BY <1>2, <2>1 DEF Job
  <2>3. Write(t, row, x) /\ Goes(t, next) /\ proc' = proc
    BY <1>3, <2>1, SetGoes DEF Update, memory
  <2>4. Emptied'
    BY <1>3, <2>3, SameEmptied DEF Update, memory
  <2>5. Serves(next)
    BY <1>2, <2>2 DEF Serves
  <2>6. LeftAlone(t) /\ \A m \in Migration : /\ lock'[MigrationRow(m)] = t => lock[MigrationRow(m)] = t
                                             /\ Migrated(m) <=> Migrated(m)'
    BY <1>3, <2>3, KeyLocks
  <2> QED
    BY <1>1, <1>2, <2>2, <2>3, <2>4, <2>5, <2>6, QuietBoot
<1>4. CASE Advisory(t)
  BY <1>3, <1>4, AllRows DEF Advisory
<1>5. CASE MaxSelect(t)
  <2>1. PICK f : GoOn(t, [job[t] EXCEPT !.pc = "insert", !.fresh = f])
    BY <1>5 DEF MaxSelect
  <2>2. PICK next : next = [job[t] EXCEPT !.pc = "insert", !.fresh = f]
    OBVIOUS
  <2>3. next.op = job[t].op /\ next.home = job[t].home /\ next.todo = {} /\ next.pc = "insert"
        /\ next.signed = job[t].signed
    BY <1>2, <2>2 DEF Job
  <2> QED
    BY <1>1, <2>1, <2>2, <2>3, GoesOnServing
<1>6. CASE Insert(t)
  BY <1>3, <1>6, AllRows DEF Insert
<1>7. CASE Retire(t)
  <2>1. ASSUME GoOn(t, [job[t] EXCEPT !.pc = "max"]) PROVE BInv'
    <3>1. PICK next : next = [job[t] EXCEPT !.pc = "max"]
      OBVIOUS
    <3>2. next.op = job[t].op /\ next.home = job[t].home /\ next.todo = {} /\ next.pc = "max"
          /\ next.signed = job[t].signed
      BY <1>2, <3>1 DEF Job
    <3> QED
      BY <1>1, <2>1, <3>1, <3>2, GoesOnServing
  <2> QED
    BY <1>3, <1>7, <2>1, AllRows DEF Retire
<1> QED
  BY <1>4, <1>5, <1>6, <1>7

\* A request commits a new key, or a boot records a migration.
LEMMA CommitBoots ==
  ASSUME TInv, KInv, BInv, NEW t \in Tx, CommitTx(t)
  PROVE  BInv'
<1>1. job[t].pc = "commit" /\ Commit(t) /\ UNCHANGED <<proc, activeCache, versionCache>>
  BY DEF CommitTx, At, memory
<1>2. job[t] \in Job /\ Serves(job[t]) /\ Migrates(t, job[t])
  BY DEF BInv, TInv, Asks
<1>3. PICK next : next = AfterCommit(job[t])
  OBVIOUS
<1>4. Goes(t, next) /\ LeftAlone(t)
  BY <1>3, OvertakingGoes, CommitLeaves DEF CommitTx
<1>5. \A r \in Row : /\ lock'[r] # t
                     /\ db'[r] = IF lock[r] = t THEN cur[r] ELSE db[r]
  BY <1>1, NoneAssumption DEF Commit, Release, Read
<1>6. Emptied'
  BY <1>1, SameEmptied
<1>7. CASE job[t].todo = {}
  <2>1. next \in {[job[t] EXCEPT !.pc = "forget"], [job[t] EXCEPT !.pc = "keep", !.got = job[t].fresh]}
    BY <1>3, <1>7 DEF AfterCommit
  <2>2. next.op = job[t].op /\ next.home = job[t].home /\ next.todo = {} /\ next.pc \in {"forget", "keep"}
        /\ next.signed = job[t].signed
    <3>1. CASE next = [job[t] EXCEPT !.pc = "forget"]
      BY <1>2, <1>7, <3>1 DEF Job
    <3>2. CASE next = [job[t] EXCEPT !.pc = "keep", !.got = job[t].fresh]
      BY <1>2, <1>7, <3>2 DEF Job
    <3> QED
      BY <2>1, <3>1, <3>2
  <2>3. \A m \in Migration : /\ lock'[MigrationRow(m)] # t
                             /\ Migrated(m) <=> Migrated(m)'
    BY <1>2, <1>5, <1>7, AllRows DEF Migrates, Migrated
  <2>4. lock'[AdvisoryRow] # t /\ Serves(next)
    BY <1>2, <1>5, <2>2, AllRows DEF Serves
  <2> QED
    BY <1>1, <1>4, <1>6, <1>7, <2>2, <2>3, <2>4, QuietBoot
<1>8. CASE job[t].todo # {}
  <2>1. PICK m : m = Min(job[t].todo)
    OBVIOUS
  <2>2. /\ job[t].todo \in SUBSET Migration /\ m \in job[t].todo /\ m \in Migration
        /\ \A y \in job[t].todo : m <= y
    BY <1>8, <2>1, NextMigration
  <2>3. job[t].op = "boot" /\ lock[MigrationRow(m)] = t /\ cur[MigrationRow(m)] = TRUE
    <3>1. lock[MigrationRow(m)] = t /\ job[t].op = "boot"
      BY <1>1, <1>2, <1>8, <2>1 DEF Migrates, Migrating
    <3>2. cur[MigrationRow(m)] \in BOOLEAN
      BY <2>2 DEF TInv, TypeOK, StorageTyped
    <3> QED
      BY <1>2, <2>2, <3>1, <3>2 DEF Migrates
  <2>4. Migrated(m)' /\ \A n \in Migration \ {m} : Migrated(n) <=> Migrated(n)'
    BY <1>2, <1>5, <2>1, <2>2, <2>3, AllRows DEF Migrated, Migrates
  <2>5. \A n \in Migration : Migrated(n) => Migrated(n)'
    BY <2>4
  <2>6. \A u \in Tx \ {t} : job[u].op = "boot" =>
           job[u].pc # "idle" /\ job'[u] = [job[u] EXCEPT !.overtaken = TRUE]
    <3> SUFFICES ASSUME NEW u \in Tx \ {t}, job[u].op = "boot"
                 PROVE  job[u].pc # "idle" /\ job'[u] = [job[u] EXCEPT !.overtaken = TRUE]
      OBVIOUS
    <3>1. job[u].pc # "idle"
      BY Serving
    <3> QED
      BY <1>8, <3>1 DEF CommitTx, Overtaking, At
  <2>7. job[t].todo = {1} \/ \A n \in Migration \ job[t].todo : Migrated(n)
    BY <1>1, <1>2, <1>8 DEF Migrates, Migrating
  <2>8. Gapless'
    <3> SUFFICES ASSUME NEW n \in Migration \ {1}, Migrated(n)' PROVE Migrated(n - 1)'
      BY DEF Gapless, Migrated
    <3>1. n - 1 \in Migration /\ n - 1 < n
      BY BoundAssumption DEF Migration
    <3>2. CASE n = m
      <4>1. n - 1 \notin job[t].todo
        <5>1. ASSUME n - 1 \in job[t].todo PROVE FALSE
          <6>1. m <= n - 1 /\ m \in Int
            BY <2>2, <5>1, BoundAssumption DEF Migration
          <6> QED
            BY <3>1, <3>2, <6>1
        <5> QED
          BY <5>1
      <4>2. job[t].todo # {1}
        BY <2>2, <3>2
      <4> QED
        BY <2>5, <2>7, <3>1, <4>1, <4>2
    <3>3. CASE n # m
      <4>1. Migrated(n)
        BY <2>4, <3>3
      <4>2. Migrated(n - 1)
        BY <4>1 DEF BInv, Gapless
      <4> QED
        BY <2>5, <3>1, <4>2
    <3> QED
      BY <3>2, <3>3
  <2>9. UpMigrated'
    BY <1>1, <2>5 DEF BInv, UpMigrated, AllMigrated, Migrated
  <2>10. Migrates(t, next)' /\ next.op = "boot" /\ next.home = job[t].home /\ next.signed = job[t].signed
    <3>1. /\ \A n \in Migration : lock'[MigrationRow(n)] # t
          /\ lock'[AdvisoryRow] # t
      BY <1>5, AllRows
    <3>2. CASE job[t].todo = {1}
      <4>1. next = [job[t] EXCEPT !.pc = "applied", !.todo = {}]
        BY <1>3, <3>2 DEF AfterCommit
      <4>2. next.op = "boot" /\ next.home = job[t].home /\ next.pc = "applied" /\ next.todo = {}
            /\ next.signed = job[t].signed
        BY <1>2, <2>3, <4>1 DEF Job
      <4> QED
        BY <3>1, <4>2 DEF Migrates, Migrating
    <3>3. CASE job[t].todo # {1}
      <4>1. PICK left : left = job[t].todo \ {m}
        OBVIOUS
      <4>2. PICK label : label = IF left = {} THEN "get" ELSE "record"
        OBVIOUS
      <4>3. next = [job[t] EXCEPT !.todo = left, !.pc = label]
        BY <1>3, <1>8, <2>1, <3>3, <4>1, <4>2 DEF AfterCommit
      <4>4. next.op = "boot" /\ next.home = job[t].home /\ next.pc = label /\ next.todo = left
            /\ next.signed = job[t].signed /\ next.overtaken = job[t].overtaken
        BY <1>2, <2>3, <4>3 DEF Job
      <4>5. \A n \in Migration \ left : Migrated(n)'
        BY <2>4, <2>7, <3>3, <4>1
      <4>6. next.overtaken \/ \A n \in left : ~Migrated(n)'
        <5>1. job[t].overtaken \/ \A n \in job[t].todo : ~Migrated(n)
          BY <1>1, <1>2, <1>8 DEF Migrates, Migrating
        <5> QED
          BY <2>2, <2>4, <4>1, <4>4, <5>1
      <4>7. left = {} => AllMigrated'
        BY <4>5 DEF AllMigrated, Migrated
      <4> QED
        BY <3>1, <4>2, <4>4, <4>5, <4>6, <4>7 DEF Migrates, Migrating
    <3> QED
      BY <3>2, <3>3
  <2>11. Serves(next)'
    BY <1>1, <1>2, <2>3, <2>10 DEF Serves
  <2>12. \A u \in Tx \ {t} : job[u].op # "none" => proc'[job[u].home] = proc[job[u].home]
    BY <1>1
  <2> QED
    BY <1>4, <1>6, <2>3, <2>5, <2>6, <2>8, <2>9, <2>10, <2>11, <2>12, BootBy
<1> QED
  BY <1>7, <1>8

\* What is left of a rotation, and the lookups by version.
LEMMA ForgetBoots ==
  ASSUME TInv, KInv, BInv, NEW t \in Tx, Forget(t)
  PROVE  BInv'
<1>1. job[t].pc = "forget" /\ UNCHANGED storage /\ proc' = proc
  BY DEF Forget, At
<1>2. job[t].todo = {} /\ job[t] \in Job /\ Serves(job[t])
  BY <1>1, NotMigrating
<1>3. PICK next : next = [job[t] EXCEPT !.pc = "log"]
  OBVIOUS
<1>4. next.op = job[t].op /\ next.home = job[t].home /\ next.todo = {} /\ next.pc = "log"
      /\ next.signed = job[t].signed
  BY <1>2, <1>3 DEF Job
<1>5. Goes(t, next)
  BY <1>3, OvertakingGoes DEF Forget
<1>6. lock'[AdvisoryRow] # t
  BY <1>1, AdvisoryAt, SameLocks
<1>7. Emptied'
  <2>1. \A p \in Process : /\ \A d \in Denom : activeCache[p][d] = 0 => activeCache'[p][d] = 0
                           /\ \A v \in Version : versionCache[p][v] = "none" => versionCache'[p][v] = "none"
    BY DEF Forget, TInv, TypeOK, CachesTyped
  <2> QED
    BY <1>1, <2>1 DEF BInv, Emptied
<1>8. Serves(next)
  BY <1>2, <1>4 DEF Serves
<1> QED
  BY <1>1, <1>2, <1>4, <1>5, <1>6, <1>7, <1>8, SameLocks, QuietBoot

LEMMA LookBoots ==
  ASSUME TInv, KInv, BInv, NEW t \in Tx, ~Throw(t),
         LogRotation(t) \/ Look(t) \/ Remember(t) \/ Answer(t)
  PROVE  BInv'
<1>1. job[t].pc \in {"log", "look", "remember", "answer"}
  BY DEF LogRotation, Look, Remember, Answer, At
<1>2. job[t].todo = {} /\ job[t] \in Job /\ Serves(job[t])
  BY <1>1, NotMigrating
<1>3. ASSUME GoOn(t, Idle) PROVE BInv'
  BY <1>1, <1>3, GoesOnServing DEF Idle
<1>4. ASSUME NEW status, NEW next, next = Judged(t, status)
      PROVE  next.op = job[t].op /\ next.home = job[t].home /\ next.todo = {} /\ next.pc = "answer"
             /\ next.signed = job[t].signed
  BY <1>2, <1>4 DEF Judged, Job
<1>5. CASE Look(t)
  <2>1. ASSUME NEW status, GoOn(t, Judged(t, status)) PROVE BInv'
    <3>1. PICK next : next = Judged(t, status)
      OBVIOUS
    <3> QED
      BY <1>1, <1>4, <2>1, <3>1, GoesOnServing
  <2>2. ASSUME NEW g, NEW status, NEW label \in {"remember", "seal"},
               GoOn(t, [job[t] EXCEPT !.got = g, !.read = status, !.pc = label])
        PROVE  BInv'
    <3>1. PICK next : next = [job[t] EXCEPT !.got = g, !.read = status, !.pc = label]
      OBVIOUS
    <3>2. next.op = job[t].op /\ next.home = job[t].home /\ next.todo = {} /\ next.pc = label
          /\ next.signed = job[t].signed
      BY <1>2, <3>1 DEF Job
    <3> QED
      BY <1>1, <2>2, <3>1, <3>2, GoesOnServing
  <2> QED
    BY <1>5, <2>1, <2>2 DEF Look
<1>6. CASE Remember(t)
  <2>1. job[t].pc = "remember" /\ UNCHANGED storage /\ proc' = proc /\ activeCache' = activeCache
    BY <1>6 DEF Remember, At
  <2>2. PICK next : next = Judged(t, job[t].read)
    OBVIOUS
  <2>3. Goes(t, next)
    BY <1>6, <2>2, SetGoes DEF Remember
  <2>4. job[t].op = "check" /\ proc[job[t].home] = "up"
    BY <1>2, <2>1 DEF Serves, KInv, RInv, Aims
  <2>5. Emptied'
    <3>1. \A p \in Process : p # job[t].home => versionCache'[p] = versionCache[p]
      BY <1>6 DEF Remember, TInv, TypeOK, CachesTyped
    <3> QED
      BY <2>1, <2>4, <3>1 DEF BInv, Emptied
  <2>6. lock'[AdvisoryRow] # t
    BY <2>1, AdvisoryAt, SameLocks
  <2>7. next.op = job[t].op /\ next.home = job[t].home /\ next.todo = {} /\ next.pc = "answer"
        /\ next.signed = job[t].signed
    BY <1>4, <2>2
  <2>8. Serves(next)
    BY <1>2, <2>7 DEF Serves
  <2> QED
    BY <1>2, <2>1, <2>3, <2>5, <2>6, <2>7, <2>8, SameLocks, QuietBoot
<1> QED
  BY <1>3, <1>5, <1>6 DEF LogRotation, Answer

\* A process dies.
LEMMA CrashBoots ==
  ASSUME TInv, KInv, BInv, NEW p \in Process, Crash(p)
  PROVE  BInv'
<1>1. PICK mine \in SUBSET Tx : mine = {t \in Tx : job[t].home = p}
  OBVIOUS
<1>2. /\ job' = [t \in Tx |-> IF t \in mine THEN Idle ELSE job[t]]
      /\ cur' = [r \in Row |-> IF lock[r] \in mine THEN db[r] ELSE cur[r]]
      /\ lock' = [r \in Row |-> IF lock[r] \in mine THEN NoTx ELSE lock[r]]
      /\ db' = db
  BY <1>1 DEF Crash
<1>3. \A q \in Process : proc'[q] = IF q = p THEN "down" ELSE proc[q]
  BY DEF Crash, TInv, TypeOK, RequestsTyped
<1>4. Idle.op = "none" /\ Idle.pc = "idle" /\ Idle.todo = {} /\ Idle.signed = 0
  BY DEF Idle
<1>5. ASSUME NEW t \in Tx PROVE (Serves(job[t]) /\ Migrates(t, job[t]))'
  <2>1. CASE t \in mine
    <3>1. job'[t] = Idle
      BY <1>2, <2>1
    <3>2. \A r \in Row : lock'[r] # t
      BY <1>2, <2>1, NoneAssumption
    <3> QED
      BY <1>4, <3>1, <3>2, AllRows DEF Serves, Migrates, Migrating
  <2>2. CASE t \notin mine
    <3>1. job'[t] = job[t] /\ job[t].home # p
      BY <1>1, <1>2, <2>2
    <3>2. \A r \in Row : /\ lock'[r] = t <=> lock[r] = t
                         /\ lock[r] = t => cur'[r] = cur[r]
      BY <1>2, <2>2, NoneAssumption
    <3>3. Serves(job[t])'
      BY <1>3, <3>1 DEF BInv, Serves, TInv, Asks
    <3>4. Migrates(t, job[t]) /\ (job[t].pc = "commit" /\ job[t].todo # {} => Min(job[t].todo) \in Migration)
      BY NextMigration DEF BInv
    <3>5. PICK r : r = job[t]
      OBVIOUS
    <3>6. Migrates(t, r)'
      BY <1>2, <3>2, <3>4, <3>5, AllRows DEF Migrates, Migrating, Migrated, AllMigrated
    <3> QED
      BY <3>1, <3>3, <3>5, <3>6 DEF Migrates, Migrating, Migrated, AllMigrated
  <2> QED
    BY <2>1, <2>2
<1>6. OneBoot'
  <2>1. \A t \in Tx : job'[t] = job[t] \/ job'[t].op = "none"
    BY <1>2, <1>4
  <2> QED
    BY <2>1 DEF BInv, OneBoot
<1>7. Emptied'
  <2>1. \A q \in Process : IF q = p THEN /\ \A d \in Denom : activeCache'[q][d] = 0
                                         /\ \A v \in Version : versionCache'[q][v] = "none"
                                    ELSE activeCache'[q] = activeCache[q] /\ versionCache'[q] = versionCache[q]
    BY DEF Crash, TInv, TypeOK, CachesTyped
  <2> QED
    BY <1>3, <2>1 DEF BInv, Emptied
<1>8. UpMigrated' /\ Gapless'
  BY <1>2, <1>3 DEF BInv, UpMigrated, Gapless, AllMigrated, Migrated
<1> QED
  BY <1>5, <1>6, <1>7, <1>8 DEF BInv

\* A step that changes none of this.
LEMMA SameBoots ==
  ASSUME BInv, UNCHANGED <<storage, job, memory>>
  PROVE  BInv'
<1>1. db' = db /\ cur' = cur /\ lock' = lock /\ job' = job /\ proc' = proc
      /\ activeCache' = activeCache /\ versionCache' = versionCache
  BY DEF storage, memory
<1>2. OneBoot' /\ Emptied' /\ UpMigrated' /\ Gapless'
  BY <1>1 DEF BInv, OneBoot, Emptied, UpMigrated, Gapless, AllMigrated, Migrated
<1>3. \A t \in Tx : (Serves(job[t]) /\ Migrates(t, job[t]))'
  BY <1>1 DEF BInv, Serves, Migrates, Migrating, AllMigrated, Migrated
<1> QED
  BY <1>2, <1>3 DEF BInv

\* Every step preserves the invariant.
LEMMA NextBInv == TInv /\ IInv /\ KInv /\ BInv /\ [Next]_vars => BInv'
<1> SUFFICES ASSUME TInv, IInv, KInv, BInv, [Next]_vars PROVE BInv'
  OBVIOUS
<1>1. ASSUME NEW t \in Tx, Step(t) PROVE BInv'
  <2>1. CASE Throw(t)
    BY <2>1, ThrowBoot
  <2>2. CASE ~Throw(t)
    BY <1>1, <2>2, BootSteps, GetBoots, SealBoots, KeepBoots, GenerateBoots, CommitBoots,
       ForgetBoots, LookBoots DEF Step
  <2> QED
    BY <2>1, <2>2
<1>2. ASSUME NEW t \in Tx, Begin(t) PROVE BInv'
  BY <1>2, BeginBoots
<1>3. ASSUME NEW v \in Version, GracePasses(v) PROVE BInv'
  BY <1>3, SameBoots DEF GracePasses
<1>4. ASSUME NEW p \in Process, Crash(p) PROVE BInv'
  BY <1>4, CrashBoots
<1>5. CASE UNCHANGED vars
  BY <1>5, SameBoots DEF vars, storage, memory
<1> QED
  BY <1>1, <1>2, <1>3, <1>4, <1>5 DEF Next

\* Nothing runs at first, and no migration is recorded.
LEMMA InitBInv == KeyDbInit => BInv
<1> SUFFICES ASSUME KeyDbInit PROVE BInv
  OBVIOUS
<1>1. PICK legacy \in BOOLEAN :
         db = [r \in Row |->
                 IF r = KeyRow(1) /\ legacy
                   THEN [status |-> "active", denom |-> BootDenom, sealed |-> FALSE]
                 ELSE IF r[1] = "key" THEN NoKey
                 ELSE FALSE]
  BY DEF KeyDbInit
<1>2. \A m \in Migration : ~Migrated(m)
  <2> SUFFICES ASSUME NEW m \in Migration PROVE ~Migrated(m)
    OBVIOUS
  <2>1. MigrationRow(m) \in Row /\ MigrationRow(m)[1] # "key" /\ MigrationRow(m) # KeyRow(1)
    BY AllRows DEF MigrationRow
  <2>2. db[MigrationRow(m)] = FALSE
    BY <1>1, <2>1
  <2> QED
    BY <2>2 DEF Migrated
<1>3. /\ lock = [r \in Row |-> NoTx] /\ job = [t \in Tx |-> Idle]
      /\ proc = [p \in Process |-> "down"]
      /\ activeCache = [p \in Process |-> [d \in Denom |-> 0]]
      /\ versionCache = [p \in Process |-> [v \in Version |-> "none"]]
  BY DEF KeyDbInit
<1>4. Idle.op = "none" /\ Idle.pc = "idle" /\ Idle.todo = {} /\ Idle.signed = 0
  BY DEF Idle
<1>5. \A t \in Tx : job[t] = Idle /\ \A r \in Row : lock[r] # t
  BY <1>3, NoneAssumption
<1>6. \A t \in Tx : Serves(job[t]) /\ Migrates(t, job[t])
  BY <1>4, <1>5, AllRows DEF Serves, Migrates, Migrating
<1>7. OneBoot /\ Emptied /\ UpMigrated /\ Gapless
  BY <1>2, <1>3, <1>4, <1>5 DEF OneBoot, Emptied, UpMigrated, Gapless
<1> QED
  BY <1>6, <1>7 DEF BInv

\* Migrations are recorded without gaps, and no process serves, or generates a key, before the
\* last of them is: however many processes boot at once, and whichever of them dies.
THEOREM ServesMigratedAlways == Spec => []ServesMigrated
<1>1. TInv /\ KInv /\ BInv => ServesMigrated
  <2> SUFFICES ASSUME TInv, KInv, BInv PROVE ServesMigrated
    OBVIOUS
  <2>1. LastMigration \in Migration
    BY BoundAssumption DEF Migration
  <2>2. ASSUME NEW t \in Tx, lock[AdvisoryRow] = t PROVE Migrated(LastMigration)
    <3>1. job[t].pc \in {"max", "insert", "commit"} /\ job[t].todo = {}
      BY <2>2 DEF BInv, Migrates
    <3>2. job[t].op # "none" /\ job[t].op # "check"
      BY <3>1, Purpose
    <3>3. job[t].home \in Process /\ Serves(job[t]) /\ Migrates(t, job[t])
      BY <3>1, Purpose DEF BInv
    <3> QED
      BY <2>1, <3>1, <3>2, <3>3 DEF Serves, Migrates, Migrating, BInv, UpMigrated, AllMigrated
  <2> QED
    BY <2>1, <2>2 DEF ServesMigrated, BInv, Gapless, UpMigrated, AllMigrated, Migrated
<1> QED
  BY <1>1, InitIInv, NextIInv, InitKInv, NextKInv, InitTInv, NextTInv, InitBInv, NextBInv, PTL DEF Spec

-----------------------------------------------------------------------------
(***************************************************************************)
(* What processes remember.  The last invariant relates the caches, and    *)
(* what a request has read, to bank_keys: either agrees with the committed *)
(* table, or the request was overtaken by a change of it, or the cache is  *)
(* known to be stale.                                                      *)
(***************************************************************************)
Status(v) == db[KeyRow(v)].status
Stale(r, v) == r.overtaken \/ <<r.home, v>> \in tainted

\* What a request has read of the version it looks up, or is about to cache.
Remembers(r) ==
    /\ r.op = "check" /\ r.pc \in {"seal", "remember"} => r.overtaken \/ Status(r.version) = r.read
    /\ r.op = "check" /\ r.pc = "answer" =>
          r.read = "retired" \/ Stale(r, r.version) \/ Status(r.version) # "retired"
    /\ r.op # "check" /\ r.pc \in {"seal", "keep"} => r.overtaken \/ Status(r.got) = "active"

\* The key a request has signed with, and the one it names.
Signed(r) ==
    r.signed # 0 => /\ r.signed = r.version /\ IsOf(r.signed, r.denom)
                    /\ Stale(r, r.signed) \/ Status(r.signed) = "active"

Names(r) ==
    /\ r.pc \in {"name", "answer"} /\ r.op # "check" => r.signed # 0
    /\ r.op = "sign" /\ r.pc = "answer" =>
          r.signed = r.named \/ Stale(r, r.signed) \/ Stale(r, r.named)

\* The key a rotation retires, and the version its successor gets.
Retires(t, r) ==
    /\ r.old # 0 => r.op = "rotate" /\ r.pc \in {"retire", "max", "insert", "commit", "forget", "log"}
                    /\ IsOf(r.old, r.denom)
    /\ r.pc \in {"retire", "forget"} => r.old # 0
    /\ r.pc = "retire" => Stale(r, r.old) \/ Status(r.old) = "active"
    /\ r.pc \in {"max", "insert", "commit"} /\ r.old # 0 =>
          Stale(r, r.old) \/ (Status(r.old) = "active" /\ lock[KeyRow(r.old)] = t)

Generates(r) ==
    /\ r.pc \in {"advisory", "max", "insert"} /\ r.old = 0 =>
          r.overtaken \/ \A v \in Version : ~IsActive(db, v, r.denom)
    /\ r.pc = "insert" => r.overtaken \/ \A v \in Version : Status(v) # "none" => v < r.fresh

\* The rows of bank_keys a request has written.
Wrote(t, r) ==
    \A v \in Version : lock[KeyRow(v)] = t =>
       \/ v = r.old /\ cur[KeyRow(v)].status = "retired"
       \/ r.pc = "commit" /\ v = r.fresh /\ cur[KeyRow(v)].status = "active" /\ Status(v) = "none"

Facts(t, r) == /\ Remembers(r) /\ Signed(r) /\ Names(r)
               /\ Retires(t, r) /\ Generates(r) /\ Wrote(t, r)

PastRetired == \A v \in past : Status(v) = "retired"

MInv == CachesKnow /\ PastRetired /\ \A t \in Tx : Facts(t, job[t])

StatusesStay == \A v \in Version : SameFields(db, db', v)

-----------------------------------------------------------------------------
\* Nothing changes that a request of process p could have read.
Unaffected(p) == StatusesStay /\ \A v : <<p, v>> \in tainted => <<p, v>> \in tainted'

\* Another request is told of a change of bank_keys, or there is none that matters to it.
Bystander(u) ==
    \/ job[u].pc # "idle" /\ job'[u] = [job[u] EXCEPT !.overtaken = TRUE]
    \/ job'[u] = job[u] /\ (job[u].pc = "idle" \/ Unaffected(job[u].home))

\* What an idle request claims.
LEMMA IdleFacts ==
  ASSUME NEW t, \A v \in Version : lock[KeyRow(v)] # t
  PROVE  Facts(t, Idle)
<1>1. Idle.pc = "idle" /\ Idle.signed = 0 /\ Idle.old = 0
  BY DEF Idle
<1> QED
  BY <1>1 DEF Facts, Remembers, Signed, Names, Retires, Generates, Wrote

LEMMA BystanderFacts ==
  ASSUME TInv, KInv, MInv, NEW t \in Tx, LeftAlone(t), VersionsStay, NEW u \in Tx \ {t}, Bystander(u)
  PROVE  Facts(u, job[u])'
<1>1. /\ job[u] \in Job /\ Facts(u, job[u])
      /\ job[u].op = "check" => job[u].version \in Version
      /\ job[u].pc \in {"seal", "keep"} /\ job[u].op # "check" => job[u].got \in Version
      /\ job[u].pc = "idle" => job[u].signed = 0 /\ job[u].old = 0
  BY DEF MInv, TInv, Asks, KInv, RInv, Aims, Knows, IsOf, Idle
<1>2. PICK n : n = job'[u]
  OBVIOUS
<1>3. /\ n.op = job[u].op /\ n.pc = job[u].pc /\ n.home = job[u].home /\ n.denom = job[u].denom
      /\ n.version = job[u].version /\ n.got = job[u].got /\ n.old = job[u].old
      /\ n.fresh = job[u].fresh /\ n.read = job[u].read /\ n.signed = job[u].signed
      /\ n.named = job[u].named
      /\ job[u].overtaken => n.overtaken
      /\ n.overtaken \/ job[u].pc = "idle" \/ Unaffected(job[u].home)
  <2>1. CASE n = [job[u] EXCEPT !.overtaken = TRUE]
    BY <1>1, <2>1 DEF Job
  <2>2. CASE n = job[u] /\ (job[u].pc = "idle" \/ Unaffected(job[u].home))
    BY <2>2
  <2> QED
    BY <1>2, <2>1, <2>2 DEF Bystander
<1>4. \A v \in Version : /\ lock'[KeyRow(v)] = u <=> lock[KeyRow(v)] = u
                         /\ lock[KeyRow(v)] = u => cur'[KeyRow(v)] = cur[KeyRow(v)] /\ Status(v)' = Status(v)
  BY AllRows DEF LeftAlone, Status
<1>5. \A v, d : IsOf(v, d) => v \in Version /\ IsOf(v, d)'
  BY DEF VersionsStay, IsOf
<1>6. Unaffected(job[u].home) =>
         \A v \in Version : Status(v)' = Status(v) /\ \A d : IsActive(db', v, d) <=> IsActive(db, v, d)
  BY DEF Unaffected, StatusesStay, SameFields, Status, IsActive
<1>7. \A v : n.overtaken \/ job[u].pc = "idle" \/ (Stale(job[u], v) => Stale(n, v)')
  BY <1>3 DEF Stale, Unaffected
<1>8. \A v : n.overtaken => Stale(n, v)'
  BY DEF Stale
<1>9. Remembers(n)'
  <2>1. Remembers(job[u])
    BY <1>1 DEF Facts
  <2> QED
    BY <1>1, <1>3, <1>6, <1>7, <1>8, <2>1 DEF Remembers
<1>10. Signed(n)'
  <2>1. Signed(job[u])
    BY <1>1 DEF Facts
  <2> QED
    BY <1>1, <1>3, <1>5, <1>6, <1>7, <1>8, <2>1 DEF Signed
<1>11. Names(n)'
  <2>1. Names(job[u])
    BY <1>1 DEF Facts
  <2> QED
    BY <1>1, <1>3, <1>7, <1>8, <2>1 DEF Names
<1>12. Retires(u, n)'
  <2>1. Retires(u, job[u])
    BY <1>1 DEF Facts
  <2> QED
    BY <1>1, <1>3, <1>4, <1>5, <1>6, <1>7, <1>8, <2>1 DEF Retires
<1>13. Generates(n)'
  <2>1. Generates(job[u])
    BY <1>1 DEF Facts
  <2> QED
    BY <1>1, <1>3, <1>6, <2>1 DEF Generates, IsActive
<1>14. Wrote(u, n)'
  <2>1. Wrote(u, job[u])
    BY <1>1 DEF Facts
  <2> QED
    BY <1>3, <1>4, <2>1 DEF Wrote
<1> QED
  BY <1>2, <1>9, <1>10, <1>11, <1>12, <1>13, <1>14
     DEF Facts, Remembers, Signed, Names, Retires, Generates, Wrote, Stale, Status, IsOf, IsActive

\* What a step of one request has to keep.
LEMMA RememberBy ==
  ASSUME TInv, KInv, MInv, NEW t \in Tx, NEW next, Goes(t, next), LeftAlone(t), VersionsStay,
         \A u \in Tx \ {t} : Bystander(u),
         Facts(t, next)', CachesKnow', PastRetired'
  PROVE  MInv'
<1>1. \A u \in Tx \ {t} : Facts(u, job[u])'
  BY BystanderFacts
<1>2. Facts(t, job[t])'
  BY DEF Goes, Facts, Remembers, Signed, Names, Retires, Generates, Wrote, Stale, Status, IsOf, IsActive
<1> QED
  BY <1>1, <1>2 DEF MInv

\* Statuses that stay.
LEMMA SameStatuses ==
  ASSUME StatusesStay
  PROVE  /\ VersionsStay
         /\ \A v \in Version : Status(v)' = Status(v) /\ \A d : IsActive(db', v, d) <=> IsActive(db, v, d)
  BY DEF StatusesStay, SameFields, VersionsStay, IsOf, Status, IsActive

\* A step that changes no status, and no cache.
LEMMA QuietRemember ==
  ASSUME TInv, KInv, MInv, NEW t \in Tx, NEW next, job' = [job EXCEPT ![t] = next], LeftAlone(t),
         StatusesStay, UNCHANGED <<activeCache, versionCache, past, tainted>>,
         Facts(t, next)'
  PROVE  MInv'
<1>1. Goes(t, next)
  BY SetGoes
<1>2. \A u \in Tx \ {t} : Bystander(u)
  BY DEF Bystander, Unaffected, TInv, TypeOK, RequestsTyped
<1>3. CachesKnow'
  BY SameStatuses DEF MInv, CachesKnow, Status
<1>4. PastRetired'
  <2>1. past \subseteq Version
    BY DEF TInv, TypeOK
  <2> QED
    BY <2>1, SameStatuses DEF MInv, PastRetired
<1> QED
  BY <1>1, <1>2, <1>3, <1>4, SameStatuses, RememberBy

\* A request goes on about the same key.
Same(n, r) == SameRequest(n, r) /\ n.signed = r.signed /\ n.old = r.old

LEMMA SignedOn ==
  ASSUME NEW r, NEW n, Signed(r), Same(n, r), Unaffected(r.home)
  PROVE  Signed(n)'
<1>1. \A v : Stale(r, v) => Stale(n, v)'
  BY DEF Stale, Same, SameRequest, Unaffected
<1>2. \A v, d : IsOf(v, d) => v \in Version /\ IsOf(v, d)'
  BY SameStatuses DEF Unaffected, VersionsStay, IsOf
<1> QED
  BY <1>1, <1>2, SameStatuses DEF Signed, Same, SameRequest, Unaffected

\* A request that has neither a key nor a row in hand.
LEMMA PlainFacts ==
  ASSUME NEW t, NEW n, n.signed = 0, n.old = 0, \A v \in Version : lock[KeyRow(v)] # t,
         n.pc \in {"idle", "baseline", "applied", "record", "get", "look", "commit"}
  PROVE  Facts(t, n)
  BY DEF Facts, Remembers, Signed, Names, Retires, Generates, Wrote

LEMMA GoOnRemembers ==
  ASSUME TInv, KInv, MInv, NEW t \in Tx, NEW next, GoOn(t, next), Facts(t, next)
  PROVE  MInv'
<1>1. LeftAlone(t) /\ StatusesStay
  BY SameLeaves DEF GoOn, StatusesStay, SameFields, storage
<1>2. Facts(t, next)'
  BY DEF GoOn, storage, memory, Facts, Remembers, Signed, Names, Retires, Generates, Wrote, Stale,
         Status, IsOf, IsActive
<1> QED
  BY <1>1, <1>2, QuietRemember DEF GoOn, memory

LEMMA UpdateRemembers ==
  ASSUME TInv, KInv, MInv, NEW t \in Tx, NEW row, NEW x, NEW next, Update(t, row, x, next),
         Facts(t, next)'
  PROVE  MInv'
<1>1. LeftAlone(t) /\ StatusesStay
  BY WriteLeaves DEF Update, Write, StatusesStay, SameFields
<1> QED
  BY <1>1, QuietRemember DEF Update, memory

\* What arrives has not read anything.
LEMMA BeginRemembers ==
  ASSUME TInv, KInv, MInv, NEW t \in Tx, Begin(t)
  PROVE  MInv'
<1>1. job[t].pc = "idle"
  BY DEF Begin, BeginKey, BeginRotate, BeginCheck, BeginSign, Start, Boot, At
<1>2. \A v \in Version : lock[KeyRow(v)] # t
  BY <1>1, EmptyHanded
<1>3. ASSUME NEW request \in Job, Start(t, request), request.signed = 0, request.old = 0,
             request.pc \in {"get", "look"}
      PROVE  MInv'
  <2>1. PICK p \in Process : GoOn(t, [request EXCEPT !.home = p])
    BY <1>3 DEF Start
  <2>2. PICK next : next = [request EXCEPT !.home = p]
    OBVIOUS
  <2>3. next.pc = request.pc /\ next.signed = 0 /\ next.old = 0
    BY <1>3, <2>2 DEF Job
  <2>4. Facts(t, next)
    BY <1>2, <1>3, <2>3, PlainFacts
  <2> QED
    BY <2>1, <2>2, <2>4, GoOnRemembers
<1>4. Idle \in Job
  BY IdleAsks DEF Asks
<1>5. ASSUME NEW op \in {"key", "rotate"}, NEW d \in Denom,
             Start(t, [Idle EXCEPT !.op = op, !.pc = "get", !.denom = d])
      PROVE  MInv'
  <2>1. PICK request : request = [Idle EXCEPT !.op = op, !.pc = "get", !.denom = d]
    OBVIOUS
  <2>2. request \in Job /\ request.pc = "get" /\ request.signed = 0 /\ request.old = 0
    BY <1>4, <2>1 DEF Job, Op, Label, Idle
  <2> QED
    BY <1>3, <1>5, <2>1, <2>2
<1>6. ASSUME NEW v \in Version, BeginCheck(t, v) PROVE MInv'
  <2>1. PICK request : request = [Idle EXCEPT !.op = "check", !.pc = "look", !.version = v]
    OBVIOUS
  <2>2. request \in Job /\ request.pc = "look" /\ request.signed = 0 /\ request.old = 0
    BY <1>4, <1>6, <2>1, Bounds DEF Job, Op, Label, Idle
  <2> QED
    BY <1>3, <1>6, <2>1, <2>2 DEF BeginCheck
<1>7. ASSUME NEW v \in Version, BeginSign(t, v) PROVE MInv'
  <2>1. PICK d \in Denom : d = db[KeyRow(v)].denom
    BY <1>7 DEF BeginSign, KInv, VersionsInv
  <2>2. PICK request : request = [Idle EXCEPT !.op = "sign", !.pc = "get", !.version = v, !.denom = d]
    OBVIOUS
  <2>3. request \in Job /\ request.pc = "get" /\ request.signed = 0 /\ request.old = 0
    BY <1>4, <1>7, <2>2, Bounds DEF Job, Op, Label, Idle
  <2> QED
    BY <1>3, <1>7, <2>1, <2>2, <2>3 DEF BeginSign
<1>8. ASSUME NEW p \in Process, Boot(t, p) PROVE MInv'
  <2>1. PICK next : next = [Idle EXCEPT !.op = "boot", !.pc = "baseline", !.home = p,
                                        !.denom = BootDenom]
    OBVIOUS
  <2>2. next.pc = "baseline" /\ next.signed = 0 /\ next.old = 0
    BY <2>1 DEF Idle
  <2>3. job' = [job EXCEPT ![t] = next] /\ UNCHANGED <<storage, activeCache, versionCache, past, tainted>>
    BY <1>8, <2>1 DEF Boot
  <2>4. LeftAlone(t) /\ StatusesStay
    BY <2>3, SameLeaves DEF StatusesStay, SameFields, storage
  <2>5. Facts(t, next)
    BY <1>2, <2>2, PlainFacts
  <2>6. Facts(t, next)'
    BY <2>3, <2>5 DEF storage, Facts, Remembers, Signed, Names, Retires, Generates, Wrote, Stale,
           Status, IsOf, IsActive
  <2> QED
    BY <2>3, <2>4, <2>6, QuietRemember
<1> QED
  BY <1>5, <1>6, <1>7, <1>8 DEF Begin, BeginKey, BeginRotate

\* The statements of a boot before getOrGenerate.
LEMMA BootRemembers ==
  ASSUME TInv, KInv, BInv, MInv, NEW t \in Tx, ~Throw(t), BaselineSelect(t) \/ AppliedSelect(t) \/ Record(t)
  PROVE  MInv'
<1>1. job[t].pc \in {"baseline", "applied", "record"}
  BY DEF BaselineSelect, AppliedSelect, Record, At
<1>2. job[t] \in Job /\ job[t].op = "boot" /\ job[t].signed = 0 /\ job[t].old = 0
  BY <1>1 DEF BInv, Serves, Migrates, Migrating, TInv, Asks, MInv, Facts, Retires
<1>3. \A v \in Version : lock[KeyRow(v)] # t
  BY <1>1, EmptyHanded
<1>4. ASSUME NEW label \in {"applied", "record", "get"}, NEW left, NEW next,
             next = [job[t] EXCEPT !.pc = label, !.todo = left], GoOn(t, next)
      PROVE  MInv'
  <2>1. next.signed = 0 /\ next.old = 0 /\ next.pc = label
    BY <1>2, <1>4 DEF Job
  <2>2. Facts(t, next)
    BY <1>3, <2>1, PlainFacts
  <2> QED
    BY <1>4, <2>2, GoOnRemembers
<1>5. CASE BaselineSelect(t)
  <2>1. PICK next : GoOn(t, next) /\ \/ next = [job[t] EXCEPT !.pc = "applied"]
                                     \/ next = [job[t] EXCEPT !.pc = "record", !.todo = {1}]
    BY <1>5 DEF BaselineSelect
  <2>2. next = [job[t] EXCEPT !.pc = "applied"] => next = [job[t] EXCEPT !.pc = "applied", !.todo = job[t].todo]
    BY <1>2 DEF Job
  <2> QED
    BY <1>4, <2>1, <2>2
<1>6. CASE AppliedSelect(t)
  <2>1. PICK left : left = {m \in Migration : ~db[MigrationRow(m)]}
    OBVIOUS
  <2>2. PICK label \in {"get", "record"} : label = IF left = {} THEN "get" ELSE "record"
    OBVIOUS
  <2>3. PICK next : next = [job[t] EXCEPT !.pc = label, !.todo = left]
    OBVIOUS
  <2>4. GoOn(t, next)
    BY <1>6, <2>1, <2>2, <2>3 DEF AppliedSelect
  <2> QED
    BY <1>4, <2>3, <2>4
<1>7. CASE Record(t)
  <2>1. PICK next : next = [job[t] EXCEPT !.pc = "commit"]
    OBVIOUS
  <2>2. PICK m : m = Min(job[t].todo)
    OBVIOUS
  <2>3. Update(t, MigrationRow(m), TRUE, next)
    BY <1>7, <2>1, <2>2 DEF Record
  <2>4. next.signed = 0 /\ next.old = 0 /\ next.pc = "commit"
    BY <1>2, <2>1 DEF Job
  <2>5. \A v \in Version : lock'[KeyRow(v)] # t
    BY <1>3, <2>3, AllRows DEF Update, Write, TInv, TypeOK, StorageTyped
  <2>6. Facts(t, next)'
    BY <2>4, <2>5 DEF Facts, Remembers, Signed, Names, Retires, Generates, Wrote
  <2> QED
    BY <2>3, <2>6, UpdateRemembers
<1> QED
  BY <1>5, <1>6, <1>7

LEMMA ThrowRemembers ==
  ASSUME TInv, KInv, MInv, NEW t \in Tx, Throw(t)
  PROVE  MInv'
<1>1. LeftAlone(t) /\ StatusesStay
  BY RollbackLeaves DEF Throw, Rollback, StatusesStay, SameFields
<1>2. \A v \in Version : lock'[KeyRow(v)] # t
  BY NoneAssumption, AllRows DEF Throw, Rollback, Release
<1>3. Facts(t, Idle)'
  <2>1. Idle.pc = "idle" /\ Idle.signed = 0 /\ Idle.old = 0
    BY DEF Idle
  <2> QED
    BY <1>2, <2>1 DEF Facts, Remembers, Signed, Names, Retires, Generates, Wrote
<1> QED
  BY <1>1, <1>3, QuietRemember DEF Throw

\* What the caller of getOrGenerate goes on with.
LEMMA ObtainedFacts ==
  ASSUME TInv, IInv, KInv, BInv, MInv, NEW t \in Tx, job[t].pc \in {"get", "name", "keep"},
         NEW v \in Version, IsOf(v, job[t].denom), UNCHANGED storage, tainted \subseteq tainted',
         job[t].overtaken \/ <<job[t].home, v>> \in tainted' \/ Status(v) = "active",
         NEW next, next = Continue([job[t] EXCEPT !.got = 0, !.fresh = 0], v)
  PROVE  Facts(t, next)'
<1>1. PICK s : s = [job[t] EXCEPT !.got = 0, !.fresh = 0]
  OBVIOUS
<1>2. /\ job[t] \in Job /\ Serves(job[t]) /\ Facts(t, job[t])
      /\ job[t].op \notin {"none", "check"} /\ job[t].old = 0
      /\ \A w \in Version : lock[KeyRow(w)] # t
  BY Purpose, EmptyHanded DEF BInv, TInv, Asks, MInv, Facts, Retires
<1>3. /\ s \in Job /\ Same(s, job[t])
  BY <1>1, <1>2, Bounds DEF Job, Same, SameRequest
<1>4. db' = db /\ cur' = cur /\ lock' = lock
  BY DEF storage
<1>5. Unaffected(job[t].home)
  BY <1>4 DEF Unaffected, StatusesStay, SameFields
<1>6. CASE s.op = "rotate" /\ next = [s EXCEPT !.pc = "retire", !.old = v]
  <2>1. /\ next.op = "rotate" /\ next.pc = "retire" /\ next.old = v /\ next.denom = job[t].denom
        /\ next.home = job[t].home /\ next.overtaken = job[t].overtaken /\ next.signed = job[t].signed
    BY <1>3, <1>6 DEF Job, Same, SameRequest
  <2>2. next.signed = 0
    BY <1>2, <1>3, <1>6, <2>1 DEF Serves, Same, SameRequest
  <2>3. Retires(t, next)'
    BY <1>4, <2>1, Bounds DEF Retires, IsOf, Stale, Status
  <2> QED
    BY <1>2, <1>4, <2>1, <2>2, <2>3 DEF Facts, Remembers, Signed, Names, Generates, Wrote
<1>7. CASE s.signed # 0 /\ next = [s EXCEPT !.pc = "answer", !.named = v]
  <2>1. /\ Same(next, job[t]) /\ next.pc = "answer" /\ next.named = v
    <3>1. v \in 0..MaxVersion
      BY Bounds
    <3> QED
      BY <1>3, <1>7, <3>1 DEF Job, Label, Same, SameRequest
  <2>2. job[t].signed # 0 /\ job[t].op = "sign"
    BY <1>2, <1>3, <1>7 DEF Serves, Same
  <2>3. Signed(next)'
    BY <1>2, <1>5, <2>1, SignedOn DEF Facts
  <2>4. job[t].signed = v \/ Stale(job[t], job[t].signed) \/ Status(v) # "active"
    <3>1. /\ job[t].signed \in Version /\ IsOf(job[t].signed, job[t].denom)
          /\ Stale(job[t], job[t].signed) \/ Status(job[t].signed) = "active"
      BY <1>2, <2>2 DEF Facts, Signed, IsOf
    <3>2. job[t].denom \in Denom
      BY Purpose
    <3> QED
      BY <3>1, <3>2 DEF IInv, Apart, KeptApart, IsActive, IsOf, Status
  <2>5. Names(next)'
    BY <1>4, <2>1, <2>2, <2>4 DEF Names, Same, SameRequest, Stale
  <2> QED
    BY <1>2, <1>4, <2>1, <2>2, <2>3, <2>5 DEF Facts, Remembers, Retires, Generates, Wrote, Same, SameRequest
<1>8. CASE s.signed = 0 /\ s.op = "sign" /\ s.version = v /\ next = [s EXCEPT !.pc = "name", !.signed = v]
  <2>1. /\ next.op = "sign" /\ next.pc = "name" /\ next.signed = v /\ next.version = v /\ next.old = 0
        /\ next.denom = job[t].denom /\ next.home = job[t].home /\ next.overtaken = job[t].overtaken
    BY <1>2, <1>3, <1>8 DEF Job, Same, SameRequest
  <2>2. v # 0
    BY Bounds
  <2>3. Signed(next)'
    BY <1>4, <2>1 DEF Signed, IsOf, Stale, Status
  <2>4. Names(next)'
    BY <2>1, <2>2 DEF Names
  <2> QED
    BY <1>2, <1>4, <2>1, <2>3, <2>4 DEF Facts, Remembers, Retires, Generates, Wrote
<1>9. CASE next = Idle
  <2>1. Facts(t, Idle)
    BY <1>2, IdleFacts
  <2>2. Idle.pc = "idle" /\ Idle.signed = 0 /\ Idle.old = 0
    BY DEF Idle
  <2> QED
    BY <1>2, <1>4, <1>9, <2>2 DEF Facts, Remembers, Signed, Names, Retires, Generates, Wrote
<1> QED
  BY <1>1, <1>6, <1>7, <1>8, <1>9 DEF Continue

LEMMA ObtainedRemembers ==
  ASSUME TInv, IInv, KInv, BInv, MInv, NEW t \in Tx, job[t].pc \in {"get", "name", "keep"},
         NEW v \in Version, IsOf(v, job[t].denom), Obtained(t, v), tainted \subseteq tainted',
         job[t].overtaken \/ <<job[t].home, v>> \in tainted' \/ Status(v) = "active",
         CachesKnow'
  PROVE  MInv'
<1>1. PICK next : next = Continue([job[t] EXCEPT !.got = 0, !.fresh = 0], v)
  OBVIOUS
<1>2. UNCHANGED storage /\ past' = past /\ job' = [job EXCEPT ![t] = next]
  BY <1>1 DEF Obtained
<1>3. Facts(t, next)'
  BY <1>1, <1>2, ObtainedFacts
<1>4. LeftAlone(t) /\ StatusesStay
  BY <1>2, SameLeaves DEF storage, StatusesStay, SameFields
<1>5. \A u \in Tx \ {t} : Bystander(u)
  BY <1>2, <1>4 DEF Bystander, Unaffected, TInv, TypeOK, RequestsTyped
<1>6. PastRetired'
  BY <1>2 DEF storage, MInv, PastRetired, Status
<1> QED
  BY <1>2, <1>3, <1>4, <1>5, <1>6, SetGoes, SameStatuses, RememberBy

LEMMA GetRemembers ==
  ASSUME TInv, IInv, KInv, BInv, MInv, NEW t \in Tx, Get(t)
  PROVE  MInv'
<1>1. job[t].pc \in {"get", "name"}
  BY DEF Get
<1>2. /\ job[t] \in Job /\ Facts(t, job[t])
      /\ job[t].op \notin {"none", "check"} /\ job[t].old = 0
      /\ job[t].home \in Process /\ job[t].denom \in Denom
      /\ \A w \in Version : lock[KeyRow(w)] # t
  BY <1>1, Purpose, EmptyHanded DEF TInv, Asks, MInv, Facts, Retires
<1>3. PICK cached : cached = activeCache[job[t].home][job[t].denom]
  OBVIOUS
<1>4. CASE cached # 0 /\ Obtained(t, cached) /\ UNCHANGED <<activeCache, tainted>>
  <2>1. cached \in Version /\ IsOf(cached, job[t].denom)
    BY <1>2, <1>3, <1>4 DEF KInv, CachesInv, IsOf
  <2>2. <<job[t].home, cached>> \in tainted \/ Status(cached) = "active"
    <3>1. db[KeyRow(cached)] \in KeyValue
      BY <2>1 DEF TInv, TypeOK, StorageTyped
    <3>2. Status(cached) \in {"active", "retired"}
      BY <2>1, <3>1 DEF KeyValue, IsOf, Status
    <3> QED
      BY <1>2, <1>3, <2>1, <3>2 DEF MInv, CachesKnow, Status
  <2>3. CachesKnow'
    BY <1>4 DEF Obtained, storage, MInv, CachesKnow
  <2> QED
    BY <1>1, <1>4, <2>1, <2>2, <2>3, ObtainedRemembers
<1>5. ASSUME NEW v \in Version, NEW label \in {"keep", "seal"}, IsActive(db, v, job[t].denom),
             GoOn(t, [job[t] EXCEPT !.got = v, !.pc = label])
      PROVE  MInv'
  <2>1. PICK next : next = [job[t] EXCEPT !.got = v, !.pc = label]
    OBVIOUS
  <2>2. Same(next, job[t]) /\ next.got = v /\ next.pc = label
    BY <1>2, <2>1, Bounds DEF Job, Label, Same, SameRequest
  <2>3. Facts(t, next)
    BY <1>2, <1>5, <2>2
       DEF Facts, Remembers, Signed, Names, Retires, Generates, Wrote, Same, SameRequest, IsActive, Status, Stale
  <2> QED
    BY <1>5, <2>1, <2>3, GoOnRemembers
<1>6. ASSUME GoOn(t, [job[t] EXCEPT !.pc = "advisory"]), \A v \in Version : ~IsActive(db, v, job[t].denom)
      PROVE  MInv'
  <2>1. PICK next : next = [job[t] EXCEPT !.pc = "advisory"]
    OBVIOUS
  <2>2. Same(next, job[t]) /\ next.pc = "advisory"
    BY <1>2, <2>1 DEF Job, Label, Same, SameRequest
  <2>3. Facts(t, next)
    BY <1>2, <1>6, <2>2 DEF Facts, Remembers, Signed, Names, Retires, Generates, Wrote, Same, SameRequest, Stale
  <2> QED
    BY <1>6, <2>1, <2>3, GoOnRemembers
<1> QED
  BY <1>3, <1>4, <1>5, <1>6 DEF Get

LEMMA KeepRemembers ==
  ASSUME TInv, IInv, KInv, BInv, MInv, NEW t \in Tx, Keep(t)
  PROVE  MInv'
<1>1. job[t].pc = "keep" /\ Obtained(t, job[t].got)
  BY DEF Keep, At
<1>2. job[t].op \notin {"none", "check"} /\ job[t].home \in Process /\ job[t].denom \in Denom
  BY <1>1, Purpose
<1>3. PICK v \in Version : v = job[t].got /\ IsOf(v, job[t].denom)
  BY <1>1, <1>2 DEF KInv, RInv, Knows, IsOf
<1>4. tainted' = (IF job[t].overtaken THEN tainted \cup {<<job[t].home, v>>} ELSE tainted)
  BY <1>3 DEF Keep, TaintIf
<1>5. job[t].overtaken \/ Status(v) = "active"
  BY <1>1, <1>2, <1>3 DEF MInv, Facts, Remembers
<1>6. CachesKnow'
  <2>1. db' = db /\ versionCache' = versionCache
    BY <1>1 DEF Obtained, storage
  <2>2. \A p \in Process, d \in Denom :
           activeCache'[p][d] = IF p = job[t].home /\ d = job[t].denom THEN v ELSE activeCache[p][d]
    BY <1>2, <1>3 DEF Keep, TInv, TypeOK, CachesTyped
  <2> SUFFICES ASSUME NEW p \in Process, NEW w \in Version, Status(w) = "retired",
                      versionCache[p][w] = "active" \/ \E d \in Denom : activeCache'[p][d] = w
               PROVE  <<p, w>> \in tainted'
    BY <2>1 DEF CachesKnow, Status
  <2>3. CASE versionCache[p][w] = "active" \/ \E d \in Denom : activeCache[p][d] = w
    BY <1>4, <2>3 DEF MInv, CachesKnow, Status
  <2>4. CASE p = job[t].home /\ w = v
    BY <1>4, <1>5, <2>4
  <2> QED
    BY <2>2, <2>3, <2>4
<1> QED
  BY <1>1, <1>3, <1>4, <1>5, <1>6, ObtainedRemembers

LEMMA SealRemembers ==
  ASSUME TInv, IInv, KInv, BInv, MInv, NEW t \in Tx, Seal(t)
  PROVE  MInv'
<1>1. job[t].pc = "seal" /\ lock' = lock /\ lock[KeyRow(job[t].got)] = NoTx
  BY DEF Seal, At
<1>2. /\ job[t] \in Job /\ Facts(t, job[t])
      /\ \A w \in Version : lock[KeyRow(w)] # t
  BY <1>1, EmptyHanded DEF TInv, Asks, MInv
<1>3. PICK label : /\ job' = [job EXCEPT ![t].pc = label]
                   /\ label = IF job[t].op = "check" THEN "remember" ELSE "keep"
  BY DEF Seal
<1>4. PICK next : next = [job[t] EXCEPT !.pc = label]
  OBVIOUS
<1>5. Same(next, job[t]) /\ next.got = job[t].got /\ next.read = job[t].read /\ next.pc = label
  BY <1>2, <1>3, <1>4 DEF Job, Label, Same, SameRequest
<1>6. job' = [job EXCEPT ![t] = next]
  BY <1>3, <1>4 DEF TInv, TypeOK, RequestsTyped
<1>7. PICK row : row = KeyRow(job[t].got)
  OBVIOUS
<1>8. \A r \in Row : r # row => db'[r] = db[r] /\ cur'[r] = cur[r]
  <2>1. db = [r \in Row |-> db[r]] /\ cur = [r \in Row |-> cur[r]]
    BY DEF TInv, TypeOK, StorageTyped
  <2>2. db' = [db EXCEPT ![row].sealed = TRUE] /\ cur' = [cur EXCEPT ![row].sealed = TRUE]
    BY <1>7 DEF Seal
  <2> QED
    BY <2>1, <2>2
<1>9. LeftAlone(t)
  BY <1>1, <1>7, <1>8, NoneAssumption DEF LeftAlone
<1>10. StatusesStay
  BY SealFields DEF StatusesStay, SameFields
<1>11. job[t].op = "check" => job[t].version \in Version
  BY DEF TInv, Asks
<1>12. job[t].op # "check" => job[t].got \in Version
  BY <1>1 DEF KInv, RInv, Knows, IsOf
<1>13. Unaffected(job[t].home)
  BY <1>10 DEF Unaffected, Seal
<1>14. Signed(next)'
  BY <1>2, <1>5, <1>13, SignedOn DEF Facts
<1>15. Remembers(next)'
  BY <1>1, <1>2, <1>3, <1>5, <1>10, <1>11, <1>12, SameStatuses DEF Facts, Remembers, Same, SameRequest
<1>16. Wrote(t, next)' /\ Names(next)' /\ Generates(next)' /\ Retires(t, next)'
  BY <1>1, <1>2, <1>3, <1>5 DEF Facts, Wrote, Names, Generates, Retires, Same, SameRequest
<1>17. Facts(t, next)'
  BY <1>14, <1>15, <1>16 DEF Facts
<1> QED
  BY <1>6, <1>9, <1>10, <1>17, QuietRemember DEF Seal, memory

\* The transaction that makes a key, up to its COMMIT.
LEMMA GenerateRemembers ==
  ASSUME TInv, IInv, KInv, BInv, MInv, NEW t \in Tx, ~Throw(t),
         Advisory(t) \/ MaxSelect(t) \/ Insert(t) \/ Retire(t)
  PROVE  MInv'
<1>1. job[t].pc \in {"advisory", "max", "insert", "retire"}
  BY DEF Advisory, MaxSelect, Insert, Retire, At
<1>2. /\ job[t] \in Job /\ Facts(t, job[t])
      /\ job[t].op \notin {"none", "check"} /\ job[t].denom \in Denom
      /\ db = [r \in Row |-> db[r]] /\ cur = [r \in Row |-> cur[r]] /\ lock = [r \in Row |-> lock[r]]
  BY <1>1, Purpose DEF TInv, TypeOK, StorageTyped, Asks, MInv
<1>3. CASE Advisory(t)
  <2>1. job[t].pc = "advisory" /\ \A v \in Version : lock[KeyRow(v)] # t
    BY <1>3, EmptyHanded DEF Advisory, At
  <2>2. PICK next : next = [job[t] EXCEPT !.pc = "max"]
    OBVIOUS
  <2>3. Same(next, job[t]) /\ next.pc = "max"
    BY <1>2, <2>2 DEF Job, Label, Same, SameRequest
  <2>4. Update(t, AdvisoryRow, cur[AdvisoryRow], next)
    BY <1>3, <2>2 DEF Advisory
  <2>5. db' = db /\ tainted' = tainted /\ \A v \in Version : lock'[KeyRow(v)] # t
    BY <1>2, <2>1, <2>4, AllRows DEF Update, Write
  <2>6. Signed(next)'
    BY <1>2, <2>3, <2>5, SignedOn DEF Facts, Unaffected, StatusesStay, SameFields
  <2>7. Facts(t, next)'
    BY <1>2, <2>1, <2>3, <2>5, <2>6
       DEF Facts, Remembers, Names, Retires, Generates, Wrote, Same, SameRequest, IsActive
  <2> QED
    BY <2>4, <2>7, UpdateRemembers
<1>4. CASE MaxSelect(t)
  <2>1. PICK f : f = Max(Used(View(t)) \cup {0}) + 1
    OBVIOUS
  <2>2. PICK next : next = [job[t] EXCEPT !.pc = "insert", !.fresh = f]
    OBVIOUS
  <2>3. job[t].pc = "max" /\ GoOn(t, next)
    BY <1>4, <2>1, <2>2 DEF MaxSelect, At
  <2>4. next.pc = "insert" /\ next.fresh = f /\ next.op = job[t].op /\ next.home = job[t].home
        /\ next.denom = job[t].denom /\ next.version = job[t].version /\ next.overtaken = job[t].overtaken
        /\ next.signed = job[t].signed /\ next.old = job[t].old
    BY <1>2, <2>2 DEF Job
  <2>5. \A v \in Version : Status(v) # "none" => v < f
    <3>1. PICK S : S = Used(View(t)) \cup {0}
      OBVIOUS
    <3>2. S \in SUBSET (0..MaxVersion) /\ S # {}
      BY <3>1, BoundAssumption DEF Used, Version
    <3>3. Max(S) \in S /\ \A y \in S : y <= Max(S)
      BY <3>2, MaxIs, BoundAssumption
    <3>4. \A v \in Version : Status(v) # "none" => v \in S
      BY <3>1, AllRows DEF Used, View, Read, Status, KInv, VersionsInv
    <3> QED
      BY <2>1, <3>1, <3>2, <3>3, <3>4, BoundAssumption DEF Version
  <2>6. Facts(t, next)
    BY <1>2, <2>3, <2>4, <2>5
       DEF Facts, Remembers, Signed, Names, Retires, Generates, Wrote, Stale
  <2> QED
    BY <2>3, <2>6, GoOnRemembers
<1>5. CASE Insert(t)
  <2>1. PICK f \in Version : f = job[t].fresh /\ ~Collides(t)
    BY <1>5 DEF Insert
  <2>2. PICK next : next = [job[t] EXCEPT !.pc = "commit"]
    OBVIOUS
  <2>3. PICK x : x = [status |-> "active", denom |-> job[t].denom, sealed |-> TRUE]
    OBVIOUS
  <2>4. Update(t, KeyRow(f), x, next)
    BY <1>5, <2>1, <2>2, <2>3 DEF Insert
  <2>5. Same(next, job[t]) /\ next.pc = "commit" /\ next.fresh = f
    BY <1>2, <2>1, <2>2 DEF Job, Label, Same, SameRequest
  <2>6. db' = db /\ tainted' = tainted
        /\ \A v \in Version : /\ lock'[KeyRow(v)] = IF v = f THEN t ELSE lock[KeyRow(v)]
                              /\ cur'[KeyRow(v)] = IF v = f THEN x ELSE cur[KeyRow(v)]
    BY <1>2, <2>4, Rows DEF Update, Write
  <2>7. Status(f) = "none" /\ cur[KeyRow(f)].status = "none"
    BY <2>1 DEF Collides, Used, KInv, VersionsInv, Status
  <2>8. Signed(next)'
    BY <1>2, <2>5, <2>6, SignedOn DEF Facts, Unaffected, StatusesStay, SameFields
  <2>9. Wrote(t, next)'
    <3>1. Wrote(t, job[t]) /\ job[t].pc = "insert"
      BY <1>2, <1>5 DEF Facts, Insert, At
    <3> SUFFICES ASSUME NEW v \in Version, lock'[KeyRow(v)] = t
                 PROVE  \/ v = next.old /\ cur'[KeyRow(v)].status = "retired"
                        \/ /\ next.pc = "commit" /\ v = next.fresh /\ cur'[KeyRow(v)].status = "active"
                           /\ Status(v)' = "none"
      BY DEF Wrote
    <3>2. CASE v = f
      BY <2>3, <2>5, <2>6, <2>7, <3>2 DEF Status
    <3>3. CASE v # f
      BY <2>5, <2>6, <3>1, <3>3 DEF Wrote, Same
    <3> QED
      BY <3>2, <3>3
  <2>10. Retires(t, next)'
    <3>1. job[t].pc = "insert" /\ Retires(t, job[t])
      BY <1>2, <1>5 DEF Facts, Insert, At
    <3>2. lock[KeyRow(job[t].old)] = t /\ job[t].old \in Version => lock'[KeyRow(job[t].old)] = t
      BY <2>6
    <3> QED
      BY <2>5, <2>6, <3>1, <3>2 DEF Retires, Same, SameRequest, IsOf, Stale, Status
  <2>11. Facts(t, next)'
    BY <1>2, <2>5, <2>8, <2>9, <2>10 DEF Facts, Remembers, Names, Generates, Same, SameRequest
  <2> QED
    BY <2>4, <2>11, UpdateRemembers
<1>6. CASE Retire(t)
  <2>1. PICK next : next = [job[t] EXCEPT !.pc = "max"]
    OBVIOUS
  <2>2. Same(next, job[t]) /\ next.pc = "max"
    BY <1>2, <2>1 DEF Job, Label, Same, SameRequest
  <2>3. /\ job[t].pc = "retire" /\ \A v \in Version : lock[KeyRow(v)] # t
        /\ Writable(t, KeyRow(job[t].old))
    BY <1>6, EmptyHanded DEF Retire, At
  <2>4. PICK o \in Version : o = job[t].old /\ o # 0
    BY <1>2, <2>3 DEF Facts, Retires, IsOf
  <2>5. lock[KeyRow(o)] = NoTx /\ cur[KeyRow(o)] = db[KeyRow(o)]
    BY <2>3, <2>4, Rows DEF Writable, IInv, OneVersion
  <2>6. CASE cur[KeyRow(o)].status # "active"
    <3>1. GoOn(t, next)
      BY <1>6, <2>1, <2>4, <2>6 DEF Retire
    <3>2. Stale(job[t], o)
      BY <1>2, <2>3, <2>4, <2>5, <2>6 DEF Facts, Retires, Status
    <3>3. Facts(t, next)
      BY <1>2, <2>2, <2>3, <2>4, <3>2
         DEF Facts, Remembers, Signed, Names, Retires, Generates, Wrote, Same, SameRequest, Stale
    <3> QED
      BY <3>1, <3>3, GoOnRemembers
  <2>7. CASE cur[KeyRow(o)].status = "active"
    <3>1. PICK x : x = [cur[KeyRow(o)] EXCEPT !.status = "retired"]
      OBVIOUS
    <3>2. Update(t, KeyRow(o), x, next) /\ x.status = "retired"
      <4>1. cur[KeyRow(o)] \in KeyValue
        BY DEF TInv, TypeOK, StorageTyped
      <4>2. x.status = "retired"
        BY <3>1, <4>1 DEF KeyValue
      <4> QED
        BY <1>6, <2>1, <2>4, <2>7, <3>1, <4>2 DEF Retire
    <3>3. db' = db /\ tainted' = tainted
          /\ \A v \in Version : /\ lock'[KeyRow(v)] = IF v = o THEN t ELSE lock[KeyRow(v)]
                                /\ cur'[KeyRow(v)] = IF v = o THEN x ELSE cur[KeyRow(v)]
      BY <1>2, <3>2, Rows DEF Update, Write
    <3>4. Signed(next)'
      BY <1>2, <2>2, <3>3, SignedOn DEF Facts, Unaffected, StatusesStay, SameFields
    <3>5. Wrote(t, next)'
      BY <2>2, <2>3, <2>4, <3>2, <3>3 DEF Wrote, Same
    <3>6. Retires(t, next)'
      BY <1>2, <2>2, <2>3, <2>4, <3>3 DEF Facts, Retires, Same, SameRequest, IsOf, Stale, Status
    <3>7. Facts(t, next)'
      BY <1>2, <2>2, <2>4, <3>4, <3>5, <3>6 DEF Facts, Remembers, Names, Generates, Same, SameRequest
    <3> QED
      BY <3>2, <3>7, UpdateRemembers
  <2> QED
    BY <2>6, <2>7
<1> QED
  BY <1>3, <1>4, <1>5, <1>6

\* A boot records a migration: bank_keys is as it was.
LEMMA MigrationRemembers ==
  ASSUME TInv, IInv, KInv, BInv, MInv, NEW t \in Tx, CommitTx(t), job[t].todo # {}
  PROVE  MInv'
<1>1. job[t].pc = "commit" /\ Commit(t)
  BY DEF CommitTx, At
<1>2. job[t] \in Job /\ job[t].op = "boot" /\ job[t].signed = 0 /\ job[t].old = 0
  BY <1>1 DEF BInv, Serves, Migrates, Migrating, TInv, Asks, MInv, Facts, Retires
<1>3. \A v \in Version : lock[KeyRow(v)] # t
  BY EmptyHanded
<1>4. PICK next : next = AfterCommit(job[t])
  OBVIOUS
<1>5. next.signed = 0 /\ next.old = 0 /\ next.pc \in {"applied", "get", "record"}
  <2>1. PICK left : left = job[t].todo \ {Min(job[t].todo)}
    OBVIOUS
  <2>2. PICK label \in {"get", "record"} : label = IF left = {} THEN "get" ELSE "record"
    OBVIOUS
  <2>3. \/ next = [job[t] EXCEPT !.pc = "applied", !.todo = {}]
        \/ next = [job[t] EXCEPT !.todo = left, !.pc = label]
    BY <1>4, <2>1, <2>2 DEF AfterCommit
  <2>4. CASE next = [job[t] EXCEPT !.pc = "applied", !.todo = {}]
    BY <1>2, <2>4 DEF Job
  <2>5. CASE next = [job[t] EXCEPT !.todo = left, !.pc = label]
    BY <1>2, <2>5 DEF Job
  <2> QED
    BY <2>3, <2>4, <2>5
<1>6. \A v \in Version : /\ db'[KeyRow(v)] = db[KeyRow(v)] /\ cur'[KeyRow(v)] = cur[KeyRow(v)]
                         /\ lock'[KeyRow(v)] # t
  BY <1>1, <1>3, Rows, NoneAssumption DEF Commit, Release, Read
<1>7. StatusesStay
  BY <1>6 DEF StatusesStay, SameFields
<1>8. UNCHANGED <<activeCache, versionCache, past, tainted>>
  BY <1>2 DEF CommitTx, memory
<1>9. Goes(t, next) /\ LeftAlone(t)
  BY <1>1, <1>4, OvertakingGoes, CommitLeaves DEF CommitTx
<1>10. \A u \in Tx \ {t} : Bystander(u)
  BY <1>7, <1>8, <1>9 DEF Goes, Bystander, Unaffected
<1>11. Facts(t, next)'
  BY <1>5, <1>6 DEF Facts, Remembers, Signed, Names, Retires, Generates, Wrote
<1>12. CachesKnow'
  BY <1>7, <1>8, SameStatuses DEF MInv, CachesKnow, Status
<1>13. PastRetired'
  <2>1. past \subseteq Version
    BY DEF TInv, TypeOK
  <2> QED
    BY <1>7, <1>8, <2>1, SameStatuses DEF MInv, PastRetired
<1> QED
  BY <1>7, <1>9, <1>10, <1>11, <1>12, <1>13, SameStatuses, RememberBy

\* A new key is committed, and a rotation's old one retired: everyone else is overtaken, and the
\* caches that may hold the old one are stale.
LEMMA KeyRemembers ==
  ASSUME TInv, IInv, KInv, BInv, MInv, NEW t \in Tx, CommitTx(t), job[t].todo = {}
  PROVE  MInv'
<1>1. job[t].pc = "commit" /\ Commit(t) /\ UNCHANGED <<activeCache, versionCache, past>>
  BY DEF CommitTx, At, memory
<1>2. /\ job[t] \in Job /\ Serves(job[t]) /\ Facts(t, job[t])
      /\ job[t].op \notin {"none", "check"} /\ job[t].denom \in Denom
      /\ job[t].fresh \in Version /\ lock[KeyRow(job[t].fresh)] = t
      /\ IsActive(cur, job[t].fresh, job[t].denom)
  BY <1>1, Purpose DEF BInv, MInv, TInv, Asks, KInv, RInv, HoldsKeys
<1>3. \A v \in Version : /\ lock'[KeyRow(v)] # t
                         /\ db'[KeyRow(v)] = IF lock[KeyRow(v)] = t THEN cur[KeyRow(v)] ELSE db[KeyRow(v)]
  BY <1>1, Rows, NoneAssumption DEF Commit, Release, Read
<1>4. \A v \in Version : lock[KeyRow(v)] = t =>
         \/ v = job[t].old /\ cur[KeyRow(v)].status = "retired"
         \/ v = job[t].fresh /\ cur[KeyRow(v)].status = "active" /\ Status(v) = "none"
  BY <1>2 DEF Facts, Wrote
<1>5. VersionsStay
  <2> SUFFICES ASSUME NEW v, NEW d, IsOf(v, d) PROVE IsOf(v, d)'
    BY DEF VersionsStay
  <2>1. v \in Version /\ cur[KeyRow(v)].status # "none" /\ cur[KeyRow(v)].denom = d
    BY DEF IsOf, KInv, VersionsInv
  <2> QED
    BY <1>3, <2>1 DEF IsOf
<1>6. PICK next : next = AfterCommit(job[t])
  OBVIOUS
<1>7. Goes(t, next) /\ LeftAlone(t)
  BY <1>1, <1>6, OvertakingGoes, CommitLeaves DEF CommitTx
<1>8. \A u \in Tx \ {t} : Bystander(u)
  BY DEF CommitTx, Overtaking, At, Bystander
<1>9. tainted \subseteq tainted'
  BY DEF CommitTx
<1>10. Facts(t, next)'
  <2>1. CASE job[t].old # 0
    <3>1. next = [job[t] EXCEPT !.pc = "forget"]
      BY <1>6, <2>1 DEF AfterCommit
    <3>2. next.pc = "forget" /\ next.op = job[t].op /\ next.old = job[t].old /\ next.denom = job[t].denom
          /\ next.signed = job[t].signed
      BY <1>2, <3>1 DEF Job
    <3>3. job[t].op = "rotate" /\ IsOf(job[t].old, job[t].denom)
      BY <1>2, <2>1 DEF Facts, Retires
    <3>4. job[t].signed = 0
      BY <1>2, <3>3 DEF Serves
    <3>5. IsOf(next.old, next.denom)
      BY <3>2, <3>3
    <3>6. IsOf(next.old, next.denom)'
      BY <1>5, <3>5 DEF VersionsStay
    <3>7. Retires(t, next)'
      BY <2>1, <3>2, <3>3, <3>6 DEF Retires
    <3> QED
      BY <1>3, <3>2, <3>3, <3>4, <3>7 DEF Facts, Remembers, Signed, Names, Generates, Wrote
  <2>2. CASE job[t].old = 0
    <3>1. next = [job[t] EXCEPT !.pc = "keep", !.got = job[t].fresh]
      BY <1>6, <2>2 DEF AfterCommit
    <3>2. next.pc = "keep" /\ next.got = job[t].fresh /\ next.op = job[t].op /\ next.old = 0
          /\ next.denom = job[t].denom /\ next.home = job[t].home /\ next.version = job[t].version
          /\ next.signed = job[t].signed /\ next.overtaken = job[t].overtaken
      BY <1>2, <2>2, <3>1 DEF Job
    <3>3. Status(next.got)' = "active"
      BY <1>2, <1>3, <3>2 DEF IsActive, Status
    <3>4. Signed(next)'
      <4>1. Signed(job[t])
        BY <1>2 DEF Facts
      <4>2. ASSUME next.signed # 0 PROVE Status(next.signed)' = Status(next.signed)
        <5>1. next.signed \in Version /\ Status(next.signed) # "none"
          BY <3>2, <4>1, <4>2 DEF Signed, IsOf, Status
        <5>2. lock[KeyRow(next.signed)] # t
          BY <1>4, <2>2, <5>1, Bounds
        <5> QED
          BY <1>3, <5>1, <5>2 DEF Status
      <4>3. \A v : Stale(job[t], v) => Stale(next, v)'
        BY <1>9, <3>2 DEF Stale
      <4>4. \A v, d : IsOf(v, d) => IsOf(v, d)'
        BY <1>5 DEF VersionsStay
      <4> QED
        BY <3>2, <4>1, <4>2, <4>3, <4>4 DEF Signed
    <3> QED
      BY <1>2, <1>3, <3>2, <3>3, <3>4 DEF Facts, Remembers, Names, Retires, Generates, Wrote
  <2> QED
    BY <2>1, <2>2
<1>11. CachesKnow'
  <2> SUFFICES ASSUME NEW p \in Process, NEW v \in Version, Status(v)' = "retired",
                      versionCache[p][v] = "active" \/ \E d \in Denom : activeCache[p][d] = v
               PROVE  <<p, v>> \in tainted'
    BY <1>1 DEF CachesKnow, Status
  <2>1. CASE Status(v) = "retired"
    BY <1>9, <2>1 DEF MInv, CachesKnow, Status
  <2>2. CASE Status(v) # "retired"
    <3>1. lock[KeyRow(v)] = t /\ v = job[t].old
      BY <1>3, <1>4, <2>2 DEF Status
    <3>2. proc[p] # "down"
      <4>1. proc[p] = "down" => versionCache[p][v] = "none" /\ \A d \in Denom : activeCache[p][d] = 0
        BY DEF BInv, Emptied
      <4> QED
        BY <4>1, Bounds
    <3>3. tainted' = tainted \cup {<<q, v>> : q \in {q \in Process : proc[q] # "down"}}
      BY <3>1, Bounds DEF CommitTx
    <3> QED
      BY <3>2, <3>3
  <2> QED
    BY <2>1, <2>2
<1>12. PastRetired'
  <2> SUFFICES ASSUME NEW v \in past PROVE Status(v)' = "retired"
    BY <1>1 DEF PastRetired, Status
  <2>1. v \in Version /\ Status(v) = "retired"
    BY DEF TInv, TypeOK, MInv, PastRetired
  <2> QED
    BY <1>3, <1>4, <2>1 DEF Status
<1> QED
  BY <1>5, <1>7, <1>8, <1>10, <1>11, <1>12, RememberBy

LEMMA ForgetRemembers ==
  ASSUME TInv, IInv, KInv, BInv, MInv, NEW t \in Tx, Forget(t)
  PROVE  MInv'
<1>1. job[t].pc = "forget" /\ UNCHANGED storage /\ past' = past
  BY DEF Forget, At
<1>2. /\ job[t] \in Job /\ Serves(job[t]) /\ Facts(t, job[t])
      /\ job[t].op \notin {"none", "check"} /\ job[t].home \in Process /\ job[t].denom \in Denom
      /\ \A v \in Version : lock[KeyRow(v)] # t
  BY <1>1, Purpose, EmptyHanded DEF BInv, MInv, TInv, Asks
<1>3. PICK o \in Version : o = job[t].old /\ o # 0 /\ IsOf(o, job[t].denom) /\ job[t].op = "rotate"
  BY <1>1, <1>2 DEF Facts, Retires, IsOf
<1>4. PICK next : next = [job[t] EXCEPT !.pc = "log"]
  OBVIOUS
<1>5. next.op = "rotate" /\ next.pc = "log" /\ next.old = o /\ next.denom = job[t].denom /\ next.signed = 0
  BY <1>2, <1>3, <1>4 DEF Job, Serves
<1>6. LeftAlone(t) /\ StatusesStay /\ db' = db /\ lock' = lock
  BY <1>1, SameLeaves DEF StatusesStay, SameFields, storage
<1>7. tainted' = tainted \ {<<job[t].home, o>>}
  BY <1>3 DEF Forget
<1>8. \A u \in Tx \ {t} : Bystander(u)
  <2> SUFFICES ASSUME NEW u \in Tx \ {t} PROVE Bystander(u)
    OBVIOUS
  <2>1. CASE job[u].home = job[t].home
    BY <2>1 DEF Forget, Overtaking, At, Bystander
  <2>2. CASE job[u].home # job[t].home
    <3>1. job'[u] = job[u]
      BY <2>2 DEF Forget, Overtaking
    <3>2. \A v : <<job[u].home, v>> \in tainted => <<job[u].home, v>> \in tainted'
      BY <1>7, <2>2
    <3> QED
      BY <1>6, <3>1, <3>2 DEF Bystander, Unaffected
  <2> QED
    BY <2>1, <2>2
<1>9. Facts(t, next)'
  <2>1. IsOf(next.old, next.denom)'
    BY <1>3, <1>5, <1>6 DEF IsOf
  <2> QED
    BY <1>2, <1>5, <1>6, <2>1 DEF Facts, Remembers, Signed, Names, Retires, Generates, Wrote
<1>10. CachesKnow'
  <2>1. \A p \in Process, d \in Denom :
           activeCache'[p][d] = IF p = job[t].home /\ d = job[t].denom THEN 0 ELSE activeCache[p][d]
    BY DEF Forget, TInv, TypeOK, CachesTyped
  <2>2. \A p \in Process, v \in Version :
           versionCache'[p][v] = IF p = job[t].home /\ v = o THEN "none" ELSE versionCache[p][v]
    BY <1>3 DEF Forget, TInv, TypeOK, CachesTyped
  <2> SUFFICES ASSUME NEW p \in Process, NEW v \in Version, Status(v) = "retired",
                      versionCache'[p][v] = "active" \/ \E d \in Denom : activeCache'[p][d] = v
               PROVE  <<p, v>> \in tainted'
    BY <1>6 DEF CachesKnow, Status
  <2>3. versionCache[p][v] = "active" \/ \E d \in Denom : activeCache[p][d] = v
    BY <2>1, <2>2, Bounds
  <2>4. <<p, v>> \in tainted
    BY <2>3 DEF MInv, CachesKnow, Status
  <2>5. p # job[t].home \/ v # o
    <3> SUFFICES ASSUME p = job[t].home, v = o PROVE FALSE
      OBVIOUS
    <3>1. PICK d \in Denom : activeCache'[p][d] = o
      BY <2>2
    <3>2. activeCache[p][d] = o /\ d # job[t].denom
      BY <1>3, <2>1, <3>1
    <3>3. IsOf(o, d)
      BY <1>3, <3>2 DEF KInv, CachesInv
    <3> QED
      BY <1>3, <3>2, <3>3 DEF IsOf
  <2> QED
    BY <1>7, <2>4, <2>5
<1>11. PastRetired'
  BY <1>1, <1>6 DEF MInv, PastRetired, Status
<1> QED
  BY <1>4, <1>6, <1>8, <1>9, <1>10, <1>11, SameStatuses, OvertakingGoes, RememberBy DEF Forget

\* What is left of a rotation, and the lookups by version.
LEMMA OverRemembers ==
  ASSUME TInv, KInv, MInv, NEW t \in Tx, LogRotation(t) \/ Answer(t)
  PROVE  MInv'
<1>1. GoOn(t, Idle) /\ job[t].pc \in {"log", "answer"}
  BY DEF LogRotation, Answer, At
<1>2. Facts(t, Idle)
  BY <1>1, EmptyHanded, IdleFacts
<1> QED
  BY <1>1, <1>2, GoOnRemembers

\* What is judged.
LEMMA JudgedFields ==
  ASSUME TInv, NEW t \in Tx, job[t].op = "check", NEW status, NEW next, next = Judged(t, status)
  PROVE  /\ next.op = "check" /\ next.pc = "answer" /\ next.version = job[t].version
         /\ next.home = job[t].home /\ next.overtaken = job[t].overtaken /\ next.read = status
         /\ next.signed = 0 /\ next.old = 0
<1>1. job[t] \in Job /\ job[t].signed = 0 /\ job[t].old = 0
  BY DEF TInv, Asks
<1> QED
  BY <1>1 DEF Judged, Job

LEMMA LookRemembers ==
  ASSUME TInv, KInv, MInv, NEW t \in Tx, ~Throw(t), Look(t)
  PROVE  MInv'
<1>1. job[t].pc = "look"
  BY DEF Look, At
<1>2. /\ job[t] \in Job /\ job[t].op = "check" /\ job[t].home \in Process
      /\ job[t].signed = 0 /\ job[t].old = 0
      /\ \A v \in Version : lock[KeyRow(v)] # t
  BY <1>1, EmptyHanded DEF TInv, Asks, KInv, RInv, Aims
<1>3. PICK v \in Version : v = job[t].version
  BY <1>2 DEF TInv, Asks
<1>4. PICK cached \in {"none", "active", "retired"} : cached = versionCache[job[t].home][v]
  BY <1>2 DEF TInv, TypeOK, CachesTyped
<1>5. CASE cached # "none" /\ GoOn(t, Judged(t, cached))
  <2>1. PICK next : next = Judged(t, cached)
    OBVIOUS
  <2>2. cached = "retired" \/ <<job[t].home, v>> \in tainted \/ Status(v) # "retired"
    BY <1>2, <1>4, <1>5 DEF MInv, CachesKnow, Status
  <2>3. /\ next.op = "check" /\ next.pc = "answer" /\ next.version = v
        /\ next.home = job[t].home /\ next.overtaken = job[t].overtaken /\ next.read = cached
        /\ next.signed = 0 /\ next.old = 0
    BY <1>2, <1>3, <2>1, JudgedFields
  <2>4. Facts(t, next)
    BY <1>2, <2>2, <2>3 DEF Facts, Remembers, Signed, Names, Retires, Generates, Wrote, Stale
  <2> QED
    BY <1>5, <2>1, <2>4, GoOnRemembers
<1>6. ASSUME NEW status, status = Status(v), NEW label \in {"remember", "seal"},
             GoOn(t, [job[t] EXCEPT !.got = v, !.read = status, !.pc = label])
      PROVE  MInv'
  <2>1. PICK next : next = [job[t] EXCEPT !.got = v, !.read = status, !.pc = label]
    OBVIOUS
  <2>2. next.op = "check" /\ next.pc = label /\ next.version = v /\ next.read = status
        /\ next.signed = 0 /\ next.old = 0
    BY <1>2, <1>3, <2>1 DEF Job
  <2>3. Facts(t, next)
    BY <1>2, <1>6, <2>2 DEF Facts, Remembers, Signed, Names, Retires, Generates, Wrote
  <2> QED
    BY <1>6, <2>1, <2>3, GoOnRemembers
<1> QED
  BY <1>3, <1>4, <1>5, <1>6 DEF Look, Status

LEMMA RememberRemembers ==
  ASSUME TInv, KInv, MInv, NEW t \in Tx, Remember(t)
  PROVE  MInv'
<1>1. job[t].pc = "remember" /\ UNCHANGED storage /\ activeCache' = activeCache /\ past' = past
  BY DEF Remember, At
<1>2. /\ job[t] \in Job /\ job[t].op = "check" /\ job[t].home \in Process
      /\ Remembers(job[t])
      /\ \A v \in Version : lock[KeyRow(v)] # t
  BY <1>1, EmptyHanded DEF TInv, Asks, KInv, RInv, Aims, MInv, Facts
<1>3. PICK v \in Version : v = job[t].version /\ v = job[t].got
  BY <1>1, <1>2 DEF TInv, Asks
<1>4. job[t].overtaken \/ Status(v) = job[t].read
  BY <1>1, <1>2, <1>3 DEF Remembers
<1>5. tainted' = (IF job[t].overtaken THEN tainted \cup {<<job[t].home, v>>} ELSE tainted)
  BY <1>3 DEF Remember, TaintIf
<1>6. PICK read, next : read = job[t].read /\ next = Judged(t, read)
  OBVIOUS
<1>7. /\ next.op = "check" /\ next.pc = "answer" /\ next.version = v
      /\ next.home = job[t].home /\ next.overtaken = job[t].overtaken /\ next.read = job[t].read
      /\ next.signed = 0 /\ next.old = 0
  <2>1. job[t].signed = 0 /\ job[t].old = 0
    BY <1>2 DEF TInv, Asks
  <2>2. next = [job[t] EXCEPT !.pc = "answer", !.got = 0, !.read = read]
    BY <1>6 DEF Judged
  <2> QED
    BY <1>2, <1>3, <1>6, <2>1, <2>2 DEF Job
<1>8. job' = [job EXCEPT ![t] = next]
  BY <1>6 DEF Remember
<1>9. LeftAlone(t) /\ StatusesStay /\ db' = db /\ lock' = lock
  BY <1>1, SameLeaves DEF StatusesStay, SameFields, storage
<1>10. \A u \in Tx \ {t} : Bystander(u)
  BY <1>5, <1>8, <1>9 DEF Bystander, Unaffected, TInv, TypeOK, RequestsTyped
<1>11. Facts(t, next)'
  <2>1. next.read = "retired" \/ next.overtaken \/ Status(v)' # "retired"
    BY <1>4, <1>7, <1>9 DEF Status
  <2> QED
    BY <1>2, <1>7, <1>9, <2>1 DEF Facts, Remembers, Signed, Names, Retires, Generates, Wrote, Stale
<1>12. CachesKnow'
  <2>1. \A p \in Process, w \in Version :
           versionCache'[p][w] = IF p = job[t].home /\ w = v THEN job[t].read ELSE versionCache[p][w]
    BY <1>3 DEF Remember, TInv, TypeOK, CachesTyped
  <2> SUFFICES ASSUME NEW p \in Process, NEW w \in Version, Status(w) = "retired",
                      versionCache'[p][w] = "active" \/ \E d \in Denom : activeCache[p][d] = w
               PROVE  <<p, w>> \in tainted'
    BY <1>1, <1>9 DEF CachesKnow, Status
  <2>2. CASE versionCache[p][w] = "active" \/ \E d \in Denom : activeCache[p][d] = w
    BY <1>5, <2>2 DEF MInv, CachesKnow, Status
  <2>3. CASE p = job[t].home /\ w = v /\ job[t].read = "active"
    BY <1>4, <1>5, <2>3
  <2> QED
    BY <2>1, <2>2, <2>3
<1>13. PastRetired'
  BY <1>1, <1>9 DEF MInv, PastRetired, Status
<1> QED
  BY <1>8, <1>9, <1>10, <1>11, <1>12, <1>13, SetGoes, SameStatuses, RememberBy

\* A process dies: what it remembered is gone.
LEMMA CrashRemembers ==
  ASSUME TInv, KInv, MInv, NEW p \in Process, Crash(p)
  PROVE  MInv'
<1>1. PICK mine \in SUBSET Tx : mine = {t \in Tx : job[t].home = p}
  OBVIOUS
<1>2. /\ job' = [t \in Tx |-> IF t \in mine THEN Idle ELSE job[t]]
      /\ cur' = [r \in Row |-> IF lock[r] \in mine THEN db[r] ELSE cur[r]]
      /\ lock' = [r \in Row |-> IF lock[r] \in mine THEN NoTx ELSE lock[r]]
      /\ db' = db /\ past' = past /\ tainted' = {x \in tainted : x[1] # p}
  BY <1>1 DEF Crash
<1>3. ASSUME NEW t \in Tx PROVE Facts(t, job[t])'
  <2>1. CASE t \in mine
    <3>1. job'[t] = Idle /\ \A v \in Version : lock'[KeyRow(v)] # t
      BY <1>2, <2>1, NoneAssumption, Rows
    <3>2. Idle.pc = "idle" /\ Idle.signed = 0 /\ Idle.old = 0
      BY DEF Idle
    <3> QED
      BY <3>1, <3>2 DEF Facts, Remembers, Signed, Names, Retires, Generates, Wrote
  <2>2. CASE t \notin mine
    <3>1. job'[t] = job[t] /\ job[t].home # p
      BY <1>1, <1>2, <2>2
    <3>2. \A v \in Version : /\ lock'[KeyRow(v)] = t <=> lock[KeyRow(v)] = t
                             /\ lock[KeyRow(v)] = t => cur'[KeyRow(v)] = cur[KeyRow(v)]
      BY <1>2, <2>2, NoneAssumption, Rows
    <3>3. PICK r : r = job[t]
      OBVIOUS
    <3>4. \A v : Stale(r, v) => Stale(r, v)'
      BY <1>2, <3>1, <3>3 DEF Stale
    <3>5. Facts(t, r)
      BY <3>3 DEF MInv
    <3>6. Remembers(r)' /\ Names(r)' /\ Generates(r)'
      BY <1>2, <3>4, <3>5 DEF Facts, Remembers, Names, Generates, Status, IsActive
    <3>7. Signed(r)'
      BY <1>2, <3>4, <3>5 DEF Facts, Signed, Status, IsOf
    <3>8. Retires(t, r)'
      BY <1>2, <3>2, <3>4, <3>5 DEF Facts, Retires, Status, IsOf
    <3>9. Wrote(t, r)'
      BY <1>2, <3>2, <3>5 DEF Facts, Wrote, Status
    <3>10. Facts(t, r)'
      BY <3>6, <3>7, <3>8, <3>9 DEF Facts
    <3> QED
      BY <3>1, <3>3, <3>10 DEF Facts, Remembers, Signed, Names, Retires, Generates, Wrote, Stale, Status, IsOf, IsActive
  <2> QED
    BY <2>1, <2>2
<1>4. CachesKnow'
  <2>1. \A q \in Process : IF q = p THEN /\ \A d \in Denom : activeCache'[q][d] = 0
                                         /\ \A v \in Version : versionCache'[q][v] = "none"
                                    ELSE activeCache'[q] = activeCache[q] /\ versionCache'[q] = versionCache[q]
    BY DEF Crash, TInv, TypeOK, CachesTyped
  <2> SUFFICES ASSUME NEW q \in Process, NEW v \in Version, Status(v) = "retired",
                      versionCache'[q][v] = "active" \/ \E d \in Denom : activeCache'[q][d] = v
               PROVE  <<q, v>> \in tainted'
    BY <1>2 DEF CachesKnow, Status
  <2>2. q # p
    BY <2>1, Bounds
  <2>3. <<q, v>> \in tainted
    BY <2>1, <2>2 DEF MInv, CachesKnow, Status
  <2> QED
    BY <1>2, <2>2, <2>3
<1>5. PastRetired'
  BY <1>2 DEF MInv, PastRetired, Status
<1> QED
  BY <1>3, <1>4, <1>5 DEF MInv

\* A step that changes none of this, but for the grace that passes.
LEMMA GraceRemembers ==
  ASSUME MInv, UNCHANGED <<storage, job, memory, tainted>>,
         \A v \in past' : v \in past \/ db[KeyRow(v)].status = "retired"
  PROVE  MInv'
<1>1. db' = db /\ cur' = cur /\ lock' = lock /\ job' = job /\ tainted' = tainted
      /\ activeCache' = activeCache /\ versionCache' = versionCache
  BY DEF storage, memory
<1>2. CachesKnow' /\ PastRetired'
  BY <1>1 DEF MInv, CachesKnow, PastRetired, Status
<1>3. \A t \in Tx : Facts(t, job[t])'
  BY <1>1 DEF MInv, Facts, Remembers, Signed, Names, Retires, Generates, Wrote, Stale, Status, IsOf, IsActive
<1> QED
  BY <1>2, <1>3 DEF MInv

\* Every step preserves the invariant.
LEMMA NextMInv == TInv /\ IInv /\ KInv /\ BInv /\ MInv /\ [Next]_vars => MInv'
<1> SUFFICES ASSUME TInv, IInv, KInv, BInv, MInv, [Next]_vars PROVE MInv'
  OBVIOUS
<1>1. ASSUME NEW t \in Tx, Step(t) PROVE MInv'
  <2>1. CASE Throw(t)
    BY <2>1, ThrowRemembers
  <2>2. CASE ~Throw(t)
    BY <1>1, <2>2, BootRemembers, GetRemembers, SealRemembers, KeepRemembers, GenerateRemembers,
       MigrationRemembers, KeyRemembers, ForgetRemembers, OverRemembers, LookRemembers, RememberRemembers
       DEF Step
  <2> QED
    BY <2>1, <2>2
<1>2. ASSUME NEW t \in Tx, Begin(t) PROVE MInv'
  BY <1>2, BeginRemembers
<1>3. ASSUME NEW v \in Version, GracePasses(v) PROVE MInv'
  BY <1>3, GraceRemembers DEF GracePasses
<1>4. ASSUME NEW p \in Process, Crash(p) PROVE MInv'
  BY <1>4, CrashRemembers
<1>5. CASE UNCHANGED vars
  BY <1>5, GraceRemembers DEF vars, storage, memory
<1> QED
  BY <1>1, <1>2, <1>3, <1>4, <1>5 DEF Next

\* Nothing is remembered at first.
LEMMA InitMInv == KeyDbInit => MInv
<1> SUFFICES ASSUME KeyDbInit PROVE MInv
  OBVIOUS
<1>1. /\ lock = [r \in Row |-> NoTx] /\ job = [t \in Tx |-> Idle] /\ past = {}
      /\ activeCache = [p \in Process |-> [d \in Denom |-> 0]]
      /\ versionCache = [p \in Process |-> [v \in Version |-> "none"]]
  BY DEF KeyDbInit
<1>2. CachesKnow /\ PastRetired
  BY <1>1, Bounds DEF CachesKnow, PastRetired
<1>3. \A t \in Tx : job[t] = Idle /\ \A v \in Version : lock[KeyRow(v)] # t
  BY <1>1, Rows, NoneAssumption
<1>4. \A t \in Tx : Facts(t, job[t])
  BY <1>3, IdleFacts
<1> QED
  BY <1>2, <1>4 DEF MInv

\* A rotation that has answered is known in its process: a cache that still holds the retired key
\* is one of another process, or was filled by a request that the rotation overtook.
THEOREM CachesKnowAlways == Spec => []CachesKnow
<1>1. MInv => CachesKnow
  BY DEF MInv
<1> QED
  BY <1>1, InitIInv, NextIInv, InitKInv, NextKInv, InitTInv, NextTInv, InitBInv, NextBInv,
     InitMInv, NextMInv, PTL DEF Spec

\* An INSERT that collides, with its rotation or boot failing, is one that another change of the
\* table overtook, or a rotation that started from a stale cache.
THEOREM CollisionExplainedAlways == Spec => []CollisionExplained
<1>1. TInv /\ IInv /\ KInv /\ BInv /\ MInv => CollisionExplained
  <2> SUFFICES ASSUME TInv, IInv, KInv, BInv, MInv, NEW t \in Tx
               PROVE  /\ At(t, "insert") /\ ~MustWait(t) /\ Collides(t) => Misled(t, {job[t].old})
                      /\ At(t, "record") /\ cur[MigrationRow(Min(job[t].todo))] /\ lock = [r \in Row |-> NoTx]
                             => job[t].overtaken
    BY DEF CollisionExplained
  <2>1. Facts(t, job[t])
    BY DEF MInv
  <2>2. ASSUME job[t].pc = "insert", ~MustWait(t), Collides(t) PROVE Misled(t, {job[t].old})
    <3> SUFFICES ASSUME ~Stale(job[t], job[t].old) PROVE FALSE
      BY DEF Misled, Stale
    <3>1. ~job[t].overtaken
      BY DEF Stale
    <3>2. \A v \in Version : Status(v) # "none" => v < job[t].fresh
      BY <2>1, <2>2, <3>1 DEF Facts, Generates
    <3>3. job[t].op \notin {"none", "check"} /\ job[t].denom \in Denom /\ job[t].fresh \in 0..(MaxVersion + 1)
      BY <2>2, Purpose DEF TInv, Asks, Job
    <3>4. ASSUME NEW v \in Version, Rival(t, v), lock[KeyRow(v)] = NoTx PROVE cur[KeyRow(v)] = db[KeyRow(v)]
      BY <3>4, Rows DEF IInv, OneVersion
    <3>5. ASSUME NEW v \in Version, lock[KeyRow(v)] = t PROVE v = job[t].old /\ cur[KeyRow(v)].status = "retired"
      BY <2>1, <2>2, <3>5 DEF Facts, Wrote
    <3>6. ASSUME NEW v \in Version, Rival(t, v) PROVE lock[KeyRow(v)] \in {t, NoTx}
      BY <2>2, <3>6 DEF MustWait, Writable
    <3>7. CASE job[t].fresh \in Used(cur)
      <4>1. PICK f \in Version : f = job[t].fresh /\ cur[KeyRow(f)].status # "none"
        BY <3>7 DEF Used
      <4>2. Rival(t, f)
        BY <4>1 DEF Rival
      <4>3. CASE lock[KeyRow(f)] = NoTx
        <5>1. Status(f) # "none"
          BY <3>4, <4>1, <4>2, <4>3 DEF Status
        <5>2. f < f
          BY <3>2, <4>1, <5>1
        <5> QED
          BY <5>2, BoundAssumption DEF Version
      <4>4. CASE lock[KeyRow(f)] = t
        <5>1. f = job[t].old /\ job[t].old # 0
          BY <3>5, <4>4, Bounds
        <5>2. Status(f) = "active"
          BY <2>1, <2>2, <5>1 DEF Facts, Retires
        <5>3. f < f
          BY <3>2, <4>1, <5>2
        <5> QED
          BY <5>3, BoundAssumption DEF Version
      <4> QED
        BY <3>6, <4>2, <4>3, <4>4
    <3>8. ASSUME NEW v \in Version, IsActive(cur, v, job[t].denom) PROVE FALSE
      <4>1. Rival(t, v) /\ lock[KeyRow(v)] # t
        BY <3>5, <3>8 DEF Rival, IsActive
      <4>2. IsActive(db, v, job[t].denom) /\ lock[KeyRow(v)] = NoTx
        BY <3>4, <3>6, <3>8, <4>1 DEF IsActive
      <4>3. CASE job[t].old = 0
        BY <2>1, <2>2, <3>1, <4>2, <4>3 DEF Facts, Generates
      <4>4. CASE job[t].old # 0
        <5>1. /\ Status(job[t].old) = "active" /\ lock[KeyRow(job[t].old)] = t
              /\ IsOf(job[t].old, job[t].denom)
          BY <2>1, <2>2, <4>4 DEF Facts, Retires
        <5>2. v = job[t].old
          BY <3>3, <4>2, <5>1 DEF IInv, Apart, KeptApart, IsActive, IsOf, Status
        <5> QED
          BY <4>1, <5>1, <5>2
      <4> QED
        BY <4>3, <4>4
    <3> QED
      BY <2>2, <3>7, <3>8 DEF Collides
  <2>3. ASSUME job[t].pc = "record", cur[MigrationRow(Min(job[t].todo))], lock = [r \in Row |-> NoTx]
        PROVE  job[t].overtaken
    <3>1. job[t].todo # {}
      BY <2>3, Serving
    <3>2. PICK m \in Migration : m = Min(job[t].todo) /\ m \in job[t].todo
      BY <3>1, NextMigration
    <3>3. MigrationRow(m) \in Row
      BY AllRows
    <3>4. Migrated(m)
      BY <2>3, <3>2, <3>3 DEF IInv, OneVersion, Migrated
    <3> QED
      BY <2>3, <3>2, <3>4 DEF BInv, Migrates, Migrating
  <2> QED
    BY <2>2, <2>3 DEF At
<1> QED
  BY <1>1, InitIInv, NextIInv, InitKInv, NextKInv, InitTInv, NextTInv, InitBInv, NextBInv,
     InitMInv, NextMInv, PTL DEF Spec

\* Only the key a client blinded for signs its token, and the version handed out with the signature
\* is the signer's, unless a change of bank_keys came in between or the cache was stale.
THEOREM NamesSignerAlways == Spec => []NamesSigner
<1>1. BInv /\ MInv => NamesSigner
  <2> SUFFICES ASSUME BInv, MInv, NEW t \in Tx, job[t].pc = "answer", job[t].op = "sign"
               PROVE  /\ job[t].signed = job[t].version
                      /\ job[t].signed = job[t].named \/ Misled(t, {job[t].signed, job[t].named})
    BY DEF NamesSigner, At
  <2>1. Signed(job[t]) /\ Names(job[t])
    BY DEF MInv, Facts
  <2> QED
    BY <2>1 DEF Signed, Names, Misled, Stale
<1> QED
  BY <1>1, InitIInv, NextIInv, InitKInv, NextKInv, InitTInv, NextTInv, InitBInv, NextBInv,
     InitMInv, NextMInv, PTL DEF Spec

\* No token of a version past its grace is honoured, but by a request that was overtaken or a
\* process whose cache is stale.
THEOREM GraceEndsAlways == Spec => []GraceEnds
<1>1. MInv => GraceEnds
  <2> SUFFICES ASSUME MInv, NEW t \in Tx, job[t].pc = "answer", job[t].op = "check",
                      job[t].version \in past, Honoured(t)
               PROVE  Misled(t, {job[t].version})
    BY DEF GraceEnds, At
  <2>1. Remembers(job[t]) /\ Status(job[t].version) = "retired"
    BY DEF MInv, Facts, PastRetired
  <2> QED
    BY <2>1 DEF Remembers, Misled, Stale, Honoured
<1> QED
  BY <1>1, InitIInv, NextIInv, InitKInv, NextKInv, InitTInv, NextTInv, InitBInv, NextBInv,
     InitMInv, NextMInv, PTL DEF Spec
=============================================================================
