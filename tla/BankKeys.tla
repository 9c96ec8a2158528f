------------------------------ MODULE BankKeys ------------------------------
(***************************************************************************)
(* bankKeyService.js and its callers: getOrGenerate, getPublicKeyByVersion *)
(* and rotateKey, await by await, and what revealAndSign does with keys;   *)
(* and the boot of a process, which runs the migrations first.             *)
(***************************************************************************)
EXTENDS KeyDb, FiniteSetsExt

CONSTANTS Offered,    \* the kinds of requests that are sent
          Presented,  \* bound: the versions that the tokens presented name
          Crashes     \* whether a process may die

-----------------------------------------------------------------------------
(* Requests arrive at a process that is up.                                *)

Start(t, request) ==
    /\ At(t, "idle")
    /\ request.op \in Offered
    /\ \E p \in Process : proc[p] = "up" /\ GoOn(t, [request EXCEPT !.home = p])

\* GET /bank/pubkey and /bank/pubkeys, and the first lines of initWithdrawal
BeginKey(t, d) == Start(t, [Idle EXCEPT !.op = "key", !.pc = "get", !.denom = d])

\* POST /admin/rotate-key
BeginRotate(t, d) == Start(t, [Idle EXCEPT !.op = "rotate", !.pc = "get", !.denom = d])

\* A payment or a lock presents a token that names version v.
BeginCheck(t, v) ==
    /\ v \in Presented
    /\ Start(t, [Idle EXCEPT !.op = "check", !.pc = "look", !.version = v])

\* POST /withdraw/reveal by a client that blinded its token for version v of denomination d.
BeginSign(t, v) ==
    /\ db[KeyRow(v)].status # "none"
    /\ Start(t, [Idle EXCEPT !.op = "sign", !.pc = "get", !.version = v,
                             !.denom = db[KeyRow(v)].denom])

\* The 90 days of grace of a retired version pass; no request lasts that long.
GracePasses(v) ==
    /\ \A t \in Tx : At(t, "idle")
    /\ db[KeyRow(v)].status = "retired" /\ v \in Presented \ past
    /\ past' = past \cup {v}
    /\ UNCHANGED <<storage, job, memory, tainted>>

-----------------------------------------------------------------------------
(* initDatabase: runMigrations, then getOrGenerate(1).                     *)

\* The process starts, or is started again (docker-compose.yml: restart unless-stopped).
Boot(t, p) ==
    /\ proc[p] = "down" /\ At(t, "idle")
    /\ proc' = [proc EXCEPT ![p] = "booting"]
    /\ job' = [job EXCEPT ![t] = [Idle EXCEPT !.op = "boot", !.pc = "baseline", !.home = p,
                                              !.denom = BootDenom]]
    /\ UNCHANGED <<storage, activeCache, versionCache, past, tainted>>

\* SELECT 1 FROM schema_migrations WHERE version = 1: the baseline is run, or, where the users
\* table is there already, only recorded.
BaselineSelect(t) ==
    /\ At(t, "baseline")
    /\ GoOn(t, IF db[MigrationRow(1)] THEN [job[t] EXCEPT !.pc = "applied"]
                                      ELSE [job[t] EXCEPT !.pc = "record", !.todo = {1}])

\* SELECT version FROM schema_migrations
AppliedSelect(t) ==
    LET left == {m \in Migration : ~db[MigrationRow(m)]}
    IN  /\ At(t, "applied")
        /\ GoOn(t, [job[t] EXCEPT !.pc = IF left = {} THEN "get" ELSE "record", !.todo = left])

\* Mutant: files in any order.
RecordUnsorted(t) ==
    LET m == Max(job[t].todo)
    IN  /\ At(t, "record")
        /\ Writable(t, MigrationRow(m))
        /\ IF cur[MigrationRow(m)]
             THEN Throw(t)
             ELSE Update(t, MigrationRow(m), TRUE, [job[t] EXCEPT !.pc = "commit"])

\* The file's DDL (idempotent) and INSERT INTO schema_migrations, whose primary key refuses a
\* version another process has recorded.
Record(t) ==
    LET m == Min(job[t].todo)
    IN  /\ At(t, "record")
        /\ Writable(t, MigrationRow(m))
        /\ IF cur[MigrationRow(m)]
             THEN Throw(t)
             ELSE Update(t, MigrationRow(m), TRUE, [job[t] EXCEPT !.pc = "commit"])

-----------------------------------------------------------------------------
(* getOrGenerate                                                           *)

\* Mutant: the reveals are not verified.
ContinueUnverified(request, v) ==
    IF request.op = "rotate" THEN [request EXCEPT !.pc = "retire", !.old = v]
    ELSE IF request.signed # 0 THEN [request EXCEPT !.pc = "answer", !.named = v]
    ELSE IF request.op = "sign" THEN [request EXCEPT !.pc = "name", !.signed = v]
    ELSE Idle

\* What the caller goes on with, given version v of its denomination.
Continue(request, v) ==
    IF request.op = "rotate" THEN [request EXCEPT !.pc = "retire", !.old = v]
    ELSE IF request.signed # 0 THEN [request EXCEPT !.pc = "answer", !.named = v]
    ELSE IF request.op = "sign" /\ request.version = v
      THEN [request EXCEPT !.pc = "name", !.signed = v]
    ELSE Idle

\* revealAndSign verifies the reveals under key v, which fails for a client that blinded for
\* another, signs with v's private key without awaiting anything, and, statements later, names
\* the version that is active by then.
Obtained(t, v) ==
    /\ job' = [job EXCEPT ![t] = Continue([job[t] EXCEPT !.got = 0, !.fresh = 0], v)]
    /\ proc' = IF job[t].op = "boot" THEN [proc EXCEPT ![job[t].home] = "up"] ELSE proc
    /\ UNCHANGED <<storage, versionCache, past>>

\* _activeCache, else SELECT ... WHERE status = 'active' AND denomination = ?
Get(t) ==
    LET d == job[t].denom
        cached == activeCache[job[t].home][d]
    IN  /\ job[t].pc \in {"get", "name"}
        /\ \/ /\ cached # 0
              /\ Obtained(t, cached)
              /\ UNCHANGED <<activeCache, tainted>>
           \/ /\ cached = 0
              /\ \E v \in Version :
                    /\ IsActive(db, v, d)
                    /\ GoOn(t, [job[t] EXCEPT !.got = v,
                                   !.pc = IF db[KeyRow(v)].sealed THEN "keep" ELSE "seal"])
           \/ /\ cached = 0
              /\ \A v \in Version : ~IsActive(db, v, d)
              /\ GoOn(t, [job[t] EXCEPT !.pc = "advisory"])

\* UPDATE bank_keys SET private_key = ?, a transaction of its own.
Seal(t) ==
    LET row == KeyRow(job[t].got)
    IN  /\ At(t, "seal")
        /\ lock[row] = NoTx
        /\ db' = [db EXCEPT ![row].sealed = TRUE]
        /\ cur' = [cur EXCEPT ![row].sealed = TRUE]
        /\ lock' = lock
        /\ job' = [job EXCEPT ![t].pc = IF job[t].op = "check" THEN "remember" ELSE "keep"]
        /\ UNCHANGED <<memory, past, tainted>>

\* A request that was overtaken may put an entry in a cache that is stale from the start.
TaintIf(t, v) == IF job[t].overtaken THEN tainted \cup {<<job[t].home, v>>} ELSE tainted

\* _activeCache.set
Keep(t) ==
    /\ At(t, "keep")
    /\ activeCache' = [activeCache EXCEPT ![job[t].home][job[t].denom] = job[t].got]
    /\ tainted' = TaintIf(t, job[t].got)
    /\ Obtained(t, job[t].got)

\* SELECT pg_advisory_xact_lock(424242)
Advisory(t) ==
    /\ At(t, "advisory")
    /\ Update(t, AdvisoryRow, cur[AdvisoryRow], [job[t] EXCEPT !.pc = "max"])

View(t) == [r \in Row |-> Read(t, r)]

\* Mutant: MAX(key_version), not the next one.
MaxNotNext(t) ==
    /\ At(t, "max")
    /\ GoOn(t, [job[t] EXCEPT !.pc = "insert", !.fresh = Max(Used(View(t)) \cup {1})])

\* SELECT COALESCE(MAX(key_version), 0)
MaxSelect(t) ==
    /\ At(t, "max")
    /\ GoOn(t, [job[t] EXCEPT !.pc = "insert", !.fresh = Max(Used(View(t)) \cup {0}) + 1])

\* Rows the INSERT collides with: its own version, and the denomination's active key.
Rival(t, v) ==
    \/ v = job[t].fresh
    \/ IsActive(cur, v, job[t].denom)
    \/ IsActive(db, v, job[t].denom) /\ lock[KeyRow(v)] # t

\* The unique indexes wait for what another transaction has not committed.
MustWait(t) == \E v \in Version : Rival(t, v) /\ ~Writable(t, KeyRow(v))
Collides(t) ==
    \/ job[t].fresh \in Used(cur)
    \/ \E v \in Version : IsActive(cur, v, job[t].denom)

\* Mutant: no index on the denomination's active key.
InsertUnindexed(t) ==
    /\ At(t, "insert")
    /\ job[t].fresh \in Version
    /\ Writable(t, KeyRow(job[t].fresh))
    /\ IF job[t].fresh \in Used(cur)
         THEN Throw(t)
         ELSE Update(t, KeyRow(job[t].fresh),
                     [status |-> "active", denom |-> job[t].denom, sealed |-> TRUE],
                     [job[t] EXCEPT !.pc = "commit"])

\* INSERT INTO bank_keys.  Bound: what would exceed MaxVersion is left waiting.
Insert(t) ==
    /\ At(t, "insert")
    /\ ~MustWait(t)
    /\ \/ /\ Collides(t)
          /\ Throw(t)
       \/ /\ ~Collides(t) /\ job[t].fresh \in Version
          /\ Update(t, KeyRow(job[t].fresh),
                    [status |-> "active", denom |-> job[t].denom, sealed |-> TRUE],
                    [job[t] EXCEPT !.pc = "commit"])

-----------------------------------------------------------------------------
(* rotateKey                                                               *)

\* Mutant: a status the column's CHECK does not know.
RetireExpired(t) ==
    LET row == KeyRow(job[t].old)
    IN  /\ At(t, "retire")
        /\ cur[row].status = "active"
        /\ Update(t, row, [cur[row] EXCEPT !.status = "expired"], [job[t] EXCEPT !.pc = "max"])

\* Mutant: on a pool connection, outside the transaction.
RetireAtOnce(t) ==
    LET row == KeyRow(job[t].old)
    IN  /\ At(t, "retire")
        /\ lock[row] = NoTx
        /\ db' = [db EXCEPT ![row].status = "retired"]
        /\ cur' = [cur EXCEPT ![row].status = "retired"]
        /\ lock' = lock
        /\ job' = [job EXCEPT ![t].pc = "max"]
        /\ UNCHANGED <<memory, past, tainted>>

\* UPDATE bank_keys SET status = 'retired' WHERE key_version = ? AND status = 'active'
Retire(t) ==
    LET row == KeyRow(job[t].old)
        next == [job[t] EXCEPT !.pc = "max"]
    IN  /\ At(t, "retire")
        /\ Writable(t, row)
        /\ IF cur[row].status = "active"
             THEN Update(t, row, [cur[row] EXCEPT !.status = "retired"], next)
             ELSE GoOn(t, next)

\* After COMMIT: a boot takes up the next migration or is done with them, a new key is kept,
\* a rotation turns to the caches.
AfterCommit(request) ==
    IF request.todo = {1} THEN [request EXCEPT !.pc = "applied", !.todo = {}]
    ELSE IF request.todo # {}
      THEN LET left == request.todo \ {Min(request.todo)}
           IN  [request EXCEPT !.todo = left, !.pc = IF left = {} THEN "get" ELSE "record"]
    ELSE IF request.old # 0 THEN [request EXCEPT !.pc = "forget"]
    ELSE [request EXCEPT !.pc = "keep", !.got = request.fresh]

\* Request t goes on as next, the others of S learn nothing of what it just changed.
Overtaking(t, next, S) ==
    [u \in Tx |-> IF u = t THEN next
                  ELSE IF u \in S /\ ~At(u, "idle") THEN [job[u] EXCEPT !.overtaken = TRUE]
                  ELSE job[u]]

\* Whoever is under way may have read bank_keys before, and no cache is told by the database.
CommitTx(t) ==
    /\ At(t, "commit")
    /\ Commit(t)
    /\ job' = Overtaking(t, AfterCommit(job[t]),
                         IF job[t].todo = {} THEN Tx ELSE {u \in Tx : job[u].op = "boot"})
    /\ tainted' = IF job[t].old # 0
                    THEN tainted \cup {<<p, job[t].old>> : p \in {q \in Process : proc[q] # "down"}}
                    ELSE tainted
    /\ UNCHANGED <<memory, past>>

\* Mutant: only the key in use is forgotten.
ForgetActive(t) ==
    LET p == job[t].home
    IN  /\ At(t, "forget")
        /\ activeCache' = [activeCache EXCEPT ![p][job[t].denom] = 0]
        /\ tainted' = tainted \ {<<p, job[t].old>>}
        /\ job' = Overtaking(t, [job[t] EXCEPT !.pc = "log"], {u \in Tx : job[u].home = p})
        /\ UNCHANGED <<storage, proc, versionCache, past>>

\* _activeCache.delete(denom), _versionCache.delete(oldVersion)
Forget(t) ==
    LET p == job[t].home
    IN  /\ At(t, "forget")
        /\ activeCache' = [activeCache EXCEPT ![p][job[t].denom] = 0]
        /\ versionCache' = [versionCache EXCEPT ![p][job[t].old] = "none"]
        /\ tainted' = tainted \ {<<p, job[t].old>>}
        /\ job' = Overtaking(t, [job[t] EXCEPT !.pc = "log"], {u \in Tx : job[u].home = p})
        /\ UNCHANGED <<storage, proc, past>>

\* logAction: an INSERT of its own into audit_log, which nobody here reads back.
LogRotation(t) ==
    /\ At(t, "log")
    /\ GoOn(t, Idle)

-----------------------------------------------------------------------------
(* getPublicKeyByVersion                                                   *)

\* checkRetired is about to judge an entry that says status.
Judged(t, status) == [job[t] EXCEPT !.pc = "answer", !.got = 0, !.read = status]

\* _versionCache, else SELECT ... WHERE key_version = ?
Look(t) ==
    LET v == job[t].version
        cached == versionCache[job[t].home][v]
    IN  /\ At(t, "look")
        /\ \/ /\ cached # "none"
              /\ GoOn(t, Judged(t, cached))
           \/ /\ cached = "none"
              /\ db[KeyRow(v)].status = "none"     \* 404 KEY_NOT_FOUND
              /\ Throw(t)
           \/ /\ cached = "none"
              /\ db[KeyRow(v)].status # "none"
              /\ GoOn(t, [job[t] EXCEPT !.got = v, !.read = db[KeyRow(v)].status,
                             !.pc = IF db[KeyRow(v)].sealed THEN "remember" ELSE "seal"])

\* _versionCache.set: what was read, with no deadline of its own.
Remember(t) ==
    /\ At(t, "remember")
    /\ versionCache' = [versionCache EXCEPT ![job[t].home][job[t].got] = job[t].read]
    /\ tainted' = TaintIf(t, job[t].got)
    /\ job' = [job EXCEPT ![t] = Judged(t, job[t].read)]
    /\ UNCHANGED <<storage, proc, activeCache, past>>

\* The signature and its key_id, or the public key, or 403 KEY_RETIRED.
Answer(t) == At(t, "answer") /\ GoOn(t, Idle)

-----------------------------------------------------------------------------
Begin(t) ==
    \/ \E p \in Process : Boot(t, p)
    \/ \E d \in Denom : BeginKey(t, d) \/ BeginRotate(t, d)
    \/ \E v \in Version : BeginCheck(t, v) \/ BeginSign(t, v)

Step(t) ==
    \/ BaselineSelect(t) \/ AppliedSelect(t) \/ Record(t)
    \/ Get(t) \/ Seal(t) \/ Keep(t) \/ Advisory(t) \/ MaxSelect(t) \/ Insert(t)
    \/ Retire(t) \/ CommitTx(t) \/ Forget(t) \/ LogRotation(t)
    \/ Look(t) \/ Remember(t) \/ Answer(t)

\* A process dies: its transactions are rolled back, its caches are gone.
Crash(p) ==
    LET mine == {t \in Tx : job[t].home = p}
    IN  /\ Crashes
        /\ proc[p] # "down"
        /\ proc' = [proc EXCEPT ![p] = "down"]
        /\ job' = [t \in Tx |-> IF t \in mine THEN Idle ELSE job[t]]
        /\ cur' = [r \in Row |-> IF lock[r] \in mine THEN db[r] ELSE cur[r]]
        /\ lock' = [r \in Row |-> IF lock[r] \in mine THEN NoTx ELSE lock[r]]
        /\ activeCache' = [activeCache EXCEPT ![p] = [d \in Denom |-> 0]]
        /\ versionCache' = [versionCache EXCEPT ![p] = [v \in Version |-> "none"]]
        /\ tainted' = {x \in tainted : x[1] # p}
        /\ UNCHANGED <<db, past>>

Next ==
    \/ \E t \in Tx : Begin(t) \/ Step(t)
    \/ \E v \in Version : GracePasses(v)
    \/ \E p \in Process : Crash(p)

Spec == KeyDbInit /\ [][Next]_vars

-----------------------------------------------------------------------------
(* Properties.                                                             *)

\* ISOLATION.md: at most one active key per denomination is ever committed.
OneActive ==
    \A v, w \in Version, d \in Denom : IsActive(db, v, d) /\ IsActive(db, w, d) => v = w

\* A denomination that has an active key never loses it without a successor: a rotation that
\* fails, or dies, takes its UPDATE back.
NeverKeyless ==
    [][\A d \in Denom : (\E v \in Version : IsActive(db, v, d)) =>
                           (\E v \in Version : IsActive(db, v, d))']_vars

\* Migrations are recorded without gaps, and no process serves, or makes keys, before the last.
ServesMigrated ==
    /\ \A m \in Migration \ {1} : db[MigrationRow(m)] => db[MigrationRow(m - 1)]
    /\ \A p \in Process : proc[p] = "up" => db[MigrationRow(LastMigration)]
    /\ \A t \in Tx : lock[AdvisoryRow] = t => db[MigrationRow(LastMigration)]

\* A rotation that has answered is known in its process: a cache holds a retired key as active
\* only where a request was overtaken by a change of bank_keys, or in another process.
CachesKnow ==
    \A p \in Process, v \in Version :
        /\ db[KeyRow(v)].status = "retired"
        /\ versionCache[p][v] = "active" \/ \E d \in Denom : activeCache[p][d] = v
        => <<p, v>> \in tainted

\* What t knows of one of the versions may be out of date.
Misled(t, versions) ==
    job[t].overtaken \/ \E v \in versions : <<job[t].home, v>> \in tainted

\* An INSERT collides, with the rotation or the boot failing, only if another request changed
\* the table meanwhile, or the rotation started from a cached key that is no longer active.
CollisionExplained ==
    \A t \in Tx :
        /\ At(t, "insert") /\ ~MustWait(t) /\ Collides(t) => Misled(t, {job[t].old})
        /\ At(t, "record") /\ cur[MigrationRow(Min(job[t].todo))] /\ lock = [r \in Row |-> NoTx]
               => job[t].overtaken

\* Only the key a client blinded for signs its token, and the signature is handed out with the
\* version of that key, unless a change of bank_keys
\* came between signing and naming, or the cache was stale.
NamesSigner ==
    \A t \in Tx : At(t, "answer") /\ job[t].op = "sign" =>
        /\ job[t].signed = job[t].version
        /\ job[t].signed = job[t].named \/ Misled(t, {job[t].signed, job[t].named})

\* Whether checkRetired lets the version pass: only an entry that says retired is refused.
Honoured(t) == ~(job[t].read = "retired" /\ job[t].version \in past)

\* DESIGN.md 10.3: no token of a version past its grace is honoured; but for the stale caches.
GraceEnds ==
    \A t \in Tx :
        At(t, "answer") /\ job[t].op = "check" /\ job[t].version \in past /\ Honoured(t)
            => Misled(t, {job[t].version})
=============================================================================
