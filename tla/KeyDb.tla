-------------------------------- MODULE KeyDb --------------------------------
(***************************************************************************)
(* bank_keys and schema_migrations, the server processes with the two      *)
(* caches each keeps in memory, and the requests they serve.  Request t    *)
(* runs in the process job[t].home; job[t].pc names what it awaits next.   *)
(***************************************************************************)
EXTENDS Integers, FiniteSets

CONSTANTS Process, NoProcess,
          Tx, NoTx,     \* the requests under way; none
          Denom,        \* DENOMINATIONS
          BootDenom,    \* the one initDatabase provisions
          NoDenom,
          MaxVersion,   \* bound on bank_keys.key_version
          LastMigration \* number of the last file in models/migrations

ASSUME NoneAssumption == NoTx \notin Tx /\ NoProcess \notin Process /\ NoDenom \notin Denom
ASSUME DenomAssumption == BootDenom \in Denom
ASSUME BoundAssumption == MaxVersion \in Nat \ {0} /\ LastMigration \in Nat \ {0}

VARIABLES db, cur, lock,   \* the database
          job,             \* [Tx -> Job]: the requests being served
          proc,            \* [Process -> "down", "booting" or "up"]
          activeCache,     \* [Process -> [Denom -> version, 0 for no entry]]
          versionCache,    \* [Process -> [Version -> status remembered, "none" for no entry]]
          past,            \* retired versions whose retired_until has passed
          tainted          \* history: <<process, version>> whose cached status may be out of date

Version == 1..MaxVersion
Migration == 1..LastMigration

KeyRow(v) == <<"key", v>>
MigrationRow(m) == <<"migration", m>>
AdvisoryRow == <<"advisory", 424242>>    \* pg_advisory_xact_lock: held like a row's lock
Row == {KeyRow(v) : v \in Version} \cup {MigrationRow(m) : m \in Migration} \cup {AdvisoryRow}

INSTANCE PgReadCommitted

storage == <<db, cur, lock>>
memory == <<proc, activeCache, versionCache>>
vars == <<db, cur, lock, job, proc, activeCache, versionCache, past, tainted>>

-----------------------------------------------------------------------------
\* A row of bank_keys; sealed: private_key is AES-GCM ciphertext, no longer the plain scalar.
KeyValue == [status : {"none", "active", "retired"}, denom : Denom \cup {NoDenom}, sealed : BOOLEAN]
NoKey == [status |-> "none", denom |-> NoDenom, sealed |-> TRUE]

\* Version v is the active key of denomination d in a version of the tables.
IsActive(version, v, d) == version[KeyRow(v)].status = "active" /\ version[KeyRow(v)].denom = d

Used(version) == {v \in Version : version[KeyRow(v)].status # "none"}

Op == {"none", "boot", "key", "rotate", "check", "sign"}
Label == {"idle", "baseline", "applied", "record", "get", "seal", "keep", "advisory", "retire",
          "max", "insert", "commit", "forget", "log", "look", "remember", "name", "answer"}

Job == [op : Op, pc : Label,
        home : Process \cup {NoProcess},
        denom : Denom \cup {NoDenom},
        todo : SUBSET Migration,           \* migrations the boot has still to run
        version : 0..MaxVersion,           \* the version a request names
        got : 0..MaxVersion,               \* the version a SELECT returned
        old : 0..MaxVersion,               \* the version a rotation retires
        fresh : 0..(MaxVersion + 1),       \* MAX(key_version) + 1
        read : {"none", "active", "retired"},
        signed : 0..MaxVersion,            \* the version whose private key signed
        named : 0..MaxVersion,             \* the key_id handed out with the signature
        overtaken : BOOLEAN]               \* history: another request changed bank_keys meanwhile

Idle == [op |-> "none", pc |-> "idle", home |-> NoProcess, denom |-> NoDenom, todo |-> {}, version |-> 0,
         got |-> 0, old |-> 0, fresh |-> 0, read |-> "none", signed |-> 0, named |-> 0,
         overtaken |-> FALSE]

At(t, label) == job[t].pc = label

\* An empty database, or one from before the migrations, whose key is kept in the clear.
KeyDbInit ==
    /\ \E legacy \in BOOLEAN :
          db = [r \in Row |->
                  IF r = KeyRow(1) /\ legacy
                    THEN [status |-> "active", denom |-> BootDenom, sealed |-> FALSE]
                  ELSE IF r[1] = "key" THEN NoKey
                  ELSE FALSE]
    /\ cur = db
    /\ lock = [r \in Row |-> NoTx]
    /\ job = [t \in Tx |-> Idle]
    /\ proc = [p \in Process |-> "down"]
    /\ activeCache = [p \in Process |-> [d \in Denom |-> 0]]
    /\ versionCache = [p \in Process |-> [v \in Version |-> "none"]]
    /\ past = {} /\ tainted = {}

-----------------------------------------------------------------------------
(* Statement forms.                                                        *)

\* A throw: ROLLBACK and an error answer; a process whose boot throws exits.
Throw(t) ==
    /\ Rollback(t)
    /\ job' = [job EXCEPT ![t] = Idle]
    /\ proc' = IF job[t].op = "boot" THEN [proc EXCEPT ![job[t].home] = "down"] ELSE proc
    /\ UNCHANGED <<activeCache, versionCache, past, tainted>>

\* A step that writes no row, after which the handler goes on as next.
GoOn(t, next) ==
    /\ job' = [job EXCEPT ![t] = next]
    /\ UNCHANGED <<storage, memory, past, tainted>>

\* An UPDATE or INSERT inside a transaction.
Update(t, row, version, next) ==
    /\ Write(t, row, version)
    /\ job' = [job EXCEPT ![t] = next]
    /\ UNCHANGED <<memory, past, tainted>>

-----------------------------------------------------------------------------
\* Type correctness.
StorageTyped ==
    /\ \A version \in {db, cur} :
          /\ version = [r \in Row |-> version[r]]
          /\ \A v \in Version : version[KeyRow(v)] \in KeyValue
          /\ \A m \in Migration : version[MigrationRow(m)] \in BOOLEAN
    /\ lock \in [Row -> Tx \cup {NoTx}]

RequestsTyped == job \in [Tx -> Job] /\ proc \in [Process -> {"down", "booting", "up"}]

CachesTyped ==
    /\ activeCache \in [Process -> [Denom -> 0..MaxVersion]]
    /\ versionCache \in [Process -> [Version -> {"none", "active", "retired"}]]

TypeOK ==
    /\ StorageTyped /\ RequestsTyped /\ CachesTyped
    /\ past \subseteq Version
    /\ tainted \subseteq Process \X Version
=============================================================================
