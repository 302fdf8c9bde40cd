------------------------------ MODULE Logpoint ------------------------------
(***************************************************************************)
(* The logging core, src/libseal/auditing/logpoint/logpoint.c: threads     *)
(* call logpoint_log with a request/response pair; the auditing module     *)
(* turns the pair into rows; each row is chained into lasthash, signed and *)
(* inserted in a transaction of its own; a counter shared by all threads   *)
(* decides who audits and trims the database.                              *)
(*                                                                         *)
(* The hash of a row is modelled as the sequence of the rows it covers:    *)
(* sha256(lasthash, table, tuple) becomes Append(lasthash, row), which is  *)
(* injective as SHA-256 is assumed to be.  A row of the database is        *)
(* identified by the hash in its libseal_hash column, the last element of  *)
(* which is the row itself.                                                *)
(***************************************************************************)
EXTENDS Integers, Sequences, FiniteSets

CONSTANTS
    Threads,        \* application threads that may be inside logpoint_log
    NoThread,       \* "nobody", the owner of a free mutex
    Rows,           \* the (table, tuple) pairs the auditing module may insert
    Discarded,      \* the rows of tables that do_trimming empties entirely
    TableLen,       \* [Rows -> Nat]: strlen(table)
    TupleLen,       \* [Rows -> Nat]: strlen(tuple)
    Sign,           \* COMPILE_WITH_INTEL_SGX && SQLITE_DO_SIGN
    DoCheck,        \* SQLITE_DO_CHECK
    DoTrimming,     \* SQLITE_DO_TRIMMING
    CheckAfter,     \* SQLITE_CHECKAFTER
    IntMax,         \* the largest int, at which docheck wraps
    SignCanFail,    \* sgx_ecdsa_sign may return an error
    InsertCanFail,  \* sqlite3_exec may refuse a row (key collision, disk full)
    MaxRows,        \* bound: rows of one pair
    MaxPairs        \* bound: calls of logpoint_log

ASSUME ThreadsAssumption == NoThread \notin Threads
ASSUME RowsAssumption ==
    /\ Discarded \subseteq Rows
    /\ TableLen \in [Rows -> Nat]
    /\ TupleLen \in [Rows -> Nat]
ASSUME FlagsAssumption ==
    {Sign, DoCheck, DoTrimming, SignCanFail, InsertCanFail} \subseteq BOOLEAN
ASSUME NumbersAssumption ==
    /\ CheckAfter \in Nat \ {0}
    /\ IntMax \in Nat
    /\ CheckAfter =< IntMax
    /\ MaxRows \in Nat
    /\ MaxPairs \in Nat

VARIABLES
    pc,             \* where each thread is
    todo,           \* rows of its pair a thread has not inserted yet
    job,            \* what a thread's execute_stmt_tx is called for
    lasthash_mutex,
    sqlite_mutex,
    lasthash,       \* hash of the row chained last
    p_signature,    \* the static signature buffer: the hash it signs
    stmt,           \* a thread's statement: the hash of the row it inserts
    sigtext,        \* the signature statement formatted behind it
    intx,           \* the thread whose transaction is open on db
    db,             \* hashes of the rows in the database
    signatures,     \* the table libseal_signatures
    docheck,        \* pairs since the last audit, as the code counts them
    lost,           \* history: hashes whose row a failed call dropped
    trimmed,        \* history: hashes whose row do_trimming deleted
    seen,           \* history: the rows a thread's last audit query saw
    counted,        \* history: increments of docheck since the last audit
    pairs           \* bound: calls of logpoint_log so far

chainVars == <<lasthash_mutex, lasthash, p_signature, stmt, sigtext>>
dbVars    == <<sqlite_mutex, intx, db, signatures, trimmed>>
checkVars == <<docheck, counted>>
others    == <<checkVars, lost, seen, pairs>>
vars == <<pc, todo, job, chainVars, dbVars, others>>

Jobs == {"row", "completeness", "soundness", "trimming"}

Hashing == {"hash", "publish", "sign", "format", "unlock"}
InTx    == {"begin", "exec", "end", "txunlock"}
Steps   == {"idle", "rows", "txlock", "cas"} \cup Hashing \cup InTx

-----------------------------------------------------------------------------
(* The statement buffer.  create_insert_statement allocates StmtLen bytes  *)
(* and prints the row's statement at its start; insert_statement prints    *)
(* the signature's statement in the last 244.                              *)

StmtLen(t, u) == 13 + t + 9 + u + 4 + (IF Sign THEN 244 ELSE 0) + 67

(* strlen of INSERT INTO `table` VALUES (tuple,"hash");                    *)
RowTextLen(t, u) == 13 + t + 10 + u + 2 + 64 + 3

SignatureAt(t, u) == StmtLen(t, u) - 244

(* sqlite3_exec reads the buffer up to the first NUL, so it executes the   *)
(* signature's statement only when that starts no later than the NUL that  *)
(* ends the row's statement.                                               *)
SignatureExecuted(t, u) == SignatureAt(t, u) =< RowTextLen(t, u)

Sha256(hash, row) == Append(hash, row)

RowOf(hash) == hash[Len(hash)]

-----------------------------------------------------------------------------
Init ==
    /\ pc = [t \in Threads |-> "idle"]
    /\ todo = [t \in Threads |-> 0]
    /\ job = [t \in Threads |-> "row"]
    /\ lasthash_mutex = NoThread
    /\ sqlite_mutex = NoThread
    /\ lasthash = <<>>
    /\ p_signature = <<>>
    /\ stmt = [t \in Threads |-> <<>>]
    /\ sigtext = [t \in Threads |-> [hash |-> <<>>, signs |-> <<>>]]
    /\ intx = NoThread
    /\ db = {}
    /\ signatures = {}
    /\ docheck = 0
    /\ lost = {}
    /\ trimmed = {}
    /\ seen = [t \in Threads |-> {}]
    /\ counted = 0
    /\ pairs = 0

Goto(t, label) == pc' = [pc EXCEPT ![t] = label]

(* logpoint_log enters process_log, which finds some rows in the pair.     *)
ProcessPair(t) ==
    /\ pc[t] = "idle"
    /\ pairs < MaxPairs
    /\ \E n \in 0..MaxRows : todo' = [todo EXCEPT ![t] = n]
    /\ pairs' = pairs + 1
    /\ Goto(t, "rows")
    /\ UNCHANGED <<job, chainVars, dbVars, checkVars, lost, seen>>

(* insert_statement: pthread_mutex_lock(&lasthash_mutex).                  *)
EnterHash(t) ==
    /\ pc[t] = "rows"
    /\ lasthash_mutex' = t
    /\ todo' = [todo EXCEPT ![t] = todo[t] - 1]
    /\ Goto(t, "hash")
    /\ UNCHANGED <<job, lasthash, p_signature, stmt, sigtext, dbVars, others>>

\* mutant: no mutex
LockHashUnguarded(t) == todo[t] > 0 /\ EnterHash(t)

LockHash(t) ==
    /\ todo[t] > 0
    /\ lasthash_mutex = NoThread
    /\ EnterHash(t)

(* create_insert_statement: newhash, and the statement that carries it.    *)
CreateInsert(t) ==
    /\ pc[t] = "hash"
    /\ \E row \in Rows : stmt' = [stmt EXCEPT ![t] = Sha256(lasthash, row)]
    /\ Goto(t, "publish")
    /\ UNCHANGED <<todo, job, lasthash_mutex, lasthash, p_signature, sigtext,
                   dbVars, others>>

(* create_insert_statement: memcpy(lasthash, newhash, 65).                 *)
WriteHash(t, hash) ==
    /\ pc[t] = "publish"
    /\ lasthash' = hash
    /\ Goto(t, IF Sign THEN "sign" ELSE "unlock")
    /\ UNCHANGED <<todo, job, lasthash_mutex, p_signature, stmt, sigtext,
                   dbVars, others>>

PublishHashForgotten(t) == WriteHash(t, lasthash)   \* mutant: no memcpy

PublishHash(t) == WriteHash(t, stmt[t])

(* sgx_ecdsa_sign writes the static buffer p_signature.                    *)
SignThen(t, owner) ==
    /\ pc[t] = "sign"
    /\ p_signature' = lasthash
    /\ lasthash_mutex' = owner
    /\ Goto(t, "format")
    /\ UNCHANGED <<todo, job, lasthash, stmt, sigtext, dbVars, others>>

SignHashUnlocks(t) == SignThen(t, NoThread)     \* mutant: unlocks too early

SignHash(t) == SignThen(t, lasthash_mutex)

(* The early return of insert_statement when sgx_ecdsa_sign fails: the row *)
(* is dropped and lasthash_mutex stays locked.                             *)
DropRow(t, label) ==
    /\ pc[t] = "sign"
    /\ SignCanFail
    /\ lost' = lost \cup {stmt[t]}
    /\ Goto(t, label)
    /\ UNCHANGED <<todo, job, chainVars, dbVars, checkVars, seen, pairs>>

SignFailsContinues(t) == DropRow(t, "unlock")   \* mutant: no return

SignFails(t) == DropRow(t, "rows")

FormatSignature(t) ==
    /\ pc[t] = "format"
    /\ sigtext' = [sigtext EXCEPT ![t] =
                       [hash |-> lasthash, signs |-> p_signature]]
    /\ Goto(t, "unlock")
    /\ UNCHANGED <<todo, job, lasthash_mutex, lasthash, p_signature, stmt,
                   dbVars, others>>

(* The mutex is released before the rounds of the monotonic counter and    *)
(* before the row is inserted.  The rounds touch nothing modelled here:    *)
(* the time they take is any number of steps of the other threads.         *)
UnlockHash(t) ==
    /\ pc[t] = "unlock"
    /\ lasthash_mutex' = NoThread
    /\ job' = [job EXCEPT ![t] = "row"]
    /\ Goto(t, "txlock")
    /\ UNCHANGED <<todo, lasthash, p_signature, stmt, sigtext, dbVars, others>>

-----------------------------------------------------------------------------
(* execute_stmt_tx, for a row, an audit query or the trimming statement.   *)

EnterDb(t) ==
    /\ pc[t] = "txlock"
    /\ sqlite_mutex' = t
    /\ Goto(t, "begin")
    /\ UNCHANGED <<todo, job, chainVars, intx, db, signatures, trimmed, others>>

TxLockUnguarded(t) == EnterDb(t)        \* mutant: no mutex

TxLock(t) == sqlite_mutex = NoThread /\ EnterDb(t)

(* sqlite refuses to begin a transaction inside a transaction; the error   *)
(* is only printed.                                                        *)
TxBegin(t) ==
    /\ pc[t] = "begin"
    /\ intx' = IF intx = NoThread THEN t ELSE intx
    /\ Goto(t, "exec")
    /\ UNCHANGED <<todo, job, chainVars, sqlite_mutex, db, signatures,
                   trimmed, others>>

ExecRow(t) ==
    /\ pc[t] = "exec"
    /\ job[t] = "row"
    /\ db' = db \cup {stmt[t]}
    /\ signatures' =
          IF Sign /\ SignatureExecuted(TableLen[RowOf(stmt[t])],
                                       TupleLen[RowOf(stmt[t])])
          THEN signatures \cup {sigtext[t]}
          ELSE signatures
    /\ Goto(t, "end")
    /\ UNCHANGED <<todo, job, chainVars, sqlite_mutex, intx, trimmed,
                   others>>

(* The database refuses the row; the error is only printed.                *)
ExecRowFails(t) ==
    /\ pc[t] = "exec"
    /\ job[t] = "row"
    /\ InsertCanFail
    /\ lost' = lost \cup {stmt[t]}
    /\ Goto(t, "end")
    /\ UNCHANGED <<todo, job, chainVars, dbVars, checkVars, seen, pairs>>

ExecAudit(t) ==
    /\ pc[t] = "exec"
    /\ job[t] \in {"completeness", "soundness"}
    /\ seen' = [seen EXCEPT ![t] = db]
    /\ Goto(t, "end")
    /\ UNCHANGED <<todo, job, chainVars, dbVars, checkVars, lost, pairs>>

(* Every row of a Discarded table goes; of the others those the auditing   *)
(* module holds to be superseded, which is any set here.                   *)
ExecTrimming(t) ==
    /\ pc[t] = "exec"
    /\ job[t] = "trimming"
    /\ \E superseded \in SUBSET {h \in db : RowOf(h) \notin Discarded} :
          LET victims == superseded \cup {h \in db : RowOf(h) \in Discarded}
          IN  /\ db' = db \ victims
              /\ trimmed' = trimmed \cup victims
    /\ Goto(t, "end")
    /\ UNCHANGED <<todo, job, chainVars, sqlite_mutex, intx, signatures,
                   others>>

TxEnd(t) ==
    /\ pc[t] = "end"
    /\ intx' = NoThread
    /\ Goto(t, "txunlock")
    /\ UNCHANGED <<todo, job, chainVars, sqlite_mutex, db, signatures,
                   trimmed, others>>

(* The queries of do_audit and the statement of do_trimming follow one     *)
(* another, each in a transaction of its own.                              *)
NextJob(j) ==
    CASE j = "completeness" -> "soundness"
      [] j = "soundness" /\ DoTrimming -> "trimming"
      [] OTHER -> "row"

LeaveDb(t, owner) ==
    /\ pc[t] = "txunlock"
    /\ sqlite_mutex' = owner
    /\ job' = [job EXCEPT ![t] = NextJob(job[t])]
    /\ Goto(t, IF job[t] = "row" THEN "rows"
               ELSE IF NextJob(job[t]) = "row" THEN "idle" ELSE "txlock")
    /\ UNCHANGED <<todo, chainVars, intx, db, signatures, trimmed, others>>

\* mutant: an audit query returns without unlocking
TxUnlockLeaks(t) == LeaveDb(t, IF job[t] = "row" THEN NoThread ELSE t)

TxUnlock(t) == LeaveDb(t, NoThread)

-----------------------------------------------------------------------------
(* logpoint_log after process_log.                                         *)

ReturnUnchecked(t) ==
    /\ pc[t] = "rows"
    /\ todo[t] = 0
    /\ ~DoCheck
    /\ Goto(t, "idle")
    /\ UNCHANGED <<todo, job, chainVars, dbVars, others>>

(* __atomic_fetch_add(&docheck, 1), which wraps.                           *)
CountPair(t) ==
    /\ pc[t] = "rows"
    /\ todo[t] = 0
    /\ DoCheck
    /\ docheck' = IF docheck = IntMax THEN -IntMax - 1 ELSE docheck + 1
    /\ counted' = counted + 1
    /\ Goto(t, "cas")
    /\ UNCHANGED <<todo, job, chainVars, dbVars, lost, seen, pairs>>

(* The compare-and-exchange succeeds: this thread audits.                  *)
AuditAndSet(t, value) ==
    /\ pc[t] = "cas"
    /\ docheck' = value
    /\ counted' = 0
    /\ job' = [job EXCEPT ![t] = "completeness"]
    /\ Goto(t, "txlock")
    /\ UNCHANGED <<todo, chainVars, dbVars, lost, seen, pairs>>

\* mutant: the counter is compared by >= and never reset
StartAuditNoReset(t) == docheck >= CheckAfter /\ AuditAndSet(t, docheck)

StartAudit(t) == docheck = CheckAfter /\ AuditAndSet(t, 0)

SkipAudit(t) ==
    /\ pc[t] = "cas"
    /\ docheck # CheckAfter
    /\ Goto(t, "idle")
    /\ UNCHANGED <<todo, job, chainVars, dbVars, others>>

-----------------------------------------------------------------------------
InsertStep(t) ==
    \/ LockHash(t) \/ CreateInsert(t) \/ PublishHash(t) \/ SignHash(t)
    \/ SignFails(t) \/ FormatSignature(t) \/ UnlockHash(t)

TxStep(t) ==
    \/ TxLock(t) \/ TxBegin(t) \/ ExecRow(t) \/ ExecRowFails(t)
    \/ ExecAudit(t) \/ ExecTrimming(t) \/ TxEnd(t) \/ TxUnlock(t)

CheckStep(t) ==
    \/ ReturnUnchecked(t) \/ CountPair(t) \/ StartAudit(t) \/ SkipAudit(t)

(* What a thread does once it is inside logpoint_log. *)
Inside(t) == InsertStep(t) \/ TxStep(t) \/ CheckStep(t)

Next == \E t \in Threads : ProcessPair(t) \/ Inside(t)

Spec == Init /\ [][Next]_vars

(* The scheduler runs every thread that can run.  Whether another pair     *)
(* arrives is the application's affair: ProcessPair is not fair.           *)
FairSpec == Spec /\ \A t \in Threads : WF_vars(Inside(t))

-----------------------------------------------------------------------------
(* PROPERTIES                                                              *)

(* Every variable keeps its type. *)
TypeOK ==
    /\ pc \in [Threads -> Steps]
    /\ todo \in [Threads -> Nat]
    /\ job \in [Threads -> Jobs]
    /\ lasthash_mutex \in Threads \cup {NoThread}
    /\ sqlite_mutex \in Threads \cup {NoThread}
    /\ lasthash \in Seq(Rows)
    /\ p_signature \in Seq(Rows)
    /\ stmt \in [Threads -> Seq(Rows)]
    /\ sigtext \in [Threads -> [hash : Seq(Rows), signs : Seq(Rows)]]
    /\ intx \in Threads \cup {NoThread}
    /\ db \subseteq Seq(Rows)
    /\ signatures \subseteq [hash : Seq(Rows), signs : Seq(Rows)]
    /\ docheck \in Int
    /\ lost \subseteq Seq(Rows)
    /\ trimmed \subseteq Seq(Rows)
    /\ seen \in [Threads -> SUBSET Seq(Rows)]
    /\ counted \in Nat
    /\ pairs \in Nat

(* A thread between PublishHash and the execution of its statement holds a *)
(* row that is part of the chain and of nothing else yet.                  *)
InFlight(t) ==
    \/ pc[t] \in {"sign", "format", "unlock"}
    \/ pc[t] \in {"txlock", "begin", "exec"} /\ job[t] = "row"

Flying   == {stmt[t] : t \in {u \in Threads : InFlight(u)}}
Settled  == db \cup lost \cup trimmed
Accounted == Flying \cup Settled

OnChain(h) ==
    /\ Len(h) \in 1..Len(lasthash)
    /\ h = SubSeq(lasthash, 1, Len(h))

(* The hash chain never forks and never has a hole nobody accounts for:    *)
(* every row, stored or on its way, is chained to all the rows issued      *)
(* before it, and every link of the chain is the row of the database, of a *)
(* thread still inserting it, of a call that failed, or a trimmed one -    *)
(* though lasthash is read, hashed and written back in separate steps, and *)
(* rows are inserted after lasthash_mutex is released.                     *)
ChainUnbroken ==
    /\ \A h \in Accounted : OnChain(h)
    /\ \A n \in 1..Len(lasthash) : SubSeq(lasthash, 1, n) \in Accounted

(* No row is in two hands: what one thread is inserting no other thread    *)
(* is, and it has not been stored, dropped or trimmed before.              *)
EachRowOnce ==
    /\ \A t, u \in Threads :
          InFlight(t) /\ InFlight(u) /\ stmt[t] = stmt[u] => t = u
    /\ Flying \cap Settled = {}
    /\ db \cap (lost \cup trimmed) = {}
    /\ lost \cap trimmed = {}

(* The signature a thread formats behind its statement is the signature of *)
(* its own row's hash, though p_signature is one static buffer and the     *)
(* statement is executed long after the mutex was released.                *)
SignatureMatchesRow ==
    \A t \in Threads :
        Sign /\ InFlight(t) /\ pc[t] \notin {"sign", "format"} =>
            sigtext[t] = [hash |-> stmt[t], signs |-> stmt[t]]

(* Whatever execute_stmt_tx executes runs in the transaction its own       *)
(* thread began: no row, audit query or trimming lands in a transaction of *)
(* another thread, which would end it early or be ended by it.             *)
OwnTransaction ==
    \A t \in Threads : pc[t] \in {"exec", "end"} => intx = t

(* An audit starts only after CheckAfter further pairs were counted, even  *)
(* when several threads count and compare at once: no two threads audit on *)
(* behalf of the same period.                                              *)
AuditsSpaced ==
    [][\A t \in Threads :
          pc[t] = "cas" /\ job'[t] = "completeness" => counted >= CheckAfter
      ]_vars

(* logpoint_log returns: no thread is stuck on a mutex for ever.           *)
CallsReturn == \A t \in Threads : (pc[t] # "idle") ~> (pc[t] = "idle")

(* README.md:112-114: SQLITE_CHECKAFTER is "the period, in terms of number *)
(* of entries inserted into the database, at which the SQL queries for     *)
(* revealing invariant violations are executed".  Then, whenever no thread *)
(* is about to compare, the counter is below the period: otherwise the     *)
(* check is overdue and nobody will do it.                                 *)
AuditNotMissed ==
    (\A t \in Threads : pc[t] # "cas") => docheck < CheckAfter

(* README.md:63-65: trimming removes "entries that are no longer needed to *)
(* check the log".  Then a row no audit has looked at is not removed.      *)
TrimmedWasAudited ==
    [][\A t \in Threads :
          job[t] = "trimming" /\ pc[t] = "exec" => db \ db' \subseteq seen[t]
      ]_vars

(* README.md:108-109: SQLITE_DO_SIGN adds "a signature to every database   *)
(* entry".  Then every row of the database has a row of libseal_signatures *)
(* with its hash.                                                          *)
EveryRowSigned ==
    Sign => \A h \in db : \E s \in signatures : s.hash = h

-----------------------------------------------------------------------------
(* REFINEMENT: positions of the abstract chain are the lengths of hashes.  *)

Log == INSTANCE AuditLog WITH
           chain  <- lasthash,
           stored <- {Len(h) : h \in db},
           gone   <- {Len(h) : h \in lost \cup trimmed}

(* The threads, their two mutexes and their transactions implement the     *)
(* abstract log: rows join one sequence, each is stored at most once, and  *)
(* only a stored row is trimmed.                                           *)
ImplementsLog == Log!Spec

(* Every position of the chain is settled in the end: no hash is handed    *)
(* out whose row is for ever neither stored nor given up.                  *)
EveryRowSettles == \A n \in 1..(MaxPairs * MaxRows) : Log!Settles(n)

=============================================================================
