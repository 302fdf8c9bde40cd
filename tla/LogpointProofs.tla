--------------------------- MODULE LogpointProofs ---------------------------
(***************************************************************************)
(* Proofs about Logpoint for any number of threads, rows and pairs.        *)
(***************************************************************************)
EXTENDS Logpoint, TLAPS

-----------------------------------------------------------------------------
(* THE STATEMENT BUFFER                                                    *)

(* For every table name and tuple the row's statement, with the NUL that   *)
(* ends it, lies within the buffer and before the signature's statement:   *)
(* neither snprintf truncates or overwrites the row.                       *)
THEOREM RowTextFits ==
    ASSUME NEW t \in Nat, NEW u \in Nat
    PROVE  /\ RowTextLen(t, u) < StmtLen(t, u)
           /\ Sign => RowTextLen(t, u) < SignatureAt(t, u)
BY DEF RowTextLen, StmtLen, SignatureAt

(* For every table name and tuple the signature's statement starts one     *)
(* byte behind the NUL of the row's statement, where sqlite3_exec has      *)
(* stopped reading.                                                        *)
THEOREM SignatureBehindNul ==
    ASSUME Sign, NEW t \in Nat, NEW u \in Nat
    PROVE  /\ SignatureAt(t, u) = RowTextLen(t, u) + 1
           /\ ~SignatureExecuted(t, u)
BY DEF RowTextLen, StmtLen, SignatureAt, SignatureExecuted

-----------------------------------------------------------------------------
(* TYPES                                                                   *)

(* Every variable keeps its type, however the threads interleave. *)
THEOREM TypeCorrect == Spec => []TypeOK
<1>1. Init => TypeOK
  BY DEF Init, TypeOK, Steps, Jobs
<1>2. TypeOK /\ [Next]_vars => TypeOK'
  <2> SUFFICES ASSUME TypeOK, [Next]_vars
               PROVE  TypeOK'
    OBVIOUS
  <2> USE DEF TypeOK, chainVars, dbVars, checkVars, others, Goto
  <2>0. CASE UNCHANGED vars
    BY <2>0 DEF vars
  <2>1. ASSUME NEW t \in Threads, ProcessPair(t)
        PROVE  TypeOK'
    <3>1. todo' \in [Threads -> Nat] /\ pairs' \in Nat
      BY <2>1, NumbersAssumption DEF ProcessPair
    <3>2. pc' \in [Threads -> Steps]
      BY <2>1 DEF ProcessPair, Steps
    <3> QED
      BY <2>1, <3>1, <3>2 DEF ProcessPair
  <2>2. ASSUME NEW t \in Threads, InsertStep(t)
        PROVE  TypeOK'
    <3>1. CASE LockHash(t)
      <4>1. todo[t] - 1 \in Nat
        BY <3>1 DEF LockHash, EnterHash
      <4> QED
        BY <3>1, <4>1 DEF LockHash, EnterHash, Steps, Hashing
    <3>2. CASE CreateInsert(t)
      <4>1. PICK row \in Rows : stmt' = [stmt EXCEPT ![t] = Sha256(lasthash, row)]
        BY <3>2 DEF CreateInsert
      <4>2. Sha256(lasthash, row) \in Seq(Rows)
        BY DEF Sha256
      <4>3. stmt' \in [Threads -> Seq(Rows)]
        BY <4>1, <4>2
      <4> QED
        BY <3>2, <4>3 DEF CreateInsert, Steps, Hashing
    <3>3. CASE PublishHash(t)
      BY <3>3 DEF PublishHash, WriteHash, Steps, Hashing
    <3>4. CASE SignHash(t)
      BY <3>4 DEF SignHash, SignThen, Steps, Hashing
    <3>5. CASE SignFails(t)
      BY <3>5 DEF SignFails, DropRow, Steps
    <3>6. CASE FormatSignature(t)
      BY <3>6 DEF FormatSignature, Steps, Hashing
    <3>7. CASE UnlockHash(t)
      BY <3>7 DEF UnlockHash, Steps, Jobs
    <3> QED
      BY <2>2, <3>1, <3>2, <3>3, <3>4, <3>5, <3>6, <3>7 DEF InsertStep
  <2>3. ASSUME NEW t \in Threads, TxStep(t)
        PROVE  TypeOK'
    <3>1. CASE TxLock(t)
      BY <3>1 DEF TxLock, EnterDb, Steps, InTx
    <3>2. CASE TxBegin(t)
      BY <3>2 DEF TxBegin, Steps, InTx
    <3>3. CASE ExecRow(t)
      <4>1. db' \subseteq Seq(Rows)
        BY <3>3 DEF ExecRow
      <4>2. signatures' \subseteq [hash : Seq(Rows), signs : Seq(Rows)]
        BY <3>3 DEF ExecRow
      <4>3. pc' \in [Threads -> Steps]
        BY <3>3 DEF ExecRow, Steps, InTx
      <4> QED
        BY <3>3, <4>1, <4>2, <4>3 DEF ExecRow
    <3>4. CASE ExecRowFails(t)
      <4>1. lost' \subseteq Seq(Rows)
        BY <3>4 DEF ExecRowFails
      <4> QED
        BY <3>4, <4>1 DEF ExecRowFails, Steps, InTx
    <3>5. CASE ExecAudit(t)
      BY <3>5 DEF ExecAudit, Steps, InTx
    <3>6. CASE ExecTrimming(t)
      BY <3>6 DEF ExecTrimming, Steps, InTx
    <3>7. CASE TxEnd(t)
      BY <3>7 DEF TxEnd, Steps, InTx
    <3>8. CASE TxUnlock(t)
      BY <3>8 DEF TxUnlock, LeaveDb, NextJob, Steps, Jobs
    <3> QED
      BY <2>3, <3>1, <3>2, <3>3, <3>4, <3>5, <3>6, <3>7, <3>8 DEF TxStep
  <2>4. ASSUME NEW t \in Threads, CheckStep(t)
        PROVE  TypeOK'
    <3>1. CASE ReturnUnchecked(t)
      BY <3>1 DEF ReturnUnchecked, Steps
    <3>2. CASE CountPair(t)
      <4>1. docheck' \in Int
        BY <3>2, NumbersAssumption DEF CountPair
      <4>2. counted' \in Nat
        BY <3>2 DEF CountPair
      <4> QED
        BY <3>2, <4>1, <4>2 DEF CountPair, Steps
    <3>3. CASE StartAudit(t)
      <4>1. pc' \in [Threads -> Steps] /\ job' \in [Threads -> Jobs]
        BY <3>3 DEF StartAudit, AuditAndSet, Steps, Jobs
      <4>2. docheck' \in Int /\ counted' \in Nat
        BY <3>3 DEF StartAudit, AuditAndSet
      <4>3. UNCHANGED <<todo, chainVars, dbVars, lost, seen, pairs>>
        BY <3>3 DEF StartAudit, AuditAndSet
      <4> QED
        BY <4>1, <4>2, <4>3
    <3>4. CASE SkipAudit(t)
      BY <3>4 DEF SkipAudit, Steps
    <3> QED
      BY <2>4, <3>1, <3>2, <3>3, <3>4 DEF CheckStep
  <2> QED
    BY <2>0, <2>1, <2>2, <2>3, <2>4 DEF Next, Inside
<1> QED
  BY <1>1, <1>2, PTL DEF Spec

-----------------------------------------------------------------------------
(* MUTUAL EXCLUSION                                                        *)

(* Who is in a critical section owns its mutex (after SignFails a thread   *)
(* also owns lasthash_mutex without being inside).                         *)
MutexInv ==
    /\ \A t \in Threads : pc[t] \in Hashing => lasthash_mutex = t
    /\ \A t \in Threads : pc[t] \in InTx => sqlite_mutex = t

(* A transaction is open only while its thread holds sqlite_mutex.         *)
TxInv ==
    /\ sqlite_mutex = NoThread => intx = NoThread
    /\ \A t \in Threads : pc[t] \in {"begin", "txunlock"} => intx = NoThread
    /\ OwnTransaction

(* Outside of execute_stmt_tx a thread has no audit or trimming under way. *)
JobInv ==
    \A t \in Threads :
        pc[t] \in {"idle", "rows", "cas"} \cup Hashing => job[t] = "row"

LockInv == MutexInv /\ TxInv /\ JobInv

(* No step of a thread takes a mutex or a transaction another thread has,  *)
(* and the job of a thread changes only where execute_stmt_tx ends or an   *)
(* audit starts.                                                           *)
LEMMA LockStep ==
    ASSUME TypeOK, LockInv, [Next]_vars
    PROVE  LockInv'
<1> USE ThreadsAssumption DEF TypeOK, LockInv, MutexInv, TxInv, OwnTransaction,
                              JobInv, chainVars, dbVars, checkVars, others, Goto,
                              Hashing, InTx
<1>0. CASE UNCHANGED vars
  BY <1>0 DEF vars
<1>1. ASSUME NEW t \in Threads, ProcessPair(t)
      PROVE  LockInv'
  BY <1>1 DEF ProcessPair
<1>2. ASSUME NEW t \in Threads, InsertStep(t)
      PROVE  LockInv'
  <2>1. CASE LockHash(t)
    BY <2>1 DEF LockHash, EnterHash
  <2>2. CASE CreateInsert(t)
    BY <2>2 DEF CreateInsert
  <2>3. CASE PublishHash(t)
    BY <2>3 DEF PublishHash, WriteHash
  <2>4. CASE SignHash(t)
    BY <2>4 DEF SignHash, SignThen
  <2>5. CASE SignFails(t)
    BY <2>5 DEF SignFails, DropRow
  <2>6. CASE FormatSignature(t)
    BY <2>6 DEF FormatSignature
  <2>7. CASE UnlockHash(t)
    BY <2>7 DEF UnlockHash
  <2> QED
    BY <1>2, <2>1, <2>2, <2>3, <2>4, <2>5, <2>6, <2>7 DEF InsertStep
<1>3. ASSUME NEW t \in Threads, TxStep(t)
      PROVE  LockInv'
  <2>1. CASE TxLock(t)
    BY <2>1 DEF TxLock, EnterDb
  <2>2. CASE TxBegin(t)
    BY <2>2 DEF TxBegin
  <2>3. CASE ExecRow(t)
    BY <2>3 DEF ExecRow
  <2>4. CASE ExecRowFails(t)
    BY <2>4 DEF ExecRowFails
  <2>5. CASE ExecAudit(t)
    BY <2>5 DEF ExecAudit
  <2>6. CASE ExecTrimming(t)
    BY <2>6 DEF ExecTrimming
  <2>7. CASE TxEnd(t)
    BY <2>7 DEF TxEnd
  <2>8. CASE TxUnlock(t)
    BY <2>8 DEF TxUnlock, LeaveDb, NextJob
  <2> QED
    BY <1>3, <2>1, <2>2, <2>3, <2>4, <2>5, <2>6, <2>7, <2>8 DEF TxStep
<1>4. ASSUME NEW t \in Threads, CheckStep(t)
      PROVE  LockInv'
  <2>1. CASE ReturnUnchecked(t)
    BY <2>1 DEF ReturnUnchecked
  <2>2. CASE CountPair(t)
    BY <2>2 DEF CountPair
  <2>3. CASE StartAudit(t)
    BY <2>3 DEF StartAudit, AuditAndSet
  <2>4. CASE SkipAudit(t)
    BY <2>4 DEF SkipAudit, AuditAndSet
  <2> QED BY <1>4, <2>1, <2>2, <2>3, <2>4 DEF CheckStep
<1> QED
  BY <1>0, <1>1, <1>2, <1>3, <1>4 DEF Next, Inside

(* lasthash_mutex and db_transaction_mutex exclude the threads of          *)
(* logpoint_log from each other's critical sections, and nobody executes a *)
(* statement without a transaction.                                        *)
THEOREM LocksHold == Spec => []LockInv
<1>1. Init => LockInv
  BY DEF Init, LockInv, MutexInv, TxInv, OwnTransaction, JobInv, Hashing, InTx
<1> QED
  BY <1>1, LockStep, TypeCorrect, PTL DEF Spec

(* Every row, audit query and trimming statement is executed in the        *)
(* transaction its own thread began.                                       *)
THEOREM TransactionsAreOwn == Spec => []OwnTransaction
<1>1. LockInv => OwnTransaction
  BY DEF LockInv, TxInv
<1> QED
  BY <1>1, LocksHold, PTL

-----------------------------------------------------------------------------
(* THE PERIOD OF THE AUDIT                                                 *)

PeriodInv == docheck =< counted

(* However many threads increment and compare docheck at once, and though  *)
(* it wraps, an audit starts only after CheckAfter pairs were counted.     *)
THEOREM AuditsAreSpaced == Spec => AuditsSpaced
<1>1. Init => PeriodInv
  BY DEF Init, PeriodInv
<1>2. TypeOK /\ PeriodInv /\ [Next]_vars => PeriodInv'
  <2> SUFFICES ASSUME TypeOK, PeriodInv, [Next]_vars
               PROVE  PeriodInv'
    OBVIOUS
  <2> USE DEF TypeOK, PeriodInv
  <2>1. CASE UNCHANGED vars
    BY <2>1 DEF vars, others, checkVars
  <2>2. ASSUME NEW t \in Threads, CountPair(t)
        PROVE  PeriodInv'
    BY <2>2, NumbersAssumption DEF CountPair
  <2>3. ASSUME NEW t \in Threads, StartAudit(t)
        PROVE  PeriodInv'
    BY <2>3 DEF StartAudit, AuditAndSet
  <2>4. ASSUME NEW t \in Threads, ProcessPair(t) \/ InsertStep(t) \/ TxStep(t)
                                  \/ ReturnUnchecked(t) \/ SkipAudit(t)
        PROVE  UNCHANGED checkVars
    BY <2>4 DEF others, ProcessPair, InsertStep, LockHash, EnterHash,
       CreateInsert, PublishHash, WriteHash, SignHash, SignThen, SignFails,
       DropRow, FormatSignature, UnlockHash, TxStep, TxLock, EnterDb, TxBegin,
       ExecRow, ExecRowFails, ExecAudit, ExecTrimming, TxEnd, TxUnlock,
       LeaveDb, ReturnUnchecked, SkipAudit
  <2> QED
    BY <2>1, <2>2, <2>3, <2>4 DEF Next, Inside, CheckStep, checkVars
<1>3. TypeOK /\ LockInv /\ PeriodInv /\ [Next]_vars =>
         [\A t \in Threads : pc[t] = "cas" /\ job'[t] = "completeness"
                                => counted >= CheckAfter]_vars
  <2> SUFFICES ASSUME TypeOK, LockInv, PeriodInv, Next,
                      NEW t \in Threads, pc[t] = "cas", job'[t] = "completeness"
               PROVE  counted >= CheckAfter
    OBVIOUS
  <2>1. job[t] = "row"
    BY DEF LockInv, JobInv
  <2>2. PICK u \in Threads : ProcessPair(u) \/ Inside(u)
    BY DEF Next
  <2>3. CASE StartAudit(u)
    BY <2>3, NumbersAssumption DEF StartAudit, AuditAndSet, PeriodInv, TypeOK
  <2>4. CASE UnlockHash(u) \/ TxUnlock(u)
    BY <2>1, <2>4 DEF UnlockHash, TxUnlock, LeaveDb, NextJob, TypeOK
  <2>5. ASSUME ~StartAudit(u), ~UnlockHash(u), ~TxUnlock(u)
        PROVE  job' = job
    BY <2>2, <2>5 DEF ProcessPair, Inside, InsertStep, LockHash, EnterHash,
       CreateInsert, PublishHash, WriteHash, SignHash, SignThen, SignFails,
       DropRow, FormatSignature, TxStep, TxLock, EnterDb, TxBegin, ExecRow,
       ExecRowFails, ExecAudit, ExecTrimming, TxEnd, CheckStep,
       ReturnUnchecked, CountPair, SkipAudit
  <2> QED
    BY <2>1, <2>3, <2>4, <2>5
<1> QED
  BY <1>1, <1>2, <1>3, TypeCorrect, LocksHold, PTL DEF Spec, AuditsSpaced

-----------------------------------------------------------------------------
(* THE HASH CHAIN                                                          *)

(* What a row about to be chained shares with the chain so far.            *)
LEMMA PrefixOfAppend ==
    ASSUME NEW s \in Seq(Rows), NEW row \in Rows
    PROVE  /\ Append(s, row) \in Seq(Rows)
           /\ Len(Append(s, row)) = Len(s) + 1
           /\ \A n \in 1..Len(s) :
                 SubSeq(Append(s, row), 1, n) = SubSeq(s, 1, n)
           /\ SubSeq(Append(s, row), 1, Len(s) + 1) = Append(s, row)
OBVIOUS

(* How long a prefix of the chain is.                                      *)
LEMMA LenOfPrefix ==
    ASSUME NEW s \in Seq(Rows), NEW n \in 1..Len(s)
    PROVE  SubSeq(s, 1, n) \in Seq(Rows) /\ Len(SubSeq(s, 1, n)) = n
OBVIOUS

(* The hash a thread is working on, step by step.                          *)
HashInv ==
    \A t \in Threads :
        /\ pc[t] = "publish" => \E row \in Rows : stmt[t] = Append(lasthash, row)
        /\ pc[t] \in {"sign", "format", "unlock"} => stmt[t] = lasthash
        /\ pc[t] = "format" => p_signature = lasthash

(* What SignatureMatchesRow rests on: only signing builds enter these steps. *)
SigInv ==
    /\ SignatureMatchesRow
    /\ \A t \in Threads : pc[t] \in {"sign", "format"} => Sign

ChainInv == HashInv /\ ChainUnbroken /\ EachRowOnce

(* The thread that has lasthash_mutex works on the newest hash: nobody     *)
(* else's step changes lasthash or the statement it has built.             *)
LEMMA HashStep ==
    ASSUME TypeOK, LockInv, HashInv, [Next]_vars
    PROVE  HashInv'
<1> USE ThreadsAssumption DEF TypeOK, LockInv, MutexInv, HashInv, chainVars,
                              Goto, Hashing
<1>0. CASE UNCHANGED vars
  BY <1>0 DEF vars
<1>1. ASSUME NEW t \in Threads, LockHash(t)
      PROVE  HashInv'
  BY <1>1 DEF LockHash, EnterHash
<1>2. ASSUME NEW t \in Threads, CreateInsert(t)
      PROVE  HashInv'
  BY <1>2 DEF CreateInsert, Sha256
<1>3. ASSUME NEW t \in Threads, PublishHash(t)
      PROVE  HashInv'
  BY <1>3 DEF PublishHash, WriteHash
<1>4. ASSUME NEW t \in Threads, SignHash(t)
      PROVE  HashInv'
  BY <1>4 DEF SignHash, SignThen
<1>5. ASSUME NEW t \in Threads, FormatSignature(t)
      PROVE  HashInv'
  BY <1>5 DEF FormatSignature
<1>6. ASSUME NEW t \in Threads, SignFails(t) \/ UnlockHash(t)
      PROVE  HashInv'
  BY <1>6 DEF SignFails, DropRow, UnlockHash
<1>7. ASSUME NEW t \in Threads, ProcessPair(t) \/ TxStep(t) \/ CheckStep(t)
      PROVE  HashInv'
  <2>1. UNCHANGED chainVars
    BY <1>7 DEF ProcessPair, TxStep, TxLock, EnterDb, TxBegin, ExecRow,
       ExecRowFails, ExecAudit, ExecTrimming, TxEnd, TxUnlock, LeaveDb,
       CheckStep, ReturnUnchecked, CountPair, StartAudit, AuditAndSet,
       SkipAudit
  <2>2. \A u \in Threads : pc'[u] \in Hashing => pc'[u] = pc[u]
    BY <1>7 DEF ProcessPair, TxStep, TxLock, EnterDb, TxBegin, ExecRow,
       ExecRowFails, ExecAudit, ExecTrimming, TxEnd, TxUnlock, LeaveDb,
       CheckStep, ReturnUnchecked, CountPair, StartAudit, AuditAndSet,
       SkipAudit
  <2> QED
    BY <2>1, <2>2
<1> QED
  BY <1>0, <1>1, <1>2, <1>3, <1>4, <1>5, <1>6, <1>7
     DEF Next, Inside, InsertStep

(* A step that changes neither the chain nor who holds which row.          *)
LEMMA ChainFrame ==
    ASSUME ChainUnbroken, EachRowOnce,
           UNCHANGED <<lasthash, db, lost, trimmed>>,
           \A u \in Threads : InFlight(u)' <=> InFlight(u),
           \A u \in Threads : InFlight(u) => stmt'[u] = stmt[u]
    PROVE  ChainUnbroken' /\ EachRowOnce'
<1>1. Flying' = Flying
  BY DEF Flying
<1> QED
  BY <1>1 DEF ChainUnbroken, EachRowOnce, Accounted, Settled, OnChain

(* A step by which thread t's row is settled: stored or lost.              *)
LEMMA ChainSettle ==
    ASSUME ChainUnbroken, EachRowOnce,
           NEW t \in Threads, InFlight(t), ~InFlight(t)',
           UNCHANGED <<lasthash, stmt, trimmed>>,
           \A u \in Threads \ {t} : InFlight(u)' <=> InFlight(u),
           \/ db' = db \cup {stmt[t]} /\ lost' = lost
           \/ lost' = lost \cup {stmt[t]} /\ db' = db
    PROVE  ChainUnbroken' /\ EachRowOnce'
<1>1. Flying' = Flying \ {stmt[t]}
  BY DEF Flying, EachRowOnce
<1>2. stmt[t] \in Flying
  BY DEF Flying
<1>3. Settled' = Settled \cup {stmt[t]}
  BY DEF Settled
<1>4. Accounted' = Accounted
  BY <1>1, <1>2, <1>3 DEF Accounted
<1>5. ChainUnbroken'
  BY <1>4 DEF ChainUnbroken, OnChain
<1>6. stmt[t] \notin Settled
  BY <1>2 DEF EachRowOnce
<1> QED
  BY <1>1, <1>3, <1>5, <1>6 DEF EachRowOnce, Settled

(* The step that extends the chain: the new hash is longer than every hash *)
(* accounted for, and every older prefix of the chain is kept.             *)
LEMMA ChainExtend ==
    ASSUME TypeOK, LockInv, HashInv, ChainUnbroken, EachRowOnce,
           NEW t \in Threads, PublishHash(t)
    PROVE  ChainUnbroken' /\ EachRowOnce'
<1> DEFINE new == stmt[t]
<1>1. PICK row \in Rows : new = Append(lasthash, row)
  BY DEF HashInv, PublishHash, WriteHash
<1>2. /\ lasthash \in Seq(Rows) /\ lasthash' = new /\ stmt' = stmt
      /\ db' = db /\ lost' = lost /\ trimmed' = trimmed
  BY DEF TypeOK, PublishHash, WriteHash, dbVars, others
<1>3. /\ Len(new) = Len(lasthash) + 1
      /\ \A n \in 1..Len(lasthash) : SubSeq(new, 1, n) = SubSeq(lasthash, 1, n)
      /\ SubSeq(new, 1, Len(lasthash) + 1) = new
      /\ Len(lasthash) \in Nat
  BY <1>1, <1>2, PrefixOfAppend
<1>4. ~InFlight(t) /\ InFlight(t)'
  BY DEF InFlight, PublishHash, WriteHash, Goto, TypeOK
<1>5. \A u \in Threads \ {t} : InFlight(u)' <=> InFlight(u)
  BY DEF InFlight, PublishHash, WriteHash, Goto, TypeOK
<1>6. Flying' = Flying \cup {new}
  BY <1>2, <1>4, <1>5 DEF Flying
<1>7. Settled' = Settled
  BY <1>2 DEF Settled
<1>8. new \notin Accounted
  BY <1>3 DEF ChainUnbroken, OnChain
<1>9. Accounted' = Accounted \cup {new}
  BY <1>6, <1>7 DEF Accounted
<1>10. ASSUME NEW h \in Accounted'
       PROVE  OnChain(h)'
  <2>1. CASE h = new
    BY <1>2, <1>3, <2>1 DEF OnChain
  <2>2. CASE h \in Accounted
    <3>1. Len(h) \in 1..Len(lasthash) /\ h = SubSeq(lasthash, 1, Len(h))
      BY <2>2 DEF ChainUnbroken, OnChain
    <3>2. h = SubSeq(new, 1, Len(h))
      BY <1>3, <3>1
    <3>3. Len(h) \in 1..Len(new)
      BY <1>3, <3>1
    <3> QED
      BY <1>2, <3>2, <3>3 DEF OnChain
  <2> QED
    BY <1>9, <2>1, <2>2
<1>11. ASSUME NEW n \in 1..Len(lasthash')
       PROVE  SubSeq(lasthash', 1, n) \in Accounted'
  <2>1. CASE n = Len(lasthash) + 1
    BY <1>2, <1>3, <1>9, <2>1
  <2>2. CASE n \in 1..Len(lasthash)
    BY <1>2, <1>3, <1>9, <2>2 DEF ChainUnbroken
  <2> QED
    BY <1>2, <1>3, <2>1, <2>2
<1>12. ChainUnbroken'
  BY <1>10, <1>11 DEF ChainUnbroken
<1>13. \A u \in Threads : InFlight(u) => stmt[u] # new
  BY <1>8 DEF Accounted, Flying
<1>14. new \notin Settled
  BY <1>8 DEF Accounted
<1>15. \A u, v \in Threads :
          InFlight(u)' /\ InFlight(v)' /\ stmt'[u] = stmt'[v] => u = v
  BY <1>2, <1>5, <1>13 DEF EachRowOnce
<1>16. (Flying \cap Settled)' = {}
  BY <1>6, <1>7, <1>14 DEF EachRowOnce
<1> QED
  BY <1>2, <1>12, <1>15, <1>16 DEF EachRowOnce

(* A step of insert_statement or execute_stmt_tx keeps the chain unbroken  *)
(* and each row in one place.                                              *)
LEMMA ChainStep ==
    ASSUME TypeOK, LockInv, ChainInv, [Next]_vars
    PROVE  ChainInv'
<1>0. HashInv'
  BY HashStep DEF ChainInv
<1> SUFFICES ChainUnbroken' /\ EachRowOnce'
  BY <1>0 DEF ChainInv
<1> USE DEF ChainInv, LockInv, TypeOK, chainVars, dbVars, checkVars, others, Goto
<1>1. CASE UNCHANGED vars
  BY <1>1, ChainFrame DEF vars, InFlight
<1>2. ASSUME NEW t \in Threads, ProcessPair(t) \/ CheckStep(t)
      PROVE  ChainUnbroken' /\ EachRowOnce'
  <2>1. UNCHANGED <<lasthash, stmt, db, lost, trimmed>>
    BY <1>2 DEF ProcessPair, CheckStep, ReturnUnchecked, CountPair,
                StartAudit, AuditAndSet, SkipAudit
  <2>2. \A u \in Threads : InFlight(u)' <=> InFlight(u)
    BY <1>2 DEF ProcessPair, CheckStep, ReturnUnchecked, CountPair,
                StartAudit, AuditAndSet, SkipAudit, InFlight
  <2> QED
    BY <2>1, <2>2, ChainFrame
<1>3. ASSUME NEW t \in Threads, InsertStep(t)
      PROVE  ChainUnbroken' /\ EachRowOnce'
  <2>1. CASE LockHash(t)
    BY <2>1, ChainFrame DEF LockHash, EnterHash, InFlight
  <2>2. CASE CreateInsert(t)
    <3>1. ~InFlight(t) /\ \A u \in Threads \ {t} : stmt'[u] = stmt[u]
      BY <2>2 DEF CreateInsert, InFlight
    <3>2. \A u \in Threads : InFlight(u)' <=> InFlight(u)
      BY <2>2 DEF CreateInsert, InFlight
    <3> QED
      BY <2>2, <3>1, <3>2, ChainFrame DEF CreateInsert
  <2>3. CASE PublishHash(t)
    BY <2>3, ChainExtend
  <2>4. CASE SignHash(t)
    BY <2>4, ChainFrame DEF SignHash, SignThen, InFlight
  <2>5. CASE SignFails(t)
    BY <2>5, ChainSettle DEF SignFails, DropRow, InFlight
  <2>6. CASE FormatSignature(t)
    BY <2>6, ChainFrame DEF FormatSignature, InFlight
  <2>7. CASE UnlockHash(t)
    BY <2>7, ChainFrame DEF UnlockHash, InFlight
  <2> QED
    BY <1>3, <2>1, <2>2, <2>3, <2>4, <2>5, <2>6, <2>7 DEF InsertStep
<1>4. ASSUME NEW t \in Threads, TxStep(t)
      PROVE  ChainUnbroken' /\ EachRowOnce'
  <2>1. CASE TxLock(t)
    BY <2>1, ChainFrame DEF TxLock, EnterDb, InFlight
  <2>2. CASE TxBegin(t)
    BY <2>2, ChainFrame DEF TxBegin, InFlight
  <2>3. CASE ExecRow(t)
    BY <2>3, ChainSettle DEF ExecRow, InFlight
  <2>4. CASE ExecRowFails(t)
    BY <2>4, ChainSettle DEF ExecRowFails, InFlight
  <2>5. CASE ExecAudit(t)
    BY <2>5, ChainFrame DEF ExecAudit, InFlight
  <2>6. CASE ExecTrimming(t)
    <3>1. PICK victims \in SUBSET db :
             db' = db \ victims /\ trimmed' = trimmed \cup victims
      <4>1. PICK superseded \in SUBSET {h \in db : RowOf(h) \notin Discarded} :
              /\ db' = db \ (superseded \cup {h \in db : RowOf(h) \in Discarded})
              /\ trimmed' = trimmed \cup
                     (superseded \cup {h \in db : RowOf(h) \in Discarded})
        BY <2>6 DEF ExecTrimming
      <4> QED
        BY <4>1
    <3>2. Flying' = Flying
      BY <2>6 DEF ExecTrimming, Flying, InFlight
    <3>3. Settled' = Settled /\ UNCHANGED <<lasthash, lost, stmt>>
      BY <2>6, <3>1 DEF ExecTrimming, Settled
    <3>4. \A u \in Threads : InFlight(u)' <=> InFlight(u)
      BY <2>6 DEF ExecTrimming, InFlight
    <3>5. ChainUnbroken'
      BY <3>2, <3>3 DEF ChainUnbroken, Accounted, OnChain
    <3>6. EachRowOnce'
      BY <3>1, <3>2, <3>3, <3>4 DEF EachRowOnce
    <3> QED
      BY <3>5, <3>6
  <2>7. CASE TxEnd(t)
    BY <2>7, ChainFrame DEF TxEnd, InFlight
  <2>8. CASE TxUnlock(t)
    BY <2>8, ChainFrame DEF TxUnlock, LeaveDb, NextJob, InFlight
  <2> QED
    BY <1>4, <2>1, <2>2, <2>3, <2>4, <2>5, <2>6, <2>7, <2>8 DEF TxStep
<1> QED
  BY <1>1, <1>2, <1>3, <1>4 DEF Next, Inside

(* In every execution of logpoint_log the chain is unbroken, each row is   *)
(* in one place, and the owner of lasthash_mutex works on its end.         *)
THEOREM ChainHolds == Spec => []ChainInv
<1>1. Init => ChainInv
  BY DEF Init, ChainInv, HashInv, ChainUnbroken, EachRowOnce, Accounted,
         Flying, Settled, InFlight
<1> QED
  BY <1>1, ChainStep, TypeCorrect, LocksHold, PTL DEF Spec

(* However many threads chain rows into lasthash, the chain has no fork    *)
(* and no hole that no thread, failed call or trimming accounts for.       *)
THEOREM ChainNeverBreaks == Spec => []ChainUnbroken
<1>1. ChainInv => ChainUnbroken
  BY DEF ChainInv
<1> QED
  BY <1>1, ChainHolds, PTL

(* No row is inserted twice, nor inserted after it was dropped or trimmed. *)
THEOREM RowsAreInsertedOnce == Spec => []EachRowOnce
<1>1. ChainInv => EachRowOnce
  BY DEF ChainInv
<1> QED
  BY <1>1, ChainHolds, PTL

-----------------------------------------------------------------------------
(* THE SIGNATURES                                                          *)

(* p_signature belongs to the thread that has lasthash_mutex, and a        *)
(* formatted statement carries the signature of its own hash until its row *)
(* is settled.                                                             *)
LEMMA SigStep ==
    ASSUME TypeOK, LockInv, ChainInv, SigInv, [Next]_vars
    PROVE  SigInv'
<1> USE DEF TypeOK, SigInv, SignatureMatchesRow, InFlight, chainVars, Goto
<1>0. CASE UNCHANGED vars
  BY <1>0 DEF vars
<1>1. ASSUME NEW t \in Threads, CreateInsert(t)
      PROVE  SigInv'
  BY <1>1 DEF CreateInsert
<1>2. ASSUME NEW t \in Threads, FormatSignature(t)
      PROVE  SigInv'
  <2>1. stmt[t] = lasthash /\ p_signature = lasthash
    BY <1>2 DEF FormatSignature, ChainInv, HashInv
  <2> QED
    BY <1>2, <2>1 DEF FormatSignature
<1>3. ASSUME NEW t \in Threads, LockHash(t) \/ PublishHash(t) \/ SignHash(t)
                                \/ SignFails(t) \/ UnlockHash(t)
      PROVE  SigInv'
  <2>1. UNCHANGED <<stmt, sigtext>>
    BY <1>3 DEF LockHash, EnterHash, PublishHash, WriteHash, SignHash,
       SignThen, SignFails, DropRow, UnlockHash
  <2>2. \A u \in Threads : pc'[u] \in {"sign", "format"} => Sign
    BY <1>3 DEF LockHash, EnterHash, PublishHash, WriteHash, SignHash,
       SignThen, SignFails, DropRow, UnlockHash, LockInv
  <2>3. ASSUME NEW u \in Threads, Sign, InFlight(u)',
               pc'[u] \notin {"sign", "format"}
        PROVE  InFlight(u) /\ pc[u] \notin {"sign", "format"}
    BY <1>3, <2>3 DEF LockHash, EnterHash, PublishHash, WriteHash, SignHash,
       SignThen, SignFails, DropRow, UnlockHash
  <2> QED
    BY <2>1, <2>2, <2>3
<1>4. ASSUME NEW t \in Threads, ProcessPair(t) \/ TxStep(t) \/ CheckStep(t)
      PROVE  SigInv'
  <2>1. UNCHANGED <<stmt, sigtext>>
    BY <1>4 DEF ProcessPair, TxStep, TxLock, EnterDb, TxBegin, ExecRow,
       ExecRowFails, ExecAudit, ExecTrimming, TxEnd, TxUnlock, LeaveDb,
       CheckStep, ReturnUnchecked, CountPair, StartAudit, AuditAndSet,
       SkipAudit
  <2>2. CASE ProcessPair(t) \/ CheckStep(t)
    <3>1. \A u \in Threads :
             \/ pc'[u] = pc[u] /\ job'[u] = job[u]
             \/ ~InFlight(u)'
      BY <2>2 DEF ProcessPair, CheckStep, ReturnUnchecked, CountPair,
                  StartAudit, AuditAndSet, SkipAudit
    <3>2. \A u \in Threads : pc'[u] # pc[u] => pc'[u] \notin {"sign", "format"}
      BY <2>2 DEF ProcessPair, CheckStep, ReturnUnchecked, CountPair,
                  StartAudit, AuditAndSet, SkipAudit
    <3> QED
      BY <2>1, <3>1, <3>2
  <2>3. CASE TxStep(t)
    <3>1. \A u \in Threads \ {t} : pc'[u] = pc[u] /\ job'[u] = job[u]
      BY <2>3 DEF TxStep, TxLock, EnterDb, TxBegin, ExecRow, ExecRowFails,
         ExecAudit, ExecTrimming, TxEnd, TxUnlock, LeaveDb
    <3>2. /\ pc'[t] \notin {"sign", "format"}
          /\ pc[t] \notin {"sign", "format"}
      BY <2>3 DEF TxStep, TxLock, EnterDb, TxBegin, ExecRow, ExecRowFails,
         ExecAudit, ExecTrimming, TxEnd, TxUnlock, LeaveDb
    <3>3. InFlight(t)' => InFlight(t)
      <4>1. CASE TxUnlock(t)
        BY <4>1 DEF TxUnlock, LeaveDb, NextJob
      <4>2. CASE TxLock(t) \/ TxBegin(t)
        BY <4>2 DEF TxLock, EnterDb, TxBegin
      <4>3. CASE ExecRow(t) \/ ExecRowFails(t) \/ ExecAudit(t)
                 \/ ExecTrimming(t) \/ TxEnd(t)
        BY <4>3 DEF ExecRow, ExecRowFails, ExecAudit, ExecTrimming, TxEnd
      <4> QED
        BY <2>3, <4>1, <4>2, <4>3 DEF TxStep
    <3> QED
      BY <2>1, <3>1, <3>2, <3>3
  <2> QED
    BY <1>4, <2>2, <2>3
<1> QED
  BY <1>0, <1>1, <1>2, <1>3, <1>4 DEF Next, Inside, InsertStep

(* The one static signature buffer never mixes up two rows: every row on   *)
(* its way to the database carries the signature of its own hash.          *)
THEOREM SignaturesMatchRows == Spec => []SignatureMatchesRow
<1>1. Init => SigInv
  BY DEF Init, SigInv, SignatureMatchesRow, InFlight
<1>2. SigInv => SignatureMatchesRow
  BY DEF SigInv
<1> QED
  BY <1>1, <1>2, SigStep, TypeCorrect, LocksHold, ChainHolds, PTL DEF Spec

NoSignature == signatures = {}

(* Whatever the tables and tuples are called, no signature ever reaches    *)
(* the table libseal_signatures: the statement that would insert it lies   *)
(* behind the NUL of the row's statement.                                  *)
THEOREM NoSignatureIsStored == Spec => []NoSignature
<1>1. Init => NoSignature
  BY DEF Init, NoSignature
<1>2. TypeOK /\ ChainInv /\ NoSignature /\ [Next]_vars => NoSignature'
  <2> SUFFICES ASSUME TypeOK, ChainInv, signatures = {}, [Next]_vars
               PROVE  signatures' = {}
    BY DEF NoSignature
  <2>1. ASSUME NEW t \in Threads, ExecRow(t)
        PROVE  signatures' = {}
    <3> DEFINE row == RowOf(stmt[t])
    <3>1. stmt[t] \in Seq(Rows) /\ Len(stmt[t]) \in 1..Len(lasthash)
      <4>1. InFlight(t)
        BY <2>1 DEF ExecRow, InFlight
      <4> QED
        BY <4>1 DEF TypeOK, ChainInv, ChainUnbroken, OnChain, Accounted, Flying
    <3>2. row \in Rows
      BY <3>1 DEF RowOf, TypeOK
    <3>3. TableLen[row] \in Nat /\ TupleLen[row] \in Nat
      BY <3>2, RowsAssumption
    <3> HIDE DEF row
    <3>4. Sign => ~SignatureExecuted(TableLen[row], TupleLen[row])
      BY <3>3, SignatureBehindNul
    <3> QED
      BY <2>1, <3>4 DEF ExecRow, row
  <2>2. CASE UNCHANGED vars
    BY <2>2 DEF vars, dbVars
  <2>3. ASSUME NEW t \in Threads, ProcessPair(t) \/ Inside(t), ~ExecRow(t)
        PROVE  signatures' = signatures
    BY <2>3 DEF Inside, dbVars, ProcessPair, InsertStep, LockHash, EnterHash,
       CreateInsert, PublishHash, WriteHash, SignHash, SignThen, SignFails,
       DropRow, FormatSignature, UnlockHash, TxStep, TxLock, EnterDb, TxBegin,
       ExecRowFails, ExecAudit, ExecTrimming, TxEnd, TxUnlock, LeaveDb,
       CheckStep, ReturnUnchecked, CountPair, StartAudit, AuditAndSet,
       SkipAudit
  <2> QED
    BY <2>1, <2>2, <2>3 DEF Next
<1> QED
  BY <1>1, <1>2, TypeCorrect, ChainHolds, PTL DEF Spec

-----------------------------------------------------------------------------
(* THE ABSTRACT LOG                                                        *)

Lens(hashes) == {Len(h) : h \in hashes}

(* A link of the chain is known by its length alone.                       *)
LEMMA LenIdentifies ==
    ASSUME ChainUnbroken, NEW g \in Accounted, NEW h \in Accounted,
           Len(g) = Len(h)
    PROVE  g = h
BY DEF ChainUnbroken, OnChain

(* A step that settles thread t's row settles its position.                *)
LEMMA PositionIsOutstanding ==
    ASSUME ChainInv, NEW t \in Threads, InFlight(t)
    PROVE  Len(stmt[t]) \in Log!Outstanding
<1>1. stmt[t] \in Accounted /\ stmt[t] \notin Settled
  BY DEF ChainInv, EachRowOnce, Accounted, Flying
<1>2. Len(stmt[t]) \in 1..Len(lasthash)
  BY <1>1 DEF ChainInv, ChainUnbroken, OnChain
<1>3. \A h \in Settled : Len(h) # Len(stmt[t])
  BY <1>1, LenIdentifies DEF ChainInv, Accounted
<1> QED
  BY <1>2, <1>3 DEF Log!Outstanding, Settled

(* A step of insert_statement or execute_stmt_tx is a step of the abstract *)
(* log, or changes nothing it shows.                                       *)
LEMMA LogStep ==
    ASSUME TypeOK, LockInv, ChainInv, [Next]_vars
    PROVE  [Log!Next]_(Log!vars)
<1> USE DEF chainVars, dbVars, checkVars, others
<1>1. CASE UNCHANGED vars
  BY <1>1 DEF vars, Log!vars
<1>2. ASSUME NEW t \in Threads, PublishHash(t)
      PROVE  Log!Next
  <2>1. PICK row \in Rows : stmt[t] = Append(lasthash, row)
    BY <1>2 DEF PublishHash, WriteHash, ChainInv, HashInv
  <2>2. Log!Issue(row)
    BY <1>2, <2>1 DEF PublishHash, WriteHash, Log!Issue
  <2> QED
    BY <2>2 DEF Log!Next
<1>3. ASSUME NEW t \in Threads, SignFails(t) \/ ExecRowFails(t)
      PROVE  Log!Next
  <2>1. InFlight(t)
    BY <1>3 DEF SignFails, DropRow, ExecRowFails, InFlight
  <2>2. Len(stmt[t]) \in Log!Outstanding
    BY <2>1, PositionIsOutstanding
  <2>3. /\ lost' = lost \cup {stmt[t]}
        /\ UNCHANGED <<lasthash, db, trimmed>>
    BY <1>3 DEF SignFails, DropRow, ExecRowFails
  <2>4. Lens(lost' \cup trimmed') = Lens(lost \cup trimmed) \cup {Len(stmt[t])}
    BY <2>3 DEF Lens
  <2>5. PICK n \in Log!Outstanding : n = Len(stmt[t])
    BY <2>2
  <2>6. Log!Lose(n)
    BY <2>3, <2>4, <2>5 DEF Log!Lose, Lens
  <2> QED
    BY <2>6 DEF Log!Next
<1>4. ASSUME NEW t \in Threads, ExecRow(t)
      PROVE  Log!Next
  <2>1. InFlight(t)
    BY <1>4 DEF ExecRow, InFlight
  <2>2. Len(stmt[t]) \in Log!Outstanding
    BY <2>1, PositionIsOutstanding
  <2>3. /\ db' = db \cup {stmt[t]}
        /\ UNCHANGED <<lasthash, lost, trimmed>>
    BY <1>4 DEF ExecRow
  <2>4. Lens(db') = Lens(db) \cup {Len(stmt[t])}
    BY <2>3 DEF Lens
  <2>5. PICK n \in Log!Outstanding : n = Len(stmt[t])
    BY <2>2
  <2>6. Log!Store(n)
    BY <2>3, <2>4, <2>5 DEF Log!Store, Lens
  <2> QED
    BY <2>6 DEF Log!Next
<1>5. ASSUME NEW t \in Threads, ExecTrimming(t)
      PROVE  Log!Next
  <2>1. PICK victims \in SUBSET db :
           db' = db \ victims /\ trimmed' = trimmed \cup victims
    <3>1. PICK superseded \in SUBSET {h \in db : RowOf(h) \notin Discarded} :
            /\ db' = db \ (superseded \cup {h \in db : RowOf(h) \in Discarded})
            /\ trimmed' = trimmed \cup
                   (superseded \cup {h \in db : RowOf(h) \in Discarded})
      BY <1>5 DEF ExecTrimming
    <3> QED
      BY <3>1
  <2>2. UNCHANGED <<lasthash, lost>>
    BY <1>5 DEF ExecTrimming
  <2>3. \A g, h \in db : Len(g) = Len(h) => g = h
    BY LenIdentifies DEF ChainInv, Accounted, Settled
  <2>4. Lens(db') = Lens(db) \ Lens(victims)
    BY <2>1, <2>3 DEF Lens
  <2>5. Lens(lost' \cup trimmed') = Lens(lost \cup trimmed) \cup Lens(victims)
    BY <2>1, <2>2 DEF Lens
  <2>6. Log!Trim(Lens(victims))
    BY <2>2, <2>4, <2>5 DEF Log!Trim, Lens
  <2>7. Lens(victims) \in SUBSET Lens(db)
    BY <2>1 DEF Lens
  <2> QED
    BY <2>6, <2>7 DEF Log!Next, Lens
<1>6. ASSUME NEW t \in Threads, ProcessPair(t) \/ Inside(t), ~PublishHash(t),
             ~SignFails(t), ~ExecRowFails(t), ~ExecRow(t), ~ExecTrimming(t)
      PROVE  UNCHANGED Log!vars
  <2>1. UNCHANGED <<lasthash, db, lost, trimmed>>
    BY <1>6 DEF Inside, ProcessPair, InsertStep, LockHash, EnterHash,
       CreateInsert, SignHash, SignThen, FormatSignature, UnlockHash, TxStep,
       TxLock, EnterDb, TxBegin, ExecAudit, TxEnd, TxUnlock, LeaveDb,
       CheckStep, ReturnUnchecked, CountPair, StartAudit, AuditAndSet,
       SkipAudit
  <2> QED
    BY <2>1 DEF Log!vars
<1> QED
  BY <1>1, <1>2, <1>3, <1>4, <1>5, <1>6 DEF Next

(* The threads, their mutexes and their transactions implement the         *)
(* abstract log: the rows form one sequence, each is stored at most once,  *)
(* and what is trimmed was stored.                                         *)
THEOREM LogpointImplementsLog == Spec => ImplementsLog
<1>1. Init => Log!Init
  BY DEF Init, Log!Init
<1> QED
  BY <1>1, LogStep, TypeCorrect, LocksHold, ChainHolds, PTL
     DEF Spec, ImplementsLog, Log!Spec

=============================================================================
