------------------------------ MODULE Restart ------------------------------
(***************************************************************************)
(* The log over restarts of the process: the database file outlives it,    *)
(* the end of the hash chain (lasthash) and the auditing module's logical  *)
(* time do not.  logpoint_init runs its statements against whatever file   *)
(* it finds; statements that fail are only reported.                       *)
(*                                                                         *)
(* One thread logs (module Logpoint has the threads); trimming is off.  A  *)
(* statement outside a transaction, or a transaction with one insertion,   *)
(* is on disk as a whole or not at all when the process dies: SQLite       *)
(* promises that for the journal modes of the builds without SGX and of    *)
(* the asynchronous one, not for journal_mode = OFF of the other SGX build.*)
(***************************************************************************)
EXTENDS Integers, Sequences
S == INSTANCE SequencesExt

CONSTANTS
    Script,         \* the tables libseal_init_relations creates, in order
    thetables,      \* the tables of get_tables, in order
    Refs,           \* what distinguishes the rows of a pair
    MaxRuns,        \* bound: starts of the process
    MaxPairs        \* bound: pairs logged by each process

Tables == S!Range(Script)
Listed == S!Range(thetables)

ASSUME RestartAssumption ==
    /\ Script \in Seq(Tables) /\ Script # <<>>
    /\ thetables \in Seq(Listed) /\ thetables # <<>>
    /\ Listed \subseteq Tables
    /\ {MaxRuns, MaxPairs} \subseteq Nat

VARIABLES
    schema, hashed,     \* on disk: tables, and those with libseal_hash
    db,                 \* on disk: rows
    pc,                 \* where the process is, "down" if there is none
    i,                  \* the next element of Script or of thetables
    lasthash,           \* a hash is the sequence of tuples that went into it
    logictime,
    tuples,             \* tuples of the pair not inserted yet
    stmt,               \* the statement under way: a tuple with its hash
    run,                \* history: how many processes have been started
    scripted,           \* history: the first script came to its end
    chain,              \* history: lasthash of each run
    failed              \* history: rows whose insertion failed

disk    == <<schema, hashed, db>>
memory  == <<pc, i, lasthash, logictime, tuples, stmt>>
history == <<run, scripted, chain, failed>>
vars == <<disk, memory, history>>

None == <<>>

Init ==
    /\ schema = {} /\ hashed = {} /\ db = {}
    /\ pc = "down" /\ i = 0
    /\ lasthash = <<>> /\ logictime = 0 /\ tuples = {} /\ stmt = None
    /\ run = 0 /\ scripted = FALSE /\ chain = <<>> /\ failed = {}

-----------------------------------------------------------------------------
(* logpoint_init                                                           *)

(* A process starts: its static variables have their initial values, the   *)
(* file is opened and the symbols of the auditing module are loaded.       *)
Start ==
    /\ pc = "down"
    /\ run < MaxRuns
    /\ pc' = "create" /\ i' = 1
    /\ lasthash' = <<>> /\ logictime' = 1 /\ tuples' = {} /\ stmt' = None
    /\ run' = run + 1
    /\ chain' = Append(chain, <<>>)
    /\ UNCHANGED <<disk, scripted, failed>>

(* The process dies at any moment. *)
Crash ==
    /\ pc # "down"
    /\ pc' = "down"
    /\ UNCHANGED <<disk, i, lasthash, logictime, tuples, stmt, history>>

(* execute_stmt with the script of the auditing module: sqlite3_exec stops *)
(* at the first statement that fails, here because the table exists.       *)
CreateTable ==
    /\ pc = "create"
    /\ Script[i] \notin schema
    /\ schema' = schema \cup {Script[i]}
    /\ IF i < Len(Script)
       THEN i' = i + 1 /\ UNCHANGED <<pc, scripted>>
       ELSE i' = 1 /\ pc' = "alter" /\ scripted' = TRUE
    /\ UNCHANGED <<hashed, db, lasthash, logictime, tuples, stmt, run, chain,
                   failed>>

CreateFails ==
    /\ pc = "create"
    /\ Script[i] \in schema
    /\ pc' = "alter" /\ i' = 1
    /\ UNCHANGED <<disk, lasthash, logictime, tuples, stmt, history>>

(* add_hash_column, for every table of get_tables: the column is added     *)
(* unless there is no such table or it has the column.                     *)
AlterTable(afterError) ==
    /\ pc = "alter"
    /\ hashed' = hashed \cup ({thetables[i]} \cap schema)
    /\ IF i < Len(thetables) /\ (hashed' # hashed \/ afterError)
       THEN i' = i + 1 /\ UNCHANGED pc
       ELSE i' = 1 /\ pc' = "ready"
    /\ UNCHANGED <<schema, db, lasthash, logictime, tuples, stmt, history>>

AddHashStops == AlterTable(FALSE)       \* mutant: the first error ends it

AddHashColumn == AlterTable(TRUE)

-----------------------------------------------------------------------------
(* Logging                                                                 *)

(* process_log: a pair gets the next logical time and yields tuples.       *)
PairAt(next) ==
    /\ pc = "ready"
    /\ tuples = {}
    /\ logictime =< MaxPairs
    /\ logictime' = next
    /\ \E table \in Listed, R \in SUBSET Refs \ {{}} :
          tuples' = {[table |-> table, time |-> logictime, ref |-> r] : r \in R}
    /\ UNCHANGED <<disk, pc, i, lasthash, stmt, history>>

PairSameTime == PairAt(logictime)       \* mutant: no increment

ProcessPair == PairAt(logictime + 1)

Chain(tuple) ==
    /\ lasthash' = Append(lasthash, tuple)
    /\ chain' = [chain EXCEPT ![run] = lasthash']
    /\ tuples' = tuples \ {tuple}

(* mutant: the statement is dropped and its hash kept *)
CreateStatementAlone ==
    /\ pc = "ready"
    /\ \E tuple \in tuples : Chain(tuple)
    /\ UNCHANGED <<disk, pc, i, logictime, stmt, run, scripted, failed>>

(* create_insert_statement: the tuple is chained to lasthash.              *)
CreateStatement ==
    /\ pc = "ready"
    /\ \E tuple \in tuples :
          /\ Chain(tuple)
          /\ stmt' = [tuple |-> tuple, hash |-> lasthash']
    /\ pc' = "insert"
    /\ UNCHANGED <<disk, i, logictime, run, scripted, failed>>

(* The primary keys consist of the time and what tells the rows of a pair  *)
(* apart.                                                                  *)
SameKey(x, y) == x.tuple = y.tuple

(* mutant: tables without primary keys *)
AcceptsAnyKey(s) == s.tuple.table \in schema \cap hashed

(* The statement has a value for every column, and a key that is free.     *)
Accepts(s) ==
    /\ s.tuple.table \in schema \cap hashed
    /\ ~\E row \in db : SameKey(row, s)

(* execute_stmt_tx. *)
Insert ==
    /\ pc = "insert"
    /\ LET row == [run |-> run, tuple |-> stmt.tuple, hash |-> stmt.hash]
       IN  IF Accepts(stmt)
           THEN db' = db \cup {row} /\ UNCHANGED failed
           ELSE failed' = failed \cup {row} /\ UNCHANGED db
    /\ stmt' = None
    /\ pc' = "ready"
    /\ UNCHANGED <<schema, hashed, i, lasthash, logictime, tuples, run,
                   scripted, chain>>

-----------------------------------------------------------------------------
Next ==
    \/ Start \/ Crash
    \/ CreateTable \/ CreateFails \/ AddHashColumn
    \/ ProcessPair \/ CreateStatement \/ Insert

Spec == Init /\ [][Next]_vars

-----------------------------------------------------------------------------
(* PROPERTIES                                                              *)

Tuple == [table : Listed, time : 1..MaxPairs, ref : Refs]
Row == [run : 1..MaxRuns, tuple : Tuple, hash : Seq(Tuple)]

Initialised == pc \in {"ready", "insert"}

(* Every variable keeps its type; the time of tuples under way is not      *)
(* given to the next pair.                                                 *)
TypeOK ==
    /\ schema \subseteq Tables /\ hashed \subseteq Listed
    /\ db \subseteq Row /\ failed \subseteq Row
    /\ pc \in {"down", "create", "alter", "ready", "insert"}
    /\ i \in Nat
    /\ lasthash \in Seq(Tuple)
    /\ logictime \in 0..(MaxPairs + 1)
    /\ tuples \subseteq Tuple
    /\ Initialised => \A tuple \in tuples : tuple.time < logictime
    /\ stmt \in [tuple : Tuple, hash : Seq(Tuple)] \cup {None}
    /\ run \in 0..MaxRuns
    /\ scripted \in BOOLEAN
    /\ chain \in Seq(Seq(Tuple)) /\ Len(chain) = run

(* However often initialisation was interrupted, and wherever: when        *)
(* logpoint_init has returned no table of the auditing module that exists  *)
(* lacks the column libseal_hash, without which every insertion would fail.*)
HashColumnsComplete == Initialised => Listed \cap schema \subseteq hashed

(* Of what a process has chained only the last row may be missing on disk, *)
(* whenever it dies: every other row is stored or its insertion was seen   *)
(* to fail.                                                                *)
AtMostOneRowIsCutOff ==
    \A r \in DOMAIN chain : \A n \in 1..(Len(chain[r]) - 1) :
        \E row \in db \cup failed :
            row.run = r /\ row.hash = SubSeq(chain[r], 1, n)

(* Once the script was not interrupted, the only rows that are refused are *)
(* those whose key an earlier process has used: within a process times do  *)
(* not repeat.                                                             *)
RefusalsAreOfEarlierRuns ==
    scripted => \A f \in failed :
        \/ f.tuple.table \notin schema
        \/ \E row \in db : SameKey(row, f) /\ row.run < f.run

(* Though each process begins a new chain at the same empty hash, so that  *)
(* processes that log the same compute the same hashes, no two rows of the *)
(* database have the same hash: a hash identifies its row.                 *)
HashesIdentifyRows == \A x, y \in db : x.hash = y.hash => x = y

(* README.md:5-6: LibSEAL "constructs a secure log of requests and         *)
(* responses".  Then a row that is given to insert_statement is stored.    *)
EveryRowIsStored == failed = {}

(* Then, too, the tables that are written to exist.                        *)
TablesExist == Initialised => Listed \subseteq schema

=============================================================================
