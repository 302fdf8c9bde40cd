---------------------------- MODULE RestartProofs ----------------------------
(***************************************************************************)
(* Theorems about Restart, for all scripts, tables and rows and any number *)
(* of processes that die at any moment.                                    *)
(***************************************************************************)
EXTENDS Restart, SequenceTheorems, TLAPS

Running == pc # "down"

(* The lists of tables are sequences. *)
LEMMA TableLists ==
    /\ Len(Script) \in Nat \ {0} /\ \A n \in 1..Len(Script) : Script[n] \in Tables
    /\ Len(thetables) \in Nat \ {0}
    /\ \A n \in 1..Len(thetables) : thetables[n] \in Listed
    /\ \A t \in Tables : \E n \in 1..Len(Script) : t = Script[n]
    /\ \A t \in Listed : \E n \in 1..Len(thetables) : t = thetables[n]
    /\ Listed \subseteq Tables
  BY RestartAssumption, LenProperties, EmptySeq, ElementOfSeq
     DEF Tables, Listed, S!Range

(* What is appended to a hash does not change its beginnings. *)
LEMMA AppendPrefix ==
    ASSUME NEW T, NEW s \in Seq(T), NEW x \in T, NEW n \in 1..Len(s)
    PROVE  SubSeq(Append(s, x), 1, n) = SubSeq(s, 1, n)
<1>1. /\ SubSeq(s, 1, n) \in Seq(T) /\ Len(SubSeq(s, 1, n)) = n
      /\ \A k \in 1..n : SubSeq(s, 1, n)[k] = s[k]
  BY SubSeqProperties, LenProperties, ElementOfSeq
<1>2. \A k \in 1..n : Append(s, x)[k] = s[k] /\ s[k] \in T
  BY LenProperties, ElementOfSeq
<1>3. /\ SubSeq(Append(s, x), 1, n) \in Seq(T)
      /\ Len(SubSeq(Append(s, x), 1, n)) = n
      /\ \A k \in 1..n : SubSeq(Append(s, x), 1, n)[k] = Append(s, x)[k]
  BY <1>2, SubSeqProperties
<1> QED BY <1>1, <1>2, <1>3, SeqEqual
-----------------------------------------------------------------------------
(* TYPES                                                                   *)

(* What TypeOK does not say of the process that is running. *)
Process ==
    /\ Running => run > 0 /\ logictime > 0 /\ chain[run] = lasthash
    /\ pc \in {"create", "alter"} => tuples = {}
    /\ pc = "create" => i \in 1..Len(Script)
    /\ pc = "alter" => i \in 1..Len(thetables)
    /\ pc = "insert" => stmt \in [tuple : Tuple, hash : Seq(Tuple)]

TInv == TypeOK /\ Process

LEMMA Bounds == MaxRuns \in Nat /\ MaxPairs \in Nat
  BY RestartAssumption

LEMMA InitKeepsTypes == Init => TInv
<1> SUFFICES ASSUME Init PROVE TInv
  OBVIOUS
<1>1. <<>> \in Seq(Tuple) /\ <<>> \in Seq(Seq(Tuple)) /\ Len(<<>>) = 0
  BY EmptySeq
<1>2. scripted \in BOOLEAN
  BY Zenon DEF Init
<1>4. TypeOK
  BY <1>1, <1>2, Bounds DEF Init, TypeOK, Initialised, None
<1>3. Process
  BY DEF Init, Process, Running
<1> QED BY <1>3, <1>4 DEF TInv

LEMMA StepKeepsTypes ==
    ASSUME TInv, [Next]_vars
    PROVE  TInv'
<1> USE Bounds, TableLists DEF TInv, TypeOK, Process, Running, Initialised
<1>1. CASE Start
  <2>1. /\ run' = run + 1 /\ run' \in 0..MaxRuns
        /\ chain' = Append(chain, <<>>)
    BY <1>1 DEF Start
  <2>2. chain' \in Seq(Seq(Tuple)) /\ Len(chain') = run' /\ chain'[run'] = <<>>
    BY <2>1, EmptySeq
  <2> QED BY <1>1, <2>1, <2>2 DEF Start, disk, None
<1>2. CASE Crash
  BY <1>2 DEF Crash, disk, history
<1>3. CASE CreateTable
  <2>1. /\ pc = "create" /\ schema' = schema \cup {Script[i]}
        /\ UNCHANGED <<hashed, db, lasthash, logictime, tuples, stmt, run, chain,
                       failed>>
    BY <1>3 DEF CreateTable
  <2>2. schema' \subseteq Tables
    BY <2>1
  <2>3. \/ i' = i + 1 /\ i < Len(Script) /\ pc' = pc
        \/ i' = 1 /\ pc' = "alter"
    BY <1>3 DEF CreateTable
  <2>4. scripted' \in BOOLEAN
    BY <1>3, Zenon DEF CreateTable
  <2> QED BY <2>1, <2>2, <2>3, <2>4
<1>4. CASE CreateFails
  BY <1>4 DEF CreateFails, disk, history
<1>5. CASE AddHashColumn
  <2>1. /\ pc = "alter" /\ hashed' = hashed \cup ({thetables[i]} \cap schema)
        /\ UNCHANGED <<schema, db, lasthash, logictime, tuples, stmt, run,
                       chain, failed>>
    BY <1>5 DEF AddHashColumn, AlterTable, history
  <2>2. hashed' \subseteq Listed
    BY <2>1
  <2>3. \/ i' = i + 1 /\ i < Len(thetables) /\ pc' = pc
        \/ i' = 1 /\ pc' = "ready"
    BY <1>5 DEF AddHashColumn, AlterTable
  <2>4. scripted' \in BOOLEAN
    BY <1>5, Zenon DEF AddHashColumn, AlterTable, history
  <2> QED BY <2>1, <2>2, <2>3, <2>4
<1>6. CASE ProcessPair
  <2>1. PICK table \in Listed, R \in SUBSET Refs \ {{}} :
           tuples' = {[table |-> table, time |-> logictime, ref |-> r] : r \in R}
    BY <1>6 DEF ProcessPair, PairAt
  <2>2. logictime \in 1..MaxPairs /\ logictime' = logictime + 1
    BY <1>6 DEF ProcessPair, PairAt
  <2>3. tuples' \subseteq Tuple /\ \A tuple \in tuples' : tuple.time < logictime'
    BY <2>1, <2>2 DEF Tuple
  <2> QED BY <1>6, <2>2, <2>3 DEF ProcessPair, PairAt, disk, history
<1>7. CASE CreateStatement
  <2>1. PICK tuple \in tuples :
           /\ lasthash' = Append(lasthash, tuple)
           /\ chain' = [chain EXCEPT ![run] = lasthash']
           /\ tuples' = tuples \ {tuple}
           /\ stmt' = [tuple |-> tuple, hash |-> lasthash']
    BY <1>7 DEF CreateStatement, Chain
  <2>2. tuple \in Tuple /\ lasthash' \in Seq(Tuple) /\ run \in 1..Len(chain)
    BY <1>7, <2>1 DEF CreateStatement
  <2>3. /\ chain' \in Seq(Seq(Tuple)) /\ Len(chain') = Len(chain)
        /\ chain'[run] = lasthash'
    BY <2>1, <2>2, ExceptSeq
  <2> QED BY <1>7, <2>1, <2>2, <2>3 DEF CreateStatement, disk
<1>8. CASE Insert
  <2>1. [run |-> run, tuple |-> stmt.tuple, hash |-> stmt.hash] \in Row
    BY <1>8 DEF Insert, Row
  <2> QED BY <1>8, <2>1 DEF Insert
<1>9. CASE UNCHANGED vars
  BY <1>9 DEF vars, disk, memory, history
<1> QED BY <1>1, <1>2, <1>3, <1>4, <1>5, <1>6, <1>7, <1>8, <1>9 DEF Next

(* Every variable keeps its type over any number of runs.                  *)
THEOREM TypeCorrect == Spec => []TypeOK
<1>1. TInv => TypeOK
  BY DEF TInv
<1> QED BY <1>1, InitKeepsTypes, StepKeepsTypes, PTL DEF Spec
-----------------------------------------------------------------------------
(* THE COLUMNS.  While they are added, those of the tables before the i-th *)
(* are there.                                                              *)

ColumnInv ==
    /\ pc = "alter" =>
          \A n \in 1..(i - 1) : thetables[n] \in schema => thetables[n] \in hashed
    /\ HashColumnsComplete

LEMMA StepKeepsColumns ==
    ASSUME TInv, ColumnInv, [Next]_vars
    PROVE  ColumnInv'
<1> USE DEF ColumnInv, HashColumnsComplete, Initialised
<1>1. CASE Start \/ Crash \/ CreateTable \/ CreateFails
  BY <1>1 DEF Start, Crash, CreateTable, CreateFails
<1>2. CASE AddHashColumn
  <2>1. /\ pc = "alter" /\ schema' = schema
        /\ hashed' = hashed \cup ({thetables[i]} \cap schema)
        /\ i \in 1..Len(thetables) /\ Len(thetables) \in Nat
    BY <1>2, TableLists DEF AddHashColumn, AlterTable, TInv, Process
  <2>2. \A n \in 1..i : thetables[n] \in schema => thetables[n] \in hashed'
    BY <2>1
  <2>3. CASE pc' = "alter" /\ i' = i + 1
    BY <2>1, <2>2, <2>3
  <2>4. CASE pc' = "ready" /\ i = Len(thetables)
    BY <2>1, <2>2, <2>4, TableLists
  <2>5. i < Len(thetables) \/ i = Len(thetables)
    BY <2>1
  <2> QED BY <1>2, <2>1, <2>3, <2>4, <2>5 DEF AddHashColumn, AlterTable
<1>3. CASE ProcessPair \/ CreateStatement \/ Insert \/ UNCHANGED vars
  BY <1>3 DEF ProcessPair, PairAt, CreateStatement, Chain, Insert, vars, disk,
              memory
<1> QED BY <1>1, <1>2, <1>3 DEF Next

(* After logpoint_init no table that exists lacks its hash column, however *)
(* often and wherever earlier initialisations were interrupted.            *)
THEOREM HashColumnsAreComplete == Spec => []HashColumnsComplete
<1>1. Init => ColumnInv
  BY DEF Init, ColumnInv, HashColumnsComplete, Initialised
<1>2. ColumnInv => HashColumnsComplete
  BY DEF ColumnInv
<1> QED BY <1>1, <1>2, InitKeepsTypes, StepKeepsTypes, StepKeepsColumns, PTL
           DEF Spec
-----------------------------------------------------------------------------
(* THE KEYS.  A hash ends with the tuple of its row, and the keys keep the *)
(* tuples of rows apart.                                                   *)

EndsWith(hash, tuple) == Len(hash) > 0 /\ hash[Len(hash)] = tuple

HashInv ==
    /\ \A row \in db : EndsWith(row.hash, row.tuple)
    /\ pc = "insert" => EndsWith(stmt.hash, stmt.tuple)
    /\ \A x, y \in db : x.tuple = y.tuple => x = y

LEMMA StepKeepsHashes ==
    ASSUME TInv, HashInv, [Next]_vars
    PROVE  HashInv'
<1> USE DEF HashInv
<1>1. CASE CreateStatement
  <2>1. PICK tuple \in tuples :
           /\ lasthash' = Append(lasthash, tuple)
           /\ stmt' = [tuple |-> tuple, hash |-> lasthash']
           /\ db' = db
    BY <1>1 DEF CreateStatement, Chain, disk
  <2>2. lasthash \in Seq(Tuple)
    BY DEF TInv, TypeOK
  <2>3. EndsWith(Append(lasthash, tuple), tuple)
    BY <2>2 DEF EndsWith
  <2>4. stmt'.hash = Append(lasthash, tuple) /\ stmt'.tuple = tuple
    BY <2>1
  <2> QED BY <2>1, <2>3, <2>4
<1>2. CASE Insert
  <2> DEFINE new == [run |-> run, tuple |-> stmt.tuple, hash |-> stmt.hash]
  <2>1. pc = "insert" /\ pc' = "ready"
    BY <1>2 DEF Insert
  <2>2. db' = db \/ (db' = db \cup {new} /\ Accepts(stmt))
    BY <1>2 DEF Insert
  <2>3. EndsWith(new.hash, new.tuple)
    BY <2>1
  <2>4. Accepts(stmt) => \A row \in db : row.tuple # new.tuple
    BY DEF Accepts, SameKey
  <2> HIDE DEF new
  <2> QED BY <2>1, <2>2, <2>3, <2>4
<1>3. CASE Start \/ Crash \/ CreateTable \/ CreateFails \/ AddHashColumn
             \/ ProcessPair
  BY <1>3 DEF Start, Crash, CreateTable, CreateFails, AddHashColumn, AlterTable,
              ProcessPair, PairAt, disk
<1>4. CASE UNCHANGED vars
  BY <1>4 DEF vars, disk, memory
<1> QED BY <1>1, <1>2, <1>3, <1>4 DEF Next

(* A hash identifies its row in the database of all runs, although every   *)
(* run begins its chain at the same hash.                                  *)
THEOREM HashesAreUnique == Spec => []HashesIdentifyRows
<1>1. Init => HashInv
  BY DEF Init, HashInv
<1>2. HashInv => HashesIdentifyRows
  BY DEF HashInv, HashesIdentifyRows, EndsWith
<1> QED BY <1>1, <1>2, InitKeepsTypes, StepKeepsTypes, StepKeepsHashes, PTL
           DEF Spec
-----------------------------------------------------------------------------
(* THE END OF A RUN.  Between two statements everything chained is settled,*)
(* and the statement under way has the last hash.                          *)

Settled(r, hash) == \E row \in db \cup failed : row.run = r /\ row.hash = hash

CutInv ==
    /\ AtMostOneRowIsCutOff
    /\ pc \in {"create", "alter"} => lasthash = <<>>
    /\ pc = "ready" => lasthash = <<>> \/ Settled(run, lasthash)
    /\ pc = "insert" => stmt.hash = lasthash

LEMMA StepKeepsEnds ==
    ASSUME TInv, CutInv, [Next]_vars
    PROVE  CutInv'
<1> USE DEF CutInv
<1>1. /\ chain \in Seq(Seq(Tuple)) /\ Len(chain) = run /\ run \in Nat
      /\ lasthash \in Seq(Tuple) /\ tuples \subseteq Tuple
      /\ Running => run > 0 /\ chain[run] = lasthash
      /\ DOMAIN chain = 1..run
  BY Bounds DEF TInv, TypeOK, Process
<1>2. CASE Start
  <2>1. /\ chain' = Append(chain, <<>>) /\ db' = db /\ failed' = failed
        /\ pc' = "create" /\ lasthash' = <<>>
    BY <1>2 DEF Start, disk
  <2>2. /\ DOMAIN chain' = 1..(run + 1) /\ chain'[run + 1] = <<>>
        /\ \A r \in 1..run : chain'[r] = chain[r]
    BY <2>1, <1>1
  <2>3. ASSUME NEW r \in DOMAIN chain', NEW n \in 1..(Len(chain'[r]) - 1)
        PROVE  \E row \in db \cup failed :
                  row.run = r /\ row.hash = SubSeq(chain'[r], 1, n)
    <3>1. CASE r = run + 1
      BY <3>1, <2>2
    <3>2. CASE r # run + 1
      <4>1. r \in 1..run /\ chain'[r] = chain[r]
        BY <3>2, <2>2, <1>1
      <4>2. n \in 1..(Len(chain[r]) - 1)
        BY <4>1
      <4>3. \E row \in db \cup failed :
               row.run = r /\ row.hash = SubSeq(chain[r], 1, n)
        BY <4>1, <4>2, <1>1 DEF AtMostOneRowIsCutOff
      <4> QED BY <4>1, <4>3
    <3> QED BY <3>1, <3>2
  <2>4. AtMostOneRowIsCutOff'
    BY <2>1, <2>3 DEF AtMostOneRowIsCutOff
  <2> QED BY <2>1, <2>4
<1>3. CASE Crash \/ CreateTable \/ CreateFails \/ AddHashColumn \/ ProcessPair
  BY <1>3 DEF Crash, CreateTable, CreateFails, AddHashColumn, AlterTable,
              ProcessPair, PairAt, disk, history, AtMostOneRowIsCutOff, Settled
<1>4. CASE CreateStatement
  <2>1. PICK tuple \in tuples :
           /\ lasthash' = Append(lasthash, tuple)
           /\ chain' = [chain EXCEPT ![run] = lasthash']
           /\ stmt' = [tuple |-> tuple, hash |-> lasthash']
           /\ db' = db /\ failed' = failed
           /\ pc = "ready" /\ pc' = "insert"
    BY <1>4 DEF CreateStatement, Chain, disk
  <2>2. /\ DOMAIN chain' = 1..run /\ chain'[run] = Append(lasthash, tuple)
        /\ \A r \in 1..run : r # run => chain'[r] = chain[r]
    <3>1. lasthash' \in Seq(Tuple) /\ run \in 1..Len(chain)
      BY <2>1, <1>1 DEF Running
    <3> QED BY <3>1, <2>1, <1>1, ExceptSeq, LenProperties
  <2>3. ASSUME NEW n \in 1..Len(lasthash)
        PROVE  Settled(run, SubSeq(Append(lasthash, tuple), 1, n))
    <3>1. SubSeq(Append(lasthash, tuple), 1, n) = SubSeq(lasthash, 1, n)
      BY <1>1, AppendPrefix
    <3>2. CASE n = Len(lasthash)
      <4>1. lasthash # <<>> /\ SubSeq(lasthash, 1, n) = lasthash
        BY <3>2, <1>1, SubSeqFull
      <4> QED BY <4>1, <3>1, <2>1
    <3>3. CASE n # Len(lasthash)
      <4>1. n \in 1..(Len(lasthash) - 1)
        BY <3>3, <1>1
      <4>2. run \in 1..run /\ chain[run] = lasthash
        BY <2>1, <1>1 DEF Running
      <4>3. \E row \in db \cup failed :
               row.run = run /\ row.hash = SubSeq(chain[run], 1, n)
        BY <4>1, <4>2, <1>1 DEF AtMostOneRowIsCutOff
      <4> QED BY <4>2, <4>3, <3>1 DEF Settled
    <3> QED BY <3>2, <3>3
  <2>4. Len(Append(lasthash, tuple)) - 1 = Len(lasthash)
    BY <1>1, <2>1
  <2>5. AtMostOneRowIsCutOff'
    <3> SUFFICES ASSUME NEW r \in 1..run, NEW n \in 1..(Len(chain'[r]) - 1)
                 PROVE  \E row \in db \cup failed :
                           row.run = r /\ row.hash = SubSeq(chain'[r], 1, n)
      <4>1. DOMAIN chain' = 1..run /\ db' = db /\ failed' = failed
        BY <2>1, <2>2
      <4> QED BY <4>1 DEF AtMostOneRowIsCutOff
    <3>1. CASE r = run
      BY <3>1, <2>2, <2>3, <2>4 DEF Settled
    <3>2. CASE r # run
      <4>1. chain'[r] = chain[r]
        BY <3>2, <2>2
      <4>2. n \in 1..(Len(chain[r]) - 1)
        BY <4>1
      <4>3. \E row \in db \cup failed :
               row.run = r /\ row.hash = SubSeq(chain[r], 1, n)
        BY <4>2, <1>1 DEF AtMostOneRowIsCutOff
      <4> QED BY <4>1, <4>3
    <3> QED BY <3>1, <3>2
  <2>6. stmt'.hash = lasthash'
    BY <2>1
  <2> QED BY <2>1, <2>5, <2>6
<1>5. CASE Insert
  <2> DEFINE new == [run |-> run, tuple |-> stmt.tuple, hash |-> stmt.hash]
  <2>1. /\ pc = "insert" /\ pc' = "ready" /\ new.hash = lasthash /\ new.run = run
        /\ UNCHANGED <<chain, run, lasthash>>
    BY <1>5 DEF Insert
  <2>2. (db \cup failed)' = db \cup failed \cup {new}
    BY <1>5 DEF Insert
  <2> HIDE DEF new
  <2>3. Settled(run, lasthash)'
    BY <2>1, <2>2 DEF Settled
  <2>4. AtMostOneRowIsCutOff'
    BY <2>1, <2>2 DEF AtMostOneRowIsCutOff
  <2> QED BY <2>1, <2>3, <2>4
<1>6. CASE UNCHANGED vars
  BY <1>6 DEF vars, disk, memory, history, AtMostOneRowIsCutOff, Settled
<1> QED BY <1>2, <1>3, <1>4, <1>5, <1>6 DEF Next

(* Whenever processes die, at most the last row each has chained is        *)
(* missing from the disk without anybody having been told.                 *)
THEOREM OneRowIsCutOff == Spec => []AtMostOneRowIsCutOff
<1>1. Init => CutInv
  BY DEF Init, CutInv, AtMostOneRowIsCutOff
<1>2. CutInv => AtMostOneRowIsCutOff
  BY DEF CutInv
<1> QED BY <1>1, <1>2, InitKeepsTypes, StepKeepsTypes, StepKeepsEnds, PTL
           DEF Spec
-----------------------------------------------------------------------------
(* REFUSALS.  A process uses no time twice, so that the keys of its rows   *)
(* are its own; and once the script has come to its end, there is no       *)
(* reason but the key to refuse a row.                                     *)

FreshInv ==
    /\ \A row \in db : row.run =< run
    /\ pc \in {"create", "alter"} => \A row \in db : row.run < run
    /\ Initialised => \A row \in db : row.run = run =>
          row.tuple.time < logictime /\ row.tuple \notin tuples
    /\ pc = "insert" =>
          /\ stmt.tuple \notin tuples /\ stmt.tuple.time < logictime
          /\ \A row \in db : row.run = run => row.tuple # stmt.tuple

LEMMA StepKeepsFresh ==
    ASSUME TInv, FreshInv, [Next]_vars
    PROVE  FreshInv'
<1> USE DEF FreshInv, Initialised
<1>1. /\ run \in Nat /\ logictime \in Nat
      /\ \A row \in db : row.run \in Nat
      /\ pc \in {"create", "alter"} => tuples = {}
      /\ Initialised => \A tuple \in tuples : tuple.time < logictime
  BY Bounds DEF TInv, TypeOK, Process, Row
<1>2. CASE Start
  BY <1>1, <1>2 DEF Start, disk
<1>3. CASE Crash \/ CreateTable \/ CreateFails
  BY <1>3 DEF Crash, CreateTable, CreateFails, disk, history
<1>4. CASE AddHashColumn
  BY <1>1, <1>4 DEF AddHashColumn, AlterTable, history
<1>5. CASE ProcessPair
  <2>1. /\ pc = "ready" /\ pc' = "ready" /\ logictime' = logictime + 1
        /\ db' = db /\ run' = run
        /\ \A tuple \in tuples' : tuple.time = logictime
    BY <1>5 DEF ProcessPair, PairAt, disk, history
  <2>2. \A row \in db : row.run = run =>
            row.tuple.time \in Int /\ row.tuple.time < logictime
    BY <2>1 DEF TInv, TypeOK, Row, Tuple
  <2> QED BY <1>1, <2>1, <2>2
<1>6. CASE CreateStatement
  BY <1>1, <1>6 DEF CreateStatement, Chain, disk
<1>7. CASE Insert
  <2> DEFINE new == [run |-> run, tuple |-> stmt.tuple, hash |-> stmt.hash]
  <2>1. /\ pc = "insert" /\ pc' = "ready"
        /\ UNCHANGED <<run, tuples, logictime>>
        /\ db' = db \/ db' = db \cup {new}
    BY <1>7 DEF Insert
  <2>2. new.run = run /\ new.tuple = stmt.tuple
    OBVIOUS
  <2> HIDE DEF new
  <2> QED BY <1>1, <2>1, <2>2
<1>8. CASE UNCHANGED vars
  BY <1>8 DEF vars, disk, memory, history
<1> QED BY <1>2, <1>3, <1>4, <1>5, <1>6, <1>7, <1>8 DEF Next

(* Until the script has come to its end there is no row that has failed    *)
(* while it is still executed.                                             *)
ScriptInv ==
    /\ pc = "create" =>
          \A n \in 1..(i - 1) : Script[n] \in schema /\ failed = {}
    /\ pc \in {"alter", "ready", "insert"} \/ failed # {} =>
          Script[1] \in schema
    /\ scripted => Tables \subseteq schema
    /\ RefusalsAreOfEarlierRuns

LEMMA StepKeepsScript ==
    ASSUME TInv, ColumnInv, FreshInv, ScriptInv, [Next]_vars
    PROVE  ScriptInv'
<1> USE DEF ScriptInv
<1>1. CASE Start \/ Crash \/ AddHashColumn \/ ProcessPair \/ CreateStatement
  BY <1>1 DEF Start, Crash, AddHashColumn, AlterTable, ProcessPair, PairAt,
              CreateStatement, Chain, disk, history, RefusalsAreOfEarlierRuns
<1>2. CASE CreateTable
  <2>1. /\ pc = "create" /\ Script[i] \notin schema
        /\ schema' = schema \cup {Script[i]}
        /\ UNCHANGED <<db, failed>>
        /\ i \in 1..Len(Script) /\ Len(Script) \in Nat
    BY <1>2, TableLists DEF CreateTable, TInv, Process
  <2>2. \A n \in 1..i : Script[n] \in schema'
    BY <2>1
  <2>3. failed = {}
    <3>1. CASE i = 1
      BY <3>1, <2>1
    <3>2. CASE i # 1
      <4>1. 1 \in 1..(i - 1)
        BY <3>2, <2>1
      <4> QED BY <4>1, <2>1
    <3> QED BY <3>1, <3>2
  <2>4. RefusalsAreOfEarlierRuns'
    BY <2>1, <2>3 DEF RefusalsAreOfEarlierRuns
  <2>5. CASE i < Len(Script)
    <3>1. pc' = "create" /\ i' = i + 1 /\ scripted' = scripted
      BY <1>2, <2>1, <2>5 DEF CreateTable
    <3> QED BY <3>1, <2>1, <2>2, <2>3, <2>4
  <2>6. CASE ~(i < Len(Script))
    <3>1. i = Len(Script) /\ pc' = "alter"
      BY <1>2, <2>1, <2>6 DEF CreateTable
    <3>2. Tables \subseteq schema'
      BY <3>1, <2>2, TableLists
    <3>3. Script[1] \in schema'
      BY <2>1, <2>2
    <3> QED BY <3>1, <3>2, <3>3, <2>1, <2>3, <2>4
  <2> QED BY <2>5, <2>6
<1>3. CASE CreateFails
  <2>1. /\ pc = "create" /\ Script[i] \in schema /\ pc' = "alter"
        /\ UNCHANGED <<schema, db, failed, scripted>>
        /\ i \in 1..Len(Script)
    BY <1>3 DEF CreateFails, disk, history, TInv, Process
  <2>2. Script[1] \in schema
    <3>1. CASE i = 1
      BY <3>1, <2>1
    <3>2. CASE i # 1
      <4>1. 1 \in 1..(i - 1)
        BY <3>2, <2>1, TableLists
      <4> QED BY <4>1, <2>1
    <3> QED BY <3>1, <3>2
  <2> QED BY <2>1, <2>2 DEF RefusalsAreOfEarlierRuns
<1>4. CASE Insert
  <2> DEFINE new == [run |-> run, tuple |-> stmt.tuple, hash |-> stmt.hash]
  <2>1. /\ pc = "insert" /\ pc' = "ready"
        /\ UNCHANGED <<schema, scripted>>
        /\ \/ failed' = failed /\ db \subseteq db'
           \/ failed' = failed \cup {new} /\ db' = db /\ ~Accepts(stmt)
    BY <1>4 DEF Insert
  <2>2. new.run = run /\ new.tuple = stmt.tuple
    OBVIOUS
  <2> HIDE DEF new
  <2>3. ASSUME scripted, ~Accepts(stmt)
        PROVE  \E row \in db : SameKey(row, new) /\ row.run < new.run
    <3>1. stmt.tuple.table \in Listed
      BY <2>1 DEF TInv, Process, Tuple
    <3>2. stmt.tuple.table \in schema \cap hashed
      BY <3>1, <2>1, <2>3, TableLists
         DEF ColumnInv, HashColumnsComplete, Initialised
    <3>3. PICK row \in db : row.tuple = stmt.tuple
      BY <3>2, <2>3 DEF Accepts, SameKey
    <3>4. row.run # run /\ row.run =< run /\ row.run \in Nat /\ run \in Nat
      BY <3>3, <2>1, Bounds DEF FreshInv, TInv, TypeOK, Row
    <3>5. row.run < run
      BY <3>4
    <3> QED BY <3>3, <3>5, <2>2 DEF SameKey
  <2>4. RefusalsAreOfEarlierRuns'
    BY <2>1, <2>3 DEF RefusalsAreOfEarlierRuns
  <2> QED BY <2>1, <2>4
<1>5. CASE UNCHANGED vars
  BY <1>5 DEF vars, disk, memory, history, RefusalsAreOfEarlierRuns
<1> QED BY <1>1, <1>2, <1>3, <1>4, <1>5 DEF Next

(* Once the first initialisation was not interrupted, the only rows the    *)
(* database refuses are those whose key an earlier process has used.       *)
THEOREM OnlyOldKeysAreRefused == Spec => []RefusalsAreOfEarlierRuns
<1>1. Init => ColumnInv /\ FreshInv /\ ScriptInv
  BY DEF Init, ColumnInv, HashColumnsComplete, FreshInv, Initialised, ScriptInv,
         RefusalsAreOfEarlierRuns
<1>2. ScriptInv => RefusalsAreOfEarlierRuns
  BY DEF ScriptInv
<1> QED BY <1>1, <1>2, InitKeepsTypes, StepKeepsTypes, StepKeepsColumns,
           StepKeepsFresh, StepKeepsScript, PTL DEF Spec
=============================================================================
