---------------------------- MODULE DropboxProofs ----------------------------
(***************************************************************************)
(* Theorems about DropboxAuditor, for all sets of threads, clients, paths  *)
(* and contents and every interleaving of the threads.                     *)
(***************************************************************************)
EXTENDS DropboxAuditor, WellFoundedInduction, TLAPS

-----------------------------------------------------------------------------
(* THE INVARIANT.  A thread reads the counter long after it incremented it.*)
(* What it reads is later than all times of the pairs that were logged     *)
(* before its own: those were written when the increment was still to come *)
(* (CounterIsAhead), and a pair that has been logged gets no more times    *)
(* (OneThreadEach, StampsHaveOwners).                                      *)

Labels == {"idle", "add", "format", "insert"}
Busy(t) == pc[t] # "idle"
Numbered(t) == pc[t] \in {"format", "insert"}

Types ==
    /\ monotonic_counter \in Nat
    /\ pc \in [Threads -> Labels]
    /\ pair = [t \in Threads |-> pair[t]]

(* No time is later than the counter. *)
TimesArePast ==
    \A x \in stamps : x[2] \in Nat /\ x[2] =< monotonic_counter

(* What precedes a pair has been logged. *)
EarlierIsDone == \A e \in earlier : e[1] \in done

(* A pair is logged by one thread, once. *)
OneThreadEach ==
    /\ \A t \in Threads : Busy(t) => pair[t] \notin done
    /\ \A t, u \in Threads :
          Busy(t) /\ Busy(u) /\ pair[t] = pair[u] => t = u

(* Rows exist of pairs that have been, or are being, logged. *)
StampsHaveOwners ==
    \A x \in stamps :
        x[1] \in done \/ \E t \in Threads : Numbered(t) /\ pair[t] = x[1]

(* A thread that has incremented the counter finds it beyond all times of  *)
(* the pairs before its own. *)
CounterIsAhead ==
    \A t \in Threads : Numbered(t) =>
        \A x \in stamps :
            <<x[1], pair[t]>> \in earlier => x[2] < monotonic_counter

IInv ==
    /\ Types
    /\ TimesArePast
    /\ EarlierIsDone
    /\ OneThreadEach
    /\ StampsHaveOwners
    /\ CounterIsAhead
    /\ LaterPairsLaterTimes

-----------------------------------------------------------------------------
(* Init establishes the invariant: nothing has been logged.                *)
LEMMA InitKeeps == Init => IInv
  BY DEF Init, IInv, Types, Labels, TimesArePast, EarlierIsDone,
         OneThreadEach, Busy, StampsHaveOwners, CounterIsAhead, Numbered,
         LaterPairsLaterTimes

(* ProcessLog puts the pair behind all that were logged; it has no rows.   *)
LEMMA ProcessLogKeeps ==
    ASSUME IInv, NEW t \in Threads, ProcessLog(t)
    PROVE  IInv'
<1> USE DEF IInv
<1>1. PICK n \in DOMAIN wire \ (done \cup Logging) :
          /\ pc[t] = "idle"
          /\ pair' = [pair EXCEPT ![t] = n]
          /\ earlier' = earlier \cup (done \X {n})
          /\ \/ done' = done \cup {n} /\ pc' = pc
             \/ pc' = [pc EXCEPT ![t] = "add"] /\ done' = done
          /\ monotonic_counter' = monotonic_counter /\ stamps' = stamps
  BY DEF ProcessLog, Goto
<1>2. n \notin done /\ \A u \in Threads : Busy(u) => pair[u] # n
  BY DEF Logging, Busy
<1>3. pair'[t] = n /\ \A u \in Threads : u # t => pair'[u] = pair[u]
  BY <1>1 DEF Types
<1>4. /\ pc'[t] \in {"idle", "add"}
      /\ \A u \in Threads : u # t => pc'[u] = pc[u]
  BY <1>1 DEF Types
<1>5. \A x \in stamps : x[1] # n
  BY <1>2 DEF StampsHaveOwners, Numbered, Busy
<1>6. Types'
  BY <1>1 DEF Types, Labels
<1>7. TimesArePast'
  BY <1>1 DEF TimesArePast
<1>8. EarlierIsDone'
  BY <1>1 DEF EarlierIsDone
<1>9. OneThreadEach'
  BY <1>1, <1>2, <1>3, <1>4 DEF OneThreadEach, Busy
<1>10. StampsHaveOwners'
  BY <1>1, <1>3, <1>4 DEF StampsHaveOwners, Numbered
<1>11. \A x \in stamps, u \in Threads :
           u # t /\ Numbered(u) /\ <<x[1], pair[u]>> \in earlier'
               => <<x[1], pair[u]>> \in earlier
  BY <1>1, <1>2 DEF Numbered, Busy
<1>12. CounterIsAhead'
  BY <1>1, <1>3, <1>4, <1>11 DEF CounterIsAhead, Numbered
<1>13. \A x, y \in stamps :
           <<x[1], y[1]>> \in earlier' => <<x[1], y[1]>> \in earlier
  BY <1>1, <1>5
<1>14. LaterPairsLaterTimes'
  BY <1>1, <1>13 DEF LaterPairsLaterTimes
<1> QED BY <1>6, <1>7, <1>8, <1>9, <1>10, <1>12, <1>14

(* FetchAdd puts the counter beyond all times there are.                   *)
LEMMA FetchAddKeeps ==
    ASSUME IInv, NEW t \in Threads, FetchAdd(t)
    PROVE  IInv'
<1> USE DEF IInv
<1>1. /\ pc[t] = "add" /\ pc' = [pc EXCEPT ![t] = "format"]
      /\ monotonic_counter' = monotonic_counter + 1
      /\ UNCHANGED <<pair, done, earlier, stamps>>
  BY DEF FetchAdd, Add, Goto, history
<1>2. pc'[t] = "format" /\ \A u \in Threads : u # t => pc'[u] = pc[u]
  BY <1>1 DEF Types
<1>3. \A x \in stamps :
          x[2] \in Nat /\ x[2] < monotonic_counter' /\ x[2] =< monotonic_counter'
  BY <1>1 DEF Types, TimesArePast
<1>4. Types'
  BY <1>1 DEF Types, Labels
<1>5. TimesArePast' /\ EarlierIsDone' /\ LaterPairsLaterTimes'
  BY <1>1, <1>3 DEF TimesArePast, EarlierIsDone, LaterPairsLaterTimes
<1>6. OneThreadEach'
  BY <1>1, <1>2 DEF OneThreadEach, Busy
<1>7. StampsHaveOwners'
  BY <1>1, <1>2 DEF StampsHaveOwners, Numbered
<1>8. CounterIsAhead'
  BY <1>1, <1>3 DEF CounterIsAhead
<1> QED BY <1>4, <1>5, <1>6, <1>7, <1>8

(* Format gives a row the time the counter has now: no pair follows the    *)
(* one being logged, and the counter is ahead of those that precede it.    *)
LEMMA FormatKeeps ==
    ASSUME IInv, NEW t \in Threads, Format(t)
    PROVE  IInv'
<1> USE DEF IInv
<1> DEFINE new == <<pair[t], monotonic_counter>>
<1>1. /\ pc[t] = "format" /\ pc' = [pc EXCEPT ![t] = "insert"]
      /\ stamps' = stamps \cup {new}
      /\ UNCHANGED <<pair, done, earlier, monotonic_counter>>
  BY DEF Format, FormatAt, Goto
<1>2. pc'[t] = "insert" /\ \A u \in Threads : u # t => pc'[u] = pc[u]
  BY <1>1 DEF Types
<1>3. new[1] = pair[t] /\ new[2] = monotonic_counter
  OBVIOUS
<1>4. pair[t] \notin done
  BY <1>1 DEF OneThreadEach, Busy
<1>5. \A m : <<pair[t], m>> \notin earlier
  <2>1. SUFFICES ASSUME NEW m, <<pair[t], m>> \in earlier PROVE FALSE
    OBVIOUS
  <2>2. <<pair[t], m>>[1] \in done
    BY <2>1 DEF EarlierIsDone
  <2> QED BY <2>2, <1>4
<1>6. Numbered(t)
  BY <1>1 DEF Numbered
<1> HIDE DEF new
<1>7. Types'
  BY <1>1 DEF Types, Labels
<1>8. TimesArePast'
  BY <1>1, <1>3 DEF TimesArePast, Types
<1>9. EarlierIsDone'
  BY <1>1 DEF EarlierIsDone
<1>10. OneThreadEach'
  BY <1>1, <1>2 DEF OneThreadEach, Busy
<1>11. StampsHaveOwners'
  BY <1>1, <1>2, <1>3 DEF StampsHaveOwners, Numbered
<1>12. CounterIsAhead'
  BY <1>1, <1>2, <1>3, <1>5 DEF CounterIsAhead, Numbered
<1>13. LaterPairsLaterTimes'
  BY <1>1, <1>3, <1>5, <1>6 DEF LaterPairsLaterTimes, CounterIsAhead
<1> QED BY <1>7, <1>8, <1>9, <1>10, <1>11, <1>12, <1>13

(* Insert lets the pair be done after its last row.                        *)
LEMMA InsertKeeps ==
    ASSUME IInv, NEW t \in Threads, Insert(t)
    PROVE  IInv'
<1> USE DEF IInv
<1>1. /\ pc[t] = "insert"
      /\ (/\ pc' = [pc EXCEPT ![t] = "idle"]
          /\ done' = done \cup {pair[t]})
         \/ (pc' = [pc EXCEPT ![t] = "format"] /\ done' = done)
      /\ UNCHANGED <<pair, earlier, stamps, monotonic_counter>>
  BY DEF Insert, Goto
<1>2. /\ \/ (pc'[t] = "idle" /\ pair[t] \in done')
         \/ (pc'[t] = "format" /\ done' = done)
      /\ \A u \in Threads : u # t => pc'[u] = pc[u]
      /\ done \subseteq done'
  BY <1>1 DEF Types
<1>3. Types' /\ TimesArePast' /\ EarlierIsDone' /\ LaterPairsLaterTimes'
  BY <1>1 DEF Types, Labels, TimesArePast, EarlierIsDone, LaterPairsLaterTimes
<1>4. OneThreadEach'
  <2>1. \A u \in Threads : Busy(u) /\ u # t => pair[u] # pair[t]
    BY <1>1 DEF OneThreadEach, Busy
  <2>2. \A u \in Threads : Busy(u)' => Busy(u)
    BY <1>1, <1>2 DEF Busy
  <2>3. ASSUME NEW u \in Threads, Busy(u)' PROVE pair[u] \notin done'
    <3>1. CASE u = t
      BY <1>1, <1>2, <2>2, <2>3, <3>1 DEF OneThreadEach, Busy
    <3>2. CASE u # t
      BY <1>1, <2>1, <2>2, <2>3, <3>2 DEF OneThreadEach
    <3> QED BY <3>1, <3>2
  <2> QED BY <1>1, <2>2, <2>3 DEF OneThreadEach, Busy
<1>5. StampsHaveOwners'
  BY <1>1, <1>2 DEF StampsHaveOwners, Numbered
<1>6. CounterIsAhead'
  BY <1>1, <1>2 DEF CounterIsAhead, Numbered
<1> QED BY <1>3, <1>4, <1>5, <1>6

(* The server's steps and stuttering change nothing the invariant is about.*)
LEMMA UnchangedKeeps ==
    ASSUME IInv, UNCHANGED <<monotonic_counter, pc, pair, done, earlier, stamps>>
    PROVE  IInv'
  BY DEF IInv, Types, TimesArePast, EarlierIsDone, OneThreadEach, Busy,
         StampsHaveOwners, CounterIsAhead, Numbered, LaterPairsLaterTimes

LEMMA StepKeeps == IInv /\ [Next]_vars => IInv'
<1> SUFFICES ASSUME IInv, [Next]_vars PROVE IInv'
  OBVIOUS
<1>1. CASE Commit
  BY <1>1, UnchangedKeeps DEF Commit, Exchange, history
<1>2. CASE List
  BY <1>2, UnchangedKeeps DEF List, Exchange, history
<1>3. ASSUME NEW t \in Threads, Thread(t) PROVE IInv'
  BY <1>3, ProcessLogKeeps, FetchAddKeeps, FormatKeeps, InsertKeeps DEF Thread
<1>4. CASE UNCHANGED vars
  BY <1>4, UnchangedKeeps DEF vars, history
<1> QED BY <1>1, <1>2, <1>3, <1>4 DEF Next

(* The times of the Dropbox log respect the order in which pairs were      *)
(* logged, whatever threads do between a pair's increment of the counter   *)
(* and the rows that read it (dropbox/main.cpp:328-332).                   *)
THEOREM LaterPairsHaveLaterTimes == Spec => []LaterPairsLaterTimes
<1>1. IInv => LaterPairsLaterTimes
  BY DEF IInv
<1> QED BY <1>1, InitKeeps, StepKeeps, PTL DEF Spec

-----------------------------------------------------------------------------
(* THE ROWS.  Every row tells of an exchange of its table's kind (RowsTell)*)
(* and everything that is said in an exchange is in a row when it has been *)
(* logged (NothingIsLost): where a primary key refuses a row, the row that *)
(* is in its way has the same time, host and path.                         *)

Claims == UNION {[P -> Contents] : P \in SUBSET Paths}
CommitExchange == [what : {"commit_batch"}, host : Hosts, items : Claims,
                   long : BOOLEAN]
ListExchange == [what : {"list"}, host : Hosts, items : Claims,
                 honest : BOOLEAN]

HostOf(t) == wire[pair[t]].host

WireType ==
    /\ wire \in Seq(CommitExchange \cup ListExchange)
    /\ done \subseteq DOMAIN wire
    /\ \A t \in Threads : Busy(t) => pair[t] \in DOMAIN wire
    /\ stamps \subseteq (DOMAIN wire) \X Nat
    /\ statements = [t \in Threads |-> statements[t]]
    /\ result = [t \in Threads |-> result[t]]

StatementsAreOfPair ==
    \A t \in Threads :
        Busy(t) => statements[t] \subseteq Statements(wire[pair[t]])

SizeOf(n, p) == IF wire[n].items[p] = Deleted THEN -1 ELSE 1

(* Row r says something that was said in exchange n. *)
Tells(n, r) ==
    /\ r.host = wire[n].host
    /\ r.path \in DOMAIN wire[n].items
    /\ r.size = SizeOf(n, r.path)

ResultTells ==
    \A t \in Threads : pc[t] = "insert" =>
        /\ <<pair[t], result[t].time>> \in stamps
        /\ Tells(pair[t], result[t])

TellOf(table, what) ==
    \A r \in table : \E x \in stamps :
        x[2] = r.time /\ wire[x[1]].what = what /\ Tells(x[1], r)

RowsTell == TellOf(list, "list") /\ TellOf(commit_batch, "commit_batch")

Table(n) == IF wire[n].what = "list" THEN list ELSE commit_batch

HasRow(n, p) ==
    \E r \in Table(n) :
        r.host = wire[n].host /\ r.path = p /\ <<n, r.time>> \in stamps

NothingIsLost ==
    /\ \A n \in done : \A s \in Statements(wire[n]) : HasRow(n, s.path)
    /\ \A t \in Threads : Busy(t) => \A s \in Statements(wire[pair[t]]) :
          \/ s \in statements[t]
          \/ pc[t] = "insert" /\ result[t].path = s.path
          \/ HasRow(pair[t], s.path)

RowInv ==
    /\ WireType
    /\ StatementsAreOfPair
    /\ ResultTells
    /\ RowsTell
    /\ NothingIsLost

LEMMA InitKeepsRows == Init => RowInv
<1> SUFFICES ASSUME Init PROVE RowInv
  OBVIOUS
<1>1. WireType
  BY DEF Init, WireType, Busy
<1>2. StatementsAreOfPair /\ ResultTells /\ NothingIsLost
  BY DEF Init, StatementsAreOfPair, ResultTells, NothingIsLost, Busy
<1>3. RowsTell
  BY DEF Init, RowsTell, TellOf
<1> QED BY <1>1, <1>2, <1>3 DEF RowInv

(* What a statement of an exchange is about, was said in it.               *)
LEMMA StatementsTell ==
    ASSUME WireType, NEW n \in DOMAIN wire, NEW s \in Statements(wire[n])
    PROVE  s.path \in DOMAIN wire[n].items /\ s.size = SizeOf(n, s.path)
  BY DEF Statements, ParseList, ParseCommitBatch, Items, SizeOf

(* And what was said has a statement, except in a batch too long.          *)
LEMMA SaidIsStated ==
    ASSUME WireType, NEW n \in DOMAIN wire, NEW p \in DOMAIN wire[n].items,
           wire[n].what = "list" \/ ~wire[n].long
    PROVE  \E s \in Statements(wire[n]) : s.path = p
<1> DEFINE s == [path |-> p, size |-> SizeOf(n, p),
                 blocklist |-> wire[n].items[p]]
<1>1. s \in Items(wire[n].items) /\ s.path = p
  BY DEF Items, SizeOf
<1> HIDE DEF s
<1> QED BY <1>1 DEF Statements, ParseList, ParseCommitBatch

(* Rows are only added, and so are stamps.                                 *)
LEMMA RowsRemain ==
    ASSUME WireType, wire' = wire, list \subseteq list',
           commit_batch \subseteq commit_batch', stamps \subseteq stamps'
    PROVE  \A n, p : HasRow(n, p) => HasRow(n, p)'
  BY DEF HasRow, Table

LEMMA ProcessLogKeepsRows ==
    ASSUME IInv, RowInv, NEW t \in Threads, ProcessLog(t)
    PROVE  RowInv'
<1>1. PICK n \in DOMAIN wire \ (done \cup Logging) :
          /\ pc[t] = "idle"
          /\ pair' = [pair EXCEPT ![t] = n]
          /\ statements' = [statements EXCEPT ![t] = Statements(wire[n])]
          /\ \/ /\ done' = done \cup {n} /\ pc' = pc
                /\ Statements(wire[n]) = {}
             \/ pc' = [pc EXCEPT ![t] = "add"] /\ done' = done
          /\ UNCHANGED <<wire, list, commit_batch, result, stamps>>
  BY DEF ProcessLog, Goto, server, tables
<1>2. pair'[t] = n /\ \A u \in Threads : u # t => pair'[u] = pair[u]
  BY <1>1 DEF IInv, Types
<1>3. /\ pc'[t] \in {"idle", "add"}
      /\ \A u \in Threads : u # t => pc'[u] = pc[u]
  BY <1>1 DEF IInv, Types
<1>4. statements'[t] = Statements(wire[n])
      /\ \A u \in Threads : u # t => statements'[u] = statements[u]
  BY <1>1 DEF RowInv, WireType
<1>5. WireType'
  BY <1>1, <1>2, <1>3 DEF RowInv, WireType, Busy
<1>6. StatementsAreOfPair'
  BY <1>1, <1>2, <1>3, <1>4 DEF RowInv, StatementsAreOfPair, Busy
<1>7. ResultTells'
  BY <1>1, <1>2, <1>3 DEF RowInv, ResultTells, Tells, SizeOf
<1>8. RowsTell'
  BY <1>1 DEF RowInv, RowsTell, TellOf, Tells, SizeOf
<1>9. \A m, p : HasRow(m, p) => HasRow(m, p)'
  BY <1>1, RowsRemain DEF RowInv
<1>10. NothingIsLost'
  <2>1. ASSUME NEW m \in done', NEW s \in Statements(wire[m])
        PROVE  HasRow(m, s.path)'
    <3>1. m \in done
      BY <1>1, <2>1
    <3> QED BY <3>1, <1>9 DEF RowInv, NothingIsLost
  <2>2. ASSUME NEW u \in Threads, Busy(u)', NEW s \in Statements(wire[pair'[u]])
        PROVE  \/ s \in statements'[u]
               \/ pc'[u] = "insert" /\ result'[u].path = s.path
               \/ HasRow(pair[u], s.path)'
    <3>1. CASE u = t
      BY <3>1, <2>2, <1>2, <1>4
    <3>2. CASE u # t
      <4>1. /\ Busy(u) /\ pc'[u] = pc[u] /\ pair'[u] = pair[u]
            /\ statements'[u] = statements[u] /\ result' = result
        BY <3>2, <2>2, <1>1, <1>2, <1>3, <1>4 DEF Busy
      <4>2. \/ s \in statements[u]
            \/ pc[u] = "insert" /\ result[u].path = s.path
            \/ HasRow(pair[u], s.path)
        BY <4>1, <2>2 DEF RowInv, NothingIsLost
      <4> QED BY <4>1, <4>2, <1>1 DEF HasRow, Table
    <3> QED BY <3>1, <3>2
  <2> QED BY <2>1, <2>2, <1>1 DEF NothingIsLost
<1> QED BY <1>5, <1>6, <1>7, <1>8, <1>10 DEF RowInv

LEMMA FetchAddKeepsRows ==
    ASSUME IInv, RowInv, NEW t \in Threads, FetchAdd(t)
    PROVE  RowInv'
<1>1. /\ pc[t] = "add" /\ pc' = [pc EXCEPT ![t] = "format"]
      /\ UNCHANGED <<wire, list, commit_batch, pair, statements, result, done,
                     stamps>>
  BY DEF FetchAdd, Add, Goto, history, server, tables
<1>2. pc'[t] = "format" /\ \A u \in Threads : u # t => pc'[u] = pc[u]
  BY <1>1 DEF IInv, Types
<1>3. \A u \in Threads : Busy(u)' <=> Busy(u)
  BY <1>1, <1>2 DEF Busy
<1>4. WireType' /\ StatementsAreOfPair'
  BY <1>1, <1>3 DEF RowInv, WireType, StatementsAreOfPair
<1>5. ResultTells'
  BY <1>1, <1>2 DEF RowInv, ResultTells, Tells, SizeOf
<1>6. RowsTell'
  BY <1>1 DEF RowInv, RowsTell, TellOf, Tells, SizeOf
<1>7. \A u \in Threads : pc[u] = "insert" => pc'[u] = "insert"
  BY <1>1, <1>2
<1>8. NothingIsLost'
  <2>1. \A n, p : HasRow(n, p)' <=> HasRow(n, p)
    BY <1>1 DEF HasRow, Table
  <2>2. ASSUME NEW n \in done', NEW s \in Statements(wire'[n])
        PROVE  HasRow(n, s.path)'
    BY <1>1, <2>1, <2>2 DEF RowInv, NothingIsLost
  <2>3. ASSUME NEW u \in Threads, Busy(u)', NEW s \in Statements(wire'[pair'[u]])
        PROVE  \/ s \in statements'[u]
               \/ pc'[u] = "insert" /\ result'[u].path = s.path
               \/ HasRow(pair[u], s.path)'
    <3>1. \/ s \in statements[u]
          \/ pc[u] = "insert" /\ result[u].path = s.path
          \/ HasRow(pair[u], s.path)
      BY <1>1, <1>3, <2>3 DEF RowInv, NothingIsLost
    <3> QED BY <1>1, <1>7, <2>1, <3>1
  <2> QED BY <1>1, <2>2, <2>3 DEF NothingIsLost
<1> QED BY <1>4, <1>5, <1>6, <1>8 DEF RowInv

LEMMA FormatKeepsRows ==
    ASSUME IInv, RowInv, NEW t \in Threads, Format(t)
    PROVE  RowInv'
<1> DEFINE new == <<pair[t], monotonic_counter>>
<1>1. PICK s \in statements[t] :
          /\ pc[t] = "format" /\ pc' = [pc EXCEPT ![t] = "insert"]
          /\ statements' = [statements EXCEPT ![t] = @ \ {s}]
          /\ result' = [result EXCEPT ![t] =
                 [time |-> monotonic_counter, host |-> HostOf(t),
                  path |-> s.path, size |-> s.size, blocklist |-> s.blocklist]]
          /\ stamps' = stamps \cup {new}
          /\ UNCHANGED <<wire, list, commit_batch, pair, done>>
  BY DEF Format, FormatAt, Goto, server, tables, HostOf
<1>2. pc'[t] = "insert" /\ \A u \in Threads : u # t => pc'[u] = pc[u]
  BY <1>1 DEF IInv, Types
<1>3. \A u \in Threads : Busy(u)' <=> Busy(u)
  BY <1>1, <1>2 DEF Busy
<1>4. /\ statements'[t] = statements[t] \ {s}
      /\ \A u \in Threads : u # t => statements'[u] = statements[u]
  BY <1>1 DEF RowInv, WireType
<1>5. /\ result'[t].time = monotonic_counter /\ result'[t].host = HostOf(t)
      /\ result'[t].path = s.path /\ result'[t].size = s.size
      /\ \A u \in Threads : u # t => result'[u] = result[u]
  BY <1>1 DEF RowInv, WireType
<1>6. Busy(t) /\ monotonic_counter \in Nat /\ pair[t] \in DOMAIN wire
  BY <1>1 DEF Busy, IInv, Types, RowInv, WireType
<1>7. WireType'
  <2>1. new \in (DOMAIN wire) \X Nat
    BY <1>6
  <2>2. stamps' \subseteq (DOMAIN wire) \X Nat
    BY <2>1, <1>1 DEF RowInv, WireType
  <2>3. /\ statements' = [u \in Threads |-> statements'[u]]
        /\ result' = [u \in Threads |-> result'[u]]
    BY <1>1 DEF RowInv, WireType
  <2> QED BY <2>2, <2>3, <1>1, <1>3 DEF RowInv, WireType
<1>8. StatementsAreOfPair'
  BY <1>1, <1>3, <1>4 DEF RowInv, StatementsAreOfPair
<1>9. ResultTells'
  <2>1. s \in Statements(wire[pair[t]])
    BY <1>1, <1>6 DEF RowInv, StatementsAreOfPair
  <2>2. s.path \in DOMAIN wire[pair[t]].items /\ s.size = SizeOf(pair[t], s.path)
    BY <2>1, <1>6, StatementsTell DEF RowInv
  <2>3. <<pair'[t], result'[t].time>> \in stamps' /\ Tells(pair[t], result'[t])
    BY <2>2, <1>1, <1>5 DEF Tells, HostOf
  <2>4. ASSUME NEW u \in Threads, u # t, pc'[u] = "insert"
        PROVE  /\ <<pair'[u], result'[u].time>> \in stamps'
               /\ Tells(pair[u], result'[u])
    BY <2>4, <1>1, <1>2, <1>5 DEF RowInv, ResultTells
  <2> QED BY <2>3, <2>4, <1>1 DEF ResultTells, Tells, SizeOf
<1>10. RowsTell'
  BY <1>1 DEF RowInv, RowsTell, TellOf, Tells, SizeOf
<1>11. \A m, p : HasRow(m, p) => HasRow(m, p)'
  BY <1>1, RowsRemain DEF RowInv
<1>12. NothingIsLost'
  <2>1. ASSUME NEW u \in Threads, Busy(u), NEW i \in Statements(wire[pair[u]])
        PROVE  \/ i \in statements'[u]
               \/ pc'[u] = "insert" /\ result'[u].path = i.path
               \/ HasRow(pair[u], i.path)
    <3>1. \/ i \in statements[u]
          \/ pc[u] = "insert" /\ result[u].path = i.path
          \/ HasRow(pair[u], i.path)
      BY <2>1 DEF RowInv, NothingIsLost
    <3> QED BY <3>1, <1>1, <1>2, <1>4, <1>5
  <2>2. \A m \in done : \A i \in Statements(wire[m]) : HasRow(m, i.path)'
    BY <1>11 DEF RowInv, NothingIsLost
  <2>3. ASSUME NEW u \in Threads, Busy(u)', NEW i \in Statements(wire'[pair'[u]])
        PROVE  \/ i \in statements'[u]
               \/ pc'[u] = "insert" /\ result'[u].path = i.path
               \/ HasRow(pair[u], i.path)'
    <3>1. Busy(u) /\ pair' = pair /\ i \in Statements(wire[pair[u]])
      <4>1. wire' = wire /\ pair' = pair
        BY <1>1
      <4> QED BY <1>3, <2>3, <4>1
    <3>2. \/ i \in statements'[u]
          \/ pc'[u] = "insert" /\ result'[u].path = i.path
          \/ HasRow(pair[u], i.path)
      BY <2>1, <3>1
    <3>3. HasRow(pair[u], i.path) => HasRow(pair[u], i.path)'
      <4>1. PICK m : m = pair[u]
        OBVIOUS
      <4>2. HasRow(m, i.path) => HasRow(m, i.path)'
        BY <1>11
      <4> QED BY <3>1, <4>1, <4>2 DEF HasRow, Table
    <3> QED BY <3>2, <3>3
  <2>4. pair' = pair /\ done' = done /\ wire' = wire
    BY <1>1
  <2> QED BY <2>2, <2>3, <2>4 DEF NothingIsLost
<1> QED BY <1>7, <1>8, <1>9, <1>10, <1>12 DEF RowInv

LEMMA InsertKeepsRows ==
    ASSUME IInv, RowInv, NEW t \in Threads, Insert(t)
    PROVE  RowInv'
<1>0. PICK n, row : n = pair[t] /\ row = result[t]
  OBVIOUS
<1>1. /\ pc[t] = "insert" /\ Busy(t) /\ n \in DOMAIN wire
      /\ <<n, row.time>> \in stamps /\ Tells(n, row)
  BY <1>0 DEF Insert, Busy, RowInv, ResultTells, WireType
<1>2. /\ \/ list' = list \cup {row} /\ wire[n].what = "list"
         \/ list' = list
      /\ \/ /\ commit_batch' = commit_batch \cup {row}
            /\ wire[n].what = "commit_batch"
         \/ commit_batch' = commit_batch
      /\ \E r \in Table(n)' : SameKey(row, r)
  <2>1. wire[n].what \in {"list", "commit_batch"}
    BY <1>1 DEF RowInv, WireType, CommitExchange, ListExchange
  <2>2. SameKey(row, row)
    BY DEF SameKey
  <2>3. CASE wire[n].what = "list"
    <3>1. /\ commit_batch' = commit_batch /\ wire' = wire
          /\ list' = IF Refused(row, list) THEN list ELSE list \cup {row}
      BY <2>3, <1>0 DEF Insert, server
    <3> QED BY <2>2, <2>3, <3>1 DEF Table, Refused
  <2>4. CASE wire[n].what # "list"
    <3>1. /\ list' = list /\ wire' = wire
          /\ commit_batch' = IF Refused(row, commit_batch) THEN commit_batch
                             ELSE commit_batch \cup {row}
      BY <2>4, <1>0 DEF Insert, server
    <3> QED BY <2>1, <2>2, <2>4, <3>1 DEF Table, Refused
  <2> QED BY <2>3, <2>4
<1>3. /\ result' = [result EXCEPT ![t] = None]
      /\ (/\ pc' = [pc EXCEPT ![t] = "idle"] /\ done' = done \cup {n}
          /\ statements[t] = {})
         \/ (pc' = [pc EXCEPT ![t] = "format"] /\ done' = done)
      /\ UNCHANGED <<wire, pair, statements, stamps>>
  BY <1>0 DEF Insert, Goto, server
<1>4. /\ \/ /\ pc'[t] = "idle" /\ done' = done \cup {n} /\ statements[t] = {}
         \/ pc'[t] = "format" /\ done' = done
      /\ \A u \in Threads : u # t => pc'[u] = pc[u] /\ result'[u] = result[u]
  BY <1>3 DEF IInv, Types, RowInv, WireType
<1>5. \A u \in Threads : Busy(u)' => Busy(u)
  BY <1>1, <1>4 DEF Busy
<1>6. WireType'
  BY <1>1, <1>3, <1>5 DEF RowInv, WireType
<1>7. StatementsAreOfPair'
  BY <1>3, <1>5 DEF RowInv, StatementsAreOfPair
<1>8. ResultTells'
  BY <1>3, <1>4 DEF RowInv, ResultTells, Tells, SizeOf
<1>9. RowsTell'
  <2>1. \E x \in stamps : x[2] = row.time /\ wire[x[1]].what = wire[n].what
                          /\ Tells(x[1], row)
    <3>1. <<n, row.time>>[1] = n /\ <<n, row.time>>[2] = row.time
      OBVIOUS
    <3> QED BY <1>1, <3>1
  <2>2. \A r \in list' : \E x \in stamps :
            x[2] = r.time /\ wire[x[1]].what = "list" /\ Tells(x[1], r)
    BY <2>1, <1>2 DEF RowInv, RowsTell, TellOf
  <2>3. \A r \in commit_batch' : \E x \in stamps :
            x[2] = r.time /\ wire[x[1]].what = "commit_batch" /\ Tells(x[1], r)
    BY <2>1, <1>2 DEF RowInv, RowsTell, TellOf
  <2> QED BY <2>2, <2>3, <1>3 DEF RowsTell, TellOf, Tells, SizeOf
<1>10. \A m, p : HasRow(m, p) => HasRow(m, p)'
  BY <1>2, <1>3, RowsRemain DEF RowInv
<1>11. HasRow(n, row.path)'
  <2>1. PICK r \in Table(n)' : SameKey(row, r)
    BY <1>2
  <2>2. r.host = wire[n].host /\ r.path = row.path /\ <<n, r.time>> \in stamps
    BY <2>1, <1>1 DEF SameKey, Tells
  <2> QED BY <2>2, <1>3 DEF HasRow, Table
<1>12. ASSUME NEW u \in Threads, Busy(u), NEW s \in Statements(wire[pair[u]])
       PROVE  \/ s \in statements[u]
              \/ u # t /\ pc'[u] = "insert" /\ result'[u].path = s.path
              \/ HasRow(pair[u], s.path)'
  <2>1. \/ s \in statements[u]
        \/ pc[u] = "insert" /\ result[u].path = s.path
        \/ HasRow(pair[u], s.path)
    BY <1>12 DEF RowInv, NothingIsLost
  <2>2. CASE HasRow(pair[u], s.path)
    BY <2>2, <1>2, <1>3 DEF HasRow, Table
  <2>3. CASE u = t /\ result[u].path = s.path
    BY <2>3, <1>0, <1>11, <1>3 DEF HasRow, Table
  <2> QED BY <2>1, <2>2, <2>3, <1>4
<1>13. NothingIsLost'
  <2>1. ASSUME NEW m \in done', NEW s \in Statements(wire[m])
        PROVE  HasRow(m, s.path)'
    <3>1. CASE m \in done
      BY <3>1, <1>10 DEF RowInv, NothingIsLost
    <3>2. CASE m \notin done
      <4>1. m = n /\ statements[t] = {}
        BY <3>2, <1>4
      <4> QED BY <4>1, <1>0, <1>1, <1>3, <1>12
    <3> QED BY <3>1, <3>2
  <2>2. ASSUME NEW u \in Threads, Busy(u)', NEW s \in Statements(wire[pair[u]])
        PROVE  \/ s \in statements'[u]
               \/ pc'[u] = "insert" /\ result'[u].path = s.path
               \/ HasRow(pair[u], s.path)'
    BY <2>2, <1>3, <1>5, <1>12
  <2> QED BY <2>1, <2>2, <1>3 DEF NothingIsLost
<1> QED BY <1>6, <1>7, <1>8, <1>9, <1>13 DEF RowInv

(* The server and its clients only add to the history.                     *)
LEMMA ExchangeKeepsRows ==
    ASSUME RowInv, NEW x \in CommitExchange \cup ListExchange, Exchange(x)
    PROVE  RowInv'
<1>1. /\ wire' = Append(wire, x)
      /\ UNCHANGED <<list, commit_batch, pc, pair, statements, result, done,
                     stamps>>
  BY DEF Exchange, tables, history
<1>2. /\ wire' \in Seq(CommitExchange \cup ListExchange)
      /\ DOMAIN wire \subseteq DOMAIN wire'
      /\ \A n \in DOMAIN wire : wire'[n] = wire[n]
  BY <1>1 DEF RowInv, WireType
<1>3. /\ \A t \in Threads : Busy(t)' <=> Busy(t)
      /\ \A t \in Threads : Busy(t) => pair[t] \in DOMAIN wire
      /\ \A y \in stamps : y[1] \in DOMAIN wire
  BY <1>1 DEF Busy, RowInv, WireType
<1>4. WireType'
  BY <1>1, <1>2, <1>3 DEF RowInv, WireType
<1>5. StatementsAreOfPair'
  BY <1>1, <1>2, <1>3 DEF RowInv, StatementsAreOfPair
<1>6. \A n \in DOMAIN wire : \A r : Tells(n, r) => Tells(n, r)'
  BY <1>2 DEF Tells, SizeOf
<1>7. ResultTells'
  BY <1>1, <1>2, <1>3, <1>6 DEF RowInv, ResultTells, Busy
<1>8. RowsTell'
  BY <1>1, <1>2, <1>3, <1>6 DEF RowInv, RowsTell, TellOf
<1>9. NothingIsLost'
  <2>1. \A n \in DOMAIN wire : \A p : HasRow(n, p) => HasRow(n, p)'
    BY <1>1, <1>2 DEF HasRow, Table
  <2> QED BY <2>1, <1>1, <1>2, <1>3 DEF RowInv, WireType, NothingIsLost
<1> QED BY <1>4, <1>5, <1>7, <1>8, <1>9 DEF RowInv

(* What a step of the server puts on the wire.                             *)
LEMMA ServerExchanges ==
    ASSUME Commit \/ List
    PROVE  \E x \in CommitExchange \cup ListExchange : Exchange(x)
<1>1. CASE Commit
  <2>1. PICK h \in Hosts, P \in SUBSET Paths :
            \E new \in [P -> Contents] : \E long \in {FALSE, TooLong} :
               Exchange([what |-> "commit_batch", host |-> h, items |-> new,
                         long |-> long])
    BY <1>1 DEF Commit
  <2>2. PICK new \in [P -> Contents] : \E long \in {FALSE, TooLong} :
            Exchange([what |-> "commit_batch", host |-> h, items |-> new,
                      long |-> long])
    BY <2>1
  <2>3. PICK long \in {FALSE, TooLong} :
            Exchange([what |-> "commit_batch", host |-> h, items |-> new,
                      long |-> long])
    BY <2>2
  <2>4. [what |-> "commit_batch", host |-> h, items |-> new, long |-> long]
            \in CommitExchange
    BY DropboxAssumption DEF CommitExchange, Claims
  <2> QED BY <2>3, <2>4
<1>2. CASE List
  <2>1. PICK h \in Hosts, P \in SUBSET Paths :
            \E claim \in [P -> Contents] : \E honest \in BOOLEAN :
               Exchange([what |-> "list", host |-> h, items |-> claim,
                         honest |-> honest])
    BY <1>2 DEF List
  <2>2. PICK claim \in [P -> Contents] : \E honest \in BOOLEAN :
            Exchange([what |-> "list", host |-> h, items |-> claim,
                      honest |-> honest])
    BY <2>1
  <2>3. PICK honest \in BOOLEAN :
            Exchange([what |-> "list", host |-> h, items |-> claim,
                      honest |-> honest])
    BY <2>2
  <2>4. [what |-> "list", host |-> h, items |-> claim, honest |-> honest]
            \in ListExchange
    BY DEF ListExchange, Claims
  <2> QED BY <2>3, <2>4
<1> QED BY <1>1, <1>2

LEMMA StepKeepsRows ==
    ASSUME IInv, RowInv, [Next]_vars
    PROVE  RowInv'
<1>1. CASE Commit \/ List
  BY <1>1, ServerExchanges, ExchangeKeepsRows
<1>2. ASSUME NEW t \in Threads, Thread(t) PROVE RowInv'
  BY <1>2, ProcessLogKeepsRows, FetchAddKeepsRows, FormatKeepsRows,
     InsertKeepsRows DEF Thread
<1>3. CASE UNCHANGED vars
  <2>1. UNCHANGED <<wire, list, commit_batch, pc, pair, statements, result,
                    done, stamps>>
    BY <1>3 DEF vars, server, tables, history
  <2>2. WireType' /\ StatementsAreOfPair'
    BY <2>1 DEF RowInv, WireType, StatementsAreOfPair, Busy
  <2>3. ResultTells' /\ RowsTell'
    BY <2>1 DEF RowInv, ResultTells, RowsTell, TellOf, Tells, SizeOf
  <2>4. \A n, p : HasRow(n, p) => HasRow(n, p)'
    BY <2>1, RowsRemain DEF RowInv
  <2>5. NothingIsLost'
    BY <2>1, <2>4 DEF RowInv, NothingIsLost, Busy
  <2> QED BY <2>2, <2>3, <2>5 DEF RowInv
<1> QED BY <1>1, <1>2, <1>3 DEF Next

-----------------------------------------------------------------------------
(* THE KEYS.  Rows of two pairs may have one time; they have different     *)
(* hosts then, as long as a client's pairs are logged one at a time.  Rows *)
(* of one pair differ in their paths.                                      *)

Rows == list \cup commit_batch

(* No two pairs of one client are in the hands of threads. *)
OneHostEach ==
    \A t, u \in Threads : Busy(t) /\ Busy(u) /\ HostOf(t) = HostOf(u) => t = u

(* What has been logged of a client precedes the pair being logged of it. *)
DoneIsEarlier ==
    \A t \in Threads, m \in done :
        Busy(t) /\ wire[m].host = HostOf(t) => <<m, pair[t]>> \in earlier

(* The paths of a pair's statements differ from that of the row in hand.   *)
ResultIsNew ==
    \A t \in Threads : pc[t] = "insert" =>
        \A s \in statements[t] : s.path # result[t].path

(* The rows of the pair being logged have other paths than those to come. *)
Own(t) == {r \in Rows : r.host = HostOf(t) /\ <<pair[t], r.time>> \in stamps}

PathsAreNew ==
    \A t \in Threads : Busy(t) => \A r \in Own(t) :
        /\ \A s \in statements[t] : s.path # r.path
        /\ pc[t] = "insert" => result[t].path # r.path

KeyInv ==
    /\ OneHostEach
    /\ DoneIsEarlier
    /\ ResultIsNew
    /\ PathsAreNew
    /\ refused = {}

LEMMA InitKeepsKeys == Init => KeyInv
<1> SUFFICES ASSUME Init PROVE KeyInv
  OBVIOUS
<1>1. OneHostEach /\ DoneIsEarlier /\ ResultIsNew /\ PathsAreNew
  BY DEF Init, OneHostEach, DoneIsEarlier, ResultIsNew, PathsAreNew, Busy
<1> QED BY <1>1 DEF Init, KeyInv

(* A row has the host of a pair with its time.                             *)
LEMMA RowsHaveStamps ==
    ASSUME RowInv, NEW r \in Rows
    PROVE  \E x \in stamps : x[2] = r.time /\ wire[x[1]].host = r.host
  BY DEF RowInv, RowsTell, TellOf, Tells, Rows

(* The statements of a pair are about one path each.                       *)
LEMMA OnePathEach ==
    ASSUME RowInv, NEW t \in Threads, Busy(t),
           NEW s \in statements[t], NEW u \in statements[t], s.path = u.path
    PROVE  s = u
<1>1. s \in Statements(wire[pair[t]]) /\ u \in Statements(wire[pair[t]])
  BY DEF RowInv, StatementsAreOfPair
<1> QED BY <1>1 DEF Statements, ParseList, ParseCommitBatch, Items

(* The rows of a pair's own client that have the time its next row gets    *)
(* are its own: other pairs of the client have been logged, or are to be.  *)
LEMMA SameTimeSamePair ==
    ASSUME IInv, RowInv, KeyInv, NEW t \in Threads, Numbered(t), NEW r \in Rows,
           r.host = HostOf(t), r.time = monotonic_counter
    PROVE  <<pair[t], r.time>> \in stamps
<1>1. PICK x \in stamps : x[2] = r.time /\ wire[x[1]].host = r.host
  BY RowsHaveStamps
<1>2. x = <<x[1], x[2]>> /\ x[2] \in Nat
  BY DEF RowInv, WireType
<1>3. CASE x[1] \in done
  <2>1. <<x[1], pair[t]>> \in earlier
    BY <1>1, <1>3 DEF KeyInv, DoneIsEarlier, Numbered, Busy
  <2>2. x[2] < monotonic_counter
    BY <2>1 DEF IInv, CounterIsAhead
  <2> QED BY <2>2, <1>1, <1>2
<1>4. CASE x[1] \notin done
  <2>1. PICK u \in Threads : Numbered(u) /\ pair[u] = x[1]
    BY <1>4 DEF IInv, StampsHaveOwners
  <2>2. u = t
    BY <2>1, <1>1 DEF KeyInv, OneHostEach, HostOf, Numbered, Busy
  <2> QED BY <2>1, <2>2, <1>1, <1>2
<1> QED BY <1>3, <1>4

LEMMA ProcessLogKeepsKeys ==
    ASSUME OneConnection, IInv, RowInv, KeyInv, NEW t \in Threads, ProcessLog(t)
    PROVE  KeyInv'
<1>1. PICK n \in DOMAIN wire \ (done \cup Logging) :
          /\ pc[t] = "idle"
          /\ \A m \in Logging : wire[m].host # wire[n].host
          /\ pair' = [pair EXCEPT ![t] = n]
          /\ statements' = [statements EXCEPT ![t] = Statements(wire[n])]
          /\ earlier' = earlier \cup (done \X {n})
          /\ \/ done' = done \cup {n} /\ pc' = pc
             \/ pc' = [pc EXCEPT ![t] = "add"] /\ done' = done
          /\ UNCHANGED <<wire, monotonic_counter, list, commit_batch, refused,
                         result, stamps>>
  BY DEF ProcessLog, Goto, server, tables
<1>2. n \notin done /\ \A u \in Threads : Busy(u) => pair[u] # n
  BY <1>1 DEF Logging, Busy
<1>3. pair'[t] = n /\ \A u \in Threads : u # t => pair'[u] = pair[u]
  BY <1>1 DEF IInv, Types
<1>4. /\ pc'[t] \in {"idle", "add"}
      /\ \A u \in Threads : u # t => pc'[u] = pc[u]
      /\ Busy(t)' => done' = done
  BY <1>1 DEF IInv, Types, Busy
<1>5. \A u \in Threads : Busy(u) => HostOf(u) # wire[n].host
  BY <1>1 DEF Logging, Busy, HostOf
<1>6. statements'[t] = Statements(wire[n])
      /\ \A u \in Threads : u # t => statements'[u] = statements[u]
  BY <1>1 DEF RowInv, WireType
<1>7. HostOf(t)' = wire[n].host /\ \A u \in Threads : u # t => HostOf(u)' = HostOf(u)
  BY <1>1, <1>3 DEF HostOf
<1>8. \A x \in stamps : x[1] # n
  BY <1>2 DEF IInv, StampsHaveOwners, Numbered, Busy
<1>10. OneHostEach'
  BY <1>4, <1>5, <1>7 DEF KeyInv, OneHostEach, Busy
<1>11. DoneIsEarlier'
  <2> SUFFICES ASSUME NEW u \in Threads, NEW m \in done', Busy(u)',
                      wire[m].host = HostOf(u)'
               PROVE  <<m, pair'[u]>> \in earlier'
    BY <1>1 DEF DoneIsEarlier
  <2>1. CASE u = t
    BY <2>1, <1>1, <1>3, <1>4
  <2>2. CASE u # t
    <3>1. Busy(u) /\ HostOf(u)' = HostOf(u) /\ pair'[u] = pair[u]
      BY <2>2, <1>3, <1>4, <1>7 DEF Busy
    <3>2. m # n
      BY <3>1, <1>5
    <3>3. m \in done
      BY <3>2, <1>1
    <3> QED BY <3>1, <3>3, <1>1 DEF KeyInv, DoneIsEarlier
  <2> QED BY <2>1, <2>2
<1>13. ResultIsNew'
  BY <1>1, <1>3, <1>4, <1>6 DEF KeyInv, ResultIsNew
<1>15. PathsAreNew'
  <2> SUFFICES ASSUME NEW u \in Threads, Busy(u)'
               PROVE  \A r \in Own(u)' :
                         /\ \A s \in statements'[u] : s.path # r.path
                         /\ pc'[u] = "insert" => result'[u].path # r.path
    BY DEF PathsAreNew
  <2>1. CASE u = t
    <3>1. \A r \in Rows : <<pair'[t], r.time>> \notin stamps'
      BY <1>1, <1>3, <1>8
    <3> QED BY <2>1, <3>1, <1>1 DEF Own, Rows
  <2>2. CASE u # t
    <3>1. Own(u)' = Own(u)
      BY <2>2, <1>1, <1>3, <1>7 DEF Own, Rows
    <3>2. Busy(u) /\ statements'[u] = statements[u] /\ pc'[u] = pc[u]
          /\ result' = result
      BY <2>2, <1>1, <1>4, <1>6 DEF Busy
    <3> QED BY <3>1, <3>2 DEF KeyInv, PathsAreNew
  <2> QED BY <2>1, <2>2
<1>16. refused' = {}
  BY <1>1 DEF KeyInv
<1> QED BY <1>10, <1>11, <1>13, <1>15, <1>16 DEF KeyInv

LEMMA FetchAddKeepsKeys ==
    ASSUME IInv, RowInv, KeyInv, NEW t \in Threads, FetchAdd(t)
    PROVE  KeyInv'
<1>1. /\ pc[t] = "add" /\ pc' = [pc EXCEPT ![t] = "format"]
      /\ UNCHANGED <<wire, list, commit_batch, refused, pair, statements,
                     result, done, earlier, stamps>>
  BY DEF FetchAdd, Add, Goto, history, server, tables
<1>2. pc'[t] = "format" /\ \A u \in Threads : u # t => pc'[u] = pc[u]
  BY <1>1 DEF IInv, Types
<1>3. \A u \in Threads : Busy(u)' <=> Busy(u)
  BY <1>1, <1>2 DEF Busy
<1>4. OneHostEach' /\ DoneIsEarlier' /\ refused' = {}
  BY <1>1, <1>3 DEF KeyInv, OneHostEach, DoneIsEarlier, HostOf
<1>6. ResultIsNew'
  BY <1>1, <1>2 DEF KeyInv, ResultIsNew
<1>7. PathsAreNew'
  BY <1>1, <1>2, <1>3 DEF KeyInv, PathsAreNew, Own, Rows, HostOf
<1> QED BY <1>4, <1>6, <1>7 DEF KeyInv

LEMMA FormatKeepsKeys ==
    ASSUME IInv, RowInv, KeyInv, NEW t \in Threads, Format(t)
    PROVE  KeyInv'
<1> DEFINE new == <<pair[t], monotonic_counter>>
<1>1. PICK s \in statements[t] :
          /\ pc[t] = "format" /\ pc' = [pc EXCEPT ![t] = "insert"]
          /\ statements' = [statements EXCEPT ![t] = @ \ {s}]
          /\ result' = [result EXCEPT ![t] =
                 [time |-> monotonic_counter, host |-> HostOf(t),
                  path |-> s.path, size |-> s.size, blocklist |-> s.blocklist]]
          /\ stamps' = stamps \cup {new}
          /\ UNCHANGED <<wire, list, commit_batch, refused, pair, done, earlier>>
  BY DEF Format, FormatAt, Goto, server, tables, HostOf
<1>2. pc'[t] = "insert" /\ \A u \in Threads : u # t => pc'[u] = pc[u]
  BY <1>1 DEF IInv, Types
<1>3. \A u \in Threads : Busy(u)' <=> Busy(u)
  BY <1>1, <1>2 DEF Busy
<1>4. /\ statements'[t] = statements[t] \ {s}
      /\ \A u \in Threads : u # t => statements'[u] = statements[u]
  BY <1>1 DEF RowInv, WireType
<1>5. /\ result'[t].time = monotonic_counter /\ result'[t].host = HostOf(t)
      /\ result'[t].path = s.path
      /\ \A u \in Threads : u # t => result'[u] = result[u]
  BY <1>1 DEF RowInv, WireType
<1>6. Numbered(t) /\ Busy(t) /\ monotonic_counter \in Nat
      /\ pair[t] \in DOMAIN wire
  BY <1>1 DEF Numbered, Busy, IInv, Types, RowInv, WireType
<1>8. OneHostEach' /\ DoneIsEarlier' /\ refused' = {}
  BY <1>1, <1>3 DEF KeyInv, OneHostEach, DoneIsEarlier, HostOf
<1>10. ResultIsNew'
  <2>1. \A u \in statements'[t] : u.path # s.path
    BY <1>4, <1>6, OnePathEach
  <2> QED BY <2>1, <1>1, <1>2, <1>4, <1>5 DEF KeyInv, ResultIsNew
<1>12. PathsAreNew'
  <2> SUFFICES ASSUME NEW u \in Threads, Busy(u), NEW r \in Own(u)'
               PROVE  /\ \A i \in statements'[u] : i.path # r.path
                      /\ pc'[u] = "insert" => result'[u].path # r.path
    BY <1>3 DEF PathsAreNew
  <2>1. r \in Rows /\ r.host = HostOf(u) /\ <<pair[u], r.time>> \in stamps'
    BY <1>1 DEF Own, Rows, HostOf
  <2>2. CASE u = t
    <3>1. <<pair[t], r.time>> \in stamps
      BY <2>1, <2>2, <1>1, <1>6, SameTimeSamePair
    <3>2. \A i \in statements[t] : i.path # r.path
      BY <3>1, <2>1, <2>2, <1>6 DEF KeyInv, PathsAreNew, Own
    <3> QED BY <3>2, <2>2, <1>1, <1>4, <1>5
  <2>3. CASE u # t
    <3>1. pair[u] # pair[t]
      BY <2>3, <1>6 DEF IInv, OneThreadEach
    <3>2. r \in Own(u)
      BY <3>1, <2>1, <1>1 DEF Own
    <3> QED BY <3>2, <2>3, <1>2, <1>4, <1>5 DEF KeyInv, PathsAreNew
  <2> QED BY <2>2, <2>3
<1> QED BY <1>8, <1>10, <1>12 DEF KeyInv

LEMMA InsertKeepsKeys ==
    ASSUME IInv, RowInv, KeyInv, NEW t \in Threads, Insert(t)
    PROVE  KeyInv'
<1> DEFINE row == result[t]
<1>1. pc[t] = "insert" /\ Busy(t)
  BY DEF Insert, Busy
<1>2. /\ row.host = HostOf(t) /\ <<pair[t], row.time>> \in stamps
      /\ \A s \in statements[t] : s.path # row.path
  BY <1>1 DEF KeyInv, ResultIsNew, RowInv, ResultTells, Tells, HostOf
<1>3. \A r \in Rows : ~SameKey(row, r)
  BY <1>1, <1>2 DEF KeyInv, PathsAreNew, Own, SameKey
<1>4. ~Refused(row, list) /\ ~Refused(row, commit_batch)
  BY <1>3 DEF Refused, Rows
<1>5. /\ Rows' = Rows \cup {row}
      /\ refused' = {}
      /\ result' = [result EXCEPT ![t] = None]
      /\ (/\ pc' = [pc EXCEPT ![t] = "idle"] /\ done' = done \cup {pair[t]})
         \/ (pc' = [pc EXCEPT ![t] = "format"] /\ done' = done)
      /\ UNCHANGED <<wire, pair, statements, earlier, stamps>>
  BY <1>4 DEF Insert, Goto, server, Rows, KeyInv
<1>6. /\ \/ pc'[t] = "idle" /\ done' = done \cup {pair[t]}
         \/ pc'[t] = "format" /\ done' = done
      /\ \A u \in Threads : u # t => pc'[u] = pc[u] /\ result'[u] = result[u]
  BY <1>5 DEF IInv, Types, RowInv, WireType
<1>7. \A u \in Threads : Busy(u)' => Busy(u)
  BY <1>1, <1>6 DEF Busy
<1>8. \A u \in Threads : Busy(u) /\ u # t => HostOf(u) # HostOf(t)
  BY <1>1 DEF KeyInv, OneHostEach
<1>10. OneHostEach'
  BY <1>5, <1>7 DEF KeyInv, OneHostEach, HostOf
<1>11. DoneIsEarlier'
  <2> SUFFICES ASSUME NEW u \in Threads, NEW m \in done', Busy(u)',
                      wire[m].host = HostOf(u)
               PROVE  <<m, pair[u]>> \in earlier
    BY <1>5 DEF DoneIsEarlier, HostOf
  <2>1. Busy(u)
    BY <1>7
  <2>2. m \in done
    BY <2>1, <1>6, <1>8 DEF HostOf, Busy
  <2> QED BY <2>1, <2>2 DEF KeyInv, DoneIsEarlier
<1>13. ResultIsNew'
  BY <1>5, <1>6 DEF KeyInv, ResultIsNew
<1>14. PathsAreNew'
  <2> SUFFICES ASSUME NEW u \in Threads, Busy(u)', NEW r \in Own(u)'
               PROVE  /\ \A s \in statements[u] : s.path # r.path
                      /\ pc'[u] = "insert" => result'[u].path # r.path
    BY <1>5 DEF PathsAreNew
  <2>1. Busy(u) /\ r \in Own(u) \cup {row} /\ r.host = HostOf(u)
    BY <1>5, <1>7 DEF Own, HostOf
  <2>2. CASE r = row
    <3>1. u = t
      BY <2>1, <2>2, <1>2, <1>8
    <3> QED BY <3>1, <2>2, <1>2, <1>6
  <2>3. CASE r \in Own(u)
    BY <2>1, <2>3, <1>6 DEF KeyInv, PathsAreNew
  <2> QED BY <2>1, <2>2, <2>3
<1> QED BY <1>5, <1>10, <1>11, <1>13, <1>14 DEF KeyInv

(* The server and its clients only add to the history.                     *)
LEMMA ExchangeKeepsKeys ==
    ASSUME RowInv, KeyInv, NEW x \in CommitExchange \cup ListExchange,
           Exchange(x)
    PROVE  KeyInv'
<1>1. /\ wire' = Append(wire, x)
      /\ UNCHANGED <<list, commit_batch, refused, pc, pair, statements,
                     result, done, earlier, stamps>>
  BY DEF Exchange, tables, history
<1>2. /\ wire' \in Seq(CommitExchange \cup ListExchange)
      /\ DOMAIN wire \subseteq DOMAIN wire'
      /\ \A n \in DOMAIN wire : wire'[n] = wire[n]
  BY <1>1 DEF RowInv, WireType
<1>3. \A t \in Threads : Busy(t)' <=> Busy(t)
  BY <1>1 DEF Busy
<1>4. \A t \in Threads : Busy(t) => HostOf(t)' = HostOf(t)
  BY <1>1, <1>2 DEF RowInv, WireType, HostOf
<1>6. OneHostEach'
  BY <1>3, <1>4 DEF KeyInv, OneHostEach
<1>7. DoneIsEarlier'
  BY <1>1, <1>2, <1>3, <1>4 DEF RowInv, WireType, KeyInv, DoneIsEarlier
<1>9. ResultIsNew' /\ refused' = {}
  BY <1>1 DEF KeyInv, ResultIsNew
<1>11. PathsAreNew'
  <2>1. \A t \in Threads : Busy(t) => Own(t)' = Own(t)
    BY <1>1, <1>4 DEF Own, Rows
  <2> QED BY <2>1, <1>1, <1>3 DEF KeyInv, PathsAreNew
<1> QED BY <1>6, <1>7, <1>9, <1>11 DEF KeyInv

LEMMA StepKeepsKeys ==
    ASSUME OneConnection, IInv, RowInv, KeyInv, [Next]_vars
    PROVE  KeyInv'
<1>1. CASE Commit \/ List
  BY <1>1, ServerExchanges, ExchangeKeepsKeys
<1>2. ASSUME NEW t \in Threads, Thread(t) PROVE KeyInv'
  BY <1>2, ProcessLogKeepsKeys, FetchAddKeepsKeys, FormatKeepsKeys,
     InsertKeepsKeys DEF Thread
<1>3. CASE UNCHANGED vars
  BY <1>3 DEF vars, server, tables, history, KeyInv, OneHostEach,
     DoneIsEarlier, ResultIsNew, PathsAreNew, Own, Rows, HostOf, Busy
<1> QED BY <1>1, <1>2, <1>3 DEF Next

(* The primary keys of list and commit_batch never refuse a row, as long   *)
(* as a client's pairs are logged one at a time (dropbox/main.cpp:331).    *)
THEOREM KeysNeverCollide == Spec => []RowsAreStored
<1>1. Init => IInv /\ RowInv /\ (OneConnection => KeyInv)
  BY InitKeeps, InitKeepsRows, InitKeepsKeys
<1>2. IInv /\ RowInv /\ (OneConnection => KeyInv) /\ [Next]_vars
          => (IInv /\ RowInv /\ (OneConnection => KeyInv))'
  BY StepKeeps, StepKeepsRows, StepKeepsKeys
<1>3. (OneConnection => KeyInv) => RowsAreStored
  BY DEF KeyInv, RowsAreStored
<1> QED BY <1>1, <1>2, <1>3, PTL DEF Spec

-----------------------------------------------------------------------------
(* THE QUERY FOR OMISSIONS.  Between the commit of a path and the next list*)
(* for a client the path is among the client's changes, and an honest list *)
(* has all of them.                                                        *)

ListFor(n, h) == wire[n].what = "list" /\ wire[n].host = h

NoListSince(k, h) == \A m \in DOMAIN wire : k < m => ~ListFor(m, h)

FirstListSince(k, n, h) ==
    /\ k < n /\ ListFor(n, h)
    /\ \A m \in DOMAIN wire : k < m /\ m < n => ~ListFor(m, h)

ChangesAreKept ==
    \A k \in DOMAIN wire, h \in Hosts : wire[k].what = "commit_batch" =>
        \A p \in DOMAIN wire[k].items :
            /\ NoListSince(k, h) => p \in changes[h]
            /\ \A n \in DOMAIN wire :
                  FirstListSince(k, n, h) /\ wire[n].honest
                      => p \in DOMAIN wire[n].items

ServerInv ==
    /\ wire \in Seq(CommitExchange \cup ListExchange)
    /\ changes \in [Hosts -> SUBSET Paths]
    /\ ChangesAreKept

LEMMA InitKeepsChanges == Init => ServerInv
  BY DEF Init, ServerInv, ChangesAreKept

LEMMA ExchangeKeepsChanges ==
    ASSUME ServerInv, NEW x \in CommitExchange \cup ListExchange,
           wire' = Append(wire, x), changes' \in [Hosts -> SUBSET Paths],
           x.what = "commit_batch" =>
               \A g \in Hosts : changes[g] \cup DOMAIN x.items \subseteq changes'[g],
           x.what = "list" =>
               /\ \A g \in Hosts : g # x.host => changes[g] \subseteq changes'[g]
               /\ x.honest => DOMAIN x.items = changes[x.host]
    PROVE  ServerInv'
<1>1. PICK last : last = Len(wire) + 1
  OBVIOUS
<1>2. /\ wire' \in Seq(CommitExchange \cup ListExchange)
      /\ last \in Nat /\ DOMAIN wire = 1..(last - 1) /\ DOMAIN wire' = 1..last
      /\ \A n \in DOMAIN wire : wire'[n] = wire[n]
      /\ wire'[last] = x
  BY <1>1 DEF ServerInv
<1>3. x.what \in {"commit_batch", "list"}
  BY DEF CommitExchange, ListExchange
<1>4. \A n \in DOMAIN wire : \A h : ListFor(n, h)' <=> ListFor(n, h)
  BY <1>2 DEF ListFor
<1>5. \A h : ListFor(last, h)' <=> x.what = "list" /\ x.host = h
  BY <1>2 DEF ListFor
<1>6. ASSUME NEW k \in DOMAIN wire', NEW h \in Hosts,
             wire'[k].what = "commit_batch", NEW p \in DOMAIN wire'[k].items
      PROVE  /\ NoListSince(k, h)' => p \in changes'[h]
             /\ \A n \in DOMAIN wire' :
                   FirstListSince(k, n, h)' /\ wire'[n].honest
                       => p \in DOMAIN wire'[n].items
  <2>1. CASE k = last
    <3>1. p \in changes'[h]
      BY <2>1, <1>2, <1>6
    <3>2. \A n \in DOMAIN wire' : ~FirstListSince(k, n, h)'
      BY <2>1, <1>2 DEF FirstListSince
    <3> QED BY <3>1, <3>2
  <2>2. CASE k # last
    <3>1. k \in DOMAIN wire /\ k < last /\ wire'[k] = wire[k]
      BY <2>2, <1>2, <1>6
    <3>2. NoListSince(k, h) => p \in changes[h]
      BY <3>1, <1>6 DEF ServerInv, ChangesAreKept
    <3>3. NoListSince(k, h)' => p \in changes'[h]
      <4>1. SUFFICES ASSUME NoListSince(k, h)' PROVE p \in changes'[h]
        OBVIOUS
      <4>2. NoListSince(k, h) /\ ~ListFor(last, h)'
        BY <4>1, <3>1, <1>2, <1>4 DEF NoListSince
      <4> QED BY <4>2, <3>2, <1>3, <1>5
    <3>4. ASSUME NEW n \in DOMAIN wire', FirstListSince(k, n, h)', wire'[n].honest
          PROVE  p \in DOMAIN wire'[n].items
      <4>1. CASE n = last
        <5>1. NoListSince(k, h)
          BY <4>1, <3>4, <1>2, <1>4 DEF FirstListSince, NoListSince
        <5>2. x.what = "list" /\ x.host = h
          BY <4>1, <3>4, <1>5 DEF FirstListSince
        <5> QED BY <4>1, <5>1, <5>2, <3>2, <3>4, <1>2
      <4>2. CASE n # last
        <5>1. n \in DOMAIN wire /\ wire'[n] = wire[n]
          BY <4>2, <1>2
        <5>2. FirstListSince(k, n, h)
          BY <5>1, <3>4, <1>2, <1>4 DEF FirstListSince
        <5> QED BY <5>1, <5>2, <3>1, <3>4, <1>6 DEF ServerInv, ChangesAreKept
      <4> QED BY <4>1, <4>2
    <3> QED BY <3>3, <3>4
  <2> QED BY <2>1, <2>2
<1>7. ChangesAreKept'
  BY <1>6 DEF ChangesAreKept
<1> QED BY <1>2, <1>7 DEF ServerInv

LEMMA StepKeepsChanges ==
    ASSUME ServerInv, [Next]_vars
    PROVE  ServerInv'
<1>1. CASE Commit
  <2>1. PICK h \in Hosts, P \in SUBSET Paths :
            \E new \in [P -> Contents] : \E long \in {FALSE, TooLong} :
               /\ Exchange([what |-> "commit_batch", host |-> h, items |-> new,
                            long |-> long])
               /\ changes' = [g \in Hosts |-> changes[g] \cup P]
    BY <1>1 DEF Commit
  <2>2. PICK new \in [P -> Contents] : \E long \in {FALSE, TooLong} :
            /\ Exchange([what |-> "commit_batch", host |-> h, items |-> new,
                         long |-> long])
            /\ changes' = [g \in Hosts |-> changes[g] \cup P]
    BY <2>1
  <2>3. PICK long \in {FALSE, TooLong} :
            /\ Exchange([what |-> "commit_batch", host |-> h, items |-> new,
                         long |-> long])
            /\ changes' = [g \in Hosts |-> changes[g] \cup P]
    BY <2>2
  <2>4. PICK x : x = [what |-> "commit_batch", host |-> h, items |-> new,
                      long |-> long]
    OBVIOUS
  <2>5. x \in CommitExchange /\ x.what = "commit_batch" /\ DOMAIN x.items = P
    BY <2>4, DropboxAssumption DEF CommitExchange, Claims
  <2>6. /\ changes' \in [Hosts -> SUBSET Paths]
        /\ \A g \in Hosts : changes'[g] = changes[g] \cup P
    BY <2>3 DEF ServerInv
  <2>7. wire' = Append(wire, x)
    BY <2>3, <2>4 DEF Exchange
  <2> QED BY <2>5, <2>6, <2>7, ExchangeKeepsChanges
<1>2. CASE List
  <2>1. PICK h \in Hosts, P \in SUBSET Paths :
            \E claim \in [P -> Contents] : \E honest \in BOOLEAN :
               /\ wire' = Append(wire, [what |-> "list", host |-> h,
                                        items |-> claim, honest |-> honest])
               /\ honest => P = changes[h]
               /\ changes' = [changes EXCEPT ![h] = {}]
    BY <1>2 DEF List, Exchange
  <2>2. PICK claim \in [P -> Contents] : \E honest \in BOOLEAN :
            /\ wire' = Append(wire, [what |-> "list", host |-> h,
                                     items |-> claim, honest |-> honest])
            /\ honest => P = changes[h]
            /\ changes' = [changes EXCEPT ![h] = {}]
    BY <2>1
  <2>3. PICK honest \in BOOLEAN :
            /\ wire' = Append(wire, [what |-> "list", host |-> h,
                                     items |-> claim, honest |-> honest])
            /\ honest => P = changes[h]
            /\ changes' = [changes EXCEPT ![h] = {}]
    BY <2>2
  <2>4. PICK x : x = [what |-> "list", host |-> h, items |-> claim,
                      honest |-> honest]
    OBVIOUS
  <2>5. /\ x \in ListExchange /\ x.what = "list" /\ x.host = h
        /\ DOMAIN x.items = P /\ x.honest = honest
    BY <2>4 DEF ListExchange, Claims
  <2>6. /\ changes' \in [Hosts -> SUBSET Paths]
        /\ \A g \in Hosts : g # h => changes'[g] = changes[g]
    BY <2>3 DEF ServerInv
  <2> QED BY <2>3, <2>4, <2>5, <2>6, ExchangeKeepsChanges
<1>3. ASSUME NEW t \in Threads, Thread(t) PROVE ServerInv'
  <2>1. wire' = wire /\ changes' = changes
    BY <1>3 DEF Thread, ProcessLog, FetchAdd, Add, Format, FormatAt, Insert, server
  <2> QED BY <2>1 DEF ServerInv, ChangesAreKept, NoListSince, FirstListSince, ListFor
<1>4. CASE UNCHANGED vars
  BY <1>4 DEF vars, server, ServerInv, ChangesAreKept, NoListSince,
     FirstListSince, ListFor
<1> QED BY <1>1, <1>2, <1>3, <1>4 DEF Next

(* A set of numbers that is not empty has a least one.                     *)
LEMMA LeastExists ==
    ASSUME NEW S \in SUBSET Nat, S # {}
    PROVE  \E k \in S : \A l \in S : k =< l
<1> DEFINE R == {p \in Nat \X Nat : p[1] < p[2]}
<1>1. IsWellFoundedOn(R, Nat)
  BY NatLessThanWellFounded DEF OpToRel
<1>2. PICK k \in S : \A l \in S : <<l, k>> \notin R
  <2> HIDE DEF R
  <2> QED BY <1>1, WFMin
<1>3. ASSUME NEW l \in S PROVE k =< l
  <2>1. k \in Nat /\ l \in Nat /\ <<l, k>> \notin R
    BY <1>2
  <2>2. ~(l < k)
    BY <2>1
  <2> QED BY <2>1, <2>2
<1> QED BY <1>3

(* Where there is a list there is a first one.                             *)
LEMMA FirstListExists ==
    ASSUME ServerInv, NEW k \in DOMAIN wire, NEW h,
           NEW m \in DOMAIN wire, k < m, ListFor(m, h)
    PROVE  \E n \in DOMAIN wire : n =< m /\ FirstListSince(k, n, h)
<1> DEFINE S == {n \in DOMAIN wire : k < n /\ ListFor(n, h)}
<1>1. DOMAIN wire \subseteq Nat
  BY DEF ServerInv
<1>2. PICK n \in S : \A l \in S : n =< l
  BY <1>1, LeastExists
<1> QED BY <1>1, <1>2 DEF FirstListSince

(* When all pairs are logged in order, the times of rows and the exchanges *)
(* they are of have the same order.                                        *)
LEMMA TimesFollowWire ==
    ASSUME WireType, LoggedInOrder, NEW x \in stamps, NEW y \in stamps
    PROVE  /\ x[1] \in Nat /\ y[1] \in Nat /\ x[2] \in Nat /\ y[2] \in Nat
           /\ x[1] < y[1] => x[2] < y[2]
           /\ x[2] < y[2] => x[1] =< y[1]
<1>1. x[1] \in Nat /\ y[1] \in Nat /\ x[2] \in Nat /\ y[2] \in Nat
  BY DEF WireType
<1> QED BY <1>1 DEF LoggedInOrder

(* What is said in an exchange that has been logged is in a row.           *)
LEMMA SaidIsLogged ==
    ASSUME RowInv, LoggedInOrder, NEW n \in DOMAIN wire,
           NEW p \in DOMAIN wire[n].items, wire[n].what = "list" \/ ~wire[n].long
    PROVE  HasRow(n, p)
<1>1. PICK s \in Statements(wire[n]) : s.path = p
  BY SaidIsStated DEF RowInv
<1> QED BY <1>1 DEF RowInv, NothingIsLost, LoggedInOrder

LEMMA HonestPasses ==
    ASSUME RowInv, ServerInv
    PROVE  HonestListsPass
<1> SUFFICES ASSUME LoggedInOrder, Honest,
                    NEW c \in Unlisted(list, commit_batch)
             PROVE  FALSE
  BY DEF HonestListsPass
<1>1. c \in commit_batch /\ c.size >= 0
  BY DEF Unlisted
<1>2. PICK l1 \in Window(c, list, commit_batch) :
          ~\E l2 \in Window(c, list, commit_batch) :
              l1.host = l2.host /\ l2.path = c.path
  BY DEF Unlisted, Omitting
<1>3. /\ l1 \in list /\ l1.time > c.time
      /\ \A d \in FirstDeletions(commit_batch) :
            d.path = c.path /\ d.time > c.time => l1.time < d.time
  BY <1>2 DEF Window
<1>4. PICK x \in stamps : x[2] = c.time /\ wire[x[1]].what = "commit_batch"
                          /\ Tells(x[1], c)
  BY <1>1 DEF RowInv, RowsTell, TellOf
<1>5. PICK y \in stamps : y[2] = l1.time /\ wire[y[1]].what = "list"
                          /\ Tells(y[1], l1)
  BY <1>3 DEF RowInv, RowsTell, TellOf
<1>6. /\ x[1] \in DOMAIN wire /\ y[1] \in DOMAIN wire
      /\ x[1] \in Nat /\ y[1] \in Nat
  BY DEF RowInv, WireType
<1>7. x[1] < y[1]
  <2>1. x[2] < y[2]
    BY <1>3, <1>4, <1>5, TimesFollowWire DEF RowInv
  <2>2. x[1] =< y[1] /\ x[1] # y[1]
    BY <2>1, <1>4, <1>5, TimesFollowWire DEF RowInv
  <2> QED BY <2>2, <1>6
<1>8. PICK n \in DOMAIN wire : n =< y[1] /\ FirstListSince(x[1], n, l1.host)
  BY <1>5, <1>6, <1>7, FirstListExists DEF Tells, ListFor
<1>9. wire[n].what = "list" /\ wire[n].host = l1.host /\ x[1] < n /\ n \in Nat
      /\ wire[n].honest
  BY <1>8 DEF FirstListSince, ListFor, Honest, RowInv, WireType
<1>10. c.path \in DOMAIN wire[n].items
  <2>1. c.path \in DOMAIN wire[x[1]].items /\ l1.host \in Hosts
    BY <1>4, <1>5, <1>6 DEF Tells, RowInv, WireType, CommitExchange, ListExchange
  <2> QED BY <2>1, <1>4, <1>6, <1>8, <1>9 DEF ServerInv, ChangesAreKept
<1>11. PICK l2 \in list : /\ l2.host = l1.host /\ l2.path = c.path
                          /\ <<n, l2.time>> \in stamps
  BY <1>9, <1>10, SaidIsLogged DEF HasRow, Table
<1>12. PICK z \in stamps : z[1] = n /\ z[2] = l2.time
  BY <1>11
<1>13. l2.time > c.time
  BY <1>4, <1>9, <1>12, TimesFollowWire DEF RowInv
<1>14. ASSUME NEW d \in FirstDeletions(commit_batch), d.path = c.path,
              d.time > c.time
       PROVE  l2.time < d.time
  <2>1. PICK w \in stamps : w[2] = d.time /\ wire[w[1]].what = "commit_batch"
    BY DEF FirstDeletions, RowInv, RowsTell, TellOf
  <2>2. y[2] < w[2]
    BY <2>1, <1>3, <1>5, <1>14
  <2>3. y[1] =< w[1] /\ y[1] # w[1] /\ w[1] \in Nat
    BY <2>1, <2>2, <1>5, TimesFollowWire DEF RowInv
  <2>4. z[1] < w[1]
    BY <2>3, <1>6, <1>8, <1>9, <1>12
  <2> QED BY <2>1, <2>4, <1>12, TimesFollowWire DEF RowInv
<1>15. l2 \in Window(c, list, commit_batch)
  BY <1>11, <1>13, <1>14 DEF Window
<1> QED BY <1>2, <1>11, <1>15

LEMMA OmissionsAreFound ==
    ASSUME RowInv, ServerInv
    PROVE  OmissionsCaught
<1> SUFFICES ASSUME LoggedInOrder, NEW k \in DOMAIN wire, NEW h \in Hosts,
                    NEW p \in DOMAIN wire[k].items,
                    wire[k].what = "commit_batch", ~wire[k].long,
                    \A n \in DOMAIN wire :
                       wire[n].what = "commit_batch" /\ p \in DOMAIN wire[n].items
                           => wire[n].items[p] # Deleted,
                    KeptFrom(h, p, k)
             PROVE  \E c \in Unlisted(list, commit_batch) : c.path = p
  BY DEF OmissionsCaught
<1>1. PICK c \in commit_batch : c.path = p /\ <<k, c.time>> \in stamps
  BY SaidIsLogged DEF HasRow, Table
<1>2. PICK x \in stamps : x[1] = k /\ x[2] = c.time
  BY <1>1
<1>3. ASSUME NEW d \in commit_batch, d.path = p PROVE d.size = 1
  <2>1. PICK w \in stamps : wire[w[1]].what = "commit_batch" /\ Tells(w[1], d)
    BY DEF RowInv, RowsTell, TellOf
  <2>2. w[1] \in DOMAIN wire
    BY DEF RowInv, WireType
  <2> QED BY <2>1, <2>2, <1>3 DEF Tells, SizeOf
<1>4. PICK n \in DOMAIN wire : /\ n > k /\ ListFor(n, h)
                               /\ DOMAIN wire[n].items # {}
  BY DEF KeptFrom, ListFor
<1>5. PICK q : q \in DOMAIN wire[n].items
  BY <1>4
<1>6. PICK l1 \in list : l1.host = h /\ <<n, l1.time>> \in stamps
  BY <1>4, <1>5, SaidIsLogged DEF HasRow, Table, ListFor
<1>7. PICK y \in stamps : y[1] = n /\ y[2] = l1.time
  BY <1>6
<1>8. l1.time > c.time
  BY <1>2, <1>4, <1>7, TimesFollowWire DEF RowInv
<1>9. l1 \in Window(c, list, commit_batch)
  <2>1. ASSUME NEW d \in FirstDeletions(commit_batch) PROVE d.path # c.path
    BY <2>1, <1>1, <1>3 DEF FirstDeletions
  <2> QED BY <2>1, <1>6, <1>8 DEF Window
<1>10. ASSUME NEW l2 \in Window(c, list, commit_batch),
              l1.host = l2.host, l2.path = c.path
       PROVE  FALSE
  <2>1. l2 \in list /\ l2.time > c.time
    BY DEF Window
  <2>2. PICK z \in stamps : z[2] = l2.time /\ wire[z[1]].what = "list"
                            /\ Tells(z[1], l2)
    BY <2>1 DEF RowInv, RowsTell, TellOf
  <2>3. z[1] \in DOMAIN wire /\ z[1] \in Nat /\ k \in Nat
    BY DEF RowInv, WireType
  <2>4. x[1] =< z[1] /\ x[1] # z[1]
    BY <2>1, <2>2, <1>2, TimesFollowWire DEF RowInv
  <2>5. z[1] > k
    BY <2>3, <2>4, <1>2
  <2>6. p \in DOMAIN wire[z[1]].items /\ wire[z[1]].host = h
    BY <2>2, <1>1, <1>6, <1>10 DEF Tells
  <2> QED BY <2>2, <2>3, <2>5, <2>6 DEF KeptFrom
<1>11. c \in Unlisted(list, commit_batch)
  BY <1>1, <1>3, <1>9, <1>10 DEF Unlisted, Omitting
<1> QED BY <1>1, <1>11

LEMMA RowsAndChanges == Spec => [](RowInv /\ ServerInv)
<1>1. Init => IInv /\ RowInv /\ ServerInv
  BY InitKeeps, InitKeepsRows, InitKeepsChanges
<1>2. IInv /\ RowInv /\ ServerInv /\ [Next]_vars
          => (IInv /\ RowInv /\ ServerInv)'
  BY StepKeeps, StepKeepsRows, StepKeepsChanges
<1> QED BY <1>1, <1>2, PTL DEF Spec

(* A server that lists to each client what has changed since its last list *)
(* is not reported by the query of dropbox/main.cpp:384, whatever was      *)
(* deleted, restored, or too long to be logged, and however many clients   *)
(* and threads there are, once the exchanges are logged in order.          *)
THEOREM HonestListsAlwaysPass == Spec => []HonestListsPass
<1>1. RowInv /\ ServerInv => HonestListsPass
  BY HonestPasses
<1> QED BY <1>1, RowsAndChanges, PTL

(* A file that was uploaded, never deleted, and left out of all lists to a *)
(* client is reported by that query, once the exchanges are logged in      *)
(* order.                                                                  *)
THEOREM OmissionsAreCaught == Spec => []OmissionsCaught
<1>1. RowInv /\ ServerInv => OmissionsCaught
  BY OmissionsAreFound
<1> QED BY <1>1, RowsAndChanges, PTL
=============================================================================
