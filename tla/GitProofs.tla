------------------------------ MODULE GitProofs ------------------------------
(***************************************************************************)
(* Theorems about GitAuditor, for all sets of threads, repositories,       *)
(* branches and commits and any moment at which threads trim: that the     *)
(* last push stays and types and keys are kept, in any order of logging;   *)
(* that trimming changes no verdict, with one thread; that the verdicts    *)
(* are right, with one thread that logs in the order of the server.        *)
(***************************************************************************)
EXTENDS GitAuditor, SequenceTheorems, FiniteSetTheorems, TLAPS

IInv == updates \subseteq allUpdates /\ LatestPushKept

(* The row with the greatest time of its group survives the trimming       *)
(* statement's DELETE ... WHERE time NOT IN (SELECT MAX(time) ...).        *)
LEMMA LatestSurvives ==
    ASSUME NEW ups, NEW u \in ups,
           \A v \in ups : SameRef(v, u) => v.time =< u.time
    PROVE  u \in TrimUpdates(ups)
  BY DEF TrimUpdates, MaxTimes

(* Init establishes the invariant: nothing has been logged.                *)
LEMMA InitKeeps == Init => IInv
  BY DEF Init, IInv, LatestPushKept

(* Inserting a row can only take the place of the latest one away from     *)
(* others, and trimming spares the latest row.                             *)
LEMMA StepKeeps == IInv /\ [Next]_vars => IInv'
<1> SUFFICES ASSUME IInv, [Next]_vars PROVE IInv'
  OBVIOUS
<1> USE DEF IInv, LatestPushKept
<1>1. ASSUME NEW t \in Threads, Insert(t) PROVE IInv'
  <2>1. PICK row \in rows[t] :
            \/ updates' = updates \cup {row} /\ allUpdates' = allUpdates \cup {row}
            \/ UNCHANGED <<updates, allUpdates>>
    BY <1>1 DEF Insert
  <2> QED BY <2>1
<1>2. ASSUME NEW t \in Threads, Trim(t) PROVE IInv'
  <2>1. updates' = TrimUpdates(updates) /\ allUpdates' = allUpdates
    BY <1>2 DEF Trim, inserted
  <2>2. TrimUpdates(updates) \subseteq updates
    BY DEF TrimUpdates
  <2>3. ASSUME NEW u \in allUpdates,
               \A v \in allUpdates : SameRef(v, u) => v.time =< u.time
        PROVE  u \in TrimUpdates(updates)
    BY <2>3, LatestSurvives
  <2> QED BY <2>1, <2>2, <2>3
<1>3. ASSUME UNCHANGED <<updates, allUpdates>> PROVE IInv'
  BY <1>3
<1>4. CASE Push \/ Advertise
  BY <1>3, <1>4 DEF Push, Advertise, Exchange, tables, inserted
<1>5. ASSUME NEW t \in Threads,
             \/ ProcessLog(t) \/ Finish(t)
             \/ AuditCompleteness(t) \/ AuditSoundness(t)
      PROVE  IInv'
  BY <1>3, <1>5 DEF ProcessLog, TakePair, Finish, AuditCompleteness,
                    AuditSoundness, tables, inserted
<1>6. CASE UNCHANGED vars
  BY <1>3, <1>6 DEF vars, tables, inserted
<1> QED BY <1>1, <1>2, <1>4, <1>5, <1>6 DEF Next, Thread

(* The last push to a branch that was logged stays in the database:        *)
(* do_trimming never deletes the row the soundness query needs for the     *)
(* advertisements to come.                                                 *)
THEOREM LatestPushIsKept == Spec => []LatestPushKept
<1>1. IInv => LatestPushKept
  BY DEF IInv
<1> QED BY <1>1, InitKeeps, StepKeeps, PTL DEF Spec

-----------------------------------------------------------------------------
(* TYPES                                                                   *)

Pushes ==
    [what : {"push"}, repo : Repos, ok : SUBSET Branches,
     commands : UNION {[B -> [old : Values, new : Values]] :
                          B \in SUBSET Branches}]
Advertisements ==
    [what : {"advertisement"}, repo : Repos,
     lines : [{NoRef} -> {Zero}] \cup UNION {[B -> Cids] : B \in SUBSET Branches}]

(* The rows a pair leaves carry its time, have the type of their table, and *)
(* tell it by the column type.                                             *)
LEMMA PushRows ==
    ASSUME NEW x \in Pushes, NEW id \in Int
    PROVE  /\ RowsOf(id, x) = UpdateRows(id, x)
           /\ RowsOf(id, x) \subseteq UpdateRow
           /\ \A row \in RowsOf(id, x) : row.time = id /\ "type" \in DOMAIN row
<1>1. x.what = "push" /\ x.repo \in Repos
  BY DEF Pushes
<1>2. PICK B \in SUBSET Branches :
         x.commands \in [B -> [old : Values, new : Values]]
  BY DEF Pushes
<1>3. DOMAIN x.commands = B
  BY <1>2
<1>4. ASSUME NEW b \in B
      PROVE  x.commands[b].new \in Values /\ TypeOfCommand(x.commands[b]) \in {"c", "u", "d"}
  BY <1>2, <1>4 DEF TypeOfCommand
<1>5. ASSUME NEW row \in UpdateRows(id, x)
      PROVE  row \in UpdateRow /\ row.time = id /\ "type" \in DOMAIN row
  <2>1. PICK b \in B :
          row = [time |-> id, repo |-> x.repo, branch |-> b,
                 cid |-> x.commands[b].new,
                 type |-> TypeOfCommand(x.commands[b]),
                 result |-> IF IsOk(x, b) THEN 1 ELSE 0]
    BY <1>3, <1>5 DEF UpdateRows
  <2>2. (IF IsOk(x, b) THEN 1 ELSE 0) \in {0, 1}
    OBVIOUS
  <2>3. row \in UpdateRow
    BY <1>1, <1>4, <2>1, <2>2 DEF UpdateRow
  <2>4. row.time = id /\ "type" \in DOMAIN row
    BY <2>1
  <2> QED BY <2>3, <2>4
<1> QED BY <1>1, <1>5 DEF RowsOf

LEMMA AdvertisedRows ==
    ASSUME NEW x \in Advertisements, NEW id \in Int
    PROVE  /\ RowsOf(id, x) = AdvertRows(id, x)
           /\ RowsOf(id, x) \subseteq AdvertRow
           /\ \A row \in RowsOf(id, x) : row.time = id /\ "type" \notin DOMAIN row
<1>1. x.what = "advertisement" /\ x.repo \in Repos
  BY DEF Advertisements
<1>2. ASSUME NEW b \in DOMAIN RefsOf(x)
      PROVE  b \in Branches /\ RefsOf(x)[b] \in Cids
  <2>1. b \in DOMAIN x.lines /\ <<x.lines[b], b>> # <<Zero, NoRef>>
    BY <1>2 DEF RefsOf
  <2>2. RefsOf(x)[b] = x.lines[b]
    BY <1>2 DEF RefsOf
  <2>3. CASE x.lines \in [{NoRef} -> {Zero}]
    BY <2>1, <2>3
  <2>4. CASE x.lines \in UNION {[B -> Cids] : B \in SUBSET Branches}
    <3>1. PICK B \in SUBSET Branches : x.lines \in [B -> Cids]
      BY <2>4
    <3> QED BY <2>1, <2>2, <3>1
  <2> QED BY <2>3, <2>4 DEF Advertisements
<1>3. ASSUME NEW row \in AdvertRows(id, x)
      PROVE  row \in AdvertRow /\ row.time = id /\ "type" \notin DOMAIN row
  <2>1. PICK b \in DOMAIN RefsOf(x) :
          row = [time |-> id, repo |-> x.repo, branch |-> b,
                 cid |-> RefsOf(x)[b]]
    BY <1>3 DEF AdvertRows
  <2>2. row \in AdvertRow
    BY <1>1, <1>2, <2>1 DEF AdvertRow
  <2>3. row.time = id /\ "type" \notin DOMAIN row
    BY <2>1
  <2> QED BY <2>2, <2>3
<1> QED BY <1>1, <1>3 DEF RowsOf

(* The key of a row determines it among the rows of its pair.              *)
LEMMA KeysOfPair ==
    ASSUME NEW x, NEW id, NEW u \in RowsOf(id, x), NEW v \in RowsOf(id, x),
           u.branch = v.branch
    PROVE  u = v
  BY DEF RowsOf, UpdateRows, AdvertRows

Exchanges == Pushes \cup Advertisements

(* What the times stand for: no exchange has two of them. *)
History ==
    /\ wire \in Seq(Exchanges)
    /\ Len(wire) =< MaxExchanges
    /\ times \in Seq(DOMAIN wire)
    /\ logictime = Len(times) + 1
    /\ IsFiniteSet(Logged)
    /\ Cardinality(Logged) = Len(times)

(* A row comes from a pair that was logged. *)
FromPair(row) == \E n \in 1..Len(times) : row \in RowsOf(IdOf(n), wire[times[n]])

Rows ==
    /\ rows \in [Threads -> SUBSET (UpdateRow \cup AdvertRow)]
    /\ \A t \in Threads : \A row \in rows[t] : FromPair(row)
    /\ allUpdates \subseteq UpdateRow
    /\ allAdverts \subseteq AdvertRow
    /\ \A row \in allUpdates \cup allAdverts : FromPair(row)
    /\ updates \subseteq allUpdates
    /\ advertisements \subseteq allAdverts
    /\ reported \subseteq allAdverts

Rest ==
    /\ refs \in [Repos -> [Branches -> Values]]
    /\ branchmods = {}
    /\ pc \in [Threads -> {"idle", "insert", "completeness", "soundness",
                           "trimming"}]

TInv == History /\ Rows /\ Rest

(* There are no more times than exchanges, and their ids are integers no   *)
(* two of them share: the ids wrap around at most once.                    *)
LEMMA HistoryFacts ==
    ASSUME History
    PROVE  /\ Len(wire) \in Nat /\ Len(times) \in Nat
           /\ DOMAIN wire = 1..Len(wire) /\ DOMAIN times = 1..Len(times)
           /\ Len(times) =< Len(wire) /\ Len(times) =< MaxExchanges
           /\ \A n \in 1..Len(times) : times[n] \in 1..Len(wire)
           /\ \A k \in 1..Len(wire) : wire[k] \in Exchanges
           /\ Logged \subseteq 1..Len(wire)
<1>1. /\ Len(wire) \in Nat /\ Len(times) \in Nat
      /\ DOMAIN wire = 1..Len(wire) /\ DOMAIN times = 1..Len(times)
  BY LenProperties DEF History
<1>2. \A n \in 1..Len(times) : times[n] \in 1..Len(wire)
  BY <1>1, ElementOfSeq DEF History
<1>3. \A k \in 1..Len(wire) : wire[k] \in Exchanges
  BY <1>1, ElementOfSeq DEF History
<1>4. Logged \subseteq 1..Len(wire)
  BY <1>1, <1>2 DEF Logged
<1>5. IsFiniteSet(1..Len(wire)) /\ Cardinality(1..Len(wire)) = Len(wire)
  <2>1. 1 \in Int /\ Len(wire) \in Int
    BY <1>1
  <2>2. /\ IsFiniteSet(1..Len(wire))
        /\ Cardinality(1..Len(wire)) = IF 1 > Len(wire) THEN 0 ELSE Len(wire) - 1 + 1
    BY <2>1, FS_Interval
  <2> QED BY <1>1, <2>2
<1>6. Cardinality(Logged) =< Cardinality(1..Len(wire))
  BY <1>4, <1>5, FS_Subset
<1>7. Len(times) =< Len(wire)
  BY <1>5, <1>6 DEF History
<1> QED BY <1>1, <1>2, <1>3, <1>4, <1>7, GitAssumption DEF History

LEMMA IdsDiffer ==
    ASSUME NEW m \in 1..MaxExchanges, NEW n \in 1..MaxExchanges
    PROVE  /\ IdOf(m) \in Int
           /\ IdOf(m) = IdOf(n) => m = n
  BY GitAssumption DEF IdOf

(* The row of a pair that was logged. *)
LEMMA TypedRow ==
    ASSUME History, NEW row, NEW n \in 1..Len(times),
           row \in RowsOf(IdOf(n), wire[times[n]])
    PROVE  /\ row.time = IdOf(n)
           /\ "type" \in DOMAIN row => row \in UpdateRow
           /\ "type" \notin DOMAIN row => row \in AdvertRow
<1>1. n \in 1..MaxExchanges /\ wire[times[n]] \in Exchanges
  BY HistoryFacts, GitAssumption
<1>2. IdOf(n) \in Int
  BY <1>1, IdsDiffer
<1>3. CASE wire[times[n]] \in Pushes
  BY <1>2, <1>3, PushRows
<1>4. CASE wire[times[n]] \in Advertisements
  BY <1>2, <1>4, AdvertisedRows
<1> QED BY <1>1, <1>3, <1>4 DEF Exchanges

(* A row is determined by its key, so that no insertion breaks one.        *)
LEMMA KeysIdentifyRows ==
    ASSUME History, NEW u, NEW v, FromPair(u), FromPair(v), SameKey(u, v)
    PROVE  u = v
<1>1. PICK m \in 1..Len(times) : u \in RowsOf(IdOf(m), wire[times[m]])
  BY DEF FromPair
<1>2. PICK n \in 1..Len(times) : v \in RowsOf(IdOf(n), wire[times[n]])
  BY DEF FromPair
<1>3. IdOf(m) = IdOf(n)
  BY <1>1, <1>2, TypedRow DEF SameKey
<1>4. m = n
  BY <1>3, HistoryFacts, IdsDiffer, GitAssumption
<1> QED BY <1>1, <1>2, <1>4, KeysOfPair DEF SameKey, SameRef

LEMMA InvTyped == TInv => TypeOK
<1> SUFFICES ASSUME TInv PROVE TypeOK
  OBVIOUS
<1>1. PrimaryKey(updates) /\ PrimaryKey(advertisements)
  BY KeysIdentifyRows DEF TInv, Rows, PrimaryKey
<1>2. logictime \in Nat
  BY HistoryFacts DEF TInv, History
<1> QED BY <1>1, <1>2 DEF TInv, History, Rows, Rest, TypeOK

-----------------------------------------------------------------------------
(* THE STEPS                                                               *)

LEMMA InitTyped == Init => TInv
<1> SUFFICES ASSUME Init PROVE TInv
  OBVIOUS
<1>1. Logged = {}
  BY DEF Init, Logged
<1>2. History
  BY <1>1, FS_EmptySet, GitAssumption DEF Init, History
<1>3. Rest
  BY DEF Init, Rest, Values
<1>4. Rows
  BY DEF Init, Rows
<1> QED BY <1>2, <1>3, <1>4 DEF TInv

(* What the server and its clients exchange are pushes and advertisements. *)
LEMMA PushIs ==
    ASSUME Push, Rest
    PROVE  /\ \E x \in Pushes : (~Rejects => x.ok = DOMAIN x.commands) /\ Exchange(x)
           /\ refs' \in [Repos -> [Branches -> Values]]
<1>1. PICK r \in Repos, B \in SUBSET (Branches \ {HEAD}) :
         \E new \in [B -> Values], ok \in SUBSET B :
            /\ B # {}
            /\ \A b \in B : new[b] # refs[r][b]
            /\ Rejects \/ ok = B
            /\ Exchange([what |-> "push", repo |-> r, ok |-> ok,
                         commands |-> [b \in B |-> [old |-> refs[r][b],
                                                    new |-> new[b]]]])
            /\ refs' = [refs EXCEPT ![r] =
                           [b \in Branches |-> IF b \in ok THEN new[b] ELSE @[b]]]
  BY DEF Push
<1>2. PICK new \in [B -> Values], ok \in SUBSET B :
            /\ Rejects \/ ok = B
            /\ Exchange([what |-> "push", repo |-> r, ok |-> ok,
                         commands |-> [b \in B |-> [old |-> refs[r][b],
                                                    new |-> new[b]]]])
            /\ refs' = [refs EXCEPT ![r] =
                           [b \in Branches |-> IF b \in ok THEN new[b] ELSE @[b]]]
  BY <1>1
<1> DEFINE commands == [b \in B |-> [old |-> refs[r][b], new |-> new[b]]]
           x == [what |-> "push", repo |-> r, ok |-> ok, commands |-> commands]
<1>3. commands \in [B -> [old : Values, new : Values]]
  BY DEF Rest
<1>4. x \in Pushes
  <2>1. commands \in UNION {[C -> [old : Values, new : Values]] : C \in SUBSET Branches}
    BY <1>3
  <2> HIDE DEF commands
  <2> QED BY <2>1 DEF Pushes
<1>5. ~Rejects => x.ok = DOMAIN x.commands
  BY <1>2
<1>6. refs' \in [Repos -> [Branches -> Values]]
  <2> DEFINE after == [b \in Branches |-> IF b \in ok THEN new[b] ELSE refs[r][b]]
  <2>1. refs' = [refs EXCEPT ![r] = after]
    BY <1>2
  <2>2. after \in [Branches -> Values]
    BY DEF Rest
  <2> HIDE DEF after
  <2> QED BY <2>1, <2>2 DEF Rest
<1> QED BY <1>2, <1>4, <1>5, <1>6

LEMMA AdvertiseIs ==
    ASSUME Advertise
    PROVE  (\E x \in Advertisements : Exchange(x)) /\ refs' = refs
<1>1. PICK r \in Repos, B \in SUBSET Branches : \E claim \in [B -> Cids] :
        /\ Exchange([what |-> "advertisement", repo |-> r,
                     lines |-> IF B = {} THEN [b \in {NoRef} |-> Zero]
                               ELSE claim])
        /\ UNCHANGED refs
  BY DEF Advertise
<1>2. PICK claim \in [B -> Cids] :
        /\ Exchange([what |-> "advertisement", repo |-> r,
                     lines |-> IF B = {} THEN [b \in {NoRef} |-> Zero]
                               ELSE claim])
        /\ UNCHANGED refs
  BY <1>1
<1> DEFINE lines == IF B = {} THEN [b \in {NoRef} |-> Zero] ELSE claim
<1>3. lines \in [{NoRef} -> {Zero}] \cup UNION {[C -> Cids] : C \in SUBSET Branches}
  BY <1>2
<1>4. [what |-> "advertisement", repo |-> r, lines |-> lines] \in Advertisements
  <2> HIDE DEF lines
  <2> QED BY <1>3 DEF Advertisements
<1> QED BY <1>2, <1>4

(* Appending to the history changes nothing in it. *)
LEMMA HistoryGrows ==
    ASSUME History,
           \/ times' = times /\ \E x \in Exchanges : wire' = Append(wire, x)
           \/ wire' = wire /\ \E n \in 1..Len(wire) : times' = Append(times, n)
           \/ UNCHANGED <<wire, times>>
    PROVE  /\ Len(wire') \in Nat /\ Len(times') \in Nat
           /\ Len(wire) =< Len(wire') /\ Len(times) =< Len(times')
           /\ DOMAIN wire' = 1..Len(wire')
           /\ \A k \in 1..Len(wire) : wire'[k] = wire[k]
           /\ \A n \in 1..Len(times) : times'[n] = times[n]
           /\ \A row : FromPair(row) => FromPair(row)'
<1>1. /\ Len(wire') \in Nat /\ Len(times') \in Nat
      /\ Len(wire) =< Len(wire') /\ Len(times) =< Len(times')
      /\ DOMAIN wire' = 1..Len(wire')
      /\ \A k \in 1..Len(wire) : wire'[k] = wire[k]
      /\ \A n \in 1..Len(times) : times'[n] = times[n]
  <2>1. CASE times' = times /\ \E x \in Exchanges : wire' = Append(wire, x)
    <3>1. PICK x \in Exchanges : wire' = Append(wire, x)
      BY <2>1
    <3>2. /\ wire' \in Seq(Exchanges) /\ Len(wire') = Len(wire) + 1
          /\ \A k \in 1..Len(wire) : wire'[k] = wire[k]
      BY <3>1, AppendProperties DEF History
    <3>3. DOMAIN wire' = 1..Len(wire')
      BY <3>2, LenProperties
    <3>4. Len(wire) \in Nat /\ Len(times) \in Nat
      BY HistoryFacts
    <3>5. Len(wire') \in Nat /\ Len(wire) =< Len(wire')
      BY <3>2, <3>4
    <3>6. times' = times
      BY <2>1
    <3> QED BY <3>2, <3>3, <3>4, <3>5, <3>6
  <2>2. CASE wire' = wire /\ \E n \in 1..Len(wire) : times' = Append(times, n)
    <3>1. PICK n \in 1..Len(wire) : times' = Append(times, n)
      BY <2>2
    <3>2. /\ Len(times') = Len(times) + 1
          /\ \A k \in 1..Len(times) : times'[k] = times[k]
      <4>1. n \in DOMAIN wire
        BY HistoryFacts
      <4> QED BY <3>1, <4>1, AppendProperties DEF History
    <3>3. /\ Len(wire) \in Nat /\ Len(times) \in Nat
          /\ DOMAIN wire = 1..Len(wire)
      BY HistoryFacts
    <3>4. wire' = wire
      BY <2>2
    <3>5. Len(times') \in Nat /\ Len(times) =< Len(times')
      BY <3>2, <3>3
    <3>6. /\ Len(wire') \in Nat /\ Len(wire) =< Len(wire')
          /\ DOMAIN wire' = 1..Len(wire')
          /\ \A k \in 1..Len(wire) : wire'[k] = wire[k]
      <4>1. Len(wire') = Len(wire) /\ DOMAIN wire' = DOMAIN wire
        BY <3>4, Zenon
      <4>2. \A k \in 1..Len(wire) : wire'[k] = wire[k]
        BY <3>4, Zenon
      <4>3. Len(wire) =< Len(wire)
        BY <3>3
      <4> QED BY <3>3, <4>1, <4>2, <4>3, Zenon
    <3> QED BY <3>2, <3>5, <3>6
  <2>3. CASE UNCHANGED <<wire, times>>
    BY <2>3, HistoryFacts
  <2> QED BY <2>1, <2>2, <2>3
<1>2. ASSUME NEW row, FromPair(row) PROVE FromPair(row)'
  <2>1. PICK n \in 1..Len(times) : row \in RowsOf(IdOf(n), wire[times[n]])
    BY <1>2 DEF FromPair
  <2>2. n \in 1..Len(times') /\ times'[n] = times[n] /\ wire'[times[n]] = wire[times[n]]
    <3>1. n \in 1..Len(times')
      <4>1. Len(times) \in Nat
        BY HistoryFacts
      <4> DEFINE p == Len(times)
                 q == Len(times')
      <4>2. p \in Nat /\ q \in Nat /\ p =< q
        BY <1>1, <4>1
      <4>3. n \in 1..p
        OBVIOUS
      <4> HIDE DEF p, q
      <4>4. n \in 1..q
        BY <4>2, <4>3
      <4> QED BY <4>4 DEF q
    <3>2. times[n] \in 1..Len(wire)
      BY HistoryFacts
    <3> QED BY <1>1, <3>1, <3>2
  <2>3. row \in RowsOf(IdOf(n), wire'[times'[n]])
    BY <2>1, <2>2
  <2> QED BY <2>2, <2>3 DEF FromPair
<1> QED BY <1>1, <1>2

LEMMA ExchangeKeeps ==
    ASSUME TInv, NEW x \in Exchanges, Exchange(x),
           refs' \in [Repos -> [Branches -> Values]]
    PROVE  TInv'
<1> USE DEF TInv
<1>1. wire' = Append(wire, x) /\ Len(wire) < MaxExchanges
  BY DEF Exchange
<1>2. /\ UNCHANGED <<logictime, times, pc, rows>>
      /\ UNCHANGED <<updates, advertisements, branchmods>>
      /\ UNCHANGED <<allUpdates, allAdverts, reported, incomplete>>
  BY DEF Exchange, tables, inserted, results
<1>3. wire' \in Seq(Exchanges) /\ Len(wire') = Len(wire) + 1
  BY <1>1 DEF History
<1>4. History'
  <2>1. Logged' = Logged
    BY <1>2 DEF Logged
  <2>2. DOMAIN wire \subseteq DOMAIN wire'
    BY <1>3, HistoryFacts, LenProperties
  <2>3. times' \in Seq(DOMAIN wire')
    BY <1>2, <2>2, SeqMonotonic DEF History
  <2>4. Len(wire') =< MaxExchanges
    BY <1>1, <1>3, HistoryFacts, GitAssumption
  <2> QED BY <1>2, <1>3, <2>1, <2>3, <2>4 DEF History
<1>5. Rows'
  BY <1>1, <1>2, HistoryGrows DEF Rows
<1>6. Rest'
  BY <1>2 DEF Rest
<1> QED BY <1>4, <1>5, <1>6

(* A pair gets the next time, and rows that say so. *)
LEMMA TakePairIs ==
    ASSUME TInv, NEW t \in Threads, ProcessLog(t)
    PROVE  \E n \in 1..Len(wire) :
              /\ n \notin Logged
              /\ Ordered => \A k \in 1..(n - 1) : k \in Logged
              /\ times' = Append(times, n)
              /\ rows' = [rows EXCEPT ![t] = RowsOf(IdOf(logictime), wire[n])]
              /\ Logged' = Logged \cup {n}
              /\ History'
              /\ Len(times') = Len(times) + 1
              /\ Len(times') =< MaxExchanges
              /\ times'[Len(times')] = n
<1> USE DEF TInv
<1>1. PICK n \in DOMAIN wire \ Logged :
         /\ Ordered => \A k \in 1..(n - 1) : k \in Logged
         /\ times' = Append(times, n)
         /\ rows' = [rows EXCEPT ![t] = RowsOf(IdOf(logictime), wire[n])]
  BY DEF ProcessLog, TakePair
<1>2. wire' = wire /\ logictime' = logictime + 1
  BY DEF ProcessLog, TakePair, server
<1>3. n \in 1..Len(wire) /\ n \in DOMAIN wire
  BY <1>1, HistoryFacts
<1>4. /\ times' \in Seq(DOMAIN wire) /\ Len(times') = Len(times) + 1
      /\ \A i \in 1..Len(times) : times'[i] = times[i]
      /\ times'[Len(times) + 1] = n
  BY <1>1, <1>3 DEF History
<1>5. Logged' = Logged \cup {n}
  BY <1>4, HistoryFacts, LenProperties DEF Logged
<1>6. IsFiniteSet(Logged') /\ Cardinality(Logged') = Cardinality(Logged) + 1
  BY <1>1, <1>5, FS_AddElement DEF History
<1>7. History'
  BY <1>2, <1>4, <1>6, HistoryFacts DEF History
<1>8. Len(times') =< MaxExchanges
  <2>1. IsFiniteSet(1..Len(wire)) /\ Cardinality(1..Len(wire)) =< Len(wire)
    <3>1. 1 \in Int /\ Len(wire) \in Int
      BY HistoryFacts
    <3>2. /\ IsFiniteSet(1..Len(wire))
          /\ Cardinality(1..Len(wire)) = IF 1 > Len(wire) THEN 0 ELSE Len(wire) - 1 + 1
      BY <3>1, FS_Interval
    <3> QED BY <3>2, HistoryFacts
  <2>2. Logged' \in SUBSET (1..Len(wire))
    BY <1>3, <1>5, HistoryFacts
  <2>3. Cardinality(Logged') =< Cardinality(1..Len(wire))
    BY <2>1, <2>2, FS_Subset
  <2>4. Cardinality(Logged') = Len(times')
    BY <1>7 DEF History
  <2>5. Cardinality(1..Len(wire)) \in Nat
    BY <2>1, FS_CardinalityType
  <2> QED BY <1>4, <2>1, <2>3, <2>4, <2>5, HistoryFacts, GitAssumption DEF History
<1> QED BY <1>1, <1>3, <1>4, <1>5, <1>7, <1>8

LEMMA TakePairKeeps ==
    ASSUME TInv, NEW t \in Threads, ProcessLog(t)
    PROVE  TInv'
<1> USE DEF TInv
<1>1. PICK n \in 1..Len(wire) :
         /\ times' = Append(times, n)
         /\ rows' = [rows EXCEPT ![t] = RowsOf(IdOf(logictime), wire[n])]
         /\ History'
         /\ Len(times') = Len(times) + 1
         /\ Len(times') =< MaxExchanges
         /\ times'[Len(times')] = n
  BY TakePairIs
<1>2. /\ UNCHANGED <<refs, wire>> /\ pc' = [pc EXCEPT ![t] = "insert"]
      /\ UNCHANGED <<updates, advertisements, branchmods>>
      /\ UNCHANGED <<allUpdates, allAdverts, reported, incomplete>>
  BY DEF ProcessLog, TakePair, Goto, server, tables, inserted, results
<1>3. \A row : FromPair(row) => FromPair(row)'
  BY <1>1, <1>2, HistoryGrows
<1>4. ASSUME NEW row \in RowsOf(IdOf(logictime), wire[n])
      PROVE  FromPair(row)' /\ row \in UpdateRow \cup AdvertRow
  <2>1. /\ Len(times') \in 1..Len(times') /\ logictime = Len(times')
        /\ row \in RowsOf(IdOf(Len(times')), wire'[times'[Len(times')]])
    BY <1>1, <1>2, <1>4, HistoryFacts DEF History
  <2>2. FromPair(row)'
    BY <2>1 DEF FromPair
  <2>3. wire[n] \in Exchanges /\ IdOf(logictime) \in Int
    <3>1. logictime \in 1..MaxExchanges
      BY <1>1, <2>1, HistoryFacts, GitAssumption
    <3> QED BY <3>1, HistoryFacts, IdsDiffer
  <2>4. row \in UpdateRow \cup AdvertRow
    BY <1>4, <2>3, PushRows, AdvertisedRows DEF Exchanges
  <2> QED BY <2>2, <2>4
<1>5. Rows'
  BY <1>1, <1>2, <1>3, <1>4 DEF Rows
<1>6. Rest'
  BY <1>2 DEF Rest
<1> QED BY <1>1, <1>5, <1>6

LEMMA InsertKeeps ==
    ASSUME TInv, NEW t \in Threads, Insert(t)
    PROVE  TInv'
<1> USE DEF TInv
<1>1. /\ UNCHANGED <<refs, wire, logictime, times, branchmods, pc>>
      /\ UNCHANGED <<reported, incomplete>>
  BY DEF Insert, server, results
<1>2. PICK row \in rows[t] :
         /\ rows' = [rows EXCEPT ![t] = @ \ {row}]
         /\ IF "type" \in DOMAIN row
            THEN /\ updates' = updates \cup {row}
                 /\ allUpdates' = allUpdates \cup {row}
                 /\ UNCHANGED <<advertisements, allAdverts>>
            ELSE /\ advertisements' = advertisements \cup {row}
                 /\ allAdverts' = allAdverts \cup {row}
                 /\ UNCHANGED <<updates, allUpdates>>
  BY DEF Insert
<1>3. /\ FromPair(row)
      /\ "type" \in DOMAIN row => row \in UpdateRow
      /\ "type" \notin DOMAIN row => row \in AdvertRow
  BY TypedRow DEF Rows, FromPair
<1>4. History' /\ Rest'
  BY <1>1 DEF History, Logged, Rest
<1>5. \A r : FromPair(r) => FromPair(r)'
  BY <1>1, HistoryGrows
<1>6. /\ rows' \in [Threads -> SUBSET (UpdateRow \cup AdvertRow)]
      /\ \A s \in Threads : \A r \in rows'[s] : FromPair(r)'
  BY <1>2, <1>5 DEF Rows
<1>7. CASE "type" \in DOMAIN row
  BY <1>1, <1>2, <1>3, <1>5, <1>6, <1>7, <1>4 DEF Rows
<1>8. CASE "type" \notin DOMAIN row
  BY <1>1, <1>2, <1>3, <1>5, <1>6, <1>8, <1>4 DEF Rows
<1> QED BY <1>7, <1>8

(* Leaving process_log, auditing and trimming take nothing but pc and      *)
(* subsets of the tables further.                                          *)
LEMMA OthersKeep ==
    ASSUME TInv,
           \/ UNCHANGED vars
           \/ \E t \in Threads : Finish(t) \/ AuditCompleteness(t)
           \/ \E t \in Threads : AuditSoundness(t) \/ Trim(t)
    PROVE  TInv'
<1> USE DEF TInv
<1>1. /\ UNCHANGED <<refs, wire, logictime, times, branchmods, rows>>
      /\ UNCHANGED <<allUpdates, allAdverts>>
  BY DEF vars, server, tables, inserted, results, Finish, AuditCompleteness,
         AuditSoundness, Trim
<1>2. /\ updates' \subseteq updates /\ advertisements' \subseteq advertisements
      /\ reported' \subseteq reported \cup advertisements
  BY DEF vars, tables, results, Finish, AuditCompleteness, AuditSoundness,
         Trim, TrimUpdates, Unsound
<1>3. pc' \in [Threads -> {"idle", "insert", "completeness", "soundness",
                           "trimming"}]
  BY DEF vars, Rest, Finish, AuditCompleteness, AuditSoundness, Trim, Goto
<1>4. History' /\ Rest'
  BY <1>1, <1>3 DEF History, Logged, Rest
<1>5. \A r : FromPair(r) => FromPair(r)'
  BY <1>1, HistoryGrows
<1>6. Rows'
  BY <1>1, <1>2, <1>5 DEF Rows
<1> QED BY <1>4, <1>6

LEMMA NextTyped == TInv /\ [Next]_vars => TInv'
<1> SUFFICES ASSUME TInv, [Next]_vars PROVE TInv'
  OBVIOUS
<1>1. CASE Push
  BY <1>1, PushIs, ExchangeKeeps DEF TInv, Exchanges
<1>2. CASE Advertise
  <2>1. refs' \in [Repos -> [Branches -> Values]]
    BY <1>2, AdvertiseIs DEF TInv, Rest
  <2> QED BY <1>2, <2>1, AdvertiseIs, ExchangeKeeps DEF Exchanges
<1>3. ASSUME NEW t \in Threads, Thread(t) PROVE TInv'
  BY <1>3, TakePairKeeps, InsertKeeps, OthersKeep DEF Thread
<1>4. CASE UNCHANGED vars
  BY <1>4, OthersKeep
<1> QED BY <1>1, <1>2, <1>3, <1>4 DEF Next

LEMMA TypesHold == Spec => []TInv
  BY InitTyped, NextTyped, PTL DEF Spec

(* Every variable keeps its type, and the primary keys of updates and      *)
(* advertisements (main.cpp:171-198) never meet an insertion they would    *)
(* have to refuse, for any threads and any order of logging, as long as    *)
(* ids have wrapped around at most once.                                   *)
THEOREM TypeCorrect == Spec => []TypeOK
  BY TypesHold, InvTyped, PTL

-----------------------------------------------------------------------------
(* ONE THREAD: WHAT TRIMMING LEAVES                                        *)

OneThread == \A s, t \in Threads : s = t

(* The rows being inserted have the last time, there are none outside of   *)
(* process_log.                                                            *)
RowsAreNew ==
    \A t \in Threads : /\ pc[t] # "insert" => rows[t] = {}
                       /\ \A row \in rows[t] : row.time = Len(times)

(* Every group of updates has a greatest time.  That it is finite would    *)
(* imply it, too, but needs an induction.                                  *)
LatestExists ==
    \A v \in updates : \E u \in updates :
        SameRef(u, v) /\ \A w \in updates : SameRef(w, v) => w.time =< u.time

(* A row that was trimmed had been superseded before any advertisement     *)
(* that is still, or going to be, in the table.                            *)
Superseded ==
    \A v \in allUpdates \ updates : \E u \in updates :
        /\ SameRef(u, v) /\ v.time < u.time
        /\ \A a \in advertisements : u.time < a.time
        /\ \A t \in Threads : \A row \in rows[t] : u.time < row.time

VInv == RowsAreNew /\ LatestExists /\ Superseded

(* Without a wrap-around the rows in the tables have the times given out.  *)
LEMMA TimesOfRows ==
    ASSUME History, MaxExchanges =< IdMax, NEW row, FromPair(row)
    PROVE  row.time \in 1..Len(times)
<1>1. PICK n \in 1..Len(times) : row \in RowsOf(IdOf(n), wire[times[n]])
  BY DEF FromPair
<1>2. row.time = IdOf(n)
  BY <1>1, TypedRow
<1>3. n =< IdMax
  BY HistoryFacts, GitAssumption
<1> QED BY <1>2, <1>3 DEF IdOf

LEMMA TimesInTables ==
    ASSUME TInv, MaxExchanges =< IdMax
    PROVE  /\ Len(times) \in Nat
           /\ \A row \in allUpdates \cup allAdverts : row.time \in 1..Len(times)
           /\ \A row \in updates \cup advertisements : row.time \in 1..Len(times)
           /\ \A t \in Threads : \A row \in rows[t] : row.time \in 1..Len(times)
<1>1. Len(times) \in Nat
  BY HistoryFacts DEF TInv
<1> QED BY <1>1, TimesOfRows DEF TInv, Rows

(* What trimming removed makes no difference to the soundness query.       *)
LEMMA VerdictsSame ==
    ASSUME TInv, VInv, MaxExchanges =< IdMax
    PROVE  TrimmingPreservesVerdicts
<1> USE DEF TInv, VInv
<1>1. /\ updates \subseteq allUpdates /\ advertisements \subseteq allAdverts
      /\ \A row \in allUpdates \cup allAdverts : row.time \in Int
  BY TimesInTables DEF Rows
<1>2. ASSUME NEW a \in advertisements, NEW u \in updates, IsLatest(u, a, updates)
      PROVE  IsLatest(u, a, allUpdates)
  <2>1. ASSUME NEW v \in allUpdates, SameRef(v, a), v.time < a.time
        PROVE  v.time =< u.time
    <3>1. CASE v \in updates
      BY <1>2, <2>1, <3>1 DEF IsLatest
    <3>2. CASE v \notin updates
      <4>1. PICK w \in updates : /\ SameRef(w, v) /\ v.time < w.time
                                 /\ w.time < a.time
        BY <2>1, <3>2 DEF Superseded
      <4>2. w.time =< u.time
        BY <1>2, <2>1, <4>1 DEF IsLatest, SameRef
      <4> QED BY <1>1, <4>1, <4>2
    <3> QED BY <3>1, <3>2
  <2> QED BY <1>2, <2>1 DEF IsLatest
<1>3. ASSUME NEW a \in advertisements, NEW u \in allUpdates, IsLatest(u, a, allUpdates)
      PROVE  u \in updates /\ IsLatest(u, a, updates)
  <2>1. ASSUME u \notin updates PROVE FALSE
    <3>1. PICK w \in updates : /\ SameRef(w, u) /\ u.time < w.time
                               /\ w.time < a.time
      BY <2>1 DEF Superseded
    <3>2. w.time =< u.time
      BY <1>1, <1>3, <3>1 DEF IsLatest, SameRef
    <3> QED BY <1>1, <3>1, <3>2
  <2> QED BY <1>1, <1>3, <2>1 DEF IsLatest
<1>4. Unsound(advertisements, updates) \subseteq Unsound(advertisements, allUpdates)
  BY <1>1, <1>2 DEF Unsound
<1>5. Unsound(advertisements, allUpdates) \subseteq Unsound(advertisements, updates)
  BY <1>3 DEF Unsound
<1> QED BY <1>4, <1>5 DEF TrimmingPreservesVerdicts

LEMMA VInit == Init => VInv
<1> SUFFICES ASSUME Init PROVE VInv
  OBVIOUS
<1>1. RowsAreNew
  BY DEF Init, RowsAreNew
<1>2. LatestExists /\ Superseded
  BY DEF Init, LatestExists, Superseded
<1> QED BY <1>1, <1>2 DEF VInv

LEMMA TakePairSame ==
    ASSUME TInv, VInv, OneThread, MaxExchanges =< IdMax,
           NEW t \in Threads, ProcessLog(t)
    PROVE  VInv'
<1> USE DEF TInv, VInv
<1>1. PICK n \in 1..Len(wire) :
         /\ rows' = [rows EXCEPT ![t] = RowsOf(IdOf(logictime), wire[n])]
         /\ Len(times') = Len(times) + 1
         /\ Len(times') =< MaxExchanges
  BY TakePairIs
<1>2. /\ pc[t] = "idle" /\ pc' = [pc EXCEPT ![t] = "insert"]
      /\ UNCHANGED <<updates, advertisements, allUpdates>>
  BY DEF ProcessLog, TakePair, Goto, tables, inserted
<1>3. ASSUME NEW row \in RowsOf(IdOf(logictime), wire[n])
      PROVE  row.time = Len(times')
  <2>1. logictime = Len(times') /\ IdOf(logictime) = logictime /\ logictime \in Int
    BY <1>1, HistoryFacts, GitAssumption DEF History, IdOf
  <2>2. wire[n] \in Exchanges
    BY HistoryFacts
  <2> QED BY <1>3, <2>1, <2>2, PushRows, AdvertisedRows DEF Exchanges
<1>4. \A s \in Threads :
         /\ pc'[s] = "insert"
         /\ \A row \in rows'[s] : row.time = Len(times')
  BY <1>1, <1>2, <1>3 DEF OneThread, Rows, Rest
<1>5. RowsAreNew'
  BY <1>4 DEF RowsAreNew
<1>6. LatestExists'
  BY <1>2 DEF LatestExists
<1>7. Superseded'
  <2>1. ASSUME NEW v \in allUpdates \ updates
        PROVE  \E u \in updates :
                  /\ SameRef(u, v) /\ v.time < u.time
                  /\ \A a \in advertisements : u.time < a.time
                  /\ \A s \in Threads : \A row \in rows'[s] : u.time < row.time
    <3>1. PICK u \in updates : /\ SameRef(u, v) /\ v.time < u.time
                               /\ \A a \in advertisements : u.time < a.time
      BY DEF Superseded
    <3>2. u.time < Len(times')
      BY <1>1, TimesInTables
    <3> QED BY <1>4, <3>1, <3>2
  <2> QED BY <1>2, <2>1 DEF Superseded
<1> QED BY <1>5, <1>6, <1>7

LEMMA InsertSame ==
    ASSUME TInv, VInv, OneThread, MaxExchanges =< IdMax,
           NEW t \in Threads, Insert(t)
    PROVE  VInv'
<1> USE DEF TInv, VInv
<1>1. UNCHANGED <<times, pc>> /\ pc[t] = "insert"
  BY DEF Insert
<1>2. PICK row \in rows[t] :
         /\ rows' = [rows EXCEPT ![t] = @ \ {row}]
         /\ IF "type" \in DOMAIN row
            THEN /\ updates' = updates \cup {row}
                 /\ allUpdates' = allUpdates \cup {row}
                 /\ UNCHANGED <<advertisements, allAdverts>>
            ELSE /\ advertisements' = advertisements \cup {row}
                 /\ allAdverts' = allAdverts \cup {row}
                 /\ UNCHANGED <<updates, allUpdates>>
  BY DEF Insert
<1>3. \A s \in Threads : rows'[s] \subseteq rows[s]
  BY <1>2 DEF Rows
<1>4. RowsAreNew'
  <2>1. \A s \in Threads : pc'[s] = "insert"
    BY <1>1 DEF OneThread
  <2> QED BY <1>1, <1>3, <2>1 DEF RowsAreNew
<1>5. /\ row.time \in Int
      /\ \A w \in updates : w.time \in Int
  BY TimesInTables
<1>6. LatestExists'
  <2>1. CASE updates' = updates
    BY <2>1 DEF LatestExists
  <2>2. CASE updates' = updates \cup {row}
    <3>1. ASSUME NEW v \in updates'
          PROVE  \E u \in updates' :
                    SameRef(u, v) /\ \A w \in updates' : SameRef(w, v) => w.time =< u.time
      <4>1. CASE \E m \in updates : SameRef(m, v)
        <5>1. PICK u \in updates :
                SameRef(u, v) /\ \A w \in updates : SameRef(w, v) => w.time =< u.time
          BY <4>1 DEF LatestExists, SameRef
        <5>2. CASE SameRef(row, v) /\ u.time < row.time
          <6>1. \A w \in updates' : SameRef(w, v) => w.time =< row.time
            BY <1>5, <2>2, <5>1, <5>2
          <6> QED BY <2>2, <5>2, <6>1
        <5>3. CASE ~(SameRef(row, v) /\ u.time < row.time)
          <6>1. \A w \in updates' : SameRef(w, v) => w.time =< u.time
            BY <1>5, <2>2, <5>1, <5>3
          <6> QED BY <2>2, <5>1, <6>1
        <5> QED BY <5>2, <5>3
      <4>2. CASE ~\E m \in updates : SameRef(m, v)
        <5>1. v = row
          BY <2>2, <4>2 DEF SameRef
        <5>2. \A w \in updates' : SameRef(w, v) => w.time =< row.time
          BY <1>5, <2>2, <4>2
        <5>3. SameRef(row, v)
          BY <5>1 DEF SameRef
        <5> QED BY <2>2, <5>2, <5>3
      <4> QED BY <4>1, <4>2
    <3> QED BY <3>1 DEF LatestExists
  <2> QED BY <1>2, <2>1, <2>2
<1>7. Superseded'
  <2>1. allUpdates' \ updates' \subseteq allUpdates \ updates
    BY <1>2
  <2>2. updates \subseteq updates' /\ advertisements' \subseteq advertisements \cup {row}
    BY <1>2
  <2>3. ASSUME NEW v \in allUpdates \ updates
        PROVE  \E u \in updates' :
                  /\ SameRef(u, v) /\ v.time < u.time
                  /\ \A a \in advertisements' : u.time < a.time
                  /\ \A s \in Threads : \A r \in rows'[s] : u.time < r.time
    <3>1. PICK u \in updates :
              /\ SameRef(u, v) /\ v.time < u.time
              /\ \A a \in advertisements : u.time < a.time
              /\ \A s \in Threads : \A r \in rows[s] : u.time < r.time
      BY DEF Superseded
    <3> QED BY <1>3, <2>2, <3>1
  <2> QED BY <2>1, <2>3 DEF Superseded
<1> QED BY <1>4, <1>6, <1>7

(* Of every group the row with the greatest time remains, the later        *)
(* advertisements come after it.                                           *)
LEMMA TrimSame ==
    ASSUME TInv, VInv, OneThread, MaxExchanges =< IdMax,
           NEW t \in Threads, Trim(t)
    PROVE  VInv'
<1> USE DEF TInv, VInv
<1>1. /\ pc[t] = "trimming" /\ pc' = [pc EXCEPT ![t] = "idle"]
      /\ UNCHANGED <<times, rows, allUpdates>>
      /\ updates' = TrimUpdates(updates) /\ advertisements' = {}
  BY DEF Trim, Goto, inserted
<1>2. \A s \in Threads : rows[s] = {}
  BY <1>1 DEF OneThread, RowsAreNew
<1>3. RowsAreNew'
  BY <1>1, <1>2 DEF RowsAreNew
<1>4. updates' \subseteq updates
  BY <1>1 DEF TrimUpdates
<1>5. ASSUME NEW v \in updates
      PROVE  \E u \in updates' :
                SameRef(u, v) /\ \A w \in updates : SameRef(w, v) => w.time =< u.time
  <2>1. PICK u \in updates :
          SameRef(u, v) /\ \A w \in updates : SameRef(w, v) => w.time =< u.time
    BY DEF LatestExists
  <2>2. \A w \in updates : SameRef(w, u) => w.time =< u.time
    BY <2>1 DEF SameRef
  <2>3. u \in updates'
    BY <1>1, <2>2, LatestSurvives
  <2> QED BY <2>1, <2>3
<1>6. LatestExists'
  BY <1>4, <1>5 DEF LatestExists
<1>7. ASSUME NEW v \in allUpdates \ updates'
      PROVE  \E u \in updates' : SameRef(u, v) /\ v.time < u.time
  <2>1. \A w \in updates \cup allUpdates : w.time \in Int
    BY TimesInTables
  <2>2. CASE v \in updates
    <3>1. PICK u \in updates' :
            SameRef(u, v) /\ \A w \in updates : SameRef(w, v) => w.time =< u.time
      BY <1>5, <2>2
    <3>2. v.time =< u.time
      BY <2>2, <3>1 DEF SameRef
    <3>3. v.time # u.time
      BY <1>1, <2>2, <3>1 DEF TrimUpdates
    <3> QED BY <1>4, <2>1, <2>2, <3>1, <3>2, <3>3
  <2>3. CASE v \notin updates
    <3>1. PICK w \in updates : SameRef(w, v) /\ v.time < w.time
      BY <2>3 DEF Superseded
    <3>2. PICK u \in updates' :
            SameRef(u, w) /\ \A x \in updates : SameRef(x, w) => x.time =< u.time
      BY <1>5, <3>1
    <3>3. w.time =< u.time
      BY <3>1, <3>2 DEF SameRef
    <3>4. SameRef(u, v)
      BY <3>1, <3>2 DEF SameRef
    <3> QED BY <1>4, <2>1, <3>1, <3>2, <3>3, <3>4
  <2> QED BY <2>2, <2>3
<1>8. Superseded'
  BY <1>1, <1>2, <1>7 DEF Superseded
<1> QED BY <1>3, <1>6, <1>8

LEMMA VNext ==
    ASSUME OneThread, MaxExchanges =< IdMax
    PROVE  TInv /\ VInv /\ [Next]_vars => VInv'
<1> SUFFICES ASSUME TInv, VInv, [Next]_vars PROVE VInv'
  OBVIOUS
<1>1. ASSUME UNCHANGED <<times, rows, updates, advertisements, allUpdates, pc>>
      PROVE  VInv'
  BY <1>1 DEF VInv, RowsAreNew, LatestExists, Superseded
<1>2. CASE Push \/ Advertise
  <2>1. PICK x : Exchange(x)
    BY <1>2, Zenon DEF Push, Advertise
  <2>2. UNCHANGED <<times, rows, updates, advertisements, allUpdates, pc>>
    BY <2>1 DEF Exchange, tables, inserted
  <2> QED BY <1>1, <2>2
<1>3. ASSUME NEW t \in Threads, Finish(t) \/ AuditCompleteness(t) \/ AuditSoundness(t)
      PROVE  VInv'
  <2>1. UNCHANGED <<times, rows, updates, advertisements, allUpdates>>
    BY <1>3 DEF Finish, AuditCompleteness, AuditSoundness, tables, inserted
  <2>2. \A s \in Threads : pc'[s] # "insert" => pc[s] # "insert" \/ rows[s] = {}
    BY <1>3 DEF Finish, AuditCompleteness, AuditSoundness, Goto, TInv, Rest
  <2>3. RowsAreNew'
    BY <2>1, <2>2 DEF VInv, RowsAreNew
  <2> QED BY <2>1, <2>3 DEF VInv, LatestExists, Superseded
<1>4. CASE UNCHANGED vars
  BY <1>1, <1>4 DEF vars, tables, inserted
<1> QED BY <1>2, <1>3, <1>4, TakePairSame, InsertSame, TrimSame DEF Next, Thread

(* With one thread, whatever the order in which pairs reach it and         *)
(* whenever it trims, do_trimming (main.cpp:240-249) never changes what    *)
(* the soundness query returns, as long as the ids do not wrap around.     *)
THEOREM VerdictsSurviveTrimming ==
    ASSUME OneThread, MaxExchanges =< IdMax
    PROVE  Spec => []TrimmingPreservesVerdicts
<1>1. TInv /\ VInv => TrimmingPreservesVerdicts
  BY VerdictsSame
<1>2. TInv /\ VInv /\ [Next]_vars => (TInv /\ VInv)'
  BY NextTyped, VNext
<1>3. Init => TInv /\ VInv
  BY InitTyped, VInit
<1> QED BY <1>1, <1>2, <1>3, PTL DEF Spec

-----------------------------------------------------------------------------
(* ONE THREAD, IN THE ORDER OF THE SERVER: WHAT THE QUERY RETURNS          *)

InOrder == \A n \in 1..Len(times) : times[n] = n

Accepted ==
    \A k \in 1..Len(wire) :
        wire[k].what = "push" => wire[k].ok = DOMAIN wire[k].commands

(* No row of a push that was logged is lost. *)
Loaded ==
    \A k \in 1..Len(times) :
        wire[k].what = "push" =>
            \A row \in UpdateRows(k, wire[k]) :
                row \in allUpdates \/ \E t \in Threads : row \in rows[t]

(* Stale, for a row whose time is its place in wire. *)
PushesAt(a) ==
    {k \in 1..(a.time - 1) :
        /\ wire[k].what = "push" /\ wire[k].repo = a.repo
        /\ a.branch \in wire[k].ok}

StaleAt(a) ==
    \E k \in PushesAt(a) :
        /\ \A l \in PushesAt(a) : l =< k
        /\ wire[k].commands[a.branch].new # a.cid

Audited ==
    /\ \A a \in reported : StaleAt(a)
    /\ \A a \in allAdverts \ advertisements : StaleAt(a) => a \in reported
    /\ \A t \in Threads : pc[t] = "trimming" =>
          \A a \in advertisements : StaleAt(a) => a \in reported

OInv == InOrder /\ Accepted /\ Loaded /\ Audited

LEMMA StaleIs ==
    ASSUME TInv, InOrder, MaxExchanges =< IdMax,
           NEW a, a.time \in 1..Len(times)
    PROVE  Stale(a) <=> StaleAt(a)
<1>1. DOMAIN times = 1..Len(times) /\ Len(times) =< MaxExchanges /\ Len(times) \in Nat
  BY HistoryFacts DEF TInv
<1>2. \A n \in DOMAIN times : IdOf(n) = n
  BY <1>1, GitAssumption DEF IdOf
<1>3. (CHOOSE n \in DOMAIN times : IdOf(n) = a.time) = a.time
  <2>1. \E n \in DOMAIN times : IdOf(n) = a.time
    BY <1>1, <1>2
  <2>2. /\ (CHOOSE n \in DOMAIN times : IdOf(n) = a.time) \in DOMAIN times
        /\ IdOf(CHOOSE n \in DOMAIN times : IdOf(n) = a.time) = a.time
    BY <2>1, Zenon
  <2> QED BY <1>2, <2>2, Zenon
<1>4. ExchangeOf(a) = a.time
  BY <1>3 DEF ExchangeOf, InOrder
<1>5. PushesBefore(a) = PushesAt(a)
  BY <1>4, Zenon DEF PushesBefore, PushesAt
<1> QED BY <1>5, Zenon DEF Stale, StaleAt

(* What the server has done does not change. *)
LEMMA StaleStays ==
    ASSUME TInv,
           \/ times' = times /\ \E x \in Exchanges : wire' = Append(wire, x)
           \/ wire' = wire /\ \E n \in 1..Len(wire) : times' = Append(times, n)
           \/ UNCHANGED <<wire, times>>,
           NEW a, a.time \in 1..Len(times)
    PROVE  StaleAt(a)' <=> StaleAt(a)
<1>1. Len(times) =< Len(wire) /\ Len(times) \in Nat /\ Len(wire) \in Nat
  BY HistoryFacts DEF TInv
<1>2. \A k \in 1..Len(wire) : wire'[k] = wire[k]
  BY HistoryGrows DEF TInv
<1>3. \A k \in 1..(a.time - 1) : wire'[k] = wire[k]
  <2> DEFINE time == a.time
             n == Len(wire)
             m == Len(times)
  <2>1. time \in 1..m /\ m \in Nat /\ n \in Nat /\ m =< n
    BY <1>1
  <2> HIDE DEF time, n, m
  <2>2. 1..(time - 1) \subseteq 1..n
    BY <2>1
  <2> QED BY <1>2, <2>2, Zenon DEF time, n
<1>4. PushesAt(a)' = PushesAt(a)
  <2>1. \A k : k \in PushesAt(a)' <=> k \in PushesAt(a)
    BY <1>3, Zenon DEF PushesAt
  <2> QED BY <2>1, Zenon
<1>5. \A k \in PushesAt(a) : wire'[k] = wire[k]
  BY <1>3, Zenon DEF PushesAt
<1>6. StaleAt(a)' <=>
         \E k \in PushesAt(a)' :
            /\ \A l \in PushesAt(a)' : l =< k
            /\ wire'[k].commands[a.branch].new # a.cid
  BY Zenon DEF StaleAt
<1>7. ASSUME NEW k \in PushesAt(a)
      PROVE  wire'[k].commands[a.branch].new = wire[k].commands[a.branch].new
  BY <1>5, Zenon
<1> QED BY <1>4, <1>6, <1>7 DEF StaleAt

(* The rows of updates are the commands of the pushes accepted. *)
LEMMA RowsAreCommands ==
    ASSUME TInv, OInv, MaxExchanges =< IdMax, NEW u \in allUpdates
    PROVE  /\ u.time \in 1..Len(times)
           /\ wire[u.time].what = "push" /\ wire[u.time].repo = u.repo
           /\ u.branch \in wire[u.time].ok
           /\ u.cid = wire[u.time].commands[u.branch].new
<1> USE DEF TInv
<1>1. PICK n \in 1..Len(times) : u \in RowsOf(IdOf(n), wire[times[n]])
  BY DEF Rows, FromPair
<1>2. times[n] = n /\ n \in 1..Len(wire) /\ n \in 1..MaxExchanges
  BY HistoryFacts, GitAssumption DEF OInv, InOrder
<1>3. IdOf(n) = n /\ n \in Int
  BY <1>2, GitAssumption DEF IdOf
<1>4. wire[n] \in Exchanges
  BY <1>2, HistoryFacts
<1>5. wire[n] \in Pushes
  <2>1. "type" \in DOMAIN u
    BY DEF Rows, UpdateRow
  <2> QED BY <1>1, <1>2, <1>3, <1>4, <2>1, AdvertisedRows DEF Exchanges
<1>6. u \in UpdateRows(n, wire[n]) /\ u.time = n
  BY <1>1, <1>2, <1>3, <1>5, PushRows
<1>7. wire[n].what = "push" /\ wire[n].ok = DOMAIN wire[n].commands
  BY <1>2, <1>5 DEF Pushes, OInv, Accepted
<1>8. PICK b \in DOMAIN wire[n].commands :
         u = [time |-> n, repo |-> wire[n].repo, branch |-> b,
              cid |-> wire[n].commands[b].new,
              type |-> TypeOfCommand(wire[n].commands[b]),
              result |-> IF IsOk(wire[n], b) THEN 1 ELSE 0]
  BY <1>6 DEF UpdateRows
<1> QED BY <1>6, <1>7, <1>8

LEMMA CommandsAreRows ==
    ASSUME TInv, OInv, NEW a, NEW k \in PushesAt(a), k \in 1..Len(times),
           \A t \in Threads : rows[t] = {}
    PROVE  \E u \in allUpdates : u.time = k /\ SameRef(u, a)
<1>1. /\ wire[k].what = "push" /\ wire[k].repo = a.repo
      /\ a.branch \in wire[k].ok
  BY DEF PushesAt
<1>2. a.branch \in DOMAIN wire[k].commands
  BY <1>1, HistoryFacts DEF OInv, Accepted, TInv
<1> DEFINE u == [time |-> k, repo |-> wire[k].repo, branch |-> a.branch,
                 cid |-> wire[k].commands[a.branch].new,
                 type |-> TypeOfCommand(wire[k].commands[a.branch]),
                 result |-> IF IsOk(wire[k], a.branch) THEN 1 ELSE 0]
<1>3. u \in UpdateRows(k, wire[k])
  BY <1>2, Zenon DEF UpdateRows
<1>4. u \in allUpdates
  BY <1>1, <1>3 DEF OInv, Loaded
<1>5. u.time = k /\ SameRef(u, a)
  BY <1>1 DEF SameRef
<1> QED BY <1>4, <1>5

(* Once all rows are inserted the query returns what is stale. *)
LEMMA UnsoundIsStale ==
    ASSUME TInv, VInv, OInv, MaxExchanges =< IdMax,
           \A t \in Threads : rows[t] = {}
    PROVE  \A a \in advertisements : a \in Unsound(advertisements, updates) <=> StaleAt(a)
<1>1. Unsound(advertisements, updates) = Unsound(advertisements, allUpdates)
  BY VerdictsSame DEF TrimmingPreservesVerdicts
<1>2. TAKE a \in advertisements
<1>3. a.time \in 1..Len(times) /\ Len(times) \in Nat
  BY TimesInTables
<1>4. \A u \in allUpdates : SameRef(u, a) /\ u.time < a.time => u.time \in PushesAt(a)
  <2>1. TAKE u \in allUpdates
  <2>2. HAVE SameRef(u, a) /\ u.time < a.time
  <2>3. u.time \in 1..(a.time - 1)
    BY <1>3, <2>2, RowsAreCommands
  <2> QED BY <2>2, <2>3, RowsAreCommands DEF PushesAt, SameRef
<1>5. \A k \in PushesAt(a) : \E u \in allUpdates : u.time = k /\ SameRef(u, a)
  <2>1. PushesAt(a) \subseteq 1..Len(times)
    BY <1>3 DEF PushesAt
  <2> QED BY <2>1, CommandsAreRows
<1>6. \A k \in PushesAt(a) : k < a.time
  BY <1>3 DEF PushesAt
<1>7. ASSUME NEW u \in allUpdates, IsLatest(u, a, allUpdates), u.cid # a.cid
      PROVE  StaleAt(a)
  <2>1. u.time \in PushesAt(a)
    BY <1>4, <1>7 DEF IsLatest
  <2>2. \A l \in PushesAt(a) : l =< u.time
    BY <1>5, <1>6, <1>7 DEF IsLatest
  <2>3. wire[u.time].commands[a.branch].new # a.cid
    BY <1>7, RowsAreCommands DEF IsLatest, SameRef
  <2> QED BY <2>1, <2>2, <2>3 DEF StaleAt
<1>8. ASSUME StaleAt(a)
      PROVE  \E u \in allUpdates : IsLatest(u, a, allUpdates) /\ u.cid # a.cid
  <2>1. PICK k \in PushesAt(a) : /\ \A l \in PushesAt(a) : l =< k
                                 /\ wire[k].commands[a.branch].new # a.cid
    BY <1>8 DEF StaleAt
  <2>2. PICK u \in allUpdates : u.time = k /\ SameRef(u, a)
    BY <1>5
  <2>3. u.cid # a.cid
    BY <2>1, <2>2, RowsAreCommands DEF SameRef
  <2>4. IsLatest(u, a, allUpdates)
    BY <1>4, <1>6, <2>1, <2>2 DEF IsLatest
  <2> QED BY <2>3, <2>4
<1> QED BY <1>1, <1>7, <1>8 DEF Unsound

LEMMA OInit == Init => OInv
<1> SUFFICES ASSUME Init PROVE OInv
  OBVIOUS
<1>1. InOrder /\ Accepted /\ Loaded
  BY DEF Init, InOrder, Accepted, Loaded
<1>2. Audited
  BY DEF Init, Audited
<1> QED BY <1>1, <1>2 DEF OInv

(* The times of the rows the invariant speaks of. *)
LEMMA AdvertTimes ==
    ASSUME TInv, MaxExchanges =< IdMax
    PROVE  /\ advertisements \subseteq allAdverts /\ reported \subseteq allAdverts
           /\ \A a \in allAdverts : a.time \in 1..Len(times)
  BY TimesInTables DEF TInv, Rows

LEMMA ExchangeInOrder ==
    ASSUME TInv, OInv, MaxExchanges =< IdMax, NEW x \in Exchanges, Exchange(x),
           x.what = "push" => x.ok = DOMAIN x.commands
    PROVE  OInv'
<1>1. /\ wire' = Append(wire, x)
      /\ UNCHANGED <<times, pc, rows, advertisements, allUpdates, allAdverts, reported>>
  BY DEF Exchange, tables, inserted, results
<1>2. /\ Len(wire') = Len(wire) + 1 /\ Len(wire) \in Nat
      /\ \A k \in 1..Len(wire) : wire'[k] = wire[k]
      /\ wire'[Len(wire) + 1] = x
  BY <1>1, HistoryFacts, AppendProperties DEF TInv, History
<1>3. InOrder'
  BY <1>1 DEF OInv, InOrder
<1>4. Accepted'
  BY <1>2 DEF OInv, Accepted
<1>5. Loaded'
  <2>1. \A k \in 1..Len(times) : wire'[k] = wire[k]
    BY <1>2, HistoryFacts DEF TInv
  <2> QED BY <1>1, <2>1, Zenon DEF OInv, Loaded
<1>6. Audited'
  <2>1. \A a \in allAdverts : StaleAt(a)' <=> StaleAt(a)
    BY <1>1, StaleStays, AdvertTimes
  <2> QED BY <1>1, <2>1, AdvertTimes DEF OInv, Audited
<1> QED BY <1>3, <1>4, <1>5, <1>6 DEF OInv

LEMMA TakePairInOrder ==
    ASSUME TInv, OInv, RowsAreNew, Ordered, OneThread, MaxExchanges =< IdMax,
           NEW t \in Threads, ProcessLog(t)
    PROVE  OInv'
<1>1. PICK n \in 1..Len(wire) :
         /\ n \notin Logged
         /\ \A k \in 1..(n - 1) : k \in Logged
         /\ times' = Append(times, n)
         /\ rows' = [rows EXCEPT ![t] = RowsOf(IdOf(logictime), wire[n])]
         /\ Len(times') = Len(times) + 1
         /\ Len(times') =< MaxExchanges
         /\ times'[Len(times')] = n
  BY TakePairIs
<1>2. /\ pc[t] = "idle" /\ pc' = [pc EXCEPT ![t] = "insert"]
      /\ UNCHANGED <<wire, advertisements, allUpdates, allAdverts, reported>>
  BY DEF ProcessLog, TakePair, Goto, server, tables, inserted, results
<1>3. /\ Len(times) \in Nat /\ Len(wire) \in Nat /\ logictime = Len(times) + 1
      /\ \A i \in 1..Len(times) : times'[i] = times[i]
  BY <1>1, HistoryFacts, AppendProperties DEF TInv, History
<1>4. Logged = 1..Len(times)
  BY HistoryFacts DEF Logged, OInv, InOrder, TInv
<1>5. n = Len(times) + 1
  <2>1. n > Len(times)
    BY <1>1, <1>3, <1>4
  <2>2. n > 1 => n - 1 =< Len(times)
    BY <1>1, <1>3, <1>4
  <2> QED BY <1>3, <2>1, <2>2
<1>6. InOrder'
  BY <1>1, <1>3, <1>5 DEF OInv, InOrder
<1>7. Accepted'
  BY <1>2 DEF OInv, Accepted
<1>8. rows'[t] = RowsOf(n, wire[n])
  <2>1. IdOf(logictime) = n
    BY <1>1, <1>3, <1>5, GitAssumption DEF IdOf
  <2> QED BY <1>1, <2>1 DEF TInv, Rows
<1>9. Loaded'
  <2>1. \A s \in Threads : rows[s] = {}
    BY <1>2 DEF OneThread, RowsAreNew
  <2>2. ASSUME NEW k \in 1..Len(times'), wire[k].what = "push",
               NEW row \in UpdateRows(k, wire[k])
        PROVE  row \in allUpdates \/ \E s \in Threads : row \in rows'[s]
    <3>1. CASE k = n
      BY <1>8, <2>2, <3>1 DEF RowsOf
    <3>2. CASE k # n
      <4>1. k \in 1..Len(times)
        BY <1>1, <1>3, <1>5, <3>2
      <4> QED BY <2>1, <2>2, <4>1 DEF OInv, Loaded
    <3> QED BY <3>1, <3>2
  <2> QED BY <1>2, <2>2, Zenon DEF Loaded
<1>10. Audited'
  <2>1. \A a \in allAdverts : StaleAt(a)' <=> StaleAt(a)
    BY <1>1, <1>2, StaleStays, AdvertTimes
  <2>2. \A s \in Threads : pc'[s] # "trimming"
    BY <1>2 DEF OneThread, TInv, Rest
  <2> QED BY <1>2, <2>1, <2>2, AdvertTimes DEF OInv, Audited
<1> QED BY <1>6, <1>7, <1>9, <1>10 DEF OInv

LEMMA InsertInOrder ==
    ASSUME TInv, OInv, OneThread, MaxExchanges =< IdMax,
           NEW t \in Threads, Insert(t)
    PROVE  OInv'
<1>1. UNCHANGED <<wire, times, pc, reported>> /\ pc[t] = "insert"
  BY DEF Insert, server, results
<1>2. PICK row \in rows[t] :
         /\ rows' = [rows EXCEPT ![t] = @ \ {row}]
         /\ IF "type" \in DOMAIN row
            THEN /\ updates' = updates \cup {row}
                 /\ allUpdates' = allUpdates \cup {row}
                 /\ UNCHANGED <<advertisements, allAdverts>>
            ELSE /\ advertisements' = advertisements \cup {row}
                 /\ allAdverts' = allAdverts \cup {row}
                 /\ UNCHANGED <<updates, allUpdates>>
  BY DEF Insert
<1>3. InOrder' /\ Accepted'
  BY <1>1 DEF OInv, InOrder, Accepted
<1>4. Loaded'
  <2>1. ASSUME NEW k \in 1..Len(times), wire[k].what = "push",
               NEW r \in UpdateRows(k, wire[k])
        PROVE  r \in allUpdates' \/ \E s \in Threads : r \in rows'[s]
    <3>1. CASE r = row
      <4>1. "type" \in DOMAIN r
        BY <2>1 DEF UpdateRows
      <4> QED BY <1>2, <3>1, <4>1
    <3>2. CASE r # row
      <4>1. r \in allUpdates \/ \E s \in Threads : r \in rows[s]
        BY <2>1 DEF OInv, Loaded
      <4>2. \A s \in Threads : r \in rows[s] => r \in rows'[s]
        BY <1>2, <3>2 DEF TInv, Rows
      <4>3. allUpdates \subseteq allUpdates'
        BY <1>2
      <4> QED BY <4>1, <4>2, <4>3
    <3> QED BY <3>1, <3>2
  <2> QED BY <1>1, <2>1, Zenon DEF Loaded
<1>5. Audited'
  <2>1. \A a : StaleAt(a)' <=> StaleAt(a)
    BY <1>1, Zenon DEF StaleAt, PushesAt
  <2>2. \A s \in Threads : pc'[s] # "trimming"
    BY <1>1 DEF OneThread
  <2>3. allAdverts' \ advertisements' \subseteq allAdverts \ advertisements
    BY <1>2
  <2> QED BY <1>1, <2>1, <2>2, <2>3 DEF OInv, Audited
<1> QED BY <1>3, <1>4, <1>5 DEF OInv

(* The query sees every advertisement before it is trimmed, and every push *)
(* before it.                                                              *)
LEMMA AuditInOrder ==
    ASSUME TInv, VInv, OInv, OneThread, MaxExchanges =< IdMax,
           NEW t \in Threads, AuditSoundness(t)
    PROVE  OInv'
<1>1. /\ UNCHANGED <<wire, times, rows, advertisements, allUpdates, allAdverts>>
      /\ reported' = reported \cup Unsound(advertisements, updates)
      /\ pc[t] = "soundness"
  BY DEF AuditSoundness, server, tables, inserted
<1>2. \A s \in Threads : rows[s] = {}
  BY <1>1 DEF OneThread, VInv, RowsAreNew
<1>3. \A a \in advertisements : a \in Unsound(advertisements, updates) <=> StaleAt(a)
  BY <1>2, UnsoundIsStale
<1>4. \A a : StaleAt(a)' <=> StaleAt(a)
  BY <1>1, Zenon DEF StaleAt, PushesAt
<1>5. InOrder' /\ Accepted' /\ Loaded'
  BY <1>1 DEF OInv, InOrder, Accepted, Loaded
<1>6. Unsound(advertisements, updates) \subseteq advertisements
  BY DEF Unsound
<1>7. Audited'
  BY <1>1, <1>3, <1>4, <1>6 DEF OInv, Audited
<1> QED BY <1>5, <1>7 DEF OInv

LEMMA OthersInOrder ==
    ASSUME TInv, OInv, OneThread,
           \/ UNCHANGED vars
           \/ \E t \in Threads : Finish(t) \/ AuditCompleteness(t) \/ Trim(t)
    PROVE  OInv'
<1>1. UNCHANGED <<wire, times, rows, allUpdates, allAdverts, reported>>
  BY DEF vars, server, tables, inserted, results, Finish, AuditCompleteness, Trim
<1>2. \A a : StaleAt(a)' <=> StaleAt(a)
  BY <1>1, Zenon DEF StaleAt, PushesAt
<1>3. InOrder' /\ Accepted' /\ Loaded'
  BY <1>1 DEF OInv, InOrder, Accepted, Loaded
<1>4. Audited'
  <2>1. CASE UNCHANGED vars
    <3>1. advertisements' = advertisements /\ pc' = pc
      BY <2>1 DEF vars, tables
    <3> QED BY <1>1, <1>2, <3>1 DEF OInv, Audited
  <2>2. ASSUME NEW t \in Threads, Finish(t) \/ AuditCompleteness(t) PROVE Audited'
    <3>1. advertisements' = advertisements
      BY <2>2 DEF Finish, AuditCompleteness, tables
    <3>2. \A s \in Threads : pc'[s] # "trimming"
      BY <2>2 DEF Finish, AuditCompleteness, Goto, OneThread, TInv, Rest
    <3> QED BY <1>1, <1>2, <3>1, <3>2 DEF OInv, Audited
  <2>3. ASSUME NEW t \in Threads, Trim(t) PROVE Audited'
    <3>1. pc[t] = "trimming" /\ advertisements' = {}
      BY <2>3 DEF Trim
    <3>2. \A s \in Threads : pc'[s] # "trimming"
      BY <2>3 DEF Trim, Goto, OneThread, TInv, Rest
    <3> QED BY <1>1, <1>2, <3>1, <3>2 DEF OInv, Audited
  <2> QED BY <2>1, <2>2, <2>3
<1> QED BY <1>3, <1>4 DEF OInv

LEMMA ONext ==
    ASSUME OneThread, Ordered, ~Rejects, MaxExchanges =< IdMax
    PROVE  TInv /\ VInv /\ OInv /\ [Next]_vars => OInv'
<1> SUFFICES ASSUME TInv, VInv, OInv, [Next]_vars PROVE OInv'
  OBVIOUS
<1>1. CASE Push
  <2>1. PICK x \in Pushes : x.ok = DOMAIN x.commands /\ Exchange(x)
    BY <1>1, PushIs DEF TInv
  <2> QED BY <2>1, ExchangeInOrder DEF Exchanges
<1>2. CASE Advertise
  <2>1. PICK x \in Advertisements : Exchange(x)
    BY <1>2, AdvertiseIs
  <2>2. x.what # "push"
    BY DEF Advertisements
  <2> QED BY <2>1, <2>2, ExchangeInOrder DEF Exchanges
<1>3. ASSUME NEW t \in Threads, Thread(t) PROVE OInv'
  BY <1>3, TakePairInOrder, InsertInOrder, AuditInOrder, OthersInOrder DEF Thread, VInv
<1>4. CASE UNCHANGED vars
  BY <1>4, OthersInOrder
<1> QED BY <1>1, <1>2, <1>3, <1>4 DEF Next

LEMMA VerdictsHold ==
    ASSUME OneThread, Ordered, ~Rejects, MaxExchanges =< IdMax
    PROVE  Spec => [](TInv /\ OInv)
<1>1. TInv /\ VInv /\ OInv /\ [Next]_vars => (TInv /\ VInv /\ OInv)'
  BY NextTyped, VNext, ONext
<1>2. Init => TInv /\ VInv /\ OInv
  BY InitTyped, VInit, OInit
<1> QED BY <1>1, <1>2, PTL DEF Spec

(* A server that rolls back a branch is caught: with one thread that logs  *)
(* pairs in the server's order, and a server that rejects no push, every   *)
(* stale advertisement has been returned by the soundness query            *)
(* (main.cpp:224-238) before it is trimmed, however rarely the audit runs. *)
THEOREM RollbacksAreCaught ==
    ASSUME OneThread, Ordered, ~Rejects, MaxExchanges =< IdMax
    PROVE  Spec => []RollbacksCaught
<1>1. TInv /\ OInv => RollbacksCaught
  <2> SUFFICES ASSUME TInv, OInv, NEW a \in allAdverts, Stale(a)
               PROVE  a \in reported \cup advertisements
    BY DEF RollbacksCaught
  <2>1. StaleAt(a)
    BY StaleIs, AdvertTimes DEF OInv
  <2> QED BY <2>1 DEF OInv, Audited
<1> QED BY <1>1, VerdictsHold, PTL

(* Under the same assumptions the query accuses the server of nothing it   *)
(* has not done.                                                           *)
THEOREM AlarmsAreTrue ==
    ASSUME OneThread, Ordered, ~Rejects, MaxExchanges =< IdMax
    PROVE  Spec => []NoFalseAlarm
<1>1. TInv /\ OInv => NoFalseAlarm
  <2> SUFFICES ASSUME TInv, OInv, NEW a \in reported PROVE Stale(a)
    BY DEF NoFalseAlarm
  <2>1. StaleAt(a)
    BY DEF OInv, Audited
  <2> QED BY <2>1, StaleIs, AdvertTimes DEF OInv
<1> QED BY <1>1, VerdictsHold, PTL

=============================================================================
