----------------------------- MODULE GitAuditor -----------------------------
(***************************************************************************)
(* The auditing module for Git, src/libseal/auditing/auditing/auditors/git:*)
(* pushes become rows of updates, advertisements of refs become rows of    *)
(* advertisements; two queries look for violations, trimming removes what  *)
(* the queries are held to need no longer.                                 *)
(*                                                                         *)
(* wire is the order in which the server has really dealt with requests.   *)
(* The pairs reach process_log later and, over several connections, in     *)
(* another order; every insertion, query and trimming is one transaction   *)
(* (module Logpoint), between which other threads run.                     *)
(***************************************************************************)
EXTENDS Integers, Sequences, FiniteSets

CONSTANTS
    Threads,        \* threads that log pairs
    Repos,
    Branches,       \* names of refs, HEAD among them
    HEAD,
    Cids,           \* commit ids
    Zero,           \* gitZeroId
    NoRef,          \* "capabilities^{}", the name in GIT_NO_REF_LINE
    Ordered,        \* pairs are logged in the order of wire
    Rejects,        \* the server may reject pushes
    IdMax,          \* INT_MAX
    MaxExchanges    \* bound: pushes and advertisements

ASSUME GitAssumption ==
    /\ HEAD \in Branches
    /\ NoRef \notin Branches
    /\ Zero \notin Cids
    /\ {Ordered, Rejects} \subseteq BOOLEAN
    /\ {IdMax, MaxExchanges} \subseteq Nat
    /\ MaxExchanges - IdMax =< IdMax        \* no two pairs share an id

VARIABLES
    refs,           \* the server's repositories
    wire,           \* history: what the server and its clients exchanged
    logictime,
    times,          \* history: times[n] is the exchange with logictime n
    updates, advertisements, branchmods,    \* the tables
    pc,             \* where each thread is
    rows,           \* rows of its pair a thread has not inserted yet
    allUpdates,     \* history: rows ever inserted into updates
    allAdverts,     \* history: rows ever inserted into advertisements
    reported,       \* history: rows returned by the soundness query
    incomplete      \* history: rows returned by the completeness query

server   == <<refs, wire>>
tables   == <<updates, advertisements, branchmods>>
inserted == <<allUpdates, allAdverts>>
results  == <<reported, incomplete>>
vars == <<server, logictime, times, tables, pc, rows, inserted, results>>

Values == Cids \cup {Zero}

Init ==
    /\ refs = [r \in Repos |-> [b \in Branches |-> Zero]]
    /\ wire = <<>>
    /\ logictime = 1
    /\ times = <<>>
    /\ updates = {} /\ advertisements = {} /\ branchmods = {}
    /\ pc = [t \in Threads |-> "idle"]
    /\ rows = [t \in Threads |-> {}]
    /\ allUpdates = {} /\ allAdverts = {}
    /\ reported = {} /\ incomplete = {}

Goto(t, label) == pc' = [pc EXCEPT ![t] = label]

-----------------------------------------------------------------------------
(* THE SERVER                                                              *)

Exchange(x) ==
    /\ Len(wire) < MaxExchanges
    /\ wire' = Append(wire, x)
    /\ UNCHANGED <<logictime, times, tables, pc, rows, inserted, results>>

(* A client creates, updates or deletes branches; the server accepts some. *)
Push ==
    \E r \in Repos, B \in SUBSET (Branches \ {HEAD}) :
        \E new \in [B -> Values], ok \in SUBSET B :
            /\ B # {}
            /\ \A b \in B : new[b] # refs[r][b]
            /\ Rejects \/ ok = B
            /\ Exchange([what |-> "push", repo |-> r, ok |-> ok,
                         commands |-> [b \in B |-> [old |-> refs[r][b],
                                                    new |-> new[b]]]])
            /\ refs' = [refs EXCEPT ![r] =
                           [b \in Branches |-> IF b \in ok THEN new[b] ELSE @[b]]]

(* The server claims anything about the refs of a repository: without any  *)
(* the first line holds the id Zero and no name of a ref.                  *)
Advertise ==
    \E r \in Repos, B \in SUBSET Branches : \E claim \in [B -> Cids] :
        /\ Exchange([what |-> "advertisement", repo |-> r,
                     lines |-> IF B = {} THEN [b \in {NoRef} |-> Zero]
                               ELSE claim])
        /\ UNCHANGED refs

-----------------------------------------------------------------------------
(* FROM A PAIR TO ROWS                                                     *)

(* parseGitPackAdvertisement: the lines of an advertisement as a map from  *)
(* names to ids, GIT_NO_REF_LINE excepted.                                 *)
RefsOf(x) ==
    LET names == {b \in DOMAIN x.lines : <<x.lines[b], b>> # <<Zero, NoRef>>}
    IN  [b \in names |-> x.lines[b]]

(* initResults and addEventParams: a command's result is ok if the server  *)
(* said so, and ng if it said anything else, or nothing.                   *)
IsOk(x, b) == b \in x.ok

(* The type in the row of a command. *)
TypeOfCommand(c) ==
    IF c.new = Zero THEN "d" ELSE IF c.old = Zero THEN "c" ELSE "u"

UpdateRows(id, x) ==
    {[time |-> id, repo |-> x.repo, branch |-> b, cid |-> x.commands[b].new,
      type |-> TypeOfCommand(x.commands[b]),
      result |-> IF IsOk(x, b) THEN 1 ELSE 0] : b \in DOMAIN x.commands}

AdvertRows(id, x) ==
    {[time |-> id, repo |-> x.repo, branch |-> b, cid |-> RefsOf(x)[b]] :
        b \in DOMAIN RefsOf(x)}

RowsOf(id, x) ==
    IF x.what = "push" THEN UpdateRows(id, x) ELSE AdvertRows(id, x)

Logged == {times[n] : n \in DOMAIN times}

(* The 64-bit logictime as an int, in two's complement.                    *)
IdOf(n) == IF n =< IdMax THEN n ELSE n - IdMax - IdMax - 2

(* libseal_process_log_at_runtime: the pair gets its time and its rows.    *)
TakePair(t, next) ==
    /\ pc[t] = "idle"
    /\ \E n \in DOMAIN wire \ Logged :
          /\ Ordered => \A k \in 1..(n - 1) : k \in Logged
          /\ times' = Append(times, n)
          /\ rows' = [rows EXCEPT ![t] = RowsOf(IdOf(logictime), wire[n])]
    /\ logictime' = next
    /\ Goto(t, "insert")
    /\ UNCHANGED <<server, tables, inserted, results>>

TakePairSameTime(t) == TakePair(t, logictime)       \* mutant: no increment

ProcessLog(t) == TakePair(t, logictime + 1)

(* insert_statement, for the table the row belongs to.                     *)
Insert(t) ==
    /\ pc[t] = "insert"
    /\ \E row \in rows[t] :
          /\ rows' = [rows EXCEPT ![t] = @ \ {row}]
          /\ IF "type" \in DOMAIN row
             THEN /\ updates' = updates \cup {row}
                  /\ allUpdates' = allUpdates \cup {row}
                  /\ UNCHANGED <<advertisements, allAdverts>>
             ELSE /\ advertisements' = advertisements \cup {row}
                  /\ allAdverts' = allAdverts \cup {row}
                  /\ UNCHANGED <<updates, allUpdates>>
    /\ UNCHANGED <<server, logictime, times, branchmods, pc, results>>

(* process_log returns; which call goes on to an audit is decided by the   *)
(* counter of module Logpoint.                                             *)
Finish(t) ==
    /\ pc[t] = "insert"
    /\ rows[t] = {}
    /\ \E label \in {"idle", "completeness"} : Goto(t, label)
    /\ UNCHANGED <<server, logictime, times, tables, rows, inserted, results>>

-----------------------------------------------------------------------------
(* THE QUERIES                                                             *)

(* The view branchcnt2: for an advertisement, how many branches of its     *)
(* repository have a last modification, before it, that is no deletion.    *)
BranchCounts(adverts, mods) ==
    LET Live(a) ==
          {m \in mods : /\ m.time < a.time /\ m.repo = a.repo /\ m.type # "d"
                        /\ \A n \in mods :
                              n.branch = m.branch /\ n.repo = m.repo
                                => ~(n.time < a.time /\ n.time > m.time)}
    IN  {[time |-> a.time, repo |-> a.repo,
          count |-> Cardinality(Live(a))] :
             a \in {a \in adverts : Live(a) # {}}}

(* The view incomplete2: advertisements with another number of branches.   *)
Incomplete(adverts, mods) ==
    {c \in BranchCounts(adverts, mods) :
        LET shown == {a.branch : a \in {a \in adverts :
                         a.time = c.time /\ a.repo = c.repo}} \ {HEAD}
        IN  shown # {} /\ Cardinality(shown) # c.count}

SameRef(u, a) == u.repo = a.repo /\ u.branch = a.branch

(* u is the row ORDER BY time DESC LIMIT 1 returns for an advertisement.   *)
IsLatest(u, a, ups) ==
    /\ SameRef(u, a)
    /\ u.time < a.time
    /\ \A v \in ups : SameRef(v, a) /\ v.time < a.time => v.time =< u.time

(* mutant: the soundness query looks at the future, too *)
UnsoundAnyTime(adverts, ups) ==
    {a \in adverts : \E u \in ups : SameRef(u, a) /\ u.cid # a.cid}

(* The soundness query.  Without a row in updates the subquery is NULL, no *)
(* cid is <> NULL, and the advertisement is not reported.                  *)
Unsound(adverts, ups) ==
    {a \in adverts : \E u \in ups : IsLatest(u, a, ups) /\ u.cid # a.cid}

AuditCompleteness(t) ==
    /\ pc[t] = "completeness"
    /\ incomplete' = incomplete \cup Incomplete(advertisements, branchmods)
    /\ Goto(t, "soundness")
    /\ UNCHANGED <<server, logictime, times, tables, rows, inserted, reported>>

AuditSoundness(t) ==
    /\ pc[t] = "soundness"
    /\ reported' = reported \cup Unsound(advertisements, updates)
    /\ Goto(t, "trimming")
    /\ UNCHANGED <<server, logictime, times, tables, rows, inserted, incomplete>>

-----------------------------------------------------------------------------
(* TRIMMING                                                                *)

(* mutant: grouped by repo alone *)
MaxTimesOfRepos(ups) ==
    {u.time : u \in {u \in ups :
                 \A v \in ups : v.repo = u.repo => v.time =< u.time}}

(* SELECT MAX(time) FROM updates GROUP BY repo, branch.                    *)
MaxTimes(ups) ==
    {u.time : u \in {u \in ups :
                 \A v \in ups : SameRef(v, u) => v.time =< u.time}}

TrimUpdates(ups) == {u \in ups : u.time \in MaxTimes(ups)}

Trim(t) ==
    /\ pc[t] = "trimming"
    /\ updates' = TrimUpdates(updates)
    /\ advertisements' = {}
    /\ Goto(t, "idle")
    /\ UNCHANGED <<server, logictime, times, branchmods, rows, inserted,
                   results>>

-----------------------------------------------------------------------------
Thread(t) ==
    \/ ProcessLog(t) \/ Insert(t) \/ Finish(t)
    \/ AuditCompleteness(t) \/ AuditSoundness(t) \/ Trim(t)

Next == Push \/ Advertise \/ \E t \in Threads : Thread(t)

Spec == Init /\ [][Next]_vars

-----------------------------------------------------------------------------
(* PROPERTIES                                                              *)

UpdateRow == [time : Int, repo : Repos, branch : Branches, cid : Values,
              type : {"c", "u", "d"}, result : {0, 1}]
AdvertRow == [time : Int, repo : Repos, branch : Branches, cid : Cids]

SameKey(u, v) == u.time = v.time /\ SameRef(u, v)
PrimaryKey(table) == \A u, v \in table : SameKey(u, v) => u = v

(* Every variable keeps its type, and every table its primary key: an      *)
(* insertion that broke it would be refused and the row be lost.           *)
TypeOK ==
    /\ refs \in [Repos -> [Branches -> Values]]
    /\ Len(wire) =< MaxExchanges
    /\ logictime \in Nat
    /\ times \in Seq(DOMAIN wire)
    /\ updates \subseteq UpdateRow /\ PrimaryKey(updates)
    /\ advertisements \subseteq AdvertRow /\ PrimaryKey(advertisements)
    /\ branchmods = {}
    /\ pc \in [Threads -> {"idle", "insert", "completeness", "soundness",
                           "trimming"}]
    /\ rows \in [Threads -> SUBSET (UpdateRow \cup AdvertRow)]
    /\ allUpdates \subseteq UpdateRow
    /\ allAdverts \subseteq AdvertRow
    /\ reported \subseteq AdvertRow

(* The exchange a row belongs to. *)
ExchangeOf(row) == times[CHOOSE n \in DOMAIN times : IdOf(n) = row.time]

(* The pushes to the ref of row a that the server accepted before it sent  *)
(* the advertisement a belongs to.                                         *)
PushesBefore(a) ==
    {k \in 1..(ExchangeOf(a) - 1) :
        /\ wire[k].what = "push" /\ wire[k].repo = a.repo
        /\ a.branch \in wire[k].ok}

(* The server advertised another commit than the one pushed last.          *)
Stale(a) ==
    \E k \in PushesBefore(a) :
        /\ \A l \in PushesBefore(a) : l =< k
        /\ wire[k].commands[a.branch].new # a.cid

(* The server left out a branch it had accepted and not deleted since.     *)
Omits(n) ==
    /\ wire[n].what = "advertisement"
    /\ \E b \in Branches : \E k \in 1..(n - 1) :
          LET Pushed(j) == /\ wire[j].what = "push"
                           /\ wire[j].repo = wire[n].repo
                           /\ b \in wire[j].ok
          IN  /\ b \notin DOMAIN wire[n].lines
              /\ Pushed(k) /\ wire[k].commands[b].new # Zero
              /\ \A j \in (k + 1)..(n - 1) : ~Pushed(j)

(* README.md:63-64: trimming removes "entries that are no longer needed to *)
(* check the log".  Then a stale advertisement is not trimmed before a     *)
(* query has returned it.                                                  *)
RollbacksCaught ==
    \A a \in allAdverts : Stale(a) => a \in reported \cup advertisements

(* README.md:59: the module has "queries to check for integrity            *)
(* violations".  Then what they return is one: the server is never accused *)
(* of an advertisement that agrees with the pushes it accepted.            *)
NoFalseAlarm == \A a \in reported : Stale(a)

(* auditors/git/main.cpp:222: the first query is the one for completeness. *)
(* Then an advertisement that leaves out a branch is not trimmed before    *)
(* this query has returned it.                                             *)
OmissionsCaught ==
    \A a \in allAdverts \ advertisements :
        Omits(ExchangeOf(a)) => \E c \in incomplete : c.time = a.time

(* What has been trimmed makes no difference: the soundness query returns  *)
(* for the advertisements of the table what it would return had no row of  *)
(* updates ever been deleted.                                              *)
TrimmingPreservesVerdicts ==
    Unsound(advertisements, updates) = Unsound(advertisements, allUpdates)

(* However threads interleave and whenever they trim, the last push to a   *)
(* branch that was logged stays in the database: later advertisements are  *)
(* compared with it.                                                       *)
LatestPushKept ==
    \A u \in allUpdates :
        (\A v \in allUpdates : SameRef(v, u) => v.time =< u.time)
            => u \in updates

=============================================================================
