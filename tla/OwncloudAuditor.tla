--------------------------- MODULE OwncloudAuditor ---------------------------
(***************************************************************************)
(* The auditing module for ownCloud Documents, auditors/owncloud.  Members *)
(* of a session edit one document: a poll brings operations to the server, *)
(* which accepts them all ("added") or none ("conflict"), or it fetches    *)
(* those of others ("new_ops").  What was accepted and what was sent       *)
(* becomes rows of sync; the query compares, for each row sent to a member,*)
(* what the server has accepted with what that member has.                 *)
(*                                                                         *)
(* wire is the order in which the server has really dealt with polls.      *)
(***************************************************************************)
EXTENDS Integers, Sequences
S == INSTANCE SequencesExt

CONSTANTS
    Threads,        \* threads that log pairs
    Sessions,       \* es_id
    Members,        \* member_id
    SessionsOf,     \* the sessions each member takes part in
    Central,        \* 0, the sender or receiver that stands for the server
    Ops,            \* operations: an optype with its position and text
    Recorded,       \* those of the five optypes that make it into an update
    Quoted,         \* operations whose text holds a quotation mark
    Alike,          \* pairs of operations of which LIKE takes the second for
                    \* the first: a wildcard in its text, or another case
    MaxOps,         \* bound: operations per poll
    MaxLies,        \* bound: polls that are not answered honestly
    MaxExchanges    \* bound: pairs

ASSUME OwncloudAssumption ==
    /\ SessionsOf \in [Members -> SUBSET Sessions]
    /\ Central \notin Members
    /\ Recorded \subseteq Ops /\ Quoted \subseteq Recorded
    /\ Alike \subseteq Ops \X Ops
    /\ {MaxOps, MaxLies, MaxExchanges} \subseteq Nat

VARIABLES
    accepted,       \* the operations of each session, as the server has them
    seen,           \* how many of them each member has been brought up to
    lies,           \* history: answers that were not honest
    wire,           \* history: polls and other pairs
    logictime,
    times,          \* history: times[id] is the exchange with logictime id
    sync,           \* the table
    pc,             \* where each thread is
    result,         \* the row a thread is about to insert
    refused         \* history: rows that did not get into the table

server == <<accepted, seen, lies, wire>>
vars == <<server, logictime, times, sync, pc, result, refused>>

None == <<>>

Init ==
    /\ accepted = [e \in Sessions |-> <<>>]
    /\ seen = [m \in Members |-> [e \in SessionsOf[m] |-> 0]]
    /\ lies = 0
    /\ wire = <<>>
    /\ logictime = 1
    /\ times = <<>>
    /\ sync = {}
    /\ pc = [t \in Threads |-> "idle"]
    /\ result = [t \in Threads |-> None]
    /\ refused = {}

-----------------------------------------------------------------------------
(* THE SERVER AND ITS CLIENTS                                              *)

Polls == UNION {[1..n -> Ops] : n \in 0..MaxOps}

Exchange(x, honest) ==
    /\ Len(wire) < MaxExchanges
    /\ honest \/ lies < MaxLies
    /\ wire' = Append(wire, x)
    /\ lies' = IF honest THEN lies ELSE lies + 1
    /\ UNCHANGED <<logictime, times, sync, pc, result, refused>>

(* A poll with operations, which an honest server accepts if the member is *)
(* up to date.                                                             *)
Add(m, e) ==
    \E ops \in Polls \ {<<>>} :
        /\ Exchange([what |-> "added", member |-> m, esid |-> e, ops |-> ops],
                    seen[m][e] = Len(accepted[e]))
        /\ accepted' = [accepted EXCEPT ![e] = @ \o ops]
        /\ seen' = [seen EXCEPT ![m][e] = Len(accepted'[e])]

(* A poll that is answered with operations: an honest server sends those   *)
(* the member lacks.  If the request has some, too, that is a conflict, and*)
(* they are dropped.                                                       *)
Fetch(m, e) ==
    LET missing == SubSeq(accepted[e], seen[m][e] + 1, Len(accepted[e]))
    IN  \E ops \in Polls \cup {missing}, what \in {"new_ops", "conflict"} :
            /\ Exchange([what |-> what, member |-> m, esid |-> e, ops |-> ops],
                        ops = missing /\ (what = "conflict" => ops # <<>>))
            /\ seen' = [seen EXCEPT ![m][e] = Len(accepted[e])]
            /\ UNCHANGED accepted

(* Any other request, an error, or a poll whose JSON cannot be read.       *)
OtherPair ==
    /\ Exchange([what |-> "other"], TRUE)
    /\ UNCHANGED <<accepted, seen>>

-----------------------------------------------------------------------------
(* FROM A PAIR TO A ROW                                                    *)

(* updateDoc: operations of other optypes, and those that only move a      *)
(* cursor, contribute nothing to the text of an update.                    *)
Update(ops) ==
    S!FlattenSeq([k \in DOMAIN ops |->
                     IF ops[k] \in Recorded THEN <<ops[k]>> ELSE <<>>])

(* mutant: the operations of a conflict count as accepted *)
SenderOfConflict(x) == IF x.what = "new_ops" THEN Central ELSE x.member

(* docsPoll tells by the result which way operations went.                 *)
Sender(x) == IF x.what = "added" THEN x.member ELSE Central

Receiver(x) == IF Sender(x) = Central THEN x.member ELSE Central

HasRow(x) == x.what # "other" /\ Update(x.ops) # <<>>

RowOf(id, x) ==
    [time |-> id, esid |-> x.esid, sender |-> Sender(x),
     receiver |-> Receiver(x), upd |-> Update(x.ops)]

Logged == {times[n] : n \in DOMAIN times}

(* libseal_process_log_at_runtime: every pair takes a time, few leave rows.*)
TakePair(t, next) ==
    /\ pc[t] = "idle"
    /\ \E n \in DOMAIN wire \ Logged :
          /\ times' = Append(times, n)
          /\ IF HasRow(wire[n])
             THEN /\ result' = [result EXCEPT ![t] = RowOf(logictime, wire[n])]
                  /\ pc' = [pc EXCEPT ![t] = "insert"]
             ELSE UNCHANGED <<result, pc>>
    /\ logictime' = next
    /\ UNCHANGED <<server, sync, refused>>

TakePairSameTime(t) == TakePair(t, logictime)       \* mutant: no increment

ProcessLog(t) == TakePair(t, logictime + 1)

(* A quotation mark in the text ends the SQL string it is in.              *)
IsStatement(row) == \A i \in DOMAIN row.upd : row.upd[i] \notin Quoted

Accepts(row) == IsStatement(row) /\ \A r \in sync : r.time # row.time

(* insert_statement; the primary key is the time.                          *)
Insert(t) ==
    /\ pc[t] = "insert"
    /\ IF Accepts(result[t])
       THEN sync' = sync \cup {result[t]} /\ UNCHANGED refused
       ELSE refused' = refused \cup {result[t]} /\ UNCHANGED sync
    /\ result' = [result EXCEPT ![t] = None]
    /\ pc' = [pc EXCEPT ![t] = "idle"]
    /\ UNCHANGED <<server, logictime, times>>

-----------------------------------------------------------------------------
(* THE QUERY.  An audit only reads, and libseal_do_trimming does nothing:  *)
(* the query is an operator on the table.                                  *)

(* group_concat(upd,'') over rows, which SQLite visits by their key.       *)
UpdateAt(id, rows) ==
    IF \E r \in rows : r.time = id
    THEN (CHOOSE r \in rows : r.time = id).upd ELSE <<>>

Concat(rows) ==
    S!FlattenSeq([id \in 1..MaxExchanges |-> UpdateAt(id, rows)])

(* text LIKE pattern || '%'                                                *)
Like(text, pattern) ==
    /\ Len(pattern) =< Len(text)
    /\ \A i \in DOMAIN pattern :
          pattern[i] = text[i] \/ <<pattern[i], text[i]>> \in Alike

(* What members had brought to the document when row o was sent.           *)
ServerRows(o, rows) ==
    {r \in rows : r.esid = o.esid /\ r.time =< o.time /\ r.receiver = Central}

(* What the receiver of o has.  AND binds tighter than OR: all rows sent   *)
(* to it count, of any session and any time.                               *)
MemberRows(o, rows) ==
    {r \in rows : \/ /\ r.esid = o.esid /\ r.time =< o.time
                     /\ r.sender = o.receiver
                  \/ r.receiver = o.receiver}

(* mutant: only what was sent to the member is compared *)
UnsoundWithoutOwn(rows) ==
    {o \in rows :
        /\ o.sender = Central
        /\ ServerRows(o, rows) # {}
        /\ ~Like(Concat(ServerRows(o, rows)),
                 Concat({r \in MemberRows(o, rows) : r.sender = Central}))}

(* Without ServerRows the left side is NULL, and nothing is reported.      *)
Unsound(rows) ==
    {o \in rows :
        /\ o.sender = Central
        /\ ServerRows(o, rows) # {}
        /\ ~Like(Concat(ServerRows(o, rows)), Concat(MemberRows(o, rows)))}

-----------------------------------------------------------------------------
Thread(t) == ProcessLog(t) \/ Insert(t)

Next ==
    \/ \E m \in Members : \E e \in SessionsOf[m] : Add(m, e) \/ Fetch(m, e)
    \/ OtherPair
    \/ \E t \in Threads : Thread(t)

Spec == Init /\ [][Next]_vars

-----------------------------------------------------------------------------
(* PROPERTIES                                                              *)

Row == [time : Nat, esid : Sessions, sender : Members \cup {Central},
        receiver : Members \cup {Central}, upd : Seq(Ops)]

(* Every variable keeps its type, and a row goes to or from the server.    *)
TypeOK ==
    /\ accepted \in [Sessions -> Seq(Ops)]
    /\ \A m \in Members, e \in Sessions :
          e \in SessionsOf[m] => seen[m][e] \in 0..Len(accepted[e])
    /\ lies \in 0..MaxLies
    /\ Len(wire) =< MaxExchanges
    /\ logictime = Len(times) + 1
    /\ times \in Seq(DOMAIN wire)
    /\ sync \cup refused \subseteq Row
    /\ \A r \in sync : (r.sender = Central) # (r.receiver = Central)
    /\ pc \in [Threads -> {"idle", "insert"}]
    /\ result \in [Threads -> Row \cup {None}]

(* However the threads interleave between taking a time and inserting the  *)
(* row of this time, the primary key refuses no row: what is missing from  *)
(* the table is what no statement can be made of.                          *)
RowsAreStored == \A r \in refused : ~IsStatement(r)

(* All pairs have been logged, in the order of the wire.                   *)
LoggedInOrder ==
    /\ \A t \in Threads : pc[t] = "idle"
    /\ Len(times) = Len(wire) /\ \A n \in DOMAIN times : times[n] = n

(* The polls of the wire, up to the n-th, that satisfy a condition, as one *)
(* sequence of operations: what a session or a member has by then.         *)
Joined(n, picked) ==
    S!FlattenSeq([k \in 1..n |->
                     IF k \in picked THEN Update(wire[k].ops) ELSE <<>>])

PollsOf(e) ==
    {k \in DOMAIN wire : wire[k].what # "other" /\ wire[k].esid = e}

Document(e, n) == Joined(n, {k \in PollsOf(e) : wire[k].what = "added"})

Copy(m, e, n) == Joined(n, {k \in PollsOf(e) : wire[k].member = m})

(* Exchange n brought a member operations, after which its document is no  *)
(* earlier state of the one the server had accepted.                       *)
Diverges(n) ==
    /\ wire[n].what \in {"new_ops", "conflict"}
    /\ Update(wire[n].ops) # <<>>
    /\ LET doc  == Document(wire[n].esid, n)
           copy == Copy(wire[n].member, wire[n].esid, n)
       IN  ~(Len(copy) =< Len(doc) /\ copy = SubSeq(doc, 1, Len(copy)))

OneSessionEach == \A m \in Members : \A e, f \in SessionsOf[m] : e = f

(* owncloud/main.cpp:94, the query: though rows of later polls take part,  *)
(* and polls without a row take times, what the server altered, withheld,  *)
(* reordered or made up is reported, provided that members had brought     *)
(* anything to the document.                                               *)
DivergenceCaught ==
    LoggedInOrder /\ OneSessionEach =>
        \A n \in DOMAIN wire :
            Diverges(n) /\ Document(wire[n].esid, n) # <<>>
                => \E o \in Unsound(sync) : o.time = n

(* The same query does not report the last update a member of one session  *)
(* was sent, as long as its document agrees with the server's.  (Updates   *)
(* before the last are reported, see HonestServerPasses.)                  *)
LastUpdatePasses ==
    LoggedInOrder /\ OneSessionEach =>
        \A o \in Unsound(sync) :
            \/ Diverges(o.time)
            \/ \E r \in sync : r.receiver = o.receiver /\ r.time > o.time

(* README.md:59: the module has "queries to check for integrity            *)
(* violations".  Then a server that sends every member what others have    *)
(* brought, in order and once, is not reported.                            *)
HonestServerPasses == LoggedInOrder /\ lies = 0 => Unsound(sync) = {}

(* README.md:59: "queries return an empty set only if no violations     *)
(* have been detected".  Then something is reported whenever a member's    *)
(* document has diverged - even if nobody has brought anything to it.      *)
DivergenceAlwaysReported ==
    LoggedInOrder /\ (\E n \in DOMAIN wire : Diverges(n)) => Unsound(sync) # {}

=============================================================================
