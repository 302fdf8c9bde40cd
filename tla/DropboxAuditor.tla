--------------------------- MODULE DropboxAuditor ---------------------------
(***************************************************************************)
(* The auditing module for Dropbox, auditors/dropbox/main.cpp.  What       *)
(* clients upload or delete becomes rows of commit_batch, what the server  *)
(* tells them has changed becomes rows of list.  Rows take their time from *)
(* a counter that all threads share: it is incremented once per pair, and  *)
(* read again for each row.                                                *)
(*                                                                         *)
(* wire is the order in which the server has really dealt with requests.   *)
(* The account is the same constant in every row, and is left out.         *)
(***************************************************************************)
EXTENDS Integers, Sequences, FiniteSets

CONSTANTS
    Threads,        \* threads that log pairs
    Hosts,          \* clients, by host_key
    Paths,
    Blocks,         \* contents of files: blocklists
    Deleted,        \* what is committed or listed for a path that is deleted
    OneConnection,  \* a client has one connection, hence one pair at a time
    Restores,       \* deleted files may be uploaded again
    TooLong,        \* there are batches of more than max_size bytes
    MaxExchanges    \* bound: commits and lists

ASSUME DropboxAssumption ==
    /\ Deleted \notin Blocks
    /\ {OneConnection, Restores, TooLong} \subseteq BOOLEAN

VARIABLES
    files,          \* the server's files, a function on some of the paths
    changes,        \* paths changed since a client was sent a list
    wire,           \* history: what the server and its clients exchanged
    monotonic_counter,
    list, commit_batch,     \* the tables
    pc,             \* where each thread is
    pair,           \* the exchange a thread is logging
    statements,     \* its items that are not in a row yet
    result,         \* the row a thread is about to insert
    done,           \* history: exchanges that have been logged
    earlier,        \* history: <<m, n>>, m was logged when n began to be
    stamps,         \* history: <<n, time>>, rows of n have this time
    refused         \* history: rows the primary key has kept out

server  == <<files, changes, wire>>
tables  == <<list, commit_batch, refused>>
history == <<done, earlier, stamps>>
vars == <<server, monotonic_counter, tables, pc, pair, statements, result,
          history>>

Contents == Blocks \cup {Deleted}
None == <<>>

Init ==
    /\ files = None
    /\ changes = [h \in Hosts |-> {}]
    /\ wire = <<>>
    /\ monotonic_counter = 0
    /\ list = {} /\ commit_batch = {} /\ refused = {}
    /\ pc = [t \in Threads |-> "idle"]
    /\ pair = [t \in Threads |-> 0]
    /\ statements = [t \in Threads |-> {}]
    /\ result = [t \in Threads |-> None]
    /\ done = {} /\ earlier = {} /\ stamps = {}

Goto(t, label) == pc' = [pc EXCEPT ![t] = label]

-----------------------------------------------------------------------------
(* THE SERVER AND ITS CLIENTS                                              *)

Exchange(x) ==
    /\ Len(wire) < MaxExchanges
    /\ wire' = Append(wire, x)
    /\ UNCHANGED <<monotonic_counter, tables, pc, pair, statements, result,
                   history>>

Exists(p) == p \in DOMAIN files /\ files[p] # Deleted

(* A client uploads, changes or deletes files.                             *)
Commit ==
    \E h \in Hosts, P \in SUBSET Paths \ {{}} : \E new \in [P -> Contents] :
        \E long \in {FALSE, TooLong} :
            /\ \A p \in P :
                  /\ new[p] = Deleted => Exists(p)
                  /\ p \in DOMAIN files => new[p] # files[p]
                  /\ ~Restores /\ p \in DOMAIN files => Exists(p)
            /\ Exchange([what |-> "commit_batch", host |-> h, items |-> new,
                         long |-> long])
            /\ files' = [p \in P \cup DOMAIN files |->
                            IF p \in P THEN new[p] ELSE files[p]]
            /\ changes' = [g \in Hosts |-> changes[g] \cup P]

(* The server tells a client what is said to have changed: an honest one   *)
(* exactly what has changed since this client was told the last time.      *)
List ==
    \E h \in Hosts, P \in SUBSET Paths : \E claim \in [P -> Contents] :
        /\ Exchange([what |-> "list", host |-> h, items |-> claim,
                     honest |-> /\ P = changes[h]
                                /\ \A p \in P : claim[p] = files[p]])
        /\ changes' = [changes EXCEPT ![h] = {}]
        /\ UNCHANGED files

-----------------------------------------------------------------------------
(* FROM A PAIR TO ROWS                                                     *)

(* An entry of the JSON arrays, once its three keys have been seen.        *)
Items(items) ==
    {[path |-> p, size |-> IF items[p] = Deleted THEN -1 ELSE 1,
      blocklist |-> items[p]] : p \in DOMAIN items}

(* parse_list: an empty list yields nothing, because the statement that is *)
(* built for it is not pushed.                                             *)
ParseList(x) == Items(x.items)

(* parse_commit_batch: what does not fit the buffer uncompress fills is    *)
(* reported on the console, and yields nothing.                            *)
ParseCommitBatch(x) == IF x.long THEN {} ELSE Items(x.items)

Statements(x) ==
    IF x.what = "list" THEN ParseList(x) ELSE ParseCommitBatch(x)

Logging == {pair[t] : t \in {t \in Threads : pc[t] # "idle"}}

(* libseal_process_log_at_runtime and the first half of processEventPair:  *)
(* without statements it returns before the counter is touched.            *)
ProcessLog(t) ==
    /\ pc[t] = "idle"
    /\ \E n \in DOMAIN wire \ (done \cup Logging) :
          /\ OneConnection =>
                \A m \in Logging : wire[m].host # wire[n].host
          /\ pair' = [pair EXCEPT ![t] = n]
          /\ statements' = [statements EXCEPT ![t] = Statements(wire[n])]
          /\ earlier' = earlier \cup (done \X {n})
          /\ IF Statements(wire[n]) = {}
             THEN done' = done \cup {n} /\ UNCHANGED pc
             ELSE Goto(t, "add") /\ UNCHANGED done
    /\ UNCHANGED <<server, monotonic_counter, tables, result, stamps>>

Add(t, next) ==
    /\ pc[t] = "add"
    /\ monotonic_counter' = next
    /\ Goto(t, "format")
    /\ UNCHANGED <<server, tables, pair, statements, result, history>>

AddNothing(t) == Add(t, monotonic_counter)          \* mutant: no increment

FetchAdd(t) == Add(t, monotonic_counter + 1)

(* The next row is put together, with the time the counter has now.        *)
FormatAt(t, time) ==
    /\ pc[t] = "format"
    /\ \E s \in statements[t] :
          /\ statements' = [statements EXCEPT ![t] = @ \ {s}]
          /\ result' = [result EXCEPT ![t] =
                 [time |-> time, host |-> wire[pair[t]].host, path |-> s.path,
                  size |-> s.size, blocklist |-> s.blocklist]]
    /\ stamps' = stamps \cup {<<pair[t], time>>}
    /\ Goto(t, "insert")
    /\ UNCHANGED <<server, tables, pair, done, earlier>>

Format(t) ==
    /\ FormatAt(t, monotonic_counter)
    /\ UNCHANGED monotonic_counter

SameKey(r, s) == r.time = s.time /\ r.host = s.host /\ r.path = s.path

Refused(row, table) == \E s \in table : SameKey(row, s)

(* insert_statement; the primary key of the table may refuse the row.      *)
Insert(t) ==
    /\ pc[t] = "insert"
    /\ LET row   == result[t]
           Into(table) == IF Refused(row, table) THEN table
                          ELSE table \cup {row}
           table == IF wire[pair[t]].what = "list" THEN list ELSE commit_batch
       IN  /\ IF wire[pair[t]].what = "list"
              THEN list' = Into(list) /\ UNCHANGED commit_batch
              ELSE commit_batch' = Into(commit_batch) /\ UNCHANGED list
           /\ refused' = IF Refused(row, table) THEN refused \cup {row}
                         ELSE refused
    /\ result' = [result EXCEPT ![t] = None]
    /\ IF statements[t] = {}
       THEN Goto(t, "idle") /\ done' = done \cup {pair[t]}
       ELSE Goto(t, "format") /\ UNCHANGED done
    /\ UNCHANGED <<server, monotonic_counter, pair, statements, earlier,
                   stamps>>

-----------------------------------------------------------------------------
(* THE QUERIES.  An audit only reads, and libseal_do_trimming does nothing:*)
(* the queries are operators on the tables.                                *)

(* The table c2 of the first query: the first deletion of each path.       *)
FirstDeletions(commits) ==
    {d \in commits :
        /\ d.size = -1
        /\ \A e \in commits : e.path = d.path /\ e.size = -1 => d.time =< e.time}

(* The rows of list between upload c and the deletion joined to it.        *)
Window(c, lists, commits) ==
    {l \in lists :
        /\ l.time > c.time
        /\ \A d \in FirstDeletions(commits) :
              d.path = c.path /\ d.time > c.time => l.time < d.time}

(* Those of clients to which none of them is about the file of c.          *)
Omitting(c, window) ==
    {l1 \in window :
        ~\E l2 \in window : l1.host = l2.host /\ l2.path = c.path}

(* mutant: lists from before the upload count, too *)
UnlistedEver(lists, commits) ==
    {c \in commits : c.size >= 0 /\ Omitting(c, lists) # {}}

(* mutant: that another client was told is enough *)
UnlistedAnywhere(lists, commits) ==
    {c \in commits :
        /\ c.size >= 0
        /\ Omitting(c, Window(c, lists, commits)) = Window(c, lists, commits)
        /\ Window(c, lists, commits) # {}}

(* The first query: an uploaded file that some client was never told of,   *)
(* although it was sent a list while the file existed.                     *)
Unlisted(lists, commits) ==
    {c \in commits :
        c.size >= 0 /\ Omitting(c, Window(c, lists, commits)) # {}}

(* The second query.  Its rows of list are from before the commit, so that *)
(* no commit lies between them and after it: NOT EXISTS is always true.    *)
Altered(lists, commits) ==
    {c \in commits : \E l \in lists :
        /\ l.time < c.time /\ l.path = c.path
        /\ l.blocklist # c.blocklist /\ l.size # -1
        /\ ~\E d \in commits : d.path = l.path /\ d.time < l.time
                                  /\ d.time > c.time /\ d.size # -1}

-----------------------------------------------------------------------------
Thread(t) == ProcessLog(t) \/ FetchAdd(t) \/ Format(t) \/ Insert(t)

Next == Commit \/ List \/ \E t \in Threads : Thread(t)

Spec == Init /\ [][Next]_vars

-----------------------------------------------------------------------------
(* PROPERTIES                                                              *)

Row == [time : 1..MaxExchanges, host : Hosts, path : Paths, size : {-1, 1},
        blocklist : Contents]

(* Every variable keeps its type; the counter counts pairs, not rows.      *)
TypeOK ==
    /\ DOMAIN files \subseteq Paths
    /\ \A p \in DOMAIN files : files[p] \in Contents
    /\ changes \in [Hosts -> SUBSET Paths]
    /\ Len(wire) =< MaxExchanges
    /\ monotonic_counter \in 0..Cardinality(done \cup Logging)
    /\ list \subseteq Row /\ commit_batch \subseteq Row /\ refused \subseteq Row
    /\ pc \in [Threads -> {"idle", "add", "format", "insert"}]
    /\ pair \in [Threads -> 0..MaxExchanges]
    /\ result \in [Threads -> Row \cup {None}]
    /\ done \subseteq DOMAIN wire
    /\ earlier \subseteq (1..Len(wire)) \X (1..Len(wire))
    /\ stamps \subseteq (1..Len(wire)) \X (1..MaxExchanges)

(* Though the counter is read long after it was incremented, and other     *)
(* threads increment it in between: a pair that begins to be logged after  *)
(* another was logged has later times in all its rows, so that what the    *)
(* queries take for earlier was not logged later.                          *)
LaterPairsLaterTimes ==
    \A x, y \in stamps : <<x[1], y[1]>> \in earlier => x[2] < y[2]

(* Though rows of two pairs may have the same time: as long as the pairs   *)
(* of one client are logged one at a time, the primary keys refuse no row. *)
RowsAreStored == OneConnection => refused = {}

(* All pairs have been logged, with times in the order of the exchanges.   *)
LoggedInOrder ==
    /\ done = DOMAIN wire
    /\ \A x, y \in stamps : x[1] < y[1] => x[2] < y[2]

Honest == \A n \in DOMAIN wire : wire[n].what = "list" => wire[n].honest

(* README.md:61-62: "LibSEAL detects whether the list of files provided by *)
(* Dropbox corresponds to the list of files that the client has uploaded". *)
(* Where it does, nothing is reported as omitted: not for files that were  *)
(* deleted, restored, or in a batch too long to be logged.                 *)
HonestListsPass ==
    LoggedInOrder /\ Honest => Unlisted(list, commit_batch) = {}

(* The server has sent host h lists, none of them empty, since exchange k, *)
(* and no one of them has mentioned p.                                     *)
KeptFrom(h, p, k) ==
    LET lists == {n \in DOMAIN wire :
                     n > k /\ wire[n].what = "list" /\ wire[n].host = h}
    IN  /\ \E n \in lists : DOMAIN wire[n].items # {}
        /\ \A n \in lists : p \notin DOMAIN wire[n].items

(* Where it does not: a file that was uploaded, has never been deleted and *)
(* is kept from a client is reported.                                      *)
OmissionsCaught ==
    LoggedInOrder =>
        \A k \in DOMAIN wire, h \in Hosts : \A p \in DOMAIN wire[k].items :
            (/\ wire[k].what = "commit_batch" /\ ~wire[k].long
             /\ \A n \in DOMAIN wire :
                   wire[n].what = "commit_batch" /\ p \in DOMAIN wire[n].items
                       => wire[n].items[p] # Deleted
             /\ KeptFrom(h, p, k))
            => \E c \in Unlisted(list, commit_batch) : c.path = p

(* README.md:59-62: the queries "return an empty set only if no violations *)
(* have been detected", which for Dropbox are lists that do not correspond *)
(* to what was uploaded.  Then, if a list shows other contents of a file   *)
(* than were uploaded last before it, the set is not empty.                *)
AlteredContentsCaught ==
    LoggedInOrder =>
        \A k, n \in DOMAIN wire : \A p \in DOMAIN wire[k].items :
            (/\ k < n /\ wire[k].what = "commit_batch" /\ ~wire[k].long
             /\ wire[n].what = "list" /\ p \in DOMAIN wire[n].items
             /\ {wire[k].items[p], wire[n].items[p]} \subseteq Blocks
             /\ wire[k].items[p] # wire[n].items[p]
             /\ \A j \in (k + 1)..(n - 1) :
                   wire[j].what = "commit_batch" => p \notin DOMAIN wire[j].items)
            => Altered(list, commit_batch) # {}

(* The same from the other side: a server whose lists correspond is not    *)
(* reported for the contents of files.                                     *)
HonestContentsPass ==
    LoggedInOrder /\ Honest => Altered(list, commit_batch) = {}

(* dropbox/main.cpp:303: "insert an empty message if the list in the list  *)
(* message is empty".  Then every list leaves rows.                        *)
EmptyListsLeaveRows ==
    \A n \in done : wire[n].what = "list" => \E x \in stamps : x[1] = n

=============================================================================
