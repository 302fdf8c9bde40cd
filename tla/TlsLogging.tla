----------------------------- MODULE TlsLogging -----------------------------
(***************************************************************************)
(* The TLS hooks, src/libseal/auditing/logpoint.c: what the server reads   *)
(* from and writes to an SSL connection is collected in the slot of that   *)
(* connection; when the next request starts, or the connection closes, the *)
(* slot is handed to logpoint_log.                                         *)
(*                                                                         *)
(* TaLoS, which calls the hooks, and the server are not part of the        *)
(* repository.  The model of their side is wire: the exchanges that take   *)
(* place on each connection, message by message and chunk by chunk.        *)
(* Memory allocation is assumed to succeed, and LOG_FOR_SQUID is not       *)
(* defined.                                                                *)
(***************************************************************************)
EXTENDS Integers, Sequences
S == INSTANCE SequencesExt

CONSTANTS
    Threads,        \* threads that run the hooks
    Keys,           \* addresses of SSL objects, which are reused
    None,           \* NULL
    Sgx,            \* COMPILE_WITH_INTEL_SGX
    Overlap,        \* a reply's hook may run while a request's still does
    Interim,        \* a client may continue a request after "100 Continue"
    MaxConns,       \* bound: connections accepted
    MaxExchanges,   \* bound: exchanges of one connection
    MaxChunks       \* bound: reads, and writes, of one exchange

Conns == 1..MaxConns

(* A chunk is known by the number of the exchange it belongs to.           *)
Chunks    == 1..MaxExchanges
Exchanges == [req : Seq(Chunks), rep : Seq(Chunks)]

ASSUME TlsAssumption ==
    /\ None \notin Threads \cup Keys \cup Nat \cup Exchanges
    /\ {Sgx, Overlap, Interim} \subseteq BOOLEAN
    /\ {MaxConns, MaxExchanges, MaxChunks} \subseteq Nat

VARIABLES
    ssl,            \* the connection an SSL object stands for, or None
    connections,    \* the hash map from SSL objects to log_connections
    conn,           \* the log_connections allocated so far
    pc,             \* what each thread does
    key,            \* the SSL object of a thread's hook
    chunk,          \* the data of a thread's hook
    cur,            \* the log_connection a thread has looked up
    initialized,    \* the barrier in front of logpoint_init
    ready,          \* history: logpoint_init has returned
    logged,         \* the slots of each connection that were handed to
                    \* logpoint_log, in order
    wire,           \* history: the exchanges of each connection
    mixed,          \* history: connections on which a reply was sent while a
                    \* request was read, or a request went on after a reply
    freed           \* history: connections whose log_connection is freed

hookVars == <<pc, key, chunk, cur>>
history == <<wire, mixed, freed>>
vars == <<ssl, connections, conn, hookVars, initialized, ready, logged,
          history>>

Ignored == IF Sgx THEN 0 ELSE 2

EmptySlot == [req |-> <<>>, rep |-> <<>>]

Init ==
    /\ ssl = [k \in Keys |-> None]
    /\ connections = [k \in Keys |-> None]
    /\ conn = <<>>
    /\ pc = [t \in Threads |-> "idle"]
    /\ key = [t \in Threads |-> None]
    /\ chunk = [t \in Threads |-> None]
    /\ cur = [t \in Threads |-> None]
    /\ initialized = 0
    /\ ready = FALSE
    /\ logged = <<>>
    /\ wire = <<>>
    /\ mixed = {} /\ freed = {}

Goto(t, label) == pc' = [pc EXCEPT ![t] = label]

Slot(t)   == conn[cur[t]].slot
Return(t) == Goto(t, "idle") /\ UNCHANGED <<key, chunk, cur>>

-----------------------------------------------------------------------------
(* THE SERVER AND TALOS                                                    *)

RequestHooks == {"request", "test", "entry", "init", "spin", "log", "renew"}
ReplyHooks   == {"reply", "append"}
CloseHooks   == {"close", "closing"}

(* SSL_free is called when no other call on the connection is under way,   *)
(* and a hook that has no data is one of SSL_free.                         *)
Busy(k) == \E t \in Threads : pc[t] # "idle" /\ key[t] = k
BusyReading(k) ==
    \A t \in Threads : pc[t] # "idle" /\ key[t] = k =>
        pc[t] \in RequestHooks /\ chunk[t] # None

Call(t, hook, k, data) ==
    /\ pc[t] = "idle"
    /\ Goto(t, hook)
    /\ key' = [key EXCEPT ![t] = k]
    /\ chunk' = [chunk EXCEPT ![t] = data]
    /\ UNCHANGED cur

(* log_new_connection: the insertion into the map is its only step that    *)
(* another thread can see.                                                 *)
NewConnection(k) ==
    /\ ssl[k] = None
    /\ Len(conn) < MaxConns
    /\ conn' = Append(conn, [log_request |-> FALSE, ignore_slots |-> Ignored,
                             slot |-> None])
    /\ wire' = Append(wire, <<>>)
    /\ logged' = Append(logged, <<>>)
    /\ ssl' = [ssl EXCEPT ![k] = Len(conn) + 1]
    /\ connections' = [connections EXCEPT ![k] = Len(conn) + 1]
    /\ UNCHANGED <<hookVars, initialized, ready, mixed, freed>>

(* The client sends a part of a request; SSL_read hands it to the hook.    *)
(* A new exchange starts once the last one has been answered.              *)
Read(t, k) ==
    /\ ssl[k] # None /\ ~Busy(k)
    /\ LET c == ssl[k]
           n == Len(wire[c])
           Continue ==
             /\ n > 0
             /\ Len(wire[c][n].req) < MaxChunks
             /\ wire[c][n].rep = <<>> \/ Interim
             /\ Call(t, "request", k, n)
             /\ wire' = [wire EXCEPT ![c][n].req = Append(@, n)]
             /\ mixed' = IF wire[c][n].rep = <<>> THEN mixed
                         ELSE mixed \cup {c}
           Start ==
             /\ n < MaxExchanges
             /\ n > 0 => wire[c][n].rep # <<>>
             /\ Call(t, "request", k, n + 1)
             /\ wire' = [wire EXCEPT ![c] =
                             Append(@, [req |-> <<n + 1>>, rep |-> <<>>])]
             /\ UNCHANGED mixed
       IN  Continue \/ Start
    /\ UNCHANGED <<ssl, connections, conn, initialized, ready, logged, freed>>

(* The server writes a part of the reply to the exchange under way.        *)
Write(t, k) ==
    /\ ssl[k] # None
    /\ ~Busy(k) \/ (Overlap /\ BusyReading(k))
    /\ LET c == ssl[k]
           n == Len(wire[c])
       IN  /\ n > 0
           /\ Len(wire[c][n].rep) < MaxChunks
           /\ Call(t, "reply", k, n)
           /\ wire' = [wire EXCEPT ![c][n].rep = Append(@, n)]
           /\ mixed' = IF Busy(k) THEN mixed \cup {c} ELSE mixed
    /\ UNCHANGED <<ssl, connections, conn, initialized, ready, logged, freed>>

(* The server frees the SSL object. *)
Close(t, k) ==
    /\ ssl[k] # None /\ ~Busy(k)
    /\ Call(t, "close", k, None)
    /\ UNCHANGED <<ssl, connections, conn, initialized, ready, logged, history>>

-----------------------------------------------------------------------------
(* log_https_request                                                       *)

(* retrieve_log_connection, at the start of both message hooks.            *)
Lookup(t) ==
    /\ pc[t] \in {"request", "reply"}
    /\ cur' = [cur EXCEPT ![t] = connections[key[t]]]
    /\ Goto(t, IF connections[key[t]] = None THEN "idle"
               ELSE IF pc[t] = "request" THEN "test" ELSE "append")
    /\ UNCHANGED <<ssl, connections, conn, key, chunk, initialized, ready,
                   logged, history>>

SetConnection(t, slot, log_request, ignore_slots) ==
    conn' = [conn EXCEPT ![cur[t]] =
                [log_request |-> log_request, ignore_slots |-> ignore_slots,
                 slot |-> slot]]

SetSlot(t, slot, log_request) ==
    SetConnection(t, slot, log_request, conn[cur[t]].ignore_slots)

(* The request goes on: append to its slot. *)
AppendRequest(t) ==
    /\ pc[t] = "test"
    /\ conn[cur[t]].log_request
    /\ SetSlot(t, [Slot(t) EXCEPT !.req = Append(@, chunk[t])], TRUE)
    /\ Return(t)
    /\ UNCHANGED <<ssl, connections, initialized, ready, logged, history>>

(* The first request of the connection. *)
FirstRequest(t) ==
    /\ pc[t] = "test"
    /\ ~conn[cur[t]].log_request
    /\ Slot(t) = None
    /\ SetSlot(t, [EmptySlot EXCEPT !.req = <<chunk[t]>>], TRUE)
    /\ Return(t)
    /\ UNCHANGED <<ssl, connections, initialized, ready, logged, history>>

(* A request after a reply: the slot is complete, but is one to ignore.    *)
DropSlot(t) ==
    /\ pc[t] = "test"
    /\ ~conn[cur[t]].log_request
    /\ Slot(t) # None
    /\ SetConnection(t, [EmptySlot EXCEPT !.req = <<chunk[t]>>], TRUE,
                     conn[cur[t]].ignore_slots - 1)
    /\ Return(t)
    /\ UNCHANGED <<ssl, connections, initialized, ready, logged, history>>

IgnoreSlotAlways(t) == DropSlot(t)      \* mutant: the counter is not tested

IgnoreSlot(t) == DropSlot(t) /\ conn[cur[t]].ignore_slots > 0

(* A request after a reply: the slot is complete and has to be logged.     *)
FlushSlot(t) ==
    /\ pc[t] = "test"
    /\ ~conn[cur[t]].log_request
    /\ Slot(t) # None
    /\ conn[cur[t]].ignore_slots = 0
    /\ Goto(t, "entry")
    /\ UNCHANGED <<ssl, connections, conn, key, chunk, cur, initialized,
                   ready, logged, history>>

Renew(t, slot) ==
    /\ pc[t] = "renew"
    /\ chunk[t] # None
    /\ SetSlot(t, slot, TRUE)
    /\ Return(t)
    /\ UNCHANGED <<ssl, connections, initialized, ready, logged, history>>

(* After add_entry_to_list: the slot is freed, a new one takes the chunk.  *)
RenewSlot(t) == Renew(t, [EmptySlot EXCEPT !.req = <<chunk[t]>>])

-----------------------------------------------------------------------------
(* log_https_reply                                                         *)

AddReply(t, log_request) ==
    /\ pc[t] = "append"
    /\ Slot(t) # None
    /\ SetSlot(t, [Slot(t) EXCEPT !.rep = Append(@, chunk[t])], log_request)
    /\ Return(t)
    /\ UNCHANGED <<ssl, connections, initialized, ready, logged, history>>

AppendReplyKeepsOpen(t) == AddReply(t, TRUE)    \* mutant: no reset

AppendReply(t) == AddReply(t, FALSE)

(* A reply without a request first: it is printed and dropped.             *)
DropReply(t) ==
    /\ pc[t] = "append"
    /\ Slot(t) = None
    /\ Return(t)
    /\ UNCHANGED <<ssl, connections, conn, initialized, ready, logged, history>>

-----------------------------------------------------------------------------
(* add_entry_to_list                                                       *)

(* fetch_add on initialized: the thread that finds 0 initialises.          *)
Arrive(t, next) ==
    /\ pc[t] = "entry"
    /\ initialized' = next
    /\ Goto(t, IF Sgx THEN "log" ELSE IF initialized = 0 THEN "init" ELSE "spin")
    /\ UNCHANGED <<ssl, connections, conn, key, chunk, cur, ready, logged,
                   history>>

Enter(t) == Arrive(t, IF Sgx THEN initialized ELSE initialized + 1)

FinishInit(t) ==
    /\ pc[t] = "init"
    /\ initialized' = -1
    /\ ready' = TRUE
    /\ Goto(t, "log")
    /\ UNCHANGED <<ssl, connections, conn, key, chunk, cur, logged, history>>

(* while (initialized != -1) usleep(10);                                   *)
LeaveBarrier(t, open) ==
    /\ pc[t] = "spin"
    /\ open
    /\ Goto(t, "log")
    /\ UNCHANGED <<ssl, connections, conn, key, chunk, cur, initialized,
                   ready, logged, history>>

StopSpinningEarly(t) == LeaveBarrier(t, initialized # 0)  \* mutant: waits for
                                                          \* any other value
StopSpinning(t) == LeaveBarrier(t, initialized = -1)

LogEntry(t) ==
    /\ pc[t] = "log"
    /\ logged' = [logged EXCEPT ![cur[t]] = Append(@, Slot(t))]
    /\ Goto(t, "renew")
    /\ UNCHANGED <<ssl, connections, conn, key, chunk, cur, initialized,
                   ready, history>>

-----------------------------------------------------------------------------
(* log_free_connection                                                     *)

Remove(t) ==
    /\ pc[t] = "close"
    /\ cur' = [cur EXCEPT ![t] = connections[key[t]]]
    /\ connections' = [connections EXCEPT ![key[t]] = None]
    /\ IF connections[key[t]] = None       \* unknown connection
       THEN Goto(t, "idle") /\ ssl' = [ssl EXCEPT ![key[t]] = None]
       ELSE Goto(t, "closing") /\ UNCHANGED ssl
    /\ UNCHANGED <<conn, key, chunk, initialized, ready, logged, history>>

(* The end of the hook, and of SSL_free: the SSL address may be reused.    *)
Free(t) ==
    /\ SetSlot(t, None, conn[cur[t]].log_request)
    /\ freed' = freed \cup {cur[t]}
    /\ ssl' = [ssl EXCEPT ![key[t]] = None]
    /\ Return(t)
    /\ UNCHANGED <<connections, initialized, ready, logged, wire, mixed>>

LastSlotLogged(t) == Slot(t) # None /\ conn[cur[t]].ignore_slots = 0

(* mutant: an unanswered request is not worth logging *)
FreeUnlessAnswered(t) ==
    /\ pc[t] = "closing"
    /\ LastSlotLogged(t) => Slot(t).rep = <<>>
    /\ Free(t)

(* No slot, or one to ignore: nothing is logged.                           *)
FreeUnlogged(t) ==
    /\ pc[t] = "closing"
    /\ ~LastSlotLogged(t)
    /\ Free(t)

LeaveClosing(t, label) ==
    /\ pc[t] = "closing"
    /\ LastSlotLogged(t)
    /\ Goto(t, label)
    /\ UNCHANGED <<ssl, connections, conn, key, chunk, cur, initialized,
                   ready, logged, history>>

\* mutant: waits for an initialisation that was done elsewhere
FlushLastSlotWaits(t) == LeaveClosing(t, "spin")

FlushLastSlot(t) == LeaveClosing(t, "entry")

FreeLogged(t) ==
    /\ pc[t] = "renew"
    /\ chunk[t] = None
    /\ Free(t)

-----------------------------------------------------------------------------
Hook(t) ==
    \/ Lookup(t)
    \/ AppendRequest(t) \/ FirstRequest(t) \/ IgnoreSlot(t) \/ FlushSlot(t)
    \/ RenewSlot(t)
    \/ AppendReply(t) \/ DropReply(t)
    \/ Enter(t) \/ FinishInit(t) \/ StopSpinning(t) \/ LogEntry(t)
    \/ Remove(t) \/ FreeUnlogged(t) \/ FlushLastSlot(t) \/ FreeLogged(t)

Next ==
    \/ \E k \in Keys : NewConnection(k)
    \/ \E t \in Threads, k \in Keys : Read(t, k) \/ Write(t, k) \/ Close(t, k)
    \/ \E t \in Threads : Hook(t)

Spec == Init /\ [][Next]_vars

(* The scheduler runs every hook; what clients and server do is up to them *)
FairSpec == Spec /\ \A t \in Threads : WF_vars(Hook(t))

-----------------------------------------------------------------------------
(* PROPERTIES                                                              *)

(* Every variable keeps its type. *)
TypeOK ==
    /\ ssl \in [Keys -> Conns \cup {None}]
    /\ connections \in [Keys -> Conns \cup {None}]
    /\ conn \in Seq([log_request : BOOLEAN, ignore_slots : 0..Ignored,
                     slot : Exchanges \cup {None}])
    /\ pc \in [Threads -> {"idle"} \cup RequestHooks \cup ReplyHooks
                              \cup CloseHooks]
    /\ key \in [Threads -> Keys \cup {None}]
    /\ chunk \in [Threads -> Chunks \cup {None}]
    /\ cur \in [Threads -> Conns \cup {None}]
    /\ initialized \in Int
    /\ ready \in BOOLEAN
    /\ logged \in Seq(Seq(Exchanges))
    /\ wire \in Seq(Seq(Exchanges))
    /\ mixed \subseteq Conns /\ freed \subseteq Conns

(* How many of n exchanges are due: all but the slots to ignore.           *)
Due(n) == IF n > Ignored THEN n - Ignored ELSE 0

WholeOn(c) ==
    \A i \in DOMAIN logged[c] :
        /\ i + Ignored \in DOMAIN wire[c]
        /\ logged[c][i] = wire[c][i + Ignored]

(* As long as a connection's requests and replies alternate: every pair    *)
(* handed to logpoint_log is one exchange of its connection, the whole     *)
(* request with the whole reply to it and nothing else, and a connection's *)
(* exchanges are logged in order with none left out - though the hooks     *)
(* only see chunks, and other connections and new connections on reused    *)
(* SSL addresses are served in between.                                    *)
ExchangesLoggedWhole == \A c \in DOMAIN wire \ mixed : WholeOn(c)

(* README.md:5-6: "a secure log of requests and responses exchanged".      *)
(* Then this holds of all connections.                                     *)
AllExchangesLoggedWhole == \A c \in DOMAIN wire : WholeOn(c)

(* Once the log_connection is freed all its exchanges have been logged.    *)
ClosedIsLogged ==
    \A c \in freed : Len(logged[c]) = Due(Len(wire[c]))

(* While a connection is open and no hook runs on it, what the log lacks   *)
(* is the last exchange and no more.                                       *)
LogLagsByOne ==
    \A k \in Keys : ssl[k] # None /\ ~Busy(k) =>
        Len(logged[ssl[k]]) = Due(Len(wire[ssl[k]]) - 1)

Requests(exchanges) ==
    S!FlattenSeq([i \in DOMAIN exchanges |-> exchanges[i].req])

(* However replies and requests overlap, and however they are split over   *)
(* exchanges: once its log_connection is freed, what a client has sent has *)
(* been logged, every chunk once and in order (COMPILE_WITH_INTEL_SGX: no  *)
(* slots are ignored).                                                     *)
RequestsComplete ==
    \A c \in freed : Requests(logged[c]) = Requests(wire[c])

(* No entry is handed to logpoint_log before some thread has returned from *)
(* logpoint_init, however the threads meet at the barrier.                 *)
InitBeforeLog == \A t \in Threads : pc[t] = "log" => Sgx \/ ready

(* Every hook returns: SSL_read, SSL_write and SSL_free are not held up    *)
(* for ever by the logging.                                                *)
HooksReturn == \A t \in Threads : (pc[t] # "idle") ~> (pc[t] = "idle")

(* A connection that is closed is freed, with all its client has sent in   *)
(* the log, even if the last request has no reply (COMPILE_WITH_INTEL_SGX).*)
ClosedGetsLogged ==
    \A c \in Conns, t \in Threads :
        (pc[t] = "close" /\ ssl[key[t]] = c) ~>
            (c \in freed /\ Requests(logged[c]) = Requests(wire[c]))

=============================================================================
