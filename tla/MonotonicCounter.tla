-------------------------- MODULE MonotonicCounter --------------------------
(***************************************************************************)
(* The monotonic counter service.  Before a row is inserted the enclave    *)
(* makes two rounds: the message in the buffer original_ciphertext is sent *)
(* to every server of the quorum, then a reply is received from each of    *)
(* them into the same buffer (src/libseal/auditing/mcservice.c).  The      *)
(* servers, src/monotoniccounterservice/server.c, are single-threaded:     *)
(* select, one message of each readable connection, one accept.            *)
(*                                                                         *)
(* A connection is a pair of byte streams.  A message is two parts of the  *)
(* stream (IV and tag, ciphertext), send and recv move one or both.  An    *)
(* instance of LibSEAL is called a client; after it exited it is another   *)
(* client that starts.                                                     *)
(***************************************************************************)
EXTENDS Integers, Sequences, FiniteSets

CONSTANTS
    Clients,        \* instances of LibSEAL
    Threads,        \* their threads
    Owner,          \* [Threads -> Clients]
    NumServers,     \* lines of monotonic_counter_service.txt
    MaxFds,         \* connections a server can hold
    EnclaveUp,      \* the enclave exists when its quorum_size is set
    Exits,          \* a client may exit
    MaxInserts      \* bound: rows each thread inserts

Servers == 1..NumServers

ASSUME CounterAssumption ==
    /\ Owner \in [Threads -> Clients]
    /\ {NumServers, MaxFds, MaxInserts} \subseteq Nat
    /\ {EnclaveUp, Exits} \subseteq BOOLEAN

VARIABLES
    alive,          \* the clients that have not exited
    connected,      \* quorum_size outside the enclave: servers connected to
    quorum_size,    \* quorum_size inside the enclave, None before the ecall
    buffer,         \* original_ciphertext outside the enclave
    pc,             \* where each thread is
    round,          \* rounds a thread has to make for its row
    to,             \* the server a thread sends to or receives from
    done,           \* bytes (parts) of that message sent or received
    inserts,        \* rows each thread has inserted
    up, down,       \* bytes on the way from client to server, and back
    spc,            \* where each server is
    backlog,        \* connections a server has not accepted yet
    fds,            \* the array of connections, of nfds elements
    readfds,        \* the readable connections select has found
    accepting,      \* select has found the listening socket readable
    i,              \* loop index of a server
    cipher,         \* the message a server works on
    served          \* history: messages of a client a server has answered

clientVars == <<alive, connected, quorum_size>>
threadVars == <<pc, round, to, done, inserts>>
serverVars == <<spc, backlog, fds, readfds, accepting, i, cipher, served>>
vars == <<clientVars, buffer, threadVars, up, down, serverVars>>

None == -1
Rounds == 2

-----------------------------------------------------------------------------
(* crypto.c and mcservice.c.  Key and IV are constants, so encryption is a *)
(* function of the plaintext.  A message that does not decrypt is reported *)
(* on the console; the server goes on with what the plaintext buffer holds.*)

Plaintexts == {"counter", "garbage"}
Parts == {1, 2} \X Plaintexts

Encrypt(m) == <<<<1, m>>, <<2, m>>>>

Decrypt(c) ==
    IF \E m \in Plaintexts : c = Encrypt(m)
    THEN CHOOSE m \in Plaintexts : c = Encrypt(m)
    ELSE "garbage"

Original == Encrypt("counter")
Size == Len(Original)

Init ==
    /\ alive = Clients
    /\ connected = [c \in Clients |-> 0]
    /\ quorum_size = [c \in Clients |-> None]
    /\ buffer = [c \in Clients |-> Original]
    /\ pc = [t \in Threads |-> "idle"]
    /\ round = [t \in Threads |-> 0]
    /\ to = [t \in Threads |-> 0]
    /\ done = [t \in Threads |-> 0]
    /\ inserts = [t \in Threads |-> 0]
    /\ up = [c \in Clients |-> [s \in Servers |-> <<>>]]
    /\ down = [c \in Clients |-> [s \in Servers |-> <<>>]]
    /\ spc = [s \in Servers |-> "select"]
    /\ backlog = [s \in Servers |-> <<>>]
    /\ fds = [s \in Servers |-> <<>>]
    /\ readfds = [s \in Servers |-> {}]
    /\ accepting = [s \in Servers |-> FALSE]
    /\ i = [s \in Servers |-> 0]
    /\ cipher = [s \in Servers |-> <<>>]
    /\ served = [c \in Clients |-> [s \in Servers |-> 0]]

Goto(t, label) == pc' = [pc EXCEPT ![t] = label]

-----------------------------------------------------------------------------
(* THE CLIENT                                                              *)

(* mcservice_initialize: connect to the next server.  The kernel completes *)
(* the connection before the server accepts it.                            *)
Connect(c) ==
    /\ c \in alive
    /\ connected[c] < NumServers
    /\ connected' = [connected EXCEPT ![c] = @ + 1]
    /\ backlog' = [backlog EXCEPT ![connected[c] + 1] = Append(@, c)]
    /\ UNCHANGED <<alive, quorum_size, buffer, threadVars, up, down, spc,
                   fds, readfds, accepting, i, cipher, served>>

(* ecall_mcservice_initialize.  A failing ecall is only reported, and the  *)
(* static quorum_size of the enclave remains 0.                            *)
SetQuorum(c) ==
    /\ c \in alive
    /\ connected[c] = NumServers
    /\ quorum_size[c] = None
    /\ quorum_size' =
          [quorum_size EXCEPT ![c] = IF EnclaveUp THEN connected[c] ELSE 0]
    /\ UNCHANGED <<alive, connected, buffer, threadVars, up, down, serverVars>>

(* insert_statement gets to its two rounds.                                *)
BeginInsert(t) ==
    /\ pc[t] = "idle"
    /\ quorum_size[Owner[t]] # None
    /\ inserts[t] < MaxInserts
    /\ round' = [round EXCEPT ![t] = Rounds]
    /\ Goto(t, "round")
    /\ UNCHANGED <<clientVars, buffer, to, done, inserts, up, down, serverVars>>

(* mcservice_encrypt_round, and mcservice_network_round leaves the enclave *)
(* - unless quorum_size is 0.                                              *)
BeginRound(t) ==
    /\ pc[t] = "round"
    /\ round[t] > 0
    /\ quorum_size[Owner[t]] > 0
    /\ to' = [to EXCEPT ![t] = 1]
    /\ done' = [done EXCEPT ![t] = 0]
    /\ Goto(t, "send")
    /\ UNCHANGED <<clientVars, buffer, round, inserts, up, down, serverVars>>

(* The next message of the round: to the next server, or after the last    *)
(* one the other loop, which receives, or mcservice_decrypt_round, which   *)
(* decrypts the enclave's own copy of the message and ends the round.      *)
NextMessage(t, len) ==
    LET last == to[t] = connected[Owner[t]]
    IN  IF len < Size
        THEN done' = [done EXCEPT ![t] = len] /\ UNCHANGED <<pc, to, round>>
        ELSE /\ done' = [done EXCEPT ![t] = 0]
             /\ to' = [to EXCEPT ![t] = IF last THEN 1 ELSE @ + 1]
             /\ Goto(t, IF ~last THEN pc[t]
                        ELSE IF pc[t] = "send" THEN "recv" ELSE "round")
             /\ round' = [round EXCEPT ![t] =
                              IF last /\ pc[t] = "recv" THEN @ - 1 ELSE @]

(* sendMsg: one send() of n bytes, starting at byte from + 1.              *)
SendBytes(t, from, n) ==
    LET c == Owner[t] IN
    /\ pc[t] = "send"
    /\ n \in 1..(Size - done[t])
    /\ up' = [up EXCEPT ![c][to[t]] = @ \o SubSeq(buffer[c], from + 1, from + n)]
    /\ NextMessage(t, done[t] + n)
    /\ UNCHANGED <<clientVars, buffer, inserts, down, serverVars>>

SendFromStart(t, n) == SendBytes(t, 0, n)   \* mutant: msg instead of msg + total

Send(t, n) == SendBytes(t, done[t], n)

(* recvMsg: one recv() of n bytes, which go to byte at + 1 of the buffer.  *)
(* The loop is left when len bytes have been received.  recv returns 0 for *)
(* ever once the server has closed the connection: the loop does not end.  *)
RecvBytes(t, at, n, len) ==
    LET c == Owner[t]
        stream == down[c][to[t]]
    IN  /\ pc[t] = "recv"
        /\ n \in 1..(Size - done[t])
        /\ n =< Len(stream)
        /\ buffer' = [buffer EXCEPT ![c] =
              [k \in 1..Size |->
                  IF k \in (at + 1)..(at + n) THEN stream[k - at] ELSE @[k]]]
        /\ down' = [down EXCEPT ![c][to[t]] = SubSeq(@, n + 1, Len(@))]
        /\ NextMessage(t, len)
        /\ UNCHANGED <<clientVars, inserts, up, serverVars>>

\* mutants: buf instead of &buf[len_tmp]; no loop
RecvToStart(t, n) == RecvBytes(t, 0, n, done[t] + n)
RecvOnce(t, n) == RecvBytes(t, done[t], n, Size)

Recv(t, n) == RecvBytes(t, done[t], n, done[t] + n)

(* After the rounds, or at once if there is no quorum, the row is inserted.*)
Insert(t) ==
    /\ pc[t] = "round"
    /\ round[t] = 0 \/ quorum_size[Owner[t]] = 0
    /\ inserts' = [inserts EXCEPT ![t] = @ + 1]
    /\ Goto(t, "idle")
    /\ UNCHANGED <<clientVars, buffer, round, to, done, up, down, serverVars>>

(* The process ends.  What it has sent can still be received.              *)
Exit(c) ==
    /\ Exits
    /\ c \in alive
    /\ alive' = alive \ {c}
    /\ UNCHANGED <<connected, quorum_size, buffer, threadVars, up, down,
                   serverVars>>

-----------------------------------------------------------------------------
(* THE SERVER                                                              *)

ServerGoto(s, label) == spc' = [spc EXCEPT ![s] = label]

(* A connection is readable when there are bytes or the peer has closed it *)
Readable(s) ==
    {k \in DOMAIN fds[s] : up[fds[s][k]][s] # <<>> \/ fds[s][k] \notin alive}

Select(s) ==
    /\ spc[s] = "select"
    /\ Readable(s) # {} \/ backlog[s] # <<>>
    /\ readfds' = [readfds EXCEPT ![s] = Readable(s)]
    /\ accepting' = [accepting EXCEPT ![s] = backlog[s] # <<>>]
    /\ i' = [i EXCEPT ![s] = 1]
    /\ ServerGoto(s, "serve")
    /\ UNCHANGED <<clientVars, buffer, threadVars, up, down, backlog, fds,
                   cipher, served>>

(* FD_ISSET: the next readable connection below the limit nfds is served.  *)
ServeBelow(s, nfds) ==
    LET next == {k \in readfds[s] : k >= i[s] /\ k =< nfds} IN
    /\ spc[s] = "serve"
    /\ IF next = {}
       THEN ServerGoto(s, "accept") /\ UNCHANGED <<i, cipher>>
       ELSE /\ i' = [i EXCEPT ![s] = CHOOSE k \in next : \A l \in next : k =< l]
            /\ cipher' = [cipher EXCEPT ![s] = <<>>]
            /\ ServerGoto(s, "recv")
    /\ UNCHANGED <<clientVars, buffer, threadVars, up, down, backlog, fds,
                   readfds, accepting, served>>

ServeButLast(s) == ServeBelow(s, Len(fds[s]) - 1)   \* mutant: i < nfds - 1

Serve(s) == ServeBelow(s, Len(fds[s]))

(* recvMsg, as in the client: it blocks when there is nothing to receive   *)
(* and loops for ever on a connection that was closed.                     *)
ServerRecv(s, n) ==
    LET c == fds[s][i[s]] IN
    /\ spc[s] = "recv"
    /\ n \in 1..(Size - Len(cipher[s]))
    /\ n =< Len(up[c][s])
    /\ cipher' = [cipher EXCEPT ![s] = @ \o SubSeq(up[c][s], 1, n)]
    /\ up' = [up EXCEPT ![c][s] = SubSeq(@, n + 1, Len(@))]
    /\ ServerGoto(s, IF Len(cipher[s]) + n < Size THEN "recv" ELSE "reply")
    /\ UNCHANGED <<clientVars, buffer, threadVars, down, backlog, fds,
                   readfds, accepting, i, served>>

(* decrypt, encrypt and sendMsg.                                           *)
Reply(s) ==
    LET c == fds[s][i[s]] IN
    /\ spc[s] = "reply"
    /\ down' = [down EXCEPT ![c][s] = @ \o Encrypt(Decrypt(cipher[s]))]
    /\ served' = [served EXCEPT ![c][s] = @ + 1]
    /\ i' = [i EXCEPT ![s] = @ + 1]
    /\ ServerGoto(s, "serve")
    /\ UNCHANGED <<clientVars, buffer, threadVars, up, backlog, fds, readfds,
                   accepting, cipher>>

(* send() fails, or raises SIGPIPE, when the client has gone: either way   *)
(* the process ends, and its connections with it.                          *)
ServerExits(s) ==
    /\ spc[s] = "reply"
    /\ fds[s][i[s]] \notin alive
    /\ ServerGoto(s, "exited")
    /\ UNCHANGED <<clientVars, buffer, threadVars, up, down, backlog, fds,
                   readfds, accepting, i, cipher, served>>

(* accept, and close if there is no room in fds.                           *)
AcceptWithin(s, room) ==
    /\ spc[s] = "accept"
    /\ accepting[s]
    /\ backlog' = [backlog EXCEPT ![s] = Tail(@)]
    /\ fds' = IF Len(fds[s]) = room THEN fds
              ELSE [fds EXCEPT ![s] = Append(@, Head(backlog[s]))]
    /\ ServerGoto(s, "select")
    /\ UNCHANGED <<clientVars, buffer, threadVars, up, down, readfds,
                   accepting, i, cipher, served>>

AcceptOneMore(s) == AcceptWithin(s, MaxFds + 1)     \* mutant: off by one

Accept(s) == AcceptWithin(s, MaxFds)

EndOfLoop(s) ==
    /\ spc[s] = "accept"
    /\ ~accepting[s]
    /\ ServerGoto(s, "select")
    /\ UNCHANGED <<clientVars, buffer, threadVars, up, down, backlog, fds,
                   readfds, accepting, i, cipher, served>>

-----------------------------------------------------------------------------
ThreadStep(t) ==
    /\ Owner[t] \in alive
    /\ \/ BeginRound(t) \/ Insert(t)
       \/ \E n \in 1..Size : Send(t, n) \/ Recv(t, n)

ServerStep(s) ==
    \/ Select(s) \/ Serve(s) \/ Reply(s) \/ ServerExits(s)
    \/ Accept(s) \/ EndOfLoop(s)
    \/ \E n \in 1..Size : ServerRecv(s, n)

StartStep(c) == Connect(c) \/ SetQuorum(c)

Next ==
    \/ \E c \in Clients : StartStep(c) \/ Exit(c)
    \/ \E t \in Threads : (Owner[t] \in alive /\ BeginInsert(t)) \/ ThreadStep(t)
    \/ \E s \in Servers : ServerStep(s)

Spec == Init /\ [][Next]_vars

(* Every process that can run is run; the application inserts rows, and    *)
(* exits, when it likes.                                                   *)
FairSpec ==
    /\ Spec
    /\ \A c \in Clients : WF_vars(StartStep(c))
    /\ \A t \in Threads : WF_vars(ThreadStep(t))
    /\ \A s \in Servers : WF_vars(ServerStep(s))

-----------------------------------------------------------------------------
(* PROPERTIES                                                              *)

(* Every variable keeps its type, and fds its size. *)
TypeOK ==
    /\ alive \subseteq Clients
    /\ connected \in [Clients -> 0..NumServers]
    /\ quorum_size \in [Clients -> {None} \cup 0..NumServers]
    /\ buffer \in [Clients -> Seq(Parts)]
    /\ pc \in [Threads -> {"idle", "round", "send", "recv"}]
    /\ round \in [Threads -> 0..Rounds]
    /\ to \in [Threads -> 0..NumServers]
    /\ done \in [Threads -> 0..(Size - 1)]
    /\ inserts \in [Threads -> 0..MaxInserts]
    /\ up \in [Clients -> [Servers -> Seq(Parts)]]
    /\ down \in [Clients -> [Servers -> Seq(Parts)]]
    /\ spc \in [Servers ->
                   {"select", "serve", "recv", "reply", "accept", "exited"}]
    /\ backlog \in [Servers -> Seq(Clients)]
    /\ fds \in [Servers -> Seq(Clients)]
    /\ \A s \in Servers : Len(fds[s]) =< MaxFds
    /\ readfds \in [Servers -> SUBSET (1..MaxFds)]
    /\ accepting \in [Servers -> BOOLEAN]
    /\ i \in [Servers -> Nat]
    /\ cipher \in [Servers -> Seq(Parts)]
    /\ served \in [Clients -> [Servers -> Nat]]

(* The rounds thread t has completed, for rows inserted or not, and all    *)
(* those of the threads of c, numbered for each thread.                    *)
RoundsOf(t) ==
    Rounds * inserts[t] + (IF pc[t] = "idle" THEN 0 ELSE Rounds - round[t])

Completed(c) ==
    {x \in Threads \X (1..(Rounds * MaxInserts)) :
        Owner[x[1]] = c /\ x[2] =< RoundsOf(x[1])}

(* No round ends before every server has answered one more message of this *)
(* client: whoever's bytes the threads receive from the shared sockets, a  *)
(* row is inserted only after as many answers of each server as there were *)
(* rounds.                                                                 *)
RoundsAnswered ==
    \A c \in Clients : quorum_size[c] > 0 =>
        \A s \in Servers : served[c][s] >= Cardinality(Completed(c))

(* What a server decrypts is a message a client has encrypted, although    *)
(* messages arrive in pieces, clients exit in the middle of a message, and *)
(* the client sends what it has received.                                  *)
MessagesDecrypt ==
    \A s \in Servers : spc[s] = "reply" => cipher[s] = Original

(* mcservice.c:24: "this code (but the initialize functions) should be     *)
(* thread-safe".  Then the shared buffer holds the message again whenever  *)
(* no thread of the client is receiving into it.                           *)
BufferIntact ==
    \A c \in Clients :
        (\A t \in Threads : Owner[t] = c => pc[t] # "recv")
            => buffer[c] = Original

(* README.md:85-87: LibSEAL "will then exchange (encrypted) messages for   *)
(* each database insert".  Then each row costs two answers of each server. *)
InsertsAreCounted ==
    \A c \in Clients, s \in Servers :
        served[c][s] >=
            Rounds * Cardinality({x \in Threads \X (1..MaxInserts) :
                                     Owner[x[1]] = c /\ x[2] =< inserts[x[1]]})

(* README.md:85-87: the messages are exchanged "for each database insert". *)
(* Then, unless its process exits, a thread's rounds come to an end and    *)
(* the row is inserted: servers block on one connection at a time, and     *)
(* every thread waits for all of them.                                     *)
InsertsReturn ==
    \A t \in Threads :
        (pc[t] # "idle") ~> (pc[t] = "idle" \/ Owner[t] \notin alive)

=============================================================================
