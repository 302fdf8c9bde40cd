---------------------------- MODULE CounterProofs ----------------------------
(***************************************************************************)
(* Theorems about MonotonicCounter, for all numbers of clients, threads,   *)
(* servers and connections, exits at any moment and streams that deliver a *)
(* message in any pieces: types; that no round ends unanswered; and, with  *)
(* one thread in each client, that what a server decrypts and what a       *)
(* client sends is always the message.                                     *)
(***************************************************************************)
EXTENDS MonotonicCounter, SequenceTheorems, FiniteSetTheorems,
        WellFoundedInduction, TLAPS

-----------------------------------------------------------------------------
(* MESSAGES AND PIECES OF THEM                                             *)

LEMMA OriginalIs ==
    /\ Original = <<<<1, "counter">>, <<2, "counter">>>>
    /\ Original \in Seq(Parts) /\ Len(Original) = 2
    /\ Size = 2
<1>1. Original = <<<<1, "counter">>, <<2, "counter">>>>
  BY DEF Original, Encrypt
<1>2. <<1, "counter">> \in Parts /\ <<2, "counter">> \in Parts
  BY DEF Parts, Plaintexts
<1> QED BY <1>1, <1>2 DEF Size

LEMMA EncryptIs ==
    ASSUME NEW c
    PROVE  /\ Encrypt(Decrypt(c)) \in Seq(Parts)
           /\ Len(Encrypt(Decrypt(c))) = 2
<1>1. Decrypt(c) \in Plaintexts
  <2>1. CASE \E m \in Plaintexts : c = Encrypt(m)
    BY <2>1, Zenon DEF Decrypt
  <2>2. CASE ~\E m \in Plaintexts : c = Encrypt(m)
    BY <2>2 DEF Decrypt, Plaintexts
  <2> QED BY <2>1, <2>2
<1>2. \A m \in Plaintexts : <<1, m>> \in Parts /\ <<2, m>> \in Parts
  BY DEF Parts
<1> QED BY <1>1, <1>2 DEF Encrypt

(* A message encrypted again is itself. *)
LEMMA OriginalAgain == Encrypt(Decrypt(Original)) = Original
<1>1. "counter" \in Plaintexts /\ Original = Encrypt("counter")
  BY DEF Plaintexts, Original
<1>2. Decrypt(Original) \in Plaintexts /\ Original = Encrypt(Decrypt(Original))
  BY <1>1, Zenon DEF Decrypt
<1> QED BY <1>2

(* Joining and splitting streams. *)
LEMMA Joined ==
    ASSUME NEW p \in Seq(Parts), NEW q \in Seq(Parts)
    PROVE  /\ p \o q \in Seq(Parts) /\ Len(p \o q) = Len(p) + Len(q)
           /\ \A k \in 1..Len(p) : (p \o q)[k] = p[k]
           /\ \A k \in 1..Len(q) : (p \o q)[Len(p) + k] = q[k]
  BY ConcatProperties

LEMMA Piece ==
    ASSUME NEW q \in Seq(Parts), NEW m \in Nat, NEW n \in Nat,
           m + n =< Len(q)
    PROVE  /\ SubSeq(q, m + 1, m + n) \in Seq(Parts)
           /\ Len(SubSeq(q, m + 1, m + n)) = n
           /\ \A k \in 1..n : SubSeq(q, m + 1, m + n)[k] = q[m + k]
<1>1. \A k \in (m + 1)..(m + n) : k \in 1..Len(q) /\ q[k] \in Parts
  BY ElementOfSeq
<1> QED BY <1>1

LEMMA Remainder ==
    ASSUME NEW q \in Seq(Parts), NEW n \in Nat, n =< Len(q)
    PROVE  /\ SubSeq(q, n + 1, Len(q)) \in Seq(Parts)
           /\ Len(SubSeq(q, n + 1, Len(q))) = Len(q) - n
           /\ \A k \in 1..(Len(q) - n) : SubSeq(q, n + 1, Len(q))[k] = q[n + k]
<1>1. \A k \in (n + 1)..Len(q) : k \in 1..Len(q) /\ q[k] \in Parts
  BY ElementOfSeq
<1> QED BY <1>1

LEMMA TwoParts ==
    ASSUME NEW f \in [1..2 -> Parts]
    PROVE  f \in Seq(Parts) /\ Len(f) = 2
<1>1. f \in Seq(Parts)
  <2>1. 2 \in Nat
    OBVIOUS
  <2>2. Seq(Parts) = UNION {[1..k -> Parts] : k \in Nat}
    BY SeqDef
  <2> QED BY <2>1, <2>2, Zenon
<1>2. DOMAIN f = 1..2 /\ DOMAIN f = 1..Len(f) /\ Len(f) \in Nat
  BY <1>1, LenProperties
<1>3. ASSUME NEW m \in Nat, 1..m = 1..2 PROVE m = 2
  <2>1. 2 \in 1..m
    BY <1>3
  <2>2. m \in 1..m
    BY <2>1
  <2>3. m \in 1..2
    BY <1>3, <2>2
  <2> QED BY <2>1, <2>3
<1>4. 1..Len(f) = 1..2
  BY <1>2, Zenon
<1> QED BY <1>1, <1>2, <1>3, <1>4

(* One stream among those of all connections. *)
LEMMA OneStream ==
    ASSUME NEW V, NEW f \in [Clients -> [Servers -> V]],
           NEW a \in Clients, NEW b \in Servers, NEW v \in V
    PROVE  /\ [f EXCEPT ![a][b] = v] \in [Clients -> [Servers -> V]]
           /\ \A c \in Clients, s \in Servers :
                 [f EXCEPT ![a][b] = v][c][s] = IF c = a /\ s = b THEN v ELSE f[c][s]
  OBVIOUS

-----------------------------------------------------------------------------
(* TYPES                                                                   *)

Threadly ==
    /\ \A c \in Clients : Len(buffer[c]) = 2
    /\ \A c \in Clients : quorum_size[c] # None => connected[c] = NumServers
    /\ \A t \in Threads : pc[t] # "idle" =>
          quorum_size[Owner[t]] # None /\ inserts[t] < MaxInserts
    /\ \A t \in Threads : pc[t] \in {"send", "recv"} =>
          to[t] \in Servers /\ round[t] > 0

(* What a server has found stays there until it turns to it: only it       *)
(* shortens the backlog, and never an array it is going through.           *)
Serverly ==
    /\ \A s \in Servers : spc[s] \in {"serve", "recv", "reply"} =>
          readfds[s] \subseteq 1..Len(fds[s])
    /\ \A s \in Servers : spc[s] \in {"recv", "reply"} => i[s] \in 1..Len(fds[s])
    /\ \A s \in Servers : spc[s] = "recv" => Len(cipher[s]) < 2
    /\ \A s \in Servers : spc[s] = "reply" => Len(cipher[s]) = 2
    /\ \A s \in Servers :
          spc[s] \in {"serve", "recv", "reply", "accept"} /\ accepting[s] =>
             backlog[s] # <<>>

TInv == TypeOK /\ Threadly /\ Serverly

LEMMA Constants ==
    /\ NumServers \in Nat /\ MaxFds \in Nat /\ MaxInserts \in Nat
    /\ \A t \in Threads : Owner[t] \in Clients
    /\ Rounds = 2 /\ None \notin Nat /\ Size = 2
  BY CounterAssumption, OriginalIs DEF Rounds, None

LEMMA InitTyped == Init => TInv
<1> SUFFICES ASSUME Init PROVE TInv
  OBVIOUS
<1>1. TypeOK
  <2>1. /\ connected \in [Clients -> 0..NumServers]
        /\ quorum_size \in [Clients -> {None} \cup 0..NumServers]
        /\ buffer \in [Clients -> Seq(Parts)]
    BY Constants, OriginalIs DEF Init
  <2>2. /\ round \in [Threads -> 0..Rounds] /\ to \in [Threads -> 0..NumServers]
        /\ done \in [Threads -> 0..(Size - 1)]
        /\ inserts \in [Threads -> 0..MaxInserts]
    BY Constants DEF Init
  <2>3. /\ up \in [Clients -> [Servers -> Seq(Parts)]]
        /\ down \in [Clients -> [Servers -> Seq(Parts)]]
        /\ served \in [Clients -> [Servers -> Nat]]
    BY DEF Init
  <2>4. accepting \in [Servers -> BOOLEAN]
    BY DEF Init
  <2>5. /\ fds \in [Servers -> Seq(Clients)] /\ \A s \in Servers : Len(fds[s]) =< MaxFds
        /\ backlog \in [Servers -> Seq(Clients)] /\ cipher \in [Servers -> Seq(Parts)]
    BY Constants DEF Init
  <2> QED BY <2>1, <2>2, <2>3, <2>4, <2>5 DEF Init, TypeOK
<1>2. Threadly
  BY OriginalIs DEF Init, Threadly
<1>3. Serverly
  BY DEF Init, Serverly
<1> QED BY <1>1, <1>2, <1>3 DEF TInv

(* NextMessage (tcp_net.c, mcservice.c): the position in a message, the    *)
(* server and the loop it goes on with.                                    *)
LEMMA NextMessageIs ==
    ASSUME TInv, NEW t \in Threads, pc[t] \in {"send", "recv"},
           NEW n \in 1..(Size - done[t]), NextMessage(t, done[t] + n)
    PROVE  /\ pc' \in [Threads -> {"idle", "round", "send", "recv"}]
           /\ round' \in [Threads -> 0..Rounds]
           /\ to' \in [Threads -> 0..NumServers]
           /\ done' \in [Threads -> 0..(Size - 1)]
           /\ done[t] + n = 2 \/ (done[t] = 0 /\ n = 1)
           /\ done'[t] = IF done[t] + n = 2 THEN 0 ELSE 1
           /\ done[t] + n # 2 => pc' = pc /\ to' = to /\ round' = round
           /\ pc'[t] \in {pc[t], "recv", "round"}
           /\ pc'[t] \in {"send", "recv"} => to'[t] \in Servers /\ round'[t] > 0
           /\ \A u \in Threads : u # t =>
                 /\ pc'[u] = pc[u] /\ to'[u] = to[u]
                 /\ done'[u] = done[u] /\ round'[u] = round[u]
<1>1. /\ done[t] \in 0..1 /\ Size = 2 /\ round[t] \in 0..2 /\ round[t] > 0
      /\ to[t] \in 1..NumServers /\ NumServers \in Nat /\ Rounds = 2
      /\ connected[Owner[t]] = NumServers
  <2>1. pc[t] # "idle" /\ Owner[t] \in Clients
    BY Constants
  <2>2. connected[Owner[t]] = NumServers
    BY <2>1 DEF TInv, Threadly
  <2>3. to[t] \in Servers /\ round[t] > 0
    BY DEF TInv, Threadly
  <2>4. done[t] \in 0..(Size - 1) /\ round[t] \in 0..Rounds
    BY DEF TInv, TypeOK
  <2> QED BY <2>2, <2>3, <2>4, Constants DEF Servers
<1>2. done[t] + n = 2 \/ (done[t] = 0 /\ n = 1)
  BY <1>1
<1>3. /\ pc \in [Threads -> {"idle", "round", "send", "recv"}]
      /\ round \in [Threads -> 0..Rounds]
      /\ to \in [Threads -> 0..NumServers]
      /\ done \in [Threads -> 0..(Size - 1)]
  BY DEF TInv, TypeOK
<1>4. CASE done[t] = 0 /\ n = 1
  <2>1. done' = [done EXCEPT ![t] = 1] /\ UNCHANGED <<pc, to, round>>
    BY <1>1, <1>4 DEF NextMessage
  <2> QED BY <1>1, <1>2, <1>3, <1>4, <2>1 DEF Servers
<1>5. CASE done[t] + n = 2
  <2> DEFINE last == to[t] = NumServers
  <2>1. /\ done' = [done EXCEPT ![t] = 0]
        /\ to' = [to EXCEPT ![t] = IF last THEN 1 ELSE to[t] + 1]
        /\ pc' = [pc EXCEPT ![t] = IF ~last THEN pc[t]
                                   ELSE IF pc[t] = "send" THEN "recv" ELSE "round"]
        /\ round' = [round EXCEPT ![t] =
                        IF last /\ pc[t] = "recv" THEN round[t] - 1 ELSE round[t]]
    BY <1>1, <1>5 DEF NextMessage, Goto
  <2>2. CASE last
    <3>1. CASE pc[t] = "send"
      BY <1>1, <1>2, <1>3, <1>5, <2>1, <2>2, <3>1 DEF Servers
    <3>2. CASE pc[t] = "recv"
      BY <1>1, <1>2, <1>3, <1>5, <2>1, <2>2, <3>2 DEF Servers
    <3> QED BY <3>1, <3>2
  <2>3. CASE ~last
    BY <1>1, <1>2, <1>3, <1>5, <2>1, <2>3 DEF Servers
  <2> QED BY <2>2, <2>3
<1> QED BY <1>2, <1>4, <1>5

(* The types, by the actions that change them. *)
ClientTypes ==
    /\ alive \subseteq Clients
    /\ connected \in [Clients -> 0..NumServers]
    /\ quorum_size \in [Clients -> {None} \cup 0..NumServers]
    /\ buffer \in [Clients -> Seq(Parts)]

ThreadTypes ==
    /\ pc \in [Threads -> {"idle", "round", "send", "recv"}]
    /\ round \in [Threads -> 0..Rounds]
    /\ to \in [Threads -> 0..NumServers]
    /\ done \in [Threads -> 0..(Size - 1)]
    /\ inserts \in [Threads -> 0..MaxInserts]

StreamTypes ==
    /\ up \in [Clients -> [Servers -> Seq(Parts)]]
    /\ down \in [Clients -> [Servers -> Seq(Parts)]]
    /\ served \in [Clients -> [Servers -> Nat]]

ServerTypes ==
    /\ spc \in [Servers ->
                   {"select", "serve", "recv", "reply", "accept", "exited"}]
    /\ backlog \in [Servers -> Seq(Clients)]
    /\ fds \in [Servers -> Seq(Clients)]
    /\ \A s \in Servers : Len(fds[s]) =< MaxFds
    /\ readfds \in [Servers -> SUBSET (1..MaxFds)]
    /\ accepting \in [Servers -> BOOLEAN]
    /\ i \in [Servers -> Nat]
    /\ cipher \in [Servers -> Seq(Parts)]

LEMMA TypesAre ==
    TypeOK <=> ClientTypes /\ ThreadTypes /\ StreamTypes /\ ServerTypes
  BY DEF TypeOK, ClientTypes, ThreadTypes, StreamTypes, ServerTypes

LEMMA TypesAreNext ==
    TypeOK' <=> ClientTypes' /\ ThreadTypes' /\ StreamTypes' /\ ServerTypes'
  BY DEF TypeOK, ClientTypes, ThreadTypes, StreamTypes, ServerTypes

(* A step of a client leaves the servers alone. *)
LEMMA ServersRest ==
    ASSUME TInv, UNCHANGED <<spc, fds, readfds, accepting, i, cipher, backlog>>
    PROVE  ServerTypes' /\ Serverly'
<1>1. ServerTypes
  BY TypesAre DEF TInv
<1>2. ServerTypes'
  BY <1>1 DEF ServerTypes
<1>3. Serverly'
  BY DEF TInv, Serverly
<1> QED BY <1>2, <1>3

(* A step of a server leaves the clients alone. *)
LEMMA ClientsRest ==
    ASSUME TInv, UNCHANGED <<clientVars, buffer, threadVars>>
    PROVE  ClientTypes' /\ ThreadTypes' /\ Threadly'
<1>1. ClientTypes /\ ThreadTypes
  BY TypesAre DEF TInv
<1>2. ClientTypes' /\ ThreadTypes'
  BY <1>1 DEF ClientTypes, ThreadTypes, clientVars, threadVars
<1>3. Threadly'
  BY DEF TInv, Threadly, clientVars, threadVars
<1> QED BY <1>2, <1>3

LEMMA StreamsRest ==
    ASSUME TInv, UNCHANGED <<up, down, served>>
    PROVE  StreamTypes'
  BY TypesAre DEF TInv, StreamTypes

LEMMA ConnectKeeps ==
    ASSUME TInv, NEW c \in Clients, Connect(c)
    PROVE  TInv'
<1>1. /\ connected[c] < NumServers
      /\ connected' = [connected EXCEPT ![c] = @ + 1]
      /\ backlog' = [backlog EXCEPT ![connected[c] + 1] = Append(@, c)]
      /\ UNCHANGED <<alive, quorum_size, buffer, threadVars>>
      /\ UNCHANGED <<up, down, served>>
      /\ UNCHANGED <<spc, fds, readfds, accepting, i, cipher>>
  BY DEF Connect
<1>2. ClientTypes /\ ThreadTypes /\ ServerTypes
  BY TypesAre DEF TInv
<1>3. connected' \in [Clients -> 0..NumServers]
  BY <1>1, <1>2, Constants DEF ClientTypes
<1>4. ClientTypes' /\ ThreadTypes'
  BY <1>1, <1>2, <1>3 DEF ClientTypes, ThreadTypes, threadVars
<1>5. /\ backlog' \in [Servers -> Seq(Clients)]
      /\ \A s \in Servers : backlog[s] # <<>> => backlog'[s] # <<>>
  <2> DEFINE s == connected[c] + 1
             queue == Append(backlog[s], c)
  <2>1. s \in Servers
    BY <1>1, <1>2, Constants DEF ClientTypes, Servers
  <2>2. backlog' = [backlog EXCEPT ![s] = queue]
    BY <1>1
  <2> HIDE DEF s
  <2>3. queue \in Seq(Clients) /\ queue # <<>>
    <3>1. backlog[s] \in Seq(Clients)
      BY <1>2, <2>1 DEF ServerTypes
    <3> QED BY <3>1, AppendProperties
  <2> HIDE DEF queue
  <2> QED BY <1>2, <2>1, <2>2, <2>3 DEF ServerTypes
<1>6. ServerTypes'
  BY <1>1, <1>2, <1>5 DEF ServerTypes
<1>7. Threadly'
  <2>1. quorum_size[c] = None
    BY <1>1, <1>2, Constants DEF TInv, Threadly, ClientTypes
  <2> QED BY <1>1, <1>2, <2>1 DEF TInv, Threadly, ClientTypes, threadVars
<1>8. Serverly'
  BY <1>1, <1>5 DEF TInv, Serverly
<1> QED BY <1>1, <1>4, <1>6, <1>7, <1>8, StreamsRest, TypesAreNext DEF TInv

LEMMA SetQuorumKeeps ==
    ASSUME TInv, NEW c \in Clients, SetQuorum(c)
    PROVE  TInv'
<1>1. /\ connected[c] = NumServers
      /\ quorum_size' =
            [quorum_size EXCEPT ![c] = IF EnclaveUp THEN connected[c] ELSE 0]
      /\ UNCHANGED <<alive, connected, buffer, threadVars>>
      /\ UNCHANGED <<up, down, served>>
      /\ UNCHANGED <<spc, fds, readfds, accepting, i, cipher, backlog>>
  BY DEF SetQuorum, serverVars
<1>2. ClientTypes /\ ThreadTypes
  BY TypesAre DEF TInv
<1>3. (IF EnclaveUp THEN connected[c] ELSE 0) \in 0..NumServers
  BY <1>2, Constants DEF ClientTypes
<1>4. ClientTypes' /\ ThreadTypes'
  BY <1>1, <1>2, <1>3 DEF ClientTypes, ThreadTypes, threadVars
<1>5. \A d \in Clients : quorum_size[d] # None => quorum_size'[d] # None
  BY <1>1, <1>2, <1>3, Constants DEF ClientTypes
<1>6. Threadly'
  BY <1>1, <1>2, <1>5, Constants DEF TInv, Threadly, ClientTypes, threadVars
<1> QED BY <1>1, <1>4, <1>6, StreamsRest, ServersRest, TypesAreNext DEF TInv

LEMMA ExitKeeps ==
    ASSUME TInv, NEW c \in Clients, Exit(c)
    PROVE  TInv'
<1>1. /\ alive' \subseteq alive
      /\ UNCHANGED <<connected, quorum_size, buffer, threadVars>>
      /\ UNCHANGED <<up, down, served>>
      /\ UNCHANGED <<spc, fds, readfds, accepting, i, cipher, backlog>>
  BY DEF Exit, serverVars
<1>2. ClientTypes /\ ThreadTypes
  BY TypesAre DEF TInv
<1>3. ClientTypes' /\ ThreadTypes'
  BY <1>1, <1>2 DEF ClientTypes, ThreadTypes, threadVars
<1>4. Threadly'
  BY <1>1 DEF TInv, Threadly, threadVars
<1> QED BY <1>1, <1>3, <1>4, StreamsRest, ServersRest, TypesAreNext DEF TInv

LEMMA RoundsKeep ==
    ASSUME TInv, NEW t \in Threads, BeginInsert(t) \/ BeginRound(t) \/ Insert(t)
    PROVE  TInv'
<1>1. /\ UNCHANGED <<alive, connected, quorum_size, buffer>>
      /\ UNCHANGED <<up, down, served>>
      /\ UNCHANGED <<spc, fds, readfds, accepting, i, cipher, backlog>>
  BY DEF BeginInsert, BeginRound, Insert, clientVars, serverVars
<1>2. ClientTypes /\ ThreadTypes
  BY TypesAre DEF TInv
<1>3. ClientTypes'
  BY <1>1, <1>2 DEF ClientTypes
<1>4. CASE BeginInsert(t)
  <2>1. /\ quorum_size[Owner[t]] # None /\ inserts[t] < MaxInserts
        /\ round' = [round EXCEPT ![t] = Rounds] /\ pc' = [pc EXCEPT ![t] = "round"]
        /\ UNCHANGED <<to, done, inserts>>
    BY <1>4 DEF BeginInsert, Goto
  <2>2. ThreadTypes'
    BY <1>2, <2>1, Constants DEF ThreadTypes
  <2>3. Threadly'
    BY <1>1, <1>2, <2>1 DEF TInv, Threadly, ThreadTypes
  <2> QED BY <1>1, <1>3, <2>2, <2>3, StreamsRest, ServersRest, TypesAreNext DEF TInv
<1>5. CASE BeginRound(t)
  <2>1. /\ pc[t] = "round" /\ round[t] > 0 /\ quorum_size[Owner[t]] > 0
        /\ to' = [to EXCEPT ![t] = 1] /\ done' = [done EXCEPT ![t] = 0]
        /\ pc' = [pc EXCEPT ![t] = "send"] /\ UNCHANGED <<round, inserts>>
    BY <1>5 DEF BeginRound, Goto
  <2>2. 1 \in Servers /\ 1 \in 0..NumServers
    <3>1. quorum_size[Owner[t]] \in 0..NumServers
      BY <1>2, <2>1, Constants DEF ClientTypes, TInv, Threadly
    <3> QED BY <2>1, <3>1, Constants DEF Servers
  <2>3. ThreadTypes'
    BY <1>2, <2>1, <2>2, Constants DEF ThreadTypes
  <2>4. Threadly'
    BY <1>1, <1>2, <2>1, <2>2 DEF TInv, Threadly, ThreadTypes
  <2> QED BY <1>1, <1>3, <2>3, <2>4, StreamsRest, ServersRest, TypesAreNext DEF TInv
<1>6. CASE Insert(t)
  <2>1. /\ pc[t] = "round" /\ inserts' = [inserts EXCEPT ![t] = @ + 1]
        /\ pc' = [pc EXCEPT ![t] = "idle"] /\ UNCHANGED <<round, to, done>>
    BY <1>6 DEF Insert, Goto
  <2>2. inserts[t] + 1 \in 0..MaxInserts
    BY <1>2, <2>1, Constants DEF ThreadTypes, TInv, Threadly
  <2>3. ThreadTypes'
    BY <1>2, <2>1, <2>2, Constants DEF ThreadTypes
  <2>4. Threadly'
    BY <1>1, <1>2, <2>1 DEF TInv, Threadly, ThreadTypes
  <2> QED BY <1>1, <1>3, <2>3, <2>4, StreamsRest, ServersRest, TypesAreNext DEF TInv
<1> QED BY <1>4, <1>5, <1>6

(* One send() moves a piece of the message, or all of it. *)
LEMMA SendIs ==
    ASSUME TInv, NEW t \in Threads, NEW n \in 1..Size, Send(t, n)
    PROVE  LET c == Owner[t]
               piece == SubSeq(buffer[c], done[t] + 1, done[t] + n)
           IN  /\ c \in Clients /\ pc[t] = "send" /\ to[t] \in Servers
               /\ done[t] \in 0..1 /\ n \in 1..(2 - done[t])
               /\ piece \in Seq(Parts) /\ Len(piece) = n
               /\ up[c][to[t]] \in Seq(Parts)
               /\ up' \in [Clients -> [Servers -> Seq(Parts)]]
               /\ \A d \in Clients, s \in Servers :
                     up'[d][s] = IF d = c /\ s = to[t] THEN up[d][s] \o piece
                                 ELSE up[d][s]
               /\ NextMessage(t, done[t] + n)
               /\ UNCHANGED <<alive, connected, quorum_size, buffer, inserts>>
               /\ UNCHANGED <<down, served>>
               /\ UNCHANGED <<spc, fds, readfds, accepting, i, cipher, backlog>>
<1> DEFINE c == Owner[t]
           piece == SubSeq(buffer[c], done[t] + 1, done[t] + n)
           b == to[t]
<1>1. /\ pc[t] = "send" /\ n \in 1..(Size - done[t])
      /\ up' = [up EXCEPT ![c][b] = up[c][b] \o piece]
      /\ NextMessage(t, done[t] + n)
      /\ UNCHANGED <<alive, connected, quorum_size, buffer, inserts>>
      /\ UNCHANGED <<down, served>>
      /\ UNCHANGED <<spc, fds, readfds, accepting, i, cipher, backlog>>
  BY DEF Send, SendBytes, clientVars, serverVars
<1>2. c \in Clients /\ b \in Servers
  BY <1>1, Constants DEF TInv, Threadly
<1>3. done[t] \in 0..1 /\ n \in 1..(2 - done[t])
  BY <1>1, Constants DEF TInv, TypeOK
<1>4. piece \in Seq(Parts) /\ Len(piece) = n
  <2>1. buffer[c] \in Seq(Parts) /\ Len(buffer[c]) = 2
    BY <1>2 DEF TInv, TypeOK, Threadly
  <2>2. done[t] \in Nat /\ n \in Nat /\ done[t] + n =< 2
    BY <1>3
  <2> QED BY <2>1, <2>2, Piece
<1>5. up[c][b] \in Seq(Parts) /\ up \in [Clients -> [Servers -> Seq(Parts)]]
  BY <1>2 DEF TInv, TypeOK
<1> HIDE DEF piece
<1>6. up[c][b] \o piece \in Seq(Parts)
  BY <1>4, <1>5, Joined
<1>7. /\ up' \in [Clients -> [Servers -> Seq(Parts)]]
      /\ \A d \in Clients, s \in Servers :
            up'[d][s] = IF d = c /\ s = b THEN up[c][b] \o piece ELSE up[d][s]
  <2> HIDE DEF c, b
  <2> QED BY <1>1, <1>2, <1>5, <1>6, OneStream
<1> QED BY <1>1, <1>2, <1>3, <1>4, <1>5, <1>7 DEF piece

LEMMA SendKeeps ==
    ASSUME TInv, NEW t \in Threads, NEW n \in 1..Size, Send(t, n)
    PROVE  TInv'
<1>1. /\ pc[t] = "send" /\ n \in 1..(Size - done[t])
      /\ up' \in [Clients -> [Servers -> Seq(Parts)]]
      /\ NextMessage(t, done[t] + n)
      /\ UNCHANGED <<alive, connected, quorum_size, buffer, inserts>>
      /\ UNCHANGED <<down, served>>
      /\ UNCHANGED <<spc, fds, readfds, accepting, i, cipher, backlog>>
  BY SendIs, Constants
<1>2. ClientTypes /\ ThreadTypes /\ StreamTypes
  BY TypesAre DEF TInv
<1>3. ClientTypes' /\ StreamTypes'
  BY <1>1, <1>2 DEF ClientTypes, StreamTypes
<1>4. /\ ThreadTypes'
      /\ pc'[t] \in {pc[t], "recv", "round"}
      /\ pc'[t] \in {"send", "recv"} => to'[t] \in Servers /\ round'[t] > 0
      /\ \A u \in Threads : u # t =>
            pc'[u] = pc[u] /\ to'[u] = to[u] /\ round'[u] = round[u]
  BY <1>1, <1>2, NextMessageIs DEF ThreadTypes
<1>5. Threadly'
  BY <1>1, <1>4 DEF TInv, Threadly
<1> QED BY <1>1, <1>3, <1>4, <1>5, ServersRest, TypesAreNext DEF TInv

(* One recv() moves a piece of the stream into the buffer. *)
LEMMA RecvIs ==
    ASSUME TInv, NEW t \in Threads, NEW n \in 1..Size, Recv(t, n)
    PROVE  LET c == Owner[t]
               stream == down[c][to[t]]
           IN  /\ c \in Clients /\ pc[t] = "recv" /\ to[t] \in Servers
               /\ done[t] \in 0..1 /\ n \in 1..(2 - done[t])
               /\ stream \in Seq(Parts) /\ n =< Len(stream)
               /\ buffer' \in [Clients -> Seq(Parts)]
               /\ \A d \in Clients : d # c => buffer'[d] = buffer[d]
               /\ Len(buffer'[c]) = 2
               /\ \A k \in 1..2 :
                     buffer'[c][k] = IF k \in (done[t] + 1)..(done[t] + n)
                                     THEN stream[k - done[t]] ELSE buffer[c][k]
               /\ down' \in [Clients -> [Servers -> Seq(Parts)]]
               /\ \A d \in Clients, s \in Servers :
                     down'[d][s] = IF d = c /\ s = to[t]
                                   THEN SubSeq(stream, n + 1, Len(stream))
                                   ELSE down[d][s]
               /\ NextMessage(t, done[t] + n)
               /\ UNCHANGED <<alive, connected, quorum_size, inserts>>
               /\ UNCHANGED <<up, served>>
               /\ UNCHANGED <<spc, fds, readfds, accepting, i, cipher, backlog>>
<1> DEFINE c == Owner[t]
           b == to[t]
           stream == down[c][b]
           rest == SubSeq(stream, n + 1, Len(stream))
           part(k) == IF k \in (done[t] + 1)..(done[t] + n)
                      THEN stream[k - done[t]] ELSE buffer[c][k]
           message == [k \in 1..Size |-> part(k)]
<1>1. /\ pc[t] = "recv" /\ n \in 1..(Size - done[t]) /\ n =< Len(stream)
      /\ buffer' = [buffer EXCEPT ![c] = message]
      /\ down' = [down EXCEPT ![c][b] = rest]
      /\ NextMessage(t, done[t] + n)
      /\ UNCHANGED <<alive, connected, quorum_size, inserts>>
      /\ UNCHANGED <<up, served>>
      /\ UNCHANGED <<spc, fds, readfds, accepting, i, cipher, backlog>>
  BY DEF Recv, RecvBytes, clientVars, serverVars
<1>2. c \in Clients /\ b \in Servers
  BY <1>1, Constants DEF TInv, Threadly
<1>3. done[t] \in 0..1 /\ n \in 1..(2 - done[t])
  BY <1>1, Constants DEF TInv, TypeOK
<1>4. /\ stream \in Seq(Parts) /\ down \in [Clients -> [Servers -> Seq(Parts)]]
      /\ buffer \in [Clients -> Seq(Parts)]
      /\ buffer[c] \in Seq(Parts) /\ Len(buffer[c]) = 2
  BY <1>2 DEF TInv, TypeOK, Threadly
<1>5. rest \in Seq(Parts)
  BY <1>1, <1>4, Remainder
<1>6. \A k \in 1..2 : part(k) \in Parts
  <2>1. TAKE k \in 1..2
  <2>2. CASE k \in (done[t] + 1)..(done[t] + n)
    <3>1. k - done[t] \in 1..Len(stream)
      BY <1>1, <1>3, <1>4, <2>2
    <3>2. stream[k - done[t]] \in Parts
      BY <1>4, <3>1, ElementOfSeq
    <3> QED BY <2>2, <3>2
  <2>3. CASE k \notin (done[t] + 1)..(done[t] + n)
    <3>1. buffer[c][k] \in Parts
      BY <1>4, ElementOfSeq
    <3> QED BY <2>3, <3>1
  <2> QED BY <2>2, <2>3
<1>7. /\ message \in Seq(Parts) /\ Len(message) = 2
      /\ \A k \in 1..2 : message[k] = part(k)
  <2> HIDE DEF part
  <2>1. message = [k \in 1..2 |-> part(k)]
    BY Constants
  <2>2. \A k \in 1..2 : message[k] = part(k)
    BY <2>1
  <2>3. message \in [1..2 -> Parts]
    BY <1>6, <2>1
  <2>4. message \in Seq(Parts) /\ Len(message) = 2
    <3> HIDE DEF message
    <3> QED BY <2>3, TwoParts
  <2> HIDE DEF message
  <2> QED BY <2>2, <2>4
<1>8. /\ buffer' \in [Clients -> Seq(Parts)]
      /\ \A d \in Clients : d # c => buffer'[d] = buffer[d]
      /\ buffer'[c] = message
  <2> HIDE DEF message, c
  <2> QED BY <1>1, <1>2, <1>4, <1>7
<1>9. /\ down' \in [Clients -> [Servers -> Seq(Parts)]]
      /\ \A d \in Clients, s \in Servers :
            down'[d][s] = IF d = c /\ s = b THEN rest ELSE down[d][s]
  <2> HIDE DEF c, b, rest
  <2> QED BY <1>1, <1>2, <1>4, <1>5, OneStream
<1> HIDE DEF message
<1> QED BY <1>1, <1>2, <1>3, <1>4, <1>7, <1>8, <1>9

LEMMA RecvKeeps ==
    ASSUME TInv, NEW t \in Threads, NEW n \in 1..Size, Recv(t, n)
    PROVE  TInv'
<1>1. /\ pc[t] = "recv" /\ n \in 1..(Size - done[t])
      /\ buffer' \in [Clients -> Seq(Parts)]
      /\ \A d \in Clients : Len(buffer'[d]) = 2
      /\ down' \in [Clients -> [Servers -> Seq(Parts)]]
      /\ NextMessage(t, done[t] + n)
      /\ UNCHANGED <<alive, connected, quorum_size, inserts>>
      /\ UNCHANGED <<up, served>>
      /\ UNCHANGED <<spc, fds, readfds, accepting, i, cipher, backlog>>
  BY RecvIs, Constants DEF TInv, Threadly
<1>2. ClientTypes /\ ThreadTypes /\ StreamTypes
  BY TypesAre DEF TInv
<1>3. ClientTypes' /\ StreamTypes'
  BY <1>1, <1>2 DEF ClientTypes, StreamTypes
<1>4. /\ ThreadTypes'
      /\ pc'[t] \in {pc[t], "recv", "round"}
      /\ pc'[t] \in {"send", "recv"} => to'[t] \in Servers /\ round'[t] > 0
      /\ \A u \in Threads : u # t =>
            pc'[u] = pc[u] /\ to'[u] = to[u] /\ round'[u] = round[u]
  BY <1>1, <1>2, NextMessageIs DEF ThreadTypes
<1>5. Threadly'
  BY <1>1, <1>4 DEF TInv, Threadly
<1> QED BY <1>1, <1>3, <1>4, <1>5, ServersRest, TypesAreNext DEF TInv

LEMMA SelectKeeps ==
    ASSUME TInv, NEW s \in Servers, Select(s)
    PROVE  TInv'
<1>1. /\ readfds' = [readfds EXCEPT ![s] = Readable(s)]
      /\ accepting' = [accepting EXCEPT ![s] = backlog[s] # <<>>]
      /\ i' = [i EXCEPT ![s] = 1] /\ spc' = [spc EXCEPT ![s] = "serve"]
      /\ UNCHANGED <<clientVars, buffer, threadVars>>
      /\ UNCHANGED <<up, down, served>>
      /\ UNCHANGED <<backlog, fds, cipher>>
  BY DEF Select, ServerGoto
<1>2. ServerTypes
  BY TypesAre DEF TInv
<1>3. Readable(s) \subseteq 1..Len(fds[s]) /\ Len(fds[s]) \in Nat
  BY <1>2, LenProperties DEF ServerTypes, Readable
<1>4. Readable(s) \subseteq 1..MaxFds
  BY <1>2, <1>3, Constants DEF ServerTypes
<1>5. accepting' \in [Servers -> BOOLEAN]
  <2>1. (backlog[s] # <<>>) \in BOOLEAN
    OBVIOUS
  <2> QED BY <1>1, <1>2, <2>1, Zenon DEF ServerTypes
<1>6. ServerTypes'
  <2>1. readfds' \in [Servers -> SUBSET (1..MaxFds)] /\ i' \in [Servers -> Nat]
    BY <1>1, <1>2, <1>4 DEF ServerTypes
  <2>2. spc' \in [Servers ->
                   {"select", "serve", "recv", "reply", "accept", "exited"}]
    BY <1>1, <1>2 DEF ServerTypes
  <2> QED BY <1>1, <1>2, <1>5, <2>1, <2>2 DEF ServerTypes
<1>7. Serverly'
  <2>1. \A r \in Servers : r # s =>
           /\ spc'[r] = spc[r] /\ readfds'[r] = readfds[r] /\ i'[r] = i[r]
    BY <1>1, <1>2 DEF ServerTypes
  <2>2. \A r \in Servers : r # s => accepting'[r] = accepting[r]
    BY <1>1, <1>2, Zenon DEF ServerTypes
  <2>3. spc'[s] = "serve" /\ readfds'[s] \subseteq 1..Len(fds[s])
    BY <1>1, <1>2, <1>3 DEF ServerTypes
  <2>4. accepting'[s] => backlog[s] # <<>>
    BY <1>1, <1>2, Zenon DEF ServerTypes
  <2>5. \A r \in Servers :
           spc'[r] \in {"serve", "recv", "reply", "accept"} /\ accepting'[r] =>
              backlog'[r] # <<>>
    <3>1. TAKE r \in Servers
    <3>2. CASE r = s
      BY <1>1, <2>4, <3>2, Zenon
    <3>3. CASE r # s
      <4>1. spc[r] \in {"serve", "recv", "reply", "accept"} /\ accepting[r] =>
              backlog[r] # <<>>
        BY DEF TInv, Serverly
      <4> QED BY <1>1, <2>1, <2>2, <3>3, <4>1, Zenon
    <3> QED BY <3>2, <3>3
  <2>6. /\ \A r \in Servers : spc'[r] \in {"serve", "recv", "reply"} =>
              readfds'[r] \subseteq 1..Len(fds'[r])
        /\ \A r \in Servers : spc'[r] \in {"recv", "reply"} => i'[r] \in 1..Len(fds'[r])
        /\ \A r \in Servers : spc'[r] = "recv" => Len(cipher'[r]) < 2
        /\ \A r \in Servers : spc'[r] = "reply" => Len(cipher'[r]) = 2
    BY <1>1, <2>1, <2>3 DEF TInv, Serverly
  <2> QED BY <2>5, <2>6 DEF Serverly
<1> QED BY <1>1, <1>6, <1>7, ClientsRest, StreamsRest, TypesAreNext DEF TInv

(* Of the readable connections there is a first one. *)
LEMMA LeastExists ==
    ASSUME NEW S \in SUBSET Nat, S # {}
    PROVE  \E k \in S : \A l \in S : k =< l
<1> DEFINE R == {p \in Nat \X Nat : p[1] < p[2]}
<1>1. IsWellFoundedOn(R, Nat)
  BY NatLessThanWellFounded DEF OpToRel
<1>2. PICK k \in S : \A l \in S : <<l, k>> \notin R
  <2> HIDE DEF R
  <2> QED BY <1>1, WFMin
<1>3. ASSUME NEW l \in S PROVE k =< l
  <2>1. k \in Nat /\ l \in Nat /\ <<l, k>> \notin R
    BY <1>2
  <2>2. ~(l < k)
    BY <2>1
  <2> QED BY <2>1, <2>2
<1> QED BY <1>3

LEMMA ServeIs ==
    ASSUME TInv, NEW s \in Servers, Serve(s)
    PROVE  /\ spc[s] = "serve"
           /\ i' \in [Servers -> Nat]
           /\ \/ spc' = [spc EXCEPT ![s] = "accept"] /\ cipher' = cipher /\ i' = i
              \/ /\ spc' = [spc EXCEPT ![s] = "recv"]
                 /\ cipher' = [cipher EXCEPT ![s] = <<>>]
                 /\ i'[s] \in 1..Len(fds[s])
           /\ \A r \in Servers : r # s => i'[r] = i[r]
           /\ UNCHANGED <<clientVars, buffer, threadVars>>
           /\ UNCHANGED <<up, down, served>>
           /\ UNCHANGED <<backlog, fds, readfds, accepting>>
<1> DEFINE next == {k \in readfds[s] : k >= i[s] /\ k =< Len(fds[s])}
           least == CHOOSE k \in next : \A l \in next : k =< l
<1>1. /\ spc[s] = "serve"
      /\ IF next = {}
         THEN spc' = [spc EXCEPT ![s] = "accept"] /\ UNCHANGED <<i, cipher>>
         ELSE /\ i' = [i EXCEPT ![s] = least]
              /\ cipher' = [cipher EXCEPT ![s] = <<>>]
              /\ spc' = [spc EXCEPT ![s] = "recv"]
      /\ UNCHANGED <<clientVars, buffer, threadVars>>
      /\ UNCHANGED <<up, down, served>>
      /\ UNCHANGED <<backlog, fds, readfds, accepting>>
  BY DEF Serve, ServeBelow, ServerGoto
<1>2. ServerTypes
  BY TypesAre DEF TInv
<1>3. next \subseteq 1..Len(fds[s]) /\ Len(fds[s]) \in Nat
  BY <1>1, <1>2, LenProperties DEF TInv, Serverly, ServerTypes
<1>4. next # {} => least \in next
  <2>1. ASSUME next # {} PROVE \E k \in next : \A l \in next : k =< l
    <3>1. next \in SUBSET Nat
      BY <1>3
    <3> HIDE DEF next
    <3> QED BY <2>1, <3>1, LeastExists
  <2> QED BY <2>1, Zenon
<1> HIDE DEF next, least
<1>5. CASE next = {}
  BY <1>1, <1>2, <1>5 DEF ServerTypes
<1>6. CASE next # {}
  <2>1. least \in 1..Len(fds[s]) /\ least \in Nat
    <3>1. least \in 1..Len(fds[s])
      BY <1>3, <1>4, <1>6, Zenon
    <3> QED BY <1>3, <3>1
  <2>2. i' = [i EXCEPT ![s] = least]
    BY <1>1, <1>6
  <2>3. /\ i' \in [Servers -> Nat] /\ i'[s] = least
        /\ \A r \in Servers : r # s => i'[r] = i[r]
    BY <1>2, <2>1, <2>2 DEF ServerTypes
  <2> QED BY <1>1, <1>6, <2>1, <2>3
<1> QED BY <1>5, <1>6

LEMMA ServeKeeps ==
    ASSUME TInv, NEW s \in Servers, Serve(s)
    PROVE  TInv'
<1>0. /\ spc[s] = "serve"
      /\ i' \in [Servers -> Nat]
      /\ \/ spc' = [spc EXCEPT ![s] = "accept"] /\ cipher' = cipher /\ i' = i
         \/ /\ spc' = [spc EXCEPT ![s] = "recv"]
            /\ cipher' = [cipher EXCEPT ![s] = <<>>]
            /\ i'[s] \in 1..Len(fds[s])
      /\ \A r \in Servers : r # s => i'[r] = i[r]
      /\ UNCHANGED <<clientVars, buffer, threadVars>>
      /\ UNCHANGED <<up, down, served>>
      /\ UNCHANGED <<backlog, fds, readfds, accepting>>
  BY ServeIs
<1> USE <1>0
<1>1. ServerTypes
  BY TypesAre DEF TInv
<1>2. ServerTypes'
  <2>1. /\ spc' \in [Servers ->
                   {"select", "serve", "recv", "reply", "accept", "exited"}]
        /\ cipher' \in [Servers -> Seq(Parts)]
    <3>1. <<>> \in Seq(Parts)
      OBVIOUS
    <3>2. CASE spc' = [spc EXCEPT ![s] = "accept"] /\ cipher' = cipher
      BY <1>1, <3>2 DEF ServerTypes
    <3>3. CASE /\ spc' = [spc EXCEPT ![s] = "recv"]
               /\ cipher' = [cipher EXCEPT ![s] = <<>>]
      BY <1>1, <3>1, <3>3 DEF ServerTypes
    <3> QED BY <3>2, <3>3
  <2> QED BY <1>1, <2>1 DEF ServerTypes
<1>3. \A r \in Servers : r # s =>
         spc'[r] = spc[r] /\ i'[r] = i[r] /\ cipher'[r] = cipher[r]
  BY <1>1 DEF ServerTypes
<1>4. \/ spc'[s] = "accept"
      \/ spc'[s] = "recv" /\ cipher'[s] = <<>> /\ i'[s] \in 1..Len(fds[s])
  <2>1. s \in DOMAIN spc /\ s \in DOMAIN cipher
    BY <1>1 DEF ServerTypes
  <2>2. CASE spc' = [spc EXCEPT ![s] = "accept"]
    BY <2>1, <2>2
  <2>3. CASE /\ spc' = [spc EXCEPT ![s] = "recv"]
             /\ cipher' = [cipher EXCEPT ![s] = <<>>]
             /\ i'[s] \in 1..Len(fds[s])
    BY <2>1, <2>3
  <2> QED BY <2>2, <2>3
<1>5. Serverly'
  <2>1. \A r \in Servers :
           spc'[r] \in {"serve", "recv", "reply", "accept"} /\ accepting'[r] =>
              backlog'[r] # <<>>
    <3>1. TAKE r \in Servers
    <3>2. spc'[r] \in {"serve", "recv", "reply", "accept"} =>
             spc[r] \in {"serve", "recv", "reply", "accept"}
      BY <1>3
    <3>3. spc[r] \in {"serve", "recv", "reply", "accept"} /\ accepting[r] =>
             backlog[r] # <<>>
      BY DEF TInv, Serverly
    <3>4. UNCHANGED <<accepting, backlog>>
      OBVIOUS
    <3> QED BY <3>2, <3>3, <3>4, Zenon
  <2>2. UNCHANGED <<fds, readfds>> /\ spc[s] = "serve"
    OBVIOUS
  <2>3. /\ \A r \in Servers : spc'[r] \in {"serve", "recv", "reply"} =>
              readfds'[r] \subseteq 1..Len(fds'[r])
        /\ \A r \in Servers : spc'[r] \in {"recv", "reply"} => i'[r] \in 1..Len(fds'[r])
        /\ \A r \in Servers : spc'[r] = "recv" => Len(cipher'[r]) < 2
        /\ \A r \in Servers : spc'[r] = "reply" => Len(cipher'[r]) = 2
    BY <2>2, <1>3, <1>4 DEF TInv, Serverly
  <2> QED BY <2>1, <2>3 DEF Serverly
<1> QED BY <1>2, <1>5, ClientsRest, StreamsRest, TypesAreNext DEF TInv

(* What the steps of a server leave of Serverly to be shown, if they leave *)
(* its arrays alone.                                                       *)
LEMMA ServerlyRest ==
    ASSUME TInv, NEW s \in Servers,
           UNCHANGED <<fds, readfds, accepting, backlog>>,
           spc[s] \in {"serve", "recv", "reply", "accept"},
           \A r \in Servers : r # s =>
              spc'[r] = spc[r] /\ i'[r] = i[r] /\ cipher'[r] = cipher[r],
           spc'[s] \in {"serve", "recv", "reply"} => spc[s] # "accept",
           spc'[s] \in {"recv", "reply"} => i'[s] \in 1..Len(fds[s]),
           spc'[s] = "recv" => Len(cipher'[s]) < 2,
           spc'[s] = "reply" => Len(cipher'[s]) = 2
    PROVE  Serverly'
<1>1. \A r \in Servers :
         spc'[r] \in {"serve", "recv", "reply", "accept"} /\ accepting'[r] =>
            backlog'[r] # <<>>
  <2>1. TAKE r \in Servers
  <2>2. spc'[r] \in {"serve", "recv", "reply", "accept"} =>
           spc[r] \in {"serve", "recv", "reply", "accept"}
    OBVIOUS
  <2>3. spc[r] \in {"serve", "recv", "reply", "accept"} /\ accepting[r] =>
           backlog[r] # <<>>
    BY DEF TInv, Serverly
  <2> QED BY <2>2, <2>3, Zenon
<1>2. /\ \A r \in Servers : spc'[r] \in {"serve", "recv", "reply"} =>
            readfds'[r] \subseteq 1..Len(fds'[r])
      /\ \A r \in Servers : spc'[r] \in {"recv", "reply"} => i'[r] \in 1..Len(fds'[r])
      /\ \A r \in Servers : spc'[r] = "recv" => Len(cipher'[r]) < 2
      /\ \A r \in Servers : spc'[r] = "reply" => Len(cipher'[r]) = 2
  BY DEF TInv, Serverly
<1> QED BY <1>1, <1>2 DEF Serverly

LEMMA BelowTwo == \A m \in Nat : m < 2 => m \in 0..1
OBVIOUS

(* One recv() of the server moves a piece of the stream into its buffer.   *)
LEMMA ServerRecvIs ==
    ASSUME TInv, NEW s \in Servers, NEW n \in 1..Size, ServerRecv(s, n)
    PROVE  LET c == fds[s][i[s]]
               stream == up[c][s]
           IN  /\ c \in Clients /\ spc[s] = "recv"
               /\ cipher[s] \in Seq(Parts) /\ Len(cipher[s]) \in 0..1
               /\ n \in 1..(2 - Len(cipher[s]))
               /\ stream \in Seq(Parts) /\ n =< Len(stream)
               /\ cipher' = [cipher EXCEPT ![s] = cipher[s] \o SubSeq(stream, 1, n)]
               /\ cipher'[s] = cipher[s] \o SubSeq(stream, 1, n)
               /\ cipher' \in [Servers -> Seq(Parts)]
               /\ Len(cipher'[s]) = Len(cipher[s]) + n
               /\ up' \in [Clients -> [Servers -> Seq(Parts)]]
               /\ \A d \in Clients, r \in Servers :
                     up'[d][r] = IF d = c /\ r = s
                                 THEN SubSeq(stream, n + 1, Len(stream))
                                 ELSE up[d][r]
               /\ spc' = [spc EXCEPT ![s] =
                            IF Len(cipher[s]) + n < 2 THEN "recv" ELSE "reply"]
               /\ UNCHANGED <<clientVars, buffer, threadVars>>
               /\ UNCHANGED <<down, served>>
               /\ UNCHANGED <<backlog, fds, readfds, accepting, i>>
<1> DEFINE c == fds[s][i[s]]
           stream == up[c][s]
           piece == SubSeq(stream, 1, n)
           rest == SubSeq(stream, n + 1, Len(stream))
<1>1. /\ spc[s] = "recv" /\ n \in 1..(Size - Len(cipher[s])) /\ n =< Len(stream)
      /\ cipher' = [cipher EXCEPT ![s] = cipher[s] \o piece]
      /\ up' = [up EXCEPT ![c][s] = rest]
      /\ spc' = [spc EXCEPT ![s] =
                   IF Len(cipher[s]) + n < Size THEN "recv" ELSE "reply"]
      /\ UNCHANGED <<clientVars, buffer, threadVars>>
      /\ UNCHANGED <<down, served>>
      /\ UNCHANGED <<backlog, fds, readfds, accepting, i>>
  BY DEF ServerRecv, ServerGoto
<1>2. c \in Clients
  <2>1. i[s] \in 1..Len(fds[s]) /\ fds[s] \in Seq(Clients)
    BY <1>1 DEF TInv, TypeOK, Serverly
  <2> QED BY <2>1, ElementOfSeq
<1>3. /\ cipher[s] \in Seq(Parts) /\ Len(cipher[s]) \in 0..1
      /\ cipher \in [Servers -> Seq(Parts)]
  <2>1. cipher[s] \in Seq(Parts) /\ Len(cipher[s]) < 2
    BY <1>1 DEF TInv, TypeOK, Serverly
  <2>2. Len(cipher[s]) \in Nat
    BY <2>1, LenProperties
  <2>3. Len(cipher[s]) \in 0..1
    BY <2>1, <2>2, BelowTwo, Zenon
  <2> QED BY <2>1, <2>3 DEF TInv, TypeOK
<1>4. n \in 1..(2 - Len(cipher[s]))
  BY <1>1, Constants
<1>5. stream \in Seq(Parts) /\ up \in [Clients -> [Servers -> Seq(Parts)]]
  BY <1>2 DEF TInv, TypeOK
<1>6. piece \in Seq(Parts) /\ Len(piece) = n
  <2> HIDE DEF stream
  <2>1. 0 + n =< Len(stream) /\ n \in Nat /\ 0 \in Nat
    BY <1>1, <1>4
  <2>2. SubSeq(stream, 0 + 1, 0 + n) = SubSeq(stream, 1, n)
    BY <2>1
  <2> QED BY <1>5, <2>1, <2>2, Piece
<1>7. rest \in Seq(Parts)
  <2> HIDE DEF stream
  <2>1. n \in Nat
    BY <1>4
  <2> QED BY <1>1, <1>5, <2>1, Remainder
<1> HIDE DEF piece, rest
<1>8. /\ cipher[s] \o piece \in Seq(Parts)
      /\ Len(cipher[s] \o piece) = Len(cipher[s]) + n
  BY <1>3, <1>6, Joined
<1>9. /\ cipher' \in [Servers -> Seq(Parts)]
      /\ cipher'[s] = cipher[s] \o piece
  BY <1>1, <1>3, <1>8
<1>10. /\ up' \in [Clients -> [Servers -> Seq(Parts)]]
       /\ \A d \in Clients, r \in Servers :
             up'[d][r] = IF d = c /\ r = s THEN rest ELSE up[d][r]
  <2> HIDE DEF c
  <2> QED BY <1>1, <1>2, <1>5, <1>7, OneStream
<1>11. spc' = [spc EXCEPT ![s] =
                 IF Len(cipher[s]) + n < 2 THEN "recv" ELSE "reply"]
  BY <1>1, Constants
<1>12. Len(cipher'[s]) = Len(cipher[s]) + n
  BY <1>8, <1>9
<1> QED BY <1>1, <1>2, <1>3, <1>4, <1>5, <1>9, <1>10, <1>11, <1>12 DEF piece, rest

LEMMA ServerRecvKeeps ==
    ASSUME TInv, NEW s \in Servers, NEW n \in 1..Size, ServerRecv(s, n)
    PROVE  TInv'
<1>1. /\ spc[s] = "recv" /\ Len(cipher[s]) \in 0..1
      /\ n \in 1..(2 - Len(cipher[s]))
      /\ cipher' = [cipher EXCEPT ![s] = cipher'[s]]
      /\ cipher' \in [Servers -> Seq(Parts)]
      /\ Len(cipher'[s]) = Len(cipher[s]) + n
      /\ up' \in [Clients -> [Servers -> Seq(Parts)]]
      /\ spc' = [spc EXCEPT ![s] =
                   IF Len(cipher[s]) + n < 2 THEN "recv" ELSE "reply"]
      /\ UNCHANGED <<clientVars, buffer, threadVars>>
      /\ UNCHANGED <<down, served>>
      /\ UNCHANGED <<backlog, fds, readfds, accepting, i>>
  BY ServerRecvIs
<1>2. ServerTypes /\ StreamTypes
  BY TypesAre DEF TInv
<1>3. StreamTypes'
  BY <1>1, <1>2 DEF StreamTypes
<1>4. /\ spc' \in [Servers ->
                   {"select", "serve", "recv", "reply", "accept", "exited"}]
      /\ spc'[s] = IF Len(cipher[s]) + n < 2 THEN "recv" ELSE "reply"
      /\ \A r \in Servers : r # s => spc'[r] = spc[r] /\ cipher'[r] = cipher[r]
  BY <1>1, <1>2 DEF ServerTypes
<1>5. ServerTypes'
  BY <1>1, <1>2, <1>4 DEF ServerTypes
<1>6. Serverly'
  <2>1. i[s] \in 1..Len(fds[s])
    BY <1>1 DEF TInv, Serverly
  <2>2. /\ spc'[s] = "recv" => Len(cipher'[s]) < 2
        /\ spc'[s] = "reply" => Len(cipher'[s]) = 2
    BY <1>1, <1>4
  <2> QED BY <1>1, <1>4, <2>1, <2>2, ServerlyRest
<1> QED BY <1>1, <1>3, <1>5, <1>6, ClientsRest, TypesAreNext DEF TInv

LEMMA ReplyIs ==
    ASSUME TInv, NEW s \in Servers, Reply(s)
    PROVE  LET c == fds[s][i[s]]
               answer == Encrypt(Decrypt(cipher[s]))
           IN  /\ c \in Clients /\ spc[s] = "reply"
               /\ down[c][s] \in Seq(Parts)
               /\ down' \in [Clients -> [Servers -> Seq(Parts)]]
               /\ \A d \in Clients, r \in Servers :
                     down'[d][r] = IF d = c /\ r = s THEN down[d][r] \o answer
                                   ELSE down[d][r]
               /\ served' \in [Clients -> [Servers -> Nat]]
               /\ \A d \in Clients, r \in Servers :
                     served'[d][r] = IF d = c /\ r = s THEN served[d][r] + 1
                                     ELSE served[d][r]
               /\ i' = [i EXCEPT ![s] = @ + 1]
               /\ spc' = [spc EXCEPT ![s] = "serve"]
               /\ UNCHANGED <<clientVars, buffer, threadVars, up>>
               /\ UNCHANGED <<backlog, fds, readfds, accepting, cipher>>
<1> DEFINE c == fds[s][i[s]]
           answer == Encrypt(Decrypt(cipher[s]))
<1>1. /\ spc[s] = "reply"
      /\ down' = [down EXCEPT ![c][s] = down[c][s] \o answer]
      /\ served' = [served EXCEPT ![c][s] = served[c][s] + 1]
      /\ i' = [i EXCEPT ![s] = @ + 1]
      /\ spc' = [spc EXCEPT ![s] = "serve"]
      /\ UNCHANGED <<clientVars, buffer, threadVars, up>>
      /\ UNCHANGED <<backlog, fds, readfds, accepting, cipher>>
  BY DEF Reply, ServerGoto
<1>2. c \in Clients
  <2>1. i[s] \in 1..Len(fds[s]) /\ fds[s] \in Seq(Clients)
    BY <1>1 DEF TInv, TypeOK, Serverly
  <2> QED BY <2>1, ElementOfSeq
<1>3. answer \in Seq(Parts)
  BY EncryptIs
<1> HIDE DEF c, answer
<1>4. /\ down[c][s] \in Seq(Parts) /\ down \in [Clients -> [Servers -> Seq(Parts)]]
      /\ served[c][s] + 1 \in Nat /\ served \in [Clients -> [Servers -> Nat]]
  <2>1. /\ down \in [Clients -> [Servers -> Seq(Parts)]]
        /\ served \in [Clients -> [Servers -> Nat]]
    BY DEF TInv, TypeOK
  <2>2. down[c][s] \in Seq(Parts)
    BY <1>2, <2>1
  <2>3. served[c][s] \in Nat
    BY <1>2, <2>1
  <2> QED BY <2>1, <2>2, <2>3
<1>5. down[c][s] \o answer \in Seq(Parts)
  BY <1>3, <1>4, Joined
<1>6. /\ down' \in [Clients -> [Servers -> Seq(Parts)]]
      /\ \A d \in Clients, r \in Servers :
            down'[d][r] = IF d = c /\ r = s THEN down[c][s] \o answer ELSE down[d][r]
  BY <1>1, <1>2, <1>4, <1>5, OneStream
<1>7. /\ served' \in [Clients -> [Servers -> Nat]]
      /\ \A d \in Clients, r \in Servers :
            served'[d][r] = IF d = c /\ r = s THEN served[c][s] + 1 ELSE served[d][r]
  BY <1>1, <1>2, <1>4, OneStream
<1>8. \A d \in Clients, r \in Servers :
         /\ down'[d][r] = IF d = c /\ r = s THEN down[d][r] \o answer ELSE down[d][r]
         /\ served'[d][r] = IF d = c /\ r = s THEN served[d][r] + 1
                           ELSE served[d][r]
  BY <1>6, <1>7
<1>9. /\ down[c][s] \in Seq(Parts)
      /\ down' \in [Clients -> [Servers -> Seq(Parts)]]
      /\ served' \in [Clients -> [Servers -> Nat]]
  BY <1>4, <1>6, <1>7
<1> QED BY <1>1, <1>2, <1>8, <1>9, Zenon DEF c, answer

LEMMA ReplyKeeps ==
    ASSUME TInv, NEW s \in Servers, Reply(s)
    PROVE  TInv'
<1>1. /\ spc[s] = "reply"
      /\ down' \in [Clients -> [Servers -> Seq(Parts)]]
      /\ served' \in [Clients -> [Servers -> Nat]]
      /\ i' = [i EXCEPT ![s] = @ + 1]
      /\ spc' = [spc EXCEPT ![s] = "serve"]
      /\ UNCHANGED <<clientVars, buffer, threadVars, up>>
      /\ UNCHANGED <<backlog, fds, readfds, accepting, cipher>>
  BY ReplyIs
<1>2. ServerTypes /\ StreamTypes
  BY TypesAre DEF TInv
<1>3. StreamTypes'
  BY <1>1, <1>2 DEF StreamTypes
<1>4. /\ spc'[s] = "serve" /\ i' \in [Servers -> Nat]
      /\ \A r \in Servers : r # s => spc'[r] = spc[r] /\ i'[r] = i[r]
  BY <1>1, <1>2 DEF ServerTypes
<1>5. ServerTypes'
  BY <1>1, <1>2, <1>4 DEF ServerTypes
<1>6. Serverly'
  BY <1>1, <1>4, ServerlyRest
<1> QED BY <1>1, <1>3, <1>5, <1>6, ClientsRest, TypesAreNext DEF TInv

LEMMA LeavesKeep ==
    ASSUME TInv, NEW s \in Servers, ServerExits(s) \/ EndOfLoop(s)
    PROVE  TInv'
<1>1. /\ spc[s] \in {"reply", "accept"}
      /\ \/ spc' = [spc EXCEPT ![s] = "exited"]
         \/ spc' = [spc EXCEPT ![s] = "select"]
      /\ UNCHANGED <<clientVars, buffer, threadVars>>
      /\ UNCHANGED <<up, down, served>>
      /\ UNCHANGED <<backlog, fds, readfds, accepting, i, cipher>>
  BY DEF ServerExits, EndOfLoop, ServerGoto
<1>2. ServerTypes
  BY TypesAre DEF TInv
<1>3. /\ spc' \in [Servers ->
                   {"select", "serve", "recv", "reply", "accept", "exited"}]
      /\ spc'[s] \in {"select", "exited"}
      /\ \A r \in Servers : r # s => spc'[r] = spc[r]
  BY <1>1, <1>2 DEF ServerTypes
<1>4. ServerTypes'
  BY <1>1, <1>2, <1>3 DEF ServerTypes
<1>5. Serverly'
  BY <1>1, <1>3, ServerlyRest
<1> QED BY <1>1, <1>4, <1>5, ClientsRest, StreamsRest, TypesAreNext DEF TInv

LEMMA AcceptKeeps ==
    ASSUME TInv, NEW s \in Servers, Accept(s)
    PROVE  TInv'
<1>1. /\ spc[s] = "accept" /\ accepting[s]
      /\ backlog' = [backlog EXCEPT ![s] = Tail(@)]
      /\ fds' = IF Len(fds[s]) = MaxFds THEN fds
                ELSE [fds EXCEPT ![s] = Append(@, Head(backlog[s]))]
      /\ spc' = [spc EXCEPT ![s] = "select"]
      /\ UNCHANGED <<clientVars, buffer, threadVars>>
      /\ UNCHANGED <<up, down, served>>
      /\ UNCHANGED <<readfds, accepting, i, cipher>>
  BY DEF Accept, AcceptWithin, ServerGoto
<1>2. ServerTypes
  BY TypesAre DEF TInv
<1>3. /\ backlog[s] \in Seq(Clients) /\ backlog[s] # <<>>
      /\ fds[s] \in Seq(Clients) /\ Len(fds[s]) \in Nat /\ Len(fds[s]) =< MaxFds
  <2>1. backlog[s] # <<>>
    BY <1>1 DEF TInv, Serverly
  <2>2. fds[s] \in Seq(Clients) /\ Len(fds[s]) =< MaxFds /\ backlog[s] \in Seq(Clients)
    BY <1>2 DEF ServerTypes
  <2> QED BY <2>1, <2>2, LenProperties
<1>4. Tail(backlog[s]) \in Seq(Clients) /\ Head(backlog[s]) \in Clients
  BY <1>3, HeadTailProperties
<1>5. backlog' \in [Servers -> Seq(Clients)]
  BY <1>1, <1>2, <1>4 DEF ServerTypes
<1>6. /\ fds' \in [Servers -> Seq(Clients)]
      /\ \A r \in Servers : Len(fds'[r]) =< MaxFds
  <2>1. CASE Len(fds[s]) = MaxFds
    BY <1>1, <1>2, <2>1 DEF ServerTypes
  <2>2. CASE Len(fds[s]) # MaxFds
    <3> DEFINE more == Append(fds[s], Head(backlog[s]))
    <3>1. fds' = [fds EXCEPT ![s] = more]
      BY <1>1, <2>2
    <3>2. more \in Seq(Clients) /\ Len(more) =< MaxFds
      <4>1. more \in Seq(Clients) /\ Len(more) = Len(fds[s]) + 1
        BY <1>3, <1>4, AppendProperties
      <4> QED BY <1>3, <2>2, <4>1, Constants
    <3> HIDE DEF more
    <3> QED BY <1>2, <3>1, <3>2 DEF ServerTypes
  <2> QED BY <2>1, <2>2
<1>7. /\ spc' \in [Servers ->
                   {"select", "serve", "recv", "reply", "accept", "exited"}]
      /\ spc'[s] = "select"
      /\ \A r \in Servers : r # s =>
            spc'[r] = spc[r] /\ fds'[r] = fds[r] /\ backlog'[r] = backlog[r]
  BY <1>1, <1>2 DEF ServerTypes
<1>8. ServerTypes'
  BY <1>1, <1>2, <1>5, <1>6, <1>7 DEF ServerTypes
<1>9. Serverly'
  <2>1. \A r \in Servers :
           spc'[r] \in {"serve", "recv", "reply", "accept"} /\ accepting'[r] =>
              backlog'[r] # <<>>
    <3>1. TAKE r \in Servers
    <3>2. r # s => (spc[r] \in {"serve", "recv", "reply", "accept"} /\ accepting[r] =>
             backlog[r] # <<>>)
      BY DEF TInv, Serverly
    <3>3. accepting' = accepting
      BY <1>1
    <3> QED BY <1>7, <3>2, <3>3
  <2>2. /\ \A r \in Servers : spc'[r] \in {"serve", "recv", "reply"} =>
              readfds'[r] \subseteq 1..Len(fds'[r])
        /\ \A r \in Servers : spc'[r] \in {"recv", "reply"} => i'[r] \in 1..Len(fds'[r])
        /\ \A r \in Servers : spc'[r] = "recv" => Len(cipher'[r]) < 2
        /\ \A r \in Servers : spc'[r] = "reply" => Len(cipher'[r]) = 2
    BY <1>1, <1>7 DEF TInv, Serverly
  <2> QED BY <2>1, <2>2 DEF Serverly
<1> QED BY <1>1, <1>8, <1>9, ClientsRest, StreamsRest, TypesAreNext DEF TInv

LEMMA StutterKeeps ==
    ASSUME TInv, UNCHANGED vars
    PROVE  TInv'
<1>1. /\ UNCHANGED <<clientVars, buffer, threadVars>>
      /\ UNCHANGED <<up, down, served>>
      /\ UNCHANGED <<spc, fds, readfds, accepting, i, cipher, backlog>>
  BY DEF vars, serverVars
<1> QED BY <1>1, ClientsRest, StreamsRest, ServersRest, TypesAreNext DEF TInv

LEMMA NextTyped == TInv /\ [Next]_vars => TInv'
<1> SUFFICES ASSUME TInv, [Next]_vars PROVE TInv'
  OBVIOUS
<1>1. ASSUME NEW c \in Clients, StartStep(c) \/ Exit(c) PROVE TInv'
  BY <1>1, ConnectKeeps, SetQuorumKeeps, ExitKeeps DEF StartStep
<1>2. ASSUME NEW t \in Threads, BeginInsert(t) \/ ThreadStep(t) PROVE TInv'
  BY <1>2, RoundsKeep, SendKeeps, RecvKeeps DEF ThreadStep
<1>3. ASSUME NEW s \in Servers, ServerStep(s) PROVE TInv'
  BY <1>3, SelectKeeps, ServeKeeps, ServerRecvKeeps, ReplyKeeps, LeavesKeep,
     AcceptKeeps DEF ServerStep
<1>4. CASE UNCHANGED vars
  BY <1>4, StutterKeeps
<1> QED BY <1>1, <1>2, <1>3, <1>4 DEF Next

LEMMA TypesHold == Spec => []TInv
  BY InitTyped, NextTyped, PTL DEF Spec

(* Every variable keeps its type, with any number of threads and exits at  *)
(* any moment: the array of connections never has more than its MaxFds     *)
(* elements (server.c:116-139), and nothing is sent from or received       *)
(* behind the end of a message (tcp_net.c:15-55).                          *)
THEOREM TypeCorrect == Spec => []TypeOK
<1>1. TInv => TypeOK
  BY DEF TInv
<1> QED BY <1>1, TypesHold, PTL
-----------------------------------------------------------------------------
(* WHAT IS IN A STREAM                                                     *)

(* q is the part of a stream of whole messages that lies between the       *)
(* reader, which has read a parts of its message, and the writer, which    *)
(* has written b parts of its.                                             *)
Flow(q, a, b) ==
    /\ \A k \in 1..Len(q) : q[k] \in {Original[1], Original[2]}
    /\ \A k \in 1..(Len(q) - 1) : q[k] # q[k + 1]
    /\ Len(q) = 0 => a = b
    /\ Len(q) > 0 => q[1] = Original[a + 1] /\ q[Len(q)] = Original[2 - b]

LEMMA PartsDiffer == Original[1] # Original[2]
  BY OriginalIs

LEMMA FlowWrites ==
    ASSUME NEW q \in Seq(Parts), NEW a \in 0..1, NEW b \in 0..1, Flow(q, a, b),
           NEW n \in 1..(2 - b), NEW p \in Seq(Parts), Len(p) = n,
           \A k \in 1..n : p[k] = Original[b + k]
    PROVE  Flow(q \o p, a, IF b + n = 2 THEN 0 ELSE 1)
<1> DEFINE r == q \o p
           e == IF b + n = 2 THEN 0 ELSE 1
<1>1. /\ Len(q) \in Nat /\ Len(r) = Len(q) + n
      /\ \A k \in 1..Len(q) : r[k] = q[k]
      /\ \A k \in 1..n : r[Len(q) + k] = Original[b + k]
  BY Joined, LenProperties
<1> HIDE DEF r
<1>2. (n = 1 /\ b \in 0..1) \/ (n = 2 /\ b = 0)
  OBVIOUS
<1>3. r[Len(q) + 1] = Original[b + 1] /\ (n = 2 => r[Len(q) + 2] = Original[2])
  BY <1>1, <1>2
<1>4. \A k \in 1..Len(r) : r[k] \in {Original[1], Original[2]}
  <2> TAKE k \in 1..Len(r)
  <2>1. CASE k \in 1..Len(q)
    BY <1>1, <2>1 DEF Flow
  <2>2. CASE k = Len(q) + 1
    BY <1>3, <2>2
  <2>3. CASE n = 2 /\ k = Len(q) + 2
    BY <1>3, <2>3
  <2> QED BY <1>1, <1>2, <2>1, <2>2, <2>3
<1>5. \A k \in 1..(Len(r) - 1) : r[k] # r[k + 1]
  <2> TAKE k \in 1..(Len(r) - 1)
  <2>1. CASE k \in 1..(Len(q) - 1)
    <3>1. q[k] # q[k + 1] /\ k \in 1..Len(q) /\ k + 1 \in 1..Len(q)
      BY <1>1, <2>1 DEF Flow
    <3> QED BY <1>1, <3>1
  <2>2. CASE k = Len(q)
    <3>1. Len(q) > 0 /\ k \in 1..Len(q)
      BY <1>1, <2>2
    <3>2. r[k] = Original[2 - b]
      BY <1>1, <2>2, <3>1 DEF Flow
    <3>3. r[k + 1] = Original[b + 1]
      BY <1>3, <2>2
    <3> QED BY <3>2, <3>3, PartsDiffer
  <2>3. CASE n = 2 /\ k = Len(q) + 1
    <3>1. b = 0 /\ k + 1 = Len(q) + 2
      BY <1>1, <1>2, <2>3
    <3> QED BY <1>3, <2>3, <3>1, PartsDiffer
  <2> QED BY <1>1, <1>2, <2>1, <2>2, <2>3
<1>6. Len(r) > 0 /\ r[1] = Original[a + 1]
  <2>1. CASE Len(q) = 0
    BY <1>1, <1>3, <2>1 DEF Flow
  <2>2. CASE Len(q) > 0
    <3>1. 1 \in 1..Len(q)
      BY <1>1, <2>2
    <3> QED BY <1>1, <2>2, <3>1 DEF Flow
  <2> QED BY <1>1, <2>1, <2>2
<1>7. r[Len(r)] = Original[2 - e]
  <2>1. CASE n = 1 /\ b = 0
    BY <1>1, <1>3, <2>1
  <2>2. CASE n = 1 /\ b = 1
    BY <1>1, <1>3, <2>2
  <2>3. CASE n = 2 /\ b = 0
    BY <1>1, <1>3, <2>3
  <2> QED BY <1>2, <2>1, <2>2, <2>3
<1> HIDE DEF e
<1>8. Flow(r, a, e)
  BY <1>4, <1>5, <1>6, <1>7 DEF Flow
<1> QED BY <1>8 DEF r, e

LEMMA FlowReads ==
    ASSUME NEW q \in Seq(Parts), NEW a \in 0..1, NEW b \in 0..1, Flow(q, a, b),
           NEW n \in 1..(2 - a), n =< Len(q)
    PROVE  /\ \A k \in 1..n : q[k] = Original[a + k]
           /\ Flow(SubSeq(q, n + 1, Len(q)), IF a + n = 2 THEN 0 ELSE 1, b)
<1> DEFINE r == SubSeq(q, n + 1, Len(q))
           e == IF a + n = 2 THEN 0 ELSE 1
<1>1. /\ Len(q) \in Nat /\ Len(r) = Len(q) - n
      /\ \A k \in 1..(Len(q) - n) : r[k] = q[n + k]
  <2>1. n \in Nat
    OBVIOUS
  <2> QED BY <2>1, Remainder, LenProperties
<1> HIDE DEF r
<1>2. (n = 1 /\ a = 0) \/ (n = 1 /\ a = 1) \/ (n = 2 /\ a = 0)
  OBVIOUS
<1>3. q[1] = Original[a + 1] /\ q[Len(q)] = Original[2 - b]
  BY <1>1 DEF Flow
<1>4. n = 2 => q[2] = Original[2]
  <2>1. SUFFICES ASSUME n = 2 PROVE q[2] = Original[2]
    OBVIOUS
  <2>2. 1 \in 1..(Len(q) - 1) /\ 2 \in 1..Len(q) /\ q[1] = Original[1]
    BY <1>1, <1>2, <1>3, <2>1
  <2>3. q[1] # q[1 + 1] /\ q[2] \in {Original[1], Original[2]}
    BY <2>2 DEF Flow
  <2> QED BY <2>2, <2>3
<1>5. \A k \in 1..n : q[k] = Original[a + k]
  BY <1>2, <1>3, <1>4
<1>6. \A k \in 1..Len(r) : r[k] \in {Original[1], Original[2]}
  <2> TAKE k \in 1..Len(r)
  <2>1. n + k \in 1..Len(q) /\ r[k] = q[n + k]
    BY <1>1
  <2> QED BY <2>1 DEF Flow
<1>7. \A k \in 1..(Len(r) - 1) : r[k] # r[k + 1]
  <2> TAKE k \in 1..(Len(r) - 1)
  <2>1. /\ n + k \in 1..(Len(q) - 1) /\ r[k] = q[n + k]
        /\ r[k + 1] = q[n + (k + 1)] /\ n + (k + 1) = (n + k) + 1
    BY <1>1
  <2>2. q[n + k] # q[(n + k) + 1]
    BY <2>1 DEF Flow
  <2> QED BY <2>1, <2>2
<1>8. Len(r) = 0 => e = b
  <2>1. SUFFICES ASSUME Len(r) = 0 PROVE e = b
    OBVIOUS
  <2>2. Len(q) = n
    BY <1>1, <2>1
  <2>3. q[n] = Original[2 - b] /\ q[n] = Original[a + n]
    BY <1>3, <1>5, <2>2
  <2>4. Original[2 - b] = Original[a + n]
    BY <2>3
  <2>5. CASE b = 0
    BY <1>2, <2>4, <2>5, PartsDiffer
  <2>6. CASE b = 1
    BY <1>2, <2>4, <2>6, PartsDiffer
  <2> QED BY <2>5, <2>6
<1>9. Len(r) > 0 => r[1] = Original[e + 1] /\ r[Len(r)] = Original[2 - b]
  <2>1. SUFFICES ASSUME Len(r) > 0
                 PROVE r[1] = Original[e + 1] /\ r[Len(r)] = Original[2 - b]
    OBVIOUS
  <2>2. /\ r[1] = q[n + 1] /\ r[Len(r)] = q[Len(q)] /\ n \in 1..(Len(q) - 1)
        /\ n + 1 \in 1..Len(q) /\ n \in 1..n
    BY <1>1, <2>1
  <2>3. /\ q[n] # q[n + 1] /\ q[n + 1] \in {Original[1], Original[2]}
        /\ q[n] = Original[a + n]
    BY <1>5, <2>2 DEF Flow
  <2>4. r[1] = Original[e + 1]
    BY <1>2, <2>2, <2>3
  <2> QED BY <1>3, <2>2, <2>4
<1> HIDE DEF e
<1>10. Flow(r, e, b)
  BY <1>6, <1>7, <1>8, <1>9 DEF Flow
<1> QED BY <1>5, <1>10 DEF r, e
-----------------------------------------------------------------------------
(* WITH ONE THREAD IN EACH CLIENT                                          *)

Alone == \A t, u \in Threads : Owner[t] = Owner[u] => t = u

(* The parts a client has sent of the message it sends to a server, those  *)
(* it has received of the answer, and those the server has received of the *)
(* message: at each moment at most one.                                    *)
Sent(c, s) ==
    IF \E t \in Threads :
          Owner[t] = c /\ pc[t] = "send" /\ to[t] = s /\ done[t] = 1
    THEN 1 ELSE 0

Received(c, s) ==
    IF \E t \in Threads :
          Owner[t] = c /\ pc[t] = "recv" /\ to[t] = s /\ done[t] = 1
    THEN 1 ELSE 0

Taken(c, s) ==
    IF spc[s] = "recv" /\ fds[s][i[s]] = c /\ Len(cipher[s]) = 1 THEN 1 ELSE 0

Buffers == \A c \in Clients : buffer[c] = Original

Ciphers ==
    /\ \A s \in Servers : spc[s] = "recv" /\ Len(cipher[s]) = 1 =>
          cipher[s][1] = Original[1]
    /\ \A s \in Servers : spc[s] = "reply" => cipher[s] = Original

Up == \A c \in Clients, s \in Servers : Flow(up[c][s], Taken(c, s), Sent(c, s))

Down == \A c \in Clients, s \in Servers : Flow(down[c][s], Received(c, s), 0)

DInv == Buffers /\ Ciphers /\ Up /\ Down

(* A stream nobody has touched, and a place in it nobody has moved.        *)
LEMMA PlacesAre ==
    \A c, s : Sent(c, s) \in 0..1 /\ Received(c, s) \in 0..1 /\ Taken(c, s) \in 0..1
  BY DEF Sent, Received, Taken

LEMMA SentRest ==
    ASSUME UNCHANGED <<pc, to, done>>
    PROVE  \A c, s : Sent(c, s)' = Sent(c, s) /\ Received(c, s)' = Received(c, s)
  BY DEF Sent, Received

LEMMA TakenRest ==
    ASSUME UNCHANGED <<spc, fds, i, cipher>>
    PROVE  \A c, s : Taken(c, s)' = Taken(c, s)
  BY DEF Taken

LEMMA FlowsStart == Init => DInv
<1> SUFFICES ASSUME Init PROVE DInv
  OBVIOUS
<1>1. Flow(<<>>, 0, 0)
  BY DEF Flow
<1>2. \A c \in Clients, s \in Servers :
         Sent(c, s) = 0 /\ Received(c, s) = 0 /\ Taken(c, s) = 0
  BY DEF Init, Sent, Received, Taken
<1>3. \A c \in Clients, s \in Servers : up[c][s] = <<>> /\ down[c][s] = <<>>
  BY DEF Init
<1>4. Up /\ Down
  BY <1>1, <1>2, <1>3 DEF Up, Down
<1>5. Buffers /\ Ciphers
  BY DEF Init, Buffers, Ciphers
<1> QED BY <1>4, <1>5 DEF DInv

(* A step of a server that leaves its streams alone, and does not hold a   *)
(* part of a message before or after it.                                   *)
LEMMA IdleServerKeeps ==
    ASSUME TInv, DInv, NEW s \in Servers,
           UNCHANGED <<buffer, threadVars, up, down>>,
           spc[s] # "recv", spc'[s] # "reply",
           spc'[s] = "recv" => cipher'[s] = <<>>,
           \A r \in Servers : r # s =>
              spc'[r] = spc[r] /\ fds'[r] = fds[r] /\ i'[r] = i[r] /\ cipher'[r] = cipher[r]
    PROVE  DInv'
<1>1. \A c, r : Sent(c, r)' = Sent(c, r) /\ Received(c, r)' = Received(c, r)
  BY SentRest DEF threadVars
<1>2. \A c \in Clients, r \in Servers : Taken(c, r)' = Taken(c, r)
  <2>1. TAKE c \in Clients, r \in Servers
  <2>2. CASE r = s
    BY <2>2 DEF Taken
  <2>3. CASE r # s
    BY <2>3 DEF Taken
  <2> QED BY <2>2, <2>3
<1>3. Up' /\ Down'
  BY <1>1, <1>2 DEF DInv, Up, Down
<1>4. Buffers'
  BY DEF DInv, Buffers
<1>5. Ciphers'
  BY DEF DInv, Ciphers
<1> QED BY <1>3, <1>4, <1>5 DEF DInv

LEMMA SelectFlows ==
    ASSUME TInv, DInv, NEW s \in Servers, Select(s) \/ Accept(s)
    PROVE  DInv'
<1>1. ServerTypes
  BY TypesAre DEF TInv
<1>2. CASE Select(s)
  <2>1. /\ spc[s] = "select" /\ spc' = [spc EXCEPT ![s] = "serve"]
        /\ i' = [i EXCEPT ![s] = 1]
        /\ UNCHANGED <<buffer, threadVars, up, down>> /\ UNCHANGED <<fds, cipher>>
    BY <1>2 DEF Select, ServerGoto
  <2> QED BY <1>1, <2>1, IdleServerKeeps DEF ServerTypes
<1>3. CASE Accept(s)
  <2>1. /\ spc[s] = "accept" /\ spc' = [spc EXCEPT ![s] = "select"]
        /\ fds' = IF Len(fds[s]) = MaxFds THEN fds
                  ELSE [fds EXCEPT ![s] = Append(@, Head(backlog[s]))]
        /\ UNCHANGED <<buffer, threadVars, up, down>> /\ UNCHANGED <<i, cipher>>
    BY <1>3 DEF Accept, AcceptWithin, ServerGoto
  <2>2. \A r \in Servers : r # s => fds'[r] = fds[r]
    BY <1>1, <2>1 DEF ServerTypes
  <2> QED BY <1>1, <2>1, <2>2, IdleServerKeeps DEF ServerTypes
<1> QED BY <1>2, <1>3

LEMMA LeavesFlow ==
    ASSUME TInv, DInv, NEW s \in Servers, ServerExits(s) \/ EndOfLoop(s)
    PROVE  DInv'
<1>1. ServerTypes
  BY TypesAre DEF TInv
<1>2. /\ spc[s] \in {"reply", "accept"}
      /\ \/ spc' = [spc EXCEPT ![s] = "exited"]
         \/ spc' = [spc EXCEPT ![s] = "select"]
      /\ UNCHANGED <<buffer, threadVars, up, down>>
      /\ UNCHANGED <<fds, i, cipher>>
  BY DEF ServerExits, EndOfLoop, ServerGoto
<1> QED BY <1>1, <1>2, IdleServerKeeps DEF ServerTypes

LEMMA ServeFlows ==
    ASSUME TInv, DInv, NEW s \in Servers, Serve(s)
    PROVE  DInv'
<1>1. ServerTypes
  BY TypesAre DEF TInv
<1>2. /\ spc[s] = "serve" /\ UNCHANGED <<buffer, threadVars, up, down>> /\ fds' = fds
      /\ \A r \in Servers : r # s => i'[r] = i[r]
      /\ \/ spc' = [spc EXCEPT ![s] = "accept"] /\ cipher' = cipher
         \/ /\ spc' = [spc EXCEPT ![s] = "recv"]
            /\ cipher' = [cipher EXCEPT ![s] = <<>>]
  BY ServeIs
<1> QED BY <1>1, <1>2, IdleServerKeeps DEF ServerTypes
LEMMA ServerRecvFlows ==
    ASSUME TInv, DInv, NEW s \in Servers, NEW n \in 1..Size, ServerRecv(s, n)
    PROVE  DInv'
<1> DEFINE c == fds[s][i[s]]
           stream == up[c][s]
           m == Len(cipher[s])
           piece == SubSeq(stream, 1, n)
           rest == SubSeq(stream, n + 1, Len(stream))
<1>1. /\ c \in Clients /\ spc[s] = "recv" /\ cipher[s] \in Seq(Parts)
      /\ m \in 0..1 /\ n \in 1..(2 - m)
      /\ stream \in Seq(Parts) /\ n =< Len(stream)
      /\ cipher' = [cipher EXCEPT ![s] = cipher[s] \o piece]
      /\ cipher'[s] = cipher[s] \o piece /\ Len(cipher'[s]) = m + n
      /\ cipher' \in [Servers -> Seq(Parts)]
      /\ \A d \in Clients, r \in Servers :
            up'[d][r] = IF d = c /\ r = s THEN rest ELSE up[d][r]
      /\ spc' = [spc EXCEPT ![s] = IF m + n < 2 THEN "recv" ELSE "reply"]
      /\ UNCHANGED <<buffer, threadVars, down>> /\ UNCHANGED <<fds, i>>
  BY ServerRecvIs
<1>2. ServerTypes
  BY TypesAre DEF TInv
<1>3. /\ spc'[s] = IF m + n < 2 THEN "recv" ELSE "reply"
      /\ \A r \in Servers : r # s => spc'[r] = spc[r] /\ cipher'[r] = cipher[r]
  BY <1>1, <1>2 DEF ServerTypes
<1>4. Taken(c, s) = m
  BY <1>1 DEF Taken
<1>5. /\ \A k \in 1..n : stream[k] = Original[m + k]
      /\ Flow(rest, IF m + n = 2 THEN 0 ELSE 1, Sent(c, s))
  <2>1. Flow(stream, m, Sent(c, s)) /\ Sent(c, s) \in 0..1
    <3> HIDE DEF m, c
    <3>1. c \in Clients /\ Taken(c, s) = m
      BY <1>1, <1>4
    <3>2. Flow(up[c][s], Taken(c, s), Sent(c, s))
      BY <3>1, Zenon DEF DInv, Up
    <3>3. Sent(c, s) \in 0..1
      BY PlacesAre
    <3> QED BY <3>1, <3>2, <3>3
  <2> HIDE DEF stream, m, c
  <2>2. /\ m \in 0..1 /\ n \in 1..(2 - m)
        /\ stream \in Seq(Parts) /\ n =< Len(stream)
    BY <1>1
  <2> QED BY <2>1, <2>2, FlowReads DEF rest
<1>6. piece \in Seq(Parts) /\ Len(piece) = n /\ \A k \in 1..n : piece[k] = stream[k]
  <2> HIDE DEF stream
  <2>1. 0 + n =< Len(stream) /\ n \in Nat /\ 0 \in Nat
    BY <1>1
  <2>2. SubSeq(stream, 0 + 1, 0 + n) = SubSeq(stream, 1, n)
    BY <2>1
  <2>3. \A k \in 1..n : 0 + k = k
    OBVIOUS
  <2> QED BY <1>1, <2>1, <2>2, <2>3, Piece
<1> HIDE DEF stream, piece, rest
<1>7. /\ \A k \in 1..m : cipher'[s][k] = cipher[s][k]
      /\ \A k \in 1..n : cipher'[s][m + k] = Original[m + k]
  BY <1>1, <1>5, <1>6, Joined
<1>8. Ciphers'
  <2>1. m = 1 => cipher[s][1] = Original[1]
    BY <1>1 DEF DInv, Ciphers
  <2>2. \A k \in 1..(m + n) : cipher'[s][k] = Original[k]
    <3>1. CASE m = 0
      BY <1>1, <1>7, <3>1
    <3>2. CASE m = 1
      BY <1>1, <1>7, <2>1, <3>2
    <3> QED BY <1>1, <3>1, <3>2
  <2>3. m + n = 2 => cipher'[s] = Original
    <3>1. /\ cipher'[s] \in Seq(Parts) /\ Original \in Seq(Parts)
          /\ Len(Original) = 2
      BY <1>1, OriginalIs
    <3>2. m + n = 2 => Len(cipher'[s]) = Len(Original)
      BY <1>1, <3>1
    <3> HIDE DEF m
    <3>3. SUFFICES ASSUME m + n = 2 PROVE cipher'[s] = Original
      OBVIOUS
    <3>4. \A k \in 1..Len(cipher'[s]) : cipher'[s][k] = Original[k]
      BY <1>1, <2>2
    <3> QED BY <3>1, <3>2, <3>3, <3>4, SeqEqual
  <2>4. Len(cipher'[s]) = 1 => cipher'[s][1] = Original[1]
    BY <1>1, <2>2
  <2>5. spc'[s] = "reply" => m + n = 2
    BY <1>1, <1>3
  <2> QED BY <1>3, <2>3, <2>4, <2>5 DEF DInv, Ciphers
<1>9. Up'
  <2> SUFFICES ASSUME NEW d \in Clients, NEW r \in Servers
               PROVE  Flow(up'[d][r], Taken(d, r)', Sent(d, r)')
    BY DEF Up
  <2>1. Sent(d, r)' = Sent(d, r)
    BY <1>1, SentRest DEF threadVars
  <2>2. CASE d = c /\ r = s
    <3>1. Taken(d, r)' = IF m + n = 2 THEN 0 ELSE 1
      <4>1. fds'[r][i'[r]] = d
        BY <1>1, <2>2
      <4> HIDE DEF c, m
      <4> QED BY <1>1, <1>3, <2>2, <4>1 DEF Taken
    <3> QED BY <1>1, <1>5, <2>1, <2>2, <3>1
  <2>3. CASE ~(d = c /\ r = s)
    <3>1. Taken(d, r)' = Taken(d, r)
      <4>1. CASE r = s
        BY <1>1, <2>3, <4>1 DEF Taken
      <4>2. CASE r # s
        BY <1>1, <1>3, <4>2 DEF Taken
      <4> QED BY <4>1, <4>2
    <3>2. up'[d][r] = up[d][r]
      BY <1>1, <2>3
    <3> QED BY <2>1, <3>1, <3>2 DEF DInv, Up
  <2> QED BY <2>2, <2>3
<1>10. Buffers' /\ Down'
  BY <1>1, SentRest DEF DInv, Buffers, Down, threadVars
<1> QED BY <1>8, <1>9, <1>10 DEF DInv

LEMMA ReplyFlows ==
    ASSUME TInv, DInv, NEW s \in Servers, Reply(s)
    PROVE  DInv'
<1> DEFINE c == fds[s][i[s]]
<1>1. cipher[s] = Original
  BY DEF Reply, DInv, Ciphers
<1>2. Encrypt(Decrypt(cipher[s])) = Original
  BY <1>1, OriginalAgain
<1>3. /\ c \in Clients /\ spc[s] = "reply" /\ down[c][s] \in Seq(Parts)
      /\ \A d \in Clients, r \in Servers :
            down'[d][r] = IF d = c /\ r = s THEN down[d][r] \o Original
                          ELSE down[d][r]
      /\ spc' = [spc EXCEPT ![s] = "serve"] /\ i' = [i EXCEPT ![s] = @ + 1]
      /\ UNCHANGED <<buffer, threadVars, up>> /\ UNCHANGED <<fds, cipher>>
  BY <1>2, ReplyIs
<1> HIDE DEF c
<1>4. ServerTypes
  BY TypesAre DEF TInv
<1>5. /\ spc'[s] = "serve"
      /\ \A r \in Servers : r # s => spc'[r] = spc[r] /\ i'[r] = i[r]
  BY <1>3, <1>4 DEF ServerTypes
<1>6. Buffers' /\ Ciphers'
  BY <1>3, <1>5 DEF DInv, Buffers, Ciphers
<1>7. \A d, r : Sent(d, r)' = Sent(d, r) /\ Received(d, r)' = Received(d, r)
  BY <1>3, SentRest DEF threadVars
<1>8. Up'
  <2>1. \A d \in Clients, r \in Servers : Taken(d, r)' = Taken(d, r)
    <3>1. TAKE d \in Clients, r \in Servers
    <3>2. CASE r = s
      BY <1>3, <1>5, <3>2 DEF Taken
    <3>3. CASE r # s
      BY <1>3, <1>5, <3>3 DEF Taken
    <3> QED BY <3>2, <3>3
  <2> QED BY <1>3, <1>7, <2>1 DEF DInv, Up
<1>9. Down'
  <2> SUFFICES ASSUME NEW d \in Clients, NEW r \in Servers
               PROVE  Flow(down'[d][r], Received(d, r)', 0)
    BY DEF Down
  <2>1. Flow(down[d][r], Received(d, r), 0) /\ Received(d, r) \in 0..1
    BY PlacesAre DEF DInv, Down
  <2>2. CASE d = c /\ r = s
    <3>1. /\ Original \in Seq(Parts) /\ Len(Original) = 2 /\ 2 \in 1..(2 - 0)
          /\ \A k \in 1..2 : Original[k] = Original[0 + k]
          /\ down[d][r] \in Seq(Parts) /\ 0 \in 0..1
      BY <1>3, <2>2, OriginalIs
    <3>2. Flow(down[d][r] \o Original, Received(d, r), IF 0 + 2 = 2 THEN 0 ELSE 1)
      BY <2>1, <3>1, FlowWrites
    <3> QED BY <1>3, <1>7, <2>2, <3>2
  <2>3. CASE ~(d = c /\ r = s)
    BY <1>3, <1>7, <2>1, <2>3
  <2> QED BY <2>2, <2>3
<1> QED BY <1>6, <1>8, <1>9 DEF DInv
(* Steps that move no place in a message. *)
LEMMA OtherFlows ==
    ASSUME TInv, DInv, UNCHANGED <<buffer, up, down, spc, fds, i, cipher>>,
           \A c \in Clients, s \in Servers :
              Sent(c, s)' = Sent(c, s) /\ Received(c, s)' = Received(c, s)
    PROVE  DInv'
<1>1. \A c, s : Taken(c, s)' = Taken(c, s)
  BY TakenRest
<1>2. Up' /\ Down'
  BY <1>1 DEF DInv, Up, Down
<1>3. Buffers' /\ Ciphers'
  BY DEF DInv, Buffers, Ciphers
<1> QED BY <1>2, <1>3 DEF DInv

LEMMA StartFlows ==
    ASSUME TInv, DInv, NEW c \in Clients,
           StartStep(c) \/ Exit(c)
    PROVE  DInv'
<1>1. /\ UNCHANGED <<buffer, up, down, spc, fds, i, cipher>>
      /\ UNCHANGED <<pc, to, done>>
  BY DEF StartStep, Connect, SetQuorum, Exit, threadVars, serverVars
<1> QED BY <1>1, SentRest, OtherFlows

LEMMA RoundsFlow ==
    ASSUME TInv, DInv, NEW t \in Threads, BeginInsert(t) \/ BeginRound(t) \/ Insert(t)
    PROVE  DInv'
<1>1. /\ UNCHANGED <<buffer, up, down, spc, fds, i, cipher>>
      /\ pc[t] \in {"idle", "round"}
      /\ \/ /\ \/ pc' = [pc EXCEPT ![t] = "round"]
               \/ pc' = [pc EXCEPT ![t] = "idle"]
            /\ UNCHANGED <<to, done>>
         \/ /\ pc' = [pc EXCEPT ![t] = "send"] /\ to' = [to EXCEPT ![t] = 1]
            /\ done' = [done EXCEPT ![t] = 0]
  BY DEF BeginInsert, BeginRound, Insert, Goto, serverVars
<1>2. ThreadTypes
  BY TypesAre DEF TInv
<1>3. /\ \A u \in Threads : u # t => pc'[u] = pc[u] /\ to'[u] = to[u] /\ done'[u] = done[u]
      /\ pc'[t] \in {"send", "recv"} => done'[t] = 0
  BY <1>1, <1>2 DEF ThreadTypes
<1>4. ASSUME NEW c \in Clients, NEW s \in Servers, NEW u \in Threads
      PROVE  /\ (pc'[u] = "send" /\ to'[u] = s /\ done'[u] = 1)
                   <=> (pc[u] = "send" /\ to[u] = s /\ done[u] = 1)
             /\ (pc'[u] = "recv" /\ to'[u] = s /\ done'[u] = 1)
                   <=> (pc[u] = "recv" /\ to[u] = s /\ done[u] = 1)
  BY <1>1, <1>3
<1>5. \A c \in Clients, s \in Servers :
         Sent(c, s)' = Sent(c, s) /\ Received(c, s)' = Received(c, s)
  BY <1>4 DEF Sent, Received
<1> QED BY <1>1, <1>5, OtherFlows

(* The place of a thread that has sent or received n more parts.           *)
LEMMA PlacesNext ==
    ASSUME Alone, TInv, NEW t \in Threads, pc[t] \in {"send", "recv"},
           NEW n \in 1..(Size - done[t]), NextMessage(t, done[t] + n)
    PROVE  \A c, s :
              IF c = Owner[t] /\ s = to[t]
              THEN /\ Sent(c, s) = IF pc[t] = "send" THEN done[t] ELSE 0
                   /\ Sent(c, s)' = IF pc[t] = "send" THEN done'[t] ELSE 0
                   /\ Received(c, s) = IF pc[t] = "recv" THEN done[t] ELSE 0
                   /\ Received(c, s)' = IF pc[t] = "recv" THEN done'[t] ELSE 0
              ELSE Sent(c, s)' = Sent(c, s) /\ Received(c, s)' = Received(c, s)
<1>1. /\ done'[t] \in 0..1 /\ done[t] \in 0..1
      /\ done'[t] = 1 => pc' = pc /\ to' = to
      /\ \A u \in Threads : u # t =>
            pc'[u] = pc[u] /\ to'[u] = to[u] /\ done'[u] = done[u]
  <2>1. done[t] \in 0..1
    BY Constants DEF TInv, TypeOK
  <2> QED BY <2>1, NextMessageIs
<1>2. ASSUME NEW c, NEW s, c = Owner[t]
      PROVE  /\ Sent(c, s) = IF pc[t] = "send" /\ to[t] = s THEN done[t] ELSE 0
             /\ Sent(c, s)' = IF pc[t] = "send" /\ to[t] = s THEN done'[t] ELSE 0
             /\ Received(c, s) = IF pc[t] = "recv" /\ to[t] = s THEN done[t] ELSE 0
             /\ Received(c, s)' = IF pc[t] = "recv" /\ to[t] = s THEN done'[t] ELSE 0
  <2>1. \A u \in Threads : Owner[u] = c => u = t
    BY <1>2 DEF Alone
  <2>2. done'[t] = 1 => pc'[t] = pc[t] /\ to'[t] = to[t]
    BY <1>1
  <2>3. Sent(c, s) = IF pc[t] = "send" /\ to[t] = s THEN done[t] ELSE 0
    BY <1>1, <1>2, <2>1 DEF Sent
  <2>4. Received(c, s) = IF pc[t] = "recv" /\ to[t] = s THEN done[t] ELSE 0
    BY <1>1, <1>2, <2>1 DEF Received
  <2>5. Sent(c, s)' = IF pc[t] = "send" /\ to[t] = s THEN done'[t] ELSE 0
    BY <1>1, <1>2, <2>1, <2>2 DEF Sent
  <2>6. Received(c, s)' = IF pc[t] = "recv" /\ to[t] = s THEN done'[t] ELSE 0
    BY <1>1, <1>2, <2>1, <2>2 DEF Received
  <2> QED BY <2>3, <2>4, <2>5, <2>6
<1>3. ASSUME NEW c, NEW s, c # Owner[t]
      PROVE  Sent(c, s)' = Sent(c, s) /\ Received(c, s)' = Received(c, s)
  <2>1. \A u \in Threads : Owner[u] = c => u # t
    BY <1>3
  <2> QED BY <1>1, <2>1 DEF Sent, Received
<1>4. TAKE c, s
<1>5. CASE c = Owner[t] /\ s = to[t]
  BY <1>2, <1>5
<1>6. CASE c = Owner[t] /\ s # to[t]
  BY <1>2, <1>6
<1>7. CASE c # Owner[t]
  BY <1>3, <1>7
<1> QED BY <1>5, <1>6, <1>7
LEMMA SendFlows ==
    ASSUME Alone, TInv, DInv, NEW t \in Threads, NEW n \in 1..Size, Send(t, n)
    PROVE  DInv'
<1> DEFINE c == Owner[t]
           piece == SubSeq(buffer[c], done[t] + 1, done[t] + n)
<1>1. /\ c \in Clients /\ pc[t] = "send" /\ to[t] \in Servers
      /\ done[t] \in 0..1 /\ n \in 1..(2 - done[t])
      /\ piece \in Seq(Parts) /\ Len(piece) = n
      /\ up[c][to[t]] \in Seq(Parts)
      /\ \A d \in Clients, s \in Servers :
            up'[d][s] = IF d = c /\ s = to[t] THEN up[d][s] \o piece ELSE up[d][s]
      /\ NextMessage(t, done[t] + n)
      /\ UNCHANGED <<buffer, down>> /\ UNCHANGED <<spc, fds, i, cipher>>
  BY SendIs
<1>2. \A k \in 1..n : piece[k] = Original[done[t] + k]
  <2>1. buffer[c] = Original
    BY <1>1 DEF DInv, Buffers
  <2>2. Original \in Seq(Parts) /\ done[t] \in Nat /\ n \in Nat
        /\ done[t] + n =< Len(Original)
    BY <1>1, OriginalIs
  <2>3. \A k \in 1..n : SubSeq(Original, done[t] + 1, done[t] + n)[k]
                           = Original[done[t] + k]
    BY <2>2, Piece
  <2> QED BY <2>1, <2>3
<1> HIDE DEF piece
<1>3. \A d, s : IF d = c /\ s = to[t]
                THEN /\ Sent(d, s) = done[t] /\ Sent(d, s)' = done'[t]
                     /\ Received(d, s)' = Received(d, s)
                ELSE Sent(d, s)' = Sent(d, s) /\ Received(d, s)' = Received(d, s)
  <2>1. n \in 1..(Size - done[t])
    BY <1>1, Constants
  <2> QED BY <1>1, <2>1, PlacesNext
<1>4. done'[t] = IF done[t] + n = 2 THEN 0 ELSE 1
  <2>1. n \in 1..(Size - done[t])
    BY <1>1, Constants
  <2> QED BY <1>1, <2>1, NextMessageIs
<1> HIDE DEF c
<1>5. \A d, s : Taken(d, s)' = Taken(d, s)
  BY <1>1, TakenRest
<1>6. Up'
  <2> SUFFICES ASSUME NEW d \in Clients, NEW s \in Servers
               PROVE  Flow(up'[d][s], Taken(d, s)', Sent(d, s)')
    BY DEF Up
  <2>1. Flow(up[d][s], Taken(d, s), Sent(d, s)) /\ Taken(d, s) \in 0..1
    BY PlacesAre DEF DInv, Up
  <2>2. CASE d = c /\ s = to[t]
    <3>1. Flow(up[d][s], Taken(d, s), done[t]) /\ up[d][s] \in Seq(Parts)
      BY <1>1, <1>3, <2>1, <2>2
    <3>2. Flow(up[d][s] \o piece, Taken(d, s), IF done[t] + n = 2 THEN 0 ELSE 1)
      <4>1. /\ done[t] \in 0..1 /\ n \in 1..(2 - done[t])
            /\ piece \in Seq(Parts) /\ Len(piece) = n
        BY <1>1
      <4>2. Taken(d, s) \in 0..1
        BY <2>1
      <4> QED BY <1>2, <3>1, <4>1, <4>2, FlowWrites
    <3> QED BY <1>1, <1>3, <1>4, <1>5, <2>2, <3>2
  <2>3. CASE ~(d = c /\ s = to[t])
    BY <1>1, <1>3, <1>5, <2>1, <2>3
  <2> QED BY <2>2, <2>3
<1>7. Down'
  BY <1>1, <1>3 DEF DInv, Down
<1>8. Buffers' /\ Ciphers'
  BY <1>1 DEF DInv, Buffers, Ciphers
<1> QED BY <1>6, <1>7, <1>8 DEF DInv

LEMMA RecvFlows ==
    ASSUME Alone, TInv, DInv, NEW t \in Threads, NEW n \in 1..Size, Recv(t, n)
    PROVE  DInv'
<1> DEFINE c == Owner[t]
           stream == down[c][to[t]]
           rest == SubSeq(stream, n + 1, Len(stream))
<1>1. /\ c \in Clients /\ pc[t] = "recv" /\ to[t] \in Servers
      /\ done[t] \in 0..1 /\ n \in 1..(2 - done[t])
      /\ stream \in Seq(Parts) /\ n =< Len(stream)
      /\ buffer' \in [Clients -> Seq(Parts)]
      /\ \A d \in Clients : d # c => buffer'[d] = buffer[d]
      /\ Len(buffer'[c]) = 2
      /\ \A k \in 1..2 :
            buffer'[c][k] = IF k \in (done[t] + 1)..(done[t] + n)
                            THEN stream[k - done[t]] ELSE buffer[c][k]
      /\ \A d \in Clients, s \in Servers :
            down'[d][s] = IF d = c /\ s = to[t] THEN rest ELSE down[d][s]
      /\ NextMessage(t, done[t] + n)
      /\ up' = up /\ UNCHANGED <<spc, fds, i, cipher>>
  BY RecvIs
<1>2. n \in 1..(Size - done[t])
  BY <1>1, Constants
<1>3. \A d, s : IF d = c /\ s = to[t]
                THEN /\ Received(d, s) = done[t] /\ Received(d, s)' = done'[t]
                     /\ Sent(d, s)' = Sent(d, s)
                ELSE Sent(d, s)' = Sent(d, s) /\ Received(d, s)' = Received(d, s)
  BY <1>1, <1>2, PlacesNext
<1>4. done'[t] = IF done[t] + n = 2 THEN 0 ELSE 1
  BY <1>1, <1>2, NextMessageIs
<1>5. \A d, s : Taken(d, s)' = Taken(d, s)
  BY <1>1, TakenRest
<1> HIDE DEF rest
<1>6. /\ \A k \in 1..n : stream[k] = Original[done[t] + k]
      /\ Flow(rest, done'[t], 0)
  <2>1. Flow(stream, done[t], 0) /\ 0 \in 0..1
    BY <1>1, <1>3 DEF DInv, Down
  <2> HIDE DEF stream
  <2>2. /\ \A k \in 1..n : stream[k] = Original[done[t] + k]
        /\ Flow(rest, IF done[t] + n = 2 THEN 0 ELSE 1, 0)
    BY <1>1, <2>1, FlowReads DEF rest
  <2> QED BY <1>4, <2>2
<1> HIDE DEF stream
<1>7. Buffers'
  <2>1. buffer[c] = Original
    BY <1>1 DEF DInv, Buffers
  <2>2. \A k \in 1..2 : buffer'[c][k] = Original[k]
    <3>1. TAKE k \in 1..2
    <3>2. CASE k \in (done[t] + 1)..(done[t] + n)
      <4>1. k - done[t] \in 1..n /\ done[t] + (k - done[t]) = k
        BY <1>1, <3>2
      <4>2. stream[k - done[t]] = Original[k]
        BY <1>6, <4>1
      <4> QED BY <1>1, <3>2, <4>2
    <3>3. CASE k \notin (done[t] + 1)..(done[t] + n)
      BY <1>1, <2>1, <3>3
    <3> QED BY <3>2, <3>3
  <2>3. /\ buffer'[c] \in Seq(Parts) /\ Original \in Seq(Parts)
        /\ Len(buffer'[c]) = 2 /\ Len(Original) = 2
    BY <1>1, OriginalIs
  <2>4. buffer'[c] = Original
    BY <2>2, <2>3, SeqEqual
  <2> QED BY <1>1, <2>4 DEF DInv, Buffers
<1> HIDE DEF c
<1>8. Down'
  <2> SUFFICES ASSUME NEW d \in Clients, NEW s \in Servers
               PROVE  Flow(down'[d][s], Received(d, s)', 0)
    BY DEF Down
  <2>1. CASE d = c /\ s = to[t]
    BY <1>1, <1>3, <1>6, <2>1
  <2>2. CASE ~(d = c /\ s = to[t])
    BY <1>1, <1>3, <2>2 DEF DInv, Down
  <2> QED BY <2>1, <2>2
<1>9. Up' /\ Ciphers'
  BY <1>1, <1>3, <1>5 DEF DInv, Up, Ciphers
<1> QED BY <1>7, <1>8, <1>9 DEF DInv

LEMMA NextFlows ==
    ASSUME Alone
    PROVE  TInv /\ DInv /\ [Next]_vars => DInv'
<1> SUFFICES ASSUME TInv, DInv, [Next]_vars PROVE DInv'
  OBVIOUS
<1>1. ASSUME NEW c \in Clients, StartStep(c) \/ Exit(c) PROVE DInv'
  BY <1>1, StartFlows
<1>2. ASSUME NEW t \in Threads, BeginInsert(t) \/ ThreadStep(t) PROVE DInv'
  BY <1>2, RoundsFlow, SendFlows, RecvFlows DEF ThreadStep
<1>3. ASSUME NEW s \in Servers, ServerStep(s) PROVE DInv'
  BY <1>3, SelectFlows, ServeFlows, ServerRecvFlows, ReplyFlows, LeavesFlow
     DEF ServerStep
<1>4. CASE UNCHANGED vars
  <2>1. UNCHANGED <<buffer, up, down, spc, fds, i, cipher>> /\ UNCHANGED <<pc, to, done>>
    BY <1>4 DEF vars, threadVars, serverVars
  <2> QED BY <2>1, SentRest, OtherFlows
<1> QED BY <1>1, <1>2, <1>3, <1>4 DEF Next

LEMMA FlowsHold ==
    ASSUME Alone
    PROVE  Spec => []DInv
<1>1. Init => DInv
  BY FlowsStart
<1>2. TInv /\ DInv /\ [Next]_vars => DInv'
  BY NextFlows
<1> QED BY <1>1, <1>2, TypesHold, PTL DEF Spec

(* With one thread in each client, whatever pieces send and recv make of   *)
(* the messages, and whichever clients exit in the middle of one: a server *)
(* that replies has received the message exactly (server.c:31-40), since   *)
(* clients send what they have received (mcservice.c:301-307).             *)
THEOREM MessagesAlwaysDecrypt ==
    ASSUME Alone
    PROVE  Spec => []MessagesDecrypt
<1>1. DInv => MessagesDecrypt
  BY DEF DInv, Ciphers, MessagesDecrypt
<1> QED BY <1>1, FlowsHold, PTL

(* With one thread in each client, the buffer that is sent and received    *)
(* into holds the message whenever no thread receives - and as the proof   *)
(* shows in the middle of a recv too (mcservice.c:27, tcp_net.c:15-34).    *)
THEOREM BufferStaysIntact ==
    ASSUME Alone
    PROVE  Spec => []BufferIntact
<1>1. DInv => BufferIntact
  BY DEF DInv, Buffers, BufferIntact
<1> QED BY <1>1, FlowsHold, PTL

-----------------------------------------------------------------------------
(* ANSWERS AND ROUNDS                                                      *)

(* The parts of messages of s thread t has received in all: two for each   *)
(* round it has completed, and what the round under way has brought.       *)
Got(t, s) ==
    2 * RoundsOf(t) + (IF pc[t] # "recv" \/ s > to[t] THEN 0
                       ELSE IF s < to[t] THEN 2 ELSE done[t])

GotParts(c, s) ==
    {x \in Threads \X (Nat \ {0}) : Owner[x[1]] = c /\ x[2] =< Got(x[1], s)}

(* Every part s has sent to c is on the way or was received, once, by one  *)
(* of the threads of c.                                                    *)
Settled(c, s) ==
    /\ IsFiniteSet(GotParts(c, s))
    /\ Cardinality(GotParts(c, s)) + Len(down[c][s]) = 2 * served[c][s]

AInv == \A c \in Clients, s \in Servers : quorum_size[c] # 0 => Settled(c, s)

LEMMA RoundsAre ==
    ASSUME TInv, NEW t \in Threads
    PROVE  /\ RoundsOf(t) \in 0..(2 * MaxInserts)
           /\ \A s \in Servers : Got(t, s) \in Nat /\ Got(t, s) >= 2 * RoundsOf(t)
<1>1. /\ inserts[t] \in 0..MaxInserts /\ round[t] \in 0..2 /\ done[t] \in 0..1
      /\ pc[t] # "idle" => inserts[t] < MaxInserts
      /\ MaxInserts \in Nat /\ Rounds = 2
  BY Constants DEF TInv, TypeOK, Threadly
<1>2. RoundsOf(t) \in 0..(2 * MaxInserts)
  <2>1. CASE pc[t] = "idle"
    BY <1>1, <2>1 DEF RoundsOf
  <2>2. CASE pc[t] # "idle"
    BY <1>1, <2>2 DEF RoundsOf
  <2> QED BY <2>1, <2>2
<1> QED BY <1>1, <1>2 DEF Got

(* What one part, and what one recv() adds to a set of parts. *)
LEMMA OnePart ==
    ASSUME NEW S, IsFiniteSet(S), NEW x, x \notin S
    PROVE  IsFiniteSet(S \cup {x}) /\ Cardinality(S \cup {x}) = Cardinality(S) + 1
  BY FS_AddElement

Arrived(t, g, n) == {<<t, k>> : k \in (g + 1)..(g + n)}

LEMMA MoreParts ==
    ASSUME NEW S, IsFiniteSet(S), NEW t, NEW g \in Nat, NEW n \in 1..2,
           \A k \in Nat : <<t, k>> \in S => k =< g
    PROVE  /\ IsFiniteSet(S \cup Arrived(t, g, n))
           /\ Cardinality(S \cup Arrived(t, g, n)) = Cardinality(S) + n
<1> DEFINE one == S \cup {<<t, g + 1>>}
           two == one \cup {<<t, g + 2>>}
<1>1. <<t, g + 1>> \notin S /\ <<t, g + 2>> \notin S
  BY g + 1 \in Nat, g + 2 \in Nat
<1>2. IsFiniteSet(one) /\ Cardinality(one) = Cardinality(S) + 1
  BY <1>1, OnePart
<1>3. IsFiniteSet(two) /\ Cardinality(two) = Cardinality(S) + 2
  <2>1. <<t, g + 2>> \notin one
    BY <1>1
  <2>2. IsFiniteSet(two) /\ Cardinality(two) = Cardinality(one) + 1
    <3> HIDE DEF one
    <3> QED BY <1>2, <2>1, OnePart
  <2>3. Cardinality(S) \in Nat
    BY FS_CardinalityType
  <2> HIDE DEF one, two
  <2> QED BY <1>2, <2>2, <2>3
<1>4. CASE n = 1
  <2>1. (g + 1)..(g + n) = {g + 1}
    BY <1>4
  <2>2. Arrived(t, g, n) = {<<t, g + 1>>}
    BY <2>1 DEF Arrived
  <2> QED BY <1>2, <1>4, <2>2
<1>5. CASE n = 2
  <2>1. (g + 1)..(g + n) = {g + 1, g + 2}
    BY <1>5
  <2>2. S \cup Arrived(t, g, n) = two
    BY <2>1 DEF Arrived
  <2> QED BY <1>3, <1>5, <2>2
<1> QED BY <1>4, <1>5

(* The parts received of one connection after a recv() of n of them. *)
LEMMA GotMore ==
    ASSUME NEW A, NEW a, NEW f, NEW g, NEW n \in 1..2, a \in A,
           \A t \in A : f[t] \in Nat,
           g[a] = f[a] + n, \A t \in A : t # a => g[t] = f[t],
           IsFiniteSet({x \in A \X (Nat \ {0}) : x[2] =< f[x[1]]})
    PROVE  LET S == {x \in A \X (Nat \ {0}) : x[2] =< f[x[1]]}
               T == {x \in A \X (Nat \ {0}) : x[2] =< g[x[1]]}
           IN  IsFiniteSet(T) /\ Cardinality(T) = Cardinality(S) + n
<1> DEFINE S == {x \in A \X (Nat \ {0}) : x[2] =< f[x[1]]}
           T == {x \in A \X (Nat \ {0}) : x[2] =< g[x[1]]}
           N == Arrived(a, f[a], n)
<1>1. T = S \cup N
  <2>1. ASSUME NEW x \in T PROVE x \in S \cup N
    <3>1. x[1] \in A /\ x[2] \in Nat \ {0} /\ x[2] =< g[x[1]] /\ x = <<x[1], x[2]>>
      BY <2>1
    <3>2. CASE x[1] # a
      BY <3>1, <3>2
    <3>3. CASE x[1] = a /\ x[2] =< f[a]
      BY <3>1, <3>3
    <3>4. CASE x[1] = a /\ ~(x[2] =< f[a])
      <4>1. x[2] \in (f[a] + 1)..(f[a] + n)
        BY <3>1, <3>4
      <4> QED BY <3>1, <3>4, <4>1 DEF Arrived
    <3> QED BY <3>2, <3>3, <3>4
  <2>2. S \subseteq T
    <3>1. ASSUME NEW x \in S PROVE x \in T
      <4>1. x[1] \in A /\ x[2] \in Nat \ {0} /\ x[2] =< f[x[1]]
        OBVIOUS
      <4>2. f[x[1]] \in Nat /\ (g[x[1]] = f[x[1]] \/ g[x[1]] = f[x[1]] + n)
        BY <4>1
      <4> QED BY <4>1, <4>2
    <3> QED BY <3>1
  <2>3. N \subseteq T
    BY DEF Arrived
  <2> QED BY <2>1, <2>2, <2>3
<1>2. \A k \in Nat : <<a, k>> \in S => k =< f[a]
  OBVIOUS
<1>3. f[a] \in Nat /\ IsFiniteSet(S)
  OBVIOUS
<1>4. IsFiniteSet(S \cup N) /\ Cardinality(S \cup N) = Cardinality(S) + n
  <2> HIDE DEF S
  <2> QED BY <1>2, <1>3, MoreParts
<1> QED BY <1>1, <1>4

(* How NextMessage (mcservice.c:301-342) goes on after the messages of a   *)
(* round have been received.                                               *)
LEMMA RecvGoesOn ==
    ASSUME TInv, NEW t \in Threads, NEW n \in 1..Size, Recv(t, n)
    PROVE  /\ to[t] \in 1..NumServers /\ done[t] \in 0..1 /\ pc[t] = "recv"
           /\ round[t] \in 1..2 /\ inserts[t] \in Nat
           /\ \/ /\ done[t] + n = 1 /\ done'[t] = 1
                 /\ pc'[t] = "recv" /\ to'[t] = to[t] /\ round'[t] = round[t]
              \/ /\ done[t] + n = 2 /\ done'[t] = 0 /\ to[t] # NumServers
                 /\ pc'[t] = "recv" /\ to'[t] = to[t] + 1 /\ round'[t] = round[t]
              \/ /\ done[t] + n = 2 /\ to[t] = NumServers
                 /\ pc'[t] = "round" /\ round'[t] = round[t] - 1
           /\ inserts' = inserts
           /\ \A u \in Threads : u # t =>
                 /\ pc'[u] = pc[u] /\ to'[u] = to[u]
                 /\ done'[u] = done[u] /\ round'[u] = round[u]
<1>1. /\ pc[t] = "recv" /\ n \in 1..(Size - done[t]) /\ Owner[t] \in Clients
      /\ done[t] \in 0..1 /\ to[t] \in Servers /\ NextMessage(t, done[t] + n)
      /\ inserts' = inserts
  BY RecvIs, Constants
<1>2. round[t] \in 1..2 /\ inserts[t] \in Nat /\ connected[Owner[t]] = NumServers
  <2>1. round[t] > 0 /\ round[t] \in 0..2
    BY <1>1, Constants DEF TInv, TypeOK, Threadly
  <2>2. connected[Owner[t]] = NumServers
    BY <1>1, Constants DEF TInv, Threadly
  <2>3. inserts[t] \in Nat
    BY Constants DEF TInv, TypeOK
  <2> QED BY <2>1, <2>2, <2>3
<1>3. \A u \in Threads : u # t =>
         /\ pc'[u] = pc[u] /\ to'[u] = to[u]
         /\ done'[u] = done[u] /\ round'[u] = round[u]
  BY <1>1, NextMessageIs
<1>4. /\ pc \in [Threads -> {"idle", "round", "send", "recv"}]
      /\ round \in [Threads -> 0..Rounds]
      /\ to \in [Threads -> 0..NumServers]
      /\ done \in [Threads -> 0..(Size - 1)]
  BY DEF TInv, TypeOK
<1>5. done[t] + n \in 1..2 /\ Size = 2
  BY <1>1, Constants
<1>6. CASE done[t] + n = 1
  <2>1. done' = [done EXCEPT ![t] = 1] /\ UNCHANGED <<pc, to, round>>
    BY <1>1, <1>5, <1>6 DEF NextMessage
  <2> QED BY <1>1, <1>2, <1>3, <1>4, <1>6, <2>1 DEF Servers
<1>7. CASE done[t] + n = 2 /\ to[t] = NumServers
  <2>1. /\ pc' = [pc EXCEPT ![t] = "round"]
        /\ round' = [round EXCEPT ![t] = round[t] - 1]
    BY <1>1, <1>2, <1>5, <1>7 DEF NextMessage, Goto
  <2> QED BY <1>1, <1>2, <1>3, <1>4, <1>7, <2>1 DEF Servers
<1>8. CASE done[t] + n = 2 /\ to[t] # NumServers
  <2>1. /\ done' = [done EXCEPT ![t] = 0]
        /\ to' = [to EXCEPT ![t] = to[t] + 1]
        /\ pc' = [pc EXCEPT ![t] = pc[t]]
        /\ round' = [round EXCEPT ![t] = round[t]]
    BY <1>1, <1>2, <1>5, <1>8 DEF NextMessage, Goto
  <2> QED BY <1>1, <1>2, <1>3, <1>4, <1>8, <2>1 DEF Servers
<1> QED BY <1>1, <1>2, <1>3, <1>5, <1>6, <1>7, <1>8 DEF Servers

(* What a thread has received of a server grows by what a recv() takes.    *)
LEMMA RecvAdds ==
    ASSUME TInv, NEW t \in Threads, NEW n \in 1..Size, Recv(t, n)
    PROVE  \A s \in Servers :
              /\ Got(t, s)' = IF s = to[t] THEN Got(t, s) + n ELSE Got(t, s)
              /\ \A u \in Threads : u # t => Got(u, s)' = Got(u, s)
<1> SUFFICES ASSUME NEW s \in Servers
             PROVE  /\ Got(t, s)' = IF s = to[t] THEN Got(t, s) + n ELSE Got(t, s)
                    /\ \A u \in Threads : u # t => Got(u, s)' = Got(u, s)
  OBVIOUS
<1>1. /\ to[t] \in 1..NumServers /\ done[t] \in 0..1 /\ pc[t] = "recv"
      /\ round[t] \in 1..2 /\ inserts[t] \in Nat /\ inserts' = inserts
  BY RecvGoesOn
<1>2. s \in 1..NumServers /\ NumServers \in Nat /\ Rounds = 2 /\ n \in 1..2
  BY Constants DEF Servers
<1>3. RoundsOf(t) = 2 * inserts[t] + (2 - round[t])
  BY <1>1, <1>2 DEF RoundsOf
<1>4. Got(t, s)' = IF s = to[t] THEN Got(t, s) + n ELSE Got(t, s)
  <2>1. CASE /\ done[t] + n = 1 /\ done'[t] = 1
             /\ pc'[t] = "recv" /\ to'[t] = to[t] /\ round'[t] = round[t]
    <3>1. RoundsOf(t)' = RoundsOf(t)
      BY <1>1, <2>1 DEF RoundsOf
    <3> QED BY <1>1, <1>2, <1>3, <2>1, <3>1 DEF Got
  <2>2. CASE /\ done[t] + n = 2 /\ done'[t] = 0 /\ to[t] # NumServers
             /\ pc'[t] = "recv" /\ to'[t] = to[t] + 1 /\ round'[t] = round[t]
    <3>1. RoundsOf(t)' = RoundsOf(t)
      BY <1>1, <2>2 DEF RoundsOf
    <3> QED BY <1>1, <1>2, <1>3, <2>2, <3>1 DEF Got
  <2>3. CASE /\ done[t] + n = 2 /\ to[t] = NumServers
             /\ pc'[t] = "round" /\ round'[t] = round[t] - 1
    <3>1. RoundsOf(t)' = RoundsOf(t) + 1
      BY <1>1, <1>2, <1>3, <2>3 DEF RoundsOf
    <3> QED BY <1>1, <1>2, <1>3, <2>3, <3>1 DEF Got
  <2> QED BY <2>1, <2>2, <2>3, RecvGoesOn
<1>5. \A u \in Threads : u # t => Got(u, s)' = Got(u, s)
  BY RecvGoesOn DEF Got, RoundsOf
<1> QED BY <1>4, <1>5

(* A step that takes nothing from the streams of answers.                  *)
LEMMA SettledRest ==
    ASSUME NEW c \in Clients, NEW s \in Servers, Settled(c, s),
           down'[c][s] = down[c][s], served'[c][s] = served[c][s],
           \A t \in Threads : Owner[t] = c => Got(t, s)' = Got(t, s)
    PROVE  Settled(c, s)'
<1>1. GotParts(c, s)' = GotParts(c, s)
  BY DEF GotParts
<1> QED BY <1>1 DEF Settled

LEMMA RecvSettles ==
    ASSUME TInv, AInv, NEW t \in Threads, NEW n \in 1..Size, Recv(t, n)
    PROVE  AInv'
<1> SUFFICES ASSUME NEW c \in Clients, NEW s \in Servers, quorum_size'[c] # 0
             PROVE  Settled(c, s)'
  BY DEF AInv
<1> DEFINE d == Owner[t]
           stream == down[d][to[t]]
<1>1. /\ d \in Clients /\ to[t] \in Servers /\ n \in 1..2
      /\ stream \in Seq(Parts) /\ n =< Len(stream)
      /\ down'[c][s] = IF c = d /\ s = to[t]
                       THEN SubSeq(stream, n + 1, Len(stream)) ELSE down[c][s]
      /\ quorum_size' = quorum_size /\ served' = served
  <2>1. n \in 1..2
    BY Constants
  <2> QED BY <2>1, RecvIs
<1>2. Settled(c, s)
  BY <1>1 DEF AInv
<1>3. CASE c = d /\ s = to[t]
  <2> DEFINE A == {u \in Threads : Owner[u] = c}
             f == [u \in A |-> Got(u, s)]
             g == [u \in A |-> Got(u, s)']
  <2>1. GotParts(c, s) = {x \in A \X (Nat \ {0}) : x[2] =< f[x[1]]}
    BY DEF GotParts
  <2>2. GotParts(c, s)' = {x \in A \X (Nat \ {0}) : x[2] =< g[x[1]]}
    BY DEF GotParts
  <2>3. /\ t \in A /\ \A u \in A : f[u] \in Nat
        /\ g[t] = f[t] + n /\ \A u \in A : u # t => g[u] = f[u]
    BY <1>3, RecvAdds, RoundsAre
  <2>4. IsFiniteSet(GotParts(c, s))
    BY <1>2 DEF Settled
  <2> HIDE DEF A, f, g
  <2>5. /\ IsFiniteSet(GotParts(c, s)')
        /\ Cardinality(GotParts(c, s)') = Cardinality(GotParts(c, s)) + n
    BY <1>1, <2>1, <2>2, <2>3, <2>4, GotMore
  <2>6. Len(down'[c][s]) = Len(down[c][s]) - n
    <3>1. down'[c][s] = SubSeq(stream, n + 1, Len(stream)) /\ stream = down[c][s]
      BY <1>1, <1>3
    <3>2. Len(SubSeq(stream, n + 1, Len(stream))) = Len(stream) - n
      <4> HIDE DEF stream
      <4> QED BY <1>1, Remainder
    <3> QED BY <3>1, <3>2
  <2>7. Len(down[c][s]) \in Nat /\ Cardinality(GotParts(c, s)) \in Nat
    BY <1>1, <1>3, <2>4, LenProperties, FS_CardinalityType
  <2>8. Cardinality(GotParts(c, s)') + Len(down'[c][s]) = 2 * served'[c][s]
    <3>1. Cardinality(GotParts(c, s)) + Len(down[c][s]) = 2 * served'[c][s]
      BY <1>1, <1>2 DEF Settled
    <3>2. ASSUME NEW a \in Nat, NEW b \in Nat, NEW e, a + b = e
          PROVE  (a + n) + (b - n) = e
      BY <1>1, <3>2
    <3> QED BY <2>5, <2>6, <2>7, <3>1, <3>2
  <2> QED BY <2>5, <2>8 DEF Settled
<1>4. CASE ~(c = d /\ s = to[t])
  <2>1. \A u \in Threads : Owner[u] = c => Got(u, s)' = Got(u, s)
    BY <1>4, RecvAdds
  <2> QED BY <1>1, <1>2, <1>4, <2>1, SettledRest
<1> QED BY <1>3, <1>4

LEMMA ReplySettles ==
    ASSUME TInv, AInv, NEW r \in Servers, Reply(r)
    PROVE  AInv'
<1> SUFFICES ASSUME NEW c \in Clients, NEW s \in Servers, quorum_size'[c] # 0
             PROVE  Settled(c, s)'
  BY DEF AInv
<1> DEFINE d == fds[r][i[r]]
           answer == Encrypt(Decrypt(cipher[r]))
<1>1. /\ d \in Clients /\ down[d][r] \in Seq(Parts)
      /\ down'[c][s] = IF c = d /\ s = r THEN down[c][s] \o answer ELSE down[c][s]
      /\ served'[c][s] = IF c = d /\ s = r THEN served[c][s] + 1 ELSE served[c][s]
      /\ UNCHANGED <<clientVars, threadVars>>
  BY ReplyIs
<1>2. Settled(c, s)
  BY <1>1 DEF AInv, clientVars
<1>3. \A t \in Threads : Got(t, s)' = Got(t, s)
  BY <1>1 DEF threadVars, Got, RoundsOf
<1>4. CASE c = d /\ s = r
  <2>1. GotParts(c, s)' = GotParts(c, s)
    BY <1>3 DEF GotParts
  <2>2. Len(down'[c][s]) = Len(down[c][s]) + 2
    <3>1. answer \in Seq(Parts) /\ Len(answer) = 2
      BY EncryptIs
    <3> HIDE DEF answer, d
    <3>2. down'[c][s] = down[c][s] \o answer /\ down[c][s] \in Seq(Parts)
      BY <1>1, <1>4
    <3>3. Len(down[c][s] \o answer) = Len(down[c][s]) + Len(answer)
      BY <3>1, <3>2, Joined
    <3> QED BY <3>1, <3>2, <3>3
  <2>3. /\ Len(down[c][s]) \in Nat /\ Cardinality(GotParts(c, s)) \in Nat
        /\ served[c][s] \in Nat
    <3>1. IsFiniteSet(GotParts(c, s)) /\ down[c][s] \in Seq(Parts)
      BY <1>1, <1>2, <1>4 DEF Settled
    <3>2. served[c][s] \in Nat
      BY DEF TInv, TypeOK
    <3> QED BY <3>1, <3>2, LenProperties, FS_CardinalityType
  <2>4. /\ IsFiniteSet(GotParts(c, s))
        /\ Cardinality(GotParts(c, s)) + Len(down[c][s]) = 2 * served[c][s]
    BY <1>2 DEF Settled
  <2>5. served'[c][s] = served[c][s] + 1
    BY <1>1, <1>4
  <2>6. ASSUME NEW a \in Nat, NEW b \in Nat, NEW e \in Nat, a + b = 2 * e
        PROVE  a + (b + 2) = 2 * (e + 1)
    BY <2>6
  <2>7. Cardinality(GotParts(c, s)) + Len(down'[c][s]) = 2 * served'[c][s]
    <3>1. Cardinality(GotParts(c, s)) + (Len(down[c][s]) + 2) = 2 * (served[c][s] + 1)
      BY <2>3, <2>4, <2>6
    <3> QED BY <2>2, <2>5, <3>1
  <2> QED BY <2>1, <2>4, <2>7 DEF Settled
<1>5. CASE ~(c = d /\ s = r)
  BY <1>1, <1>2, <1>3, <1>5, SettledRest
<1> QED BY <1>4, <1>5

(* send() brings no answer, and the loop that receives starts with none.   *)
LEMMA SendAdds ==
    ASSUME TInv, NEW t \in Threads, NEW n \in 1..Size, Send(t, n)
    PROVE  \A s \in Servers, u \in Threads : Got(u, s)' = Got(u, s)
<1> SUFFICES ASSUME NEW s \in Servers
             PROVE  \A u \in Threads : Got(u, s)' = Got(u, s)
  OBVIOUS
<1>1. /\ pc[t] = "send" /\ n \in 1..(Size - done[t])
      /\ to[t] \in Servers /\ NextMessage(t, done[t] + n) /\ inserts' = inserts
      /\ Owner[t] \in Clients /\ done[t] \in 0..1
  BY SendIs, Constants
<1>2. /\ \A u \in Threads : u # t =>
            /\ pc'[u] = pc[u] /\ to'[u] = to[u]
            /\ done'[u] = done[u] /\ round'[u] = round[u]
      /\ done[t] + n # 2 => pc' = pc /\ to' = to /\ round' = round
      /\ done'[t] = IF done[t] + n = 2 THEN 0 ELSE 1
  BY <1>1, NextMessageIs
<1>3. \A u \in Threads : u # t => Got(u, s)' = Got(u, s)
  BY <1>1, <1>2 DEF Got, RoundsOf
<1>4. Got(t, s)' = Got(t, s)
  <2>1. connected[Owner[t]] = NumServers
    BY <1>1 DEF TInv, Threadly
  <2>2. /\ pc \in [Threads -> {"idle", "round", "send", "recv"}]
        /\ round \in [Threads -> 0..Rounds]
        /\ to \in [Threads -> 0..NumServers]
    BY DEF TInv, TypeOK
  <2>3. round'[t] = round[t]
        /\ \/ pc'[t] = "send"
           \/ pc'[t] = "recv" /\ to'[t] = 1 /\ done'[t] = 0
    <3>1. CASE done[t] + n # 2
      BY <1>1, <1>2, <3>1
    <3>2. CASE done[t] + n = 2
      <4>1. ~(done[t] + n < Size)
        BY <3>2, Constants
      <4>2. CASE to[t] = NumServers
        <5>1. /\ pc' = [pc EXCEPT ![t] = "recv"] /\ to' = [to EXCEPT ![t] = 1]
              /\ round' = [round EXCEPT ![t] = round[t]]
          BY <1>1, <2>1, <4>1, <4>2 DEF NextMessage, Goto
        <5> QED BY <1>2, <2>2, <3>2, <5>1
      <4>3. CASE to[t] # NumServers
        <5>1. pc' = [pc EXCEPT ![t] = pc[t]]
          BY <2>1, <4>1, <4>3, <1>1 DEF NextMessage, Goto
        <5>2. round' = [round EXCEPT ![t] = round[t]]
          BY <2>1, <4>1, <4>3, <1>1 DEF NextMessage
        <5> QED BY <1>1, <2>2, <5>1, <5>2
      <4> QED BY <4>2, <4>3
    <3> QED BY <3>1, <3>2
  <2>4. RoundsOf(t)' = RoundsOf(t)
    BY <1>1, <2>3 DEF RoundsOf
  <2>5. s \in 1..NumServers /\ NumServers \in Nat
    BY Constants DEF Servers
  <2> QED BY <1>1, <2>3, <2>4, <2>5 DEF Got
<1> QED BY <1>3, <1>4

LEMMA SendSettles ==
    ASSUME TInv, AInv, NEW t \in Threads, NEW n \in 1..Size, Send(t, n)
    PROVE  AInv'
<1>1. UNCHANGED <<quorum_size, down, served>>
  BY SendIs
<1> QED BY <1>1, SendAdds, SettledRest DEF AInv

(* Between the rounds nothing is received, and insert_statement is past    *)
(* both of them unless there is no quorum (logpoint.c:388-403).            *)
LEMMA RoundsSettle ==
    ASSUME TInv, AInv, NEW t \in Threads, BeginInsert(t) \/ BeginRound(t) \/ Insert(t)
    PROVE  AInv'
<1> SUFFICES ASSUME NEW c \in Clients, NEW s \in Servers, quorum_size'[c] # 0
             PROVE  Settled(c, s)'
  BY DEF AInv
<1>1. UNCHANGED <<quorum_size, down, served>>
  BY DEF BeginInsert, BeginRound, Insert, clientVars, serverVars
<1>2. Settled(c, s)
  BY <1>1 DEF AInv
<1>3. /\ pc \in [Threads -> {"idle", "round", "send", "recv"}]
      /\ round \in [Threads -> 0..2] /\ inserts \in [Threads -> 0..MaxInserts]
      /\ to \in [Threads -> 0..NumServers] /\ done \in [Threads -> 0..(Size - 1)]
      /\ MaxInserts \in Nat /\ Rounds = 2
  BY Constants DEF TInv, TypeOK
<1>4. ASSUME NEW u \in Threads, Owner[u] = c
      PROVE  Got(u, s)' = Got(u, s)
  <2>1. CASE BeginInsert(t)
    <3>1. /\ round' = [round EXCEPT ![t] = Rounds] /\ pc' = [pc EXCEPT ![t] = "round"]
          /\ pc[t] = "idle" /\ UNCHANGED <<to, done, inserts>>
      BY <2>1 DEF BeginInsert, Goto
    <3>2. RoundsOf(u)' = RoundsOf(u)
      BY <1>3, <3>1 DEF RoundsOf
    <3> QED BY <1>3, <3>1, <3>2 DEF Got
  <2>2. CASE BeginRound(t)
    <3>1. /\ to' = [to EXCEPT ![t] = 1] /\ done' = [done EXCEPT ![t] = 0]
          /\ pc[t] = "round" /\ pc' = [pc EXCEPT ![t] = "send"]
          /\ UNCHANGED <<round, inserts>>
      BY <2>2 DEF BeginRound, Goto
    <3>2. RoundsOf(u)' = RoundsOf(u)
      BY <1>3, <3>1 DEF RoundsOf
    <3> QED BY <1>3, <3>1, <3>2 DEF Got
  <2>3. CASE Insert(t)
    <3>1. /\ pc[t] = "round" /\ inserts' = [inserts EXCEPT ![t] = @ + 1]
          /\ pc' = [pc EXCEPT ![t] = "idle"] /\ UNCHANGED <<round, to, done>>
          /\ u = t => round[t] = 0
      BY <1>1, <1>4, <2>3 DEF Insert, Goto
    <3>2. RoundsOf(u)' = RoundsOf(u)
      <4>1. CASE u # t
        BY <1>3, <3>1, <4>1 DEF RoundsOf
      <4>2. CASE u = t
        <5>1. RoundsOf(u) = 2 * inserts[t] + (2 - round[t])
          BY <1>3, <3>1, <4>2 DEF RoundsOf
        <5>2. RoundsOf(u)' = 2 * (inserts[t] + 1) + 0
          BY <1>3, <3>1, <4>2 DEF RoundsOf
        <5> QED BY <1>3, <3>1, <4>2, <5>1, <5>2
      <4> QED BY <4>1, <4>2
    <3> QED BY <1>3, <3>1, <3>2 DEF Got
  <2> QED BY <2>1, <2>2, <2>3
<1> QED BY <1>1, <1>2, <1>4, SettledRest

LEMMA OthersSettle ==
    ASSUME TInv, AInv,
           UNCHANGED <<threadVars, down, served>>,
           \A c \in Clients : quorum_size'[c] # 0 => quorum_size[c] # 0
    PROVE  AInv'
<1>1. \A s \in Servers, u \in Threads : Got(u, s)' = Got(u, s)
  BY DEF threadVars, Got, RoundsOf
<1> QED BY <1>1, SettledRest DEF AInv

LEMMA StartSettles ==
    ASSUME TInv, AInv, NEW c \in Clients, StartStep(c) \/ Exit(c)
    PROVE  AInv'
<1>1. UNCHANGED <<threadVars, down, served>>
  BY DEF StartStep, Connect, SetQuorum, Exit, serverVars
<1>2. \A d \in Clients : quorum_size'[d] # 0 => quorum_size[d] # 0
  <2>1. CASE SetQuorum(c)
    <3>1. /\ quorum_size[c] = None
          /\ \A d \in Clients : d # c => quorum_size'[d] = quorum_size[d]
      BY <2>1 DEF SetQuorum, TInv, TypeOK
    <3> QED BY <3>1 DEF None
  <2>2. CASE Connect(c) \/ Exit(c)
    BY <2>2 DEF Connect, Exit
  <2> QED BY <2>1, <2>2 DEF StartStep
<1> QED BY <1>1, <1>2, OthersSettle

LEMMA AnswersStart == Init => AInv
<1> SUFFICES ASSUME Init, NEW c \in Clients, NEW s \in Servers
             PROVE  Settled(c, s)
  BY DEF AInv
<1>1. \A t \in Threads : Got(t, s) = 0
  BY Constants DEF Init, Got, RoundsOf
<1>2. GotParts(c, s) = {}
  BY <1>1 DEF GotParts
<1>3. Len(down[c][s]) = 0 /\ served[c][s] = 0
  BY DEF Init
<1> QED BY <1>2, <1>3, FS_EmptySet DEF Settled

LEMMA NextSettles == TInv /\ AInv /\ [Next]_vars => AInv'
<1> SUFFICES ASSUME TInv, AInv, [Next]_vars PROVE AInv'
  OBVIOUS
<1>1. ASSUME NEW c \in Clients, StartStep(c) \/ Exit(c) PROVE AInv'
  BY <1>1, StartSettles
<1>2. ASSUME NEW t \in Threads, BeginInsert(t) \/ ThreadStep(t) PROVE AInv'
  BY <1>2, RoundsSettle, SendSettles, RecvSettles DEF ThreadStep
<1>3. ASSUME NEW s \in Servers, ServerStep(s) PROVE AInv'
  <2>1. ASSUME NEW n \in 1..Size, ServerRecv(s, n) PROVE AInv'
    <3>1. UNCHANGED <<quorum_size, threadVars, down, served>>
      BY <2>1 DEF ServerRecv, clientVars
    <3> QED BY <3>1, OthersSettle
  <2>2. CASE Select(s) \/ Serve(s) \/ ServerExits(s) \/ Accept(s) \/ EndOfLoop(s)
    <3>1. UNCHANGED <<quorum_size, threadVars, down, served>>
      BY <2>2 DEF Select, Serve, ServeBelow, ServerExits, Accept, AcceptWithin,
         EndOfLoop, clientVars
    <3> QED BY <3>1, OthersSettle
  <2> QED BY <1>3, <2>1, <2>2, ReplySettles DEF ServerStep
<1>4. CASE UNCHANGED vars
  <2>1. UNCHANGED <<quorum_size, threadVars, down, served>>
    BY <1>4 DEF vars, clientVars, serverVars
  <2> QED BY <2>1, OthersSettle
<1> QED BY <1>1, <1>2, <1>3, <1>4 DEF Next

LEMMA AnswersHold == Spec => []AInv
  BY AnswersStart, NextSettles, TypesHold, PTL DEF Spec

(* Two parts for each round that was completed.                            *)
LEMMA PartsOfRounds ==
    ASSUME TInv, NEW c \in Clients, NEW s \in Servers, IsFiniteSet(GotParts(c, s))
    PROVE  2 * Cardinality(Completed(c)) =< Cardinality(GotParts(c, s))
           /\ IsFiniteSet(Completed(c))
<1> DEFINE C == Completed(c)
           P == C \X {0, 1}
           part(y) == <<y[1][1], 2 * y[1][2] - y[2]>>
           f == [y \in P |-> part(y)]
<1>1. \A x \in C : /\ x = <<x[1], x[2]>> /\ x[1] \in Threads /\ x[2] \in Nat \ {0}
                   /\ Owner[x[1]] = c /\ x[2] =< RoundsOf(x[1])
  BY Constants DEF Completed
<1>2. ASSUME NEW y \in P PROVE part(y) \in GotParts(c, s)
  <2> DEFINE t == y[1][1]
             k == y[1][2]
             b == y[2]
  <2>1. y[1] \in C /\ b \in {0, 1}
    OBVIOUS
  <2>2. t \in Threads /\ k \in Nat \ {0} /\ Owner[t] = c /\ k =< RoundsOf(t)
    BY <1>1, <2>1
  <2>3. RoundsOf(t) \in Nat /\ Got(t, s) \in Nat /\ Got(t, s) >= 2 * RoundsOf(t)
    BY <2>2, RoundsAre, Constants
  <2> HIDE DEF t, k, b
  <2>4. 2 * k - b \in Nat \ {0} /\ 2 * k - b =< Got(t, s)
    BY <2>1, <2>2, <2>3
  <2>5. <<t, 2 * k - b>> \in GotParts(c, s)
    BY <2>2, <2>4 DEF GotParts
  <2> QED BY <2>5 DEF t, k, b
<1>3. ASSUME NEW y \in P, NEW z \in P, part(y) = part(z) PROVE y = z
  <2>1. /\ y[1] \in C /\ y[2] \in {0, 1} /\ y = <<y[1], y[2]>>
        /\ z[1] \in C /\ z[2] \in {0, 1} /\ z = <<z[1], z[2]>>
    OBVIOUS
  <2>2. /\ y[1] = <<y[1][1], y[1][2]>> /\ y[1][2] \in Nat
        /\ z[1] = <<z[1][1], z[1][2]>> /\ z[1][2] \in Nat
    BY <1>1, <2>1
  <2>3. y[1][1] = z[1][1] /\ 2 * y[1][2] - y[2] = 2 * z[1][2] - z[2]
    BY <1>3
  <2>4. y[1][2] = z[1][2] /\ y[2] = z[2]
    BY <2>1, <2>2, <2>3
  <2> QED BY <2>1, <2>2, <2>3, <2>4, Zenon
<1>4. f \in Injection(P, GotParts(c, s))
  <2> HIDE DEF P, part
  <2>1. f \in [P -> GotParts(c, s)]
    BY <1>2
  <2>2. \A y, z \in P : f[y] = f[z] => y = z
    BY <1>3
  <2> HIDE DEF f
  <2> QED BY <2>1, <2>2 DEF Injection, IsInjective
<1>5. IsFiniteSet(P) /\ Cardinality(P) =< Cardinality(GotParts(c, s))
  <2> HIDE DEF f, P
  <2> QED BY <1>4, FS_Injection
<1>6. IsFiniteSet(C)
  <2> DEFINE g == [x \in C |-> <<x, 0>>]
  <2>1. g \in Injection(C, P)
    <3>1. g \in [C -> P]
      OBVIOUS
    <3>2. \A x, z \in C : g[x] = g[z] => x = z
      OBVIOUS
    <3> HIDE DEF C, P, g
    <3> QED BY <3>1, <3>2 DEF Injection, IsInjective
  <2> HIDE DEF C, P, g
  <2> QED BY <1>5, <2>1, FS_Injection
<1>7. Cardinality(P) = 2 * Cardinality(C)
  <2>1. IsFiniteSet({0, 1}) /\ Cardinality({0, 1}) = 2
    <3>1. IsFiniteSet({0}) /\ Cardinality({0}) = 1 /\ {0, 1} = {0} \cup {1}
      BY FS_Singleton
    <3>2. 1 \notin {0} /\ 1 + 1 = 2
      OBVIOUS
    <3> QED BY <3>1, <3>2, OnePart
  <2>2. Cardinality(P) = Cardinality(C) * Cardinality({0, 1})
    <3> HIDE DEF C
    <3> QED BY <1>6, <2>1, FS_Product
  <2>3. Cardinality(C) \in Nat
    BY <1>6, FS_CardinalityType
  <2> HIDE DEF C, P
  <2> QED BY <2>1, <2>2, <2>3
<1> QED BY <1>5, <1>6, <1>7

(* With any number of threads that share the sockets of a client, and      *)
(* whichever clients exit when: no round of a client with a quorum ends    *)
(* before each server has answered one more message of it, although a      *)
(* thread takes whatever bytes are there (mcservice.c:301-342).            *)
THEOREM RoundsAreAnswered == Spec => []RoundsAnswered
<1>1. TInv /\ AInv => RoundsAnswered
  <2> SUFFICES ASSUME TInv, AInv, NEW c \in Clients, quorum_size[c] > 0,
                      NEW s \in Servers
               PROVE  served[c][s] >= Cardinality(Completed(c))
    BY DEF RoundsAnswered
  <2>1. Settled(c, s)
    <3>1. quorum_size[c] \in {None} \cup 0..NumServers
      BY DEF TInv, TypeOK
    <3>2. quorum_size[c] # 0
      BY <3>1, Constants DEF None
    <3> QED BY <3>2 DEF AInv
  <2>2. /\ IsFiniteSet(GotParts(c, s)) /\ IsFiniteSet(Completed(c))
        /\ 2 * Cardinality(Completed(c)) =< Cardinality(GotParts(c, s))
        /\ Cardinality(GotParts(c, s)) + Len(down[c][s]) = 2 * served[c][s]
    BY <2>1, PartsOfRounds DEF Settled
  <2>3. /\ Cardinality(GotParts(c, s)) \in Nat /\ Cardinality(Completed(c)) \in Nat
        /\ Len(down[c][s]) \in Nat /\ served[c][s] \in Nat
    <3>1. down[c][s] \in Seq(Parts) /\ served[c][s] \in Nat
      BY DEF TInv, TypeOK
    <3> QED BY <2>2, <3>1, LenProperties, FS_CardinalityType
  <2> DEFINE rounds == Cardinality(Completed(c))
             got == Cardinality(GotParts(c, s))
             onWay == Len(down[c][s])
             answers == served[c][s]
  <2>4. rounds \in Nat /\ got \in Nat /\ onWay \in Nat /\ answers \in Nat
    BY <2>3
  <2>5. 2 * rounds =< got /\ got + onWay = 2 * answers
    BY <2>2
  <2>6. answers >= rounds
    <3> HIDE DEF rounds, got, onWay, answers
    <3> QED BY <2>4, <2>5
  <2> QED BY <2>6
<1> QED BY <1>1, TypesHold, AnswersHold, PTL

=============================================================================
