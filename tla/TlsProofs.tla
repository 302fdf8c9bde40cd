------------------------------ MODULE TlsProofs ------------------------------
(***************************************************************************)
(* Theorems about TlsLogging, for any number of threads, SSL addresses,    *)
(* connections and exchanges, in both builds.  The first part says what a  *)
(* step of a hook does to the slot of one connection, as lemmas about three*)
(* values: w, what the connection has exchanged, r, its log_connection, and*)
(* L, what was logged of it.  The second part shows the structure: which   *)
(* connection a hook works on, that it is alone there, and that nobody     *)
(* frees it meanwhile (SInv).  The third part adds what a slot and the log *)
(* hold at each step of a hook, where requests and replies alternate       *)
(* (DInv), the last one what they hold of the requests where they do not   *)
(* (RInv).                                                                 *)
(***************************************************************************)
EXTENDS TlsLogging, SequenceTheorems, WellFoundedInduction, TLAPS

-----------------------------------------------------------------------------
(* JOINED SEQUENCES.  FlattenSeq of the community modules is a recursive   *)
(* function, and the induction over its argument takes the form of a search*)
(* for a least counterexample.                                             *)

Flat(ss) == S!FlattenSeq(ss)

(* A set of numbers has a least one, if it has any.                        *)
LEMMA LeastNumber ==
    ASSUME NEW N \in SUBSET Nat, N # {}
    PROVE  \E k \in N : \A l \in N : k =< l
<1> DEFINE R == {p \in Nat \X Nat : p[1] < p[2]}
<1>1. IsWellFoundedOn(R, Nat)
  BY NatLessThanWellFounded DEF OpToRel
<1>2. PICK k \in N : \A l \in N : <<l, k>> \notin R
  <2> HIDE DEF R
  <2> QED BY <1>1, WFMin
<1>3. ASSUME NEW l \in N PROVE k =< l
  <2>1. k \in Nat /\ l \in Nat /\ <<l, k>> \notin R
    BY <1>2
  <2>2. ~(l < k)
    BY <2>1
  <2> QED BY <2>1, <2>2
<1> QED BY <1>3

-----------------------------------------------------------------------------
(* The function that FlattenSeq defines: f[i] is the first i sequences.    *)
Joins(ss, n, f) ==
    f = [i \in 1..n |-> IF i = 1 THEN ss[i] ELSE f[i - 1] \o ss[i]]

(* What such a function is at each place.                                  *)
LEMMA JoinsAre ==
    ASSUME NEW ss, NEW n \in Nat, NEW f, Joins(ss, n, f), NEW i \in 1..n
    PROVE  f[i] = IF i = 1 THEN ss[i] ELSE f[i - 1] \o ss[i]
  BY DEF Joins

(* The values at a place depend on the sequences up to there only.         *)
LEMMA JoinsAgree ==
    ASSUME NEW ss, NEW tt, NEW m \in Nat, NEW n \in Nat, m =< n,
           NEW f, Joins(ss, m, f), NEW g, Joins(tt, n, g),
           \A i \in 1..m : ss[i] = tt[i]
    PROVE  \A i \in 1..m : f[i] = g[i]
<1> DEFINE N == {i \in 1..m : f[i] # g[i]}
<1> SUFFICES ASSUME N # {} PROVE FALSE
  OBVIOUS
<1>1. N \in SUBSET Nat
  OBVIOUS
<1>2. PICK k \in N : \A l \in N : k =< l
  <2> HIDE DEF N
  <2> QED BY <1>1, LeastNumber
<1>3. k \in 1..m /\ k \in 1..n /\ f[k] # g[k]
  BY <1>2
<1>4. /\ f[k] = IF k = 1 THEN ss[k] ELSE f[k - 1] \o ss[k]
      /\ g[k] = IF k = 1 THEN tt[k] ELSE g[k - 1] \o tt[k]
  BY <1>3, JoinsAre
<1>5. k # 1 => k - 1 \in 1..m /\ k - 1 \notin N
  BY <1>2, <1>3
<1>6. k # 1 => f[k - 1] = g[k - 1]
  BY <1>5
<1> QED BY <1>3, <1>4, <1>6

(* There is one for every length.                                          *)
LEMMA JoinsExist == \A ss : \A n \in Nat : \E f : Joins(ss, n, f)
<1> SUFFICES ASSUME NEW ss PROVE \A n \in Nat : \E f : Joins(ss, n, f)
  OBVIOUS
<1> DEFINE N == {n \in Nat : ~ \E f : Joins(ss, n, f)}
<1> SUFFICES ASSUME N # {} PROVE FALSE
  OBVIOUS
<1>1. N \in SUBSET Nat
  OBVIOUS
<1>2. PICK k \in N : \A l \in N : k =< l
  <2> HIDE DEF N
  <2> QED BY <1>1, LeastNumber
<1>3. k # 0
  <2>1. Joins(ss, 0, [i \in 1..0 |-> 0])
    BY DEF Joins
  <2> QED BY <1>2, <2>1
<1>4. k - 1 \in Nat /\ k - 1 \notin N
  BY <1>2, <1>3
<1>5. PICK f : Joins(ss, k - 1, f)
  BY <1>4
<1> DEFINE g == [i \in 1..k |-> IF i = 1 THEN ss[i] ELSE f[i - 1] \o ss[i]]
<1>6. \A i \in 1..(k - 1) : g[i] = f[i]
  BY <1>4, <1>5, JoinsAre
<1>7. \A i \in 1..k : i # 1 => g[i - 1] = f[i - 1]
  <2>1. \A i \in 1..k : i # 1 => i - 1 \in 1..(k - 1)
    BY <1>4
  <2> HIDE DEF g
  <2> QED BY <1>6, <2>1
<1>8. g = [i \in 1..k |-> IF i = 1 THEN ss[i] ELSE g[i - 1] \o ss[i]]
  BY <1>7
<1> HIDE DEF g
<1>9. Joins(ss, k, g)
  BY <1>8 DEF Joins
<1> QED BY <1>2, <1>9

(* FlattenSeq is the last value of that function.                          *)
LEMMA FlatIs ==
    ASSUME NEW ss, Len(ss) \in Nat
    PROVE  /\ Len(ss) = 0 => Flat(ss) = ss
           /\ Len(ss) > 0 => \E f : Joins(ss, Len(ss), f) /\ Flat(ss) = f[Len(ss)]
<1> DEFINE h == CHOOSE f : Joins(ss, Len(ss), f)
<1>1. Joins(ss, Len(ss), h)
  <2>1. \E f : Joins(ss, Len(ss), f)
    BY JoinsExist
  <2> QED BY <2>1, Zenon
<1>2. Flat(ss) = IF Len(ss) = 0 THEN ss ELSE h[Len(ss)]
  BY DEF Flat, S!FlattenSeq, Joins
<1> HIDE DEF h
<1> QED BY <1>1, <1>2

-----------------------------------------------------------------------------
(* Flattening yields a sequence of the elements.                           *)
LEMMA FlatType ==
    ASSUME NEW T, NEW ss \in Seq(Seq(T))
    PROVE  Flat(ss) \in Seq(T)
<1>1. Len(ss) \in Nat /\ \A i \in 1..Len(ss) : ss[i] \in Seq(T)
  BY LenProperties, ElementOfSeq
<1>2. CASE Len(ss) = 0
  <2>1. ss = <<>>
    BY <1>2, EmptySeq
  <2> QED BY <1>2, <2>1, FlatIs, EmptySeq
<1>3. CASE Len(ss) > 0
  <2>1. PICK f : Joins(ss, Len(ss), f) /\ Flat(ss) = f[Len(ss)]
    BY <1>1, <1>3, FlatIs
  <2> DEFINE N == {i \in 1..Len(ss) : f[i] \notin Seq(T)}
  <2>2. N = {}
    <3> SUFFICES ASSUME N # {} PROVE FALSE
      OBVIOUS
    <3>1. N \in SUBSET Nat
      OBVIOUS
    <3>2. PICK k \in N : \A l \in N : k =< l
      <4> HIDE DEF N
      <4> QED BY <3>1, LeastNumber
    <3>3. k \in 1..Len(ss) /\ f[k] = IF k = 1 THEN ss[k] ELSE f[k - 1] \o ss[k]
      BY <1>1, <2>1, <3>2, JoinsAre
    <3>4. k # 1 => k - 1 \in 1..Len(ss) /\ k - 1 \notin N
      BY <1>1, <3>2, <3>3
    <3>5. k # 1 => f[k - 1] \in Seq(T)
      BY <3>4
    <3>6. f[k] \in Seq(T)
      BY <1>1, <3>3, <3>5, ConcatProperties
    <3> QED BY <3>2, <3>6
  <2>3. Len(ss) \in 1..Len(ss)
    BY <1>1, <1>3
  <2> QED BY <2>1, <2>2, <2>3
<1> QED BY <1>1, <1>2, <1>3

(* Nothing flattens to nothing.                                            *)
LEMMA FlatEmpty == Flat(<<>>) = <<>>
<1>1. Len(<<>>) = 0
  OBVIOUS
<1> QED BY <1>1, FlatIs

(* One more sequence goes to the end.                                      *)
LEMMA FlatAppend ==
    ASSUME NEW T, NEW ss \in Seq(Seq(T)), NEW s \in Seq(T)
    PROVE  Flat(Append(ss, s)) = Flat(ss) \o s
<1> DEFINE tt == Append(ss, s)
           n == Len(ss)
<1>1. /\ n \in Nat /\ Len(tt) = n + 1 /\ tt[n + 1] = s
      /\ \A i \in 1..n : ss[i] = tt[i]
  BY LenProperties, AppendProperties
<1> HIDE DEF tt
<1>2. PICK g : Joins(tt, n + 1, g) /\ Flat(tt) = g[n + 1]
  BY <1>1, FlatIs
<1>3. g[n + 1] = IF n + 1 = 1 THEN s ELSE g[n] \o s
  <2>1. n + 1 \in 1..(n + 1) /\ n + 1 \in Nat /\ n + 1 - 1 = n
    BY <1>1
  <2> DEFINE k == n + 1
  <2>2. k \in Nat /\ k \in 1..k /\ Joins(tt, k, g)
    BY <1>2, <2>1
  <2> HIDE DEF k, n
  <2>3. g[k] = IF k = 1 THEN tt[k] ELSE g[k - 1] \o tt[k]
    BY <2>2, JoinsAre
  <2> QED BY <1>1, <2>1, <2>3 DEF k
<1>4. CASE n = 0
  <2>1. ss = <<>>
    BY <1>4, EmptySeq
  <2>2. Flat(ss) \o s = s
    BY <2>1, FlatEmpty, ConcatEmptySeq
  <2> QED BY <1>2, <1>3, <1>4, <2>2 DEF tt
<1>5. CASE n > 0
  <2>1. PICK f : Joins(ss, n, f) /\ Flat(ss) = f[n]
    BY <1>1, <1>5, FlatIs
  <2>2. f[n] = g[n]
    <3>1. \A i \in 1..n : f[i] = g[i]
      <4>1. n + 1 \in Nat /\ n =< n + 1
        BY <1>1
      <4> HIDE DEF n
      <4> QED BY <1>1, <1>2, <2>1, <4>1, JoinsAgree
    <3> QED BY <1>1, <1>5, <3>1
  <2> QED BY <1>1, <1>2, <1>3, <1>5, <2>1, <2>2 DEF tt
<1> QED BY <1>1, <1>4, <1>5

(* A sequence is what it is without its last element, and that element.    *)
LEMMA LastApart ==
    ASSUME NEW T, NEW q \in Seq(T), NEW k \in 1..Len(q)
    PROVE  /\ SubSeq(q, 1, k) = Append(SubSeq(q, 1, k - 1), q[k])
           /\ SubSeq(q, 1, k - 1) \in Seq(T) /\ q[k] \in T
<1>1. Len(q) \in Nat /\ \A i \in 1..Len(q) : q[i] \in T
  BY LenProperties, ElementOfSeq
<1>2. /\ SubSeq(q, 1, k) \in Seq(T) /\ Len(SubSeq(q, 1, k)) = k
      /\ \A i \in 1..k : SubSeq(q, 1, k)[i] = q[i]
  <2>1. 1 \in Int /\ k \in Int /\ (\A i \in 1..k : q[i] \in T) /\ k - 1 + 1 = k /\ 1 =< k
    BY <1>1
  <2>2. /\ SubSeq(q, 1, k) \in Seq(T)
        /\ Len(SubSeq(q, 1, k)) = IF 1 =< k THEN k - 1 + 1 ELSE 0
        /\ \A i \in 1..k - 1 + 1 : SubSeq(q, 1, k)[i] = q[1 + i - 1]
    BY <2>1, SubSeqProperties
  <2> QED BY <2>1, <2>2
<1>3. /\ SubSeq(q, 1, k - 1) \in Seq(T) /\ Len(SubSeq(q, 1, k - 1)) = k - 1
      /\ \A i \in 1..(k - 1) : SubSeq(q, 1, k - 1)[i] = q[i]
  <2>1. /\ 1 \in Int /\ k - 1 \in Int /\ (\A i \in 1..(k - 1) : q[i] \in T)
        /\ (k - 1) - 1 + 1 = k - 1 /\ (1 =< k - 1 \/ k = 1)
    BY <1>1
  <2>2. /\ SubSeq(q, 1, k - 1) \in Seq(T)
        /\ Len(SubSeq(q, 1, k - 1)) = IF 1 =< k - 1 THEN (k - 1) - 1 + 1 ELSE 0
        /\ \A i \in 1..(k - 1) - 1 + 1 : SubSeq(q, 1, k - 1)[i] = q[1 + i - 1]
    BY <2>1, SubSeqProperties
  <2> QED BY <2>1, <2>2
<1> DEFINE a == SubSeq(q, 1, k - 1)
           b == SubSeq(q, 1, k)
<1>4. a \in Seq(T) /\ Len(a) = k - 1 /\ q[k] \in T /\ b \in Seq(T)
      /\ Len(b) = k /\ (\A i \in 1..(k - 1) : b[i] = a[i]) /\ b[k] = q[k]
  BY <1>1, <1>2, <1>3
<1> HIDE DEF a, b
<1>5. /\ Append(a, q[k]) \in Seq(T) /\ Len(Append(a, q[k])) = k
      /\ \A i \in 1..(k - 1) : Append(a, q[k])[i] = a[i]
      /\ Append(a, q[k])[k] = q[k]
  BY <1>4, AppendProperties
<1>6. \A i \in 1..k : b[i] = Append(a, q[k])[i]
  BY <1>4, <1>5
<1>7. b = Append(a, q[k])
  BY <1>4, <1>5, <1>6, SeqEqual
<1> QED BY <1>4, <1>7 DEF a, b

-----------------------------------------------------------------------------
(* THE VALUES OF ONE CONNECTION                                            *)

ConnRec == [log_request : BOOLEAN, ignore_slots : 0..Ignored,
            slot : Exchanges \cup {None}]

(* How many exchanges of a connection have left its slot. *)
DoneAt(r, L) == Ignored - r.ignore_slots + Len(L)

(* No hook runs: the slot holds the last exchange. *)
SettledAt(w, r, L) ==
    /\ Len(w) = 0 => r.slot = None /\ ~r.log_request /\ DoneAt(r, L) = 0
    /\ Len(w) > 0 => /\ r.slot = w[Len(w)]
                     /\ r.log_request <=> w[Len(w)].rep = <<>>
                     /\ DoneAt(r, L) = Len(w) - 1

(* A chunk that starts an exchange has been read but not collected. *)
StartingAt(w, r, L, m) ==
    /\ Len(w) > 0
    /\ w[Len(w)] = [req |-> <<m>>, rep |-> <<>>]
    /\ ~r.log_request
    /\ Len(w) = 1 => r.slot = None /\ DoneAt(r, L) = 0
    /\ Len(w) > 1 => r.slot = w[Len(w) - 1] /\ DoneAt(r, L) = Len(w) - 2

(* A chunk that goes on with a request has been read but not collected. *)
ContinuingAt(w, r, L, m) ==
    /\ Len(w) > 0
    /\ r.slot # None /\ r.log_request
    /\ w[Len(w)] = [req |-> Append(r.slot.req, m), rep |-> <<>>]
    /\ r.slot.rep = <<>>
    /\ DoneAt(r, L) = Len(w) - 1

(* A chunk of a reply has been written but not collected. *)
ReplyingAt(w, r, L, m) ==
    /\ Len(w) > 0
    /\ r.slot # None
    /\ w[Len(w)] = [req |-> r.slot.req, rep |-> Append(r.slot.rep, m)]
    /\ DoneAt(r, L) = Len(w) - 1

(* What has been logged is what has left the slot, without what is ignored. *)
BaseAt(w, r, L) ==
    /\ \A i \in DOMAIN L : i + Ignored \in DOMAIN w /\ L[i] = w[i + Ignored]
    /\ r.ignore_slots > 0 => L = <<>>

StageAt(l, m, w, r, L) ==
    /\ l \in {"request", "test"} =>
          StartingAt(w, r, L, m) \/ ContinuingAt(w, r, L, m)
    /\ l \in {"reply", "append"} => ReplyingAt(w, r, L, m)
    /\ l \in CloseHooks => SettledAt(w, r, L)
    /\ l \in {"entry", "init", "spin", "log"} =>
          /\ r.ignore_slots = 0 /\ r.slot # None
          /\ IF m = None THEN SettledAt(w, r, L) ELSE StartingAt(w, r, L, m)
    /\ l = "renew" =>
          /\ r.ignore_slots = 0
          /\ Len(w) > 0
          /\ IF m = None THEN DoneAt(r, L) = Len(w)
             ELSE /\ w[Len(w)] = [req |-> <<m>>, rep |-> <<>>]
                  /\ DoneAt(r, L) = Len(w) - 1

(* What the assumption of the module says of each constant. The build      *)
(* decides how many slots are ignored (logpoint.c:250-254).                *)
LEMMA Constants ==
    /\ Ignored \in {0, 2}
    /\ None \notin Exchanges /\ None \notin Chunks /\ None \notin Nat
    /\ None \notin Threads /\ None \notin Keys /\ None \notin Conns
    /\ MaxConns \in Nat /\ MaxExchanges \in Nat /\ MaxChunks \in Nat
    /\ Sgx \in BOOLEAN /\ Overlap \in BOOLEAN /\ Interim \in BOOLEAN
  BY TlsAssumption DEF Ignored, Chunks, Conns

(* A record of two fields, and the same record with one of them changed.   *)
LEMMA Fields ==
    ASSUME NEW T, NEW x \in [req : T, rep : T], NEW y \in T
    PROVE  /\ [x EXCEPT !.req = y] = [req |-> y, rep |-> x.rep]
           /\ [x EXCEPT !.rep = y] = [req |-> x.req, rep |-> y]
           /\ [req |-> y, rep |-> x.rep] \in [req : T, rep : T]
           /\ [req |-> x.req, rep |-> y] \in [req : T, rep : T]
  OBVIOUS

(* The same for an exchange, whose request or reply is replaced.           *)
LEMMA ExchangeFields ==
    ASSUME NEW x \in Exchanges, NEW y \in Seq(Chunks)
    PROVE  /\ [x EXCEPT !.req = y] = [req |-> y, rep |-> x.rep]
           /\ [x EXCEPT !.rep = y] = [req |-> x.req, rep |-> y]
           /\ [req |-> y, rep |-> x.rep] \in Exchanges
           /\ [req |-> x.req, rep |-> y] \in Exchanges
<1> DEFINE T == Seq(Chunks)
<1>1. Exchanges = [req : T, rep : T] /\ y \in T
  BY DEF Exchanges
<1> HIDE DEF T
<1> QED BY <1>1, Fields

(* log_https_request and log_https_reply append a chunk to the slot        *)
(* (logpoint.c:172-182, 214-221): the slot is an exchange again.           *)
LEMMA Collect ==
    ASSUME NEW x \in Exchanges, NEW m \in Chunks
    PROVE  /\ [x EXCEPT !.req = Append(@, m)] =
                  [req |-> Append(x.req, m), rep |-> x.rep]
           /\ [x EXCEPT !.rep = Append(@, m)] =
                  [req |-> x.req, rep |-> Append(x.rep, m)]
           /\ [req |-> Append(x.req, m), rep |-> x.rep] \in Exchanges
           /\ [req |-> x.req, rep |-> Append(x.rep, m)] \in Exchanges
<1>1. x.req \in Seq(Chunks) /\ x.rep \in Seq(Chunks)
  BY DEF Exchanges
<1> DEFINE y == Append(x.req, m)
           z == Append(x.rep, m)
<1>2. y \in Seq(Chunks) /\ z \in Seq(Chunks)
  BY <1>1
<1> HIDE DEF y, z
<1>3. [x EXCEPT !.req = y] = [req |-> y, rep |-> x.rep]
      /\ [req |-> y, rep |-> x.rep] \in Exchanges
  BY <1>2, ExchangeFields
<1>4. [x EXCEPT !.rep = z] = [req |-> x.req, rep |-> z]
      /\ [req |-> x.req, rep |-> z] \in Exchanges
  BY <1>2, ExchangeFields
<1> QED BY <1>3, <1>4 DEF y, z

(* A new slot with its first chunk is an exchange (logpoint.c:167-182).    *)
LEMMA FirstChunk ==
    ASSUME NEW m \in Chunks
    PROVE  /\ [EmptySlot EXCEPT !.req = <<m>>] = [req |-> <<m>>, rep |-> <<>>]
           /\ [req |-> <<m>>, rep |-> <<>>] \in Exchanges
<1>1. <<m>> \in Seq(Chunks) /\ <<>> \in Seq(Chunks)
  OBVIOUS
<1>2. EmptySlot \in Exchanges /\ EmptySlot.rep = <<>>
  BY <1>1 DEF EmptySlot, Exchanges
<1> QED BY <1>1, <1>2, ExchangeFields

(* A request after a reply is read: until its hook has run, the slot still *)
(* holds the exchange before it.                                           *)
LEMMA ReadStarts ==
    ASSUME NEW w \in Seq(Exchanges), NEW r \in ConnRec, NEW L \in Seq(Exchanges),
           NEW m \in Chunks, BaseAt(w, r, L), SettledAt(w, r, L),
           Len(w) > 0 => w[Len(w)].rep # <<>>
    PROVE  LET v == Append(w, [req |-> <<m>>, rep |-> <<>>])
           IN  BaseAt(v, r, L) /\ StartingAt(v, r, L, m)
<1> DEFINE v == Append(w, [req |-> <<m>>, rep |-> <<>>])
<1>1. Len(v) = Len(w) + 1 /\ Len(w) \in Nat /\ (\A i \in 1..Len(w) : v[i] = w[i])
      /\ v[Len(v)] = [req |-> <<m>>, rep |-> <<>>]
      /\ DOMAIN w = 1..Len(w) /\ DOMAIN v = 1..Len(v)
  BY LenProperties
<1>2. r.log_request \in BOOLEAN
  BY DEF ConnRec
<1> HIDE DEF v
<1>3. BaseAt(v, r, L)
  BY <1>1 DEF BaseAt
<1>4. StartingAt(v, r, L, m)
  BY <1>1, <1>2 DEF StartingAt, SettledAt
<1> QED BY <1>3, <1>4 DEF v

(* Exchanges that have left the slot do not change. *)
LEMMA LastChanges ==
    ASSUME NEW w \in Seq(Exchanges), NEW r \in ConnRec, NEW L \in Seq(Exchanges),
           NEW x \in Exchanges, Len(w) > 0, BaseAt(w, r, L), DoneAt(r, L) = Len(w) - 1
    PROVE  LET v == [w EXCEPT ![Len(w)] = x]
           IN  /\ v \in Seq(Exchanges) /\ Len(v) = Len(w) /\ v[Len(w)] = x
               /\ BaseAt(v, r, L)
<1> DEFINE v == [w EXCEPT ![Len(w)] = x]
<1>1. Len(w) \in Nat /\ DOMAIN w = 1..Len(w) /\ Len(L) \in Nat /\ DOMAIN L = 1..Len(L)
      /\ r.ignore_slots \in Int
  BY LenProperties DEF ConnRec
<1>2. /\ v \in Seq(Exchanges) /\ Len(v) = Len(w) /\ v[Len(w)] = x
      /\ \A i \in 1..(Len(w) - 1) : v[i] = w[i]
      /\ DOMAIN v = 1..Len(w)
  BY <1>1, ExceptSeq
<1>3. Ignored \in Nat
  BY DEF Ignored
<1> HIDE DEF v
<1>4. ASSUME NEW i \in DOMAIN L
      PROVE  i + Ignored \in DOMAIN v /\ L[i] = v[i + Ignored]
  <2>1. r.ignore_slots = 0
    BY <1>1 DEF BaseAt, ConnRec
  <2>2. i + Ignored \in 1..(Len(w) - 1)
    BY <2>1, <1>1, <1>3 DEF DoneAt
  <2> QED BY <2>2, <1>1, <1>2 DEF BaseAt
<1>5. BaseAt(v, r, L)
  BY <1>4 DEF BaseAt
<1> QED BY <1>2, <1>5 DEF v

(* A further part of a request is read: until its hook has run, the slot   *)
(* lacks exactly this part.                                                *)
LEMMA ReadContinues ==
    ASSUME NEW w \in Seq(Exchanges), NEW r \in ConnRec, NEW L \in Seq(Exchanges),
           NEW m \in Chunks, BaseAt(w, r, L), SettledAt(w, r, L),
           Len(w) > 0, w[Len(w)].rep = <<>>
    PROVE  LET v == [w EXCEPT ![Len(w)] =
                        [req |-> Append(@.req, m), rep |-> @.rep]]
           IN  BaseAt(v, r, L) /\ ContinuingAt(v, r, L, m)
<1> DEFINE n == Len(w)
           x == [req |-> Append(w[n].req, m), rep |-> w[n].rep]
           v == [w EXCEPT ![n] = x]
<1>1. w[n] \in Exchanges
  BY ElementOfSeq, LenProperties
<1>2. x \in Exchanges
  BY <1>1, Collect
<1>3. /\ r.slot = w[n] /\ r.log_request /\ DoneAt(r, L) = n - 1
      /\ x.req = Append(r.slot.req, m) /\ x.rep = <<>>
  BY DEF SettledAt, ConnRec
<1>4. /\ v \in Seq(Exchanges) /\ Len(v) = n /\ v[n] = x
      /\ BaseAt(v, r, L)
  BY <1>2, <1>3, LastChanges
<1>5. r.slot # None
  BY <1>1, <1>3, Constants
<1>6. ContinuingAt(v, r, L, m)
  BY <1>3, <1>4, <1>5 DEF ContinuingAt
<1> QED BY <1>4, <1>6

(* A part of a reply is written: until its hook has run, the slot lacks    *)
(* exactly this part.                                                      *)
LEMMA Writes ==
    ASSUME NEW w \in Seq(Exchanges), NEW r \in ConnRec, NEW L \in Seq(Exchanges),
           NEW m \in Chunks, BaseAt(w, r, L), SettledAt(w, r, L),
           Len(w) > 0
    PROVE  LET v == [w EXCEPT ![Len(w)] =
                        [req |-> @.req, rep |-> Append(@.rep, m)]]
           IN  BaseAt(v, r, L) /\ ReplyingAt(v, r, L, m)
<1> DEFINE n == Len(w)
           x == [req |-> w[n].req, rep |-> Append(w[n].rep, m)]
           v == [w EXCEPT ![n] = x]
<1>1. w[n] \in Exchanges
  BY ElementOfSeq, LenProperties
<1>2. x \in Exchanges
  BY <1>1, Collect
<1>3. /\ r.slot = w[n] /\ DoneAt(r, L) = n - 1
      /\ x.req = r.slot.req /\ x.rep = Append(r.slot.rep, m)
  BY DEF SettledAt, ConnRec
<1>4. /\ v \in Seq(Exchanges) /\ Len(v) = n /\ v[n] = x
      /\ BaseAt(v, r, L)
  BY <1>2, <1>3, LastChanges
<1>5. r.slot # None
  BY <1>1, <1>3, Constants
<1>6. ReplyingAt(v, r, L, m)
  BY <1>3, <1>4, <1>5 DEF ReplyingAt
<1> QED BY <1>4, <1>6

(* The request is appended to the slot, or starts the first slot, or the   *)
(* next one after a slot that is ignored or has been logged                *)
(* (logpoint.c:160-182). In each case the slot then holds the exchange     *)
(* under way.                                                              *)
LEMMA Collects ==
    ASSUME NEW w \in Seq(Exchanges), NEW r \in ConnRec, NEW L \in Seq(Exchanges),
           NEW m \in Chunks, BaseAt(w, r, L), NEW s \in ConnRec,
           s.log_request,
           \/ /\ StageAt("test", m, w, r, L)
              /\ r.log_request
              /\ s.slot = [req |-> Append(r.slot.req, m), rep |-> r.slot.rep]
              /\ s.ignore_slots = r.ignore_slots
           \/ /\ StageAt("test", m, w, r, L)
              /\ ~r.log_request /\ r.slot = None
              /\ s.slot = [req |-> <<m>>, rep |-> <<>>]
              /\ s.ignore_slots = r.ignore_slots
           \/ /\ StageAt("test", m, w, r, L)
              /\ ~r.log_request /\ r.slot # None
              /\ s.slot = [req |-> <<m>>, rep |-> <<>>]
              /\ r.ignore_slots > 0 /\ s.ignore_slots = r.ignore_slots - 1
           \/ /\ StageAt("renew", m, w, r, L)
              /\ s.slot = [req |-> <<m>>, rep |-> <<>>]
              /\ s.ignore_slots = r.ignore_slots
    PROVE  BaseAt(w, s, L) /\ SettledAt(w, s, L)
<1>0. /\ Len(w) \in Nat /\ DOMAIN w = 1..Len(w) /\ Len(L) \in Nat
      /\ r.ignore_slots \in Nat /\ r.log_request \in BOOLEAN
      /\ s.ignore_slots \in Nat /\ m # None
      /\ \A i \in 1..Len(w) : w[i] # None
      /\ Ignored \in Nat
  BY LenProperties, ElementOfSeq, Constants DEF ConnRec
<1>1. BaseAt(w, s, L)
  BY <1>0 DEF BaseAt
<1>2. SUFFICES /\ Len(w) > 0 /\ s.slot = w[Len(w)] /\ s.slot.rep = <<>>
               /\ DoneAt(s, L) = Len(w) - 1
  <2>1. ASSUME Len(w) > 0, s.slot = w[Len(w)], s.slot.rep = <<>>,
               DoneAt(s, L) = Len(w) - 1
        PROVE  SettledAt(w, s, L)
    <3>1. Len(w) # 0 /\ w[Len(w)].rep = <<>>
      BY <1>0, <2>1
    <3> QED BY <2>1, <3>1, Zenon DEF SettledAt
  <2> QED BY <1>1, <2>1
<1>3. CASE /\ StageAt("test", m, w, r, L) /\ r.log_request
           /\ s.slot = [req |-> Append(r.slot.req, m), rep |-> r.slot.rep]
           /\ s.ignore_slots = r.ignore_slots
  <2>1. ContinuingAt(w, r, L, m)
    BY <1>3, Zenon DEF StageAt, StartingAt
  <2> QED BY <1>0, <1>3, <2>1 DEF ContinuingAt, DoneAt
<1>4. CASE /\ StageAt("test", m, w, r, L) /\ ~r.log_request
           /\ s.slot = [req |-> <<m>>, rep |-> <<>>]
           /\ \/ r.slot = None /\ s.ignore_slots = r.ignore_slots
              \/ r.slot # None /\ s.ignore_slots = r.ignore_slots - 1
  <2>1. StartingAt(w, r, L, m)
    BY <1>4, Zenon DEF StageAt, ContinuingAt
  <2>2. /\ Len(w) > 0 /\ w[Len(w)] = [req |-> <<m>>, rep |-> <<>>]
        /\ Len(w) = 1 => r.slot = None /\ DoneAt(r, L) = 0
        /\ Len(w) > 1 => r.slot = w[Len(w) - 1] /\ DoneAt(r, L) = Len(w) - 2
    BY <2>1 DEF StartingAt
  <2>3. DoneAt(s, L) = Len(w) - 1
    <3>1. CASE Len(w) = 1
      <4>1. s.ignore_slots = r.ignore_slots /\ DoneAt(r, L) = 0
        BY <1>0, <1>4, <2>2, <3>1
      <4> QED BY <4>1, <3>1 DEF DoneAt
    <3>2. CASE Len(w) > 1
      <4>1. r.slot # None
        BY <1>0, <2>2, <3>2
      <4>2. s.ignore_slots = r.ignore_slots - 1
        BY <1>4, <4>1
      <4> QED BY <1>0, <2>2, <3>2, <4>2 DEF DoneAt
    <3> QED BY <1>0, <2>2, <3>1, <3>2
  <2> QED BY <1>4, <2>2, <2>3
<1>5. CASE /\ StageAt("renew", m, w, r, L)
           /\ s.slot = [req |-> <<m>>, rep |-> <<>>]
           /\ s.ignore_slots = r.ignore_slots
  <2>1. /\ Len(w) > 0 /\ w[Len(w)] = [req |-> <<m>>, rep |-> <<>>]
        /\ DoneAt(r, L) = Len(w) - 1
    BY <1>0, <1>5 DEF StageAt
  <2> QED BY <1>0, <1>5, <2>1 DEF DoneAt
<1> QED BY <1>3, <1>4, <1>5

(* The reply is appended to the slot (logpoint.c:214-221), which holds the *)
(* exchange under way again.                                               *)
LEMMA CollectsReply ==
    ASSUME NEW w \in Seq(Exchanges), NEW r \in ConnRec, NEW L \in Seq(Exchanges),
           NEW m \in Chunks, BaseAt(w, r, L), NEW s \in ConnRec,
           StageAt("append", m, w, r, L),
           ~s.log_request, s.ignore_slots = r.ignore_slots,
           s.slot = [req |-> r.slot.req, rep |-> Append(r.slot.rep, m)]
    PROVE  BaseAt(w, s, L) /\ SettledAt(w, s, L)
<1>1. BaseAt(w, s, L)
  BY DEF BaseAt
<1>2. ReplyingAt(w, r, L, m)
  BY DEF StageAt
<1>3. r.slot.rep \in Seq(Chunks)
  BY <1>2 DEF ReplyingAt, ConnRec, Exchanges
<1>4. s.slot.rep # <<>>
  <2>1. s.slot.rep = Append(r.slot.rep, m)
    OBVIOUS
  <2>2. \A q \in Seq(Chunks) : Append(q, m) # <<>>
    BY AppendProperties
  <2> QED BY <1>3, <2>1, <2>2
<1>5. Len(w) \in Nat
  BY LenProperties
<1>6. SettledAt(w, s, L)
  BY <1>2, <1>4, <1>5 DEF SettledAt, ReplyingAt, DoneAt
<1> QED BY <1>1, <1>6

(* The slot is handed to add_entry_to_list (logpoint.c:160-166, 282-287):  *)
(* it holds a complete exchange, and none is to be ignored any more.       *)
LEMMA Flushes ==
    ASSUME NEW w \in Seq(Exchanges), NEW r \in ConnRec, NEW L \in Seq(Exchanges),
           NEW m, r.ignore_slots = 0, r.slot # None,
           \/ StageAt("test", m, w, r, L) /\ ~r.log_request /\ m \in Chunks
           \/ StageAt("closing", m, w, r, L) /\ m = None
    PROVE  StageAt("entry", m, w, r, L)
  BY Constants DEF StageAt, ContinuingAt, CloseHooks

(* logpoint_log takes the slot (logpoint.c:125): it is the next exchange   *)
(* of the connection, and the log remains in order and without gaps.       *)
LEMMA Logs ==
    ASSUME NEW w \in Seq(Exchanges), NEW r \in ConnRec, NEW L \in Seq(Exchanges),
           NEW m \in Chunks \cup {None}, BaseAt(w, r, L), StageAt("log", m, w, r, L)
    PROVE  /\ BaseAt(w, r, Append(L, r.slot))
           /\ StageAt("renew", m, w, r, Append(L, r.slot))
<1> DEFINE M == Append(L, r.slot)
<1>0. /\ Len(w) \in Nat /\ DOMAIN w = 1..Len(w) /\ Len(L) \in Nat
      /\ DOMAIN L = 1..Len(L)
      /\ Ignored \in Nat /\ r.slot \in Exchanges
      /\ r.ignore_slots = 0 /\ r.slot # None
  BY LenProperties, Constants DEF ConnRec, StageAt
<1>1. /\ Len(M) = Len(L) + 1 /\ DOMAIN M = 1..Len(M)
      /\ M[Len(M)] = r.slot /\ \A i \in 1..Len(L) : M[i] = L[i]
  BY <1>0, LenProperties
<1> HIDE DEF M
<1>2. /\ Len(w) > 0 /\ DoneAt(r, L) + 1 \in 1..Len(w)
      /\ r.slot = w[DoneAt(r, L) + 1]
      /\ DoneAt(r, L) = Ignored + Len(L)
  <2>1. CASE m = None
    <3>1. SettledAt(w, r, L)
      BY <2>1 DEF StageAt
    <3> QED BY <3>1, <1>0 DEF SettledAt, DoneAt
  <2>2. CASE m # None
    <3>1. StartingAt(w, r, L, m)
      BY <2>2 DEF StageAt
    <3>2. /\ Len(w) > 0
          /\ Len(w) = 1 => r.slot = None
          /\ Len(w) > 1 => r.slot = w[Len(w) - 1] /\ DoneAt(r, L) = Len(w) - 2
      BY <3>1 DEF StartingAt
    <3>3. DoneAt(r, L) \in Int /\ DoneAt(r, L) = Ignored + Len(L)
      BY <1>0 DEF DoneAt
    <3>4. Len(w) > 1
      BY <3>2, <1>0
    <3>5. DoneAt(r, L) + 1 = Len(w) - 1
      BY <3>2, <3>3, <3>4, <1>0
    <3>6. r.slot = w[DoneAt(r, L) + 1]
      BY <3>2, <3>4, <3>5
    <3> QED BY <3>3, <3>4, <3>5, <3>6, <1>0
  <2> QED BY <2>1, <2>2
<1>3. ASSUME NEW i \in DOMAIN M
      PROVE  i + Ignored \in DOMAIN w /\ M[i] = w[i + Ignored]
  <2>1. CASE i = Len(M)
    BY <2>1, <1>0, <1>1, <1>2
  <2>2. CASE i # Len(M)
    BY <2>2, <1>0, <1>1 DEF BaseAt
  <2> QED BY <2>1, <2>2
<1>4. BaseAt(w, r, M)
  BY <1>0, <1>3 DEF BaseAt
<1>5. DoneAt(r, M) = DoneAt(r, L) + 1
  BY <1>0, <1>1 DEF DoneAt
<1>6. StageAt("renew", m, w, r, M)
  <2>1. CASE m = None
    BY <2>1, <1>0, <1>2, <1>5 DEF StageAt, SettledAt, CloseHooks
  <2>2. CASE m # None
    <3>1. StartingAt(w, r, L, m)
      BY <2>2 DEF StageAt
    <3>2. /\ Len(w) > 0 /\ w[Len(w)] = [req |-> <<m>>, rep |-> <<>>]
          /\ Len(w) = 1 => r.slot = None
          /\ Len(w) > 1 => DoneAt(r, L) = Len(w) - 2
      BY <3>1 DEF StartingAt
    <3>3. DoneAt(r, M) = Len(w) - 1
      BY <3>2, <1>0, <1>5
    <3> QED BY <3>2, <3>3, <2>2, <1>0 DEF StageAt, CloseHooks
  <2> QED BY <2>1, <2>2
<1> QED BY <1>4, <1>6 DEF M

(* Once the connection is freed, nothing is missing in the log but the     *)
(* ignored slots; while it is settled, the last exchange is                *)
(* (logpoint.c:282-291).                                                   *)
LEMMA Closes ==
    ASSUME NEW w \in Seq(Exchanges), NEW r \in ConnRec, NEW L \in Seq(Exchanges),
           BaseAt(w, r, L)
    PROVE  /\ SettledAt(w, r, L) /\ ~(r.slot # None /\ r.ignore_slots = 0)
                  => Len(L) = Due(Len(w))
           /\ StageAt("renew", None, w, r, L) => Len(L) = Due(Len(w))
           /\ SettledAt(w, r, L) => Len(L) = Due(Len(w) - 1)
<1>0. /\ Len(w) \in Nat /\ Len(L) \in Nat /\ Ignored \in Nat
      /\ r.ignore_slots \in 0..Ignored
      /\ r.ignore_slots > 0 => Len(L) = 0
      /\ \A i \in 1..Len(w) : w[i] # None
  BY LenProperties, ElementOfSeq, Constants DEF ConnRec, BaseAt
<1>1. ASSUME SettledAt(w, r, L), ~(r.slot # None /\ r.ignore_slots = 0)
      PROVE  Len(L) = Due(Len(w))
  BY <1>0, <1>1 DEF SettledAt, DoneAt, Due
<1>2. ASSUME StageAt("renew", None, w, r, L) PROVE Len(L) = Due(Len(w))
  BY <1>0, <1>2 DEF StageAt, DoneAt, Due
<1>3. ASSUME SettledAt(w, r, L) PROVE Len(L) = Due(Len(w) - 1)
  BY <1>0, <1>3 DEF SettledAt, DoneAt, Due
<1> QED BY <1>1, <1>2, <1>3

-----------------------------------------------------------------------------
(* THE STRUCTURE OF THE HOOKS' STATE                                       *)

(* Past retrieve_log_connection, or its counterpart in log_free_connection. *)
Looked  == {"test", "append", "closing", "entry", "init", "spin", "log", "renew"}
Logging == {"entry", "init", "spin", "log"}

Conn == DOMAIN conn

Lengths ==
    /\ Len(wire) = Len(conn) /\ Len(logged) = Len(conn)
    /\ Len(conn) =< MaxConns
    /\ mixed \subseteq Conn /\ freed \subseteq Conn
    /\ \A c \in Conn : Len(wire[c]) =< MaxExchanges

(* SSL objects stand for different connections, that are not freed. *)
Maps ==
    /\ \A k \in Keys : ssl[k] # None => ssl[k] \in Conn \ freed
    /\ \A k \in Keys : connections[k] = None \/ connections[k] = ssl[k]
    /\ \A k, l \in Keys : ssl[k] # None /\ ssl[k] = ssl[l] => k = l

(* What a hook has looked up is still there. *)
Hooks ==
    \A t \in Threads : pc[t] # "idle" =>
        /\ key[t] \in Keys /\ ssl[key[t]] # None
        /\ pc[t] \in Looked => cur[t] = ssl[key[t]]
        /\ pc[t] \in {"request", "reply", "close"} =>
              connections[key[t]] = ssl[key[t]]
        /\ pc[t] \in {"request", "test", "reply", "append"} => chunk[t] # None
        /\ pc[t] \in CloseHooks => chunk[t] = None
        /\ pc[t] \in Looked /\ chunk[t] = None => connections[key[t]] = None

(* Two hooks run at once only on mixed connections, and not if one of them *)
(* closes. *)
Alone ==
    \A t, u \in Threads :
        pc[t] # "idle" /\ pc[u] # "idle" /\ key[t] = key[u] /\ t # u =>
            ssl[key[t]] \in mixed /\ chunk[t] # None /\ chunk[u] # None

(* An SSL object that is not in the map is being closed. *)
Unmapped ==
    \A k \in Keys : ssl[k] # None /\ connections[k] # ssl[k] =>
        \E t \in Threads : pc[t] # "idle" /\ key[t] = k /\ chunk[t] = None

(* What is going to be appended to, or logged, exists. *)
Slots ==
    /\ \A c \in Conn \ freed : conn[c].log_request => conn[c].slot # None
    /\ \A t \in Threads : pc[t] \in Logging => conn[cur[t]].slot # None

(* The structure of the hooks' state. *)
SInv == TypeOK /\ Lengths /\ Maps /\ Hooks /\ Alone /\ Unmapped /\ Slots

(* The sequences of connections, their exchanges and their logs.           *)
LEMMA Typed ==
    ASSUME TypeOK
    PROVE  /\ conn \in Seq(ConnRec) /\ wire \in Seq(Seq(Exchanges))
           /\ logged \in Seq(Seq(Exchanges))
           /\ Len(conn) \in Nat /\ Len(wire) \in Nat /\ Len(logged) \in Nat
           /\ DOMAIN conn = 1..Len(conn) /\ DOMAIN wire = 1..Len(wire)
           /\ DOMAIN logged = 1..Len(logged)
           /\ \A c \in 1..Len(conn) : conn[c] \in ConnRec
           /\ \A c \in 1..Len(wire) : wire[c] \in Seq(Exchanges) /\ Len(wire[c]) \in Nat
           /\ \A c \in 1..Len(logged) : logged[c] \in Seq(Exchanges)
  BY LenProperties, ElementOfSeq DEF TypeOK, ConnRec

(* The values of one connection.                                           *)
LEMMA Types ==
    ASSUME SInv, NEW c \in Conn
    PROVE  /\ wire[c] \in Seq(Exchanges) /\ logged[c] \in Seq(Exchanges)
           /\ conn[c] \in ConnRec
  BY Typed DEF SInv, Lengths, Conn

(* Before the first connection there is nothing to say.                    *)
LEMMA InitS == Init => SInv
<1> SUFFICES ASSUME Init PROVE SInv
  OBVIOUS
<1> USE Constants DEF Init
<1>1. TypeOK
  <2>1. ready \in BOOLEAN
    BY Zenon
  <2>2. conn \in Seq(ConnRec) /\ wire \in Seq(Seq(Exchanges))
        /\ logged \in Seq(Seq(Exchanges))
    BY EmptySeq
  <2>3. /\ ssl \in [Keys -> Conns \cup {None}]
        /\ connections \in [Keys -> Conns \cup {None}]
        /\ key \in [Threads -> Keys \cup {None}]
        /\ chunk \in [Threads -> Chunks \cup {None}]
        /\ cur \in [Threads -> Conns \cup {None}]
        /\ pc \in [Threads -> {"idle"} \cup RequestHooks \cup ReplyHooks
                                  \cup CloseHooks]
        /\ initialized \in Int /\ mixed \subseteq Conns /\ freed \subseteq Conns
    OBVIOUS
  <2> QED BY <2>1, <2>2, <2>3, Zenon DEF TypeOK, ConnRec
<1>2. Lengths
  BY DEF Lengths, Conn
<1>3. Maps /\ Hooks /\ Alone /\ Unmapped /\ Slots
  BY DEF Maps, Hooks, Alone, Unmapped, Slots, Conn, Logging
<1> QED BY <1>1, <1>2, <1>3 DEF SInv

(* A step of a hook that leaves the maps alone. *)
Quiet(t, l) ==
    /\ pc[t] \in Looked
    /\ pc' = [pc EXCEPT ![t] = l]
    /\ l \in {"idle", "renew"} \cup Logging
    /\ l = "idle" => chunk[t] # None
    /\ UNCHANGED <<ssl, connections, key, chunk, cur, history>>
    /\ conn' \in Seq(ConnRec) /\ Len(conn') = Len(conn)
    /\ \A c \in Conn : c # cur[t] => conn'[c] = conn[c]
    /\ conn' = conn \/ conn'[cur[t]].slot # None
    /\ l \in Logging => conn[cur[t]].slot # None
    /\ logged' \in Seq(Seq(Exchanges)) /\ Len(logged') = Len(logged)
    /\ initialized' \in Int /\ ready' \in {ready, TRUE}

(* A step of a hook that leaves the maps alone preserves the structure.    *)
LEMMA QuietKeeps ==
    ASSUME SInv, NEW t \in Threads, NEW l, Quiet(t, l)
    PROVE  SInv'
<1> USE DEF SInv
<1>0. /\ pc[t] # "idle" /\ pc'[t] = l
      /\ \A u \in Threads : u # t => pc'[u] = pc[u]
      /\ UNCHANGED <<ssl, connections, key, chunk, cur, wire, mixed, freed>>
      /\ DOMAIN conn' = DOMAIN conn
  BY Typed, LenProperties DEF Quiet, Looked, TypeOK, history
<1>1. cur[t] = ssl[key[t]] /\ key[t] \in Keys /\ cur[t] \in Conn \ freed
  BY DEF Quiet, Hooks, Looked, Maps
<1>2. TypeOK'
  <2>1. ready' \in BOOLEAN
    BY Zenon DEF Quiet, TypeOK
  <2>2. pc' \in [Threads -> {"idle"} \cup RequestHooks \cup ReplyHooks
                                \cup CloseHooks]
    BY DEF Quiet, TypeOK, Logging, RequestHooks
  <2>3. conn' \in Seq(ConnRec) /\ logged' \in Seq(Seq(Exchanges))
        /\ initialized' \in Int
    BY DEF Quiet
  <2>4. TypeOK
    OBVIOUS
  <2> QED BY <1>0, <2>1, <2>2, <2>3, <2>4, Zenon DEF TypeOK, ConnRec
<1>3. Lengths'
  BY <1>0 DEF Lengths, Conn, Quiet
<1>4. Maps'
  BY <1>0 DEF Maps, Conn
<1>5. Hooks'
  BY <1>0 DEF Hooks, Quiet, Looked, Logging, CloseHooks
<1>6. Alone'
  BY <1>0 DEF Alone
<1>7. Unmapped'
  BY <1>0 DEF Unmapped, Quiet
<1>8. Slots'
  <2>1. \A c \in Conn : conn'[c] = conn[c] \/ conn'[c].slot # None
    BY DEF Quiet
  <2>2. ASSUME NEW c \in Conn' \ freed', conn'[c].log_request
        PROVE  conn'[c].slot # None
    <3>1. c \in Conn \ freed
      BY <1>0 DEF Conn
    <3>2. CASE conn'[c] = conn[c]
      BY <2>2, <3>1, <3>2, Zenon DEF Slots
    <3> QED BY <2>1, <3>1, <3>2
  <2>3. ASSUME NEW u \in Threads, pc'[u] \in Logging
        PROVE  conn'[cur'[u]].slot # None
    <3>1. conn[cur[u]].slot # None /\ cur[u] = ssl[key[u]] /\ pc[u] # "idle"
      <4>1. CASE u = t
        BY <4>1, <2>3, <1>0, <1>1 DEF Quiet
      <4>2. CASE u # t
        BY <4>2, <2>3, <1>0 DEF Slots, Hooks, Logging, Looked
      <4> QED BY <4>1, <4>2
    <3>2. cur[u] \in Conn
      BY <3>1 DEF Hooks, Maps
    <3> QED BY <2>1, <3>1, <3>2, <1>0
  <2> QED BY <2>2, <2>3, Zenon DEF Slots
<1> QED BY <1>2, <1>3, <1>4, <1>5, <1>6, <1>7, <1>8

-----------------------------------------------------------------------------
(* What the steps of the hooks do to a log_connection. *)
Sets(c, slot, log_request, ignore_slots) ==
    /\ conn' \in Seq(ConnRec) /\ Len(conn') = Len(conn)
    /\ \A d \in Conn : d # c => conn'[d] = conn[d]
    /\ conn'[c] = [log_request |-> log_request, ignore_slots |-> ignore_slots,
                   slot |-> slot]

(* Replacing the log_connection of one connection leaves the others.       *)
LEMMA Update ==
    ASSUME conn \in Seq(ConnRec), NEW c \in Conn, NEW s \in ConnRec,
           conn' = [conn EXCEPT ![c] = s]
    PROVE  /\ conn' \in Seq(ConnRec) /\ Len(conn') = Len(conn)
           /\ \A d \in Conn : d # c => conn'[d] = conn[d]
           /\ conn'[c] = s
<1>1. Conn = 1..Len(conn)
  BY LenProperties DEF Conn
<1>2. /\ [conn EXCEPT ![c] = s] \in Seq(ConnRec)
      /\ Len([conn EXCEPT ![c] = s]) = Len(conn)
      /\ \A d \in 1..Len(conn) :
            [conn EXCEPT ![c] = s][d] = IF d = c THEN s ELSE conn[d]
  BY <1>1, ExceptSeq
<1> QED BY <1>1, <1>2

(* What the assignments to the fields of a log_connection do               *)
(* (logpoint.c:52-65).                                                     *)
LEMMA SetConnectionSets ==
    ASSUME conn \in Seq(ConnRec), NEW t \in Threads, cur[t] \in Conn,
           NEW slot \in Exchanges \cup {None}, NEW b \in BOOLEAN,
           NEW i \in 0..Ignored, SetConnection(t, slot, b, i)
    PROVE  Sets(cur[t], slot, b, i)
<1> DEFINE s == [log_request |-> b, ignore_slots |-> i, slot |-> slot]
<1>1. s \in ConnRec
  BY DEF ConnRec
<1>2. conn' = [conn EXCEPT ![cur[t]] = s]
  BY DEF SetConnection
<1> HIDE DEF s
<1>3. /\ conn' \in Seq(ConnRec) /\ Len(conn') = Len(conn)
      /\ \A d \in Conn : d # cur[t] => conn'[d] = conn[d]
      /\ conn'[cur[t]] = s
  BY <1>1, <1>2, Update
<1> QED BY <1>3 DEF s, Sets

(* The same where ignore_slots is left alone.                              *)
LEMMA SetSlotSets ==
    ASSUME conn \in Seq(ConnRec), NEW t \in Threads, cur[t] \in Conn,
           NEW slot \in Exchanges \cup {None}, NEW b \in BOOLEAN,
           SetSlot(t, slot, b)
    PROVE  Sets(cur[t], slot, b, conn[cur[t]].ignore_slots)
<1>1. conn[cur[t]] \in ConnRec
  BY ElementOfSeq, LenProperties DEF Conn
<1>2. conn[cur[t]].ignore_slots \in 0..Ignored
  BY <1>1 DEF ConnRec
<1> QED BY <1>2, SetConnectionSets DEF SetSlot

(* Where the thread is, and what it works on. *)
LEMMA Place ==
    ASSUME SInv, NEW t \in Threads, pc[t] # "idle"
    PROVE  /\ key[t] \in Keys /\ ssl[key[t]] \in Conn \ freed
           /\ ssl[key[t]] # None
           /\ pc[t] \in Looked =>
                 /\ cur[t] = ssl[key[t]]
                 /\ conn[cur[t]] \in ConnRec
                 /\ pc[t] \in Logging => Slot(t) # None
           /\ pc[t] \in {"request", "test", "reply", "append"} => chunk[t] \in Chunks
           /\ chunk[t] \in Chunks \cup {None}
<1>1. key[t] \in Keys /\ ssl[key[t]] # None /\ ssl[key[t]] \in Conn \ freed
  BY DEF SInv, Hooks, Maps
<1>2. chunk[t] \in Chunks \cup {None}
  BY DEF SInv, TypeOK
<1>3. pc[t] \in {"request", "test", "reply", "append"} => chunk[t] \in Chunks
  BY <1>2 DEF SInv, Hooks
<1>4. ASSUME pc[t] \in Looked
      PROVE  /\ cur[t] = ssl[key[t]] /\ conn[cur[t]] \in ConnRec
             /\ pc[t] \in Logging => Slot(t) # None
  <2>1. cur[t] = ssl[key[t]]
    BY <1>4 DEF SInv, Hooks
  <2>2. conn[cur[t]] \in ConnRec
    BY <2>1, <1>1, Typed DEF SInv, Conn
  <2> QED BY <2>1, <2>2 DEF SInv, Slots, Slot
<1> QED BY <1>1, <1>2, <1>3, <1>4

(* A hook that has put an exchange into the slot returns.                  *)
LEMMA QuietReturn ==
    ASSUME SInv, NEW t \in Threads, pc[t] \in Looked, chunk[t] # None,
           pc' = [pc EXCEPT ![t] = "idle"],
           UNCHANGED <<ssl, connections, key, chunk, cur, history, logged,
                       initialized, ready>>,
           NEW slot \in Exchanges, NEW b, NEW i, Sets(cur[t], slot, b, i)
    PROVE  Quiet(t, "idle")
<1>1. ready' \in {ready, TRUE}
  BY Zenon
<1>2. conn'[cur[t]].slot # None
  BY Constants DEF Sets
<1>3. "idle" \notin Logging
  BY DEF Logging
<1> QED BY <1>1, <1>2, <1>3, Zenon DEF Quiet, Sets, SInv, TypeOK

(* A request goes on (logpoint.c:172-182).                                 *)
LEMMA AppendRequestIs ==
    ASSUME SInv, NEW t \in Threads, AppendRequest(t)
    PROVE  /\ Quiet(t, "idle")
           /\ pc[t] = "test" /\ conn[cur[t]].log_request /\ Slot(t) # None
           /\ Sets(cur[t], [req |-> Append(Slot(t).req, chunk[t]),
                            rep |-> Slot(t).rep],
                   TRUE, conn[cur[t]].ignore_slots)
           /\ logged' = logged
<1>1. /\ pc[t] = "test" /\ conn[cur[t]].log_request
      /\ SetSlot(t, [Slot(t) EXCEPT !.req = Append(@, chunk[t])], TRUE)
      /\ pc' = [pc EXCEPT ![t] = "idle"]
      /\ UNCHANGED <<ssl, connections, key, chunk, cur, history, logged, initialized, ready>>
  BY DEF AppendRequest, Return, Goto
<1>2. /\ cur[t] \in Conn \ freed /\ conn[cur[t]] \in ConnRec
      /\ chunk[t] \in Chunks /\ chunk[t] # None
  BY <1>1, Place, Constants DEF Looked
<1>3. Slot(t) # None
  BY <1>1, <1>2, Zenon DEF SInv, Slots, Slot
<1>4. Slot(t) \in Exchanges
  BY <1>2, <1>3 DEF Slot, ConnRec
<1> DEFINE x == [req |-> Append(Slot(t).req, chunk[t]), rep |-> Slot(t).rep]
<1>5. x \in Exchanges /\ SetSlot(t, x, TRUE)
  BY <1>1, <1>2, <1>4, Collect
<1>6. Sets(cur[t], x, TRUE, conn[cur[t]].ignore_slots)
  BY <1>2, <1>5, SetSlotSets, Typed DEF SInv
<1>7. Quiet(t, "idle")
  BY <1>1, <1>2, <1>5, <1>6, QuietReturn DEF Looked
<1> QED BY <1>1, <1>3, <1>6, <1>7

(* The first request of a connection gets its slot (logpoint.c:160-182).   *)
LEMMA FirstRequestIs ==
    ASSUME SInv, NEW t \in Threads, FirstRequest(t)
    PROVE  /\ Quiet(t, "idle")
           /\ pc[t] = "test" /\ ~conn[cur[t]].log_request /\ Slot(t) = None
           /\ Sets(cur[t], [req |-> <<chunk[t]>>, rep |-> <<>>],
                   TRUE, conn[cur[t]].ignore_slots)
           /\ logged' = logged
<1>1. /\ pc[t] = "test" /\ ~conn[cur[t]].log_request /\ Slot(t) = None
      /\ SetSlot(t, [EmptySlot EXCEPT !.req = <<chunk[t]>>], TRUE)
      /\ pc' = [pc EXCEPT ![t] = "idle"]
      /\ UNCHANGED <<ssl, connections, key, chunk, cur, history, logged,
                     initialized, ready>>
  BY DEF FirstRequest, Return, Goto
<1>2. /\ cur[t] \in Conn \ freed /\ chunk[t] \in Chunks /\ chunk[t] # None
  BY <1>1, Place, Constants DEF Looked
<1> DEFINE x == [req |-> <<chunk[t]>>, rep |-> <<>>]
<1>3. x \in Exchanges /\ SetSlot(t, x, TRUE)
  BY <1>1, <1>2, FirstChunk
<1>4. Sets(cur[t], x, TRUE, conn[cur[t]].ignore_slots)
  BY <1>2, <1>3, SetSlotSets, Typed DEF SInv
<1>5. Quiet(t, "idle")
  BY <1>1, <1>2, <1>3, <1>4, QuietReturn DEF Looked
<1> QED BY <1>1, <1>4, <1>5

(* A complete slot is thrown away, one fewer is to be ignored              *)
(* (logpoint.c:161-171).                                                   *)
LEMMA IgnoreSlotIs ==
    ASSUME SInv, NEW t \in Threads, IgnoreSlot(t)
    PROVE  /\ Quiet(t, "idle")
           /\ pc[t] = "test" /\ ~conn[cur[t]].log_request /\ Slot(t) # None
           /\ conn[cur[t]].ignore_slots > 0
           /\ Sets(cur[t], [req |-> <<chunk[t]>>, rep |-> <<>>],
                   TRUE, conn[cur[t]].ignore_slots - 1)
           /\ logged' = logged
<1>1. /\ pc[t] = "test" /\ ~conn[cur[t]].log_request /\ Slot(t) # None
      /\ conn[cur[t]].ignore_slots > 0
      /\ SetConnection(t, [EmptySlot EXCEPT !.req = <<chunk[t]>>], TRUE,
                       conn[cur[t]].ignore_slots - 1)
      /\ pc' = [pc EXCEPT ![t] = "idle"]
      /\ UNCHANGED <<ssl, connections, key, chunk, cur, history, logged,
                     initialized, ready>>
  BY DEF IgnoreSlot, DropSlot, Return, Goto
<1>2. /\ cur[t] \in Conn \ freed /\ chunk[t] \in Chunks /\ chunk[t] # None
      /\ conn[cur[t]] \in ConnRec
  BY <1>1, Place, Constants DEF Looked
<1> DEFINE x == [req |-> <<chunk[t]>>, rep |-> <<>>]
           i == conn[cur[t]].ignore_slots - 1
<1>3. x \in Exchanges /\ SetConnection(t, x, TRUE, i)
  BY <1>1, <1>2, FirstChunk
<1>4. conn[cur[t]].ignore_slots \in 0..Ignored
  BY <1>2 DEF ConnRec
<1>5. i \in 0..Ignored
  BY <1>1, <1>4, Constants
<1> HIDE DEF x, i
<1>6. Sets(cur[t], x, TRUE, i)
  BY <1>2, <1>3, <1>5, SetConnectionSets, Typed DEF SInv
<1>7. Quiet(t, "idle")
  BY <1>1, <1>2, <1>3, <1>6, QuietReturn DEF Looked
<1> QED BY <1>1, <1>6, <1>7 DEF x, i

(* A slot that has been logged is replaced (logpoint.c:167-182).           *)
LEMMA RenewSlotIs ==
    ASSUME SInv, NEW t \in Threads, RenewSlot(t)
    PROVE  /\ Quiet(t, "idle")
           /\ pc[t] = "renew" /\ chunk[t] # None
           /\ Sets(cur[t], [req |-> <<chunk[t]>>, rep |-> <<>>],
                   TRUE, conn[cur[t]].ignore_slots)
           /\ logged' = logged
<1>1. /\ pc[t] = "renew" /\ chunk[t] # None
      /\ SetSlot(t, [EmptySlot EXCEPT !.req = <<chunk[t]>>], TRUE)
      /\ pc' = [pc EXCEPT ![t] = "idle"]
      /\ UNCHANGED <<ssl, connections, key, chunk, cur, history, logged,
                     initialized, ready>>
  BY DEF RenewSlot, Renew, Return, Goto
<1>2. /\ cur[t] \in Conn \ freed /\ chunk[t] \in Chunks
  BY <1>1, Place DEF Looked
<1> DEFINE x == [req |-> <<chunk[t]>>, rep |-> <<>>]
<1>3. x \in Exchanges /\ SetSlot(t, x, TRUE)
  BY <1>1, <1>2, FirstChunk
<1>4. Sets(cur[t], x, TRUE, conn[cur[t]].ignore_slots)
  BY <1>2, <1>3, SetSlotSets, Typed DEF SInv
<1>5. Quiet(t, "idle")
  BY <1>1, <1>2, <1>3, <1>4, QuietReturn DEF Looked
<1> QED BY <1>1, <1>4, <1>5

(* A part of a reply is collected (logpoint.c:214-221).                    *)
LEMMA AppendReplyIs ==
    ASSUME SInv, NEW t \in Threads, AppendReply(t)
    PROVE  /\ Quiet(t, "idle")
           /\ pc[t] = "append" /\ Slot(t) # None
           /\ Sets(cur[t], [req |-> Slot(t).req,
                            rep |-> Append(Slot(t).rep, chunk[t])],
                   FALSE, conn[cur[t]].ignore_slots)
           /\ logged' = logged
<1>1. /\ pc[t] = "append" /\ Slot(t) # None
      /\ SetSlot(t, [Slot(t) EXCEPT !.rep = Append(@, chunk[t])], FALSE)
      /\ pc' = [pc EXCEPT ![t] = "idle"]
      /\ UNCHANGED <<ssl, connections, key, chunk, cur, history, logged,
                     initialized, ready>>
  BY DEF AppendReply, AddReply, Return, Goto
<1>2. /\ cur[t] \in Conn \ freed /\ conn[cur[t]] \in ConnRec
      /\ chunk[t] \in Chunks /\ chunk[t] # None
  BY <1>1, Place, Constants DEF Looked
<1>3. Slot(t) \in Exchanges
  BY <1>1, <1>2 DEF Slot, ConnRec
<1> DEFINE x == [req |-> Slot(t).req, rep |-> Append(Slot(t).rep, chunk[t])]
<1>4. x \in Exchanges /\ SetSlot(t, x, FALSE)
  BY <1>1, <1>2, <1>3, Collect
<1>5. Sets(cur[t], x, FALSE, conn[cur[t]].ignore_slots)
  BY <1>2, <1>4, SetSlotSets, Typed DEF SInv
<1>6. Quiet(t, "idle")
  BY <1>1, <1>2, <1>4, <1>5, QuietReturn DEF Looked
<1> QED BY <1>1, <1>5, <1>6

(* The other steps of a hook that only move it on. *)
Passes(t, l) ==
    /\ pc[t] \in Looked
    /\ pc' = [pc EXCEPT ![t] = l]
    /\ conn' = conn /\ UNCHANGED <<ssl, connections, key, chunk, cur, history>>

(* A hook that only moves on leaves the structure alone.                   *)
LEMMA QuietPass ==
    ASSUME SInv, NEW t \in Threads, NEW l \in {"idle", "renew"} \cup Logging,
           Passes(t, l), l = "idle" => chunk[t] # None,
           l \in Logging => Slot(t) # None,
           logged' \in Seq(Seq(Exchanges)), Len(logged') = Len(logged),
           initialized' \in Int, ready' \in {ready, TRUE}
    PROVE  Quiet(t, l)
  BY Typed, Zenon DEF Quiet, Passes, SInv, Slot

(* The steps to the log and through the barrier (logpoint.c:104-122)       *)
(* change no slot.                                                         *)
LEMMA MovesAre ==
    ASSUME SInv, NEW t \in Threads
    PROVE  /\ FlushSlot(t) => /\ Quiet(t, "entry") /\ Passes(t, "entry")
                              /\ pc[t] = "test" /\ ~conn[cur[t]].log_request
                              /\ Slot(t) # None
                              /\ conn[cur[t]].ignore_slots = 0
                              /\ logged' = logged
           /\ DropReply(t) => /\ Quiet(t, "idle") /\ Passes(t, "idle")
                              /\ pc[t] = "append" /\ Slot(t) = None
                              /\ logged' = logged
           /\ Enter(t) \/ FinishInit(t) \/ StopSpinning(t) =>
                 /\ pc[t] \in Logging /\ logged' = logged
                 /\ \E l \in Logging : Quiet(t, l) /\ Passes(t, l)
           /\ FlushLastSlot(t) => /\ Quiet(t, "entry") /\ Passes(t, "entry")
                                  /\ pc[t] = "closing" /\ Slot(t) # None
                                  /\ conn[cur[t]].ignore_slots = 0
                                  /\ logged' = logged
<1>0. /\ initialized \in Int
      /\ logged \in Seq(Seq(Exchanges))
  BY DEF SInv, TypeOK
<1>1. ASSUME FlushSlot(t)
      PROVE  /\ Quiet(t, "entry") /\ Passes(t, "entry")
             /\ pc[t] = "test" /\ ~conn[cur[t]].log_request
             /\ Slot(t) # None
             /\ conn[cur[t]].ignore_slots = 0
             /\ logged' = logged
  <2>1. /\ pc[t] = "test" /\ ~conn[cur[t]].log_request /\ Slot(t) # None
        /\ conn[cur[t]].ignore_slots = 0
        /\ Passes(t, "entry") /\ UNCHANGED <<logged, initialized, ready>>
    BY <1>1 DEF FlushSlot, Passes, Goto, Looked, history
  <2>2. ready' \in {ready, TRUE}
    BY <2>1, Zenon
  <2> QED BY <2>1, <2>2, <1>0, QuietPass DEF Logging
<1>2. ASSUME DropReply(t)
      PROVE  /\ Quiet(t, "idle") /\ Passes(t, "idle")
             /\ pc[t] = "append" /\ Slot(t) = None
             /\ logged' = logged
  <2>1. /\ pc[t] = "append" /\ Slot(t) = None
        /\ Passes(t, "idle") /\ UNCHANGED <<logged, initialized, ready>>
    BY <1>2 DEF DropReply, Passes, Goto, Return, Looked, history
  <2>2. ready' \in {ready, TRUE}
    BY <2>1, Zenon
  <2>3. chunk[t] # None
    BY <2>1, Place, Constants
  <2> QED BY <2>1, <2>2, <2>3, <1>0, QuietPass DEF Logging
<1>3. ASSUME Enter(t) \/ FinishInit(t) \/ StopSpinning(t)
      PROVE  /\ pc[t] \in Logging /\ logged' = logged
             /\ \E l \in Logging : Quiet(t, l) /\ Passes(t, l)
  <2>1. /\ pc[t] \in Logging
        /\ \E l \in Logging : Passes(t, l)
        /\ logged' = logged /\ initialized' \in Int
    BY <1>3, <1>0 DEF Enter, Arrive, FinishInit, StopSpinning, LeaveBarrier,
                      Passes, Goto, Looked, Logging, history
  <2>2. ready' \in {ready, TRUE}
    BY <1>3, Zenon DEF Enter, Arrive, FinishInit, StopSpinning, LeaveBarrier
  <2>3. Slot(t) # None
    BY <2>1, Place DEF Logging, Looked
  <2>4. PICK l \in Logging : Passes(t, l)
    BY <2>1
  <2>5. l # "idle"
    BY DEF Logging
  <2>6. Quiet(t, l)
    BY <2>1, <2>2, <2>3, <2>4, <2>5, <1>0, QuietPass
  <2> QED BY <2>1, <2>4, <2>6
<1>4. ASSUME FlushLastSlot(t)
      PROVE  /\ Quiet(t, "entry") /\ Passes(t, "entry")
             /\ pc[t] = "closing" /\ Slot(t) # None
             /\ conn[cur[t]].ignore_slots = 0
             /\ logged' = logged
  <2>1. /\ pc[t] = "closing" /\ Slot(t) # None
        /\ conn[cur[t]].ignore_slots = 0
        /\ Passes(t, "entry") /\ UNCHANGED <<logged, initialized, ready>>
    BY <1>4 DEF FlushLastSlot, LeaveClosing, LastSlotLogged, Passes, Goto,
                Looked, history
  <2>2. ready' \in {ready, TRUE}
    BY <2>1, Zenon
  <2> QED BY <2>1, <2>2, <1>0, QuietPass DEF Logging
<1> QED BY <1>1, <1>2, <1>3, <1>4

(* logpoint_log takes the slot (logpoint.c:125).                           *)
LEMMA LogEntryIs ==
    ASSUME SInv, NEW t \in Threads, LogEntry(t)
    PROVE  /\ Quiet(t, "renew") /\ Passes(t, "renew")
           /\ pc[t] = "log" /\ Slot(t) \in Exchanges
           /\ logged'[cur[t]] = Append(logged[cur[t]], Slot(t))
           /\ \A c \in Conn : c # cur[t] => logged'[c] = logged[c]
<1>1. /\ pc[t] = "log" /\ Passes(t, "renew")
      /\ logged' = [logged EXCEPT ![cur[t]] = Append(@, Slot(t))]
      /\ initialized' = initialized
  BY DEF LogEntry, Passes, Goto, Looked, history
<1>2. ready' \in {ready, TRUE}
  BY Zenon DEF LogEntry
<1>3. /\ cur[t] \in Conn /\ Slot(t) \in Exchanges
  BY <1>1, Place DEF Looked, Logging, ConnRec, Slot
<1>4. /\ Conn = 1..Len(logged) /\ logged \in Seq(Seq(Exchanges))
      /\ logged[cur[t]] \in Seq(Exchanges)
  BY <1>3, Typed DEF SInv, Lengths, Conn
<1> DEFINE x == Append(logged[cur[t]], Slot(t))
<1>5. x \in Seq(Exchanges)
  BY <1>3, <1>4
<1> HIDE DEF x
<1>6. logged' = [logged EXCEPT ![cur[t]] = x]
  BY <1>1 DEF x
<1>7. /\ logged' \in Seq(Seq(Exchanges)) /\ Len(logged') = Len(logged)
      /\ logged'[cur[t]] = x
      /\ \A c \in Conn : c # cur[t] => logged'[c] = logged[c]
  <2>1. /\ [logged EXCEPT ![cur[t]] = x] \in Seq(Seq(Exchanges))
        /\ Len([logged EXCEPT ![cur[t]] = x]) = Len(logged)
        /\ \A c \in 1..Len(logged) :
              [logged EXCEPT ![cur[t]] = x][c] =
                  IF c = cur[t] THEN x ELSE logged[c]
    BY <1>3, <1>4, <1>5, ExceptSeq
  <2> QED BY <2>1, <1>3, <1>4, <1>6
<1>8. initialized' \in Int
  BY <1>1 DEF SInv, TypeOK
<1>9. Quiet(t, "renew")
  BY <1>1, <1>2, <1>7, <1>8, QuietPass DEF Logging
<1> QED BY <1>1, <1>3, <1>7, <1>9 DEF x

-----------------------------------------------------------------------------

(* retrieve_log_connection always finds the connection (logpoint.c:84-89): *)
(* its SSL object cannot have been freed.                                  *)
LEMMA LookupIs ==
    ASSUME SInv, NEW t \in Threads, Lookup(t)
    PROVE  \E l \in {"test", "append"} :
              /\ IF l = "test" THEN pc[t] = "request" ELSE pc[t] = "reply"
              /\ pc' = [pc EXCEPT ![t] = l]
              /\ cur' = [cur EXCEPT ![t] = ssl[key[t]]]
              /\ UNCHANGED <<ssl, connections, conn, key, chunk, initialized,
                             ready, logged, history>>
<1>1. /\ pc[t] \in {"request", "reply"}
      /\ connections[key[t]] = ssl[key[t]] /\ ssl[key[t]] # None
  BY DEF Lookup, SInv, Hooks
<1>2. CASE pc[t] = "request"
  BY <1>1, <1>2 DEF Lookup, Goto
<1>3. CASE pc[t] = "reply"
  BY <1>1, <1>3 DEF Lookup, Goto
<1> QED BY <1>1, <1>2, <1>3

(* retrieve_log_connection preserves the structure.                        *)
LEMMA LookupKeeps ==
    ASSUME SInv, NEW t \in Threads, Lookup(t)
    PROVE  SInv'
<1> USE DEF SInv
<1>1. PICK l \in {"test", "append"} :
          /\ pc[t] \in {"request", "reply"}
          /\ pc' = [pc EXCEPT ![t] = l]
          /\ cur' = [cur EXCEPT ![t] = ssl[key[t]]]
          /\ UNCHANGED <<ssl, connections, conn, key, chunk, initialized,
                         ready, logged, wire, mixed, freed>>
  BY LookupIs DEF history
<1>2. /\ pc'[t] = l /\ cur'[t] = ssl[key[t]] /\ pc[t] # "idle"
      /\ \A u \in Threads : u # t => pc'[u] = pc[u] /\ cur'[u] = cur[u]
  BY <1>1 DEF TypeOK
<1>3. key[t] \in Keys /\ ssl[key[t]] \in Conns
  BY <1>2, Place, Typed DEF TypeOK
<1>4. TypeOK'
  <2>1. ready' \in BOOLEAN
    BY <1>1, Zenon DEF TypeOK
  <2>2. pc' \in [Threads -> {"idle"} \cup RequestHooks \cup ReplyHooks
                                \cup CloseHooks]
    BY <1>1 DEF TypeOK, RequestHooks, ReplyHooks
  <2>3. cur' \in [Threads -> Conns \cup {None}]
    BY <1>1, <1>3 DEF TypeOK
  <2>4. TypeOK
    OBVIOUS
  <2> QED BY <1>1, <2>1, <2>2, <2>3, <2>4, Zenon DEF TypeOK
<1>5. Lengths' /\ Maps' /\ Slots'
  BY <1>1, <1>2 DEF Lengths, Maps, Conn, Slots, Logging
<1>6. Hooks'
  BY <1>1, <1>2 DEF Hooks, Looked, CloseHooks
<1>7. Alone'
  BY <1>1, <1>2 DEF Alone
<1>8. Unmapped'
  BY <1>1, <1>2 DEF Unmapped
<1> QED BY <1>4, <1>5, <1>6, <1>7, <1>8

(* log_free_connection always finds the connection (logpoint.c:264-273).   *)
LEMMA RemoveIs ==
    ASSUME SInv, NEW t \in Threads, Remove(t)
    PROVE  /\ pc[t] = "close"
           /\ pc' = [pc EXCEPT ![t] = "closing"]
           /\ cur' = [cur EXCEPT ![t] = ssl[key[t]]]
           /\ connections' = [connections EXCEPT ![key[t]] = None]
           /\ UNCHANGED <<ssl, conn, key, chunk, initialized, ready, logged,
                          history>>
<1>1. /\ pc[t] = "close" /\ connections[key[t]] = ssl[key[t]]
      /\ ssl[key[t]] # None
  BY DEF Remove, SInv, Hooks
<1> QED BY <1>1 DEF Remove, Goto

(* log_free_connection is alone on the connection it takes out of the map. *)
LEMMA RemoveKeeps ==
    ASSUME SInv, NEW t \in Threads, Remove(t)
    PROVE  SInv'
<1> USE DEF SInv
<1>1. /\ pc[t] = "close" /\ pc' = [pc EXCEPT ![t] = "closing"]
      /\ cur' = [cur EXCEPT ![t] = ssl[key[t]]]
      /\ connections' = [connections EXCEPT ![key[t]] = None]
      /\ UNCHANGED <<ssl, conn, key, chunk, initialized, ready, logged,
                     wire, mixed, freed>>
  BY RemoveIs DEF history
<1>2. /\ pc'[t] = "closing" /\ cur'[t] = ssl[key[t]] /\ pc[t] # "idle"
      /\ \A u \in Threads : u # t => pc'[u] = pc[u] /\ cur'[u] = cur[u]
  BY <1>1 DEF TypeOK
<1>3. /\ key[t] \in Keys /\ ssl[key[t]] \in Conns /\ chunk[t] = None
  BY <1>1, <1>2, Place DEF TypeOK, Hooks, CloseHooks
<1>4. /\ connections'[key[t]] = None
      /\ \A k \in Keys : k # key[t] => connections'[k] = connections[k]
  BY <1>1, <1>3 DEF TypeOK
<1>5. TypeOK'
  <2>1. ready' \in BOOLEAN
    BY <1>1, Zenon DEF TypeOK
  <2>2. pc' \in [Threads -> {"idle"} \cup RequestHooks \cup ReplyHooks
                                \cup CloseHooks]
    BY <1>1 DEF TypeOK, CloseHooks
  <2>3. /\ cur' \in [Threads -> Conns \cup {None}]
        /\ connections' \in [Keys -> Conns \cup {None}]
    BY <1>1, <1>3 DEF TypeOK
  <2>4. TypeOK
    OBVIOUS
  <2> QED BY <1>1, <2>1, <2>2, <2>3, <2>4, Zenon DEF TypeOK
<1>6. Lengths' /\ Slots'
  BY <1>1, <1>2 DEF Lengths, Conn, Slots, Logging
<1>7. Maps'
  BY <1>1, <1>4 DEF Maps, Conn
<1>8. \A u \in Threads : u # t /\ pc[u] # "idle" => key[u] # key[t]
  BY <1>2, <1>3 DEF Alone
<1>9. Hooks'
  BY <1>1, <1>2, <1>3, <1>4, <1>8 DEF Hooks, Looked, CloseHooks
<1>10. Alone'
  BY <1>1, <1>2 DEF Alone
<1>11. Unmapped'
  BY <1>1, <1>2, <1>3, <1>4 DEF Unmapped
<1> QED BY <1>5, <1>6, <1>7, <1>9, <1>10, <1>11

(* The end of log_free_connection. *)
LEMMA FreeIs ==
    ASSUME SInv, NEW t \in Threads, FreeUnlogged(t) \/ FreeLogged(t)
    PROVE  /\ pc[t] \in {"closing", "renew"} /\ chunk[t] = None
           /\ pc[t] = "closing" => ~LastSlotLogged(t)
           /\ pc' = [pc EXCEPT ![t] = "idle"]
           /\ ssl' = [ssl EXCEPT ![key[t]] = None]
           /\ freed' = freed \cup {cur[t]}
           /\ conn' \in Seq(ConnRec) /\ Len(conn') = Len(conn)
           /\ \A d \in Conn : d # cur[t] => conn'[d] = conn[d]
           /\ conn'[cur[t]].ignore_slots = conn[cur[t]].ignore_slots
           /\ UNCHANGED <<connections, key, chunk, cur, initialized, ready,
                          logged, wire, mixed>>
<1>1. /\ pc[t] \in {"closing", "renew"} /\ chunk[t] = None
      /\ pc[t] = "closing" => ~LastSlotLogged(t)
      /\ SetSlot(t, None, conn[cur[t]].log_request)
      /\ pc' = [pc EXCEPT ![t] = "idle"]
      /\ ssl' = [ssl EXCEPT ![key[t]] = None]
      /\ freed' = freed \cup {cur[t]}
      /\ UNCHANGED <<connections, key, chunk, cur, initialized, ready,
                     logged, wire, mixed>>
  BY DEF FreeUnlogged, FreeLogged, Free, Return, Goto, SInv, Hooks, CloseHooks
<1>2. cur[t] \in Conn /\ conn[cur[t]] \in ConnRec
  BY <1>1, Place DEF Looked
<1>3. conn[cur[t]].log_request \in BOOLEAN
  BY <1>2, Zenon DEF ConnRec
<1>4. Sets(cur[t], None, conn[cur[t]].log_request, conn[cur[t]].ignore_slots)
  BY <1>1, <1>2, <1>3, SetSlotSets, Typed DEF SInv
<1> QED BY <1>1, <1>4 DEF Sets

(* Freeing a log_connection leaves no hook that would use it.              *)
LEMMA FreeKeeps ==
    ASSUME SInv, NEW t \in Threads, FreeUnlogged(t) \/ FreeLogged(t)
    PROVE  SInv'
<1> USE DEF SInv
<1>1. /\ pc[t] \in {"closing", "renew"} /\ chunk[t] = None
      /\ pc' = [pc EXCEPT ![t] = "idle"]
      /\ ssl' = [ssl EXCEPT ![key[t]] = None]
      /\ freed' = freed \cup {cur[t]}
      /\ conn' \in Seq(ConnRec) /\ Len(conn') = Len(conn)
      /\ \A d \in Conn : d # cur[t] => conn'[d] = conn[d]
      /\ UNCHANGED <<connections, key, chunk, cur, initialized, ready,
                     logged, wire, mixed>>
  BY FreeIs
<1>2. /\ pc'[t] = "idle" /\ pc[t] # "idle"
      /\ \A u \in Threads : u # t => pc'[u] = pc[u]
      /\ cur[t] = ssl[key[t]] /\ cur[t] \in Conn
      /\ key[t] \in Keys
  BY <1>1, Place DEF TypeOK, Looked
<1>3. /\ ssl'[key[t]] = None
      /\ \A k \in Keys : k # key[t] => ssl'[k] = ssl[k]
  BY <1>1, <1>2 DEF TypeOK
<1>4. \A u \in Threads : u # t /\ pc[u] # "idle" => key[u] # key[t]
  BY <1>1, <1>2 DEF Alone
<1>5. Conn' = Conn
  BY <1>1, LenProperties, Typed DEF Conn
<1>6. connections[key[t]] = None
  BY <1>1 DEF Hooks, Looked
<1>7. TypeOK'
  <2>1. ready' \in BOOLEAN
    BY <1>1, Zenon DEF TypeOK
  <2>2. /\ pc' \in [Threads -> {"idle"} \cup RequestHooks \cup ReplyHooks
                                \cup CloseHooks]
        /\ ssl' \in [Keys -> Conns \cup {None}]
    BY <1>1 DEF TypeOK
  <2>4. cur[t] \in Conns
    BY <1>1, <1>2, Place DEF TypeOK
  <2>5. freed' \subseteq Conns
    BY <1>1, <2>4 DEF TypeOK
  <2>3. TypeOK
    OBVIOUS
  <2> QED BY <1>1, <2>1, <2>2, <2>3, <2>5, Zenon DEF TypeOK, ConnRec
<1>8. Lengths'
  BY <1>1, <1>2, <1>5 DEF Lengths
<1>9. Maps'
  BY <1>1, <1>2, <1>3, <1>5, <1>6 DEF Maps
<1>10. Hooks'
  BY <1>1, <1>2, <1>3, <1>4 DEF Hooks
<1>11. Alone'
  BY <1>1, <1>2, <1>3, <1>4 DEF Alone, Hooks
<1>12. Unmapped'
  BY <1>1, <1>2, <1>3, <1>4 DEF Unmapped
<1>13. Slots'
  <2>1. \A u \in Threads : pc'[u] \in Logging => cur[u] \in Conn /\ cur[u] # cur[t]
    BY <1>2, <1>4 DEF Hooks, Logging, Looked, Maps
  <2>2. \A c \in Conn \ freed' : conn'[c] = conn[c] /\ c \in Conn \ freed
    BY <1>1
  <2>3. \A u \in Threads : pc'[u] \in Logging => u # t
    BY <1>2 DEF Logging
  <2>4. \A u \in Threads : pc'[u] \in Logging => conn'[cur'[u]].slot # None
    BY <1>1, <1>2, <2>1, <2>3 DEF Slots
  <2>5. \A c \in Conn \ freed' : conn'[c].log_request => conn'[c].slot # None
    BY <2>2, Zenon DEF Slots
  <2> QED BY <1>5, <2>4, <2>5, Zenon DEF Slots
<1> QED BY <1>7, <1>8, <1>9, <1>10, <1>11, <1>12, <1>13

-----------------------------------------------------------------------------

(* log_new_connection adds a connection without a slot                     *)
(* (logpoint.c:241-262).                                                   *)
LEMMA NewConnectionIs ==
    ASSUME SInv, NEW k \in Keys, NewConnection(k)
    PROVE  /\ ssl[k] = None
           /\ Len(conn) + 1 \in Conns
           /\ Conn' = Conn \cup {Len(conn) + 1} /\ Len(conn) + 1 \notin Conn
           /\ \A c \in Conn : /\ conn'[c] = conn[c] /\ wire'[c] = wire[c]
                              /\ logged'[c] = logged[c]
           /\ conn'[Len(conn) + 1] = [log_request |-> FALSE,
                                      ignore_slots |-> Ignored, slot |-> None]
           /\ wire'[Len(conn) + 1] = <<>> /\ logged'[Len(conn) + 1] = <<>>
           /\ Len(conn') = Len(conn) + 1 /\ Len(wire') = Len(wire) + 1
           /\ Len(logged') = Len(logged) + 1
           /\ conn' \in Seq(ConnRec) /\ wire' \in Seq(Seq(Exchanges))
           /\ logged' \in Seq(Seq(Exchanges))
           /\ ssl' = [ssl EXCEPT ![k] = Len(conn) + 1]
           /\ connections' = [connections EXCEPT ![k] = Len(conn) + 1]
           /\ UNCHANGED <<hookVars, initialized, ready, mixed, freed>>
<1> DEFINE s == [log_request |-> FALSE, ignore_slots |-> Ignored, slot |-> None]
<1>1. /\ ssl[k] = None /\ Len(conn) < MaxConns
      /\ conn' = Append(conn, s)
      /\ wire' = Append(wire, <<>>) /\ logged' = Append(logged, <<>>)
      /\ ssl' = [ssl EXCEPT ![k] = Len(conn) + 1]
      /\ connections' = [connections EXCEPT ![k] = Len(conn) + 1]
      /\ UNCHANGED <<hookVars, initialized, ready, mixed, freed>>
  BY DEF NewConnection
<1>2. s \in ConnRec /\ <<>> \in Seq(Exchanges)
  BY Constants, EmptySeq DEF ConnRec
<1> HIDE DEF s
<1>3. /\ conn \in Seq(ConnRec) /\ wire \in Seq(Seq(Exchanges))
      /\ logged \in Seq(Seq(Exchanges))
      /\ Len(conn) \in Nat /\ Len(wire) = Len(conn) /\ Len(logged) = Len(conn)
      /\ Conn = 1..Len(conn)
  BY Typed DEF SInv, Lengths, Conn
<1>4. /\ conn' \in Seq(ConnRec) /\ wire' \in Seq(Seq(Exchanges))
      /\ logged' \in Seq(Seq(Exchanges))
      /\ Len(conn') = Len(conn) + 1 /\ Len(wire') = Len(wire) + 1
      /\ Len(logged') = Len(logged) + 1
      /\ \A c \in Conn : /\ conn'[c] = conn[c] /\ wire'[c] = wire[c]
                         /\ logged'[c] = logged[c]
      /\ conn'[Len(conn) + 1] = s
      /\ wire'[Len(conn) + 1] = <<>> /\ logged'[Len(conn) + 1] = <<>>
  BY <1>1, <1>2, <1>3, AppendProperties
<1>5. Conn' = 1..(Len(conn) + 1)
  BY <1>4, LenProperties DEF Conn
<1>6. Len(conn) + 1 \in Conns
  BY <1>1, <1>3, Constants DEF Conns
<1> QED BY <1>1, <1>3, <1>4, <1>5, <1>6 DEF s

(* log_new_connection, on a new or reused SSL address, disturbs no other   *)
(* connection.                                                             *)
LEMMA NewConnectionKeeps ==
    ASSUME SInv, NEW k \in Keys, NewConnection(k)
    PROVE  SInv'
<1> USE DEF SInv
<1> DEFINE n == Len(conn) + 1
<1>1. /\ ssl[k] = None /\ n \in Conns
      /\ Conn' = Conn \cup {n} /\ n \notin Conn
      /\ \A c \in Conn : conn'[c] = conn[c] /\ wire'[c] = wire[c]
      /\ conn'[n] = [log_request |-> FALSE, ignore_slots |-> Ignored, slot |-> None]
      /\ wire'[n] = <<>>
      /\ Len(conn') = Len(conn) + 1 /\ Len(wire') = Len(wire) + 1
      /\ Len(logged') = Len(logged) + 1
      /\ conn' \in Seq(ConnRec) /\ wire' \in Seq(Seq(Exchanges))
      /\ logged' \in Seq(Seq(Exchanges))
      /\ ssl' = [ssl EXCEPT ![k] = n]
      /\ connections' = [connections EXCEPT ![k] = n]
      /\ UNCHANGED <<pc, key, chunk, cur, initialized, ready, mixed, freed>>
  BY NewConnectionIs DEF hookVars
<1> HIDE DEF n
<1>2. /\ ssl'[k] = n /\ connections'[k] = n /\ n # None
      /\ \A l \in Keys : l # k => ssl'[l] = ssl[l] /\ connections'[l] = connections[l]
  BY <1>1, Constants DEF TypeOK
<1>3. TypeOK'
  <2>1. ready' \in BOOLEAN
    BY <1>1, Zenon DEF TypeOK
  <2>2. /\ ssl' \in [Keys -> Conns \cup {None}]
        /\ connections' \in [Keys -> Conns \cup {None}]
    BY <1>1 DEF TypeOK
  <2>3. TypeOK
    OBVIOUS
  <2> QED BY <1>1, <2>1, <2>2, <2>3, Zenon DEF TypeOK, ConnRec
<1>4. Lengths'
  <2>1. Len(conn') =< MaxConns
    BY <1>1 DEF n, Conns
  <2>2. ASSUME NEW c \in Conn'
        PROVE  Len(wire'[c]) =< MaxExchanges
    <3>1. CASE c = n
      <4>1. Len(wire'[c]) = 0
        BY <3>1, <1>1
      <4> QED BY <4>1, Constants
    <3>2. CASE c # n
      BY <3>2, <1>1 DEF Lengths
    <3> QED BY <3>1, <3>2
  <2> QED BY <1>1, <2>1, <2>2 DEF Lengths
<1>5. Maps'
  BY <1>1, <1>2 DEF Maps, Lengths
<1>6. \A t \in Threads : pc[t] # "idle" => key[t] # k /\ key[t] \in Keys
  BY <1>1 DEF Hooks
<1>7. Hooks'
  BY <1>1, <1>2, <1>6 DEF Hooks
<1>8. Alone'
  BY <1>1, <1>2, <1>6 DEF Alone
<1>9. Unmapped'
  <2> SUFFICES ASSUME NEW l \in Keys, ssl'[l] # None, connections'[l] # ssl'[l]
               PROVE  \E t \in Threads : pc'[t] # "idle" /\ key'[t] = l /\ chunk'[t] = None
    BY DEF Unmapped
  <2>1. l # k
    BY <1>2
  <2>2. ssl[l] # None /\ connections[l] # ssl[l]
    BY <1>2, <2>1
  <2>3. \E t \in Threads : pc[t] # "idle" /\ key[t] = l /\ chunk[t] = None
    BY <2>2 DEF Unmapped
  <2> QED BY <1>1, <2>3, Zenon
<1>10. Slots'
  <2>1. \A t \in Threads : pc[t] \in Logging => cur[t] \in Conn
    BY DEF Hooks, Maps, Logging, Looked
  <2>2. \A t \in Threads : pc'[t] \in Logging => conn'[cur'[t]].slot # None
    BY <1>1, <2>1 DEF Slots
  <2>3. ASSUME NEW c \in Conn' \ freed', conn'[c].log_request
        PROVE  conn'[c].slot # None
    <3>1. CASE c = n
      <4>1. ~conn'[c].log_request
        BY <3>1, <1>1
      <4> QED BY <2>3, <4>1, Zenon
    <3>2. CASE c # n
      <4>1. c \in Conn \ freed /\ conn'[c] = conn[c]
        BY <1>1, <3>2
      <4> QED BY <2>3, <4>1, Zenon DEF Slots
    <3> QED BY <3>1, <3>2
  <2> QED BY <2>2, <2>3, Zenon DEF Slots
<1> QED BY <1>3, <1>4, <1>5, <1>7, <1>8, <1>9, <1>10

(* A hook is called: it is alone on its connection, or the connection is   *)
(* mixed.                                                                  *)
LEMMA CallKeeps ==
    ASSUME SInv, NEW t \in Threads, NEW k \in Keys,
           NEW hook \in {"request", "reply", "close"},
           NEW m \in Chunks \cup {None}, Call(t, hook, k, m),
           ssl[k] # None, m = None <=> hook = "close",
           wire' \in Seq(Seq(Exchanges)), Len(wire') = Len(wire),
           \A c \in Conn : Len(wire'[c]) =< MaxExchanges,
           mixed \subseteq mixed', mixed' \subseteq Conn,
           \A u \in Threads : pc[u] # "idle" /\ key[u] = k =>
               ssl[k] \in mixed' /\ chunk[u] # None /\ m # None,
           UNCHANGED <<ssl, connections, conn, initialized, ready, logged,
                       freed>>
    PROVE  SInv'
<1> USE DEF SInv
<1>1. /\ pc[t] = "idle" /\ pc'[t] = hook /\ key'[t] = k /\ chunk'[t] = m
      /\ cur' = cur
      /\ \A u \in Threads : u # t =>
            pc'[u] = pc[u] /\ key'[u] = key[u] /\ chunk'[u] = chunk[u]
  BY DEF Call, Goto, TypeOK
<1>2. connections[k] = ssl[k]
  BY DEF Unmapped
<1>3. Conn' = Conn
  BY DEF Conn
<1>4. TypeOK'
  <2>1. ready' \in BOOLEAN
    BY Zenon DEF TypeOK
  <2>2. /\ pc' \in [Threads -> {"idle"} \cup RequestHooks \cup ReplyHooks
                                \cup CloseHooks]
        /\ key' \in [Threads -> Keys \cup {None}]
        /\ chunk' \in [Threads -> Chunks \cup {None}]
    BY DEF Call, Goto, TypeOK, RequestHooks, ReplyHooks, CloseHooks
  <2>3. mixed' \subseteq Conns
    BY Typed, Constants DEF Lengths, Conn, Conns
  <2>4. TypeOK
    OBVIOUS
  <2> QED BY <1>1, <2>1, <2>2, <2>3, <2>4, Zenon DEF TypeOK
<1>5. Lengths'
  BY <1>3 DEF Lengths
<1>6. Maps'
  BY <1>3 DEF Maps
<1>7. Hooks'
  BY <1>1, <1>2 DEF Hooks, Looked, CloseHooks
<1>8. Alone'
  BY <1>1 DEF Alone
<1>9. Unmapped'
  <2>1. ASSUME NEW l \in Keys, ssl'[l] # None, connections'[l] # ssl'[l]
        PROVE  \E u \in Threads : pc'[u] # "idle" /\ key'[u] = l /\ chunk'[u] = None
    <3>1. PICK u \in Threads : pc[u] # "idle" /\ key[u] = l /\ chunk[u] = None
      BY <2>1 DEF Unmapped
    <3>2. u # t
      BY <3>1, <1>1
    <3>3. pc'[u] # "idle" /\ key'[u] = l /\ chunk'[u] = None
      BY <3>1, <3>2, <1>1
    <3> QED BY <3>3
  <2> QED BY <2>1, Zenon DEF Unmapped
<1>10. Slots'
  BY <1>1, <1>3 DEF Slots, Logging
<1> QED BY <1>4, <1>5, <1>6, <1>7, <1>8, <1>9, <1>10

(* What the client's and the server's steps do to the exchanges. *)
LEMMA WireUpdate ==
    ASSUME SInv, NEW c \in Conn, NEW v \in Seq(Exchanges),
           Len(v) =< MaxExchanges, wire' = [wire EXCEPT ![c] = v]
    PROVE  /\ wire' \in Seq(Seq(Exchanges)) /\ Len(wire') = Len(wire)
           /\ wire'[c] = v
           /\ \A d \in Conn : d # c => wire'[d] = wire[d]
           /\ \A d \in Conn : Len(wire'[d]) =< MaxExchanges
<1>1. Conn = 1..Len(wire) /\ wire \in Seq(Seq(Exchanges))
  BY Typed DEF SInv, Lengths, Conn
<1>2. /\ [wire EXCEPT ![c] = v] \in Seq(Seq(Exchanges))
      /\ Len([wire EXCEPT ![c] = v]) = Len(wire)
      /\ \A d \in 1..Len(wire) :
            [wire EXCEPT ![c] = v][d] = IF d = c THEN v ELSE wire[d]
  BY <1>1, ExceptSeq
<1>3. \A d \in Conn : Len(wire[d]) =< MaxExchanges
  BY DEF SInv, Lengths
<1> QED BY <1>1, <1>2, <1>3

(* SSL_read brings a part of a request, which continues the exchange under *)
(* way or starts the next.                                                 *)
LEMMA ReadIs ==
    ASSUME SInv, NEW t \in Threads, NEW k \in Keys, Read(t, k)
    PROVE  LET c == ssl[k]
               w == wire[c]
               n == Len(w)
           IN  /\ c \in Conn \ freed /\ ~Busy(k) /\ c # None
               /\ UNCHANGED <<ssl, connections, conn, initialized, ready,
                              logged, freed>>
               /\ \E m \in Chunks, v \in Seq(Exchanges) :
                     /\ Call(t, "request", k, m)
                     /\ Len(v) =< MaxExchanges
                     /\ wire' = [wire EXCEPT ![c] = v]
                     /\ \/ /\ n > 0
                           /\ v = [w EXCEPT ![n] = [req |-> Append(@.req, m),
                                                    rep |-> @.rep]]
                           /\ \/ mixed' = mixed /\ w[n].rep = <<>>
                              \/ mixed' = mixed \cup {c}
                        \/ /\ v = Append(w, [req |-> <<m>>, rep |-> <<>>])
                           /\ n > 0 => w[n].rep # <<>>
                           /\ mixed' = mixed
<1> DEFINE c == ssl[k]
           w == wire[c]
           n == Len(w)
<1>1. /\ c # None /\ ~Busy(k)
      /\ UNCHANGED <<ssl, connections, conn, initialized, ready, logged, freed>>
  BY DEF Read
<1>2. c \in Conn \ freed
  BY <1>1 DEF SInv, Maps
<1>3. /\ w \in Seq(Exchanges) /\ n \in Nat /\ n =< MaxExchanges
      /\ n > 0 => n \in Chunks /\ w[n] \in Exchanges
  <2>1. w \in Seq(Exchanges) /\ n \in Nat /\ n =< MaxExchanges
    BY <1>2, Types, LenProperties DEF SInv, Lengths
  <2> HIDE DEF w
  <2>2. n > 0 => n \in Chunks
    BY <2>1, Constants DEF Chunks
  <2>3. n > 0 => w[n] \in Exchanges
    BY <2>1, ElementOfSeq
  <2> QED BY <2>1, <2>2, <2>3
<1>4. CASE /\ n > 0 /\ Call(t, "request", k, n)
           /\ wire' = [wire EXCEPT ![c][n].req = Append(@, n)]
           /\ mixed' = IF w[n].rep = <<>> THEN mixed ELSE mixed \cup {c}
  <2> DEFINE x == [req |-> Append(w[n].req, n), rep |-> w[n].rep]
             v == [w EXCEPT ![n] = x]
  <2>1. x \in Exchanges /\ x = [w[n] EXCEPT !.req = Append(@, n)]
    BY <1>3, <1>4, Collect
  <2>2. wire' = [wire EXCEPT ![c] = [w EXCEPT ![n] =
                    [w[n] EXCEPT !.req = Append(@, n)]]]
    BY <1>4
  <2>3. wire' = [wire EXCEPT ![c] = v]
    BY <2>1, <2>2
  <2>4. v \in Seq(Exchanges) /\ Len(v) = n
    <3> HIDE DEF w, x
    <3>1. n = Len(w) /\ n \in Nat /\ n > 0
      BY <1>3, <1>4
    <3> HIDE DEF n
    <3>2. n \in 1..Len(w)
      BY <3>1
    <3>3. w \in Seq(Exchanges) /\ x \in Exchanges
      BY <1>3, <2>1
    <3>4. v \in Seq(Exchanges) /\ Len(v) = Len(w)
      BY <3>2, <3>3, ExceptSeq
    <3> QED BY <3>1, <3>4
  <2>5. \/ mixed' = mixed /\ w[n].rep = <<>>
        \/ mixed' = mixed \cup {c}
    BY <1>4
  <2>6. v = [w EXCEPT ![n] = [req |-> Append(@.req, n), rep |-> @.rep]]
    OBVIOUS
  <2> HIDE DEF v, w, n, c
  <2>7. n \in Chunks /\ Len(v) =< MaxExchanges
    BY <1>3, <1>4, <2>4
  <2>8. \E m \in Chunks, q \in Seq(Exchanges) :
           /\ Call(t, "request", k, m)
           /\ Len(q) =< MaxExchanges
           /\ wire' = [wire EXCEPT ![c] = q]
           /\ n > 0
           /\ q = [w EXCEPT ![n] = [req |-> Append(@.req, m), rep |-> @.rep]]
           /\ \/ mixed' = mixed /\ w[n].rep = <<>>
              \/ mixed' = mixed \cup {c}
    BY <1>4, <2>3, <2>4, <2>5, <2>6, <2>7
  <2> QED BY <1>1, <1>2, <2>8 DEF c, w, n
<1>5. CASE /\ n < MaxExchanges /\ (n > 0 => w[n].rep # <<>>)
           /\ Call(t, "request", k, n + 1)
           /\ wire' = [wire EXCEPT ![c] =
                          Append(@, [req |-> <<n + 1>>, rep |-> <<>>])]
           /\ mixed' = mixed
  <2> DEFINE v == Append(w, [req |-> <<n + 1>>, rep |-> <<>>])
  <2>1. n + 1 \in Chunks
    BY <1>3, <1>5, Constants DEF Chunks
  <2>2. v \in Seq(Exchanges) /\ Len(v) = n + 1
    <3> DEFINE x == [req |-> <<n + 1>>, rep |-> <<>>]
    <3>1. x \in Exchanges /\ w \in Seq(Exchanges)
      BY <1>3, <2>1, FirstChunk
    <3> HIDE DEF x, w
    <3>2. Append(w, x) \in Seq(Exchanges) /\ Len(Append(w, x)) = Len(w) + 1
      BY <3>1, AppendProperties
    <3> QED BY <3>2 DEF x
  <2>3. wire' = [wire EXCEPT ![c] = v]
    BY <1>5
  <2>4. Len(v) =< MaxExchanges
    BY <1>3, <1>5, <2>2, Constants
  <2>5. v = Append(w, [req |-> <<n + 1>>, rep |-> <<>>])
    OBVIOUS
  <2> HIDE DEF v, w, n, c
  <2> QED BY <1>1, <1>2, <1>5, <2>1, <2>2, <2>3, <2>4, <2>5 DEF c, w, n
<1> QED BY <1>4, <1>5 DEF Read

(* SSL_write takes a part of the reply to the exchange under way.          *)
LEMMA WriteIs ==
    ASSUME SInv, NEW t \in Threads, NEW k \in Keys, Write(t, k)
    PROVE  LET c == ssl[k]
               w == wire[c]
               n == Len(w)
           IN  /\ c \in Conn \ freed /\ c # None /\ n > 0
               /\ UNCHANGED <<ssl, connections, conn, initialized, ready,
                              logged, freed>>
               /\ \E m \in Chunks, v \in Seq(Exchanges) :
                     /\ Call(t, "reply", k, m)
                     /\ Len(v) =< MaxExchanges
                     /\ wire' = [wire EXCEPT ![c] = v]
                     /\ v = [w EXCEPT ![n] = [req |-> @.req,
                                              rep |-> Append(@.rep, m)]]
                     /\ \/ mixed' = mixed /\ ~Busy(k)
                        \/ mixed' = mixed \cup {c} /\ BusyReading(k)
<1> DEFINE c == ssl[k]
           w == wire[c]
           n == Len(w)
<1>1. /\ c # None /\ n > 0 /\ Call(t, "reply", k, n)
      /\ wire' = [wire EXCEPT ![c][n].rep = Append(@, n)]
      /\ UNCHANGED <<ssl, connections, conn, initialized, ready, logged, freed>>
  BY DEF Write
<1>2. \/ mixed' = mixed /\ ~Busy(k)
      \/ mixed' = mixed \cup {c} /\ BusyReading(k)
  <2>1. CASE Busy(k)
    <3>1. BusyReading(k) /\ mixed' = mixed \cup {c}
      BY <2>1 DEF Write
    <3> QED BY <3>1
  <2>2. CASE ~Busy(k)
    <3>1. mixed' = mixed
      BY <2>2 DEF Write
    <3> QED BY <2>2, <3>1, Zenon
  <2> QED BY <2>1, <2>2
<1>3. c \in Conn \ freed
  BY <1>1 DEF SInv, Maps
<1>4. /\ w \in Seq(Exchanges) /\ n \in Nat /\ n =< MaxExchanges
      /\ n \in Chunks /\ w[n] \in Exchanges
  <2>1. w \in Seq(Exchanges) /\ n \in Nat /\ n =< MaxExchanges /\ n > 0
    BY <1>1, <1>3, Types, LenProperties DEF SInv, Lengths
  <2> HIDE DEF w
  <2>2. n \in Chunks
    BY <2>1, Constants DEF Chunks
  <2>3. w[n] \in Exchanges
    BY <2>1, ElementOfSeq
  <2> QED BY <2>1, <2>2, <2>3
<1> DEFINE x == [req |-> w[n].req, rep |-> Append(w[n].rep, n)]
           v == [w EXCEPT ![n] = x]
<1>5. x \in Exchanges /\ x = [w[n] EXCEPT !.rep = Append(@, n)]
  BY <1>4, Collect
<1>6. wire' = [wire EXCEPT ![c] = [w EXCEPT ![n] =
                  [w[n] EXCEPT !.rep = Append(@, n)]]]
  BY <1>1
<1>7. wire' = [wire EXCEPT ![c] = v]
  BY <1>5, <1>6
<1>8. v \in Seq(Exchanges) /\ Len(v) = n
  <2> HIDE DEF w, x
  <2>1. n = Len(w) /\ n \in Nat /\ n > 0
    BY <1>4, Constants DEF Chunks
  <2> HIDE DEF n
  <2>2. n \in 1..Len(w)
    BY <2>1
  <2>3. w \in Seq(Exchanges) /\ x \in Exchanges
    BY <1>4, <1>5
  <2>4. v \in Seq(Exchanges) /\ Len(v) = Len(w)
    BY <2>2, <2>3, ExceptSeq
  <2> QED BY <2>1, <2>4
<1>9. v = [w EXCEPT ![n] = [req |-> @.req, rep |-> Append(@.rep, n)]]
  OBVIOUS
<1> HIDE DEF v, w, n, c
<1>10. \E m \in Chunks, q \in Seq(Exchanges) :
          /\ Call(t, "reply", k, m)
          /\ Len(q) =< MaxExchanges
          /\ wire' = [wire EXCEPT ![c] = q]
          /\ q = [w EXCEPT ![n] = [req |-> @.req, rep |-> Append(@.rep, m)]]
          /\ \/ mixed' = mixed /\ ~Busy(k)
             \/ mixed' = mixed \cup {c} /\ BusyReading(k)
  BY <1>1, <1>2, <1>4, <1>7, <1>8, <1>9
<1> QED BY <1>1, <1>3, <1>10 DEF c, w, n

(* SSL_read preserves the structure.                                       *)
LEMMA ReadKeeps ==
    ASSUME SInv, NEW t \in Threads, NEW k \in Keys, Read(t, k)
    PROVE  SInv'
<1> DEFINE c == ssl[k]
<1>1. /\ c \in Conn /\ ~Busy(k) /\ c # None
      /\ UNCHANGED <<ssl, connections, conn, initialized, ready, logged, freed>>
  BY ReadIs
<1>2. PICK m \in Chunks, v \in Seq(Exchanges) :
          /\ Call(t, "request", k, m)
          /\ Len(v) =< MaxExchanges
          /\ wire' = [wire EXCEPT ![c] = v]
          /\ mixed' = mixed \/ mixed' = mixed \cup {c}
  BY ReadIs
<1>3. /\ wire' \in Seq(Seq(Exchanges)) /\ Len(wire') = Len(wire)
      /\ \A d \in Conn : Len(wire'[d]) =< MaxExchanges
  BY <1>1, <1>2, WireUpdate
<1>4. mixed \subseteq mixed' /\ mixed' \subseteq Conn
  BY <1>1, <1>2 DEF SInv, Lengths
<1>5. m # None /\ \A u \in Threads : ~(pc[u] # "idle" /\ key[u] = k)
  BY <1>1, Constants DEF Busy
<1> QED BY <1>1, <1>2, <1>3, <1>4, <1>5, CallKeeps

(* SSL_write preserves the structure, also while SSL_read runs.            *)
LEMMA WriteKeeps ==
    ASSUME SInv, NEW t \in Threads, NEW k \in Keys, Write(t, k)
    PROVE  SInv'
<1> DEFINE c == ssl[k]
<1>1. /\ c \in Conn /\ c # None
      /\ UNCHANGED <<ssl, connections, conn, initialized, ready, logged, freed>>
  BY WriteIs
<1>2. PICK m \in Chunks, v \in Seq(Exchanges) :
          /\ Call(t, "reply", k, m)
          /\ Len(v) =< MaxExchanges
          /\ wire' = [wire EXCEPT ![c] = v]
          /\ \/ mixed' = mixed /\ ~Busy(k)
             \/ mixed' = mixed \cup {c} /\ BusyReading(k)
  BY WriteIs
<1>3. /\ wire' \in Seq(Seq(Exchanges)) /\ Len(wire') = Len(wire)
      /\ \A d \in Conn : Len(wire'[d]) =< MaxExchanges
  BY <1>1, <1>2, WireUpdate
<1>4. mixed \subseteq mixed' /\ mixed' \subseteq Conn
  BY <1>1, <1>2 DEF SInv, Lengths
<1>5. m # None
  BY Constants
<1>6. \A u \in Threads : pc[u] # "idle" /\ key[u] = k =>
          c \in mixed' /\ chunk[u] # None
  BY <1>2 DEF Busy, BusyReading
<1> QED BY <1>1, <1>2, <1>3, <1>4, <1>5, <1>6, CallKeeps

(* SSL_free, which nothing else runs beside, preserves the structure.      *)
LEMMA CloseKeeps ==
    ASSUME SInv, NEW t \in Threads, NEW k \in Keys, Close(t, k)
    PROVE  SInv'
<1>1. /\ ssl[k] # None /\ ~Busy(k) /\ Call(t, "close", k, None)
      /\ UNCHANGED <<ssl, connections, conn, initialized, ready, logged,
                     wire, mixed, freed>>
  BY DEF Close, history
<1>2. /\ wire' \in Seq(Seq(Exchanges)) /\ Len(wire') = Len(wire)
      /\ \A d \in Conn : Len(wire'[d]) =< MaxExchanges
      /\ mixed \subseteq mixed' /\ mixed' \subseteq Conn
  BY <1>1, Typed DEF SInv, Lengths
<1>3. \A u \in Threads : ~(pc[u] # "idle" /\ key[u] = k)
  BY <1>1 DEF Busy
<1> QED BY <1>1, <1>2, <1>3, CallKeeps

(* Every step of a hook preserves the structure.                           *)
LEMMA HookKeeps ==
    ASSUME SInv, NEW t \in Threads, Hook(t)
    PROVE  SInv'
<1>1. CASE Lookup(t)
  BY <1>1, LookupKeeps
<1>2. CASE AppendRequest(t) \/ FirstRequest(t) \/ IgnoreSlot(t)
           \/ RenewSlot(t) \/ AppendReply(t)
  <2>1. Quiet(t, "idle")
    BY <1>2, AppendRequestIs, FirstRequestIs, IgnoreSlotIs, RenewSlotIs,
       AppendReplyIs
  <2> QED BY <2>1, QuietKeeps
<1>3. CASE FlushSlot(t) \/ DropReply(t) \/ FlushLastSlot(t)
  <2>1. Quiet(t, "entry") \/ Quiet(t, "idle")
    BY <1>3, MovesAre
  <2> QED BY <2>1, QuietKeeps
<1>4. CASE Enter(t) \/ FinishInit(t) \/ StopSpinning(t)
  <2>1. PICK l \in Logging : Quiet(t, l)
    BY <1>4, MovesAre
  <2> QED BY <2>1, QuietKeeps
<1>5. CASE LogEntry(t)
  BY <1>5, LogEntryIs, QuietKeeps
<1>6. CASE Remove(t)
  BY <1>6, RemoveKeeps
<1>7. CASE FreeUnlogged(t) \/ FreeLogged(t)
  BY <1>7, FreeKeeps
<1> QED BY <1>1, <1>2, <1>3, <1>4, <1>5, <1>6, <1>7 DEF Hook

(* Stuttering preserves the structure.                                     *)
LEMMA StutterKeeps ==
    ASSUME SInv, UNCHANGED vars
    PROVE  SInv'
<1>1. UNCHANGED <<ssl, connections, conn, pc, key, chunk, cur, initialized,
                  ready, logged, wire, mixed, freed>>
  BY DEF vars, hookVars, history
<1>2. TypeOK'
  BY <1>1, Zenon DEF SInv, TypeOK
<1>3. Conn' = Conn
  BY <1>1 DEF Conn
<1>4. Lengths' /\ Maps'
  BY <1>1, <1>3, Zenon DEF SInv, Lengths, Maps
<1>5. Hooks' /\ Alone' /\ Unmapped'
  BY <1>1, Zenon DEF SInv, Hooks, Alone, Unmapped
<1>6. Slots'
  BY <1>1, <1>3, Zenon DEF SInv, Slots
<1> QED BY <1>2, <1>4, <1>5, <1>6 DEF SInv

(* Every step preserves the structure.                                     *)
LEMMA NextS == SInv /\ [Next]_vars => SInv'
<1> SUFFICES ASSUME SInv, [Next]_vars PROVE SInv'
  OBVIOUS
<1>1. ASSUME NEW k \in Keys, NewConnection(k) PROVE SInv'
  BY <1>1, NewConnectionKeeps
<1>2. ASSUME NEW t \in Threads, NEW k \in Keys,
             Read(t, k) \/ Write(t, k) \/ Close(t, k)
      PROVE  SInv'
  BY <1>2, ReadKeeps, WriteKeeps, CloseKeeps
<1>3. ASSUME NEW t \in Threads, Hook(t) PROVE SInv'
  BY <1>3, HookKeeps
<1>4. CASE UNCHANGED vars
  BY <1>4, StutterKeeps
<1> QED BY <1>1, <1>2, <1>3, <1>4 DEF Next

(* A hook finds the connection it is called for, still in its place, and   *)
(* is alone there unless reads and writes overlap (logpoint.c:84-89,       *)
(* 264-291).                                                               *)
THEOREM StructureHolds == Spec => []SInv
  BY InitS, NextS, PTL DEF Spec

(* Every variable keeps its type; in particular ignore_slots never passes  *)
(* below zero (logpoint.c:161-171).                                        *)
THEOREM TypeCorrect == Spec => []TypeOK
<1>1. SInv => TypeOK
  BY DEF SInv
<1> QED BY <1>1, StructureHolds, PTL

-----------------------------------------------------------------------------
(* A value of initialized that lets a thread pass means that it may. *)
Barrier ==
    /\ initialized >= -1
    /\ initialized = -1 => ready
    /\ \A t \in Threads : pc[t] = "log" => Sgx \/ ready

(* However many threads meet at the barrier of add_entry_to_list, none     *)
(* passes it before one has returned from logpoint_init                    *)
(* (logpoint.c:104-122). initialized alone does not say so: it is -1 only  *)
(* after that.                                                             *)
THEOREM InitBeforeLogHolds == Spec => []InitBeforeLog
<1>1. Init => Barrier
  BY DEF Init, Barrier
<1>2. SInv /\ Barrier /\ [Next]_vars => Barrier'
  <2> SUFFICES ASSUME SInv, Barrier, [Next]_vars PROVE Barrier'
    OBVIOUS
  <2>0. initialized \in Int /\ pc \in [Threads -> {"idle"} \cup RequestHooks
                                        \cup ReplyHooks \cup CloseHooks]
    BY DEF SInv, TypeOK
  <2>1. ASSUME NEW k \in Keys, NewConnection(k) PROVE Barrier'
    BY <2>1, Zenon DEF NewConnection, Barrier, hookVars
  <2>2. ASSUME NEW t \in Threads, NEW k \in Keys,
               Read(t, k) \/ Write(t, k) \/ Close(t, k)
        PROVE  Barrier'
    <3>1. /\ pc' = [pc EXCEPT ![t] = "request"] \/ pc' = [pc EXCEPT ![t] = "reply"]
             \/ pc' = [pc EXCEPT ![t] = "close"]
          /\ initialized' = initialized
      BY <2>2 DEF Read, Write, Close, Call, Goto
    <3>2. ready' = ready
      BY <2>2, Zenon DEF Read, Write, Close
    <3>3. \A u \in Threads : pc'[u] = "log" => pc[u] = "log"
      BY <3>1, <2>0
    <3> QED BY <3>1, <3>2, <3>3, Zenon DEF Barrier
  <2>3. ASSUME NEW t \in Threads, Hook(t) PROVE Barrier'
    <3>1. CASE Enter(t)
      <4>1. /\ pc[t] = "entry"
            /\ initialized' = IF Sgx THEN initialized ELSE initialized + 1
            /\ pc' = [pc EXCEPT ![t] = IF Sgx THEN "log"
                                       ELSE IF initialized = 0 THEN "init" ELSE "spin"]
        BY <3>1 DEF Enter, Arrive, Goto
      <4>2. ready' = ready
        BY <3>1, Zenon DEF Enter, Arrive
      <4>3. CASE Sgx
        <5>1. initialized' = initialized /\ \A u \in Threads : TRUE
          BY <4>1, <4>3
        <5> QED BY <5>1, <4>2, <4>3, Zenon DEF Barrier
      <4>4. CASE ~Sgx
        <5>1. initialized' = initialized + 1
          BY <4>1, <4>4
        <5>2. initialized' >= -1 /\ initialized' # -1
          BY <5>1, <2>0 DEF Barrier
        <5>3. \A u \in Threads : pc'[u] = "log" => pc[u] = "log"
          BY <4>1, <4>4, <2>0
        <5> QED BY <5>2, <5>3, <4>2, Zenon DEF Barrier
      <4> QED BY <4>3, <4>4
    <3>2. CASE FinishInit(t)
      <4>1. initialized' = -1
        BY <3>2 DEF FinishInit
      <4>2. initialized' >= -1
        BY <4>1
      <4>3. ready' = TRUE
        BY <3>2, Zenon DEF FinishInit
      <4> QED BY <4>2, <4>3, Zenon DEF Barrier
    <3>3. CASE StopSpinning(t)
      <4>1. initialized = -1 /\ initialized' = initialized
        BY <3>3 DEF StopSpinning, LeaveBarrier
      <4>2. ready
        BY <4>1, Zenon DEF Barrier
      <4>3. ready' = ready
        BY <3>3, Zenon DEF StopSpinning, LeaveBarrier
      <4> QED BY <4>1, <4>2, <4>3, Zenon DEF Barrier
    <3>4. CASE ~Enter(t) /\ ~FinishInit(t) /\ ~StopSpinning(t)
      <4>1. /\ \E l \in {"idle", "test", "append", "entry", "renew", "closing"} :
                  pc' = [pc EXCEPT ![t] = l]
            /\ initialized' = initialized
        BY <2>3, <3>4 DEF Hook, Lookup, AppendRequest, FirstRequest,
           IgnoreSlot, DropSlot, FlushSlot, RenewSlot, Renew, AppendReply,
           AddReply, DropReply, LogEntry, Remove, FreeUnlogged,
           FlushLastSlot, LeaveClosing, FreeLogged, Free, Return, Goto
      <4>2. ready' = ready
        BY <2>3, <3>4, Zenon DEF Hook, Lookup, AppendRequest, FirstRequest,
           IgnoreSlot, DropSlot, FlushSlot, RenewSlot, Renew, AppendReply,
           AddReply, DropReply, LogEntry, Remove, FreeUnlogged,
           FlushLastSlot, LeaveClosing, FreeLogged, Free, Return, Goto
      <4>3. \A u \in Threads : pc'[u] = "log" => pc[u] = "log"
        BY <4>1, <2>0
      <4> QED BY <4>1, <4>2, <4>3, Zenon DEF Barrier
    <3> QED BY <3>1, <3>2, <3>3, <3>4
  <2>4. CASE UNCHANGED vars
    BY <2>4, Zenon DEF vars, hookVars, Barrier
  <2> QED BY <2>1, <2>2, <2>3, <2>4 DEF Next
<1>3. Barrier => InitBeforeLog
  BY Zenon DEF Barrier, InitBeforeLog
<1> QED BY <1>1, <1>2, <1>3, StructureHolds, PTL DEF Spec

-----------------------------------------------------------------------------
(* A hook runs on the connection c. *)
OnConn(t, c) == pc[t] # "idle" /\ ssl[key[t]] = c

(* What the slot and the log of a connection hold: the slot is up to date   *)
(* unless a hook is about to change it.                                    *)
LocalAt(c) ==
    /\ BaseAt(wire[c], conn[c], logged[c])
    /\ c \in freed => Len(logged[c]) = Due(Len(wire[c]))
    /\ c \notin freed /\ (\A t \in Threads : ~OnConn(t, c)) =>
          SettledAt(wire[c], conn[c], logged[c])
    /\ \A t \in Threads : OnConn(t, c) =>
          StageAt(pc[t], chunk[t], wire[c], conn[c], logged[c])

(* So it is on all connections whose requests and replies alternate. *)
DInv == \A c \in Conn \ mixed : LocalAt(c)

(* A step elsewhere. *)
LEMMA Frame ==
    ASSUME NEW c, LocalAt(c),
           wire'[c] = wire[c], conn'[c] = conn[c], logged'[c] = logged[c],
           c \in freed' <=> c \in freed,
           \A u \in Threads :
               /\ OnConn(u, c)' <=> OnConn(u, c)
               /\ OnConn(u, c) => pc'[u] = pc[u] /\ chunk'[u] = chunk[u]
    PROVE  LocalAt(c)'
<1>1. BaseAt(wire[c], conn[c], logged[c])'
  BY DEF LocalAt, BaseAt
<1>2. (c \in freed => Len(logged[c]) = Due(Len(wire[c])))'
  BY DEF LocalAt, Due
<1>3. (c \notin freed /\ (\A t \in Threads : ~OnConn(t, c)) =>
          SettledAt(wire[c], conn[c], logged[c]))'
  <2>1. ASSUME (c \notin freed)', (\A t \in Threads : ~OnConn(t, c))'
        PROVE  SettledAt(wire[c], conn[c], logged[c])'
    <3>1. SettledAt(wire[c], conn[c], logged[c])
      BY <2>1, Zenon DEF LocalAt
    <3> QED BY <3>1, Zenon DEF SettledAt, DoneAt
  <2> QED BY <2>1, Zenon
<1>4. ASSUME NEW u \in Threads, OnConn(u, c)'
      PROVE  StageAt(pc[u], chunk[u], wire[c], conn[c], logged[c])'
  <2>1. OnConn(u, c) /\ pc'[u] = pc[u] /\ chunk'[u] = chunk[u]
    BY <1>4
  <2>2. StageAt(pc[u], chunk[u], wire[c], conn[c], logged[c])
    BY <2>1, Zenon DEF LocalAt
  <2> QED BY <2>1, <2>2, Zenon
<1> QED BY <1>1, <1>2, <1>3, <1>4, Zenon DEF LocalAt

(* The hook of an unmixed connection is alone on it. *)
LEMMA OnlyOne ==
    ASSUME SInv, NEW t \in Threads, pc[t] # "idle", ssl[key[t]] \notin mixed,
           NEW u \in Threads, OnConn(u, ssl[key[t]])
    PROVE  u = t
<1>1. key[u] = key[t]
  BY DEF OnConn, SInv, Maps, Hooks
<1> QED BY <1>1 DEF OnConn, SInv, Alone

(* A step of the only hook on a connection. *)
LEMMA Advance ==
    ASSUME NEW c, NEW t \in Threads,
           \A u \in Threads : u # t => ~OnConn(u, c)',
           c \notin freed', BaseAt(wire[c], conn[c], logged[c])',
           pc'[t] # "idle" => OnConn(t, c)',
           IF pc'[t] = "idle" THEN SettledAt(wire[c], conn[c], logged[c])'
           ELSE StageAt(pc[t], chunk[t], wire[c], conn[c], logged[c])'
    PROVE  LocalAt(c)'
<1>1. ASSUME NEW u \in Threads, OnConn(u, c)'
      PROVE  StageAt(pc[u], chunk[u], wire[c], conn[c], logged[c])'
  <2>1. u = t
    BY <1>1
  <2>2. pc'[t] # "idle"
    BY <1>1, <2>1 DEF OnConn
  <2>3. StageAt(pc[t], chunk[t], wire[c], conn[c], logged[c])'
    BY <2>2
  <2> QED BY <2>1, <2>3, Zenon
<1>2. ASSUME (\A u \in Threads : ~OnConn(u, c))'
      PROVE  SettledAt(wire[c], conn[c], logged[c])'
  <2>1. pc'[t] = "idle"
    BY <1>2
  <2> QED BY <2>1
<1> QED BY <1>1, <1>2, Zenon DEF LocalAt

(* A step of a hook that treats its own connection rightly keeps the data  *)
(* of all.                                                                 *)
LEMMA ActData ==
    ASSUME SInv, DInv, NEW t \in Threads, pc[t] # "idle", NEW l,
           pc' = [pc EXCEPT ![t] = l],
           UNCHANGED <<ssl, key, chunk, wire, mixed, freed>>, Conn' = Conn,
           \A d \in Conn : d # ssl[key[t]] =>
               conn'[d] = conn[d] /\ logged'[d] = logged[d],
           LET c == ssl[key[t]]
           IN  c \notin mixed
               /\ BaseAt(wire[c], conn[c], logged[c])
               /\ StageAt(pc[t], chunk[t], wire[c], conn[c], logged[c]) =>
               /\ BaseAt(wire[c], conn'[c], logged'[c])
               /\ IF l = "idle" THEN SettledAt(wire[c], conn'[c], logged'[c])
                  ELSE StageAt(l, chunk[t], wire[c], conn'[c], logged'[c])
    PROVE  DInv'
<1> DEFINE c == ssl[key[t]]
<1>1. pc'[t] = l /\ \A u \in Threads : u # t => pc'[u] = pc[u]
  BY DEF SInv, TypeOK
<1>2. c \in Conn \ freed
  BY Place
<1>3. ASSUME NEW d \in Conn \ mixed, d # c
      PROVE  LocalAt(d)'
  <2>1. LocalAt(d)
    BY <1>3 DEF DInv
  <2>2. ~OnConn(t, d) /\ ~OnConn(t, d)'
    BY <1>3 DEF OnConn
  <2>3. \A u \in Threads : /\ OnConn(u, d)' <=> OnConn(u, d)
                           /\ OnConn(u, d) => pc'[u] = pc[u] /\ chunk'[u] = chunk[u]
    BY <1>1, <2>2 DEF OnConn
  <2> QED BY <1>3, <2>1, <2>3, Frame
<1>4. ASSUME c \notin mixed
      PROVE  LocalAt(c)'
  <2>1. LocalAt(c) /\ OnConn(t, c)
    BY <1>2, <1>4 DEF DInv, OnConn
  <2>2. /\ BaseAt(wire[c], conn[c], logged[c])
        /\ StageAt(pc[t], chunk[t], wire[c], conn[c], logged[c])
    BY <2>1, Zenon DEF LocalAt
  <2>3. /\ BaseAt(wire[c], conn'[c], logged'[c])
        /\ IF l = "idle" THEN SettledAt(wire[c], conn'[c], logged'[c])
           ELSE StageAt(l, chunk[t], wire[c], conn'[c], logged'[c])
    BY <1>4, <2>2
  <2>4. \A u \in Threads : u # t => ~OnConn(u, c)
    BY <1>4, OnlyOne
  <2>5. \A u \in Threads : u # t => ~OnConn(u, c)'
    BY <1>1, <2>4 DEF OnConn
  <2>6. c' = c /\ c \notin freed' /\ (pc'[t] # "idle" => OnConn(t, c)')
    BY <1>2 DEF OnConn
  <2> HIDE DEF c
  <2>8. BaseAt(wire'[c], conn'[c], logged'[c])
        /\ IF pc'[t] = "idle" THEN SettledAt(wire'[c], conn'[c], logged'[c])
           ELSE StageAt(pc'[t], chunk'[t], wire'[c], conn'[c], logged'[c])
    BY <1>1, <2>3
  <2> QED BY <2>5, <2>6, <2>8, Advance
<1>5. \A d \in Conn \ mixed : LocalAt(d)'
  BY <1>3, <1>4
<1> QED BY <1>5 DEF DInv

(* So does the call of a hook.                                             *)
LEMMA CallData ==
    ASSUME SInv, SInv', DInv, NEW t \in Threads, NEW k \in Keys, NEW hook \in {"request", "reply", "close"},
           NEW m \in Chunks \cup {None}, Call(t, hook, k, m), ssl[k] # None,
           UNCHANGED <<ssl, conn, logged, freed>>, mixed \subseteq mixed',
           \A d \in Conn : d # ssl[k] => wire'[d] = wire[d],
           LET c == ssl[k]
           IN  c \notin mixed' =>
                  /\ ~Busy(k)
                  /\ BaseAt(wire[c], conn[c], logged[c])
                     /\ SettledAt(wire[c], conn[c], logged[c]) =>
                        /\ BaseAt(wire'[c], conn[c], logged[c])
                        /\ StageAt(hook, m, wire'[c], conn[c], logged[c])
    PROVE  DInv'
<1> DEFINE c == ssl[k]
<1>1. /\ pc[t] = "idle" /\ pc'[t] = hook /\ key'[t] = k /\ chunk'[t] = m
      /\ \A u \in Threads : u # t =>
            pc'[u] = pc[u] /\ key'[u] = key[u] /\ chunk'[u] = chunk[u]
  BY DEF Call, Goto, SInv, TypeOK
<1>2. c \in Conn \ freed /\ Conn' = Conn
  BY DEF SInv, Maps, Conn
<1>3. ASSUME NEW d \in Conn \ mixed', d # c
      PROVE  LocalAt(d)'
  <2>1. LocalAt(d)
    BY <1>3 DEF DInv
  <2>2. ~OnConn(t, d) /\ ~OnConn(t, d)'
    BY <1>1, <1>3 DEF OnConn
  <2>3. \A u \in Threads : /\ OnConn(u, d)' <=> OnConn(u, d)
                           /\ OnConn(u, d) => pc'[u] = pc[u] /\ chunk'[u] = chunk[u]
    BY <1>1, <2>2 DEF OnConn
  <2> QED BY <1>3, <2>1, <2>3, Frame
<1>4. ASSUME c \notin mixed'
      PROVE  LocalAt(c)'
  <2>1. LocalAt(c) /\ c' = c
    BY <1>2, <1>4 DEF DInv
  <2>2. \A u \in Threads : ~OnConn(u, c)
    <3>1. ~Busy(k)
      BY <1>4
    <3>2. ASSUME NEW u \in Threads, OnConn(u, c) PROVE FALSE
      <4>1. key[u] = k
        BY <3>2 DEF OnConn, SInv, Maps, Hooks
      <4> QED BY <3>1, <3>2, <4>1 DEF Busy, OnConn
    <3> QED BY <3>2
  <2>3. /\ BaseAt(wire[c], conn[c], logged[c])
        /\ SettledAt(wire[c], conn[c], logged[c])
    BY <1>2, <2>1, <2>2, Zenon DEF LocalAt
  <2>4. /\ BaseAt(wire'[c], conn[c], logged[c])
        /\ StageAt(hook, m, wire'[c], conn[c], logged[c])
    BY <1>4, <2>3
  <2>5. \A u \in Threads : u # t => ~OnConn(u, c)'
    BY <1>1, <2>2 DEF OnConn
  <2>6. c \notin freed' /\ pc'[t] # "idle" /\ OnConn(t, c)'
    BY <1>1, <1>2 DEF OnConn
  <2> HIDE DEF c
  <2>7. /\ BaseAt(wire'[c], conn'[c], logged'[c])
        /\ StageAt(pc'[t], chunk'[t], wire'[c], conn'[c], logged'[c])
    BY <1>1, <2>4
  <2> QED BY <2>1, <2>5, <2>6, <2>7, Advance
<1>5. \A d \in Conn \ mixed' : LocalAt(d)'
  BY <1>3, <1>4
<1> QED BY <1>2, <1>5 DEF DInv

(* SSL_read leaves the slot one chunk behind.                              *)
LEMMA ReadData ==
    ASSUME SInv, SInv', DInv, NEW t \in Threads, NEW k \in Keys, Read(t, k)
    PROVE  DInv'
<1> DEFINE c == ssl[k]
           w == wire[c]
           n == Len(w)
<1>1. /\ c \in Conn \ freed /\ ~Busy(k) /\ c # None
      /\ UNCHANGED <<ssl, connections, conn, initialized, ready, logged, freed>>
  BY ReadIs
<1>2. PICK m \in Chunks, v \in Seq(Exchanges) :
          /\ Call(t, "request", k, m)
          /\ Len(v) =< MaxExchanges
          /\ wire' = [wire EXCEPT ![c] = v]
          /\ \/ /\ n > 0
                /\ v = [w EXCEPT ![n] = [req |-> Append(@.req, m),
                                         rep |-> @.rep]]
                /\ \/ mixed' = mixed /\ w[n].rep = <<>>
                   \/ mixed' = mixed \cup {c}
             \/ /\ v = Append(w, [req |-> <<m>>, rep |-> <<>>])
                /\ n > 0 => w[n].rep # <<>>
                /\ mixed' = mixed
  BY ReadIs
<1>3. wire'[c] = v /\ \A d \in Conn : d # c => wire'[d] = wire[d]
  BY <1>1, <1>2, WireUpdate
<1>4. /\ w \in Seq(Exchanges) /\ conn[c] \in ConnRec /\ logged[c] \in Seq(Exchanges)
  BY <1>1, Types
<1>5. ASSUME c \notin mixed', BaseAt(w, conn[c], logged[c]),
             SettledAt(w, conn[c], logged[c])
      PROVE  /\ BaseAt(v, conn[c], logged[c])
             /\ StartingAt(v, conn[c], logged[c], m)
                \/ ContinuingAt(v, conn[c], logged[c], m)
  <2>1. CASE /\ n > 0
             /\ v = [w EXCEPT ![n] = [req |-> Append(@.req, m),
                                      rep |-> @.rep]]
             /\ w[n].rep = <<>>
    BY <1>4, <1>5, <2>1, ReadContinues
  <2>2. CASE /\ v = Append(w, [req |-> <<m>>, rep |-> <<>>])
             /\ n > 0 => w[n].rep # <<>>
    BY <1>4, <1>5, <2>2, ReadStarts
  <2>3. ~(mixed' = mixed \cup {c})
    BY <1>5
  <2> QED BY <1>2, <2>1, <2>2, <2>3
<1>6. ASSUME c \notin mixed', BaseAt(w, conn[c], logged[c]),
             SettledAt(w, conn[c], logged[c])
      PROVE  /\ BaseAt(wire'[c], conn[c], logged[c])
             /\ StageAt("request", m, wire'[c], conn[c], logged[c])
  BY <1>3, <1>5, <1>6 DEF StageAt, CloseHooks
<1>7. mixed \subseteq mixed'
  BY <1>2
<1> QED BY <1>1, <1>2, <1>3, <1>6, <1>7, CallData

(* SSL_write leaves the slot one chunk behind.                             *)
LEMMA WriteData ==
    ASSUME SInv, SInv', DInv, NEW t \in Threads, NEW k \in Keys, Write(t, k)
    PROVE  DInv'
<1> DEFINE c == ssl[k]
           w == wire[c]
           n == Len(w)
<1>1. /\ c \in Conn \ freed /\ c # None /\ n > 0
      /\ UNCHANGED <<ssl, connections, conn, initialized, ready, logged, freed>>
  BY WriteIs
<1>2. PICK m \in Chunks, v \in Seq(Exchanges) :
          /\ Call(t, "reply", k, m)
          /\ Len(v) =< MaxExchanges
          /\ wire' = [wire EXCEPT ![c] = v]
          /\ v = [w EXCEPT ![n] = [req |-> @.req, rep |-> Append(@.rep, m)]]
          /\ \/ mixed' = mixed /\ ~Busy(k)
             \/ mixed' = mixed \cup {c} /\ BusyReading(k)
  BY WriteIs
<1>3. wire'[c] = v /\ \A d \in Conn : d # c => wire'[d] = wire[d]
  BY <1>1, <1>2, WireUpdate
<1>4. /\ w \in Seq(Exchanges) /\ conn[c] \in ConnRec /\ logged[c] \in Seq(Exchanges)
  BY <1>1, Types
<1>5. ASSUME BaseAt(w, conn[c], logged[c]), SettledAt(w, conn[c], logged[c])
      PROVE  /\ BaseAt(v, conn[c], logged[c])
             /\ ReplyingAt(v, conn[c], logged[c], m)
  BY <1>1, <1>2, <1>4, <1>5, Writes
<1>6. ASSUME BaseAt(w, conn[c], logged[c]), SettledAt(w, conn[c], logged[c])
      PROVE  /\ BaseAt(wire'[c], conn[c], logged[c])
             /\ StageAt("reply", m, wire'[c], conn[c], logged[c])
  BY <1>3, <1>5, <1>6 DEF StageAt, CloseHooks
<1>7. mixed \subseteq mixed' /\ (c \notin mixed' => ~Busy(k))
  BY <1>2
<1> QED BY <1>1, <1>2, <1>3, <1>6, <1>7, CallData

(* SSL_free is called when the slot is settled.                            *)
LEMMA CloseData ==
    ASSUME SInv, SInv', DInv, NEW t \in Threads, NEW k \in Keys, Close(t, k)
    PROVE  DInv'
<1>1. /\ ssl[k] # None /\ ~Busy(k) /\ Call(t, "close", k, None)
      /\ UNCHANGED <<ssl, connections, conn, initialized, ready, logged,
                     wire, mixed, freed>>
  BY DEF Close, history
<1> DEFINE c == ssl[k]
<1>2. ASSUME SettledAt(wire[c], conn[c], logged[c])
      PROVE  StageAt("close", None, wire'[c], conn[c], logged[c])
  BY <1>1, <1>2 DEF StageAt
<1>3. BaseAt(wire[c], conn[c], logged[c]) => BaseAt(wire'[c], conn[c], logged[c])
  BY <1>1
<1> QED BY <1>1, <1>2, <1>3, CallData

-----------------------------------------------------------------------------
(* The steps that collect a chunk in a slot. *)
LEMMA SetsData ==
    ASSUME SInv, SInv', DInv, NEW t \in Threads, Quiet(t, "idle"),
           NEW slot, NEW b, NEW i, Sets(cur[t], slot, b, i), logged' = logged,
           LET w == wire[cur[t]]
               r == conn[cur[t]]
               L == logged[cur[t]]
               s == [log_request |-> b, ignore_slots |-> i, slot |-> slot]
           IN  BaseAt(w, r, L) /\ StageAt(pc[t], chunk[t], w, r, L) =>
                   BaseAt(w, s, L) /\ SettledAt(w, s, L)
    PROVE  DInv'
<1> DEFINE c == ssl[key[t]]
<1>1. /\ pc[t] \in Looked /\ pc[t] # "idle" /\ pc' = [pc EXCEPT ![t] = "idle"]
      /\ UNCHANGED <<ssl, connections, key, chunk, cur, wire, mixed, freed>>
  BY DEF Quiet, Looked, history
<1>2. cur[t] = c /\ c \in Conn
  BY <1>1, Place
<1>3. /\ Conn' = Conn
      /\ conn'[c] = [log_request |-> b, ignore_slots |-> i, slot |-> slot]
      /\ \A d \in Conn : d # c => conn'[d] = conn[d]
  BY <1>2, LenProperties, Typed DEF Sets, Conn, SInv
<1>4. ASSUME BaseAt(wire[c], conn[c], logged[c]),
             StageAt(pc[t], chunk[t], wire[c], conn[c], logged[c])
      PROVE  /\ BaseAt(wire[c], conn'[c], logged'[c])
             /\ SettledAt(wire[c], conn'[c], logged'[c])
  BY <1>2, <1>3, <1>4
<1> QED BY <1>1, <1>3, <1>4, ActData

(* log_https_request brings its slot up to date (logpoint.c:160-182).      *)
LEMMA CollectData ==
    ASSUME SInv, SInv', DInv, NEW t \in Threads,
           AppendRequest(t) \/ FirstRequest(t) \/ IgnoreSlot(t) \/ RenewSlot(t)
    PROVE  DInv'
<1> DEFINE w == wire[cur[t]]
           r == conn[cur[t]]
           L == logged[cur[t]]
           m == chunk[t]
<1>1. Quiet(t, "idle") /\ logged' = logged
  BY AppendRequestIs, FirstRequestIs, IgnoreSlotIs, RenewSlotIs
<1>2. pc[t] \in Looked /\ pc[t] # "idle"
  BY <1>1 DEF Quiet, Looked
<1>3. cur[t] \in Conn /\ m \in Chunks
  BY <1>1, <1>2, Place DEF Quiet
<1>4. w \in Seq(Exchanges) /\ r \in ConnRec /\ L \in Seq(Exchanges)
  BY <1>3, Types
<1>5. r.ignore_slots \in 0..Ignored /\ r.log_request \in BOOLEAN
  <2>1. r.ignore_slots \in 0..Ignored
    BY <1>4 DEF ConnRec
  <2>2. r.log_request \in BOOLEAN
    BY <1>4, Zenon DEF ConnRec
  <2> QED BY <2>1, <2>2
<1> DEFINE s(slot, i) == [log_request |-> TRUE, ignore_slots |-> i,
                          slot |-> slot]
<1>6. ASSUME NEW slot \in Exchanges, NEW i \in 0..Ignored
      PROVE  s(slot, i) \in ConnRec
  BY DEF ConnRec
<1>7. CASE AppendRequest(t)
  <2> DEFINE x == [req |-> Append(r.slot.req, m), rep |-> r.slot.rep]
  <2>1. pc[t] = "test" /\ r.log_request /\ r.slot # None
        /\ Sets(cur[t], x, TRUE, r.ignore_slots)
    BY <1>7, AppendRequestIs DEF Slot
  <2>2. r.slot \in Exchanges
    BY <1>4, <2>1 DEF ConnRec
  <2>3. x \in Exchanges
    BY <1>3, <2>2, Collect
  <2>4. s(x, r.ignore_slots) \in ConnRec
    BY <1>5, <1>6, <2>3
  <2>5. ASSUME BaseAt(w, r, L), StageAt(pc[t], m, w, r, L)
        PROVE  /\ BaseAt(w, s(x, r.ignore_slots), L)
               /\ SettledAt(w, s(x, r.ignore_slots), L)
    <3> DEFINE q == s(x, r.ignore_slots)
    <3>1. q.log_request /\ q.slot = x /\ q.ignore_slots = r.ignore_slots
      OBVIOUS
    <3>2. StageAt("test", m, w, r, L)
      BY <2>1, <2>5
    <3>3. q \in ConnRec
      BY <2>4
    <3> HIDE DEF q, w, r, L, m
    <3>4. BaseAt(w, q, L) /\ SettledAt(w, q, L)
      BY <1>3, <1>4, <2>1, <2>5, <3>1, <3>2, <3>3, Collects
    <3> QED BY <3>4 DEF q
  <2> QED BY <1>1, <2>1, <2>5, SetsData
<1>8. CASE FirstRequest(t) \/ RenewSlot(t)
  <2> DEFINE x == [req |-> <<m>>, rep |-> <<>>]
  <2>1. /\ \/ pc[t] = "test" /\ ~r.log_request /\ r.slot = None
           \/ pc[t] = "renew"
        /\ Sets(cur[t], x, TRUE, r.ignore_slots)
    BY <1>8, FirstRequestIs, RenewSlotIs DEF Slot
  <2>3. x \in Exchanges
    BY <1>3, FirstChunk
  <2>4. s(x, r.ignore_slots) \in ConnRec
    BY <1>5, <1>6, <2>3
  <2>5. ASSUME BaseAt(w, r, L), StageAt(pc[t], m, w, r, L)
        PROVE  /\ BaseAt(w, s(x, r.ignore_slots), L)
               /\ SettledAt(w, s(x, r.ignore_slots), L)
    <3> DEFINE q == s(x, r.ignore_slots)
    <3>1. q.log_request /\ q.slot = x /\ q.ignore_slots = r.ignore_slots
      OBVIOUS
    <3>2. \/ StageAt("test", m, w, r, L) /\ ~r.log_request /\ r.slot = None
          \/ StageAt("renew", m, w, r, L)
      BY <2>1, <2>5
    <3>3. q \in ConnRec
      BY <2>4
    <3> HIDE DEF q, w, r, L, m
    <3>4. BaseAt(w, q, L) /\ SettledAt(w, q, L)
      BY <1>3, <1>4, <2>5, <3>1, <3>2, <3>3, Collects
    <3> QED BY <3>4 DEF q
  <2> QED BY <1>1, <2>1, <2>5, SetsData
<1>9. CASE IgnoreSlot(t)
  <2> DEFINE x == [req |-> <<m>>, rep |-> <<>>]
             i == r.ignore_slots - 1
  <2>1. /\ pc[t] = "test" /\ ~r.log_request /\ r.slot # None
        /\ r.ignore_slots > 0
        /\ Sets(cur[t], x, TRUE, i)
    BY <1>9, IgnoreSlotIs DEF Slot
  <2>2. i \in 0..Ignored
    BY <1>5, <2>1, Constants
  <2>3. x \in Exchanges
    BY <1>3, FirstChunk
  <2>4. s(x, i) \in ConnRec
    BY <1>6, <2>2, <2>3
  <2>5. ASSUME BaseAt(w, r, L), StageAt(pc[t], m, w, r, L)
        PROVE  BaseAt(w, s(x, i), L) /\ SettledAt(w, s(x, i), L)
    <3> DEFINE q == s(x, i)
    <3>1. q.log_request /\ q.slot = x /\ q.ignore_slots = r.ignore_slots - 1
      OBVIOUS
    <3>2. StageAt("test", m, w, r, L)
      BY <2>1, <2>5
    <3>3. q \in ConnRec
      BY <2>4
    <3> HIDE DEF q, w, r, L, m
    <3>4. BaseAt(w, q, L) /\ SettledAt(w, q, L)
      BY <1>3, <1>4, <2>1, <2>5, <3>1, <3>2, <3>3, Collects
    <3> QED BY <3>4 DEF q
  <2> QED BY <1>1, <2>1, <2>5, SetsData
<1> QED BY <1>7, <1>8, <1>9

(* log_https_reply brings its slot up to date (logpoint.c:214-221).        *)
LEMMA AppendReplyData ==
    ASSUME SInv, SInv', DInv, NEW t \in Threads, AppendReply(t)
    PROVE  DInv'
<1> DEFINE w == wire[cur[t]]
           r == conn[cur[t]]
           L == logged[cur[t]]
           m == chunk[t]
           x == [req |-> r.slot.req, rep |-> Append(r.slot.rep, m)]
           s == [log_request |-> FALSE, ignore_slots |-> r.ignore_slots,
                 slot |-> x]
<1>1. /\ Quiet(t, "idle") /\ logged' = logged /\ pc[t] = "append"
      /\ r.slot # None /\ Sets(cur[t], x, FALSE, r.ignore_slots)
  BY AppendReplyIs DEF Slot
<1>2. cur[t] \in Conn /\ m \in Chunks
  BY <1>1, Place DEF Looked
<1>3. w \in Seq(Exchanges) /\ r \in ConnRec /\ L \in Seq(Exchanges)
  BY <1>2, Types
<1>4. r.slot \in Exchanges /\ r.ignore_slots \in 0..Ignored
  BY <1>1, <1>3 DEF ConnRec
<1>5. x \in Exchanges
  BY <1>2, <1>4, Collect
<1>6. s \in ConnRec
  BY <1>4, <1>5 DEF ConnRec
<1>7. ASSUME BaseAt(w, r, L), StageAt(pc[t], m, w, r, L)
      PROVE  BaseAt(w, s, L) /\ SettledAt(w, s, L)
  <2>1. ~s.log_request /\ s.slot = x /\ s.ignore_slots = r.ignore_slots
    OBVIOUS
  <2>2. StageAt("append", m, w, r, L)
    BY <1>1, <1>7
  <2> HIDE DEF s, w, r, L, m
  <2> QED BY <1>2, <1>3, <1>6, <1>7, <2>1, <2>2, CollectsReply
<1> QED BY <1>1, <1>7, SetsData

-----------------------------------------------------------------------------
(* The other steps of a hook. *)
LEMMA PassData ==
    ASSUME SInv, DInv, NEW t \in Threads, NEW l, Passes(t, l),
           logged' = logged,
           LET c == cur[t]
           IN  StageAt(pc[t], chunk[t], wire[c], conn[c], logged[c]) =>
                   IF l = "idle" THEN SettledAt(wire[c], conn[c], logged[c])
                   ELSE StageAt(l, chunk[t], wire[c], conn[c], logged[c])
    PROVE  DInv'
<1>1. /\ pc[t] \in Looked /\ pc[t] # "idle" /\ pc' = [pc EXCEPT ![t] = l]
      /\ UNCHANGED <<ssl, key, chunk, wire, mixed, freed>>
      /\ conn' = conn /\ logged' = logged /\ Conn' = Conn
  BY DEF Passes, Looked, history, Conn
<1>2. cur[t] = ssl[key[t]]
  BY <1>1, Place
<1> QED BY <1>1, <1>2, ActData

(* Neither do the steps to and through the barrier (logpoint.c:104-122).   *)
LEMMA MovesData ==
    ASSUME SInv, DInv, NEW t \in Threads,
           \/ FlushSlot(t) \/ FlushLastSlot(t) \/ DropReply(t)
           \/ Enter(t) \/ FinishInit(t) \/ StopSpinning(t)
    PROVE  DInv'
<1> DEFINE w == wire[cur[t]]
           r == conn[cur[t]]
           L == logged[cur[t]]
           m == chunk[t]
<1>1. pc[t] \in Looked /\ pc[t] # "idle"
  <2>1. \E l : Passes(t, l)
    BY MovesAre
  <2> QED BY <2>1 DEF Passes, Looked
<1>2. /\ cur[t] \in Conn /\ m \in Chunks \cup {None}
      /\ pc[t] \in {"test", "append"} => m \in Chunks
      /\ pc[t] = "closing" => m = None
  BY <1>1, Place DEF SInv, Hooks, CloseHooks
<1>3. w \in Seq(Exchanges) /\ r \in ConnRec /\ L \in Seq(Exchanges)
  BY <1>2, Types
<1>4. CASE FlushSlot(t) \/ FlushLastSlot(t)
  <2>1. /\ Passes(t, "entry") /\ logged' = logged /\ r.slot # None
        /\ r.ignore_slots = 0
        /\ \/ pc[t] = "test" /\ ~r.log_request
           \/ pc[t] = "closing"
    BY <1>4, MovesAre DEF Slot
  <2>2. ASSUME StageAt(pc[t], m, w, r, L)
        PROVE  StageAt("entry", m, w, r, L)
    <3>1. \/ StageAt("test", m, w, r, L) /\ ~r.log_request /\ m \in Chunks
          \/ StageAt("closing", m, w, r, L) /\ m = None
      BY <1>2, <2>1, <2>2
    <3> HIDE DEF w, r, L, m
    <3> QED BY <1>3, <2>1, <3>1, Flushes
  <2> QED BY <2>1, <2>2, PassData
<1>5. CASE DropReply(t)
  <2>1. /\ Passes(t, "idle") /\ logged' = logged /\ r.slot = None
        /\ pc[t] = "append"
    BY <1>5, MovesAre DEF Slot
  <2>2. ~StageAt(pc[t], m, w, r, L)
    <3> HIDE DEF w, r, L, m
    <3> QED BY <2>1 DEF StageAt, ReplyingAt
  <2> QED BY <2>1, <2>2, PassData
<1>6. CASE Enter(t) \/ FinishInit(t) \/ StopSpinning(t)
  <2>1. PICK l \in Logging :
            Passes(t, l) /\ pc[t] \in Logging /\ logged' = logged
    BY <1>6, MovesAre
  <2>2. ASSUME StageAt(pc[t], m, w, r, L) PROVE StageAt(l, m, w, r, L)
    <3> HIDE DEF w, r, L, m
    <3> QED BY <2>1, <2>2 DEF StageAt, Logging, CloseHooks
  <2>3. l # "idle"
    BY DEF Logging
  <2> QED BY <2>1, <2>2, <2>3, PassData
<1> QED BY <1>4, <1>5, <1>6

(* logpoint_log takes the next exchange (logpoint.c:125).                  *)
LEMMA LogEntryData ==
    ASSUME SInv, DInv, NEW t \in Threads, LogEntry(t)
    PROVE  DInv'
<1> DEFINE c == cur[t]
           w == wire[c]
           r == conn[c]
           L == logged[c]
           m == chunk[t]
<1>1. /\ Passes(t, "renew") /\ pc[t] = "log"
      /\ logged'[c] = Append(L, r.slot)
      /\ \A d \in Conn : d # c => logged'[d] = logged[d]
  BY LogEntryIs DEF Slot
<1>2. /\ c = ssl[key[t]] /\ c \in Conn /\ m \in Chunks \cup {None}
  BY <1>1, Place DEF Looked
<1>3. w \in Seq(Exchanges) /\ r \in ConnRec /\ L \in Seq(Exchanges)
  BY <1>2, Types
<1>4. /\ pc' = [pc EXCEPT ![t] = "renew"] /\ conn' = conn /\ Conn' = Conn
      /\ UNCHANGED <<ssl, key, chunk, wire, mixed, freed>>
  BY <1>1 DEF Passes, history, Conn
<1>5. ASSUME BaseAt(w, r, L), StageAt(pc[t], m, w, r, L)
      PROVE  BaseAt(w, r, logged'[c]) /\ StageAt("renew", m, w, r, logged'[c])
  <2>1. StageAt("log", m, w, r, L)
    BY <1>1, <1>5
  <2> HIDE DEF w, r, L, m
  <2>2. /\ BaseAt(w, r, Append(L, r.slot))
        /\ StageAt("renew", m, w, r, Append(L, r.slot))
    BY <1>2, <1>3, <1>5, <2>1, Logs
  <2> QED BY <2>2, <1>1
<1> QED BY <1>1, <1>2, <1>4, <1>5, ActData

(* Nor does looking up or removing a connection.                           *)
LEMMA LookupData ==
    ASSUME SInv, DInv, NEW t \in Threads, Lookup(t) \/ Remove(t)
    PROVE  DInv'
<1>1. PICK l \in {"test", "append", "closing"} :
          /\ \/ l = "test" /\ pc[t] = "request"
             \/ l = "append" /\ pc[t] = "reply"
             \/ l = "closing" /\ pc[t] = "close"
          /\ pc' = [pc EXCEPT ![t] = l]
          /\ UNCHANGED <<ssl, conn, key, chunk, logged, wire, mixed, freed>>
  BY LookupIs, RemoveIs DEF history
<1> DEFINE c == ssl[key[t]]
<1>2. ASSUME StageAt(pc[t], chunk[t], wire[c], conn[c], logged[c])
      PROVE  StageAt(l, chunk[t], wire[c], conn[c], logged[c])
  BY <1>1, <1>2 DEF StageAt, CloseHooks
<1>3. pc[t] # "idle" /\ Conn' = Conn /\ l # "idle"
  BY <1>1 DEF Conn
<1> QED BY <1>1, <1>2, <1>3, ActData

(* A connection that no hook runs on any more. *)
LEMMA Freed ==
    ASSUME NEW c, \A u \in Threads : ~OnConn(u, c)', c \in freed',
           BaseAt(wire'[c], conn'[c], logged'[c]),
           Len(logged'[c]) = Due(Len(wire'[c]))
    PROVE  LocalAt(c)'
<1>1. BaseAt(wire[c], conn[c], logged[c])'
  BY DEF BaseAt
<1>2. (Len(logged[c]) = Due(Len(wire[c])))'
  BY DEF Due
<1> QED BY <1>1, <1>2, Zenon DEF LocalAt

(* A connection is freed after its last exchange is logged                 *)
(* (logpoint.c:282-291).                                                   *)
LEMMA FreeData ==
    ASSUME SInv, SInv', DInv, NEW t \in Threads, FreeUnlogged(t) \/ FreeLogged(t)
    PROVE  DInv'
<1> DEFINE c == cur[t]
           w == wire[c]
           r == conn[c]
           L == logged[c]
<1>1. /\ pc[t] \in {"closing", "renew"} /\ chunk[t] = None
      /\ pc[t] = "closing" => ~(r.slot # None /\ r.ignore_slots = 0)
      /\ pc' = [pc EXCEPT ![t] = "idle"]
      /\ ssl' = [ssl EXCEPT ![key[t]] = None]
      /\ freed' = freed \cup {c}
      /\ \A d \in Conn : d # c => conn'[d] = conn[d]
      /\ conn'[c].ignore_slots = r.ignore_slots
      /\ UNCHANGED <<key, chunk, cur, logged, wire, mixed>>
  BY FreeIs DEF LastSlotLogged, Slot
<1>2. /\ pc'[t] = "idle" /\ pc[t] # "idle"
      /\ \A u \in Threads : u # t => pc'[u] = pc[u]
      /\ c = ssl[key[t]] /\ c \in Conn /\ key[t] \in Keys
      /\ Conn' = Conn /\ c # None
  <2>1. /\ pc'[t] = "idle" /\ pc[t] # "idle"
        /\ \A u \in Threads : u # t => pc'[u] = pc[u]
    BY <1>1 DEF SInv, TypeOK
  <2>2. /\ c = ssl[key[t]] /\ c \in Conn /\ key[t] \in Keys /\ c # None
    BY <1>1, Place DEF Looked
  <2>3. Conn' = Conn
    BY FreeIs, Typed, LenProperties DEF SInv, Conn
  <2> QED BY <2>1, <2>2, <2>3
<1>3. \A u \in Threads : u # t /\ pc[u] # "idle" => key[u] # key[t]
  BY <1>1, <1>2 DEF SInv, Alone
<1>4. ASSUME NEW d \in Conn \ mixed, d # c
      PROVE  LocalAt(d)'
  <2>1. LocalAt(d)
    BY <1>4 DEF DInv
  <2>2. ~OnConn(t, d) /\ ~OnConn(t, d)'
    BY <1>2, <1>4 DEF OnConn
  <2>3. ASSUME NEW u \in Threads
        PROVE  /\ OnConn(u, d)' <=> OnConn(u, d)
               /\ OnConn(u, d) => pc'[u] = pc[u] /\ chunk'[u] = chunk[u]
    <3>1. CASE u = t
      BY <2>2, <3>1
    <3>2. CASE u # t
      <4>1. pc'[u] = pc[u] /\ key'[u] = key[u] /\ chunk'[u] = chunk[u]
        BY <1>1, <1>2, <3>2
      <4>2. pc[u] # "idle" => ssl'[key[u]] = ssl[key[u]]
        BY <1>1, <1>3, <3>2 DEF SInv, Hooks, TypeOK
      <4> QED BY <4>1, <4>2 DEF OnConn
    <3> QED BY <3>1, <3>2
  <2>4. d \in freed' <=> d \in freed
    BY <1>1, <1>4
  <2> QED BY <1>1, <1>4, <2>1, <2>3, <2>4, Frame
<1>5. ASSUME c \notin mixed
      PROVE  LocalAt(c)'
  <2>1. /\ BaseAt(w, r, L) /\ StageAt(pc[t], None, w, r, L)
    BY <1>1, <1>2, <1>5, Zenon DEF DInv, LocalAt, OnConn
  <2>2. /\ w \in Seq(Exchanges) /\ r \in ConnRec /\ L \in Seq(Exchanges)
    BY <1>2, Types
  <2>3. \A u \in Threads : ~OnConn(u, c)'
    <3>1. ASSUME NEW u \in Threads, pc'[u] # "idle", ssl'[key[u]] = c
          PROVE  FALSE
      <4>1. u # t /\ pc[u] # "idle" /\ key[u] # key[t] /\ key[u] \in Keys
        BY <1>2, <1>3, <3>1 DEF SInv, Hooks
      <4>2. ssl[key[u]] = c
        BY <1>1, <3>1, <4>1 DEF SInv, TypeOK
      <4> QED BY <1>2, <4>1, <4>2 DEF SInv, Maps
    <3> QED BY <1>1, <3>1 DEF OnConn
  <2> HIDE DEF w, r, L
  <2>4. Len(L) = Due(Len(w))
    <3>1. CASE pc[t] = "closing"
      <4>1. SettledAt(w, r, L)
        BY <2>1, <3>1 DEF StageAt, CloseHooks
      <4> QED BY <1>1, <2>1, <2>2, <3>1, <4>1, Closes
    <3>2. CASE pc[t] = "renew"
      BY <2>1, <2>2, <3>2, Closes
    <3> QED BY <1>1, <3>1, <3>2
  <2>5. BaseAt(w, conn'[c], L)
    BY <1>1, <2>1 DEF BaseAt
  <2> HIDE DEF c
  <2>6. BaseAt(wire'[c], conn'[c], logged'[c])
        /\ Len(logged'[c]) = Due(Len(wire'[c])) /\ c \in freed'
    BY <1>1, <2>4, <2>5 DEF w, L
  <2>7. c' = c
    BY <1>1, FreeIs DEF c
  <2> QED BY <2>3, <2>6, <2>7, Freed
<1>6. \A d \in Conn \ mixed : LocalAt(d)'
  BY <1>1, <1>4, <1>5
<1> QED BY <1>1, <1>2, <1>6 DEF DInv

(* A new connection has exchanged and logged nothing.                      *)
LEMMA NewConnectionData ==
    ASSUME SInv, SInv', DInv, NEW k \in Keys, NewConnection(k)
    PROVE  DInv'
<1> DEFINE n == Len(conn) + 1
<1>1. /\ ssl[k] = None
      /\ Conn' = Conn \cup {n} /\ n \notin Conn
      /\ \A c \in Conn : /\ conn'[c] = conn[c] /\ wire'[c] = wire[c]
                         /\ logged'[c] = logged[c]
      /\ conn'[n] = [log_request |-> FALSE, ignore_slots |-> Ignored, slot |-> None]
      /\ wire'[n] = <<>> /\ logged'[n] = <<>>
      /\ ssl' = [ssl EXCEPT ![k] = n]
      /\ UNCHANGED <<pc, key, chunk, mixed, freed>>
  BY NewConnectionIs DEF hookVars
<1> HIDE DEF n
<1>2. \A u \in Threads : pc[u] # "idle" =>
          /\ key[u] \in Keys /\ key[u] # k /\ ssl'[key[u]] = ssl[key[u]]
          /\ ssl[key[u]] \in Conn
  BY <1>1 DEF SInv, Hooks, Maps, TypeOK
<1>3. ASSUME NEW c \in Conn \ mixed
      PROVE  LocalAt(c)'
  <2>1. LocalAt(c)
    BY DEF DInv
  <2>2. \A u \in Threads : /\ OnConn(u, c)' <=> OnConn(u, c)
                           /\ OnConn(u, c) => pc'[u] = pc[u] /\ chunk'[u] = chunk[u]
    BY <1>1, <1>2 DEF OnConn
  <2> QED BY <1>1, <2>1, <2>2, Frame
<1>4. ASSUME NEW c, c = n
      PROVE  LocalAt(c)'
  <2>1. \A u \in Threads : ~OnConn(u, c)'
    BY <1>1, <1>2, <1>4 DEF OnConn
  <2>2. c \notin freed'
    BY <1>1, <1>4 DEF SInv, Lengths
  <2>3. BaseAt(wire'[c], conn'[c], logged'[c])
    BY <1>1, <1>4 DEF BaseAt
  <2>4. SettledAt(wire'[c], conn'[c], logged'[c])
    <3> DEFINE q == conn'[c]
    <3>1. q.slot = None /\ q.ignore_slots = Ignored /\ ~q.log_request
      BY <1>1, <1>4
    <3>2. wire'[c] = <<>> /\ logged'[c] = <<>> /\ Len(<<>>) = 0
      BY <1>1, <1>4
    <3>3. Ignored \in Int
      BY Constants
    <3> HIDE DEF q
    <3>4. SettledAt(<<>>, q, <<>>)
      BY <3>1, <3>2, <3>3 DEF SettledAt, DoneAt
    <3> QED BY <3>2, <3>4 DEF q
  <2> QED BY <2>1, <2>2, <2>3, <2>4, Zenon DEF LocalAt
<1>5. \A c \in Conn' \ mixed' : LocalAt(c)'
  BY <1>1, <1>3, <1>4
<1> QED BY <1>5 DEF DInv

(* Stuttering changes no data.                                             *)
LEMMA StutterData ==
    ASSUME DInv, UNCHANGED vars
    PROVE  DInv'
<1>1. UNCHANGED <<ssl, conn, pc, key, chunk, logged, wire, mixed, freed>>
  BY DEF vars, hookVars, history
<1>2. ASSUME NEW c \in Conn \ mixed
      PROVE  LocalAt(c)'
  <2>1. LocalAt(c)
    BY DEF DInv
  <2>2. \A u \in Threads : /\ OnConn(u, c)' <=> OnConn(u, c)
                           /\ OnConn(u, c) => pc'[u] = pc[u] /\ chunk'[u] = chunk[u]
    BY <1>1 DEF OnConn
  <2> QED BY <1>1, <2>1, <2>2, Frame
<1> QED BY <1>1, <1>2 DEF DInv, Conn

(* Every step keeps the data of all unmixed connections.                   *)
LEMMA NextD == SInv /\ SInv' /\ DInv /\ [Next]_vars => DInv'
<1> SUFFICES ASSUME SInv, SInv', DInv, [Next]_vars PROVE DInv'
  OBVIOUS
<1>1. ASSUME NEW k \in Keys, NewConnection(k) PROVE DInv'
  BY <1>1, NewConnectionData
<1>2. ASSUME NEW t \in Threads, NEW k \in Keys,
             Read(t, k) \/ Write(t, k) \/ Close(t, k)
      PROVE  DInv'
  BY <1>2, ReadData, WriteData, CloseData
<1>3. ASSUME NEW t \in Threads, Hook(t) PROVE DInv'
  <2>1. CASE Lookup(t) \/ Remove(t)
    BY <2>1, LookupData
  <2>2. CASE AppendRequest(t) \/ FirstRequest(t) \/ IgnoreSlot(t) \/ RenewSlot(t)
    BY <2>2, CollectData
  <2>3. CASE AppendReply(t)
    BY <2>3, AppendReplyData
  <2>4. CASE \/ FlushSlot(t) \/ FlushLastSlot(t) \/ DropReply(t)
             \/ Enter(t) \/ FinishInit(t) \/ StopSpinning(t)
    BY <2>4, MovesData
  <2>5. CASE LogEntry(t)
    BY <2>5, LogEntryData
  <2>6. CASE FreeUnlogged(t) \/ FreeLogged(t)
    BY <2>6, FreeData
  <2> QED BY <1>3, <2>1, <2>2, <2>3, <2>4, <2>5, <2>6 DEF Hook
<1>4. CASE UNCHANGED vars
  BY <1>4, StutterData
<1> QED BY <1>1, <1>2, <1>3, <1>4 DEF Next

(* In every reachable state each unmixed connection has logged what its    *)
(* slot has held before, and its slot is at most one chunk behind.         *)
LEMMA DataHolds == Spec => [](SInv /\ DInv)
<1>1. Init => DInv
  BY DEF Init, DInv, Conn
<1>2. SInv /\ DInv /\ [Next]_vars => SInv' /\ DInv'
  BY NextS, NextD
<1> QED BY <1>1, <1>2, InitS, PTL DEF Spec

(* On every connection whose requests and replies alternate, what is       *)
(* handed to logpoint_log is whole exchanges, in order and with none left  *)
(* out (logpoint.c:149-222), whatever other connections do.                *)
THEOREM ExchangesAreLoggedWhole == Spec => []ExchangesLoggedWhole
<1>1. SInv /\ DInv => ExchangesLoggedWhole
  <2> SUFFICES ASSUME SInv, DInv, NEW c \in DOMAIN wire \ mixed
               PROVE  WholeOn(c)
    BY DEF ExchangesLoggedWhole
  <2>1. c \in Conn
    BY Typed DEF SInv, Lengths, Conn
  <2>2. BaseAt(wire[c], conn[c], logged[c])
    BY <2>1, Zenon DEF DInv, LocalAt
  <2> QED BY <2>2, Zenon DEF BaseAt, WholeOn
<1> QED BY <1>1, DataHolds, PTL

(* Requests and replies alternate everywhere. *)
Unmixed == mixed = {}

(* Without overlapping hooks and interim replies no connection is mixed.   *)
LEMMA NothingMixed ==
    ASSUME ~Overlap, ~Interim
    PROVE  Spec => []Unmixed
<1>1. Init => Unmixed
  BY DEF Init, Unmixed
<1>2. Unmixed /\ [Next]_vars => Unmixed'
  <2> SUFFICES ASSUME [Next]_vars PROVE mixed' = mixed
    BY DEF Unmixed
  <2>1. ASSUME NEW k \in Keys, NewConnection(k) PROVE mixed' = mixed
    BY <2>1 DEF NewConnection
  <2>2. ASSUME NEW t \in Threads, NEW k \in Keys, Read(t, k) PROVE mixed' = mixed
    BY <2>2, Zenon DEF Read
  <2>3. ASSUME NEW t \in Threads, NEW k \in Keys, Write(t, k) PROVE mixed' = mixed
    <3>1. ~Busy(k)
      BY <2>3, Zenon DEF Write
    <3> QED BY <2>3, <3>1 DEF Write
  <2>4. ASSUME NEW t \in Threads, NEW k \in Keys, Close(t, k) PROVE mixed' = mixed
    BY <2>4 DEF Close, history
  <2>5. ASSUME NEW t \in Threads, Hook(t) PROVE mixed' = mixed
    BY <2>5 DEF Hook, Lookup, AppendRequest, FirstRequest, IgnoreSlot,
       DropSlot, FlushSlot, RenewSlot, Renew, AppendReply, AddReply,
       DropReply, Enter, Arrive, FinishInit, StopSpinning, LeaveBarrier,
       LogEntry, Remove, FreeUnlogged, FlushLastSlot, LeaveClosing,
       FreeLogged, Free, history
  <2>6. CASE UNCHANGED vars
    BY <2>6 DEF vars, history
  <2> QED BY <2>1, <2>2, <2>3, <2>4, <2>5, <2>6 DEF Next
<1> QED BY <1>1, <1>2, PTL DEF Spec

(* Without overlaps and interim replies all exchanges of a connection have *)
(* been logged when it is freed, except those to ignore                    *)
(* (logpoint.c:264-291).                                                   *)
THEOREM ClosedConnectionsAreLogged ==
    ASSUME ~Overlap, ~Interim
    PROVE  Spec => []ClosedIsLogged
<1>1. SInv /\ DInv /\ Unmixed => ClosedIsLogged
  <2> SUFFICES ASSUME SInv, DInv, Unmixed, NEW c \in freed
               PROVE  Len(logged[c]) = Due(Len(wire[c]))
    BY DEF ClosedIsLogged
  <2>1. c \in Conn \ mixed
    BY DEF SInv, Lengths, Unmixed
  <2> QED BY <2>1, Zenon DEF DInv, LocalAt
<1>2. Spec => []Unmixed
  BY NothingMixed
<1> QED BY <1>1, <1>2, DataHolds, PTL

(* Without overlaps and interim replies the log of an open connection      *)
(* lacks its last exchange and no other (logpoint.c:149-182).              *)
THEOREM LogLags ==
    ASSUME ~Overlap, ~Interim
    PROVE  Spec => []LogLagsByOne
<1>1. SInv /\ DInv /\ Unmixed => LogLagsByOne
  <2> SUFFICES ASSUME SInv, DInv, Unmixed, NEW k \in Keys,
                      ssl[k] # None, ~Busy(k)
               PROVE  Len(logged[ssl[k]]) = Due(Len(wire[ssl[k]]) - 1)
    BY DEF LogLagsByOne
  <2> DEFINE c == ssl[k]
  <2>1. c \in Conn \ mixed /\ c \notin freed
    BY DEF SInv, Maps, Unmixed
  <2>2. \A t \in Threads : ~OnConn(t, c)
    <3>1. ASSUME NEW t \in Threads, OnConn(t, c) PROVE FALSE
      <4>1. key[t] = k
        BY <3>1 DEF OnConn, SInv, Maps, Hooks
      <4> QED BY <3>1, <4>1 DEF Busy, OnConn
    <3> QED BY <3>1
  <2> DEFINE w == wire[c]
             r == conn[c]
             L == logged[c]
  <2>3. w \in Seq(Exchanges) /\ r \in ConnRec /\ L \in Seq(Exchanges)
    BY <2>1, Types
  <2>4. BaseAt(w, r, L) /\ SettledAt(w, r, L)
    BY <2>1, <2>2, Zenon DEF DInv, LocalAt
  <2> HIDE DEF w, r, L
  <2>5. Len(L) = Due(Len(w) - 1)
    BY <2>3, <2>4, Closes
  <2> QED BY <2>5 DEF w, L
<1>2. Spec => []Unmixed
  BY NothingMixed
<1> QED BY <1>1, <1>2, DataHolds, PTL
-----------------------------------------------------------------------------
(* THE REQUESTS OF A CONNECTION, however replies overlap with them.        *)

(* What the slot holds of the request under way. *)
Held(r) == IF r.slot = None THEN <<>> ELSE r.slot.req

(* What has been received but not logged: the slot, unless it has just been*)
(* logged, and the chunk that a hook has not collected yet.                *)
OwedAt(l, m, r) ==
    (IF l = "renew" THEN <<>> ELSE Held(r)) \o (IF m = None THEN <<>> ELSE <<m>>)

OwesAt(l, m, w, r, L) == Requests(w) = Requests(L) \o OwedAt(l, m, r)

(* The hook of a request, or of SSL_free, says what is owed; if there is   *)
(* none, it is what the slot holds.                                        *)
RequestsAt(c) ==
    IF c \in freed THEN Requests(logged[c]) = Requests(wire[c])
    ELSE /\ (\A t \in Threads : OnConn(t, c) => pc[t] \in ReplyHooks) =>
               OwesAt("idle", None, wire[c], conn[c], logged[c])
         /\ \A t \in Threads : OnConn(t, c) /\ pc[t] \notin ReplyHooks =>
               OwesAt(pc[t], chunk[t], wire[c], conn[c], logged[c])

RInv == \A c \in Conn : RequestsAt(c)

(* Of two hooks on one connection, one belongs to a reply. *)
Apart ==
    \A t, u \in Threads :
        pc[t] # "idle" /\ pc[u] # "idle" /\ key[t] = key[u] /\ t # u =>
            pc[t] \in ReplyHooks \/ pc[u] \in ReplyHooks

(* The requests of some exchanges, one by one. *)
Reqs(w) == [i \in DOMAIN w |-> w[i].req]

(* The requests are a sequence of sequences of chunks.                     *)
LEMMA ReqsAre ==
    ASSUME NEW w \in Seq(Exchanges)
    PROVE  /\ Requests(w) = Flat(Reqs(w))
           /\ Reqs(w) \in Seq(Seq(Chunks)) /\ Len(Reqs(w)) = Len(w)
           /\ \A i \in 1..Len(w) : Reqs(w)[i] = w[i].req
           /\ Requests(w) \in Seq(Chunks)
<1>1. /\ Len(w) \in Nat /\ DOMAIN w = 1..Len(w)
      /\ \A i \in 1..Len(w) : w[i].req \in Seq(Chunks)
  <2>1. \A i \in 1..Len(w) : w[i] \in Exchanges
    BY ElementOfSeq
  <2> QED BY <2>1, LenProperties DEF Exchanges
<1>2. Requests(w) = Flat(Reqs(w))
  BY DEF Requests, Flat, Reqs, S!FlattenSeq
<1>3. Reqs(w) \in Seq(Seq(Chunks)) /\ Len(Reqs(w)) = Len(w)
  <2> DEFINE T == Seq(Chunks)
  <2>1. Reqs(w) \in [1..Len(w) -> T]
    BY <1>1 DEF Reqs
  <2> HIDE DEF T
  <2>2. ASSUME NEW n \in Nat, NEW f \in [1..n -> T]
        PROVE  f \in Seq(T) /\ Len(f) = n
    OBVIOUS
  <2>3. Reqs(w) \in Seq(T) /\ Len(Reqs(w)) = Len(w)
    BY <1>1, <2>1, <2>2
  <2> QED BY <2>3 DEF T
<1>4. \A i \in 1..Len(w) : Reqs(w)[i] = w[i].req
  BY <1>1 DEF Reqs
<1>5. Flat(Reqs(w)) \in Seq(Chunks)
  BY <1>3, FlatType
<1> QED BY <1>2, <1>3, <1>4, <1>5

(* No exchange, no request.                                                *)
LEMMA RequestsNone == Requests(<<>>) = <<>>
<1>1. <<>> \in Seq(Exchanges) /\ Reqs(<<>>) = <<>>
  BY EmptySeq DEF Reqs
<1> QED BY <1>1, ReqsAre, FlatEmpty

(* An exchange brings its request.                                         *)
LEMMA RequestsAppend ==
    ASSUME NEW w \in Seq(Exchanges), NEW x \in Exchanges
    PROVE  Requests(Append(w, x)) = Requests(w) \o x.req
<1> DEFINE v == Append(w, x)
           T == Seq(Chunks)
<1>1. /\ v \in Seq(Exchanges) /\ Len(v) = Len(w) + 1 /\ Len(w) \in Nat
      /\ (\A i \in 1..Len(w) : v[i] = w[i]) /\ v[Len(w) + 1] = x
  BY AppendProperties, LenProperties
<1>2. x.req \in T
  BY DEF Exchanges
<1>3. /\ Reqs(w) \in Seq(T) /\ Len(Reqs(w)) = Len(w)
      /\ \A i \in 1..Len(w) : Reqs(w)[i] = w[i].req
  BY ReqsAre
<1>4. /\ Reqs(v) \in Seq(T) /\ Len(Reqs(v)) = Len(v)
      /\ \A i \in 1..Len(v) : Reqs(v)[i] = v[i].req
  BY <1>1, ReqsAre
<1>5. Requests(v) = Flat(Reqs(v)) /\ Requests(w) = Flat(Reqs(w))
  BY <1>1, ReqsAre
<1> HIDE DEF v, T
<1> DEFINE a == Append(Reqs(w), x.req)
<1>6. /\ a \in Seq(T) /\ Len(a) = Len(w) + 1 /\ a[Len(w) + 1] = x.req
      /\ \A i \in 1..Len(w) : a[i] = w[i].req
  BY <1>2, <1>3, AppendProperties
<1> HIDE DEF a
<1>7. \A i \in 1..(Len(w) + 1) : Reqs(v)[i] = a[i]
  BY <1>1, <1>4, <1>6
<1>8. Reqs(v) = a
  BY <1>1, <1>4, <1>6, <1>7, SeqEqual
<1>9. Flat(a) = Flat(Reqs(w)) \o x.req
  BY <1>2, <1>3, FlatAppend DEF a, T
<1> QED BY <1>5, <1>8, <1>9 DEF v

(* A further chunk of the request under way is the last one received.      *)
LEMMA RequestsContinue ==
    ASSUME NEW w \in Seq(Exchanges), Len(w) > 0, NEW x \in Exchanges,
           NEW m \in Chunks, x.req = Append(w[Len(w)].req, m)
    PROVE  Requests([w EXCEPT ![Len(w)] = x]) = Append(Requests(w), m)
<1> DEFINE n == Len(w)
           v == [w EXCEPT ![n] = x]
           a == SubSeq(w, 1, n - 1)
<1>1. n \in Nat /\ n \in 1..n /\ n > 0
  BY LenProperties
<1>2. /\ v \in Seq(Exchanges) /\ Len(v) = n
      /\ \A i \in 1..n : v[i] = IF i = n THEN x ELSE w[i]
  BY <1>1, ExceptSeq
<1>3. w = Append(a, w[n]) /\ a \in Seq(Exchanges) /\ w[n] \in Exchanges
  BY <1>1, LastApart, SubSeqFull
<1> HIDE DEF v
<1>4. v = Append(SubSeq(v, 1, n - 1), x)
  <2>1. v = Append(SubSeq(v, 1, n - 1), v[n])
    BY <1>1, <1>2, LastApart, SubSeqFull
  <2>2. v[n] = x
    BY <1>1, <1>2
  <2> QED BY <2>1, <2>2
<1>5. SubSeq(v, 1, n - 1) = a
  <2> DEFINE b == SubSeq(v, 1, n - 1)
  <2>1. /\ 1 \in Int /\ n - 1 \in Int
        /\ \A i \in 1..(n - 1) : w[i] \in Exchanges /\ v[i] \in Exchanges /\ v[i] = w[i]
    BY <1>1, <1>2, ElementOfSeq
  <2>2. /\ a \in Seq(Exchanges)
        /\ Len(a) = IF 1 <= n - 1 THEN (n - 1) - 1 + 1 ELSE 0
        /\ \A i \in 1..(n - 1) - 1 + 1 : a[i] = w[1 + i - 1]
    BY <2>1, SubSeqProperties
  <2>3. /\ b \in Seq(Exchanges)
        /\ Len(b) = IF 1 <= n - 1 THEN (n - 1) - 1 + 1 ELSE 0
        /\ \A i \in 1..(n - 1) - 1 + 1 : b[i] = v[1 + i - 1]
    BY <2>1, SubSeqProperties
  <2> HIDE DEF a, b, n
  <2>7. /\ (n - 1) - 1 + 1 = n - 1 /\ (1 <= n - 1 \/ n - 1 = 0)
        /\ \A i \in 1..(n - 1) : 1 + i - 1 = i
    BY <1>1
  <2>4. Len(a) = n - 1 /\ Len(b) = n - 1
    BY <2>2, <2>3, <2>7
  <2>5. \A i \in 1..(n - 1) : a[i] = w[i] /\ b[i] = v[i]
    BY <2>2, <2>3, <2>7
  <2>6. \A i \in 1..(n - 1) : a[i] = b[i]
    BY <2>1, <2>5
  <2> QED BY <2>2, <2>3, <2>4, <2>6, SeqEqual DEF b
<1> HIDE DEF a, n
<1>6. v = Append(a, x)
  BY <1>4, <1>5
<1>7. Requests(w) = Requests(a) \o w[n].req /\ Requests(v) = Requests(a) \o x.req
  BY <1>3, <1>6, RequestsAppend
<1>8. /\ Requests(a) \in Seq(Chunks) /\ w[n].req \in Seq(Chunks)
      /\ x.req = Append(w[n].req, m)
  BY <1>3, ReqsAre DEF Exchanges, n
<1>9. Requests(a) \o Append(w[n].req, m) = Append(Requests(a) \o w[n].req, m)
  <2> DEFINE p == Requests(a)
             q == w[n].req
  <2> HIDE DEF p, q
  <2>1. ASSUME NEW s \in Seq(Chunks), NEW u \in Seq(Chunks)
        PROVE  s \o Append(u, m) = Append(s \o u, m)
    <3>1. <<m>> \in Seq(Chunks) /\ s \o u \in Seq(Chunks)
      BY ConcatProperties
    <3>2. Append(u, m) = u \o <<m>> /\ Append(s \o u, m) = (s \o u) \o <<m>>
      BY <3>1, AppendIsConcat
    <3> QED BY <3>1, <3>2, ConcatAssociative
  <2> QED BY <1>8, <2>1
<1> QED BY <1>7, <1>8, <1>9 DEF v, n

(* Replies do not count.                                                   *)
LEMMA RequestsOnly ==
    ASSUME NEW w \in Seq(Exchanges), Len(w) > 0, NEW x \in Exchanges,
           x.req = w[Len(w)].req
    PROVE  Requests([w EXCEPT ![Len(w)] = x]) = Requests(w)
<1> DEFINE n == Len(w)
           v == [w EXCEPT ![n] = x]
<1>1. n \in Nat /\ n \in 1..n /\ DOMAIN w = 1..n
  BY LenProperties
<1>2. /\ v \in Seq(Exchanges) /\ DOMAIN v = 1..n
      /\ \A i \in 1..n : v[i].req = w[i].req
  <2>1. /\ v \in Seq(Exchanges) /\ Len(v) = n
        /\ \A i \in 1..n : v[i] = IF i = n THEN x ELSE w[i]
    BY <1>1, ExceptSeq
  <2> HIDE DEF v
  <2> QED BY <2>1, LenProperties
<1> HIDE DEF v
<1>3. Reqs(v) = Reqs(w)
  BY <1>1, <1>2 DEF Reqs
<1>4. Requests(v) = Requests(w)
  BY <1>2, <1>3, ReqsAre
<1> QED BY <1>4 DEF v

(* Concatenations as the hooks build them.                                 *)
LEMMA Sums ==
    ASSUME NEW p \in Seq(Chunks), NEW h \in Seq(Chunks), NEW m \in Chunks
    PROVE  /\ h \o <<>> = h /\ <<>> \o h = h /\ <<>> \o <<>> = <<>>
           /\ p \o Append(h, m) = Append(p \o h, m)
           /\ h \o <<m>> = Append(h, m) /\ <<>> \o <<m>> = <<m>>
           /\ Append(<<>>, m) = <<m>>
           /\ p \o h \in Seq(Chunks) /\ Append(h, m) \in Seq(Chunks)
           /\ <<m>> \in Seq(Chunks)
<1>1. <<m>> \in Seq(Chunks) /\ <<>> \in Seq(Chunks) /\ p \o h \in Seq(Chunks)
      /\ Append(h, m) \in Seq(Chunks)
  BY EmptySeq, ConcatProperties, AppendProperties
<1>2. /\ h \o <<>> = h /\ <<>> \o h = h /\ <<>> \o <<>> = <<>>
      /\ <<>> \o <<m>> = <<m>>
  BY <1>1, ConcatEmptySeq
<1>3. /\ Append(h, m) = h \o <<m>> /\ Append(p \o h, m) = (p \o h) \o <<m>>
      /\ Append(<<>>, m) = <<>> \o <<m>>
  BY <1>1, AppendIsConcat
<1>4. (p \o h) \o <<m>> = p \o (h \o <<m>>)
  BY <1>1, ConcatAssociative
<1> QED BY <1>1, <1>2, <1>3, <1>4

(* What is owed, with and without a chunk in the hook.                     *)
LEMMA OwedIs ==
    ASSUME NEW r \in ConnRec, NEW l
    PROVE  /\ Held(r) \in Seq(Chunks)
           /\ OwedAt(l, None, r) = IF l = "renew" THEN <<>> ELSE Held(r)
           /\ \A m \in Chunks :
                 OwedAt(l, m, r) =
                     IF l = "renew" THEN <<m>> ELSE Append(Held(r), m)
<1>1. Held(r) \in Seq(Chunks)
  BY EmptySeq DEF Held, ConnRec, Exchanges
<1> DEFINE h == Held(r)
<1> HIDE DEF h
<1>2. h \o <<>> = h /\ <<>> \o <<>> = <<>>
  BY <1>1, EmptySeq, ConcatEmptySeq DEF h
<1>3. ASSUME NEW m \in Chunks
      PROVE  OwedAt(l, m, r) = IF l = "renew" THEN <<m>> ELSE Append(h, m)
  <2>1. m # None
    BY Constants
  <2>2. h \o <<m>> = Append(h, m) /\ <<>> \o <<m>> = <<m>>
    BY <1>1, Sums DEF h
  <2> QED BY <2>1, <2>2 DEF OwedAt, h
<1>4. OwedAt(l, None, r) = IF l = "renew" THEN <<>> ELSE h
  BY <1>2 DEF OwedAt, h
<1> QED BY <1>1, <1>3, <1>4 DEF h

-----------------------------------------------------------------------------
(* Every step of the hooks keeps a reply's hook a reply's hook. *)
Steps(t, l) ==
    /\ pc[t] # "idle"
    /\ pc' = [pc EXCEPT ![t] = l]
    /\ key' = key
    /\ l = "idle" \/ (l \in ReplyHooks <=> pc[t] \in ReplyHooks)

(* A hook moves to where hooks of its kind are.                            *)
LEMMA HookSteps ==
    ASSUME SInv, NEW t \in Threads, Hook(t)
    PROVE  \E l : Steps(t, l)
<1> USE DEF Steps, ReplyHooks
<1>1. CASE Lookup(t)
  BY <1>1, LookupIs
<1>2. CASE AppendRequest(t) \/ FirstRequest(t) \/ IgnoreSlot(t) \/ FlushSlot(t)
           \/ RenewSlot(t) \/ AppendReply(t) \/ DropReply(t) \/ FlushLastSlot(t)
  BY <1>2 DEF AppendRequest, FirstRequest, IgnoreSlot, DropSlot, FlushSlot,
              RenewSlot, Renew, AppendReply, AddReply, DropReply,
              FlushLastSlot, LeaveClosing, Return, Goto
<1>3. CASE Enter(t) \/ FinishInit(t) \/ StopSpinning(t) \/ LogEntry(t)
  BY <1>3 DEF Enter, Arrive, FinishInit, StopSpinning, LeaveBarrier, LogEntry,
              Goto
<1>4. CASE Remove(t)
  BY <1>4, RemoveIs
<1>5. CASE FreeUnlogged(t) \/ FreeLogged(t)
  BY <1>5, FreeIs
<1> QED BY <1>1, <1>2, <1>3, <1>4, <1>5 DEF Hook

(* Only a reply's hook is ever called beside another one                   *)
(* (logpoint.c:149-222 and the calls by the server).                       *)
LEMMA NextApart == SInv /\ Apart /\ [Next]_vars => Apart'
<1> SUFFICES ASSUME SInv, Apart, [Next]_vars PROVE Apart'
  OBVIOUS
<1> USE DEF SInv, TypeOK
<1>1. ASSUME NEW t \in Threads, NEW k \in Keys, Read(t, k) \/ Close(t, k)
      PROVE  Apart'
  <2>1. ~Busy(k) /\ \E m, hook : Call(t, hook, k, m) /\ hook # "idle"
    BY <1>1 DEF Read, Close
  <2> QED BY <2>1 DEF Call, Goto, Apart, Busy
<1>2. ASSUME NEW t \in Threads, NEW k \in Keys, Write(t, k) PROVE Apart'
  <2>1. \E m : Call(t, "reply", k, m)
    BY <1>2, Zenon DEF Write
  <2> QED BY <2>1 DEF Call, Goto, Apart, ReplyHooks
<1>3. ASSUME NEW t \in Threads, Hook(t) PROVE Apart'
  <2>1. PICK l : Steps(t, l)
    BY <1>3, HookSteps
  <2> QED BY <2>1 DEF Steps, Apart
<1>4. ASSUME UNCHANGED <<pc, key>> PROVE Apart'
  BY <1>4 DEF Apart
<1>5. ASSUME NEW k \in Keys, NewConnection(k) PROVE UNCHANGED <<pc, key>>
  BY <1>5 DEF NewConnection, hookVars
<1>6. UNCHANGED vars => UNCHANGED <<pc, key>>
  BY DEF vars, hookVars
<1> QED BY <1>1, <1>2, <1>3, <1>4, <1>5, <1>6 DEF Next

(* In every reachable state two hooks on one connection are a reply's and  *)
(* another.                                                                *)
LEMMA ApartHolds == Spec => []Apart
<1>1. Init => Apart
  BY DEF Init, Apart
<1> QED BY <1>1, NextApart, StructureHolds, PTL DEF Spec

(* A step elsewhere. *)
LEMMA FrameR ==
    ASSUME NEW c, RequestsAt(c),
           wire'[c] = wire[c], conn'[c] = conn[c], logged'[c] = logged[c],
           c \in freed' <=> c \in freed,
           \A u \in Threads :
               /\ OnConn(u, c)' <=> OnConn(u, c)
               /\ OnConn(u, c) => pc'[u] = pc[u] /\ chunk'[u] = chunk[u]
    PROVE  RequestsAt(c)'
<1> DEFINE Owes(l, m) == OwesAt(l, m, wire[c], conn[c], logged[c])
           OwesThen(l, m) == OwesAt(l, m, wire'[c], conn'[c], logged'[c])
<1>1. ASSUME NEW l, NEW m PROVE Owes(l, m) => OwesThen(l, m)
  BY DEF OwesAt
<1>2. CASE c \in freed
  <2>1. Requests(logged[c]) = Requests(wire[c])
    BY <1>2 DEF RequestsAt
  <2>2. Requests(logged'[c]) = Requests(wire'[c])
    BY <2>1
  <2> QED BY <1>2, <2>2 DEF RequestsAt, Requests
<1>3. CASE c \notin freed
  <2>1. ASSUME (\A t \in Threads : OnConn(t, c) => pc[t] \in ReplyHooks)'
        PROVE  OwesThen("idle", None)
    <3>1. \A t \in Threads : OnConn(t, c) => pc[t] \in ReplyHooks
      BY <2>1
    <3>2. Owes("idle", None)
      BY <1>3, <3>1, Zenon DEF RequestsAt
    <3> HIDE DEF Owes, OwesThen
    <3> QED BY <3>2, <1>1
  <2>2. ASSUME NEW t \in Threads, (OnConn(t, c) /\ pc[t] \notin ReplyHooks)'
        PROVE  OwesThen(pc'[t], chunk'[t])
    <3>1. /\ OnConn(t, c) /\ pc[t] \notin ReplyHooks
          /\ pc'[t] = pc[t] /\ chunk'[t] = chunk[t]
      BY <2>2
    <3>2. Owes(pc[t], chunk[t])
      BY <1>3, <3>1, Zenon DEF RequestsAt
    <3> HIDE DEF Owes, OwesThen
    <3> QED BY <3>1, <3>2, <1>1
  <2> QED BY <1>3, <2>1, <2>2, Zenon DEF RequestsAt, OwesAt, Requests, OwedAt, Held
<1> QED BY <1>2, <1>3

(* What the requests of a connection are after a step: the conditions of   *)
(* RequestsAt, one by one.                                                 *)
LEMMA SettleR ==
    ASSUME NEW c, c \notin freed',
           (\A t \in Threads : OnConn(t, c)' => pc'[t] \in ReplyHooks) =>
               OwesAt("idle", None, wire'[c], conn'[c], logged'[c]),
           \A t \in Threads : OnConn(t, c)' /\ pc'[t] \notin ReplyHooks =>
               OwesAt(pc'[t], chunk'[t], wire'[c], conn'[c], logged'[c])
    PROVE  RequestsAt(c)'
  BY Zenon DEF RequestsAt, OwesAt, Requests, OwedAt, Held, ReplyHooks

(* A step of a request's hook, or of SSL_free, on its own connection.      *)
LEMMA ActR ==
    ASSUME SInv, Apart, RInv, NEW t \in Threads, pc[t] # "idle",
           pc[t] \notin ReplyHooks, NEW l, l \notin ReplyHooks,
           pc' = [pc EXCEPT ![t] = l],
           UNCHANGED <<ssl, key, chunk, wire, freed>>, Conn' = Conn,
           \A d \in Conn : d # ssl[key[t]] =>
               conn'[d] = conn[d] /\ logged'[d] = logged[d],
           LET c == ssl[key[t]]
           IN  OwesAt(pc[t], chunk[t], wire[c], conn[c], logged[c]) =>
                  OwesAt(l, IF l = "idle" THEN None ELSE chunk[t],
                         wire[c], conn'[c], logged'[c])
    PROVE  RInv'
<1> DEFINE c == ssl[key[t]]
<1>1. pc'[t] = l /\ \A u \in Threads : u # t => pc'[u] = pc[u]
  BY DEF SInv, TypeOK
<1>2. c \in Conn \ freed /\ OnConn(t, c)
  BY Place DEF OnConn
<1>3. ASSUME NEW d \in Conn, d # c
      PROVE  RequestsAt(d)'
  <2>1. RequestsAt(d)
    BY DEF RInv
  <2>2. ~OnConn(t, d) /\ ~OnConn(t, d)'
    BY <1>3 DEF OnConn
  <2>3. \A u \in Threads : /\ OnConn(u, d)' <=> OnConn(u, d)
                           /\ OnConn(u, d) => pc'[u] = pc[u] /\ chunk'[u] = chunk[u]
    BY <1>1, <2>2 DEF OnConn
  <2> QED BY <1>3, <2>1, <2>3, FrameR
<1>4. RequestsAt(c)'
  <2>1. OwesAt(pc[t], chunk[t], wire[c], conn[c], logged[c])
    <3>1. RequestsAt(c)
      BY <1>2 DEF RInv
    <3> HIDE DEF c
    <3> QED BY <1>2, <3>1, Zenon DEF RequestsAt
  <2>2. OwesAt(l, IF l = "idle" THEN None ELSE chunk[t], wire[c], conn'[c], logged'[c])
    BY <2>1
  <2>3. \A u \in Threads : u # t /\ OnConn(u, c) => pc[u] \in ReplyHooks
    <3>1. ASSUME NEW u \in Threads, u # t, OnConn(u, c)
          PROVE  pc[u] \in ReplyHooks
      <4>1. key[u] = key[t] /\ pc[u] # "idle"
        BY <1>2, <3>1 DEF OnConn, SInv, Maps, Hooks
      <4> QED BY <3>1, <4>1 DEF Apart
    <3> QED BY <3>1
  <2>4. \A u \in Threads : u # t /\ OnConn(u, c)' => pc'[u] \in ReplyHooks
    BY <1>1, <2>3 DEF OnConn
  <2>5. c' = c /\ c \notin freed' /\ wire'[c] = wire[c] /\ chunk'[t] = chunk[t]
    BY <1>2
  <2>6. OnConn(t, c)' <=> l # "idle"
    BY <1>1 DEF OnConn
  <2> HIDE DEF c
  <2>7. ASSUME \A u \in Threads : OnConn(u, c)' => pc'[u] \in ReplyHooks
        PROVE  OwesAt("idle", None, wire'[c], conn'[c], logged'[c])
    <3>1. l = "idle"
      BY <1>1, <2>6, <2>7
    <3> QED BY <2>2, <2>5, <3>1
  <2>8. ASSUME NEW u \in Threads, OnConn(u, c)', pc'[u] \notin ReplyHooks
        PROVE  OwesAt(pc'[u], chunk'[u], wire'[c], conn'[c], logged'[c])
    <3>1. u = t /\ l # "idle"
      BY <2>4, <2>6, <2>8
    <3> QED BY <1>1, <2>2, <2>5, <3>1
  <2>9. c \notin freed'
    BY <2>5
  <2> QED BY <2>5, <2>7, <2>8, <2>9, SettleR
<1>5. \A d \in Conn : RequestsAt(d)'
  BY <1>3, <1>4
<1> QED BY <1>5 DEF RInv

(* A reply's hook leaves the request in the slot alone.                    *)
LEMMA ReplyR ==
    ASSUME SInv, RInv, NEW t \in Threads,
           pc[t] \in ReplyHooks, NEW l \in ReplyHooks \cup {"idle"},
           pc' = [pc EXCEPT ![t] = l],
           UNCHANGED <<ssl, key, chunk, wire, freed, logged>>, Conn' = Conn,
           \A d \in Conn : d # ssl[key[t]] => conn'[d] = conn[d],
           Held(conn'[ssl[key[t]]]) = Held(conn[ssl[key[t]]])
    PROVE  RInv'
<1> DEFINE c == ssl[key[t]]
<1>1. pc[t] # "idle" /\ pc'[t] = l /\ \A u \in Threads : u # t => pc'[u] = pc[u]
  BY DEF SInv, TypeOK, ReplyHooks
<1>2. c \in Conn \ freed /\ OnConn(t, c)
  BY <1>1, Place DEF OnConn
<1>3. ASSUME NEW d \in Conn, d # c
      PROVE  RequestsAt(d)'
  <2>1. RequestsAt(d)
    BY DEF RInv
  <2>2. ~OnConn(t, d) /\ ~OnConn(t, d)'
    BY <1>3 DEF OnConn
  <2>3. \A u \in Threads : /\ OnConn(u, d)' <=> OnConn(u, d)
                           /\ OnConn(u, d) => pc'[u] = pc[u] /\ chunk'[u] = chunk[u]
    BY <1>1, <2>2 DEF OnConn
  <2> QED BY <1>3, <2>1, <2>3, FrameR
<1>4. RequestsAt(c)'
  <2>1. RequestsAt(c) /\ c' = c /\ c \notin freed /\ c \notin freed'
        /\ wire'[c] = wire[c] /\ logged'[c] = logged[c]
        /\ Held(conn'[c]) = Held(conn[c])
    BY <1>2 DEF RInv
  <2>2. \A u \in Threads : OnConn(u, c)' => OnConn(u, c)
    BY <1>1, <1>2 DEF OnConn
  <2>3. \A u \in Threads : OnConn(u, c) /\ pc[u] \notin ReplyHooks =>
            OnConn(u, c)' /\ pc'[u] = pc[u]
    BY <1>1 DEF OnConn
  <2>4. \A u \in Threads : OnConn(u, c)' /\ pc'[u] \notin ReplyHooks =>
            OnConn(u, c) /\ pc[u] \notin ReplyHooks /\ pc'[u] = pc[u]
    BY <1>1, <2>2 DEF OnConn
  <2> HIDE DEF c
  <2>5. ASSUME NEW m, NEW k, OwesAt(k, m, wire[c], conn[c], logged[c])
        PROVE  OwesAt(k, m, wire'[c], conn'[c], logged'[c])
    BY <2>1, <2>5 DEF OwesAt, OwedAt
  <2>6. ASSUME \A u \in Threads : OnConn(u, c)' => pc'[u] \in ReplyHooks
        PROVE  OwesAt("idle", None, wire'[c], conn'[c], logged'[c])
    <3>1. \A u \in Threads : OnConn(u, c) => pc[u] \in ReplyHooks
      BY <2>3, <2>6
    <3>2. OwesAt("idle", None, wire[c], conn[c], logged[c])
      BY <2>1, <3>1, Zenon DEF RequestsAt
    <3> QED BY <2>5, <3>2
  <2>7. ASSUME NEW u \in Threads, OnConn(u, c)', pc'[u] \notin ReplyHooks
        PROVE  OwesAt(pc'[u], chunk'[u], wire'[c], conn'[c], logged'[c])
    <3>1. OnConn(u, c) /\ pc[u] \notin ReplyHooks /\ pc'[u] = pc[u]
          /\ chunk'[u] = chunk[u]
      BY <2>4, <2>7
    <3>2. OwesAt(pc[u], chunk[u], wire[c], conn[c], logged[c])
      BY <2>1, <3>1, Zenon DEF RequestsAt
    <3> QED BY <2>5, <3>1, <3>2
  <2> QED BY <2>1, <2>6, <2>7, SettleR
<1>5. \A d \in Conn : RequestsAt(d)'
  BY <1>3, <1>4
<1> QED BY <1>5 DEF RInv

(* The call of a hook, with the chunk that has been received.              *)
LEMMA CallR ==
    ASSUME SInv, RInv, NEW t \in Threads, NEW k \in Keys,
           NEW hook \in {"request", "close"},
           NEW m, Call(t, hook, k, m), ssl[k] # None, ~Busy(k),
           UNCHANGED <<ssl, conn, logged, freed>>,
           \A d \in Conn : d # ssl[k] => wire'[d] = wire[d],
           LET c == ssl[k]
           IN  OwesAt("idle", None, wire[c], conn[c], logged[c]) =>
                   OwesAt(hook, m, wire'[c], conn[c], logged[c])
    PROVE  RInv'
<1> DEFINE c == ssl[k]
<1>1. /\ pc[t] = "idle" /\ pc'[t] = hook /\ key'[t] = k /\ chunk'[t] = m
      /\ \A u \in Threads : u # t =>
            pc'[u] = pc[u] /\ key'[u] = key[u] /\ chunk'[u] = chunk[u]
  BY DEF Call, Goto, SInv, TypeOK
<1>2. c \in Conn \ freed /\ Conn' = Conn
  BY DEF SInv, Maps, Conn
<1>3. ASSUME NEW d \in Conn, d # c
      PROVE  RequestsAt(d)'
  <2>1. RequestsAt(d)
    BY DEF RInv
  <2>2. ~OnConn(t, d) /\ ~OnConn(t, d)'
    BY <1>1, <1>3 DEF OnConn
  <2>3. \A u \in Threads : /\ OnConn(u, d)' <=> OnConn(u, d)
                           /\ OnConn(u, d) => pc'[u] = pc[u] /\ chunk'[u] = chunk[u]
    BY <1>1, <2>2 DEF OnConn
  <2> QED BY <1>3, <2>1, <2>3, FrameR
<1>4. RequestsAt(c)'
  <2>1. RequestsAt(c) /\ c' = c /\ c \notin freed /\ c \notin freed'
        /\ conn'[c] = conn[c] /\ logged'[c] = logged[c]
    BY <1>2 DEF RInv
  <2>2. \A u \in Threads : ~OnConn(u, c)
    <3>1. ASSUME NEW u \in Threads, OnConn(u, c) PROVE FALSE
      <4>1. key[u] = k
        BY <3>1 DEF OnConn, SInv, Maps, Hooks
      <4> QED BY <3>1, <4>1 DEF Busy, OnConn
    <3> QED BY <3>1
  <2>3. OwesAt("idle", None, wire[c], conn[c], logged[c])
    <3> HIDE DEF c
    <3> QED BY <2>1, <2>2, Zenon DEF RequestsAt
  <2>4. OwesAt(hook, m, wire'[c], conn[c], logged[c])
    BY <2>3
  <2>5. \A u \in Threads : u # t => ~OnConn(u, c)'
    BY <1>1, <2>2 DEF OnConn
  <2>6. OnConn(t, c)' /\ pc'[t] \notin ReplyHooks
    BY <1>1 DEF OnConn, ReplyHooks
  <2> HIDE DEF c
  <2>7. ~ \A u \in Threads : OnConn(u, c)' => pc'[u] \in ReplyHooks
    BY <2>6
  <2>8. ASSUME NEW u \in Threads, OnConn(u, c)', pc'[u] \notin ReplyHooks
        PROVE  OwesAt(pc'[u], chunk'[u], wire'[c], conn'[c], logged'[c])
    <3>1. u = t
      BY <2>5, <2>8
    <3> QED BY <1>1, <2>1, <2>4, <3>1
  <2> QED BY <2>1, <2>7, <2>8, SettleR
<1>5. \A d \in Conn : RequestsAt(d)'
  BY <1>3, <1>4
<1> QED BY <1>2, <1>5 DEF RInv

(* SSL_read brings a chunk, which is owed.                                 *)
LEMMA ReadR ==
    ASSUME SInv, RInv, NEW t \in Threads, NEW k \in Keys, Read(t, k)
    PROVE  RInv'
<1> DEFINE c == ssl[k]
           w == wire[c]
           n == Len(w)
<1>1. /\ c \in Conn \ freed /\ ~Busy(k) /\ c # None
      /\ UNCHANGED <<ssl, connections, conn, initialized, ready, logged, freed>>
  BY ReadIs
<1>2. PICK m \in Chunks, v \in Seq(Exchanges) :
          /\ Call(t, "request", k, m)
          /\ Len(v) =< MaxExchanges
          /\ wire' = [wire EXCEPT ![c] = v]
          /\ \/ /\ n > 0
                /\ v = [w EXCEPT ![n] = [req |-> Append(@.req, m),
                                         rep |-> @.rep]]
             \/ v = Append(w, [req |-> <<m>>, rep |-> <<>>])
  BY ReadIs
<1>3. wire'[c] = v /\ \A d \in Conn : d # c => wire'[d] = wire[d]
  BY <1>1, <1>2, WireUpdate
<1>4. /\ w \in Seq(Exchanges) /\ conn[c] \in ConnRec /\ logged[c] \in Seq(Exchanges)
  BY <1>1, Types
<1>5. Requests(v) = Append(Requests(w), m)
  <2>1. CASE /\ n > 0
             /\ v = [w EXCEPT ![n] = [req |-> Append(@.req, m), rep |-> @.rep]]
    <3> DEFINE x == [req |-> Append(w[n].req, m), rep |-> w[n].rep]
    <3>1. w[n] \in Exchanges
      <4>1. n \in 1..n
        BY <1>4, <2>1, LenProperties
      <4> QED BY <1>4, <4>1, ElementOfSeq
    <3>2. x \in Exchanges /\ x.req = Append(w[n].req, m)
      BY <3>1, Collect
    <3>3. v = [w EXCEPT ![n] = x]
      BY <2>1
    <3> HIDE DEF x, w
    <3>4. Requests([w EXCEPT ![n] = x]) = Append(Requests(w), m)
      BY <1>4, <2>1, <3>2, RequestsContinue
    <3> QED BY <3>3, <3>4
  <2>2. CASE v = Append(w, [req |-> <<m>>, rep |-> <<>>])
    <3> DEFINE x == [req |-> <<m>>, rep |-> <<>>]
    <3>1. x \in Exchanges /\ x.req = <<m>>
      BY FirstChunk
    <3> HIDE DEF w
    <3>2. Requests(v) = Requests(w) \o <<m>>
      BY <1>4, <2>2, <3>1, RequestsAppend
    <3>3. Requests(w) \in Seq(Chunks)
      BY <1>4, ReqsAre
    <3> QED BY <3>2, <3>3, Sums
  <2> QED BY <1>2, <2>1, <2>2
<1>6. ASSUME OwesAt("idle", None, w, conn[c], logged[c])
      PROVE  OwesAt("request", m, wire'[c], conn[c], logged[c])
  <2> DEFINE L == logged[c]
             r == conn[c]
  <2>1. L \in Seq(Exchanges) /\ r \in ConnRec
    BY <1>4
  <2> HIDE DEF L, r, w
  <2>2. Requests(L) \in Seq(Chunks) /\ Held(r) \in Seq(Chunks)
    BY <2>1, ReqsAre, OwedIs
  <2>3. /\ OwedAt("idle", None, r) = Held(r)
        /\ OwedAt("request", m, r) = Append(Held(r), m)
    BY <2>1, OwedIs
  <2>4. Requests(w) = Requests(L) \o Held(r)
    BY <1>6, <2>3 DEF OwesAt, L, r
  <2>5. Requests(v) = Requests(L) \o Append(Held(r), m)
    BY <1>5, <2>2, <2>4, Sums
  <2> QED BY <1>3, <2>3, <2>5 DEF OwesAt, L, r
<1> QED BY <1>1, <1>2, <1>3, <1>6, CallR

(* SSL_free receives nothing.                                              *)
LEMMA CloseR ==
    ASSUME SInv, RInv, NEW t \in Threads, NEW k \in Keys, Close(t, k)
    PROVE  RInv'
<1>1. /\ ssl[k] # None /\ ~Busy(k) /\ Call(t, "close", k, None)
      /\ UNCHANGED <<ssl, connections, conn, initialized, ready, logged,
                     wire, mixed, freed>>
  BY DEF Close, history
<1> DEFINE c == ssl[k]
<1>2. ASSUME OwesAt("idle", None, wire[c], conn[c], logged[c])
      PROVE  OwesAt("close", None, wire'[c], conn[c], logged[c])
  BY <1>1, <1>2 DEF OwesAt, OwedAt
<1> QED BY <1>1, <1>2, CallR

(* Neither does SSL_write, beside a request's hook or not.                 *)
LEMMA WriteR ==
    ASSUME SInv, RInv, NEW t \in Threads, NEW k \in Keys, Write(t, k)
    PROVE  RInv'
<1> DEFINE c == ssl[k]
           w == wire[c]
           n == Len(w)
<1>1. /\ c \in Conn \ freed /\ c # None /\ n > 0
      /\ UNCHANGED <<ssl, connections, conn, initialized, ready, logged, freed>>
  BY WriteIs
<1>2. PICK m \in Chunks, v \in Seq(Exchanges) :
          /\ Call(t, "reply", k, m)
          /\ Len(v) =< MaxExchanges
          /\ wire' = [wire EXCEPT ![c] = v]
          /\ v = [w EXCEPT ![n] = [req |-> @.req, rep |-> Append(@.rep, m)]]
  BY WriteIs
<1>3. wire'[c] = v /\ \A d \in Conn : d # c => wire'[d] = wire[d]
  BY <1>1, <1>2, WireUpdate
<1>4. w \in Seq(Exchanges)
  BY <1>1, Types
<1>5. Requests(v) = Requests(w)
  <2> DEFINE x == [req |-> w[n].req, rep |-> Append(w[n].rep, m)]
  <2>1. w[n] \in Exchanges
    <3>1. n \in 1..n
      BY <1>1, <1>4, LenProperties
    <3> QED BY <1>4, <3>1, ElementOfSeq
  <2>2. x \in Exchanges /\ x.req = w[n].req
    BY <2>1, Collect
  <2>3. v = [w EXCEPT ![n] = x]
    BY <1>2
  <2> HIDE DEF x, w
  <2> QED BY <1>1, <1>4, <2>2, <2>3, RequestsOnly
<1>6. /\ pc[t] = "idle" /\ pc'[t] = "reply" /\ key'[t] = k
      /\ \A u \in Threads : u # t =>
            pc'[u] = pc[u] /\ key'[u] = key[u] /\ chunk'[u] = chunk[u]
  BY <1>2 DEF Call, Goto, SInv, TypeOK
<1>7. ASSUME NEW d \in Conn, d # c
      PROVE  RequestsAt(d)'
  <2>1. RequestsAt(d)
    BY DEF RInv
  <2>2. ~OnConn(t, d) /\ ~OnConn(t, d)'
    BY <1>1, <1>6, <1>7 DEF OnConn
  <2>3. \A u \in Threads : /\ OnConn(u, d)' <=> OnConn(u, d)
                           /\ OnConn(u, d) => pc'[u] = pc[u] /\ chunk'[u] = chunk[u]
    BY <1>1, <1>6, <2>2 DEF OnConn
  <2> QED BY <1>1, <1>3, <1>7, <2>1, <2>3, FrameR
<1>8. RequestsAt(c)'
  <2>1. RequestsAt(c) /\ c' = c /\ c \notin freed /\ c \notin freed'
        /\ conn'[c] = conn[c] /\ logged'[c] = logged[c]
        /\ Requests(wire'[c]) = Requests(wire[c])
    BY <1>1, <1>3, <1>5 DEF RInv
  <2>2. \A u \in Threads : OnConn(u, c) => OnConn(u, c)' /\ pc'[u] = pc[u]
    BY <1>1, <1>6 DEF OnConn
  <2>3. \A u \in Threads : OnConn(u, c)' /\ pc'[u] \notin ReplyHooks =>
            OnConn(u, c) /\ pc'[u] = pc[u] /\ chunk'[u] = chunk[u]
    BY <1>1, <1>6 DEF OnConn, ReplyHooks
  <2> HIDE DEF c
  <2>5. ASSUME NEW l, NEW q, OwesAt(l, q, wire[c], conn[c], logged[c])
        PROVE  OwesAt(l, q, wire'[c], conn'[c], logged'[c])
    BY <2>1, <2>5 DEF OwesAt, OwedAt
  <2>6. ASSUME \A u \in Threads : OnConn(u, c)' => pc'[u] \in ReplyHooks
        PROVE  OwesAt("idle", None, wire'[c], conn'[c], logged'[c])
    <3>1. \A u \in Threads : OnConn(u, c) => pc[u] \in ReplyHooks
      BY <2>2, <2>6
    <3>2. OwesAt("idle", None, wire[c], conn[c], logged[c])
      BY <2>1, <3>1, Zenon DEF RequestsAt
    <3> QED BY <2>5, <3>2
  <2>7. ASSUME NEW u \in Threads, OnConn(u, c)', pc'[u] \notin ReplyHooks
        PROVE  OwesAt(pc'[u], chunk'[u], wire'[c], conn'[c], logged'[c])
    <3>1. OnConn(u, c) /\ pc[u] \notin ReplyHooks /\ pc'[u] = pc[u]
          /\ chunk'[u] = chunk[u]
      BY <2>3, <2>7
    <3>2. OwesAt(pc[u], chunk[u], wire[c], conn[c], logged[c])
      BY <2>1, <3>1, Zenon DEF RequestsAt
    <3> QED BY <2>5, <3>1, <3>2
  <2> QED BY <2>1, <2>6, <2>7, SettleR
<1>9. \A d \in Conn : RequestsAt(d)'
  BY <1>1, <1>7, <1>8
<1>10. Conn' = Conn
  BY <1>1 DEF Conn
<1> QED BY <1>9, <1>10 DEF RInv

(* A hook collects its chunk: the slot holds what was owed                 *)
(* (logpoint.c:160-182).                                                   *)
LEMMA CollectR ==
    ASSUME Sgx, SInv, Apart, RInv, NEW t \in Threads,
           AppendRequest(t) \/ FirstRequest(t) \/ IgnoreSlot(t) \/ RenewSlot(t)
    PROVE  RInv'
<1> DEFINE c == cur[t]
           w == wire[c]
           r == conn[c]
           L == logged[c]
           m == chunk[t]
           s == conn'[c]
<1>1. Quiet(t, "idle") /\ logged' = logged
  BY AppendRequestIs, FirstRequestIs, IgnoreSlotIs, RenewSlotIs
<1>2. /\ pc[t] \in {"test", "renew"} /\ pc[t] \notin ReplyHooks
      /\ pc[t] # "idle" /\ "idle" \notin ReplyHooks
      /\ pc[t] \in Looked
  <2>1. pc[t] \in {"test", "renew"}
    BY AppendRequestIs, FirstRequestIs, IgnoreSlotIs, RenewSlotIs
  <2> QED BY <2>1 DEF ReplyHooks, Looked
<1>3. /\ c = ssl[key[t]] /\ c \in Conn /\ r \in ConnRec
      /\ m \in Chunks \cup {None}
  BY <1>2, Place
<1>4. m \in Chunks
  BY <1>3, <1>2, Place, RenewSlotIs, AppendRequestIs, FirstRequestIs, IgnoreSlotIs
<1>5. r.ignore_slots = 0
  <2>1. r.ignore_slots \in 0..Ignored /\ Ignored = 0
    BY <1>3 DEF ConnRec, Ignored
  <2> QED BY <2>1
<1>6. ~IgnoreSlot(t)
  <2>1. IgnoreSlot(t) => r.ignore_slots > 0
    BY IgnoreSlotIs, Zenon
  <2> QED BY <1>5, <2>1
<1>7. ASSUME NEW x, NEW b, NEW i, Sets(c, x, b, i) PROVE s.slot = x
  BY <1>7 DEF Sets
<1>8. AppendRequest(t) =>
           /\ pc[t] = "test" /\ r.slot # None
           /\ s.slot = [req |-> Append(r.slot.req, m), rep |-> r.slot.rep]
  <2> SUFFICES ASSUME AppendRequest(t)
               PROVE  /\ pc[t] = "test" /\ r.slot # None
                      /\ s.slot = [req |-> Append(r.slot.req, m),
                                   rep |-> r.slot.rep]
    OBVIOUS
  <2>1. /\ pc[t] = "test" /\ Slot(t) # None
        /\ Sets(c, [req |-> Append(Slot(t).req, m), rep |-> Slot(t).rep], TRUE,
                r.ignore_slots)
    BY AppendRequestIs, Zenon
  <2>2. s.slot = [req |-> Append(Slot(t).req, m), rep |-> Slot(t).rep]
    BY <2>1, <1>7, Zenon
  <2> QED BY <2>1, <2>2, Zenon DEF Slot
<1>9. FirstRequest(t) =>
           /\ pc[t] = "test" /\ r.slot = None
           /\ s.slot = [req |-> <<m>>, rep |-> <<>>]
  <2> SUFFICES ASSUME FirstRequest(t)
               PROVE  /\ pc[t] = "test" /\ r.slot = None
                      /\ s.slot = [req |-> <<m>>, rep |-> <<>>]
    OBVIOUS
  <2>1. /\ pc[t] = "test" /\ Slot(t) = None
        /\ Sets(c, [req |-> <<m>>, rep |-> <<>>], TRUE, r.ignore_slots)
    BY FirstRequestIs, Zenon
  <2> QED BY <2>1, <1>7, Zenon DEF Slot
<1>10. RenewSlot(t) =>
           pc[t] = "renew" /\ s.slot = [req |-> <<m>>, rep |-> <<>>]
  <2> SUFFICES ASSUME RenewSlot(t)
               PROVE  pc[t] = "renew" /\ s.slot = [req |-> <<m>>, rep |-> <<>>]
    OBVIOUS
  <2>1. /\ pc[t] = "renew"
        /\ Sets(c, [req |-> <<m>>, rep |-> <<>>], TRUE, r.ignore_slots)
    BY RenewSlotIs, Zenon
  <2> QED BY <2>1, <1>7, Zenon
<1>11. /\ s \in ConnRec
      /\ s.slot # None
      /\ Held(s) = s.slot.req
      /\ \/ pc[t] = "test" /\ Held(s) = Append(Held(r), m)
         \/ pc[t] = "renew" /\ Held(s) = <<m>>
  <2>1. s \in ConnRec /\ s.slot # None
    <3>1. conn' \in Seq(ConnRec) /\ Conn' = Conn /\ c \in 1..Len(conn')
      BY <1>1, <1>3, Typed, LenProperties DEF Quiet, SInv, Conn
    <3>2. s \in ConnRec
      BY <3>1, ElementOfSeq
    <3>3. s.slot # None
      <4>1. CASE AppendRequest(t)
        <5>1. s.slot = [req |-> Append(r.slot.req, m), rep |-> r.slot.rep]
          BY <4>1, <1>8
        <5>2. r.slot \in Exchanges
          BY <4>1, <1>3, <1>8 DEF ConnRec
        <5>3. s.slot \in Exchanges
          BY <5>1, <5>2, <1>4, Collect
        <5> QED BY <5>3, Constants
      <4>2. CASE FirstRequest(t) \/ RenewSlot(t)
        <5>1. s.slot = [req |-> <<m>>, rep |-> <<>>]
          BY <4>2, <1>9, <1>10
        <5>2. s.slot \in Exchanges
          BY <5>1, <1>4, FirstChunk
        <5> QED BY <5>2, Constants
      <4> QED BY <1>6, <4>1, <4>2
    <3> QED BY <3>2, <3>3
  <2>2. Held(s) = s.slot.req
    BY <2>1 DEF Held
  <2>3. CASE AppendRequest(t)
    <3>1. /\ pc[t] = "test" /\ r.slot # None
          /\ s.slot.req = Append(r.slot.req, m)
      BY <2>3, <1>8
    <3>2. Held(r) = r.slot.req
      BY <3>1 DEF Held
    <3> QED BY <2>1, <2>2, <3>1, <3>2
  <2>4. CASE FirstRequest(t)
    <3>1. pc[t] = "test" /\ r.slot = None /\ s.slot.req = <<m>>
      BY <2>4, <1>9
    <3>2. Held(r) = <<>>
      BY <3>1 DEF Held
    <3>3. Append(<<>>, m) = <<m>>
      OBVIOUS
    <3> QED BY <2>1, <2>2, <3>1, <3>2, <3>3
  <2>6. CASE RenewSlot(t)
    <3>1. pc[t] = "renew" /\ s.slot.req = <<m>>
      BY <2>6, <1>10
    <3> QED BY <2>1, <2>2, <3>1
  <2> QED BY <1>6, <2>1, <2>2, <2>3, <2>4, <2>6
<1>12. ASSUME OwesAt(pc[t], m, w, r, L)
      PROVE  OwesAt("idle", None, w, s, L)
  <2>1. OwedAt("idle", None, s) = Held(s)
    BY <1>11, OwedIs
  <2>2. OwedAt(pc[t], m, r) = Held(s)
    <3>1. OwedAt(pc[t], m, r) =
              IF pc[t] = "renew" THEN <<m>> ELSE Append(Held(r), m)
      BY <1>3, <1>4, OwedIs
    <3> QED BY <3>1, <1>11
  <2> QED BY <1>12, <2>1, <2>2 DEF OwesAt
<1>13. /\ pc' = [pc EXCEPT ![t] = "idle"]
      /\ UNCHANGED <<ssl, key, chunk, wire, freed>> /\ Conn' = Conn
      /\ \A d \in Conn : d # c => conn'[d] = conn[d] /\ logged'[d] = logged[d]
  BY <1>1, Typed, LenProperties DEF Quiet, history, Conn, SInv
<1>14. OwesAt(pc[t], m, w, r, L) => OwesAt("idle", None, w, s, logged'[c])
  BY <1>1, <1>12
<1> QED BY <1>2, <1>3, <1>13, <1>14, ActR

(* A reply leaves the request alone (logpoint.c:214-221).                  *)
LEMMA AppendReplyR ==
    ASSUME SInv, RInv, NEW t \in Threads, AppendReply(t) \/ DropReply(t)
    PROVE  RInv'
<1> DEFINE c == cur[t]
<1>1. /\ pc[t] = "append" /\ logged' = logged
      /\ pc' = [pc EXCEPT ![t] = "idle"]
      /\ UNCHANGED <<ssl, key, chunk, wire, freed>> /\ Conn' = Conn
      /\ \A d \in Conn : d # c => conn'[d] = conn[d]
  <2>1. Quiet(t, "idle") /\ pc[t] = "append" /\ logged' = logged
    BY AppendReplyIs, MovesAre
  <2> QED BY <2>1, Typed, LenProperties DEF Quiet, history, Conn, SInv
<1>2. c = ssl[key[t]]
  BY <1>1, Place DEF Looked
<1>3. Held(conn'[c]) = Held(conn[c])
  <2>1. CASE AppendReply(t)
    <3>1. /\ conn[c].slot # None /\ conn'[c].slot # None
          /\ conn'[c].slot.req = conn[c].slot.req
      <4>1. /\ conn[c].slot # None
            /\ conn'[c].slot = [req |-> Slot(t).req,
                                rep |-> Append(Slot(t).rep, chunk[t])]
        <5>1. /\ Slot(t) # None
              /\ Sets(c, [req |-> Slot(t).req,
                          rep |-> Append(Slot(t).rep, chunk[t])],
                      FALSE, conn[c].ignore_slots)
          BY <2>1, AppendReplyIs, Zenon
        <5>2. ASSUME NEW x, NEW b, NEW i, Sets(c, x, b, i)
              PROVE  conn'[c].slot = x
          BY <5>2 DEF Sets
        <5> QED BY <5>1, <5>2, Zenon DEF Slot
      <4>2. Slot(t) \in Exchanges /\ chunk[t] \in Chunks
        BY <4>1, <1>1, Place DEF Slot, ConnRec, Looked
      <4>3. conn'[c].slot \in Exchanges
        BY <4>1, <4>2, Collect
      <4>4. conn'[c].slot.req = Slot(t).req
        BY <4>1
      <4>5. conn'[c].slot # None
        BY <4>3, Constants
      <4> QED BY <4>1, <4>4, <4>5, Zenon DEF Slot
    <3> QED BY <3>1 DEF Held
  <2>2. CASE DropReply(t)
    BY <2>2, MovesAre DEF Passes
  <2> QED BY <2>1, <2>2
<1>4. pc[t] \in ReplyHooks
  BY <1>1 DEF ReplyHooks
<1> QED BY <1>1, <1>2, <1>3, <1>4, ReplyR

(* Neither the steps to and through the barrier (logpoint.c:104-122), nor  *)
(* looking up or removing a connection, change what is owed.               *)
LEMMA PassR ==
    ASSUME SInv, Apart, RInv, NEW t \in Threads,
           \/ FlushSlot(t) \/ FlushLastSlot(t)
           \/ Enter(t) \/ FinishInit(t) \/ StopSpinning(t)
           \/ Lookup(t) \/ Remove(t)
    PROVE  RInv'
<1>1. PICK l : /\ l \in Logging \cup {"test", "append", "closing"}
               /\ pc[t] \in Logging \cup {"test", "request", "reply",
                                          "close", "closing"}
               /\ pc[t] \in ReplyHooks <=> l \in ReplyHooks
               /\ pc' = [pc EXCEPT ![t] = l]
               /\ UNCHANGED <<ssl, conn, key, chunk, logged, wire, freed>>
  <2>1. CASE FlushSlot(t) \/ FlushLastSlot(t)
    BY <2>1, MovesAre DEF Passes, Logging, ReplyHooks, history
  <2>2. CASE Enter(t) \/ FinishInit(t) \/ StopSpinning(t)
    <3>1. PICK l \in Logging :
              Passes(t, l) /\ pc[t] \in Logging /\ logged' = logged
      BY <2>2, MovesAre
    <3> QED BY <3>1 DEF Passes, Logging, ReplyHooks, history
  <2>3. CASE Lookup(t)
    BY <2>3, LookupIs DEF ReplyHooks, history
  <2>4. CASE Remove(t)
    BY <2>4, RemoveIs DEF ReplyHooks, history
  <2> QED BY <2>1, <2>2, <2>3, <2>4
<1>2. /\ pc[t] # "idle" /\ pc[t] # "renew" /\ l # "idle" /\ l # "renew"
      /\ Conn' = Conn
  BY <1>1 DEF Logging, Conn
<1> DEFINE c == ssl[key[t]]
<1>3. CASE pc[t] \in ReplyHooks
  BY <1>1, <1>2, <1>3, ReplyR
<1>4. CASE pc[t] \notin ReplyHooks
  <2>1. ASSUME OwesAt(pc[t], chunk[t], wire[c], conn[c], logged[c])
        PROVE  OwesAt(l, chunk[t], wire[c], conn'[c], logged'[c])
    BY <1>1, <1>2, <2>1 DEF OwesAt, OwedAt
  <2> QED BY <1>1, <1>2, <1>4, <2>1, ActR
<1> QED BY <1>3, <1>4

(* What is logged is no longer owed (logpoint.c:125).                      *)
LEMMA LogEntryR ==
    ASSUME SInv, Apart, RInv, NEW t \in Threads, LogEntry(t)
    PROVE  RInv'
<1> DEFINE c == cur[t]
           w == wire[c]
           r == conn[c]
           L == logged[c]
           m == chunk[t]
<1>1. /\ Passes(t, "renew") /\ pc[t] = "log" /\ r.slot \in Exchanges
      /\ logged'[c] = Append(L, r.slot)
      /\ \A d \in Conn : d # c => logged'[d] = logged[d]
  BY LogEntryIs DEF Slot
<1>2. /\ c = ssl[key[t]] /\ c \in Conn /\ m \in Chunks \cup {None}
  BY <1>1, Place DEF Looked
<1>3. w \in Seq(Exchanges) /\ r \in ConnRec /\ L \in Seq(Exchanges)
  BY <1>2, Types
<1>4. /\ pc' = [pc EXCEPT ![t] = "renew"] /\ conn' = conn /\ Conn' = Conn
      /\ UNCHANGED <<ssl, key, chunk, wire, mixed, freed>>
      /\ pc[t] # "idle" /\ pc[t] \notin ReplyHooks /\ "renew" \notin ReplyHooks
  BY <1>1 DEF Passes, history, Conn, ReplyHooks
<1>5. ASSUME OwesAt(pc[t], m, w, r, L)
      PROVE  OwesAt("renew", m, w, r, logged'[c])
  <2> HIDE DEF w, r, L, m
  <2>1. Requests(logged'[c]) = Requests(L) \o Held(r)
    <3>1. Held(r) = r.slot.req
      BY <1>1, Constants DEF Held
    <3> QED BY <1>1, <1>3, <3>1, RequestsAppend
  <2>2. Requests(L) \in Seq(Chunks) /\ Held(r) \in Seq(Chunks)
    BY <1>3, ReqsAre, OwedIs
  <2>3. Requests(w) = Requests(L) \o OwedAt("log", m, r)
    BY <1>1, <1>5 DEF OwesAt
  <2> DEFINE p == Requests(L)
             h == Held(r)
  <2>4. p \in Seq(Chunks) /\ h \in Seq(Chunks) /\ p \o h \in Seq(Chunks)
    BY <2>2, ConcatProperties
  <2>5. CASE m = None
    <3>1. OwedAt("log", m, r) = h /\ OwedAt("renew", m, r) = <<>>
      BY <1>3, <2>5, OwedIs
    <3> HIDE DEF p, h
    <3>2. (p \o h) \o <<>> = p \o h
      BY <2>4, ConcatEmptySeq
    <3> QED BY <2>1, <2>3, <3>1, <3>2 DEF OwesAt, p, h
  <2>6. CASE m \in Chunks
    <3>1. OwedAt("log", m, r) = Append(h, m) /\ OwedAt("renew", m, r) = <<m>>
      BY <1>3, <2>6, OwedIs
    <3> HIDE DEF p, h
    <3>2. p \o Append(h, m) = (p \o h) \o <<m>>
      BY <2>4, <2>6, Sums
    <3> QED BY <2>1, <2>3, <3>1, <3>2 DEF OwesAt, p, h
  <2> QED BY <1>2, <2>5, <2>6 DEF m
<1> QED BY <1>1, <1>2, <1>4, <1>5, ActR

(* Nothing is owed when the log_connection is freed (logpoint.c:282-291).  *)
LEMMA FreeR ==
    ASSUME Sgx, SInv, RInv, NEW t \in Threads, FreeUnlogged(t) \/ FreeLogged(t)
    PROVE  RInv'
<1> DEFINE c == cur[t]
           w == wire[c]
           r == conn[c]
           L == logged[c]
<1>1. /\ pc[t] \in {"closing", "renew"} /\ chunk[t] = None
      /\ pc[t] = "closing" => ~(r.slot # None /\ r.ignore_slots = 0)
      /\ pc' = [pc EXCEPT ![t] = "idle"]
      /\ ssl' = [ssl EXCEPT ![key[t]] = None]
      /\ freed' = freed \cup {c}
      /\ \A d \in Conn : d # c => conn'[d] = conn[d]
      /\ UNCHANGED <<key, chunk, cur, logged, wire, mixed>>
  BY FreeIs DEF LastSlotLogged, Slot
<1>2. /\ pc'[t] = "idle" /\ pc[t] # "idle"
      /\ \A u \in Threads : u # t => pc'[u] = pc[u]
      /\ c = ssl[key[t]] /\ c \in Conn \ freed /\ key[t] \in Keys
      /\ Conn' = Conn /\ c # None /\ r \in ConnRec
  <2>1. /\ pc'[t] = "idle" /\ pc[t] # "idle"
        /\ \A u \in Threads : u # t => pc'[u] = pc[u]
    BY <1>1 DEF SInv, TypeOK
  <2>2. /\ c = ssl[key[t]] /\ c \in Conn \ freed /\ key[t] \in Keys /\ c # None
        /\ r \in ConnRec
    BY <1>1, Place DEF Looked
  <2>3. Conn' = Conn
    BY FreeIs, Typed, LenProperties DEF SInv, Conn
  <2> QED BY <2>1, <2>2, <2>3
<1>3. \A u \in Threads : u # t /\ pc[u] # "idle" => key[u] # key[t]
  BY <1>1, <1>2 DEF SInv, Alone
<1>4. ASSUME NEW d \in Conn, d # c
      PROVE  RequestsAt(d)'
  <2>1. RequestsAt(d)
    BY <1>4 DEF RInv
  <2>2. ~OnConn(t, d) /\ ~OnConn(t, d)'
    BY <1>2, <1>4 DEF OnConn
  <2>3. ASSUME NEW u \in Threads
        PROVE  /\ OnConn(u, d)' <=> OnConn(u, d)
               /\ OnConn(u, d) => pc'[u] = pc[u] /\ chunk'[u] = chunk[u]
    <3>1. CASE u = t
      BY <2>2, <3>1
    <3>2. CASE u # t
      <4>1. pc'[u] = pc[u] /\ key'[u] = key[u] /\ chunk'[u] = chunk[u]
        BY <1>1, <1>2, <3>2
      <4>2. pc[u] # "idle" => ssl'[key[u]] = ssl[key[u]]
        BY <1>1, <1>3, <3>2 DEF SInv, Hooks, TypeOK
      <4> QED BY <4>1, <4>2 DEF OnConn
    <3> QED BY <3>1, <3>2
  <2>4. d \in freed' <=> d \in freed
    BY <1>1, <1>4
  <2> QED BY <1>1, <1>4, <2>1, <2>3, <2>4, FrameR
<1>5. RequestsAt(c)'
  <2>1. OwesAt(pc[t], None, w, r, L)
    <3>1. RequestsAt(c) /\ OnConn(t, c) /\ pc[t] \notin ReplyHooks
      BY <1>1, <1>2 DEF RInv, OnConn, ReplyHooks
    <3>2. OwesAt(pc[t], chunk[t], w, r, L)
      BY <1>2, <3>1, Zenon DEF RequestsAt
    <3> QED BY <1>1, <3>2
  <2>2. L \in Seq(Exchanges)
    BY <1>2, Types
  <2>3. OwedAt(pc[t], None, r) = <<>>
    <3>1. r.ignore_slots \in 0..Ignored /\ Ignored = 0
      BY <1>2 DEF ConnRec, Ignored
    <3>2. pc[t] = "closing" => r.slot = None
      BY <1>1, <3>1
    <3>3. pc[t] = "closing" => Held(r) = <<>>
      BY <3>2 DEF Held
    <3> QED BY <1>1, <1>2, <3>3, OwedIs
  <2> HIDE DEF w, r, L
  <2>4. Requests(L) \o <<>> = Requests(L)
    BY <2>2, ReqsAre, ConcatEmptySeq
  <2>5. Requests(L) = Requests(w)
    BY <2>1, <2>3, <2>4 DEF OwesAt
  <2>6. c' = c
    BY <1>1
  <2> HIDE DEF c
  <2>7. c \in freed' /\ logged'[c] = L /\ wire'[c] = w
    BY <1>1 DEF L, w
  <2> QED BY <2>5, <2>6, <2>7 DEF RequestsAt, Requests
<1>6. \A d \in Conn : RequestsAt(d)'
  BY <1>1, <1>4, <1>5
<1> QED BY <1>2, <1>6 DEF RInv

(* A new connection has received nothing.                                  *)
LEMMA NewConnectionR ==
    ASSUME SInv, RInv, NEW k \in Keys, NewConnection(k)
    PROVE  RInv'
<1> DEFINE n == Len(conn) + 1
<1>1. /\ ssl[k] = None
      /\ Conn' = Conn \cup {n} /\ n \notin Conn
      /\ \A c \in Conn : /\ conn'[c] = conn[c] /\ wire'[c] = wire[c]
                         /\ logged'[c] = logged[c]
      /\ conn'[n] = [log_request |-> FALSE, ignore_slots |-> Ignored, slot |-> None]
      /\ wire'[n] = <<>> /\ logged'[n] = <<>>
      /\ ssl' = [ssl EXCEPT ![k] = n]
      /\ UNCHANGED <<pc, key, chunk, mixed, freed>>
  BY NewConnectionIs DEF hookVars
<1> HIDE DEF n
<1>2. \A u \in Threads : pc[u] # "idle" =>
          /\ key[u] \in Keys /\ key[u] # k /\ ssl'[key[u]] = ssl[key[u]]
          /\ ssl[key[u]] \in Conn
  BY <1>1 DEF SInv, Hooks, Maps, TypeOK
<1>3. ASSUME NEW c \in Conn
      PROVE  RequestsAt(c)'
  <2>1. RequestsAt(c)
    BY DEF RInv
  <2>2. \A u \in Threads : /\ OnConn(u, c)' <=> OnConn(u, c)
                           /\ OnConn(u, c) => pc'[u] = pc[u] /\ chunk'[u] = chunk[u]
    BY <1>1, <1>2 DEF OnConn
  <2> QED BY <1>1, <2>1, <2>2, FrameR
<1>4. ASSUME NEW c, c = n
      PROVE  RequestsAt(c)'
  <2>1. \A u \in Threads : ~OnConn(u, c)'
    BY <1>1, <1>2, <1>4 DEF OnConn
  <2>2. c \notin freed'
    BY <1>1, <1>4 DEF SInv, Lengths
  <2>3. OwesAt("idle", None, wire'[c], conn'[c], logged'[c])
    <3>1. conn'[c].slot = None /\ wire'[c] = <<>> /\ logged'[c] = <<>>
      BY <1>1, <1>4
    <3>2. Held(conn'[c]) = <<>>
      BY <3>1 DEF Held
    <3>3. <<>> \o <<>> = <<>>
      OBVIOUS
    <3>4. OwedAt("idle", None, conn'[c]) = <<>>
      BY <3>2, <3>3 DEF OwedAt
    <3> QED BY <3>1, <3>3, <3>4, RequestsNone DEF OwesAt
  <2> QED BY <2>1, <2>2, <2>3, SettleR
<1>5. \A c \in Conn' : RequestsAt(c)'
  BY <1>1, <1>3, <1>4
<1> QED BY <1>5 DEF RInv

(* Stuttering owes nothing new.                                            *)
LEMMA StutterR ==
    ASSUME RInv, UNCHANGED vars
    PROVE  RInv'
<1>1. UNCHANGED <<ssl, conn, pc, key, chunk, logged, wire, freed>>
  BY DEF vars, hookVars, history
<1>2. ASSUME NEW c \in Conn
      PROVE  RequestsAt(c)'
  <2>1. RequestsAt(c)
    BY DEF RInv
  <2>2. \A u \in Threads : /\ OnConn(u, c)' <=> OnConn(u, c)
                           /\ OnConn(u, c) => pc'[u] = pc[u] /\ chunk'[u] = chunk[u]
    BY <1>1 DEF OnConn
  <2> QED BY <1>1, <2>1, <2>2, FrameR
<1>3. Conn' = Conn
  BY <1>1 DEF Conn
<1> QED BY <1>2, <1>3 DEF RInv

(* Every step keeps account of what is owed.                               *)
LEMMA NextR ==
    ASSUME Sgx
    PROVE  SInv /\ Apart /\ RInv /\ [Next]_vars => RInv'
<1> SUFFICES ASSUME SInv, Apart, RInv, [Next]_vars PROVE RInv'
  OBVIOUS
<1>1. ASSUME NEW k \in Keys, NewConnection(k) PROVE RInv'
  BY <1>1, NewConnectionR
<1>2. ASSUME NEW t \in Threads, NEW k \in Keys,
             Read(t, k) \/ Write(t, k) \/ Close(t, k)
      PROVE  RInv'
  BY <1>2, ReadR, WriteR, CloseR
<1>3. ASSUME NEW t \in Threads, Hook(t) PROVE RInv'
  <2>1. CASE AppendRequest(t) \/ FirstRequest(t) \/ IgnoreSlot(t) \/ RenewSlot(t)
    BY <2>1, CollectR
  <2>2. CASE AppendReply(t) \/ DropReply(t)
    BY <2>2, AppendReplyR
  <2>3. CASE \/ FlushSlot(t) \/ FlushLastSlot(t)
             \/ Enter(t) \/ FinishInit(t) \/ StopSpinning(t)
             \/ Lookup(t) \/ Remove(t)
    BY <2>3, PassR
  <2>4. CASE LogEntry(t)
    BY <2>4, LogEntryR
  <2>5. CASE FreeUnlogged(t) \/ FreeLogged(t)
    BY <2>5, FreeR
  <2> QED BY <1>3, <2>1, <2>2, <2>3, <2>4, <2>5 DEF Hook
<1>4. CASE UNCHANGED vars
  BY <1>4, StutterR
<1> QED BY <1>1, <1>2, <1>3, <1>4 DEF Next

(* In the build for SGX, whatever replies do to requests and however they  *)
(* are split over exchanges: when a log_connection is freed, all that its  *)
(* client has sent has been logged, every chunk once and in order          *)
(* (logpoint.c:149-182, 264-291).                                          *)
THEOREM RequestsAreComplete ==
    ASSUME Sgx
    PROVE  Spec => []RequestsComplete
<1>1. Init => RInv
  BY DEF Init, RInv, Conn
<1>2. SInv /\ Apart /\ RInv /\ [Next]_vars => RInv'
  BY NextR
<1>3. SInv /\ RInv => RequestsComplete
  <2> SUFFICES ASSUME SInv, RInv, NEW c \in freed
               PROVE  Requests(logged[c]) = Requests(wire[c])
    BY DEF RequestsComplete
  <2>1. c \in Conn
    BY DEF SInv, Lengths
  <2> QED BY <2>1, Zenon DEF RInv, RequestsAt
<1> QED BY <1>1, <1>2, <1>3, StructureHolds, ApartHolds, PTL DEF Spec
=============================================================================
