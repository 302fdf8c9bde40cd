---------------------------- MODULE OwncloudProofs ----------------------------
(***************************************************************************)
(* Theorems about OwncloudAuditor, for all sets of threads, sessions,      *)
(* members and operations, every interleaving of the threads and whatever  *)
(* the server sends its members.                                           *)
(***************************************************************************)
EXTENDS OwncloudAuditor, SequenceTheorems, WellFoundedInduction, TLAPS

-----------------------------------------------------------------------------
(* JOINED SEQUENCES.  FlattenSeq of the community modules is a recursive   *)
(* function, and the induction over its argument takes the form of a search*)
(* for a least counterexample.                                             *)

Flat(ss) == S!FlattenSeq(ss)

(* A set of numbers has a least one, if it has any.                        *)
LEMMA LeastNumber ==
    ASSUME NEW N \in SUBSET Nat, N # {}
    PROVE  \E k \in N : \A l \in N : k =< l
<1> DEFINE R == {p \in Nat \X Nat : p[1] < p[2]}
<1>1. IsWellFoundedOn(R, Nat)
  BY NatLessThanWellFounded DEF OpToRel
<1>2. PICK k \in N : \A l \in N : <<l, k>> \notin R
  <2> HIDE DEF R
  <2> QED BY <1>1, WFMin
<1>3. ASSUME NEW l \in N PROVE k =< l
  <2>1. k \in Nat /\ l \in Nat /\ <<l, k>> \notin R
    BY <1>2
  <2>2. ~(l < k)
    BY <2>1
  <2> QED BY <2>1, <2>2
<1> QED BY <1>3

-----------------------------------------------------------------------------
(* The function that FlattenSeq defines: f[i] is the first i sequences.    *)
Joins(ss, n, f) ==
    f = [i \in 1..n |-> IF i = 1 THEN ss[i] ELSE f[i - 1] \o ss[i]]

(* What such a function is at each place.                                  *)
LEMMA JoinsAre ==
    ASSUME NEW ss, NEW n \in Nat, NEW f, Joins(ss, n, f), NEW i \in 1..n
    PROVE  f[i] = IF i = 1 THEN ss[i] ELSE f[i - 1] \o ss[i]
  BY DEF Joins

(* The values at a place depend on the sequences up to there only.         *)
LEMMA JoinsAgree ==
    ASSUME NEW ss, NEW tt, NEW m \in Nat, NEW n \in Nat, m =< n,
           NEW f, Joins(ss, m, f), NEW g, Joins(tt, n, g),
           \A i \in 1..m : ss[i] = tt[i]
    PROVE  \A i \in 1..m : f[i] = g[i]
<1> DEFINE N == {i \in 1..m : f[i] # g[i]}
<1> SUFFICES ASSUME N # {} PROVE FALSE
  OBVIOUS
<1>1. N \in SUBSET Nat
  OBVIOUS
<1>2. PICK k \in N : \A l \in N : k =< l
  <2> HIDE DEF N
  <2> QED BY <1>1, LeastNumber
<1>3. k \in 1..m /\ k \in 1..n /\ f[k] # g[k]
  BY <1>2
<1>4. /\ f[k] = IF k = 1 THEN ss[k] ELSE f[k - 1] \o ss[k]
      /\ g[k] = IF k = 1 THEN tt[k] ELSE g[k - 1] \o tt[k]
  BY <1>3, JoinsAre
<1>5. k # 1 => k - 1 \in 1..m /\ k - 1 \notin N
  BY <1>2, <1>3
<1>6. k # 1 => f[k - 1] = g[k - 1]
  BY <1>5
<1> QED BY <1>3, <1>4, <1>6

(* There is one for every length.                                          *)
LEMMA JoinsExist == \A ss : \A n \in Nat : \E f : Joins(ss, n, f)
<1> SUFFICES ASSUME NEW ss PROVE \A n \in Nat : \E f : Joins(ss, n, f)
  OBVIOUS
<1> DEFINE N == {n \in Nat : ~ \E f : Joins(ss, n, f)}
<1> SUFFICES ASSUME N # {} PROVE FALSE
  OBVIOUS
<1>1. N \in SUBSET Nat
  OBVIOUS
<1>2. PICK k \in N : \A l \in N : k =< l
  <2> HIDE DEF N
  <2> QED BY <1>1, LeastNumber
<1>3. k # 0
  <2>1. Joins(ss, 0, [i \in 1..0 |-> 0])
    BY DEF Joins
  <2> QED BY <1>2, <2>1
<1>4. k - 1 \in Nat /\ k - 1 \notin N
  BY <1>2, <1>3
<1>5. PICK f : Joins(ss, k - 1, f)
  BY <1>4
<1> DEFINE g == [i \in 1..k |-> IF i = 1 THEN ss[i] ELSE f[i - 1] \o ss[i]]
<1>6. \A i \in 1..(k - 1) : g[i] = f[i]
  BY <1>4, <1>5, JoinsAre
<1>7. \A i \in 1..k : i # 1 => g[i - 1] = f[i - 1]
  <2>1. \A i \in 1..k : i # 1 => i - 1 \in 1..(k - 1)
    BY <1>4
  <2> HIDE DEF g
  <2> QED BY <1>6, <2>1
<1>8. g = [i \in 1..k |-> IF i = 1 THEN ss[i] ELSE g[i - 1] \o ss[i]]
  BY <1>7
<1> HIDE DEF g
<1>9. Joins(ss, k, g)
  BY <1>8 DEF Joins
<1> QED BY <1>2, <1>9

(* FlattenSeq is the last value of that function.                          *)
LEMMA FlatIs ==
    ASSUME NEW ss, Len(ss) \in Nat
    PROVE  /\ Len(ss) = 0 => Flat(ss) = ss
           /\ Len(ss) > 0 => \E f : Joins(ss, Len(ss), f) /\ Flat(ss) = f[Len(ss)]
<1> DEFINE h == CHOOSE f : Joins(ss, Len(ss), f)
<1>1. Joins(ss, Len(ss), h)
  <2>1. \E f : Joins(ss, Len(ss), f)
    BY JoinsExist
  <2> QED BY <2>1, Zenon
<1>2. Flat(ss) = IF Len(ss) = 0 THEN ss ELSE h[Len(ss)]
  BY DEF Flat, S!FlattenSeq, Joins
<1> HIDE DEF h
<1> QED BY <1>1, <1>2

-----------------------------------------------------------------------------
(* Flattening yields a sequence of the elements.                           *)
LEMMA FlatType ==
    ASSUME NEW T, NEW ss \in Seq(Seq(T))
    PROVE  Flat(ss) \in Seq(T)
<1>1. Len(ss) \in Nat /\ \A i \in 1..Len(ss) : ss[i] \in Seq(T)
  BY LenProperties, ElementOfSeq
<1>2. CASE Len(ss) = 0
  <2>1. ss = <<>>
    BY <1>2, EmptySeq
  <2> QED BY <1>2, <2>1, FlatIs, EmptySeq
<1>3. CASE Len(ss) > 0
  <2>1. PICK f : Joins(ss, Len(ss), f) /\ Flat(ss) = f[Len(ss)]
    BY <1>1, <1>3, FlatIs
  <2> DEFINE N == {i \in 1..Len(ss) : f[i] \notin Seq(T)}
  <2>2. N = {}
    <3> SUFFICES ASSUME N # {} PROVE FALSE
      OBVIOUS
    <3>1. N \in SUBSET Nat
      OBVIOUS
    <3>2. PICK k \in N : \A l \in N : k =< l
      <4> HIDE DEF N
      <4> QED BY <3>1, LeastNumber
    <3>3. k \in 1..Len(ss) /\ f[k] = IF k = 1 THEN ss[k] ELSE f[k - 1] \o ss[k]
      BY <1>1, <2>1, <3>2, JoinsAre
    <3>4. k # 1 => k - 1 \in 1..Len(ss) /\ k - 1 \notin N
      BY <1>1, <3>2, <3>3
    <3>5. k # 1 => f[k - 1] \in Seq(T)
      BY <3>4
    <3>6. f[k] \in Seq(T)
      BY <1>1, <3>3, <3>5, ConcatProperties
    <3> QED BY <3>2, <3>6
  <2>3. Len(ss) \in 1..Len(ss)
    BY <1>1, <1>3
  <2> QED BY <2>1, <2>2, <2>3
<1> QED BY <1>1, <1>2, <1>3

(* Nothing flattens to nothing.                                            *)
LEMMA FlatEmpty == Flat(<<>>) = <<>>
<1>1. Len(<<>>) = 0
  OBVIOUS
<1> QED BY <1>1, FlatIs

(* One more sequence goes to the end.                                      *)
LEMMA FlatAppend ==
    ASSUME NEW T, NEW ss \in Seq(Seq(T)), NEW s \in Seq(T)
    PROVE  Flat(Append(ss, s)) = Flat(ss) \o s
<1> DEFINE tt == Append(ss, s)
           n == Len(ss)
<1>1. /\ n \in Nat /\ Len(tt) = n + 1 /\ tt[n + 1] = s
      /\ \A i \in 1..n : ss[i] = tt[i]
  BY LenProperties, AppendProperties
<1> HIDE DEF tt
<1>2. PICK g : Joins(tt, n + 1, g) /\ Flat(tt) = g[n + 1]
  BY <1>1, FlatIs
<1>3. g[n + 1] = IF n + 1 = 1 THEN s ELSE g[n] \o s
  <2>1. n + 1 \in 1..(n + 1) /\ n + 1 \in Nat /\ n + 1 - 1 = n
    BY <1>1
  <2> DEFINE k == n + 1
  <2>2. k \in Nat /\ k \in 1..k /\ Joins(tt, k, g)
    BY <1>2, <2>1
  <2> HIDE DEF k, n
  <2>3. g[k] = IF k = 1 THEN tt[k] ELSE g[k - 1] \o tt[k]
    BY <2>2, JoinsAre
  <2> QED BY <1>1, <2>1, <2>3 DEF k
<1>4. CASE n = 0
  <2>1. ss = <<>>
    BY <1>4, EmptySeq
  <2>2. Flat(ss) \o s = s
    BY <2>1, FlatEmpty, ConcatEmptySeq
  <2> QED BY <1>2, <1>3, <1>4, <2>2 DEF tt
<1>5. CASE n > 0
  <2>1. PICK f : Joins(ss, n, f) /\ Flat(ss) = f[n]
    BY <1>1, <1>5, FlatIs
  <2>2. f[n] = g[n]
    <3>1. \A i \in 1..n : f[i] = g[i]
      <4>1. n + 1 \in Nat /\ n =< n + 1
        BY <1>1
      <4> HIDE DEF n
      <4> QED BY <1>1, <1>2, <2>1, <4>1, JoinsAgree
    <3> QED BY <1>1, <1>5, <3>1
  <2> QED BY <1>1, <1>2, <1>3, <1>5, <2>1, <2>2 DEF tt
<1> QED BY <1>1, <1>4, <1>5

(* A sequence is what it is without its last element, and that element.    *)
LEMMA LastApart ==
    ASSUME NEW T, NEW q \in Seq(T), NEW k \in 1..Len(q)
    PROVE  /\ SubSeq(q, 1, k) = Append(SubSeq(q, 1, k - 1), q[k])
           /\ SubSeq(q, 1, k - 1) \in Seq(T) /\ q[k] \in T
<1>1. Len(q) \in Nat /\ \A i \in 1..Len(q) : q[i] \in T
  BY LenProperties, ElementOfSeq
<1>2. /\ SubSeq(q, 1, k) \in Seq(T) /\ Len(SubSeq(q, 1, k)) = k
      /\ \A i \in 1..k : SubSeq(q, 1, k)[i] = q[i]
  <2>1. 1 \in Int /\ k \in Int /\ (\A i \in 1..k : q[i] \in T) /\ k - 1 + 1 = k /\ 1 =< k
    BY <1>1
  <2>2. /\ SubSeq(q, 1, k) \in Seq(T)
        /\ Len(SubSeq(q, 1, k)) = IF 1 =< k THEN k - 1 + 1 ELSE 0
        /\ \A i \in 1..k - 1 + 1 : SubSeq(q, 1, k)[i] = q[1 + i - 1]
    BY <2>1, SubSeqProperties
  <2> QED BY <2>1, <2>2
<1>3. /\ SubSeq(q, 1, k - 1) \in Seq(T) /\ Len(SubSeq(q, 1, k - 1)) = k - 1
      /\ \A i \in 1..(k - 1) : SubSeq(q, 1, k - 1)[i] = q[i]
  <2>1. /\ 1 \in Int /\ k - 1 \in Int /\ (\A i \in 1..(k - 1) : q[i] \in T)
        /\ (k - 1) - 1 + 1 = k - 1 /\ (1 =< k - 1 \/ k = 1)
    BY <1>1
  <2>2. /\ SubSeq(q, 1, k - 1) \in Seq(T)
        /\ Len(SubSeq(q, 1, k - 1)) = IF 1 =< k - 1 THEN (k - 1) - 1 + 1 ELSE 0
        /\ \A i \in 1..(k - 1) - 1 + 1 : SubSeq(q, 1, k - 1)[i] = q[1 + i - 1]
    BY <2>1, SubSeqProperties
  <2> QED BY <2>1, <2>2
<1> DEFINE a == SubSeq(q, 1, k - 1)
           b == SubSeq(q, 1, k)
<1>4. a \in Seq(T) /\ Len(a) = k - 1 /\ q[k] \in T /\ b \in Seq(T)
      /\ Len(b) = k /\ (\A i \in 1..(k - 1) : b[i] = a[i]) /\ b[k] = q[k]
  BY <1>1, <1>2, <1>3
<1> HIDE DEF a, b
<1>5. /\ Append(a, q[k]) \in Seq(T) /\ Len(Append(a, q[k])) = k
      /\ \A i \in 1..(k - 1) : Append(a, q[k])[i] = a[i]
      /\ Append(a, q[k])[k] = q[k]
  BY <1>4, AppendProperties
<1>6. \A i \in 1..k : b[i] = Append(a, q[k])[i]
  BY <1>4, <1>5
<1>7. b = Append(a, q[k])
  BY <1>4, <1>5, <1>6, SeqEqual
<1> QED BY <1>4, <1>7 DEF a, b

(* One more element goes to the end of both.                               *)
LEMMA JoinAppend ==
    ASSUME NEW T, NEW p \in Seq(T), NEW a \in Seq(T), NEW s \in T
    PROVE  p \o a \in Seq(T) /\ p \o Append(a, s) = Append(p \o a, s)
<1> DEFINE e == <<s>>
<1>1. p \o a \in Seq(T) /\ e \in Seq(T)
  BY ConcatProperties
<1>2. Append(a, s) = a \o e /\ Append(p \o a, s) = (p \o a) \o e
  BY <1>1, AppendIsConcat
<1> HIDE DEF e
<1>3. (p \o a) \o e = p \o (a \o e)
  BY <1>1, ConcatAssociative
<1> QED BY <1>1, <1>2, <1>3

LEMMA FlatConcatStep ==
    ASSUME NEW T, NEW p \in Seq(Seq(T)), NEW a \in Seq(Seq(T)),
           NEW s \in Seq(T), Flat(p \o a) = Flat(p) \o Flat(a)
    PROVE  Flat(p \o Append(a, s)) = Flat(p) \o Flat(Append(a, s))
<1>1. p \o a \in Seq(Seq(T)) /\ p \o Append(a, s) = Append(p \o a, s)
  <2> DEFINE U == Seq(T)
  <2>1. p \in Seq(U) /\ a \in Seq(U) /\ s \in U
    OBVIOUS
  <2> HIDE DEF U
  <2>2. p \o a \in Seq(U) /\ p \o Append(a, s) = Append(p \o a, s)
    BY <2>1, JoinAppend
  <2> QED BY <2>2 DEF U
<1>2. /\ Flat(Append(p \o a, s)) = Flat(p \o a) \o s
      /\ Flat(Append(a, s)) = Flat(a) \o s
  BY <1>1, FlatAppend
<1>3. (Flat(p) \o Flat(a)) \o s = Flat(p) \o (Flat(a) \o s)
  <2>1. Flat(p) \in Seq(T) /\ Flat(a) \in Seq(T)
    BY FlatType
  <2> QED BY <2>1, ConcatAssociative
<1> QED BY <1>1, <1>2, <1>3

(* Two rows of sequences, one after the other.                             *)
LEMMA FlatConcat ==
    ASSUME NEW T, NEW p \in Seq(Seq(T)), NEW q \in Seq(Seq(T))
    PROVE  Flat(p \o q) = Flat(p) \o Flat(q)
<1> DEFINE upTo(k) == SubSeq(q, 1, k)
           N == {k \in 0..Len(q) : Flat(p \o upTo(k)) # Flat(p) \o Flat(upTo(k))}
<1>0. Len(q) \in Nat
  BY LenProperties
<1>1. N = {}
  <2> SUFFICES ASSUME N # {} PROVE FALSE
    OBVIOUS
  <2>1. N \in SUBSET Nat
    BY <1>0
  <2>2. PICK k \in N : \A l \in N : k =< l
    <3> HIDE DEF N
    <3> QED BY <2>1, LeastNumber
  <2>3. k \in 0..Len(q) /\ Flat(p \o upTo(k)) # Flat(p) \o Flat(upTo(k))
    BY <2>2
  <2>4. CASE k = 0
    <3>1. upTo(k) = <<>>
      <4>1. 1 \in Int /\ k \in Int /\ k < 1
        BY <2>4
      <4> QED BY <4>1, SubSeqEmpty
    <3>2. p \o upTo(k) = p /\ Flat(upTo(k)) = <<>>
      BY <3>1, ConcatEmptySeq, FlatEmpty
    <3>3. Flat(p) \o <<>> = Flat(p)
      BY FlatType, ConcatEmptySeq
    <3> QED BY <2>3, <3>2, <3>3
  <2>5. CASE k # 0
    <3>1. k \in 1..Len(q) /\ k - 1 \in 0..Len(q)
      BY <1>0, <2>3, <2>5
    <3> DEFINE a == upTo(k - 1)
               s == q[k]
    <3>2. upTo(k) = Append(a, s) /\ a \in Seq(Seq(T)) /\ s \in Seq(T)
      BY <3>1, LastApart
    <3>3. Flat(p \o a) = Flat(p) \o Flat(a)
      <4>1. k - 1 \notin N
        BY <2>1, <2>2, <3>1
      <4> QED BY <3>1, <4>1
    <3> HIDE DEF a, s
    <3>4. Flat(p \o Append(a, s)) = Flat(p) \o Flat(Append(a, s))
      <4>1. a \in Seq(Seq(T)) /\ s \in Seq(T)
        BY <3>2
      <4> QED BY <3>3, <4>1, FlatConcatStep
    <3>7. Flat(p \o upTo(k)) = Flat(p) \o Flat(upTo(k))
      BY <3>2, <3>4
    <3> QED BY <2>3, <3>7
  <2> QED BY <2>4, <2>5
<1>2. Flat(p \o upTo(Len(q))) = Flat(p) \o Flat(upTo(Len(q)))
  BY <1>0, <1>1
<1>3. upTo(Len(q)) = q
  BY SubSeqFull
<1> QED BY <1>2, <1>3

(* Empty sequences contribute nothing.                                     *)
LEMMA FlatNothing ==
    ASSUME NEW T, NEW q \in Seq(Seq(T)), \A i \in 1..Len(q) : q[i] = <<>>
    PROVE  Flat(q) = <<>>
<1> DEFINE upTo(k) == SubSeq(q, 1, k)
           N == {k \in 0..Len(q) : Flat(upTo(k)) # <<>>}
<1>0. Len(q) \in Nat
  BY LenProperties
<1>1. N = {}
  <2> SUFFICES ASSUME N # {} PROVE FALSE
    OBVIOUS
  <2>1. N \in SUBSET Nat
    BY <1>0
  <2>2. PICK k \in N : \A l \in N : k =< l
    <3> HIDE DEF N
    <3> QED BY <2>1, LeastNumber
  <2>3. k \in 0..Len(q) /\ Flat(upTo(k)) # <<>>
    BY <2>2
  <2>4. CASE k = 0
    <3>1. upTo(k) = <<>>
      <4>1. 1 \in Int /\ k \in Int /\ k < 1
        BY <2>4
      <4> QED BY <4>1, SubSeqEmpty
    <3> QED BY <2>3, <3>1, FlatEmpty
  <2>5. CASE k # 0
    <3>1. k \in 1..Len(q) /\ k - 1 \in 0..Len(q)
      BY <1>0, <2>3, <2>5
    <3> DEFINE a == upTo(k - 1)
    <3>2. upTo(k) = Append(a, q[k]) /\ a \in Seq(Seq(T)) /\ q[k] \in Seq(T)
      BY <3>1, LastApart
    <3>3. Flat(a) = <<>>
      <4>1. k - 1 \notin N
        BY <2>1, <2>2, <3>1
      <4> QED BY <3>1, <4>1
    <3> HIDE DEF a
    <3>4. Flat(Append(a, q[k])) = Flat(a) \o q[k]
      BY <3>2, FlatAppend
    <3>5. q[k] = <<>>
      BY <3>1
    <3>6. <<>> \o <<>> = <<>>
      OBVIOUS
    <3> QED BY <2>3, <3>2, <3>3, <3>4, <3>5, <3>6
  <2> QED BY <2>4, <2>5
<1>2. Flat(upTo(Len(q))) = <<>>
  BY <1>0, <1>1
<1>3. upTo(Len(q)) = q
  BY SubSeqFull
<1> QED BY <1>2, <1>3

(* A row of sequences that goes on where another one ends.                 *)
Begins(p, q) == Len(p) =< Len(q) /\ \A i \in 1..Len(p) : p[i] = q[i]

After(p, q) == SubSeq(q, Len(p) + 1, Len(q))

LEMMA FlatPrefix ==
    ASSUME NEW T, NEW p \in Seq(Seq(T)), NEW q \in Seq(Seq(T)), Begins(p, q)
    PROVE  /\ After(p, q) \in Seq(Seq(T))
           /\ Flat(q) = Flat(p) \o Flat(After(p, q))
           /\ \A j \in 1..Len(After(p, q)) :
                 Len(p) + j \in 1..Len(q) /\ After(p, q)[j] = q[Len(p) + j]
<1> DEFINE n == Len(p)
           r == After(p, q)
<1>0. Len(p) =< Len(q) /\ \A i \in 1..Len(p) : p[i] = q[i]
  BY DEF Begins
<1>1. n \in Nat /\ Len(q) \in Nat /\ \A i \in 1..Len(q) : q[i] \in Seq(T)
  BY LenProperties, ElementOfSeq
<1>2. /\ r \in Seq(Seq(T)) /\ Len(r) = Len(q) - n
      /\ \A j \in 1..(Len(q) - n) : r[j] = q[n + j]
  <2>1. /\ n + 1 \in Int /\ Len(q) \in Int
        /\ \A i \in (n + 1)..Len(q) : q[i] \in Seq(T)
    BY <1>1
  <2>2. /\ r \in Seq(Seq(T))
        /\ Len(r) = IF n + 1 <= Len(q) THEN Len(q) - (n + 1) + 1 ELSE 0
        /\ \A j \in 1..Len(q) - (n + 1) + 1 : r[j] = q[n + 1 + j - 1]
    BY <2>1, SubSeqProperties DEF After
  <2> HIDE DEF n, r
  <2>3. Len(q) - (n + 1) + 1 = Len(q) - n /\ (n + 1 <= Len(q) \/ n = Len(q))
    BY <1>0, <1>1 DEF n
  <2>4. \A j \in 1..(Len(q) - n) : n + 1 + j - 1 = n + j
    BY <1>1
  <2>5. Len(r) = Len(q) - n
    <3>1. Len(r) = IF n + 1 <= Len(q) THEN Len(q) - (n + 1) + 1 ELSE 0
      BY <2>2
    <3>2. n + 1 <= Len(q) => Len(r) = Len(q) - n
      BY <2>3, <3>1
    <3>3. n = Len(q) => Len(r) = 0 /\ Len(q) - n = 0
      BY <1>1, <3>1
    <3> QED BY <2>3, <3>2, <3>3
  <2>6. \A j \in 1..(Len(q) - n) : r[j] = q[n + 1 + j - 1]
    BY <2>2, <2>3
  <2> QED BY <2>2, <2>4, <2>5, <2>6
<1> HIDE DEF r
<1>3. p \o r = q
  <2>1. /\ p \o r \in Seq(Seq(T)) /\ Len(p \o r) = n + Len(r)
        /\ \A i \in 1..n + Len(r) :
              (p \o r)[i] = IF i <= n THEN p[i] ELSE r[i - n]
    BY <1>2, ConcatProperties
  <2>2. n + Len(r) = Len(q)
    BY <1>1, <1>2
  <2>3. ASSUME NEW i \in 1..Len(q) PROVE (p \o r)[i] = q[i]
    <3>1. CASE i <= n
      BY <1>0, <1>1, <2>1, <2>2, <3>1
    <3>2. CASE ~(i <= n)
      <4>1. i - n \in 1..(Len(q) - n) /\ n + (i - n) = i
        BY <1>1, <3>2
      <4>2. r[i - n] = q[i]
        BY <1>2, <4>1
      <4> QED BY <2>1, <2>2, <3>2, <4>2
    <3> QED BY <3>1, <3>2
  <2> HIDE DEF n
  <2> QED BY <2>1, <2>2, <2>3, SeqEqual
<1>4. Flat(q) = Flat(p) \o Flat(r)
  <2>1. Flat(p \o r) = Flat(p) \o Flat(r)
    BY <1>2, FlatConcat
  <2> QED BY <1>3, <2>1
<1>5. ASSUME NEW j \in 1..Len(r)
      PROVE  n + j \in 1..Len(q) /\ r[j] = q[n + j]
  <2> HIDE DEF n
  <2> QED BY <1>1, <1>2
<1> QED BY <1>2, <1>4, <1>5 DEF r

(* Empty sequences at the end contribute nothing.                          *)
LEMMA FlatPadded ==
    ASSUME NEW T, NEW p \in Seq(Seq(T)), NEW q \in Seq(Seq(T)), Begins(p, q),
           \A i \in 1..Len(q) : i > Len(p) => q[i] = <<>>
    PROVE  Flat(q) = Flat(p)
<1> DEFINE r == After(p, q)
<1>1. /\ r \in Seq(Seq(T)) /\ Flat(q) = Flat(p) \o Flat(r)
      /\ \A j \in 1..Len(r) :
            Len(p) + j \in 1..Len(q) /\ r[j] = q[Len(p) + j]
  BY FlatPrefix
<1> HIDE DEF r
<1>2. Len(p) \in Nat
  BY LenProperties
<1>3. ASSUME NEW j \in 1..Len(r) PROVE r[j] = <<>>
  <2>1. Len(p) + j \in 1..Len(q) /\ Len(p) + j > Len(p)
    BY <1>1, <1>2
  <2> QED BY <1>1, <2>1
<1>4. Flat(r) = <<>>
  BY <1>1, <1>3, FlatNothing
<1>5. Flat(p) \in Seq(T)
  BY FlatType
<1> QED BY <1>1, <1>4, <1>5, ConcatEmptySeq

-----------------------------------------------------------------------------
(* THE INVARIANT.  The time of a row is given in one step and becomes a key*)
(* of the table in a later one, in between other threads give times and    *)
(* insert rows: all times that were given are past, and those under way    *)
(* differ from each other and from the keys of the table.                  *)

Inserting(t) == pc[t] = "insert"

Types ==
    /\ logictime \in Nat
    /\ pc \in [Threads -> {"idle", "insert"}]
    /\ result = [t \in Threads |-> result[t]]

(* The keys of the table are past times. *)
KeysArePast == \A r \in sync : r.time \in Nat /\ r.time < logictime

(* A row under way has a past time, which is no key yet. *)
RowsAreNew ==
    \A t \in Threads : Inserting(t) =>
        /\ result[t].time \in Nat /\ result[t].time < logictime
        /\ \A r \in sync : r.time # result[t].time

(* No two threads have been given the same time. *)
TimesDiffer ==
    \A t, u \in Threads :
        Inserting(t) /\ Inserting(u) /\ result[t].time = result[u].time => t = u

IInv ==
    /\ Types
    /\ KeysArePast
    /\ RowsAreNew
    /\ TimesDiffer
    /\ RowsAreStored

-----------------------------------------------------------------------------
(* Init establishes the invariant: there are no rows.                      *)
LEMMA InitKeeps == Init => IInv
  BY DEF Init, IInv, Types, KeysArePast, RowsAreNew, TimesDiffer, Inserting,
         RowsAreStored

(* A time that ProcessLog gives is later than all before.                  *)
LEMMA ProcessLogKeeps ==
    ASSUME IInv, NEW t \in Threads, ProcessLog(t)
    PROVE  IInv'
<1> USE DEF IInv
<1>1. /\ pc[t] = "idle" /\ logictime' = logictime + 1
      /\ UNCHANGED <<sync, refused>>
  BY DEF ProcessLog, TakePair
<1>2. \/ result' = result /\ pc' = pc
      \/ /\ pc' = [pc EXCEPT ![t] = "insert"]
         /\ \E n \in DOMAIN wire \ Logged :
               result' = [result EXCEPT ![t] = RowOf(logictime, wire[n])]
  BY DEF ProcessLog, TakePair
<1>3. \A u \in Threads : u # t => result'[u] = result[u] /\ pc'[u] = pc[u]
  BY <1>2 DEF Types
<1>4. pc'[t] = "insert" => result'[t].time = logictime
  BY <1>1, <1>2 DEF Types, RowOf
<1>5. Types'
  BY <1>1, <1>2 DEF Types
<1>6. KeysArePast'
  BY <1>1 DEF KeysArePast, Types
<1>7. RowsAreNew'
  <2> SUFFICES ASSUME NEW u \in Threads, Inserting(u)'
               PROVE  /\ result'[u].time \in Nat
                      /\ result'[u].time < logictime'
                      /\ \A r \in sync' : r.time # result'[u].time
    BY DEF RowsAreNew
  <2>1. CASE u = t
    BY <2>1, <1>1, <1>4 DEF Inserting, Types, KeysArePast
  <2>2. CASE u # t
    BY <2>2, <1>1, <1>3 DEF Inserting, Types, RowsAreNew
  <2> QED BY <2>1, <2>2
<1>8. TimesDiffer'
  BY <1>1, <1>3, <1>4 DEF TimesDiffer, Inserting, Types, RowsAreNew
<1>9. RowsAreStored'
  BY <1>1 DEF RowsAreStored, IsStatement
<1> QED BY <1>5, <1>6, <1>7, <1>8, <1>9

(* The row that Insert puts into the table has a key of its own; if it is  *)
(* refused, that is because no statement can be made of it.                *)
LEMMA InsertKeeps ==
    ASSUME IInv, NEW t \in Threads, Insert(t)
    PROVE  IInv'
<1> USE DEF IInv
<1>1. /\ Inserting(t) /\ logictime' = logictime
      /\ pc' = [pc EXCEPT ![t] = "idle"]
      /\ result' = [result EXCEPT ![t] = None]
  BY DEF Insert, Inserting
<1>2. \/ sync' = sync \cup {result[t]} /\ refused' = refused
      \/ /\ sync' = sync /\ refused' = refused \cup {result[t]}
         /\ ~IsStatement(result[t])
  BY <1>1 DEF Insert, Accepts, RowsAreNew
<1>3. /\ ~Inserting(t)'
      /\ \A u \in Threads :
            Inserting(u)' => u # t /\ Inserting(u) /\ result'[u] = result[u]
  BY <1>1 DEF Types, Inserting
<1>4. Types'
  BY <1>1 DEF Types
<1>5. KeysArePast'
  BY <1>1, <1>2 DEF KeysArePast, RowsAreNew
<1>6. RowsAreNew'
  BY <1>1, <1>2, <1>3 DEF RowsAreNew, TimesDiffer
<1>7. TimesDiffer'
  BY <1>3 DEF TimesDiffer
<1>8. RowsAreStored'
  BY <1>2 DEF RowsAreStored, IsStatement
<1> QED BY <1>4, <1>5, <1>6, <1>7, <1>8

(* What the server and its clients do concerns no row.                     *)
LEMMA OthersKeep ==
    ASSUME IInv, UNCHANGED <<logictime, sync, pc, result, refused>>
    PROVE  IInv'
  BY DEF IInv, Types, KeysArePast, RowsAreNew, TimesDiffer, Inserting,
         RowsAreStored, IsStatement

(* Every step keeps the invariant.                                         *)
LEMMA StepKeeps == IInv /\ [Next]_vars => IInv'
<1> SUFFICES ASSUME IInv, [Next]_vars PROVE IInv'
  OBVIOUS
<1>1. ASSUME NEW m \in Members, NEW e \in SessionsOf[m],
             Add(m, e) \/ Fetch(m, e)
      PROVE  IInv'
  BY <1>1, OthersKeep DEF Add, Fetch, Exchange
<1>2. CASE OtherPair
  BY <1>2, OthersKeep DEF OtherPair, Exchange
<1>3. ASSUME NEW t \in Threads, Thread(t) PROVE IInv'
  BY <1>3, ProcessLogKeeps, InsertKeeps DEF Thread
<1>4. CASE UNCHANGED vars
  BY <1>4, OthersKeep DEF vars
<1> QED BY <1>1, <1>2, <1>3, <1>4 DEF Next

-----------------------------------------------------------------------------
(* owncloud/main.cpp:29, libseal_process_log_at_runtime: however threads   *)
(* interleave between taking a time and inserting the row of this time, the*)
(* primary key of sync refuses no row.                                     *)
THEOREM RowsGetStored == Spec => []RowsAreStored
<1>1. Init => IInv
  BY InitKeeps
<1>2. IInv /\ [Next]_vars => IInv'
  BY StepKeeps
<1>3. IInv => RowsAreStored
  BY DEF IInv
<1> QED BY <1>1, <1>2, <1>3, PTL DEF Spec

-----------------------------------------------------------------------------
(* WHAT THE TABLE SAYS OF THE WIRE.  As long as no text holds a quotation  *)
(* mark, every pair that has a time has its row, in the table or under way,*)
(* and there are no other rows.                                            *)

Entries ==
    [what : {"other"}]
        \cup {x \in [what : {"added", "new_ops", "conflict"}, member : Members,
                     esid : Sessions, ops : Seq(Ops)] :
                x.esid \in SessionsOf[x.member]}

HistoryTypes ==
    /\ accepted \in [Sessions -> Seq(Ops)]
    /\ seen = [m \in Members |-> [e \in SessionsOf[m] |-> seen[m][e]]]
    /\ \A m \in Members : \A e \in SessionsOf[m] : seen[m][e] \in Nat
    /\ wire \in Seq(Entries) /\ Len(wire) =< MaxExchanges
    /\ times \in Seq(1..Len(wire)) /\ logictime = Len(times) + 1

(* A row is that of the pair which was given its time. *)
IsRowOfPair(r) ==
    /\ r.time \in 1..Len(times)
    /\ HasRow(wire[times[r.time]])
    /\ r = RowOf(r.time, wire[times[r.time]])

RowsAreOfPairs ==
    /\ \A r \in sync : IsRowOfPair(r)
    /\ \A t \in Threads : Inserting(t) => IsRowOfPair(result[t])

(* A pair that has a time has its row in the table or under way. *)
PairsHaveRows ==
    \A n \in 1..Len(times) : HasRow(wire[times[n]]) =>
        \/ \E r \in sync : r.time = n
        \/ \E t \in Threads : Inserting(t) /\ result[t].time = n

HInv ==
    /\ IInv
    /\ HistoryTypes
    /\ RowsAreOfPairs
    /\ PairsHaveRows

LEMMA InitTells == Init => HInv
<1> SUFFICES ASSUME Init PROVE HInv
  OBVIOUS
<1>1. IInv
  BY InitKeeps
<1>2. HistoryTypes
  BY OwncloudAssumption DEF Init, HistoryTypes
<1>3. RowsAreOfPairs
  BY DEF Init, RowsAreOfPairs, Inserting
<1>4. PairsHaveRows
  BY DEF Init, PairsHaveRows
<1> QED BY <1>1, <1>2, <1>3, <1>4 DEF HInv

(* What the server and its clients exchange goes to the end of the wire.   *)
LEMMA ExchangeTells ==
    ASSUME HInv, NEW x \in Entries, NEW honest, Exchange(x, honest),
           accepted' \in [Sessions -> Seq(Ops)],
           seen' = [m \in Members |-> [e \in SessionsOf[m] |-> seen'[m][e]]],
           \A m \in Members : \A e \in SessionsOf[m] : seen'[m][e] \in Nat
    PROVE  HInv'
<1> USE DEF HInv
<1>1. /\ Len(wire) < MaxExchanges /\ wire' = Append(wire, x)
      /\ UNCHANGED <<logictime, times, sync, pc, result, refused>>
  BY DEF Exchange
<1>2. /\ wire' \in Seq(Entries) /\ Len(wire') = Len(wire) + 1
      /\ Len(wire) \in Nat
      /\ \A i \in 1..Len(wire) : wire'[i] = wire[i]
  BY <1>1, AppendProperties, LenProperties DEF HistoryTypes
<1>3. /\ times' = times /\ times \in Seq(1..Len(wire'))
      /\ \A n \in 1..Len(times) : wire'[times[n]] = wire[times[n]]
  <2>1. \A n \in 1..Len(times) : times[n] \in 1..Len(wire)
    BY ElementOfSeq DEF HistoryTypes
  <2>2. 1..Len(wire) \subseteq 1..Len(wire')
    BY <1>2
  <2>3. ASSUME NEW A, NEW B, A \subseteq B, NEW s \in Seq(A) PROVE s \in Seq(B)
    <3>1. Len(s) \in Nat /\ \A i \in 1..Len(s) : s[i] \in A
      BY <2>3, ElementOfSeq, LenProperties
    <3>2. s \in [1..Len(s) -> B]
      BY <2>3, <3>1, LenProperties
    <3> QED BY <3>1, <3>2
  <2>4. times \in Seq(1..Len(wire'))
    BY <2>2, <2>3 DEF HistoryTypes
  <2> QED BY <1>1, <1>2, <2>1, <2>4
<1>4. IInv'
  BY <1>1, OthersKeep
<1>5. HistoryTypes'
  <2>1. Len(wire') =< MaxExchanges
    BY <1>1, <1>2, OwncloudAssumption
  <2> QED BY <1>1, <1>2, <1>3, <2>1 DEF HistoryTypes
<1>6. \A r : IsRowOfPair(r) => IsRowOfPair(r)'
  BY <1>3 DEF IsRowOfPair
<1>7. RowsAreOfPairs'
  BY <1>1, <1>6 DEF RowsAreOfPairs, Inserting
<1>8. PairsHaveRows'
  BY <1>1, <1>3 DEF PairsHaveRows, Inserting
<1> QED BY <1>4, <1>5, <1>7, <1>8

LEMMA AddTells ==
    ASSUME HInv, NEW m \in Members, NEW e \in SessionsOf[m], Add(m, e)
    PROVE  HInv'
<1>1. PICK ops \in Polls \ {<<>>} :
        /\ Exchange([what |-> "added", member |-> m, esid |-> e, ops |-> ops],
                    seen[m][e] = Len(accepted[e]))
        /\ accepted' = [accepted EXCEPT ![e] = @ \o ops]
        /\ seen' = [seen EXCEPT ![m][e] = Len(accepted'[e])]
  BY DEF Add
<1>2. e \in Sessions /\ ops \in Seq(Ops)
  BY OwncloudAssumption DEF Polls
<1> DEFINE x == [what |-> "added", member |-> m, esid |-> e, ops |-> ops]
<1>3. x \in Entries
  BY <1>2 DEF Entries
<1>4. accepted' \in [Sessions -> Seq(Ops)]
  BY <1>1, <1>2 DEF HInv, HistoryTypes
<1>5. /\ seen' = [p \in Members |-> [f \in SessionsOf[p] |-> seen'[p][f]]]
      /\ \A p \in Members : \A f \in SessionsOf[p] : seen'[p][f] \in Nat
  <2> DEFINE v == Len(accepted'[e])
  <2>1. v \in Nat
    BY <1>2, <1>4, LenProperties
  <2>2. seen' = [seen EXCEPT ![m][e] = v]
    BY <1>1
  <2> HIDE DEF v
  <2> QED BY <2>1, <2>2 DEF HInv, HistoryTypes
<1> QED BY <1>1, <1>3, <1>4, <1>5, ExchangeTells

LEMMA FetchTells ==
    ASSUME HInv, NEW m \in Members, NEW e \in SessionsOf[m], Fetch(m, e)
    PROVE  HInv'
<1> DEFINE missing == SubSeq(accepted[e], seen[m][e] + 1, Len(accepted[e]))
<1>1. e \in Sessions /\ accepted[e] \in Seq(Ops) /\ seen[m][e] \in Nat
  BY OwncloudAssumption DEF HInv, HistoryTypes
<1>2. missing \in Seq(Ops)
  <2> DEFINE s == accepted[e]
             i == seen[m][e] + 1
  <2>1. s \in Seq(Ops) /\ i \in Int /\ 1 =< i /\ Len(s) \in Nat
    BY <1>1, LenProperties
  <2> HIDE DEF s, i
  <2>2. \A k \in i..Len(s) : s[k] \in Ops
    BY <2>1, ElementOfSeq
  <2>3. SubSeq(s, i, Len(s)) \in Seq(Ops)
    BY <2>1, <2>2, SubSeqProperties
  <2> QED BY <2>3 DEF s, i
<1> HIDE DEF missing
<1>3. PICK ops \in Polls \cup {missing}, what \in {"new_ops", "conflict"} :
        /\ Exchange([what |-> what, member |-> m, esid |-> e, ops |-> ops],
                    ops = missing /\ (what = "conflict" => ops # <<>>))
        /\ seen' = [seen EXCEPT ![m][e] = Len(accepted[e])]
        /\ UNCHANGED accepted
  BY DEF Fetch, missing
<1>4. ops \in Seq(Ops)
  BY <1>2 DEF Polls
<1> DEFINE x == [what |-> what, member |-> m, esid |-> e, ops |-> ops]
<1>5. x \in Entries
  BY <1>1, <1>4 DEF Entries
<1>6. accepted' \in [Sessions -> Seq(Ops)]
  BY <1>3 DEF HInv, HistoryTypes
<1>7. /\ seen' = [p \in Members |-> [f \in SessionsOf[p] |-> seen'[p][f]]]
      /\ \A p \in Members : \A f \in SessionsOf[p] : seen'[p][f] \in Nat
  <2>1. Len(accepted[e]) \in Nat
    BY <1>1, LenProperties
  <2> QED BY <1>3, <2>1 DEF HInv, HistoryTypes
<1> QED BY <1>3, <1>5, <1>6, <1>7, ExchangeTells

(* A pair that is taken has its row from now on, under way.                *)
LEMMA ProcessLogTells ==
    ASSUME HInv, NEW t \in Threads, ProcessLog(t)
    PROVE  HInv'
<1> USE DEF HInv
<1>1. PICK n \in DOMAIN wire \ Logged :
        /\ times' = Append(times, n)
        /\ IF HasRow(wire[n])
           THEN /\ result' = [result EXCEPT ![t] = RowOf(logictime, wire[n])]
                /\ pc' = [pc EXCEPT ![t] = "insert"]
           ELSE UNCHANGED <<result, pc>>
  BY DEF ProcessLog, TakePair
<1>2. /\ pc[t] = "idle" /\ logictime' = logictime + 1
      /\ UNCHANGED <<accepted, seen, wire, sync, refused>>
  BY DEF ProcessLog, TakePair, server
<1>3. /\ n \in 1..Len(wire) /\ Len(times) \in Nat /\ logictime = Len(times) + 1
      /\ times' \in Seq(1..Len(wire)) /\ Len(times') = Len(times) + 1
      /\ \A k \in 1..Len(times) : times'[k] = times[k]
      /\ times'[logictime] = n
  BY <1>1, AppendProperties, LenProperties DEF HistoryTypes
<1>4. IInv'
  BY ProcessLogKeeps
<1>5. HistoryTypes'
  BY <1>2, <1>3 DEF HistoryTypes
<1>6. ASSUME NEW r, IsRowOfPair(r) PROVE IsRowOfPair(r)'
  <2> DEFINE k == r.time
  <2>1. k \in 1..Len(times) /\ HasRow(wire[times[k]]) /\ r = RowOf(k, wire[times[k]])
    BY <1>6 DEF IsRowOfPair
  <2> HIDE DEF k
  <2>2. /\ k \in 1..Len(times') /\ wire' = wire /\ times'[k] = times[k]
    BY <1>2, <1>3, <2>1
  <2>3. k \in 1..Len(times') /\ HasRow(wire'[times'[k]]) /\ r = RowOf(k, wire'[times'[k]])
    BY <2>1, <2>2
  <2> QED BY <2>3 DEF IsRowOfPair, k
<1>7. \A u \in Threads : u # t => result'[u] = result[u] /\ pc'[u] = pc[u]
  BY <1>1 DEF IInv, Types
<1>8. Inserting(t)' => HasRow(wire[n]) /\ result'[t] = RowOf(logictime, wire[n])
  BY <1>1, <1>2 DEF Inserting, IInv, Types
<1>9. Inserting(t)' => IsRowOfPair(result[t])'
  BY <1>2, <1>3, <1>8 DEF IsRowOfPair, RowOf
<1>10. RowsAreOfPairs'
  BY <1>2, <1>6, <1>7, <1>9 DEF RowsAreOfPairs, Inserting
<1>11. PairsHaveRows'
  <2> SUFFICES ASSUME NEW k \in 1..Len(times'), HasRow(wire[times'[k]])
               PROVE  \/ \E r \in sync : r.time = k
                      \/ \E u \in Threads :
                            Inserting(u)' /\ result'[u].time = k
    BY <1>2 DEF PairsHaveRows
  <2>1. CASE k = logictime
    <3>1. HasRow(wire[n])
      BY <2>1, <1>3
    <3>2. Inserting(t)' /\ result'[t].time = k
      BY <2>1, <3>1, <1>1 DEF Inserting, IInv, Types, RowOf
    <3> QED BY <3>2
  <2>2. CASE k # logictime
    <3>1. k \in 1..Len(times) /\ HasRow(wire[times[k]])
      BY <2>2, <1>3
    <3>2. CASE \E r \in sync : r.time = k
      BY <3>2
    <3>3. ASSUME NEW u \in Threads, Inserting(u), result[u].time = k
          PROVE  Inserting(u)' /\ result'[u].time = k
      BY <3>3, <1>2, <1>7 DEF Inserting
    <3> QED BY <3>1, <3>2, <3>3 DEF PairsHaveRows
  <2> QED BY <2>1, <2>2
<1> QED BY <1>4, <1>5, <1>10, <1>11

(* A row that is inserted is accepted, if no text holds a quotation mark.  *)
LEMMA InsertTells ==
    ASSUME Quoted = {}, HInv, NEW t \in Threads, Insert(t)
    PROVE  HInv'
<1> USE DEF HInv
<1>1. /\ Inserting(t)
      /\ UNCHANGED <<accepted, seen, wire, logictime, times>>
      /\ pc' = [pc EXCEPT ![t] = "idle"]
      /\ result' = [result EXCEPT ![t] = None]
  BY DEF Insert, Inserting, server
<1>2. Accepts(result[t])
  BY <1>1 DEF Accepts, IsStatement, IInv, RowsAreNew
<1>3. sync' = sync \cup {result[t]}
  BY <1>2 DEF Insert
<1>4. /\ ~Inserting(t)'
      /\ \A u \in Threads : u # t =>
            result'[u] = result[u] /\ (Inserting(u)' <=> Inserting(u))
  BY <1>1 DEF Inserting, IInv, Types
<1>5. IInv'
  BY InsertKeeps
<1>6. HistoryTypes'
  BY <1>1 DEF HistoryTypes
<1>7. \A r : IsRowOfPair(r) => IsRowOfPair(r)'
  BY <1>1 DEF IsRowOfPair
<1>8. RowsAreOfPairs'
  <2>1. \A u \in Threads : Inserting(u)' => IsRowOfPair(result'[u])
    BY <1>4 DEF RowsAreOfPairs
  <2>2. \A r \in sync' : IsRowOfPair(r)
    BY <1>1, <1>3 DEF RowsAreOfPairs
  <2>3. \A r : IsRowOfPair(r)' <=> IsRowOfPair(r)
    BY <1>1 DEF IsRowOfPair
  <2>4. \A u \in Threads : Inserting(u)' => IsRowOfPair(result[u])'
    BY <1>1, <2>1 DEF IsRowOfPair
  <2> QED BY <2>2, <2>3, <2>4 DEF RowsAreOfPairs
<1>9. PairsHaveRows'
  BY <1>1, <1>3, <1>4 DEF PairsHaveRows
<1> QED BY <1>5, <1>6, <1>8, <1>9

(* Every step keeps it.                                                    *)
LEMMA StepTells ==
    ASSUME Quoted = {}
    PROVE  HInv /\ [Next]_vars => HInv'
<1> SUFFICES ASSUME HInv, [Next]_vars PROVE HInv'
  OBVIOUS
<1>1. ASSUME NEW m \in Members, NEW e \in SessionsOf[m], Add(m, e) \/ Fetch(m, e)
      PROVE  HInv'
  BY <1>1, AddTells, FetchTells
<1>2. CASE OtherPair
  <2>1. [what |-> "other"] \in Entries
    BY DEF Entries
  <2>2. /\ Exchange([what |-> "other"], TRUE)
        /\ accepted' = accepted /\ seen' = seen
    BY <1>2 DEF OtherPair
  <2>3. /\ accepted' \in [Sessions -> Seq(Ops)]
        /\ seen' = [m \in Members |-> [e \in SessionsOf[m] |-> seen'[m][e]]]
        /\ \A m \in Members : \A e \in SessionsOf[m] : seen'[m][e] \in Nat
    BY <2>2 DEF HInv, HistoryTypes
  <2> QED BY <2>1, <2>2, <2>3, ExchangeTells
<1>3. ASSUME NEW t \in Threads, Thread(t) PROVE HInv'
  BY <1>3, ProcessLogTells, InsertTells DEF Thread
<1>4. CASE UNCHANGED vars
  <2>1. IInv'
    BY <1>4, OthersKeep DEF vars, HInv
  <2>2. HistoryTypes'
    BY <1>4 DEF vars, server, HInv, HistoryTypes
  <2>3. RowsAreOfPairs'
    BY <1>4 DEF vars, server, HInv, RowsAreOfPairs, IsRowOfPair, Inserting
  <2>4. PairsHaveRows'
    BY <1>4 DEF vars, server, HInv, PairsHaveRows, Inserting
  <2> QED BY <2>1, <2>2, <2>3, <2>4 DEF HInv
<1> QED BY <1>1, <1>2, <1>3, <1>4 DEF Next

-----------------------------------------------------------------------------
(* TEXTS.  What members have brought and were sent, and what the query     *)
(* concatenates, are sequences of updates that are flattened.              *)

UpdatesOf(n, picked) ==
    [k \in 1..n |-> IF k \in picked THEN Update(wire[k].ops) ELSE <<>>]

UpdatesIn(rows) == [id \in 1..MaxExchanges |-> UpdateAt(id, rows)]

LEMMA SequenceOf ==
    ASSUME NEW T, NEW n \in Nat, NEW f, f = [k \in 1..n |-> f[k]],
           \A k \in 1..n : f[k] \in T
    PROVE  f \in Seq(T) /\ Len(f) = n
<1>1. f \in [1..n -> T]
  OBVIOUS
<1> QED BY <1>1

(* An update is a sequence of operations.                                  *)
LEMMA UpdateType ==
    ASSUME NEW ops \in Seq(Ops)
    PROVE  Update(ops) \in Seq(Ops)
<1> DEFINE f == [k \in DOMAIN ops |->
                    IF ops[k] \in Recorded THEN <<ops[k]>> ELSE <<>>]
<1>1. DOMAIN ops = 1..Len(ops) /\ Len(ops) \in Nat
      /\ \A k \in 1..Len(ops) : ops[k] \in Ops
  BY LenProperties, ElementOfSeq
<1>2. f = [k \in 1..Len(ops) |-> f[k]] /\ \A k \in 1..Len(ops) : f[k] \in Seq(Ops)
  BY <1>1
<1>3. Update(ops) = Flat(f)
  BY DEF Update, Flat, S!FlattenSeq
<1> HIDE DEF f
<1>4. f \in Seq(Seq(Ops))
  BY <1>1, <1>2, SequenceOf
<1> QED BY <1>3, <1>4, FlatType

(* The polls of the wire are well-formed.                                  *)
LEMMA PollIs ==
    ASSUME HInv, NEW k \in 1..Len(wire), wire[k].what # "other"
    PROVE  /\ wire[k].what \in {"added", "new_ops", "conflict"}
           /\ wire[k].member \in Members /\ wire[k].esid \in Sessions
           /\ wire[k].esid \in SessionsOf[wire[k].member]
           /\ Update(wire[k].ops) \in Seq(Ops)
<1>1. wire[k] \in Entries
  BY ElementOfSeq DEF HInv, HistoryTypes
<1>2. wire[k].ops \in Seq(Ops)
  BY <1>1 DEF Entries
<1>3. Update(wire[k].ops) \in Seq(Ops)
  BY <1>2, UpdateType
<1> QED BY <1>1, <1>3 DEF Entries

LEMMA JoinedIs ==
    ASSUME HInv, NEW n \in 1..Len(wire), NEW picked,
           \A k \in picked : wire[k].what # "other"
    PROVE  /\ Joined(n, picked) = Flat(UpdatesOf(n, picked))
           /\ UpdatesOf(n, picked) \in Seq(Seq(Ops))
           /\ Len(UpdatesOf(n, picked)) = n
<1> DEFINE f == UpdatesOf(n, picked)
<1>1. n \in Nat /\ 1..n \subseteq 1..Len(wire)
  BY LenProperties DEF HInv, HistoryTypes
<1>2. ASSUME NEW k \in 1..n PROVE f[k] \in Seq(Ops)
  <2>1. CASE k \in picked
    <3>1. Update(wire[k].ops) \in Seq(Ops)
      BY <1>1, <2>1, PollIs
    <3> QED BY <2>1, <3>1 DEF UpdatesOf
  <2>2. CASE k \notin picked
    BY <2>2 DEF UpdatesOf
  <2> QED BY <2>1, <2>2
<1>3. f = [k \in 1..n |-> f[k]]
  BY DEF UpdatesOf
<1>4. f \in Seq(Seq(Ops)) /\ Len(f) = n
  <2> HIDE DEF f
  <2> QED BY <1>1, <1>2, <1>3, SequenceOf
<1>5. Joined(n, picked) = Flat(f)
  BY DEF Joined, UpdatesOf, Flat, S!FlattenSeq
<1> QED BY <1>4, <1>5

(* The update of a row, when no other row has its time.                    *)
LEMMA UpdateAtIs ==
    ASSUME NEW rows, NEW o \in rows,
           \A r \in rows : r.time = o.time => r = o
    PROVE  UpdateAt(o.time, rows) = o.upd
<1>1. (CHOOSE r \in rows : r.time = o.time) = o
  OBVIOUS
<1> QED BY <1>1 DEF UpdateAt

-----------------------------------------------------------------------------
(* THE TABLE, WHEN ALL HAS BEEN LOGGED IN THE ORDER OF THE WIRE.           *)

LEMMA TableIs ==
    ASSUME HInv, LoggedInOrder
    PROVE  /\ DOMAIN wire = 1..Len(wire) /\ Len(wire) \in Nat
           /\ MaxExchanges \in Nat /\ Len(wire) =< MaxExchanges
           /\ \A r \in sync :
                 /\ r.time \in 1..Len(wire) /\ HasRow(wire[r.time])
                 /\ r = RowOf(r.time, wire[r.time])
           /\ \A k \in 1..Len(wire) :
                 HasRow(wire[k]) => RowOf(k, wire[k]) \in sync
<1>1. /\ DOMAIN wire = 1..Len(wire) /\ Len(wire) \in Nat
      /\ MaxExchanges \in Nat /\ Len(wire) =< MaxExchanges
  BY LenProperties, OwncloudAssumption DEF HInv, HistoryTypes
<1>2. /\ Len(times) = Len(wire) /\ \A k \in 1..Len(wire) : times[k] = k
      /\ \A t \in Threads : ~Inserting(t)
  <2>1. DOMAIN times = 1..Len(times)
    BY LenProperties DEF HInv, HistoryTypes
  <2> QED BY <2>1 DEF LoggedInOrder, Inserting
<1>3. ASSUME NEW r \in sync
      PROVE  /\ r.time \in 1..Len(wire) /\ HasRow(wire[r.time])
             /\ r = RowOf(r.time, wire[r.time])
  BY <1>2 DEF HInv, RowsAreOfPairs, IsRowOfPair
<1>4. ASSUME NEW k \in 1..Len(wire), HasRow(wire[k])
      PROVE  RowOf(k, wire[k]) \in sync
  <2>1. PICK r \in sync : r.time = k
    BY <1>2, <1>4 DEF HInv, PairsHaveRows
  <2> QED BY <1>3, <2>1
<1> QED BY <1>1, <1>3, <1>4

(* Some of the rows: each place holds the update of its poll or nothing.   *)
LEMMA UpdatesInAre ==
    ASSUME HInv, LoggedInOrder, NEW rows \in SUBSET sync
    PROVE  /\ Concat(rows) = Flat(UpdatesIn(rows))
           /\ UpdatesIn(rows) \in Seq(Seq(Ops))
           /\ Len(UpdatesIn(rows)) = MaxExchanges
           /\ \A k \in 1..MaxExchanges :
                 \/ \E r \in rows : r.time = k /\ UpdatesIn(rows)[k] = r.upd
                 \/ /\ \A r \in rows : r.time # k
                    /\ UpdatesIn(rows)[k] = <<>>
<1> DEFINE f == UpdatesIn(rows)
<1>1. ASSUME NEW k \in 1..MaxExchanges
      PROVE  \/ \E r \in rows : r.time = k /\ f[k] = r.upd
             \/ (\A r \in rows : r.time # k) /\ f[k] = <<>>
  <2>1. f[k] = UpdateAt(k, rows)
    BY DEF UpdatesIn
  <2>2. CASE \A r \in rows : r.time # k
    BY <2>1, <2>2 DEF UpdateAt
  <2>3. ASSUME NEW o \in rows, o.time = k PROVE f[k] = o.upd
    <3>1. \A r \in rows : r.time = o.time => r = o
      BY TableIs
    <3>2. UpdateAt(o.time, rows) = o.upd
      BY <3>1, UpdateAtIs
    <3> QED BY <2>1, <2>3, <3>2
  <2> QED BY <2>2, <2>3
<1>2. ASSUME NEW r \in rows PROVE r.upd \in Seq(Ops)
  <2> DEFINE k == r.time
  <2>1. k \in 1..Len(wire) /\ HasRow(wire[k]) /\ r = RowOf(k, wire[k])
    BY TableIs
  <2> HIDE DEF k
  <2>2. r.upd = Update(wire[k].ops) /\ wire[k].what # "other"
    BY <2>1 DEF RowOf, HasRow
  <2> QED BY <2>1, <2>2, PollIs
<1>3. f = [k \in 1..MaxExchanges |-> f[k]]
  BY DEF UpdatesIn
<1>4. Concat(rows) = Flat(f)
  BY DEF Concat, UpdatesIn, Flat, S!FlattenSeq
<1>5. f \in Seq(Seq(Ops)) /\ Len(f) = MaxExchanges
  <2>1. ASSUME NEW k \in 1..MaxExchanges PROVE f[k] \in Seq(Ops)
    <3> HIDE DEF f
    <3>1. CASE \E r \in rows : f[k] = r.upd
      BY <1>2, <3>1
    <3>2. CASE f[k] = <<>>
      BY <3>2
    <3> QED BY <1>1, <3>1, <3>2
  <2>2. MaxExchanges \in Nat
    BY TableIs
  <2> HIDE DEF f
  <2> QED BY <1>3, <2>1, <2>2, SequenceOf
<1> QED BY <1>1, <1>4, <1>5

(* A row that was sent to a member, and what it was sent for.              *)
LEMMA SentRow ==
    ASSUME HInv, LoggedInOrder, NEW o \in sync, o.sender = Central
    PROVE  /\ o.time \in 1..Len(wire) /\ HasRow(wire[o.time])
           /\ o = RowOf(o.time, wire[o.time])
           /\ wire[o.time].what \in {"new_ops", "conflict"}
           /\ o.receiver = wire[o.time].member /\ o.esid = wire[o.time].esid
           /\ o.receiver \in Members
<1> DEFINE n == o.time
<1>1. n \in 1..Len(wire) /\ HasRow(wire[n]) /\ o = RowOf(n, wire[n])
  BY TableIs
<1> HIDE DEF n
<1>2. /\ o.sender = Sender(wire[n]) /\ o.receiver = Receiver(wire[n])
      /\ o.esid = wire[n].esid /\ wire[n].what # "other"
  BY <1>1 DEF RowOf, HasRow
<1>3. /\ wire[n].what \in {"added", "new_ops", "conflict"}
      /\ wire[n].member \in Members
  BY <1>1, <1>2, PollIs
<1>4. wire[n].what # "added"
  BY <1>2, <1>3, OwncloudAssumption DEF Sender
<1> QED BY <1>1, <1>2, <1>3, <1>4 DEF Receiver, Sender, n

(* The left side of the query is the document as the server has it.        *)
LEMMA ServerText ==
    ASSUME HInv, LoggedInOrder, NEW o \in sync, o.sender = Central
    PROVE  /\ Concat(ServerRows(o, sync)) = Document(o.esid, o.time)
           /\ Document(o.esid, o.time) \in Seq(Ops)
           /\ ServerRows(o, sync) = {} => Document(o.esid, o.time) = <<>>
<1> DEFINE n == o.time
           e == o.esid
           rows == ServerRows(o, sync)
           picked == {k \in PollsOf(e) : wire[k].what = "added"}
           p == UpdatesOf(n, picked)
           q == UpdatesIn(rows)
<1>1. /\ n \in 1..Len(wire) /\ n \in Nat /\ Len(wire) \in Nat
      /\ MaxExchanges \in Nat /\ Len(wire) =< MaxExchanges
      /\ DOMAIN wire = 1..Len(wire)
  BY SentRow, TableIs
<1>2. rows \in SUBSET sync
  BY DEF ServerRows
<1>3. /\ Joined(n, picked) = Flat(p) /\ p \in Seq(Seq(Ops)) /\ Len(p) = n
  <2>1. \A k \in picked : wire[k].what # "other"
    BY DEF PollsOf
  <2> HIDE DEF picked
  <2> QED BY <1>1, <2>1, JoinedIs
<1>4. /\ Concat(rows) = Flat(q) /\ q \in Seq(Seq(Ops)) /\ Len(q) = MaxExchanges
      /\ \A k \in 1..MaxExchanges :
            \/ \E r \in rows : r.time = k /\ q[k] = r.upd
            \/ (\A r \in rows : r.time # k) /\ q[k] = <<>>
  <2> HIDE DEF rows
  <2> QED BY <1>2, UpdatesInAre
<1>5. ASSUME NEW k \in 1..n PROVE p[k] = q[k]
  <2>0. k \in 1..Len(wire) /\ k \in 1..MaxExchanges /\ k =< n
    BY <1>1
  <2>1. CASE k \in picked
    <3>1. /\ p[k] = Update(wire[k].ops) /\ wire[k].what = "added"
          /\ wire[k].esid = e
      BY <2>1 DEF UpdatesOf, PollsOf
    <3>2. CASE HasRow(wire[k])
      <4> DEFINE r == RowOf(k, wire[k])
      <4>1. r \in sync
        BY <2>0, <3>2, TableIs
      <4>2. r.time = k /\ r.esid = e /\ r.upd = Update(wire[k].ops)
            /\ r.receiver = Central
        <5>1. wire[k].member # Central
          BY <2>0, <3>1, PollIs, OwncloudAssumption
        <5> QED BY <3>1, <5>1 DEF RowOf, Receiver, Sender
      <4>3. r \in rows
        BY <2>0, <4>1, <4>2 DEF ServerRows
      <4>4. \A s \in rows : s.time = k => s = r
        BY <1>2, TableIs
      <4> HIDE DEF r, p, q, rows
      <4> QED BY <1>4, <2>0, <3>1, <4>2, <4>3, <4>4
    <3>3. CASE ~HasRow(wire[k])
      <4>1. p[k] = <<>>
        BY <3>1, <3>3 DEF HasRow
      <4>2. \A r \in rows : r.time # k
        BY <1>2, <3>3, TableIs
      <4> HIDE DEF p, q, rows
      <4> QED BY <1>4, <2>0, <4>1, <4>2
    <3> QED BY <3>2, <3>3
  <2>2. CASE k \notin picked
    <3>1. p[k] = <<>>
      BY <2>2 DEF UpdatesOf
    <3>2. ASSUME NEW r \in rows, r.time = k PROVE FALSE
      <4>1. HasRow(wire[k]) /\ r = RowOf(k, wire[k])
        BY <1>2, <3>2, TableIs
      <4>2. /\ wire[k].what # "other" /\ r.esid = wire[k].esid
            /\ r.receiver = Receiver(wire[k])
        BY <4>1 DEF RowOf, HasRow
      <4>3. r.esid = e /\ r.receiver = Central
        BY <3>2 DEF ServerRows
      <4>4. wire[k].member # Central
        BY <2>0, <4>2, PollIs, OwncloudAssumption
      <4>5. wire[k].what = "added"
        BY <4>2, <4>3, <4>4 DEF Receiver, Sender
      <4> QED BY <1>1, <2>0, <2>2, <4>2, <4>3, <4>5 DEF PollsOf
    <3> HIDE DEF p, q, rows
    <3> QED BY <1>4, <2>0, <3>1, <3>2
  <2> QED BY <2>1, <2>2
<1>6. ASSUME NEW k \in 1..MaxExchanges, k > n PROVE q[k] = <<>>
  <2>1. ASSUME NEW r \in rows PROVE r.time # k
    <3>1. r.time \in 1..Len(wire) /\ r.time =< n
      BY <1>2, TableIs DEF ServerRows
    <3> QED BY <1>1, <1>6, <3>1
  <2> HIDE DEF q, rows
  <2> QED BY <1>4, <2>1
<1>7. Begins(p, q)
  <2> HIDE DEF n, p, q
  <2>1. Len(p) =< Len(q) /\ \A k \in 1..Len(p) : p[k] = q[k]
    BY <1>1, <1>3, <1>4, <1>5
  <2> QED BY <2>1 DEF Begins
<1>8. Document(e, n) = Flat(p)
  BY <1>3 DEF Document
<1>9. rows = {} => Flat(q) = <<>>
  <2> HIDE DEF rows, q
  <2>1. rows = {} => \A k \in 1..Len(q) : q[k] = <<>>
    BY <1>4
  <2> QED BY <1>4, <2>1, FlatNothing
<1>10. Flat(q) = Flat(p)
  <2> HIDE DEF p, q
  <2> QED BY <1>3, <1>4, <1>6, <1>7, FlatPadded
<1>11. Flat(p) \in Seq(Ops)
  <2> HIDE DEF p
  <2> QED BY <1>3, FlatType
<1> HIDE DEF p, q, rows
<1> QED BY <1>4, <1>8, <1>9, <1>10, <1>11 DEF rows

(* Its right side is what the receiver has, and what it has later.         *)
LEMMA MemberText ==
    ASSUME HInv, LoggedInOrder, OneSessionEach,
           NEW o \in sync, o.sender = Central
    PROVE  /\ Copy(o.receiver, o.esid, o.time) \in Seq(Ops)
           /\ \E rest \in Seq(Ops) :
                 Concat(MemberRows(o, sync))
                     = Copy(o.receiver, o.esid, o.time) \o rest
           /\ \/ \E r \in sync : r.receiver = o.receiver /\ r.time > o.time
              \/ Concat(MemberRows(o, sync))
                     = Copy(o.receiver, o.esid, o.time)
<1> DEFINE n == o.time
           e == o.esid
           m == o.receiver
           rows == MemberRows(o, sync)
           picked == {k \in PollsOf(e) : wire[k].member = m}
           p == UpdatesOf(n, picked)
           q == UpdatesIn(rows)
<1>1. /\ n \in 1..Len(wire) /\ n \in Nat /\ Len(wire) \in Nat
      /\ MaxExchanges \in Nat /\ Len(wire) =< MaxExchanges
      /\ DOMAIN wire = 1..Len(wire) /\ m \in Members /\ m # Central
      /\ e \in SessionsOf[m]
  <2>1. /\ o.time \in 1..Len(wire) /\ HasRow(wire[o.time]) /\ m \in Members
        /\ m = wire[o.time].member /\ e = wire[o.time].esid
    BY SentRow
  <2>2. e \in SessionsOf[m]
    BY <2>1, PollIs DEF HasRow
  <2> QED BY <2>1, <2>2, TableIs, OwncloudAssumption
<1>2. rows \in SUBSET sync
  BY DEF MemberRows
<1>3. /\ Joined(n, picked) = Flat(p) /\ p \in Seq(Seq(Ops)) /\ Len(p) = n
  <2>1. \A k \in picked : wire[k].what # "other"
    BY DEF PollsOf
  <2> HIDE DEF picked
  <2> QED BY <1>1, <2>1, JoinedIs
<1>4. /\ Concat(rows) = Flat(q) /\ q \in Seq(Seq(Ops)) /\ Len(q) = MaxExchanges
      /\ \A k \in 1..MaxExchanges :
            \/ \E r \in rows : r.time = k /\ q[k] = r.upd
            \/ (\A r \in rows : r.time # k) /\ q[k] = <<>>
  <2> HIDE DEF rows
  <2> QED BY <1>2, UpdatesInAre
<1>5. ASSUME NEW k \in 1..n PROVE p[k] = q[k]
  <2>0. k \in 1..Len(wire) /\ k \in 1..MaxExchanges /\ k =< n
    BY <1>1
  <2>1. CASE k \in picked
    <3>1. /\ p[k] = Update(wire[k].ops) /\ wire[k].what # "other"
          /\ wire[k].esid = e /\ wire[k].member = m
      BY <2>1 DEF UpdatesOf, PollsOf
    <3>2. CASE HasRow(wire[k])
      <4> DEFINE r == RowOf(k, wire[k])
      <4>1. r \in sync
        BY <2>0, <3>2, TableIs
      <4>2. r.time = k /\ r.esid = e /\ r.upd = Update(wire[k].ops)
            /\ (r.sender = m \/ r.receiver = m)
        BY <3>1 DEF RowOf, Receiver, Sender
      <4>3. r \in rows
        BY <2>0, <4>1, <4>2 DEF MemberRows
      <4>4. \A s \in rows : s.time = k => s = r
        BY <1>2, TableIs
      <4> HIDE DEF r, p, q, rows
      <4> QED BY <1>4, <2>0, <3>1, <4>2, <4>3, <4>4
    <3>3. CASE ~HasRow(wire[k])
      <4>1. p[k] = <<>>
        BY <3>1, <3>3 DEF HasRow
      <4>2. \A r \in rows : r.time # k
        BY <1>2, <3>3, TableIs
      <4> HIDE DEF p, q, rows
      <4> QED BY <1>4, <2>0, <4>1, <4>2
    <3> QED BY <3>2, <3>3
  <2>2. CASE k \notin picked
    <3>1. p[k] = <<>>
      BY <2>2 DEF UpdatesOf
    <3>2. ASSUME NEW r \in rows, r.time = k PROVE FALSE
      <4>1. HasRow(wire[k]) /\ r = RowOf(k, wire[k])
        BY <1>2, <3>2, TableIs
      <4>2. /\ wire[k].what # "other" /\ r.esid = wire[k].esid
            /\ r.receiver = Receiver(wire[k]) /\ r.sender = Sender(wire[k])
        BY <4>1 DEF RowOf, HasRow
      <4>3. r.sender = m \/ r.receiver = m
        BY DEF MemberRows
      <4>4. wire[k].member = m
        BY <1>1, <4>2, <4>3 DEF Receiver, Sender
      <4>5. wire[k].esid = e
        <5>1. wire[k].esid \in SessionsOf[m]
          BY <2>0, <4>2, <4>4, PollIs
        <5> QED BY <1>1, <5>1 DEF OneSessionEach
      <4> QED BY <1>1, <2>0, <2>2, <4>2, <4>4, <4>5 DEF PollsOf
    <3> HIDE DEF p, q, rows
    <3> QED BY <1>4, <2>0, <3>1, <3>2
  <2> QED BY <2>1, <2>2
<1>6. Begins(p, q)
  <2> HIDE DEF n, p, q
  <2>1. Len(p) =< Len(q) /\ \A k \in 1..Len(p) : p[k] = q[k]
    BY <1>1, <1>3, <1>4, <1>5
  <2> QED BY <2>1 DEF Begins
<1>7. Copy(m, e, n) = Flat(p)
  BY <1>3 DEF Copy
<1>8. Flat(p) \in Seq(Ops)
  <2> HIDE DEF p
  <2> QED BY <1>3, FlatType
<1>9. Flat(q) = Flat(p) \o Flat(After(p, q)) /\ Flat(After(p, q)) \in Seq(Ops)
  <2> HIDE DEF p, q
  <2> QED BY <1>3, <1>4, <1>6, FlatPrefix, FlatType
<1>10. ASSUME \A r \in sync : ~(r.receiver = m /\ r.time > n)
       PROVE  Flat(q) = Flat(p)
  <2>1. ASSUME NEW k \in 1..MaxExchanges, k > n PROVE q[k] = <<>>
    <3>1. ASSUME NEW r \in rows PROVE r.time # k
      <4>1. r.time \in 1..Len(wire) /\ (r.time =< n \/ r.receiver = m)
        BY <1>2, TableIs DEF MemberRows
      <4>2. ~(r.receiver = m /\ r.time > n)
        BY <1>2, <1>10
      <4> QED BY <1>1, <2>1, <4>1, <4>2
    <3> HIDE DEF q, rows
    <3> QED BY <1>4, <3>1
  <2> HIDE DEF p, q
  <2> QED BY <1>3, <1>4, <1>6, <2>1, FlatPadded
<1>11. Concat(MemberRows(o, sync)) = Flat(q)
  BY <1>4
<1> HIDE DEF p, q, rows
<1> QED BY <1>7, <1>8, <1>9, <1>10, <1>11

(* A text that begins with another one, as Diverges and the query see it.  *)
LEMMA Beginning ==
    ASSUME NEW c \in Seq(Ops), NEW d \in Seq(Ops)
    PROVE  /\ (Len(c) =< Len(d) /\ c = SubSeq(d, 1, Len(c))) => Like(d, c)
           /\ Alike = {} =>
                 \A rest \in Seq(Ops) : Like(d, c \o rest) =>
                     Len(c) =< Len(d) /\ c = SubSeq(d, 1, Len(c))
<1>1. /\ Len(c) \in Nat /\ Len(d) \in Nat
      /\ DOMAIN c = 1..Len(c) /\ \A i \in 1..Len(d) : d[i] \in Ops
  BY LenProperties, ElementOfSeq
<1>2. ASSUME Len(c) =< Len(d)
      PROVE  /\ SubSeq(d, 1, Len(c)) \in Seq(Ops)
             /\ Len(SubSeq(d, 1, Len(c))) = Len(c)
             /\ \A i \in 1..Len(c) : SubSeq(d, 1, Len(c))[i] = d[i]
  <2> DEFINE k == Len(c)
  <2>1. 1 \in Int /\ k \in Int /\ 0 =< k /\ \A i \in 1..k : d[i] \in Ops
    BY <1>1, <1>2
  <2>2. k - 1 + 1 = k /\ (1 =< k \/ k = 0) /\ \A i \in 1..k : 1 + i - 1 = i
    BY <1>1
  <2> HIDE DEF k
  <2>3. /\ SubSeq(d, 1, k) \in Seq(Ops)
        /\ Len(SubSeq(d, 1, k)) = IF 1 =< k THEN k - 1 + 1 ELSE 0
        /\ \A i \in 1..k - 1 + 1 : SubSeq(d, 1, k)[i] = d[1 + i - 1]
    BY <2>1, SubSeqProperties
  <2>4. /\ SubSeq(d, 1, k) \in Seq(Ops) /\ Len(SubSeq(d, 1, k)) = k
        /\ \A i \in 1..k : SubSeq(d, 1, k)[i] = d[i]
    BY <2>2, <2>3
  <2> QED BY <2>4 DEF k
<1>3. ASSUME Len(c) =< Len(d), c = SubSeq(d, 1, Len(c)) PROVE Like(d, c)
  <2>1. \A i \in 1..Len(c) : c[i] = d[i]
    BY <1>2, <1>3
  <2> QED BY <1>1, <1>3, <2>1 DEF Like
<1>4. ASSUME Alike = {}, NEW rest \in Seq(Ops), Like(d, c \o rest)
      PROVE  Len(c) =< Len(d) /\ c = SubSeq(d, 1, Len(c))
  <2> DEFINE t == c \o rest
  <2>1. /\ t \in Seq(Ops) /\ Len(t) = Len(c) + Len(rest) /\ Len(rest) \in Nat
        /\ \A i \in 1..Len(c) : t[i] = c[i]
    <3>1. /\ t \in Seq(Ops) /\ Len(t) = Len(c) + Len(rest) /\ Len(rest) \in Nat
          /\ \A i \in 1..Len(c) + Len(rest) :
                t[i] = IF i <= Len(c) THEN c[i] ELSE rest[i - Len(c)]
      BY ConcatProperties, LenProperties
    <3> HIDE DEF t
    <3> QED BY <1>1, <3>1
  <2>2. Len(t) =< Len(d) /\ \A i \in DOMAIN t : t[i] = d[i]
    BY <1>4 DEF Like
  <2>3. DOMAIN t = 1..Len(t)
    BY <2>1, LenProperties
  <2> HIDE DEF t
  <2>4. Len(c) =< Len(d) /\ \A i \in 1..Len(c) : c[i] = d[i]
    BY <1>1, <2>1, <2>2, <2>3
  <2>5. c = SubSeq(d, 1, Len(c))
    BY <1>2, <2>4, SeqEqual
  <2> QED BY <2>4, <2>5
<1> QED BY <1>3, <1>4

(* The invariant implies the two properties of the query.                  *)
LEMMA CaughtFromTable ==
    ASSUME HInv, Alike = {}
    PROVE  DivergenceCaught
<1> SUFFICES ASSUME LoggedInOrder, OneSessionEach, NEW n \in DOMAIN wire,
                    Diverges(n), Document(wire[n].esid, n) # <<>>
             PROVE  \E o \in Unsound(sync) : o.time = n
  BY DEF DivergenceCaught
<1> DEFINE o == RowOf(n, wire[n])
<1>1. /\ wire[n].what \in {"new_ops", "conflict"}
      /\ Update(wire[n].ops) # <<>>
      /\ LET doc  == Document(wire[n].esid, n)
             copy == Copy(wire[n].member, wire[n].esid, n)
         IN  ~(Len(copy) =< Len(doc) /\ copy = SubSeq(doc, 1, Len(copy)))
  BY DEF Diverges
<1>2. o \in sync
  BY <1>1, TableIs DEF HasRow
<1>3. /\ o.time = n /\ o.sender = Central /\ o.esid = wire[n].esid
      /\ o.receiver = wire[n].member
  BY <1>1 DEF RowOf, Sender, Receiver
<1> HIDE DEF o
<1> DEFINE doc == Document(o.esid, o.time)
           copy == Copy(o.receiver, o.esid, o.time)
<1>4. ~(Len(copy) =< Len(doc) /\ copy = SubSeq(doc, 1, Len(copy)))
  BY <1>1, <1>3
<1>5. doc # <<>>
  BY <1>3
<1>6. /\ Concat(ServerRows(o, sync)) = doc /\ doc \in Seq(Ops)
      /\ ServerRows(o, sync) # {}
  BY <1>2, <1>3, <1>5, ServerText
<1>7. PICK rest \in Seq(Ops) : Concat(MemberRows(o, sync)) = copy \o rest
  BY <1>2, <1>3, MemberText
<1>8. copy \in Seq(Ops)
  BY <1>2, <1>3, MemberText
<1> HIDE DEF doc, copy
<1>9. ~Like(doc, copy \o rest)
  BY <1>4, <1>6, <1>7, <1>8, Beginning
<1> QED BY <1>2, <1>3, <1>6, <1>7, <1>9 DEF Unsound

LEMMA PassesFromTable ==
    ASSUME HInv
    PROVE  LastUpdatePasses
<1> SUFFICES ASSUME LoggedInOrder, OneSessionEach, NEW o \in Unsound(sync),
                    ~Diverges(o.time),
                    ~ \E r \in sync : r.receiver = o.receiver /\ r.time > o.time
             PROVE  FALSE
  BY DEF LastUpdatePasses
<1>1. /\ o \in sync /\ o.sender = Central
      /\ ~Like(Concat(ServerRows(o, sync)), Concat(MemberRows(o, sync)))
  BY DEF Unsound
<1>2. /\ wire[o.time].what \in {"new_ops", "conflict"}
      /\ Update(wire[o.time].ops) # <<>>
      /\ o.receiver = wire[o.time].member /\ o.esid = wire[o.time].esid
  BY <1>1, SentRow DEF HasRow
<1> DEFINE doc == Document(o.esid, o.time)
           copy == Copy(o.receiver, o.esid, o.time)
<1>3. Len(copy) =< Len(doc) /\ copy = SubSeq(doc, 1, Len(copy))
  BY <1>2 DEF Diverges
<1>4. Concat(ServerRows(o, sync)) = doc /\ doc \in Seq(Ops)
  BY <1>1, ServerText
<1>5. Concat(MemberRows(o, sync)) = copy /\ copy \in Seq(Ops)
  BY <1>1, MemberText
<1> HIDE DEF doc, copy
<1>6. Like(doc, copy)
  BY <1>3, <1>4, <1>5, Beginning
<1> QED BY <1>1, <1>4, <1>5, <1>6

-----------------------------------------------------------------------------
(* owncloud/main.cpp:94, the query: what the server altered, withheld,     *)
(* reordered or made up is reported, whatever later polls and polls without*)
(* a row are in the table, if members had brought anything to the document.*)
(* The texts must hold no quotation marks (their rows would be missing) and*)
(* LIKE must take no operation for another one.                            *)
THEOREM DivergencesAreCaught ==
    ASSUME Quoted = {}, Alike = {}
    PROVE  Spec => []DivergenceCaught
<1>1. Init => HInv
  BY InitTells
<1>2. HInv /\ [Next]_vars => HInv'
  BY StepTells
<1>3. HInv => DivergenceCaught
  BY CaughtFromTable
<1> QED BY <1>1, <1>2, <1>3, PTL DEF Spec

(* The same query does not report the last update a member of one session  *)
(* was sent, as long as its document agrees with the server's.             *)
THEOREM LastUpdatesPass ==
    ASSUME Quoted = {}
    PROVE  Spec => []LastUpdatePasses
<1>1. Init => HInv
  BY InitTells
<1>2. HInv /\ [Next]_vars => HInv'
  BY StepTells
<1>3. HInv => LastUpdatePasses
  BY PassesFromTable
<1> QED BY <1>1, <1>2, <1>3, PTL DEF Spec

=============================================================================
