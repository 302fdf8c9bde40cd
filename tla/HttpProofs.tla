------------------------------ MODULE HttpProofs ------------------------------
(***************************************************************************)
(* Theorems about HttpMessage, for any lines, headers and bytes, any base  *)
(* of chunk sizes, any number of chunks or none, whole or broken off       *)
(* anywhere.  The first parts say where in a message things are; the       *)
(* invariant (HInv) says that the parser is at one of these places, and    *)
(* what it has found on the way.                                           *)
(***************************************************************************)
EXTENDS HttpMessage, SequenceTheorems, WellFoundedInduction, TLAPS

-----------------------------------------------------------------------------
(* TEXTS.  Sequence t is what s holds behind position p.                   *)

Reads(s, p, t) ==
    p + Len(t) =< Len(s) /\ \A i \in 1..Len(t) : s[p + i] = t[i]

LEMMA Joining ==
    ASSUME NEW T, NEW s \in Seq(T), NEW t \in Seq(T)
    PROVE  /\ s \o t \in Seq(T) /\ Len(s \o t) = Len(s) + Len(t)
           /\ Len(s) \in Nat /\ Len(t) \in Nat
           /\ \A i \in 1..Len(s) : (s \o t)[i] = s[i]
           /\ \A i \in 1..Len(t) : (s \o t)[Len(s) + i] = t[i]
<1>1. /\ s \o t \in Seq(T) /\ Len(s \o t) = Len(s) + Len(t)
      /\ \A i \in 1..(Len(s) + Len(t)) :
            (s \o t)[i] = IF i <= Len(s) THEN s[i] ELSE t[i - Len(s)]
  BY ConcatProperties
<1>2. Len(s) \in Nat /\ Len(t) \in Nat
  BY LenProperties
<1>3. \A i \in 1..Len(s) : (s \o t)[i] = s[i]
  BY <1>1, <1>2
<1>4. ASSUME NEW i \in 1..Len(t) PROVE (s \o t)[Len(s) + i] = t[i]
  <2>1. /\ Len(s) + i \in 1..(Len(s) + Len(t)) /\ ~(Len(s) + i <= Len(s))
        /\ Len(s) + i - Len(s) = i
    BY <1>2
  <2> QED BY <1>1, <2>1
<1> QED BY <1>1, <1>2, <1>3, <1>4

(* What is read of two texts, one after the other.                         *)
LEMMA ReadsParts ==
    ASSUME NEW T, NEW s \in Seq(T), NEW p \in Nat,
           NEW t \in Seq(T), NEW u \in Seq(T), Reads(s, p, t \o u)
    PROVE  /\ Reads(s, p, t) /\ Reads(s, p + Len(t), u)
           /\ p + Len(t) \in Nat /\ t \o u \in Seq(T)
           /\ Len(t \o u) = Len(t) + Len(u)
<1>1. /\ t \o u \in Seq(T) /\ Len(t \o u) = Len(t) + Len(u)
      /\ Len(t) \in Nat /\ Len(u) \in Nat
      /\ \A i \in 1..Len(t) : (t \o u)[i] = t[i]
      /\ \A i \in 1..Len(u) : (t \o u)[Len(t) + i] = u[i]
  BY Joining
<1>2. Len(s) \in Nat
  BY LenProperties
<1>3. /\ p + (Len(t) + Len(u)) =< Len(s)
      /\ \A i \in 1..(Len(t) + Len(u)) : s[p + i] = (t \o u)[i]
  BY <1>1 DEF Reads
<1>4. ASSUME NEW i \in 1..Len(t) PROVE s[p + i] = t[i]
  <2>1. i \in 1..(Len(t) + Len(u))
    BY <1>1
  <2> QED BY <1>1, <1>3, <2>1
<1>5. ASSUME NEW i \in 1..Len(u) PROVE s[p + Len(t) + i] = u[i]
  <2>1. Len(t) + i \in 1..(Len(t) + Len(u)) /\ p + (Len(t) + i) = p + Len(t) + i
    BY <1>1
  <2>2. s[p + (Len(t) + i)] = (t \o u)[Len(t) + i]
    BY <1>3, <2>1
  <2> QED BY <1>1, <2>1, <2>2
<1> QED BY <1>1, <1>2, <1>3, <1>4, <1>5 DEF Reads

(* Everything is read from the beginning.                                  *)
LEMMA ReadsAll ==
    ASSUME NEW T, NEW s \in Seq(T) PROVE Reads(s, 0, s)
<1>1. Len(s) \in Nat
  BY LenProperties
<1>2. 0 + Len(s) = Len(s) /\ \A i \in 1..Len(s) : 0 + i = i
  BY <1>1
<1> QED BY <1>1, <1>2 DEF Reads

(* A text is read in a place if its elements are what stands there.        *)
LEMMA ReadIs ==
    ASSUME NEW T, NEW t \in Seq(T), NEW u \in Seq(T), Len(t) = Len(u),
           \A i \in 1..Len(t) : t[i] = u[i]
    PROVE  t = u
  BY SeqEqual

LEMMA OfTwo ==
    ASSUME NEW T, NEW a \in T, NEW b \in T
    PROVE  /\ <<a>> \in Seq(T) /\ Len(<<a>>) = 1 /\ <<a>>[1] = a
           /\ <<a, b>> \in Seq(T) /\ Len(<<a, b>>) = 2
           /\ <<a, b>>[1] = a /\ <<a, b>>[2] = b
  OBVIOUS

-----------------------------------------------------------------------------
(* JOINED TEXTS.  A body is its chunks, one after the other, and so is what*)
(* is sent of them: in both, g[i] is what the first i chunks make.         *)

Joined(ss, g) ==
    g[0] = <<>> /\ \A i \in 1..Len(ss) : g[i] = g[i - 1] \o ss[i]

(* An induction takes the form of a search for a least counterexample.     *)
LEMMA LeastNumber ==
    ASSUME NEW N \in SUBSET Nat, N # {}
    PROVE  \E k \in N : \A l \in N : k =< l
<1> DEFINE Before == {p \in Nat \X Nat : p[1] < p[2]}
<1>1. IsWellFoundedOn(Before, Nat)
  BY NatLessThanWellFounded DEF OpToRel
<1>2. PICK k \in N : \A l \in N : <<l, k>> \notin Before
  <2> HIDE DEF Before
  <2> QED BY <1>1, WFMin
<1>3. ASSUME NEW l \in N PROVE k =< l
  <2>1. k \in Nat /\ l \in Nat /\ ~(l < k)
    BY <1>2
  <2> QED BY <2>1
<1> QED BY <1>3

(* The first n texts, each of them joined to those before it.              *)
Adds(ss, n, f) ==
    f = [i \in 1..n |-> IF i = 1 THEN ss[i] ELSE f[i - 1] \o ss[i]]

LEMMA AddsExist ==
    ASSUME NEW ss, NEW m \in Nat PROVE \E f : Adds(ss, m, f)
<1> DEFINE N == {n \in Nat : ~ \E f : Adds(ss, n, f)}
<1> SUFFICES ASSUME N # {} PROVE FALSE
  OBVIOUS
<1>1. PICK k \in N : \A l \in N : k =< l
  <2>1. N \in SUBSET Nat
    OBVIOUS
  <2> HIDE DEF N
  <2> QED BY <2>1, LeastNumber
<1>2. k # 0
  <2>1. Adds(ss, 0, [i \in 1..0 |-> 0])
    BY DEF Adds
  <2> QED BY <1>1, <2>1
<1>3. PICK f : Adds(ss, k - 1, f)
  <2>1. k - 1 \in Nat /\ k - 1 \notin N
    BY <1>1, <1>2
  <2> QED BY <2>1
<1> DEFINE g == [i \in 1..k |-> IF i = 1 THEN ss[i] ELSE f[i - 1] \o ss[i]]
<1>4. \A i \in 1..k : i # 1 => g[i - 1] = f[i - 1]
  <2>1. \A i \in 1..(k - 1) :
           f[i] = IF i = 1 THEN ss[i] ELSE f[i - 1] \o ss[i]
    BY <1>3 DEF Adds
  <2>2. \A i \in 1..(k - 1) : g[i] = f[i]
    BY <1>1, <2>1
  <2>3. \A i \in 1..k : i # 1 => i - 1 \in 1..(k - 1)
    BY <1>1
  <2> HIDE DEF g
  <2> QED BY <2>2, <2>3
<1>5. g = [i \in 1..k |-> IF i = 1 THEN ss[i] ELSE g[i - 1] \o ss[i]]
  BY <1>4
<1> HIDE DEF g
<1>6. Adds(ss, k, g)
  BY <1>5 DEF Adds
<1> QED BY <1>1, <1>6

(* FlattenSeq of the community modules joins all of them.                  *)
LEMMA FlattenIs ==
    ASSUME NEW T, NEW ss \in Seq(Seq(T))
    PROVE  \E g \in [0..Len(ss) -> Seq(T)] :
              Joined(ss, g) /\ g[Len(ss)] = S!FlattenSeq(ss)
<1> DEFINE n == Len(ss)
           f == CHOOSE h : Adds(ss, n, h)
           g == [i \in 0..n |-> IF i = 0 THEN <<>> ELSE f[i]]
<1>1. n \in Nat /\ \A i \in 1..n : ss[i] \in Seq(T)
  BY LenProperties, ElementOfSeq
<1>2. Adds(ss, n, f)
  <2>1. \E h : Adds(ss, n, h)
    BY <1>1, AddsExist
  <2> QED BY <2>1, Zenon
<1>3. S!FlattenSeq(ss) = IF n = 0 THEN ss ELSE f[n]
  BY DEF S!FlattenSeq, Adds
<1> HIDE DEF f, n
<1>4. g[0] = <<>> /\ \A i \in 1..n : g[i] = f[i]
  BY <1>1
<1>5. ASSUME NEW i \in 1..n PROVE g[i] = g[i - 1] \o ss[i]
  <2>1. f[i] = IF i = 1 THEN ss[i] ELSE f[i - 1] \o ss[i]
    BY <1>2 DEF Adds
  <2>2. CASE i = 1
    <3>1. g[i] = ss[i] /\ g[i - 1] = <<>>
      BY <1>4, <2>1, <2>2
    <3> HIDE DEF g
    <3> QED BY <1>1, <3>1, ConcatEmptySeq
  <2>3. CASE i # 1
    <3>1. i - 1 \in 1..n
      BY <1>1, <2>3
    <3> HIDE DEF g
    <3> QED BY <1>4, <2>1, <2>3, <3>1
  <2> QED BY <2>2, <2>3
<1>6. ASSUME NEW i \in 0..n PROVE g[i] \in Seq(T)
  <2> DEFINE N == {k \in 0..n : g[k] \notin Seq(T)}
  <2> SUFFICES ASSUME N # {} PROVE FALSE
    OBVIOUS
  <2> HIDE DEF g
  <2>1. PICK k \in N : \A l \in N : k =< l
    <3>1. N \in SUBSET Nat
      OBVIOUS
    <3> HIDE DEF N
    <3> QED BY <3>1, LeastNumber
  <2>2. k # 0
    BY <1>4, <2>1, EmptySeq
  <2>3. k \in 1..n /\ k - 1 \in 0..n /\ k - 1 \notin N
    BY <1>1, <2>1, <2>2
  <2>4. g[k - 1] \in Seq(T) /\ ss[k] \in Seq(T) /\ g[k] = g[k - 1] \o ss[k]
    BY <1>1, <1>5, <2>3
  <2>5. g[k - 1] \o ss[k] \in Seq(T)
    BY <2>4, ConcatProperties, Zenon
  <2>6. g[k] \notin Seq(T)
    BY <2>1
  <2> QED BY <2>4, <2>5, <2>6, Zenon
<1>7. g[n] = S!FlattenSeq(ss)
  <2>1. CASE n = 0
    <3>1. ss = <<>>
      BY <2>1, EmptySeq DEF n
    <3> QED BY <1>3, <1>4, <2>1, <3>1
  <2>2. CASE n # 0
    <3>1. n \in 1..n
      BY <1>1, <2>2
    <3> HIDE DEF g
    <3> QED BY <1>3, <1>4, <2>2, <3>1
  <2> QED BY <2>1, <2>2
<1>8. g \in [0..n -> Seq(T)]
  <2>1. g = [i \in 0..n |-> g[i]]
    OBVIOUS
  <2> HIDE DEF g
  <2> QED BY <1>6, <2>1
<1> HIDE DEF g
<1>9. Joined(ss, g)
  BY <1>4, <1>5 DEF Joined, n
<1> QED BY <1>7, <1>8, <1>9 DEF n

Upto(ss) ==
    CHOOSE g \in [0..Len(ss) -> Seq(Tokens)] :
        Joined(ss, g) /\ g[Len(ss)] = S!FlattenSeq(ss)

LEMMA UptoIs ==
    ASSUME NEW ss \in Seq(Seq(Tokens))
    PROVE  /\ Upto(ss) \in [0..Len(ss) -> Seq(Tokens)]
           /\ Joined(ss, Upto(ss)) /\ Upto(ss)[Len(ss)] = S!FlattenSeq(ss)
<1> DEFINE Is(g) == Joined(ss, g) /\ g[Len(ss)] = S!FlattenSeq(ss)
<1>1. \E g \in [0..Len(ss) -> Seq(Tokens)] : Is(g)
  BY FlattenIs
<1>2. Upto(ss) = CHOOSE g \in [0..Len(ss) -> Seq(Tokens)] : Is(g)
  BY DEF Upto
<1> HIDE DEF Is
<1>3. Upto(ss) \in [0..Len(ss) -> Seq(Tokens)] /\ Is(Upto(ss))
  BY <1>1, <1>2, Zenon
<1> QED BY <1>3 DEF Is

(* Where all of them are read, the first ones are, and behind them the one *)
(* that follows.                                                           *)
LEMMA ReadsUpto ==
    ASSUME NEW ss \in Seq(Seq(Tokens)), NEW s \in Seq(Tokens), NEW p \in Nat,
           Reads(s, p, S!FlattenSeq(ss))
    PROVE  /\ \A i \in 0..Len(ss) : Reads(s, p, Upto(ss)[i])
           /\ \A i \in 1..Len(ss) :
                 /\ Reads(s, p + Len(Upto(ss)[i - 1]), ss[i])
                 /\ Len(Upto(ss)[i]) = Len(Upto(ss)[i - 1]) + Len(ss[i])
<1> DEFINE n == Len(ss)
           g == Upto(ss)
<1>1. /\ n \in Nat /\ \A i \in 1..n : ss[i] \in Seq(Tokens)
      /\ \A i \in 0..n : g[i] \in Seq(Tokens)
      /\ \A i \in 1..n : g[i] = g[i - 1] \o ss[i]
      /\ Reads(s, p, g[n])
  BY UptoIs, LenProperties, ElementOfSeq DEF Joined
<1> HIDE DEF g, n
<1>2. ASSUME NEW i \in 1..n, Reads(s, p, g[i])
      PROVE  /\ Reads(s, p, g[i - 1]) /\ Reads(s, p + Len(g[i - 1]), ss[i])
             /\ Len(g[i]) = Len(g[i - 1]) + Len(ss[i])
  <2>1. /\ g[i - 1] \in Seq(Tokens) /\ ss[i] \in Seq(Tokens)
        /\ Reads(s, p, g[i - 1] \o ss[i]) /\ g[i] = g[i - 1] \o ss[i]
    <3>1. i - 1 \in 0..n
      BY <1>1
    <3> QED BY <1>1, <1>2, <3>1
  <2>2. /\ Reads(s, p, g[i - 1]) /\ Reads(s, p + Len(g[i - 1]), ss[i])
        /\ Len(g[i - 1] \o ss[i]) = Len(g[i - 1]) + Len(ss[i])
    <3> DEFINE a == g[i - 1]
               b == ss[i]
    <3>1. a \in Seq(Tokens) /\ b \in Seq(Tokens) /\ Reads(s, p, a \o b)
      BY <2>1
    <3> HIDE DEF a, b
    <3>2. /\ Reads(s, p, a) /\ Reads(s, p + Len(a), b)
          /\ Len(a \o b) = Len(a) + Len(b)
      BY <3>1, ReadsParts
    <3> QED BY <3>2 DEF a, b
  <2>3. Len(g[i]) = Len(g[i - 1] \o ss[i])
    BY <2>1, Zenon
  <2>4. Len(g[i]) = Len(g[i - 1]) + Len(ss[i])
    BY <2>2, <2>3, Zenon
  <2> QED BY <2>2, <2>4, Zenon
<1>3. ASSUME NEW i \in 0..n PROVE Reads(s, p, g[i])
  <2> DEFINE N == {k \in 0..n : ~Reads(s, p, g[n - k])}
  <2>1. N = {}
    <3> SUFFICES ASSUME N # {} PROVE FALSE
      OBVIOUS
    <3>1. PICK k \in N : \A l \in N : k =< l
      <4>1. N \in SUBSET Nat
        OBVIOUS
      <4> HIDE DEF N
      <4> QED BY <4>1, LeastNumber
    <3>2. k \in 0..n /\ ~Reads(s, p, g[n - k])
      BY <3>1
    <3>3. k # 0
      <4>1. k = 0 => n - k = n
        BY <1>1
      <4>2. n - k # n
        BY <1>1, <3>2, Zenon
      <4> QED BY <4>1, <4>2
    <3>4. k - 1 \in 0..n /\ k - 1 \notin N
      <4>1. k - 1 \in 0..n /\ ~(k =< k - 1)
        BY <1>1, <3>2, <3>3
      <4>2. k - 1 \in N => k =< k - 1
        BY <3>1, Zenon
      <4> QED BY <4>1, <4>2, Zenon
    <3>5. n - (k - 1) \in 1..n /\ n - (k - 1) - 1 = n - k
      BY <1>1, <3>2, <3>3
    <3>6. Reads(s, p, g[n - (k - 1)])
      BY <3>4
    <3>7. Reads(s, p, g[n - (k - 1) - 1])
      BY <1>2, <3>5, <3>6
    <3> QED BY <3>2, <3>5, <3>7
  <2>2. n - i \in 0..n /\ n - (n - i) = i
    BY <1>1
  <2>3. Reads(s, p, g[n - (n - i)])
    BY <2>1, <2>2
  <2> QED BY <2>2, <2>3
<1>4. \A i \in 1..n : i \in 0..n
  OBVIOUS
<1> QED BY <1>2, <1>3, <1>4 DEF g, n

-----------------------------------------------------------------------------
(* MESSAGES                                                                *)

LEMMA WiderSeq ==
    ASSUME NEW U, NEW T, NEW s \in Seq(U), \A i \in 1..Len(s) : s[i] \in T
    PROVE  s \in Seq(T)
<1>1. Len(s) \in Nat /\ DOMAIN s = 1..Len(s) /\ s = [i \in 1..Len(s) |-> s[i]]
  BY LenProperties
<1>2. s \in [1..Len(s) -> T]
  BY <1>1
<1> QED BY <1>1, <1>2

LEMMA TokenIs ==
    ASSUME NEW is \in Kinds, NEW val \in Nat
    PROVE  /\ Token(is, val) \in Tokens
           /\ Token(is, val).is = is /\ Token(is, val).val = val
  BY DEF Token, Tokens

(* Framing tokens are tokens like others.                                  *)
LEMMA SomeTokens ==
    /\ CR \in Tokens /\ LF \in Tokens /\ NUL \in Tokens /\ CRLF \in Seq(Tokens)
    /\ CR.is = "cr" /\ LF.is = "lf" /\ CR # LF
    /\ Len(CRLF) = 2 /\ CRLF[1] = CR /\ CRLF[2] = LF
    /\ \A n \in Nat : Hex(n) \in Tokens /\ Hex(n).is = "hex" /\ Hex(n).val = n
    /\ Garbage # CR /\ Garbage # LF /\ Garbage # NUL
    /\ \A n : Hex(n) # Garbage
<1>1. CR \in Tokens /\ LF \in Tokens /\ NUL \in Tokens
  <2>1. "cr" \in Kinds /\ "lf" \in Kinds /\ "nul" \in Kinds /\ 0 \in Nat
    BY DEF Kinds
  <2> QED BY <2>1, TokenIs DEF CR, LF, NUL
<1>2. CR.is = "cr" /\ LF.is = "lf" /\ CR # LF
  BY DEF CR, LF, Token
<1>3. CRLF \in Seq(Tokens) /\ Len(CRLF) = 2 /\ CRLF[1] = CR /\ CRLF[2] = LF
  BY <1>1, OfTwo DEF CRLF
<1>4. \A n \in Nat : Hex(n) \in Tokens /\ Hex(n).is = "hex" /\ Hex(n).val = n
  <2>1. "hex" \in Kinds
    BY DEF Kinds
  <2> QED BY <2>1, TokenIs DEF Hex
<1>5. /\ Garbage # CR /\ Garbage # LF /\ Garbage # NUL
      /\ \A n : Hex(n) # Garbage
  BY DEF Garbage, CR, LF, NUL, Hex, Token
<1> QED BY <1>1, <1>2, <1>3, <1>4, <1>5

LEMMA MessageIs ==
    ASSUME NEW m \in Messages
    PROVE  /\ m.first \in Starts /\ m.first \in Kinds \ {"payload", "cr", "lf"}
           /\ m.before \in Extras /\ m.after \in Extras
           /\ m.chunked \in BOOLEAN /\ m.leading \in Nat
           /\ m.chunks \in Splits(m.chunked)
<1>1. PICK c \in BOOLEAN :
          m \in [first : Starts, before : Extras, after : Extras,
                 chunked : {c}, chunks : Splits(c), leading : 0..MaxLeading]
  BY DEF Messages
<1>2. /\ m.first \in Starts /\ m.before \in Extras /\ m.after \in Extras
      /\ m.chunked = c /\ m.chunks \in Splits(c)
      /\ m.leading \in 0..MaxLeading
  BY <1>1
<1>3. /\ m.first \in Kinds \ {"payload", "cr", "lf"}
      /\ m.leading \in Nat
  BY <1>2, HttpAssumption DEF Kinds
<1> QED BY <1>2, <1>3

Clean == Tokens \ {Garbage}

(* Each of the chunks has a byte at least.                                 *)
LEMMA ChunksAre ==
    ASSUME NEW m \in Messages
    PROVE  /\ Len(m.chunks) \in Nat /\ DOMAIN m.chunks = 1..Len(m.chunks)
           /\ \A j \in 1..Len(m.chunks) :
                 LET c == m.chunks[j]
                 IN  /\ c.bytes \in Seq(Clean) /\ c.bytes \in Seq(Tokens)
                     /\ Len(c.bytes) \in Nat \ {0}
                     /\ m.chunked => c.size \in Numerals(Len(c.bytes))
<1> DEFINE All == UNION {[size : IF m.chunked THEN Numerals(n) ELSE {<<>>},
                          bytes : [1..n -> Bytes]] : n \in 1..MaxBody}
<1>1. PICK k \in 0..(IF m.chunked THEN MaxBody ELSE 1) :
         m.chunks \in [1..k -> All]
  BY MessageIs DEF Splits
<1>2. k \in Nat
  <2>1. (IF m.chunked THEN MaxBody ELSE 1) \in Nat
    BY HttpAssumption
  <2> QED BY <2>1
<1>3. Len(m.chunks) = k /\ DOMAIN m.chunks = 1..k
  <2> HIDE DEF All
  <2> QED BY <1>1, <1>2
<1>4. ASSUME NEW j \in 1..k
      PROVE  LET c == m.chunks[j]
             IN  /\ c.bytes \in Seq(Clean) /\ c.bytes \in Seq(Tokens)
                 /\ Len(c.bytes) \in Nat \ {0}
                 /\ m.chunked => c.size \in Numerals(Len(c.bytes))
  <2> DEFINE c == m.chunks[j]
  <2>1. c \in All
    <3> HIDE DEF All
    <3> QED BY <1>1
  <2> HIDE DEF c
  <2>2. PICK n \in 1..MaxBody :
           c \in [size : IF m.chunked THEN Numerals(n) ELSE {<<>>},
                  bytes : [1..n -> Bytes]]
    BY <2>1
  <2>3. /\ c.bytes \in [1..n -> Bytes] /\ n \in Nat \ {0}
        /\ m.chunked => c.size \in Numerals(n)
    BY <2>2
  <2>4. c.bytes \in [1..n -> Clean] /\ c.bytes \in [1..n -> Tokens]
    BY <2>3, HttpAssumption DEF Clean
  <2>5. /\ Len(c.bytes) = n /\ c.bytes \in Seq(Clean)
        /\ c.bytes \in Seq(Tokens)
    BY <2>3, <2>4
  <2> QED BY <2>3, <2>5 DEF c
<1> QED BY <1>2, <1>3, <1>4

BodiesOf(m) == [j \in DOMAIN m.chunks |-> m.chunks[j].bytes]

LEMMA BodyIs ==
    ASSUME NEW m \in Messages
    PROVE  /\ Body(m) = S!FlattenSeq(BodiesOf(m))
           /\ BodiesOf(m) \in Seq(Seq(Tokens))
           /\ Len(BodiesOf(m)) = Len(m.chunks)
           /\ Body(m) \in Seq(Tokens) /\ Len(Body(m)) \in Nat
           /\ \A i \in 1..Len(Body(m)) : Body(m)[i] # Garbage
<1> DEFINE n == Len(m.chunks)
           bs == [j \in 1..n |-> m.chunks[j].bytes]
<1>1. /\ n \in Nat /\ DOMAIN m.chunks = 1..n
      /\ \A j \in 1..n : m.chunks[j].bytes \in Seq(Clean)
      /\ \A j \in 1..n : m.chunks[j].bytes \in Seq(Tokens)
  BY ChunksAre
<1>2. bs = BodiesOf(m)
  BY <1>1 DEF BodiesOf
<1>3. bs \in Seq(Seq(Clean)) /\ bs \in Seq(Seq(Tokens)) /\ Len(bs) = n
  BY <1>1
<1> HIDE DEF bs
<1>4. PICK g \in [0..Len(bs) -> Seq(Clean)] : g[Len(bs)] = S!FlattenSeq(bs)
  BY <1>3, FlattenIs
<1>5. Body(m) = S!FlattenSeq(bs)
  BY <1>2 DEF Body, BytesOf, BodiesOf
<1>6. Body(m) \in Seq(Clean)
  BY <1>1, <1>3, <1>4, <1>5
<1>7. Len(Body(m)) \in Nat /\ \A i \in 1..Len(Body(m)) : Body(m)[i] \in Clean
  BY <1>6, LenProperties, ElementOfSeq
<1>8. /\ \A i \in 1..Len(Body(m)) : Body(m)[i] # Garbage
      /\ \A i \in 1..Len(Body(m)) : Body(m)[i] \in Tokens
  BY <1>7 DEF Clean
<1>9. Body(m) \in Seq(Tokens)
  BY <1>6, <1>8, WiderSeq
<1> QED BY <1>2, <1>3, <1>5, <1>7, <1>8, <1>9

-----------------------------------------------------------------------------
(* The header that frames the message, and where it is.                    *)
Framing(m) ==
    IF m.chunked THEN Token("chunked", 0) ELSE Token("length", Len(Body(m)))

Place(m) == Len(m.before) + 1

LEMMA HeadersAre ==
    ASSUME NEW m \in Messages
    PROVE  /\ Headers(m) \in Seq(Tokens) /\ Len(Headers(m)) \in Nat
           /\ Place(m) \in 1..Len(Headers(m))
           /\ Headers(m)[Place(m)] = Framing(m)
           /\ \A i \in 1..Len(Headers(m)) :
                 /\ Headers(m)[i] \in Tokens
                 /\ Headers(m)[i].is \notin {"payload", "cr", "lf"}
                 /\ i # Place(m) =>
                       Headers(m)[i].is \notin {"length", "chunked"}
<1> DEFINE p == m.before
           f == <<Framing(m)>>
           q == m.after
           h == (p \o f) \o q
           good(x) == /\ x \in Tokens /\ x.is \notin {"payload", "cr", "lf"}
                      /\ x.is \notin {"length", "chunked"}
<1>1. /\ p \in Seq(Tokens) /\ q \in Seq(Tokens)
      /\ Len(p) \in Nat /\ Len(q) \in Nat
      /\ \A i \in 1..Len(p) : good(p[i])
      /\ \A i \in 1..Len(q) : good(q[i])
  <2>1. ASSUME NEW x \in Extras
        PROVE  /\ x \in Seq(Tokens) /\ Len(x) \in Nat
               /\ \A i \in 1..Len(x) : good(x[i])
    <3>1. x \in Seq([is : Names, val : Nat])
      BY HttpAssumption
    <3>2. Len(x) \in Nat /\ DOMAIN x = 1..Len(x)
      BY <3>1, LenProperties
    <3>3. ASSUME NEW i \in 1..Len(x) PROVE good(x[i]) /\ x[i] \in Tokens
      <4>1. x[i] \in [is : Names, val : Nat]
        BY <3>1, ElementOfSeq
      <4>2. x[i].is \notin {"payload", "cr", "lf", "chunked", "length"}
        BY <4>1, HttpAssumption
      <4>3. x[i] \in Tokens
        BY <4>1 DEF Tokens, Kinds
      <4> QED BY <4>2, <4>3
    <3> HIDE DEF good
    <3>4. x \in Seq(Tokens)
      BY <3>1, <3>3, WiderSeq
    <3> QED BY <3>2, <3>3, <3>4
  <2>2. p \in Extras /\ q \in Extras
    BY MessageIs
  <2> HIDE DEF good, p, q
  <2> QED BY <2>1, <2>2
<1>2. Framing(m) \in Tokens /\ Framing(m).is \in {"chunked", "length"}
  <2>1. Len(Body(m)) \in Nat
    BY BodyIs
  <2>2. "chunked" \in Kinds /\ "length" \in Kinds /\ 0 \in Nat
    BY DEF Kinds
  <2>3. /\ Token("chunked", 0) \in Tokens /\ Token("chunked", 0).is = "chunked"
        /\ Token("length", Len(Body(m))) \in Tokens
        /\ Token("length", Len(Body(m))).is = "length"
    BY <2>1, <2>2, TokenIs
  <2> QED BY <2>3 DEF Framing
<1>3. f \in Seq(Tokens) /\ Len(f) = 1 /\ f[1] = Framing(m)
  BY <1>2, OfTwo
<1> HIDE DEF f, p, q
<1>4. /\ p \o f \in Seq(Tokens) /\ Len(p \o f) = Len(p) + 1
      /\ \A i \in 1..Len(p) : (p \o f)[i] = p[i]
      /\ (p \o f)[Len(p) + 1] = Framing(m)
  <2>1. /\ p \o f \in Seq(Tokens) /\ Len(p \o f) = Len(p) + Len(f)
        /\ \A i \in 1..Len(p) : (p \o f)[i] = p[i]
        /\ \A i \in 1..Len(f) : (p \o f)[Len(p) + i] = f[i]
    <3>1. p \in Seq(Tokens) /\ f \in Seq(Tokens)
      BY <1>1, <1>3
    <3> QED BY <3>1, Joining
  <2> QED BY <1>3, <2>1
<1> DEFINE g == p \o f
<1> HIDE DEF g
<1>5. /\ g \o q \in Seq(Tokens) /\ Len(g \o q) = Len(g) + Len(q)
      /\ \A i \in 1..Len(g) : (g \o q)[i] = g[i]
      /\ \A i \in 1..Len(q) : (g \o q)[Len(g) + i] = q[i]
  <2>1. g \in Seq(Tokens) /\ q \in Seq(Tokens)
    BY <1>1, <1>4 DEF g
  <2> QED BY <2>1, Joining
<1>6. h = Headers(m) /\ h = g \o q /\ Place(m) = Len(p) + 1
  BY DEF h, Headers, Framing, Place, f, p, q, g
<1> HIDE DEF h
<1>7. Len(g) = Len(p) + 1 /\ Place(m) \in 1..Len(h) /\ h[Place(m)] = Framing(m) /\ Len(h) \in Nat
  BY <1>1, <1>4, <1>5, <1>6 DEF g
<1>8. ASSUME NEW i \in 1..Len(h)
      PROVE  /\ h[i] \in Tokens /\ h[i].is \notin {"payload", "cr", "lf"}
             /\ i # Place(m) => h[i].is \notin {"length", "chunked"}
  <2>1. CASE i =< Len(p)
    <3>1. h[i] = p[i] /\ i \in 1..Len(p)
      <4>1. i \in 1..Len(p) /\ i \in 1..Len(g)
        BY <1>1, <1>7, <2>1
      <4> QED BY <1>4, <1>5, <1>6, <4>1 DEF g
    <3> QED BY <1>1, <3>1
  <2>2. CASE i = Len(p) + 1
    <3>1. h[i] = Framing(m) /\ i = Place(m)
      BY <1>6, <1>7, <2>2
    <3> QED BY <1>2, <3>1
  <2>3. CASE i > Len(p) + 1
    <3>1. i - Len(g) \in 1..Len(q) /\ Len(g) + (i - Len(g)) = i
      BY <1>1, <1>5, <1>6, <1>7, <2>3
    <3>2. h[i] = q[i - Len(g)]
      <4>1. h[Len(g) + (i - Len(g))] = q[i - Len(g)]
        BY <1>5, <1>6, <3>1
      <4> QED BY <3>1, <4>1
    <3> QED BY <1>1, <3>1, <3>2
  <2> QED BY <1>1, <2>1, <2>2, <2>3
<1> QED BY <1>5, <1>6, <1>7, <1>8

LEMMA LinesAre ==
    ASSUME NEW m \in Messages
    PROVE  /\ Lines(m) \in Seq(Tokens)
           /\ Len(Lines(m)) = Len(Headers(m)) + 1
           /\ Lines(m)[1] = Token(m.first, 0)
           /\ \A i \in 1..Len(Headers(m)) : Lines(m)[i + 1] = Headers(m)[i]
           /\ \A k \in 1..Len(Lines(m)) :
                 Lines(m)[k] \in Tokens /\ Lines(m)[k].is \notin {"cr", "lf"}
<1> DEFINE f == Token(m.first, 0)
           h == Headers(m)
<1>1. f \in Tokens /\ f.is = m.first /\ m.first \notin {"cr", "lf"}
  BY MessageIs DEF Token, Tokens
<1>2. /\ h \in Seq(Tokens) /\ Len(h) \in Nat
      /\ \A i \in 1..Len(h) : h[i] \in Tokens /\ h[i].is \notin {"cr", "lf"}
  BY HeadersAre
<1> HIDE DEF f, h
<1>3. <<f>> \in Seq(Tokens) /\ Len(<<f>>) = 1 /\ <<f>>[1] = f
  BY <1>1, OfTwo
<1>4. /\ <<f>> \o h \in Seq(Tokens) /\ Len(<<f>> \o h) = 1 + Len(h)
      /\ (<<f>> \o h)[1] = f
      /\ \A i \in 1..Len(h) : (<<f>> \o h)[1 + i] = h[i]
  BY <1>2, <1>3, Joining
<1> DEFINE l == <<f>> \o h
<1>5. l = Lines(m)
  BY DEF Lines, f, h
<1> HIDE DEF l
<1>6. /\ l \in Seq(Tokens) /\ Len(l) = Len(h) + 1 /\ l[1] = f
      /\ \A i \in 1..Len(h) : l[i + 1] = h[i]
  BY <1>2, <1>4 DEF l
<1>7. ASSUME NEW k \in 1..Len(l) PROVE l[k] \in Tokens /\ l[k].is \notin {"cr", "lf"}
  <2>1. CASE k = 1
    BY <1>1, <1>6, <2>1
  <2>2. CASE k # 1
    <3>1. k - 1 \in 1..Len(h) /\ (k - 1) + 1 = k
      BY <1>2, <1>6, <2>2
    <3>2. l[k] = h[k - 1]
      <4>1. l[(k - 1) + 1] = h[k - 1]
        BY <1>6, <3>1
      <4> QED BY <3>1, <4>1
    <3> QED BY <1>2, <3>1, <3>2
  <2> QED BY <2>1, <2>2
<1> QED BY <1>5, <1>6, <1>7 DEF f, h

LEMMA EndedIs ==
    ASSUME NEW ls \in Seq(Tokens)
    PROVE  /\ Ended(ls) \in Seq(Tokens) /\ Len(Ended(ls)) = 3 * Len(ls)
           /\ Len(ls) \in Nat
           /\ \A k \in 1..Len(ls) :
                 /\ Ended(ls)[3 * k - 2] = ls[k]
                 /\ Ended(ls)[3 * k - 1] = CR
                 /\ Ended(ls)[3 * k] = LF
<1> DEFINE n == Len(ls)
           at(i) == LET k == (i + 2) \div 3
                    IN  IF i = 3 * k - 2 THEN ls[k] ELSE CRLF[i - 3 * k + 2]
           e == [i \in 1..3 * n |-> at(i)]
<1>1. n \in Nat /\ \A k \in 1..n : ls[k] \in Tokens
  BY LenProperties, ElementOfSeq
<1>2. ASSUME NEW k \in 1..n
      PROVE  /\ {3 * k - 2, 3 * k - 1, 3 * k} \subseteq 1..3 * n
             /\ at(3 * k - 2) = ls[k] /\ at(3 * k - 1) = CR /\ at(3 * k) = LF
  <2>1. /\ (3 * k - 2 + 2) \div 3 = k /\ (3 * k - 1 + 2) \div 3 = k
        /\ (3 * k + 2) \div 3 = k
    OBVIOUS
  <2>2. at(3 * k - 2) = ls[k] /\ at(3 * k - 1) = CRLF[1] /\ at(3 * k) = CRLF[2]
    <3>1. 3 * k - 1 - 3 * k + 2 = 1 /\ 3 * k - 3 * k + 2 = 2 /\ 3 * k - 1 # 3 * k - 2 /\ 3 * k # 3 * k - 2
      OBVIOUS
    <3> QED BY <2>1, <3>1
  <2>3. {3 * k - 2, 3 * k - 1, 3 * k} \subseteq 1..3 * n
    BY <1>1
  <2> HIDE DEF at
  <2> QED BY <2>2, <2>3, SomeTokens
<1>3. \A i \in 1..3 * n : at(i) \in Tokens
  <2> SUFFICES ASSUME NEW i \in 1..3 * n PROVE at(i) \in Tokens
    OBVIOUS
  <2>1. \E k \in 1..n : i \in {3 * k - 2, 3 * k - 1, 3 * k}
    <3> DEFINE k == (i + 2) \div 3
    <3>1. k \in 1..n /\ (i = 3 * k - 2 \/ i = 3 * k - 1 \/ i = 3 * k)
      BY <1>1
    <3> QED BY <3>1
  <2> HIDE DEF at
  <2>2. PICK k \in 1..n : i \in {3 * k - 2, 3 * k - 1, 3 * k}
    BY <2>1
  <2>3. at(3 * k - 2) = ls[k] /\ at(3 * k - 1) = CR /\ at(3 * k) = LF
    BY <1>2
  <2>4. ls[k] \in Tokens /\ CR \in Tokens /\ LF \in Tokens
    BY <1>1, SomeTokens
  <2> QED BY <2>2, <2>3, <2>4
<1>4. e = Ended(ls)
  BY DEF Ended
<1> HIDE DEF at
<1>5. e \in Seq(Tokens) /\ Len(e) = 3 * n /\ \A i \in 1..3 * n : e[i] = at(i)
  BY <1>1, <1>3
<1> HIDE DEF e
<1> QED BY <1>1, <1>2, <1>4, <1>5

-----------------------------------------------------------------------------
(* SIZES                                                                   *)

(* Digits d are a way to write n.                                          *)
Size(d, n) ==
    /\ d \in Seq(Tokens) /\ Len(d) \in Nat \ {0}
    /\ \A i \in 1..Len(d) : d[i].is = "hex"
    /\ HexToInt(d) = n

(* What the digits up to each place stand for, the last place tells all.   *)
LEMMA HexToIntIs ==
    ASSUME NEW d, Len(d) \in Nat, NEW f,
           f = [k \in 0..Len(d) |->
                   IF k = 0 THEN 0 ELSE f[k - 1] * Base + d[k].val]
    PROVE  HexToInt(d) = f[Len(d)]
<1> DEFINE L == Len(d)
           Is(v) == v = [k \in 0..L |->
                           IF k = 0 THEN 0 ELSE v[k - 1] * Base + d[k].val]
           h == CHOOSE v : Is(v)
           N == {k \in 0..L : h[k] # f[k]}
<1>1. HexToInt(d) = h[L]
  BY DEF HexToInt
<1>2. Is(f)
  OBVIOUS
<1>3. Is(h)
  <2>1. \E v : Is(v)
    BY <1>2
  <2> HIDE DEF Is
  <2> QED BY <2>1, Zenon
<1>4. \A k \in 0..L :
         /\ f[k] = IF k = 0 THEN 0 ELSE f[k - 1] * Base + d[k].val
         /\ h[k] = IF k = 0 THEN 0 ELSE h[k - 1] * Base + d[k].val
  <2> HIDE DEF h
  <2> QED BY <1>2, <1>3
<1> HIDE DEF h, L, Is
<1>5. N = {}
  <2> SUFFICES ASSUME N # {} PROVE FALSE
    OBVIOUS
  <2>1. PICK k \in N : \A l \in N : k =< l
    <3>1. N \in SUBSET Nat
      OBVIOUS
    <3> HIDE DEF N
    <3> QED BY <3>1, LeastNumber
  <2>2. k \in 0..L /\ h[k] # f[k]
    BY <2>1
  <2>3. k # 0
    BY <1>4, <2>2
  <2>4. k - 1 \in 0..L /\ k - 1 \notin N
    <3>1. k - 1 \in 0..L /\ ~(k =< k - 1)
      BY <2>2, <2>3 DEF L
    <3>2. k - 1 \in N => k =< k - 1
      BY <2>1, Zenon
    <3> QED BY <3>1, <3>2, Zenon
  <2>5. h[k - 1] = f[k - 1]
    BY <2>4
  <2> QED BY <1>4, <2>2, <2>3, <2>5
<1>6. L \in 0..L
  BY DEF L
<1>7. h[L] = f[L]
  BY <1>5, <1>6
<1> QED BY <1>1, <1>7 DEF L

LEMMA QuotientIs ==
    ASSUME NEW n \in Nat
    PROVE  /\ n % Base \in Nat
           /\ (n \div Base) * Base + (n % Base) = n
<1>1. n \in Int /\ Base \in Int /\ Base > 1
  BY HttpAssumption
<1>2. /\ n \div Base \in Int /\ n % Base \in 0..(Base - 1)
      /\ n = Base * (n \div Base) + (n % Base)
  BY <1>1, Z3
<1> DEFINE q == n \div Base
           r == n % Base
<1>3. q \in Int /\ r \in 0..(Base - 1) /\ n = Base * q + r
  BY <1>2
<1> HIDE DEF q, r
<1>4. Base * q = q * Base
  BY <1>1, <1>3
<1>5. r \in Nat /\ q * Base + r = n
  BY <1>1, <1>3, <1>4
<1> QED BY <1>5 DEF q, r

(* Every numeral, leading zeros or not, is read as the number it was       *)
(* written for.                                                            *)
LEMMA NumeralIs ==
    ASSUME NEW n \in Nat, NEW d \in Numerals(n)
    PROVE  Size(d, n)
<1>1. PICK L \in 1..MaxDigits :
         d \in {[i \in 1..L |-> Hex(left[i] % Base)] :
                   left \in {f \in [0..L -> 0..n] :
                                /\ f[0] = 0 /\ f[L] = n
                                /\ \A i \in 1..L : f[i - 1] = f[i] \div Base}}
  BY DEF Numerals
<1>2. PICK f \in [0..L -> 0..n] :
         /\ f[0] = 0 /\ f[L] = n
         /\ \A i \in 1..L : f[i - 1] = f[i] \div Base
         /\ d = [i \in 1..L |-> Hex(f[i] % Base)]
  BY <1>1
<1>3. L \in Nat \ {0} /\ \A i \in 0..L : f[i] \in Nat
  BY <1>2
<1>4. ASSUME NEW i \in 1..L
      PROVE  /\ f[i] % Base \in Nat
             /\ f[i - 1] * Base + (f[i] % Base) = f[i]
  <2>1. f[i] \in Nat /\ f[i - 1] = f[i] \div Base
    BY <1>2, <1>3
  <2> QED BY <2>1, QuotientIs
<1>5. ASSUME NEW i \in 1..L
      PROVE  /\ d[i] \in Tokens /\ d[i].is = "hex"
             /\ d[i].val = f[i] % Base
  <2>1. d[i] = Hex(f[i] % Base)
    BY <1>2
  <2> QED BY <1>4, <2>1, SomeTokens
<1>6. Len(d) = L /\ d \in Seq(Tokens)
  <2>1. \A i \in 1..L : Hex(f[i] % Base) \in Tokens
    BY <1>4, SomeTokens
  <2>2. d \in [1..L -> Tokens]
    BY <1>2, <2>1
  <2> QED BY <1>3, <2>2
<1>7. f = [k \in 0..L |-> IF k = 0 THEN 0 ELSE f[k - 1] * Base + d[k].val]
  <2> DEFINE rhs(k) == IF k = 0 THEN 0 ELSE f[k - 1] * Base + d[k].val
  <2>1. ASSUME NEW k \in 0..L PROVE f[k] = rhs(k)
    <3>1. CASE k = 0
      BY <1>2, <3>1
    <3>2. CASE k # 0
      <4>1. k \in 1..L
        BY <1>3, <3>2
      <4>2. f[k - 1] * Base + (f[k] % Base) = f[k] /\ d[k].val = f[k] % Base
        BY <1>4, <1>5, <4>1
      <4> QED BY <3>2, <4>2
    <3> QED BY <3>1, <3>2
  <2> HIDE DEF rhs
  <2>2. f = [k \in 0..L |-> f[k]]
    BY <1>2
  <2>3. f = [k \in 0..L |-> rhs(k)]
    BY <2>1, <2>2
  <2> QED BY <2>3 DEF rhs
<1>8. HexToInt(d) = n
  <2>1. HexToInt(d) = f[Len(d)]
    BY <1>3, <1>6, <1>7, HexToIntIs
  <2> QED BY <1>2, <1>6, <2>1
<1> QED BY <1>3, <1>5, <1>6, <1>8 DEF Size

Zero == <<Hex(0)>>

(* The size of the last chunk.                                             *)
LEMMA ZeroIs == Size(Zero, 0) /\ Len(Zero) = 1 /\ Zero[1] = Hex(0)
<1>1. Hex(0) \in Tokens /\ Hex(0).is = "hex" /\ Hex(0).val = 0
  <2>1. 0 \in Nat
    OBVIOUS
  <2> QED BY <2>1, SomeTokens
<1>2. Zero \in Seq(Tokens) /\ Len(Zero) = 1 /\ Zero[1] = Hex(0)
  BY <1>1, OfTwo DEF Zero
<1> DEFINE f == [k \in 0..1 |-> 0]
<1>3. \A k \in 0..1 : f[k] = IF k = 0 THEN 0 ELSE f[k - 1] * Base + Zero[k].val
  <2>1. f[0] = 0 /\ f[1] = 0 /\ f[1 - 1] = 0 /\ 0 * Base + 0 = 0
    BY HttpAssumption
  <2>2. \A k \in 0..1 : k = 0 \/ k = 1
    OBVIOUS
  <2> HIDE DEF f
  <2> QED BY <1>1, <1>2, <2>1, <2>2
<1>4. f = [k \in 0..1 |-> f[k]] /\ f[1] = 0
  OBVIOUS
<1> HIDE DEF f
<1>5. f = [k \in 0..1 |-> IF k = 0 THEN 0 ELSE f[k - 1] * Base + Zero[k].val]
  BY <1>3, <1>4
<1>6. HexToInt(Zero) = f[Len(Zero)]
  <2>1. Len(Zero) \in Nat
    BY <1>2
  <2> QED BY <1>2, <1>5, <2>1, HexToIntIs
<1>7. HexToInt(Zero) = 0
  BY <1>2, <1>4, <1>6
<1>8. Len(Zero) \in Nat \ {0} /\ \A i \in 1..Len(Zero) : Zero[i].is = "hex"
  BY <1>1, <1>2
<1> QED BY <1>2, <1>7, <1>8 DEF Size

-----------------------------------------------------------------------------
(* WHERE THINGS ARE IN A MESSAGE                                           *)

(* Chunk c is at position p of s, and ends at position e.                  *)
Round(s, p, c, d, e) ==
    /\ Reads(s, p, d) /\ s[p + Len(d) + 1] = CR
    /\ Reads(s, p + Len(d) + 2, c)
    /\ e = p + Len(d) + 2 + Len(c) + 2 /\ e =< Len(s)

LEMMA ReadsCRLF ==
    ASSUME NEW s \in Seq(Tokens), NEW p \in Nat, Reads(s, p, CRLF)
    PROVE  s[p + 1] = CR /\ s[p + 2] = LF /\ p + 2 =< Len(s)
  BY SomeTokens DEF Reads

LEMMA JoinCRLF ==
    ASSUME NEW s \in Seq(Tokens)
    PROVE  /\ s \o CRLF \in Seq(Tokens) /\ Len(s \o CRLF) = Len(s) + 2
           /\ Len(s) \in Nat
           /\ \A i \in 1..Len(s) : (s \o CRLF)[i] = s[i]
<1>1. CRLF \in Seq(Tokens) /\ Len(CRLF) = 2
  BY SomeTokens
<1>2. /\ s \o CRLF \in Seq(Tokens) /\ Len(s \o CRLF) = Len(s) + Len(CRLF)
      /\ Len(s) \in Nat
      /\ \A i \in 1..Len(s) : (s \o CRLF)[i] = s[i]
  BY <1>1, Joining
<1> QED BY <1>1, <1>2

LEMMA ChunkIs ==
    ASSUME NEW r, r.size \in Seq(Tokens), r.bytes \in Seq(Tokens)
    PROVE  /\ Chunk(r) \in Seq(Tokens) /\ Len(Chunk(r)) \in Nat
           /\ \A s \in Seq(Tokens), p \in Nat : Reads(s, p, Chunk(r)) =>
                 Round(s, p, r.bytes, r.size, p + Len(Chunk(r)))
<1> DEFINE d == r.size
           c == r.bytes
<1>1. d \in Seq(Tokens) /\ c \in Seq(Tokens) /\ CRLF \in Seq(Tokens)
  BY SomeTokens
<1>2. Chunk(r) = ((d \o CRLF) \o c) \o CRLF
  BY DEF Chunk
<1> HIDE DEF c, d
<1>3. /\ d \o CRLF \in Seq(Tokens) /\ Len(d \o CRLF) = Len(d) + 2
      /\ Len(d) \in Nat /\ Len(c) \in Nat
  <2>1. Len(c) \in Nat
    BY <1>1, LenProperties
  <2>2. d \o CRLF \in Seq(Tokens) /\ Len(d \o CRLF) = Len(d) + 2 /\ Len(d) \in Nat
    BY <1>1, JoinCRLF
  <2> QED BY <2>1, <2>2
<1> DEFINE a == d \o CRLF
<1>4. a \o c \in Seq(Tokens) /\ Len(a \o c) = Len(a) + Len(c)
  <2>1. a \in Seq(Tokens)
    BY <1>3
  <2> HIDE DEF a
  <2> QED BY <1>1, <2>1, Joining
<1> DEFINE b == a \o c
<1>5. b \o CRLF \in Seq(Tokens) /\ Len(b \o CRLF) = Len(b) + 2
  <2>1. b \in Seq(Tokens)
    BY <1>4
  <2> HIDE DEF b
  <2> QED BY <2>1, JoinCRLF
<1>6. Chunk(r) = b \o CRLF /\ Len(a) = Len(d) + 2 /\ Len(b) = Len(d) + 2 + Len(c)
  BY <1>2, <1>3, <1>4
<1>7. /\ Chunk(r) \in Seq(Tokens) /\ Len(Chunk(r)) \in Nat
      /\ Len(Chunk(r)) = Len(d) + 2 + Len(c) + 2
  <2> HIDE DEF a, b
  <2> QED BY <1>3, <1>5, <1>6
<1>8. ASSUME NEW s \in Seq(Tokens), NEW p \in Nat, Reads(s, p, Chunk(r))
      PROVE  Round(s, p, c, d, p + Len(Chunk(r)))
  <2>1. Reads(s, p, b) /\ p + Len(b) \in Nat /\ Reads(s, p + Len(b), CRLF)
    <3>1. b \in Seq(Tokens) /\ Reads(s, p, b \o CRLF)
      BY <1>4, <1>6, <1>8
    <3> HIDE DEF b
    <3> QED BY <1>1, <3>1, ReadsParts
  <2>2. Reads(s, p, a) /\ p + Len(a) \in Nat /\ Reads(s, p + Len(a), c)
    <3>1. a \in Seq(Tokens) /\ Reads(s, p, a \o c)
      BY <1>3, <2>1
    <3> HIDE DEF a, b
    <3> QED BY <1>1, <3>1, ReadsParts
  <2>3. Reads(s, p, d) /\ p + Len(d) \in Nat /\ Reads(s, p + Len(d), CRLF)
    <3>1. Reads(s, p, d \o CRLF)
      BY <2>2
    <3> HIDE DEF a, b
    <3> QED BY <1>1, <3>1, ReadsParts
  <2> HIDE DEF a, b
  <2>4. s[p + Len(d) + 1] = CR
    BY <2>3, ReadsCRLF
  <2>5. p + Len(b) + 2 =< Len(s)
    BY <2>1, ReadsCRLF
  <2>6. /\ Reads(s, p + Len(d) + 2, c)
        /\ p + Len(Chunk(r)) = p + Len(d) + 2 + Len(c) + 2
        /\ p + Len(Chunk(r)) =< Len(s)
    <3>1. p + Len(a) = p + Len(d) + 2
      BY <1>3, <1>6
    <3>2. p + Len(b) + 2 = p + Len(d) + 2 + Len(c) + 2
      BY <1>3, <1>6
    <3> QED BY <1>7, <2>2, <2>5, <3>1, <3>2
  <2> QED BY <2>3, <2>4, <2>6 DEF Round
<1> QED BY <1>7, <1>8 DEF c, d

TextsOf(m) == [j \in DOMAIN m.chunks |-> Chunk(m.chunks[j])]

AllChunks(m) == S!FlattenSeq(TextsOf(m))

LEMMA TextsAre ==
    ASSUME NEW m \in Messages, m.chunked
    PROVE  /\ TextsOf(m) \in Seq(Seq(Tokens))
           /\ Len(TextsOf(m)) = Len(m.chunks)
           /\ AllChunks(m) \in Seq(Tokens)
           /\ \A j \in 1..Len(m.chunks) :
                 LET c == m.chunks[j]
                 IN  /\ TextsOf(m)[j] = Chunk(c) /\ Size(c.size, Len(c.bytes))
                     /\ Len(Chunk(c)) \in Nat
                     /\ \A s \in Seq(Tokens), p \in Nat :
                           Reads(s, p, Chunk(c)) =>
                              Round(s, p, c.bytes, c.size, p + Len(Chunk(c)))
<1> DEFINE n == Len(m.chunks)
           ts == [j \in 1..n |-> Chunk(m.chunks[j])]
<1>1. n \in Nat /\ DOMAIN m.chunks = 1..n
  BY ChunksAre
<1>2. ts = TextsOf(m)
  BY <1>1 DEF TextsOf
<1>3. ASSUME NEW j \in 1..n
      PROVE  LET c == m.chunks[j]
             IN  /\ Chunk(c) \in Seq(Tokens) /\ Size(c.size, Len(c.bytes))
                 /\ Len(Chunk(c)) \in Nat
                 /\ \A s \in Seq(Tokens), p \in Nat :
                       Reads(s, p, Chunk(c)) =>
                          Round(s, p, c.bytes, c.size, p + Len(Chunk(c)))
  <2> DEFINE c == m.chunks[j]
  <2>1. /\ c.bytes \in Seq(Tokens) /\ Len(c.bytes) \in Nat
        /\ c.size \in Numerals(Len(c.bytes))
    BY ChunksAre
  <2> HIDE DEF c
  <2>2. Size(c.size, Len(c.bytes))
    BY <2>1, NumeralIs
  <2>3. c.size \in Seq(Tokens)
    BY <2>2 DEF Size
  <2> QED BY <2>1, <2>2, <2>3, ChunkIs DEF c
<1>4. ts \in Seq(Seq(Tokens)) /\ Len(ts) = n
  BY <1>1, <1>3
<1>5. \A j \in 1..n : ts[j] = Chunk(m.chunks[j])
  OBVIOUS
<1> HIDE DEF ts
<1>6. S!FlattenSeq(ts) \in Seq(Tokens)
  <2>1. PICK g \in [0..Len(ts) -> Seq(Tokens)] :
           g[Len(ts)] = S!FlattenSeq(ts)
    BY <1>4, FlattenIs
  <2>2. Len(ts) \in 0..Len(ts)
    BY <1>1, <1>4
  <2> QED BY <2>1, <2>2
<1> QED BY <1>2, <1>3, <1>4, <1>5, <1>6 DEF AllChunks

(* A chunked body: its chunks, the size zero, and two line ends.           *)
LEMMA FramedIs ==
    ASSUME NEW m \in Messages
    PROVE  /\ Framed(m) \in Seq(Tokens)
           /\ m.chunked =>
                 /\ Len(Framed(m)) = Len(AllChunks(m)) + 5
                 /\ \A s \in Seq(Tokens), p \in Nat : Reads(s, p, Framed(m)) =>
                       /\ Reads(s, p, AllChunks(m))
                       /\ s[p + Len(AllChunks(m)) + 1] = Hex(0)
                       /\ s[p + Len(AllChunks(m)) + 2] = CR
<1> DEFINE a == AllChunks(m)
<1>1. CASE ~m.chunked
  BY <1>1, BodyIs DEF Framed
<1>2. CASE m.chunked
  <2>1. a \in Seq(Tokens) /\ Len(a) \in Nat
    BY <1>2, TextsAre, LenProperties
  <2>2. Framed(m) = ((a \o Zero) \o CRLF) \o CRLF
    BY <1>2 DEF Framed, AllChunks, TextsOf, Zero
  <2>3. /\ Zero \in Seq(Tokens) /\ Len(Zero) = 1 /\ Zero[1] = Hex(0)
        /\ CRLF \in Seq(Tokens) /\ Len(CRLF) = 2
    BY ZeroIs, SomeTokens DEF Size
  <2> HIDE DEF a
  <2> DEFINE az == a \o Zero
  <2>4. az \in Seq(Tokens) /\ Len(az) = Len(a) + 1
    <3>1. /\ a \o Zero \in Seq(Tokens)
          /\ Len(a \o Zero) = Len(a) + Len(Zero)
      BY <2>1, <2>3, Joining
    <3> QED BY <2>3, <3>1
  <2> HIDE DEF az
  <2> DEFINE azc == az \o CRLF
  <2>5. azc \in Seq(Tokens) /\ Len(azc) = Len(az) + 2
    BY <2>4, JoinCRLF
  <2> HIDE DEF azc
  <2>6. /\ azc \o CRLF \in Seq(Tokens) /\ Len(azc \o CRLF) = Len(azc) + 2
        /\ Framed(m) = azc \o CRLF
    <3>1. azc \o CRLF \in Seq(Tokens) /\ Len(azc \o CRLF) = Len(azc) + 2
      BY <2>5, JoinCRLF
    <3> QED BY <2>2, <3>1 DEF azc, az
  <2>7. Framed(m) \in Seq(Tokens) /\ Len(Framed(m)) = Len(a) + 5
    BY <2>1, <2>4, <2>5, <2>6
  <2>8. ASSUME NEW s \in Seq(Tokens), NEW p \in Nat, Reads(s, p, Framed(m))
        PROVE  /\ Reads(s, p, a)
               /\ s[p + Len(a) + 1] = Hex(0) /\ s[p + Len(a) + 2] = CR
    <3>1. Reads(s, p, azc)
      BY <2>3, <2>5, <2>6, <2>8, ReadsParts
    <3>2. Reads(s, p, az) /\ p + Len(az) \in Nat /\ Reads(s, p + Len(az), CRLF)
      BY <2>3, <2>4, <3>1, ReadsParts DEF azc
    <3>3. Reads(s, p, a) /\ Reads(s, p + Len(a), Zero)
      BY <2>1, <2>3, <3>2, ReadsParts DEF az
    <3>4. s[p + Len(az) + 1] = CR
      BY <3>2, ReadsCRLF
    <3>5. s[p + Len(a) + 1] = Hex(0)
      BY <2>3, <3>3 DEF Reads
    <3>6. p + Len(az) + 1 = p + Len(a) + 2
      BY <2>1, <2>4
    <3> QED BY <3>3, <3>4, <3>5, <3>6
  <2> QED BY <2>7, <2>8 DEF a
<1> QED BY <1>1, <1>2, MessageIs

-----------------------------------------------------------------------------
(* The number of lines, and where the lines end.                           *)
Count(m) == Len(Lines(m))

Behind(m) == 3 * Count(m) + 2

LEMMA CountIs ==
    ASSUME NEW m \in Messages
    PROVE  Count(m) \in Nat /\ Count(m) >= 2 /\ Count(m) = Len(Headers(m)) + 1
  BY LinesAre, HeadersAre DEF Count

Lead(m) == [i \in 1..2 * m.leading |-> IF i % 2 = 1 THEN CR ELSE LF]

LEMMA SerializeIs ==
    ASSUME NEW m \in Messages
    PROVE  /\ Serialize(m) \in Seq(Tokens) /\ Len(Serialize(m)) >= 1
           /\ Len(Serialize(m)) \in Nat
           /\ m.leading = 0 =>
                 /\ Len(Serialize(m)) = Behind(m) + Len(Framed(m))
                 /\ Reads(Serialize(m), 0, Ended(Lines(m)))
                 /\ Reads(Serialize(m), 3 * Count(m), CRLF)
                 /\ Reads(Serialize(m), Behind(m), Framed(m))
           /\ m.leading > 0 =>
                 Serialize(m)[1] = CR /\ Serialize(m)[2] = LF
<1> DEFINE l == Lead(m)
           e == Ended(Lines(m))
           f == Framed(m)
           s == Serialize(m)
<1>1. /\ l \in Seq(Tokens) /\ Len(l) = 2 * m.leading
      /\ m.leading > 0 => l[1] = CR /\ l[2] = LF
  <2>1. m.leading \in Nat /\ CR \in Tokens /\ LF \in Tokens
    BY MessageIs, SomeTokens
  <2>2. l = [i \in 1..2 * m.leading |-> IF i % 2 = 1 THEN CR ELSE LF]
    BY DEF Lead
  <2> HIDE DEF l
  <2>3. l \in Seq(Tokens) /\ Len(l) = 2 * m.leading
    BY <2>1, <2>2
  <2>4. m.leading > 0 => l[1] = CR /\ l[2] = LF
    <3>1. m.leading > 0 => 1 \in 1..2 * m.leading /\ 2 \in 1..2 * m.leading
      BY <2>1
    <3>2. 1 % 2 = 1 /\ 2 % 2 # 1
      OBVIOUS
    <3> QED BY <2>2, <3>1, <3>2
  <2> QED BY <2>3, <2>4
<1>2. e \in Seq(Tokens) /\ Len(e) = 3 * Count(m) /\ Count(m) \in Nat
  BY LinesAre, EndedIs, CountIs DEF Count
<1>3. f \in Seq(Tokens) /\ CRLF \in Seq(Tokens) /\ Len(CRLF) = 2
  BY FramedIs, SomeTokens
<1>4. s = ((l \o e) \o CRLF) \o f
  BY DEF Serialize, Lead
<1> HIDE DEF l, e, f, s
<1> DEFINE le == l \o e
<1>5. /\ le \in Seq(Tokens) /\ Len(le) = Len(l) + Len(e)
      /\ \A i \in 1..Len(l) : le[i] = l[i]
  BY <1>1, <1>2, Joining
<1>6. m.leading = 0 => le = e
  <2>1. m.leading = 0 => l = <<>>
    BY <1>1, EmptySeq
  <2> QED BY <1>2, <2>1, ConcatEmptySeq
<1> HIDE DEF le
<1> DEFINE lec == le \o CRLF
<1>7. /\ lec \in Seq(Tokens) /\ Len(lec) = Len(le) + 2
      /\ \A i \in 1..Len(le) : lec[i] = le[i]
  BY <1>5, JoinCRLF
<1> HIDE DEF lec
<1>8. /\ s \in Seq(Tokens) /\ Len(s) = Len(lec) + Len(f)
      /\ \A i \in 1..Len(lec) : s[i] = lec[i]
      /\ Len(f) \in Nat
  <2>1. s = lec \o f
    BY <1>4 DEF lec, le
  <2>2. lec \in Seq(Tokens) /\ f \in Seq(Tokens)
    BY <1>3, <1>7
  <2>3. /\ lec \o f \in Seq(Tokens) /\ Len(lec \o f) = Len(lec) + Len(f)
        /\ Len(f) \in Nat
        /\ \A i \in 1..Len(lec) : (lec \o f)[i] = lec[i]
    BY <2>2, Joining
  <2> QED BY <2>1, <2>3
<1>9. m.leading \in Nat /\ Len(l) = 2 * m.leading /\ Len(s) = 2 * m.leading + 3 * Count(m) + 2 + Len(f)
  BY <1>1, <1>2, <1>5, <1>7, <1>8, MessageIs
<1>10. m.leading > 0 => s[1] = CR /\ s[2] = LF
  <2>1. m.leading > 0 => \A i \in 1..2 : i \in 1..Len(l) /\ i \in 1..Len(le) /\ i \in 1..Len(lec)
    <3>1. /\ Len(l) = 2 * m.leading /\ Len(le) = Len(l) + 3 * Count(m)
          /\ Len(lec) = Len(le) + 2 /\ m.leading \in Nat /\ Count(m) \in Nat
      BY <1>2, <1>5, <1>7, <1>9
    <3> DEFINE x == m.leading
               y == Count(m)
    <3>2. /\ Len(l) = 2 * x /\ Len(le) = 2 * x + 3 * y
          /\ Len(lec) = 2 * x + 3 * y + 2 /\ x \in Nat /\ y \in Nat
      BY <3>1
    <3> HIDE DEF x, y
    <3>3. ASSUME x > 0
          PROVE  2 =< 2 * x /\ 2 =< 2 * x + 3 * y /\ 2 =< 2 * x + 3 * y + 2
      BY <3>2, <3>3
    <3>4. ASSUME x > 0, NEW i \in 1..2
          PROVE  i \in 1..Len(l) /\ i \in 1..Len(le) /\ i \in 1..Len(lec)
      BY <3>2, <3>3, <3>4
    <3> QED BY <3>4 DEF x
  <2>2. m.leading > 0 => \A i \in 1..2 : s[i] = l[i]
    BY <1>5, <1>7, <1>8, <2>1
  <2>3. 1 \in 1..2 /\ 2 \in 1..2
    OBVIOUS
  <2> QED BY <1>1, <2>2, <2>3
<1>11. ASSUME m.leading = 0
       PROVE  /\ Len(s) = Behind(m) + Len(f) /\ Reads(s, 0, e)
              /\ Reads(s, 3 * Count(m), CRLF) /\ Reads(s, Behind(m), f)
  <2>1. Reads(s, 0, s) /\ s = lec \o f
    BY <1>4, <1>8, ReadsAll DEF lec, le
  <2>2. Reads(s, 0, lec) /\ Reads(s, 0 + Len(lec), f)
    BY <1>3, <1>7, <1>8, <2>1, ReadsParts
  <2>3. lec = e \o CRLF
    BY <1>6, <1>11 DEF lec
  <2>4. Reads(s, 0, e) /\ Reads(s, 0 + Len(e), CRLF)
    <3>1. Reads(s, 0, e \o CRLF)
      BY <2>2, <2>3
    <3> QED BY <1>2, <1>3, <1>8, <3>1, ReadsParts
  <2>5. 0 + Len(e) = 3 * Count(m) /\ 0 + Len(lec) = Behind(m) /\ Len(s) = Behind(m) + Len(f)
    BY <1>2, <1>6, <1>7, <1>9, <1>11 DEF Behind
  <2> QED BY <2>2, <2>4, <2>5
<1>12. Len(s) >= 1 /\ Len(s) \in Nat
  BY <1>2, <1>8, <1>9
<1> QED BY <1>8, <1>10, <1>11, <1>12 DEF s, e, f

-----------------------------------------------------------------------------
(* WHAT THE PARSER FINDS FROM A POSITION ON                                *)

LEMMA RestIs ==
    ASSUME input \in Seq(Tokens), pos \in Nat, pos =< Len(input)
    PROVE  LET rest == SubSeq(input, pos + 1, Len(input))
           IN  /\ rest \in Seq(Tokens) /\ Len(rest) = Len(input) - pos
               /\ \A i \in 1..(Len(input) - pos) : rest[i] = input[pos + i]
               /\ DOMAIN rest = 1..(Len(input) - pos)
<1> DEFINE rest == SubSeq(input, pos + 1, Len(input))
<1>1. Len(input) \in Nat /\ \A i \in 1..Len(input) : input[i] \in Tokens
  BY LenProperties, ElementOfSeq
<1>2. /\ rest \in Seq(Tokens)
      /\ Len(rest) = IF pos + 1 <= Len(input)
                     THEN Len(input) - (pos + 1) + 1 ELSE 0
      /\ \A i \in 1..Len(input) - (pos + 1) + 1 :
            rest[i] = input[pos + 1 + i - 1]
  <2>1. /\ pos + 1 \in Int /\ Len(input) \in Int
        /\ \A i \in (pos + 1)..Len(input) : input[i] \in Tokens
    BY <1>1
  <2> QED BY <2>1, SubSeqProperties
<1> HIDE DEF rest
<1>3. Len(rest) = Len(input) - pos
  BY <1>1, <1>2
<1>4. ASSUME NEW i \in 1..(Len(input) - pos) PROVE rest[i] = input[pos + i]
  <2>1. i \in 1..Len(input) - (pos + 1) + 1 /\ pos + 1 + i - 1 = pos + i
    BY <1>1
  <2>2. rest[i] = input[pos + 1 + i - 1]
    BY <1>2, <2>1
  <2> QED BY <2>1, <2>2
<1>5. DOMAIN rest = 1..Len(rest)
  BY <1>2, LenProperties
<1> QED BY <1>2, <1>3, <1>4, <1>5 DEF rest

(* A line that ends.                                                       *)
LEMMA LineEnds ==
    ASSUME input \in Seq(Tokens), pos \in Nat, NEW k \in Nat \ {0},
           pos + k =< Len(input), input[pos + k] = LF,
           \A i \in 1..(k - 1) : input[pos + i] # LF
    PROVE  Len(Line) = k - 1 /\ \A i \in 1..(k - 1) : Line[i] = input[pos + i]
<1> DEFINE rest == SubSeq(input, pos + 1, Len(input))
           ends == {i \in DOMAIN rest : rest[i] = LF}
           least == CHOOSE i \in ends : \A j \in ends : i =< j
<1>1. Len(input) \in Nat /\ \A i \in 1..Len(input) : input[i] \in Tokens
  BY LenProperties, ElementOfSeq
<1>2. /\ rest \in Seq(Tokens) /\ Len(rest) = Len(input) - pos
      /\ \A i \in 1..(Len(input) - pos) : rest[i] = input[pos + i]
      /\ DOMAIN rest = 1..(Len(input) - pos)
  <2>1. pos =< Len(input)
    BY <1>1
  <2> QED BY <2>1, RestIs
<1> HIDE DEF rest
<1>3. k \in ends /\ \A j \in ends : k =< j
  BY <1>1, <1>2
<1>4. least = k
  <2>1. \A j \in ends : j \in Nat
    BY <1>2
  <2>2. least \in ends /\ \A j \in ends : least =< j
    BY <1>3
  <2> HIDE DEF ends, least
  <2> QED BY <1>3, <2>1, <2>2
<1>5. Line = SubSeq(rest, 1, k - 1)
  <2>1. ends # {} /\ Line = IF ends = {} THEN rest ELSE SubSeq(rest, 1, least - 1)
    BY <1>3 DEF Line, rest
  <2> HIDE DEF ends, least
  <2> QED BY <1>4, <2>1
<1>6. k - 1 =< Len(rest) /\ \A i \in 1..(k - 1) : rest[i] \in Tokens /\ rest[i] = input[pos + i]
  BY <1>1, <1>2
<1>7. /\ Len(SubSeq(rest, 1, k - 1)) = k - 1
      /\ \A i \in 1..(k - 1) : SubSeq(rest, 1, k - 1)[i] = rest[i]
  <2>1. /\ 1 \in Int /\ k - 1 \in Int /\ (1 <= k - 1 \/ k - 1 = 0)
        /\ (k - 1) - 1 + 1 = k - 1
    OBVIOUS
  <2>2. /\ Len(SubSeq(rest, 1, k - 1)) = IF 1 <= k - 1 THEN (k - 1) - 1 + 1 ELSE 0
        /\ \A i \in 1..(k - 1) - 1 + 1 :
              SubSeq(rest, 1, k - 1)[i] = rest[1 + i - 1]
    BY <1>6, <2>1, SubSeqProperties
  <2> QED BY <2>1, <2>2
<1> QED BY <1>5, <1>6, <1>7

(* A line that breaks off with the input.                                  *)
LEMMA LineBreaksOff ==
    ASSUME input \in Seq(Tokens), pos \in Nat, pos =< Len(input),
           \A i \in 1..(Len(input) - pos) : input[pos + i] # LF
    PROVE  /\ Len(Line) = Len(input) - pos
           /\ \A i \in 1..(Len(input) - pos) : Line[i] = input[pos + i]
           /\ pos = Len(input) => Line = <<>>
<1> DEFINE rest == SubSeq(input, pos + 1, Len(input))
           ends == {i \in DOMAIN rest : rest[i] = LF}
           least == CHOOSE i \in ends : \A j \in ends : i =< j
<1>1. Len(input) \in Nat /\ \A i \in 1..Len(input) : input[i] \in Tokens
  BY LenProperties, ElementOfSeq
<1>2. /\ rest \in Seq(Tokens) /\ Len(rest) = Len(input) - pos
      /\ \A i \in 1..(Len(input) - pos) : rest[i] = input[pos + i]
      /\ DOMAIN rest = 1..(Len(input) - pos)
  <2>1. pos =< Len(input)
    BY <1>1
  <2> QED BY <2>1, RestIs
<1> HIDE DEF rest
<1>3. ends = {}
  BY <1>1, <1>2
<1>4. Line = rest
  <2>1. Line = IF ends = {} THEN rest ELSE SubSeq(rest, 1, least - 1)
    BY DEF Line, rest
  <2> HIDE DEF ends, least
  <2> QED BY <1>3, <2>1
<1>5. pos = Len(input) => rest = <<>>
  BY <1>1, <1>2, EmptySeq
<1> QED BY <1>2, <1>4, <1>5

(* Where the digits end.                                                   *)
LEMMA EndOfDigitsIs ==
    ASSUME pos \in Nat, Len(input) \in Nat, NEW e \in pos..Len(input),
           e = Len(input) \/ input[e + 1].is # "hex",
           \A i \in pos..(e - 1) : input[i + 1].is = "hex"
    PROVE  EndOfDigits = e
<1> DEFINE Ends(n) == /\ n = Len(input) \/ input[n + 1].is # "hex"
                      /\ \A i \in pos..(n - 1) : input[i + 1].is = "hex"
<1>1. ASSUME NEW n \in pos..Len(input), Ends(n) PROVE n = e
  <2>1. ~(n < e)
    <3> SUFFICES ASSUME n < e PROVE FALSE
      OBVIOUS
    <3>1. n \in pos..(e - 1) /\ n # Len(input)
      OBVIOUS
    <3> QED BY <1>1, <3>1
  <2>2. ~(e < n)
    <3> SUFFICES ASSUME e < n PROVE FALSE
      OBVIOUS
    <3>1. e \in pos..(n - 1) /\ e # Len(input)
      OBVIOUS
    <3> QED BY <1>1, <3>1
  <2> QED BY <2>1, <2>2
<1>2. e \in pos..Len(input) /\ Ends(e)
  OBVIOUS
<1>3. EndOfDigits = CHOOSE n \in pos..Len(input) : Ends(n)
  BY DEF EndOfDigits
<1> HIDE DEF Ends
<1> QED BY <1>1, <1>2, <1>3

-----------------------------------------------------------------------------
(* THE INVARIANT                                                           *)

Text == Serialize(message)

(* What has arrived is how the message begins.                             *)
InputInv ==
    /\ message \in Messages
    /\ input \in Seq(Tokens) /\ Len(input) \in 1..Len(Text)
    /\ \A i \in 1..Len(input) : input[i] = Text[i]

LEMMA WholeIs ==
    ASSUME InputInv
    PROVE  /\ Text \in Seq(Tokens) /\ Len(Text) \in Nat /\ Len(input) \in Nat
           /\ Whole <=> Len(input) = Len(Text)
<1>1. /\ Text \in Seq(Tokens) /\ Len(Text) \in Nat /\ input \in Seq(Tokens)
      /\ Len(input) \in 1..Len(Text) /\ \A i \in 1..Len(input) : input[i] = Text[i]
  BY SerializeIs DEF InputInv, Text
<1>2. Len(input) = Len(Text) => input = Text
  BY <1>1, SeqEqual
<1> QED BY <1>1, <1>2 DEF Whole, Text

(* Lines that have arrived so far, k of them.                              *)
KnowsFraming(k) ==
    /\ isChunked = (k > Place(message) /\ message.chunked)
    /\ contentLength = IF k > Place(message) /\ ~message.chunked
                       THEN Len(Body(message)) ELSE -1

(* The i-th of n headers is a parameter, unless a later one replaced it.   *)
Told(i, n) ==
    LET h == Headers(message)[i]
    IN  h.is # "no colon" =>
            /\ h.is \in DOMAIN params
            /\ (\A j \in 1..n : Headers(message)[j].is = h.is => j =< i)
                   => params[h.is] = h.val

KnowsParams(k) ==
    /\ k > 0 => message.first \in DOMAIN params
    /\ "payload" \notin DOMAIN params
    /\ \A i \in 1..(k - 1) : Told(i, k - 1)

AtLine(k) ==
    /\ pos = 3 * k /\ pos =< Len(input)
    /\ headerCount \in Nat /\ (headerCount = 0 <=> k = 0)
    /\ KnowsFraming(k) /\ KnowsParams(k)

(* The input ends within the lines.                                        *)
Broken ==
    /\ Len(input) < Len(Text)
    /\ isChunked \in BOOLEAN /\ contentLength \in Int
    /\ isChunked => message.chunked
    /\ message.chunked => contentLength = -1

InHeaders ==
    /\ payload = <<>>
    /\ \/ \E k \in 0..Count(message) : AtLine(k)
       \/ pos = Len(input) + 1 /\ Broken

InPayload ==
    /\ payload = <<>>
    /\ \/ AtLine(Count(message)) /\ pos < Len(input)
       \/ pos = Len(input) /\ Broken

(* Where the j-th chunk begins, and the body before it; behind the chunks  *)
(* is one place more.                                                      *)
Places == 1..(Len(message.chunks) + 1)

Start(j) == Behind(message) + Len(Upto(TextsOf(message))[j - 1])

Gone(j) == Upto(BodiesOf(message))[j - 1]

AtChunk(j) ==
    /\ pos = Start(j)
    /\ payload = Gone(j) /\ contentLength = Len(payload)
    /\ KnowsParams(Count(message))

InChunks ==
    /\ message.chunked
    /\ \/ \E j \in Places : AtChunk(j)
       \/ pos >= Len(input) /\ Len(input) < Len(Text) /\ payload = <<>>

PayloadIsPrefix ==
    \A i \in DOMAIN payload :
        payload[i] = Garbage \/
            (i =< Len(Body(message)) /\ payload[i] = Body(message)[i])

Received ==
    LET body == Body(message)
    IN  IF message.chunked \/ body = <<>> THEN body
        ELSE [body EXCEPT ![Len(body)] = NUL]

InFinish ==
    /\ message.chunked => PayloadIsPrefix
    /\ Whole => /\ pos =< Len(input) /\ payload = Received
                /\ contentLength = Len(Body(message))
                /\ KnowsParams(Count(message))

IsDone ==
    /\ message.chunked => PayloadIsPrefix
    /\ Whole => /\ pos =< Len(input) /\ payload = Received
                /\ message.first \in DOMAIN params
                /\ "payload" \in DOMAIN params <=> Body(message) # <<>>
                /\ \A i \in 1..Len(Headers(message)) :
                      Told(i, Len(Headers(message)))

PhaseInv ==
    /\ phase \in {"headers", "payload", "chunks", "finish", "done", "thrown",
                  "exited"}
    /\ pos \in Nat
    /\ phase = "headers" => InHeaders
    /\ phase = "payload" => InPayload
    /\ phase = "chunks" => InChunks
    /\ phase = "finish" => InFinish
    /\ phase = "done" => IsDone
    /\ phase = "thrown" => ~Whole
    /\ phase = "exited" => message.first \notin {"request", "response"}

(* An empty line in front of the message is read for ever.                 *)
Stuck == phase = "headers" /\ pos = 0 /\ headerCount = 0 /\ payload = <<>>

HInv == InputInv /\ IF message.leading > 0 THEN Stuck ELSE PhaseInv

-----------------------------------------------------------------------------
(* THE LINES                                                               *)

LEMMA TextAt ==
    ASSUME InputInv, message.leading = 0
    PROVE  /\ Len(Text) >= Behind(message)
           /\ \A k \in 0..(Count(message) - 1) :
                 /\ Text[3 * k + 1] = Lines(message)[k + 1]
                 /\ Text[3 * k + 2] = CR /\ Text[3 * k + 3] = LF
           /\ Text[3 * Count(message) + 1] = CR
           /\ Text[3 * Count(message) + 2] = LF
<1> DEFINE m == message
           n == Count(m)
           e == Ended(Lines(m))
<1>0. m \in Messages
  BY DEF InputInv
<1>1. /\ Len(Text) = Behind(m) + Len(Framed(m)) /\ Text \in Seq(Tokens)
      /\ Reads(Text, 0, e) /\ Reads(Text, 3 * n, CRLF)
  BY <1>0, SerializeIs DEF Text
<1>2. n \in Nat /\ Len(Framed(m)) \in Nat /\ Behind(m) \in Nat
  BY <1>0, CountIs, FramedIs, LenProperties DEF Behind
<1>3. /\ Len(e) = 3 * n
      /\ \A k \in 1..n : e[3 * k - 2] = Lines(m)[k] /\ e[3 * k - 1] = CR
                         /\ e[3 * k] = LF
  BY <1>0, LinesAre, EndedIs DEF Count
<1>4. Text[3 * n + 1] = CR /\ Text[3 * n + 2] = LF
  <2>1. 3 * n \in Nat
    BY <1>2
  <2> QED BY <1>1, <2>1, ReadsCRLF
<1>5. \A i \in 1..3 * n : Text[i] = e[i]
  BY <1>1, <1>2, <1>3 DEF Reads
<1> HIDE DEF n, e
<1>6. ASSUME NEW k \in 0..(n - 1)
      PROVE  /\ Text[3 * k + 1] = Lines(m)[k + 1]
             /\ Text[3 * k + 2] = CR /\ Text[3 * k + 3] = LF
  <2>1. /\ k + 1 \in 1..n /\ 3 * (k + 1) - 2 = 3 * k + 1
        /\ 3 * (k + 1) - 1 = 3 * k + 2 /\ 3 * (k + 1) = 3 * k + 3
        /\ 3 * k + 1 \in 1..3 * n /\ 3 * k + 2 \in 1..3 * n
        /\ 3 * k + 3 \in 1..3 * n
    BY <1>2
  <2>2. /\ e[3 * (k + 1) - 2] = Lines(m)[k + 1] /\ e[3 * (k + 1) - 1] = CR
        /\ e[3 * (k + 1)] = LF
    BY <1>3, <2>1
  <2> QED BY <1>5, <2>1, <2>2
<1> QED BY <1>1, <1>2, <1>4, <1>6 DEF n

(* The line the parser finds at the beginning of a line.                   *)
LEMMA LineAt ==
    ASSUME InputInv, message.leading = 0, NEW k \in 0..(Count(message) - 1),
           pos = 3 * k, pos =< Len(input)
    PROVE  /\ pos < Len(input) => HasText /\ Line[1] = Lines(message)[k + 1]
           /\ pos + 3 =< Len(input) => Len(Line) = 2
           /\ Len(input) < pos + 3 => Len(Line) = Len(input) - pos
           /\ pos = Len(input) => ~HasText /\ Line = <<>>
<1> DEFINE N == Len(input)
           x == Lines(message)[k + 1]
<1>1. /\ N \in Nat /\ input \in Seq(Tokens) /\ pos \in Nat /\ k \in Nat
      /\ Count(message) \in Nat
  BY WholeIs, CountIs DEF InputInv
<1>2. x # CR /\ x # LF
  <2>1. k + 1 \in 1..Count(message)
    BY <1>1
  <2>2. x.is \notin {"cr", "lf"}
    BY <2>1, LinesAre DEF Count, InputInv
  <2> QED BY <2>2, SomeTokens
<1>3. /\ pos + 1 =< N => input[pos + 1] = x
      /\ pos + 2 =< N => input[pos + 2] = CR
      /\ pos + 3 =< N => input[pos + 3] = LF
  <2>1. \A i \in 1..N : input[i] = Text[i]
    BY DEF InputInv
  <2>2. Text[pos + 1] = x /\ Text[pos + 2] = CR /\ Text[pos + 3] = LF
    BY TextAt
  <2> HIDE DEF x
  <2> QED BY <1>1, <2>1, <2>2
<1> HIDE DEF x
<1>4. CASE pos + 3 =< N
  <2>1. \A i \in 1..2 : input[pos + i] # LF
    <3>1. input[pos + 1] # LF /\ input[pos + 2] # LF
      BY <1>1, <1>2, <1>3, <1>4, SomeTokens
    <3>2. \A i \in 1..2 : i = 1 \/ i = 2
      OBVIOUS
    <3> QED BY <3>1, <3>2
  <2>2. Len(Line) = 2 /\ \A i \in 1..2 : Line[i] = input[pos + i]
    <3>1. 3 \in Nat \ {0} /\ 3 - 1 = 2
      OBVIOUS
    <3>2. Len(Line) = 3 - 1 /\ \A i \in 1..(3 - 1) : Line[i] = input[pos + i]
      BY <1>1, <1>3, <1>4, <2>1, <3>1, LineEnds
    <3> QED BY <3>2
  <2>3. Line[1] = x /\ Line # <<>>
    <3>1. Line[1] = input[pos + 1] /\ input[pos + 1] = x
      BY <1>1, <1>3, <1>4, <2>2
    <3>2. Len(Line) = 2 /\ Len(<<>>) = 0
      BY <2>2
    <3>3. 2 # 0
      OBVIOUS
    <3>4. Line # <<>>
      BY <3>2, <3>3, Zenon
    <3> QED BY <3>1, <3>4
  <2> QED BY <1>1, <1>2, <1>4, <2>2, <2>3 DEF HasText, x
<1>5. CASE N < pos + 3
  <2>1. ASSUME NEW i \in 1..(N - pos) PROVE input[pos + i] # LF
    <3>1. i = 1 \/ i = 2
      BY <1>1, <1>5
    <3>2. pos + i =< N
      BY <1>1
    <3> QED BY <1>1, <1>2, <1>3, <3>1, <3>2, SomeTokens
  <2>2. /\ Len(Line) = N - pos
        /\ \A i \in 1..(N - pos) : Line[i] = input[pos + i]
        /\ pos = N => Line = <<>>
    BY <1>1, <2>1, LineBreaksOff
  <2>3. pos < N => Line[1] = x /\ Line # <<>>
    BY <1>1, <1>3, <2>2
  <2> QED BY <1>1, <1>2, <1>5, <2>2, <2>3 DEF HasText, x
<1> QED BY <1>1, <1>4, <1>5

(* A line that begins with CR is empty.                                    *)
LEMMA EmptyLineAt ==
    ASSUME InputInv, pos \in Nat, pos < Len(input), input[pos + 1] = CR,
           pos + 2 =< Len(input) => input[pos + 2] = LF
    PROVE  ~HasText /\ Line # <<>>
<1>1. Len(input) \in Nat /\ input \in Seq(Tokens)
  BY WholeIs DEF InputInv
<1>2. CASE pos + 2 =< Len(input)
  <2>1. \A i \in 1..(2 - 1) : input[pos + i] # LF
    BY <1>1, SomeTokens
  <2>2. Len(Line) = 2 - 1 /\ \A i \in 1..(2 - 1) : Line[i] = input[pos + i]
    <3>1. 2 \in Nat \ {0}
      OBVIOUS
    <3> QED BY <1>1, <1>2, <2>1, <3>1, LineEnds
  <2> QED BY <2>2 DEF HasText
<1>3. CASE Len(input) = pos + 1
  <2>1. \A i \in 1..(Len(input) - pos) : input[pos + i] # LF
    BY <1>1, <1>3, SomeTokens
  <2>2. /\ Len(Line) = Len(input) - pos
        /\ \A i \in 1..(Len(input) - pos) : Line[i] = input[pos + i]
    BY <1>1, <2>1, LineBreaksOff
  <2> QED BY <1>1, <1>3, <2>2 DEF HasText
<1> QED BY <1>1, <1>2, <1>3

(* The parser never looks behind the empty line.                           *)
LEMMA EndAt ==
    ASSUME InputInv, message.leading = 0, pos = 3 * Count(message),
           pos =< Len(input)
    PROVE  ~HasText /\ (pos < Len(input) => Line # <<>>)
<1>1. /\ Len(input) \in Nat /\ input \in Seq(Tokens) /\ pos \in Nat
      /\ \A i \in 1..Len(input) : input[i] = Text[i]
  BY WholeIs, CountIs DEF InputInv
<1>2. Text[pos + 1] = CR /\ Text[pos + 2] = LF
  BY TextAt
<1>3. CASE pos < Len(input)
  <2>1. input[pos + 1] = CR /\ (pos + 2 =< Len(input) => input[pos + 2] = LF)
    BY <1>1, <1>2, <1>3
  <2> QED BY <1>1, <1>3, <2>1, EmptyLineAt
<1>4. CASE pos = Len(input)
  <2>1. \A i \in 1..(Len(input) - pos) : input[pos + i] # LF
    BY <1>1, <1>4
  <2>2. Line = <<>>
    BY <1>1, <1>4, <2>1, LineBreaksOff
  <2> QED BY <1>4, <2>2 DEF HasText
<1> QED BY <1>1, <1>3, <1>4

LEMMA FramingIsKnown ==
    ASSUME InputInv, NEW k \in Nat, KnowsFraming(k)
    PROVE  /\ isChunked \in BOOLEAN /\ contentLength \in Int
           /\ isChunked => message.chunked
           /\ message.chunked => contentLength = -1
<1>1. Len(Body(message)) \in Nat /\ message.chunked \in BOOLEAN /\ Place(message) \in Nat
  BY BodyIs, MessageIs, HeadersAre DEF InputInv
<1> QED BY <1>1 DEF KnowsFraming

LEMMA InitHolds == Init => HInv
<1> SUFFICES ASSUME Init PROVE HInv
  OBVIOUS
<1>1. message \in Messages /\ Text \in Seq(Tokens) /\ Len(Text) \in Nat
  BY SerializeIs DEF Init, Text
<1>2. InputInv
  <2>1. PICK n \in 1..Len(Text) : input = SubSeq(Text, 1, n)
    BY DEF Init, Text
  <2>2. \A i \in 1..n : Text[i] \in Tokens
    BY <1>1, ElementOfSeq
  <2>3. /\ SubSeq(Text, 1, n) \in Seq(Tokens) /\ Len(SubSeq(Text, 1, n)) = n
        /\ \A i \in 1..n : SubSeq(Text, 1, n)[i] = Text[i]
    <3>1. /\ SubSeq(Text, 1, n) \in Seq(Tokens)
          /\ Len(SubSeq(Text, 1, n)) = IF 1 <= n THEN n - 1 + 1 ELSE 0
          /\ \A i \in 1..n - 1 + 1 : SubSeq(Text, 1, n)[i] = Text[1 + i - 1]
      BY <2>2, SubSeqProperties
    <3> QED BY <1>1, <3>1
  <2> QED BY <1>1, <2>1, <2>3 DEF InputInv
<1>3. message.leading > 0 => Stuck
  BY DEF Init, Stuck
<1>4. ASSUME ~(message.leading > 0) PROVE PhaseInv
  <2>1. Count(message) \in Nat /\ Place(message) \in Nat /\ Len(input) \in Nat
    BY <1>1, <1>2, CountIs, HeadersAre, WholeIs
  <2>2. AtLine(0)
    <3>1. KnowsFraming(0)
      <4>1. ~(0 > Place(message)) /\ isChunked = FALSE /\ contentLength = -1
        BY <2>1 DEF Init
      <4> QED BY <4>1, Zenon DEF KnowsFraming
    <3>2. KnowsParams(0)
      BY DEF Init, KnowsParams
    <3> QED BY <2>1, <3>1, <3>2 DEF Init, AtLine
  <2>3. InHeaders /\ phase = "headers" /\ pos \in Nat
    BY <2>1, <2>2 DEF Init, InHeaders
  <2> QED BY <2>3 DEF PhaseInv
<1> QED BY <1>2, <1>3, <1>4 DEF HInv

(* Only an empty line is found in front of the message, and it is read     *)
(* again.                                                                  *)
LEMMA StuckStays ==
    ASSUME InputInv, message.leading > 0, Stuck, Next
    PROVE  Stuck'
<1>1. ~HasText /\ Line # <<>>
  <2>1. Len(input) \in Nat /\ Len(input) >= 1
    BY WholeIs DEF InputInv
  <2>2. Text[1] = CR /\ Text[2] = LF
    BY SerializeIs DEF InputInv, Text
  <2>3. pos = 0 /\ input[pos + 1] = CR /\ (pos + 2 =< Len(input) => input[pos + 2] = LF)
    BY <2>1, <2>2 DEF Stuck, InputInv
  <2> QED BY <2>1, <2>3, EmptyLineAt
<1>2. EmptyLine
  <2>1. Len(input) \in Nat /\ phase = "headers" /\ pos = 0
    BY WholeIs DEF Stuck
  <2>2. ~LineBeyondEnd
    BY <2>1 DEF LineBeyondEnd, Throw
  <2>3. ~FirstLine /\ ~Header
    BY <1>1 DEF FirstLine, Header
  <2>4. ~StartChunks /\ ~SizeBeyondEnd /\ ~BodyBeyondEnd /\ ~NoBody /\ ~Finish
    BY <2>1 DEF StartChunks, SizeBeyondEnd, BodyBeyondEnd, NoBody, Finish
  <2>5. ~ReadChunk /\ ~ReadBody
    BY <2>1 DEF ReadChunk, ChunkStep, ReadBody, BodyStep
  <2> QED BY <2>2, <2>3, <2>4, <2>5 DEF Next
<1> QED BY <1>1, <1>2 DEF EmptyLine, Stuck, scan, result

LEMMA LineBeyondEndR ==
    ASSUME InputInv, message.leading = 0, PhaseInv, LineBeyondEnd
    PROVE  PhaseInv'
<1>1. phase = "headers" /\ pos > Len(input) /\ InHeaders
  BY DEF LineBeyondEnd, Throw, PhaseInv
<1>2. Len(input) < Len(Text)
  <2>1. Len(input) \in Nat /\ pos \in Nat
    BY WholeIs DEF PhaseInv
  <2>2. \A k \in 0..Count(message) : ~AtLine(k)
    BY <1>1, <2>1 DEF AtLine
  <2> QED BY <1>1, <2>2 DEF InHeaders, Broken
<1>3. ~Whole
  BY <1>2, WholeIs
<1>4. /\ ~Whole' /\ phase' = "thrown" /\ pos' \in Nat
  BY <1>1, <1>3 DEF LineBeyondEnd, Throw, Whole, string, scan, PhaseInv
<1> QED BY <1>4 DEF PhaseInv

LEMMA EmptyLineR ==
    ASSUME InputInv, message.leading = 0, PhaseInv, EmptyLine
    PROVE  PhaseInv'
<1>1. /\ phase = "headers" /\ pos =< Len(input) /\ ~HasText /\ InHeaders
      /\ pos \in Nat /\ payload = <<>>
  BY DEF EmptyLine, InLoop, PhaseInv, InHeaders
<1>2. /\ Len(input) \in Nat /\ Len(Text) \in Nat /\ Count(message) \in Nat
      /\ Count(message) >= 2 /\ Len(Text) >= 3 * Count(message) + 2
  BY WholeIs, CountIs, TextAt DEF InputInv, Behind
<1>3. PICK k \in 0..Count(message) : AtLine(k)
  <2>1. ~(pos = Len(input) + 1)
    BY <1>1, <1>2
  <2> QED BY <1>1, <2>1 DEF InHeaders
<1>4. pos = 3 * k /\ headerCount \in Nat /\ (headerCount = 0 <=> k = 0)
  BY <1>3 DEF AtLine
<1>5. /\ phase' = "payload"
      /\ \/ AtLine(Count(message)) /\ pos < Len(input)
         \/ pos = Len(input) /\ Len(input) < Len(Text)
  <2>1. CASE k < Count(message)
    <3>1. k \in 0..(Count(message) - 1)
      BY <1>2, <2>1
    <3>2. pos = Len(input) /\ Line = <<>>
      BY <1>1, <1>2, <1>4, <3>1, LineAt
    <3>3. Len(input) < Len(Text)
      BY <1>2, <1>4, <3>1, <3>2
    <3> QED BY <3>2, <3>3 DEF EmptyLine
  <2>2. CASE k = Count(message)
    <3>1. headerCount # 0
      BY <1>2, <1>4, <2>2
    <3>2. pos = Len(input) => Len(input) < Len(Text)
      BY <1>2, <1>4, <2>2
    <3> QED BY <1>1, <1>2, <1>3, <2>2, <3>1, <3>2 DEF EmptyLine
  <2> QED BY <1>2, <2>1, <2>2
<1>6. Len(input) < Len(Text) => Broken
  <2>1. k \in Nat /\ KnowsFraming(k)
    BY <1>3 DEF AtLine
  <2> QED BY <2>1, FramingIsKnown DEF Broken
<1>7. InPayload
  BY <1>1, <1>5, <1>6 DEF InPayload
<1>8. UNCHANGED <<message, input, scan, payload, params>>
  BY DEF EmptyLine, string, result
<1>9. InPayload'
  BY <1>7, <1>8 DEF InPayload, AtLine, KnowsFraming, KnowsParams, Told, Broken,
     Text, scan
<1> QED BY <1>1, <1>5, <1>8, <1>9 DEF PhaseInv, scan

(* Behind a line there is the next one, or the input has ended.            *)
LEMMA AfterLine ==
    ASSUME InputInv, message.leading = 0, NEW k \in 0..(Count(message) - 1),
           pos = 3 * k, pos < Len(input)
    PROVE  LET p == pos + Len(Line) + 1
           IN  \/ p = 3 * (k + 1) /\ p =< Len(input)
               \/ p = Len(input) + 1 /\ Len(input) < Len(Text)
<1>1. /\ Len(input) \in Nat /\ Count(message) \in Nat /\ k \in Nat
      /\ Len(Text) >= 3 * Count(message) + 2
  BY WholeIs, CountIs, TextAt DEF InputInv, Behind
<1>2. pos =< Len(input)
  BY <1>1
<1>3. CASE pos + 3 =< Len(input)
  <2>1. Len(Line) = 2
    BY <1>2, <1>3, LineAt
  <2> QED BY <1>1, <1>3, <2>1
<1>4. CASE Len(input) < pos + 3
  <2>1. Len(Line) = Len(input) - pos
    BY <1>2, <1>4, LineAt
  <2>2. Len(input) < Len(Text)
    BY <1>1, <1>4
  <2> QED BY <1>1, <2>1, <2>2
<1> QED BY <1>1, <1>3, <1>4

LEMMA FirstLineR ==
    ASSUME InputInv, message.leading = 0, PhaseInv, FirstLine
    PROVE  PhaseInv'
<1> DEFINE m == message
<1>1. /\ phase = "headers" /\ pos =< Len(input) /\ HasText /\ InHeaders
      /\ headerCount = 0 /\ payload = <<>> /\ pos \in Nat
  BY DEF FirstLine, InLoop, PhaseInv, InHeaders
<1>2. /\ Len(input) \in Nat /\ Len(input) >= 1 /\ Count(m) \in Nat /\ Count(m) >= 2
      /\ Place(m) \in Nat /\ Place(m) >= 1
      /\ m.first \notin {"payload", "cr", "lf"}
  <2>1. Len(input) \in Nat /\ Len(input) >= 1 /\ m \in Messages
    BY WholeIs DEF InputInv
  <2> QED BY <2>1, CountIs, HeadersAre, MessageIs
<1>3. PICK k \in 0..Count(m) : AtLine(k)
  <2>1. ~(pos = Len(input) + 1)
    BY <1>1, <1>2
  <2> QED BY <1>1, <2>1 DEF InHeaders
<1>4. k = 0 /\ pos = 0 /\ KnowsFraming(0) /\ KnowsParams(0)
  <2>1. k = 0
    BY <1>1, <1>3 DEF AtLine
  <2> QED BY <1>3, <2>1 DEF AtLine
<1>5. /\ Line[1] = Token(m.first, 0)
      /\ LET p == pos + Len(Line) + 1
         IN  \/ p = 3 /\ p =< Len(input)
             \/ p = Len(input) + 1 /\ Len(input) < Len(Text)
  <2>1. 0 \in 0..(Count(m) - 1) /\ pos = 3 * 0 /\ pos < Len(input)
    BY <1>2, <1>4
  <2>2. Line[1] = Lines(m)[0 + 1]
    BY <1>1, <2>1, LineAt
  <2>3. Lines(m)[1] = Token(m.first, 0)
    BY LinesAre DEF InputInv
  <2>4. LET p == pos + Len(Line) + 1
        IN  \/ p = 3 * (0 + 1) /\ p =< Len(input)
            \/ p = Len(input) + 1 /\ Len(input) < Len(Text)
    BY <2>1, AfterLine
  <2> QED BY <2>2, <2>3, <2>4
<1>6. Line[1].is = m.first
  BY <1>5 DEF Token
<1>7. /\ pos' = pos + Len(Line) + 1 /\ headerCount' = 1
      /\ UNCHANGED <<message, input, contentLength, isChunked, payload>>
  BY DEF FirstLine, string
<1>8. pos' \in Nat
  BY <1>2, <1>5, <1>7
<1>9. CASE Line[1].is \notin {"request", "response"}
  <2>1. phase' = "exited"
    BY <1>9 DEF FirstLine
  <2> QED BY <1>6, <1>7, <1>8, <1>9, <2>1 DEF PhaseInv
<1>10. CASE Line[1].is \in {"request", "response"}
  <2>1. phase' = "headers" /\ Add(m.first, 0)
    BY <1>1, <1>6, <1>10 DEF FirstLine
  <2>2. KnowsFraming(1)'
    <3>1. ~(0 > Place(m)) /\ ~(1 > Place(m))
      BY <1>2
    <3>2. isChunked = FALSE /\ contentLength = -1
      BY <1>4, <3>1 DEF KnowsFraming
    <3>3. isChunked' = FALSE /\ contentLength' = -1 /\ ~(1 > Place(message'))
      BY <1>7, <3>1, <3>2
    <3> QED BY <3>3, Zenon DEF KnowsFraming
  <2>3. KnowsParams(1)'
    <3>1. DOMAIN params' = DOMAIN params \cup {m.first}
      BY <2>1 DEF Add
    <3>2. "payload" \notin DOMAIN params
      BY <1>4 DEF KnowsParams
    <3>3. message'.first \in DOMAIN params' /\ "payload" \notin DOMAIN params'
      BY <1>2, <1>7, <3>1, <3>2
    <3>4. 1..(1 - 1) = {}
      OBVIOUS
    <3> QED BY <3>3, <3>4 DEF KnowsParams
  <2>4. CASE pos' = 3 /\ pos' =< Len(input)
    <3>1. AtLine(1)'
      BY <1>7, <2>2, <2>3, <2>4 DEF AtLine
    <3>2. 1 \in 0..Count(message')
      BY <1>2, <1>7
    <3>3. InHeaders'
      BY <1>1, <1>7, <3>1, <3>2 DEF InHeaders
    <3> QED BY <1>8, <2>1, <3>3 DEF PhaseInv
  <2>5. CASE pos' = Len(input) + 1 /\ Len(input) < Len(Text)
    <3>1. Broken'
      <4>1. KnowsFraming(0)
        BY <1>4
      <4>2. /\ isChunked \in BOOLEAN /\ contentLength \in Int
            /\ isChunked => m.chunked
            /\ m.chunked => contentLength = -1
        <5>1. 0 \in Nat
          OBVIOUS
        <5> QED BY <4>1, <5>1, FramingIsKnown
      <4> QED BY <1>7, <2>5, <4>2 DEF Broken, Text
    <3>2. InHeaders'
      BY <1>1, <1>7, <2>5, <3>1 DEF InHeaders
    <3> QED BY <1>8, <2>1, <3>2 DEF PhaseInv
  <2> QED BY <1>5, <1>7, <2>4, <2>5
<1> QED BY <1>9, <1>10

(* What header x changes.                                                  *)
Tells(x) ==
    /\ contentLength' = IF x.is = "length" THEN x.val ELSE contentLength
    /\ isChunked' = (isChunked \/ x.is = "chunked")
    /\ x.is = "no colon" => params' = params
    /\ x.is # "no colon" => Add(x.is, x.val)

(* What a header adds to what is known.                                    *)
LEMMA HeaderTells ==
    ASSUME InputInv, NEW k \in Nat, k \in 1..Len(Headers(message)),
           KnowsFraming(k), KnowsParams(k),
           UNCHANGED message,
           NEW x, x = Headers(message)[k],
           Tells(x)
    PROVE  KnowsFraming(k + 1)' /\ KnowsParams(k + 1)'
<1> DEFINE m == message
           P == Place(m)
<1>1. /\ P \in Nat /\ k \in Nat /\ Len(Headers(m)) \in Nat
      /\ m.chunked \in BOOLEAN
      /\ Headers(m)[P] = Framing(m)
      /\ x.is \notin {"payload", "cr", "lf"}
      /\ k # P => x.is \notin {"length", "chunked"}
  <2>1. m \in Messages
    BY DEF InputInv
  <2>2. m.chunked \in BOOLEAN
    BY <2>1, MessageIs
  <2>3. /\ Place(m) \in 1..Len(Headers(m)) /\ Len(Headers(m)) \in Nat
        /\ Headers(m)[Place(m)] = Framing(m)
        /\ Headers(m)[k].is \notin {"payload", "cr", "lf"}
        /\ k # Place(m) => Headers(m)[k].is \notin {"length", "chunked"}
    BY <2>1, HeadersAre
  <2>4. k \in Nat /\ P \in Nat
    BY <2>3
  <2> QED BY <2>2, <2>3, <2>4
<1>2. /\ isChunked' = (k + 1 > P /\ m.chunked)
      /\ contentLength' = IF k + 1 > P /\ ~m.chunked THEN Len(Body(m)) ELSE -1
  <2>1. /\ isChunked = (k > P /\ m.chunked)
        /\ contentLength = IF k > P /\ ~m.chunked THEN Len(Body(m)) ELSE -1
    BY DEF KnowsFraming
  <2>0. /\ contentLength' = IF x.is = "length" THEN x.val ELSE contentLength
        /\ isChunked' = (isChunked \/ x.is = "chunked")
    BY DEF Tells
  <2> HIDE DEF P, m
  <2>2. CASE k = P
    <3>1. x = Framing(m) /\ ~(k > P) /\ k + 1 > P
      BY <1>1, <2>2 DEF m
    <3>2. CASE m.chunked
      <4>1. x.is = "chunked"
        BY <3>1, <3>2 DEF Framing, Token
      <4>2. isChunked' = TRUE
        BY <2>0, <4>1
      <4>3. contentLength' = -1
        BY <2>0, <2>1, <3>1, <4>1
      <4> QED BY <3>1, <3>2, <4>2, <4>3, Zenon
    <3>3. CASE ~m.chunked
      <4>1. x.is = "length" /\ x.val = Len(Body(m))
        BY <3>1, <3>3 DEF Framing, Token
      <4>2. isChunked' = FALSE
        BY <2>0, <2>1, <3>3, <4>1
      <4>3. contentLength' = Len(Body(m))
        BY <2>0, <4>1
      <4> QED BY <3>1, <3>3, <4>2, <4>3, Zenon
    <3> QED BY <3>2, <3>3
  <2>3. CASE k # P
    <3>1. isChunked' = (k > P /\ m.chunked) /\ contentLength' = contentLength
      BY <1>1, <2>0, <2>1, <2>3
    <3>2. k + 1 > P <=> k > P
      BY <1>1, <2>3
    <3> QED BY <2>1, <3>1, <3>2, Zenon
  <2> QED BY <2>2, <2>3
<1>3. KnowsFraming(k + 1)'
  BY <1>2 DEF KnowsFraming
<1>4. /\ m.first \in DOMAIN params /\ "payload" \notin DOMAIN params
      /\ \A i \in 1..(k - 1) : Told(i, k - 1)
  BY <1>1 DEF KnowsParams
<1>5. CASE x.is = "no colon"
  <2>1. params' = params
    BY <1>5 DEF Tells
  <2>2. ASSUME NEW i \in 1..k PROVE Told(i, k)'
    <3>1. CASE i = k
      <4>1. Headers(message')[i].is = "no colon"
        BY <1>5, <3>1
      <4> QED BY <4>1 DEF Told
    <3>2. CASE i # k
      <4>1. Told(i, k - 1)
        BY <1>1, <1>4, <3>2
      <4>2. \A j \in 1..(k - 1) : j \in 1..k
        BY <1>1
      <4> QED BY <2>1, <4>1, <4>2 DEF Told
    <3> QED BY <3>1, <3>2
  <2>3. k + 1 - 1 = k /\ k + 1 > 0
    BY <1>1
  <2>4. message'.first \in DOMAIN params' /\ "payload" \notin DOMAIN params'
    BY <1>4, <2>1
  <2> QED BY <1>3, <2>2, <2>3, <2>4 DEF KnowsParams
<1>6. CASE x.is # "no colon"
  <2>1. params' = [n \in DOMAIN params \cup {x.is} |->
                      IF n = x.is THEN x.val ELSE params[n]]
    BY <1>6 DEF Tells, Add
  <2>2. ASSUME NEW i \in 1..k PROVE Told(i, k)'
    <3> DEFINE h == Headers(m)[i]
    <3>1. h = Headers(message')[i] /\ \A j \in 1..k : Headers(message')[j] = Headers(m)[j]
      OBVIOUS
    <3>2. CASE i = k
      <4>1. h = x /\ h.is \in DOMAIN params' /\ params'[h.is] = h.val
        BY <2>1, <3>2
      <4> QED BY <3>1, <4>1 DEF Told
    <3>3. CASE i # k /\ h.is = x.is
      <4>1. h.is \in DOMAIN params'
        BY <2>1, <3>3
      <4>2. k \in 1..k /\ Headers(m)[k].is = h.is /\ ~(k =< i)
        BY <1>1, <3>3
      <4> QED BY <3>1, <4>1, <4>2 DEF Told
    <3>4. CASE i # k /\ h.is # x.is
      <4>1. Told(i, k - 1)
        BY <1>1, <1>4, <3>4
      <4>2. \A j \in 1..(k - 1) : j \in 1..k
        BY <1>1
      <4>3. h.is \in DOMAIN params =>
                h.is \in DOMAIN params' /\ params'[h.is] = params[h.is]
        BY <2>1, <3>4
      <4> QED BY <3>1, <4>1, <4>2, <4>3 DEF Told
    <3> QED BY <3>2, <3>3, <3>4
  <2>3. k + 1 - 1 = k /\ k + 1 > 0
    BY <1>1
  <2>4. message'.first \in DOMAIN params' /\ "payload" \notin DOMAIN params'
    BY <1>1, <1>4, <2>1
  <2> QED BY <1>3, <2>2, <2>3, <2>4 DEF KnowsParams
<1> QED BY <1>5, <1>6

LEMMA HeaderR ==
    ASSUME InputInv, message.leading = 0, PhaseInv, Header
    PROVE  PhaseInv'
<1> DEFINE m == message
<1>1. /\ phase = "headers" /\ pos =< Len(input) /\ HasText /\ InHeaders
      /\ headerCount > 0 /\ payload = <<>> /\ pos \in Nat
  BY DEF Header, InLoop, PhaseInv, InHeaders
<1>2. /\ Len(input) \in Nat /\ Count(m) \in Nat /\ Count(m) = Len(Headers(m)) + 1
      /\ m \in Messages
  BY WholeIs, CountIs DEF InputInv
<1>3. PICK k \in 0..Count(m) : AtLine(k)
  <2>1. ~(pos = Len(input) + 1)
    BY <1>1, <1>2
  <2> QED BY <1>1, <2>1 DEF InHeaders
<1>4. /\ pos = 3 * k /\ headerCount \in Nat /\ k # 0
      /\ KnowsFraming(k) /\ KnowsParams(k)
  BY <1>1, <1>3 DEF AtLine
<1>5. k # Count(m)
  BY <1>1, <1>4, EndAt
<1>6. k \in 1..Len(Headers(m)) /\ k \in 0..(Count(m) - 1)
  BY <1>2, <1>4, <1>5
<1> DEFINE x == Headers(m)[k]
<1>7. pos < Len(input) /\ Line[1] = x
  <2>1. pos < Len(input)
    BY <1>1, <1>2, <1>4, <1>6, LineAt
  <2>2. Line[1] = Lines(m)[k + 1]
    BY <1>1, <1>4, <1>6, <2>1, LineAt
  <2> QED BY <1>2, <1>6, <2>1, <2>2, LinesAre
<1>8. /\ pos' = pos + Len(Line) + 1
      /\ UNCHANGED <<message, input, phase, payload>>
      /\ Tells(x)
      /\ headerCount' \in {headerCount, headerCount + 1}
  BY <1>7 DEF Header, Tells, string
<1> HIDE DEF x
<1>9. KnowsFraming(k + 1)' /\ KnowsParams(k + 1)'
  <2>1. UNCHANGED message /\ x = Headers(message)[k] /\ k \in Nat
    BY <1>6, <1>8 DEF x
  <2> QED BY <1>4, <1>6, <1>8, <2>1, HeaderTells
<1>10. headerCount' \in Nat /\ headerCount' # 0
  <2>1. headerCount' \in {headerCount, headerCount + 1}
    BY <1>8
  <2> QED BY <1>1, <1>4, <2>1
<1>11. \/ pos' = 3 * (k + 1) /\ pos' =< Len(input)
       \/ pos' = Len(input) + 1 /\ Len(input) < Len(Text)
  BY <1>4, <1>6, <1>7, <1>8, AfterLine
<1>12. CASE pos' = 3 * (k + 1) /\ pos' =< Len(input)
  <2>1. k + 1 # 0 /\ k + 1 \in 0..Count(message') /\ pos' \in Nat
    <3>1. message' = message
      BY <1>8
    <3>2. k \in Nat /\ k + 1 =< Count(m)
      BY <1>2, <1>6
    <3> QED BY <1>2, <1>12, <3>1, <3>2
  <2>2. AtLine(k + 1)'
    BY <1>8, <1>9, <1>10, <1>12, <2>1 DEF AtLine
  <2>3. InHeaders'
    BY <1>1, <1>8, <2>1, <2>2 DEF InHeaders
  <2> QED BY <1>1, <1>8, <2>1, <2>3 DEF PhaseInv
<1>13. CASE pos' = Len(input) + 1 /\ Len(input) < Len(Text)
  <2>1. Broken'
    <3>1. /\ isChunked' \in BOOLEAN /\ contentLength' \in Int
          /\ isChunked' => m.chunked
          /\ m.chunked => contentLength' = -1
      <4>1. Len(Body(m)) \in Nat /\ m.chunked \in BOOLEAN
        BY <1>2, BodyIs, MessageIs
      <4>2. /\ isChunked' = (k + 1 > Place(m) /\ m.chunked)
            /\ contentLength' = IF k + 1 > Place(m) /\ ~m.chunked
                                THEN Len(Body(m)) ELSE -1
        BY <1>8, <1>9 DEF KnowsFraming
      <4>3. isChunked' \in BOOLEAN /\ (isChunked' => m.chunked)
        BY <4>1, <4>2, Zenon
      <4> QED BY <4>1, <4>2, <4>3
    <3> QED BY <1>8, <1>13, <3>1 DEF Broken, Text
  <2>2. InHeaders' /\ pos' \in Nat
    <3>1. payload' = <<>> /\ input' = input
      BY <1>1, <1>8
    <3>2. pos' \in Nat
      BY <1>2, <1>13
    <3> QED BY <1>13, <2>1, <3>1, <3>2 DEF InHeaders
  <2> QED BY <1>1, <1>8, <2>2 DEF PhaseInv
<1> QED BY <1>11, <1>12, <1>13

-----------------------------------------------------------------------------
(* THE CHUNKS                                                              *)

LEMMA GoneIs ==
    ASSUME InputInv, NEW j \in Places
    PROVE  /\ Gone(j) \in Seq(Tokens) /\ Len(Gone(j)) \in Nat
           /\ Len(Gone(j)) =< Len(Body(message))
           /\ \A i \in 1..Len(Gone(j)) :
                 Gone(j)[i] = Body(message)[i] /\ Gone(j)[i] # Garbage
<1> DEFINE b == Body(message)
           bs == BodiesOf(message)
           n == Len(message.chunks)
<1>1. message \in Messages
  BY DEF InputInv
<1>2. /\ b \in Seq(Tokens) /\ Len(b) \in Nat
      /\ \A i \in 1..Len(b) : b[i] # Garbage
      /\ bs \in Seq(Seq(Tokens)) /\ Len(bs) = n /\ b = S!FlattenSeq(bs)
  BY <1>1, BodyIs
<1>3. n \in Nat /\ j - 1 \in 0..n
  BY <1>1, ChunksAre DEF Places
<1> HIDE DEF b, bs, n
<1>4. Reads(b, 0, Upto(bs)[j - 1])
  <2>1. Reads(b, 0, S!FlattenSeq(bs)) /\ 0 \in Nat
    BY <1>2, ReadsAll
  <2> QED BY <1>2, <1>3, <2>1, ReadsUpto
<1> DEFINE g == Upto(bs)[j - 1]
<1>5. g \in Seq(Tokens)
  BY <1>2, <1>3, UptoIs
<1> HIDE DEF g
<1>6. Len(g) \in Nat /\ Reads(b, 0, g)
  BY <1>4, <1>5, LenProperties DEF g
<1>7. Len(g) =< Len(b) /\ \A i \in 1..Len(g) : b[i] = g[i] /\ i \in 1..Len(b)
  <2>1. 0 + Len(g) =< Len(b) /\ \A i \in 1..Len(g) : b[0 + i] = g[i]
    BY <1>6 DEF Reads
  <2>2. \A i \in 1..Len(g) : 0 + i = i
    OBVIOUS
  <2> QED BY <1>2, <1>6, <2>1, <2>2
<1>8. g = Gone(j)
  BY DEF g, bs, Gone
<1> QED BY <1>2, <1>5, <1>6, <1>7, <1>8 DEF b

(* Nothing before the first chunk, everything behind the last one.         *)
LEMMA GoneAt ==
    ASSUME InputInv
    PROVE  /\ Gone(1) = <<>> /\ Gone(Len(message.chunks) + 1) = Body(message)
           /\ \A j \in 1..Len(message.chunks) :
                 Gone(j + 1) = Gone(j) \o message.chunks[j].bytes
<1> DEFINE bs == BodiesOf(message)
           n == Len(message.chunks)
           g == Upto(bs)
<1>1. message \in Messages
  BY DEF InputInv
<1>2. /\ bs \in Seq(Seq(Tokens)) /\ Len(bs) = n
      /\ Body(message) = S!FlattenSeq(bs)
  BY <1>1, BodyIs
<1>3. n \in Nat /\ \A j \in 1..n : bs[j] = message.chunks[j].bytes
  BY <1>1, ChunksAre DEF BodiesOf
<1> HIDE DEF bs, n
<1>4. /\ g[0] = <<>> /\ g[n] = Body(message)
      /\ \A j \in 1..n : g[j] = g[j - 1] \o bs[j]
  BY <1>2, UptoIs DEF Joined
<1>5. \A j : Gone(j) = g[j - 1]
  BY DEF Gone, bs
<1> HIDE DEF g
<1>6. 1 - 1 = 0 /\ (n + 1) - 1 = n /\ \A j \in 1..n : (j + 1) - 1 = j
  BY <1>3
<1>7. ASSUME NEW j \in 1..n PROVE Gone(j + 1) = Gone(j) \o message.chunks[j].bytes
  <2>1. Gone(j + 1) = g[j] /\ Gone(j) = g[j - 1]
    BY <1>5, <1>6
  <2> QED BY <1>3, <1>4, <2>1
<1>8. Gone(1) = <<>> /\ Gone(n + 1) = Body(message)
  <2>1. Gone(1) = g[1 - 1] /\ Gone(n + 1) = g[(n + 1) - 1]
    BY <1>5, Zenon
  <2> QED BY <1>4, <1>6, <2>1, Zenon
<1> QED
  <2>1. \A j \in 1..n : Gone(j + 1) = Gone(j) \o message.chunks[j].bytes
    BY <1>7, Zenon
  <2> QED BY <1>8, <2>1, Zenon DEF n

LEMMA StartIs ==
    ASSUME InputInv, message.leading = 0, message.chunked
    PROVE  /\ \A j \in Places : Start(j) \in Nat /\ Start(j) + 5 =< Len(Text)
           /\ Start(1) = Behind(message)
           /\ \A j \in 1..Len(message.chunks) :
                 LET t == Chunk(message.chunks[j])
                 IN  /\ Reads(Text, Start(j), t)
                     /\ Start(j + 1) = Start(j) + Len(t)
           /\ LET e == Start(Len(message.chunks) + 1)
              IN  Text[e + 1] = Hex(0) /\ Text[e + 2] = CR
<1> DEFINE m == message
           n == Len(m.chunks)
           ts == TextsOf(m)
           g == Upto(ts)
           all == AllChunks(m)
           p == Behind(m)
<1>1. m \in Messages
  BY DEF InputInv
<1>2. /\ n \in Nat /\ ts \in Seq(Seq(Tokens)) /\ Len(ts) = n
      /\ all \in Seq(Tokens) /\ all = S!FlattenSeq(ts)
      /\ \A j \in 1..n : ts[j] = Chunk(m.chunks[j]) /\ Len(ts[j]) \in Nat
  BY <1>1, TextsAre, ChunksAre DEF AllChunks
<1>3. p \in Nat
  BY <1>1, CountIs DEF Behind
<1>4. /\ Text \in Seq(Tokens) /\ Len(Text) = p + Len(Framed(m))
      /\ Len(Text) \in Nat /\ Reads(Text, p, Framed(m))
  BY <1>1, SerializeIs DEF Text
<1>5. /\ Len(Framed(m)) = Len(all) + 5 /\ Reads(Text, p, all)
      /\ Text[p + Len(all) + 1] = Hex(0) /\ Text[p + Len(all) + 2] = CR
  BY <1>1, <1>3, <1>4, FramedIs
<1> HIDE DEF p, n, ts, all
<1>6. /\ g \in [0..n -> Seq(Tokens)] /\ g[n] = all /\ g[0] = <<>>
      /\ \A j \in 0..n : Reads(Text, p, g[j])
      /\ \A j \in 1..n : /\ Reads(Text, p + Len(g[j - 1]), ts[j])
                         /\ Len(g[j]) = Len(g[j - 1]) + Len(ts[j])
  <2>1. Reads(Text, p, S!FlattenSeq(ts))
    BY <1>2, <1>5
  <2>2. /\ g \in [0..Len(ts) -> Seq(Tokens)] /\ g[Len(ts)] = S!FlattenSeq(ts)
        /\ g[0] = <<>>
    BY <1>2, UptoIs DEF Joined
  <2>3. /\ \A j \in 0..Len(ts) : Reads(Text, p, g[j])
        /\ \A j \in 1..Len(ts) :
              /\ Reads(Text, p + Len(g[j - 1]), ts[j])
              /\ Len(g[j]) = Len(g[j - 1]) + Len(ts[j])
    BY <1>2, <1>3, <1>4, <2>1, ReadsUpto
  <2> QED BY <1>2, <2>2, <2>3
<1>7. \A j : Start(j) = p + Len(g[j - 1])
  BY DEF Start, p, ts
<1> HIDE DEF g
<1>8. \A j \in 0..n : Len(g[j]) \in Nat /\ Len(g[j]) =< Len(all)
  <2> SUFFICES ASSUME NEW j \in 0..n
               PROVE  Len(g[j]) \in Nat /\ Len(g[j]) =< Len(all)
    OBVIOUS
  <2>1. Len(g[j]) \in Nat /\ Len(all) \in Nat
    <3>1. g[j] \in Seq(Tokens)
      BY <1>6
    <3> QED BY <1>2, <3>1, LenProperties
  <2>2. Reads(all, 0, g[j])
    <3>1. Reads(all, 0, S!FlattenSeq(ts)) /\ 0 \in Nat
      BY <1>2, ReadsAll
    <3>2. \A i \in 0..Len(ts) : Reads(all, 0, Upto(ts)[i])
      BY <1>2, <3>1, ReadsUpto
    <3> QED BY <1>2, <3>2 DEF g
  <2>3. 0 + Len(g[j]) =< Len(all)
    BY <2>2 DEF Reads
  <2> QED BY <2>1, <2>3
<1>9. ASSUME NEW j \in Places PROVE Start(j) \in Nat /\ Start(j) + 5 =< Len(Text)
  <2>1. j - 1 \in 0..n
    BY <1>2 DEF Places, n
  <2>2. Len(g[j - 1]) \in Nat /\ Len(g[j - 1]) =< Len(all) /\ Len(all) \in Nat
    <3>1. Len(all) \in Nat
      BY <1>2, LenProperties
    <3> QED BY <1>8, <2>1, <3>1
  <2> QED BY <1>3, <1>4, <1>5, <1>7, <2>2
<1>10. ASSUME NEW j \in 1..n
       PROVE  /\ Reads(Text, Start(j), ts[j])
              /\ Start(j + 1) = Start(j) + Len(ts[j])
  <2>1. (j + 1) - 1 = j /\ j - 1 \in 0..n
    BY <1>2
  <2>2. Start(j) = p + Len(g[j - 1]) /\ Start(j + 1) = p + Len(g[j])
    BY <1>7, <2>1
  <2>3. Len(g[j]) = Len(g[j - 1]) + Len(ts[j]) /\ Len(g[j - 1]) \in Nat
        /\ Len(ts[j]) \in Nat
    BY <1>2, <1>6, <1>8, <2>1
  <2>4. Reads(Text, Start(j), ts[j])
    BY <1>6, <2>2, Zenon
  <2>5. Start(j + 1) = Start(j) + Len(ts[j])
    <3> DEFINE a == Len(g[j - 1])
               b == Len(ts[j])
    <3>1. /\ Start(j) = p + a /\ Start(j + 1) = p + Len(g[j])
          /\ Len(g[j]) = a + b /\ a \in Nat /\ b \in Nat
      BY <2>2, <2>3
    <3> HIDE DEF a, b
    <3>2. Start(j + 1) = p + (a + b)
      BY <3>1, Zenon
    <3>3. p + (a + b) = p + a + b
      BY <1>3, <3>1
    <3>4. Start(j + 1) = Start(j) + b
      BY <3>1, <3>2, <3>3, Zenon
    <3> QED BY <3>4 DEF b
  <2> QED BY <2>4, <2>5
<1>11. Start(1) = p /\ Start(n + 1) = p + Len(all)
  <2>1. 1 - 1 = 0 /\ (n + 1) - 1 = n /\ Len(<<>>) = 0
    BY <1>2
  <2>2. Start(1) = p + Len(<<>>) /\ Start(n + 1) = p + Len(all)
    <3>1. Start(1) = p + Len(g[1 - 1]) /\ Start(n + 1) = p + Len(g[(n + 1) - 1])
      BY <1>7, Zenon
    <3> QED BY <1>6, <2>1, <3>1, Zenon
  <2> QED BY <1>3, <2>1, <2>2
<1>12. ASSUME NEW j \in 1..n
       PROVE  LET t == Chunk(m.chunks[j])
              IN  /\ Reads(Text, Start(j), t)
                  /\ Start(j + 1) = Start(j) + Len(t)
  <2>1. ts[j] = Chunk(m.chunks[j])
    BY <1>2
  <2> QED BY <1>10, <2>1, Zenon
<1>13. LET e == Start(n + 1) IN Text[e + 1] = Hex(0) /\ Text[e + 2] = CR
  BY <1>5, <1>11, Zenon
<1>14. Start(1) = Behind(m)
  BY <1>11 DEF p
<1> QED BY <1>9, <1>12, <1>13, <1>14, Zenon DEF n

(* Chunk c, behind its size in digits d, is all between two beginnings.    *)
IsChunk(j, c, d, k) ==
    /\ c # <<>> /\ Size(d, Len(c))
    /\ Round(Text, Start(j), c, d, Start(k))
    /\ Gone(k) = Gone(j) \o c

NoMore(j) ==
    /\ Gone(j) = Body(message)
    /\ Text[Start(j) + 1] = Hex(0) /\ Text[Start(j) + 2] = CR

(* Where the parser looks for a chunk, there is one, or no more.           *)
LEMMA ChunkAt ==
    ASSUME InputInv, message.leading = 0, message.chunked, NEW j \in Places
    PROVE  \/ NoMore(j)
           \/ \E c, d \in Seq(Tokens), k \in Places : IsChunk(j, c, d, k)
<1> DEFINE m == message
           n == Len(m.chunks)
<1>1. m \in Messages /\ n \in Nat
  BY ChunksAre DEF InputInv
<1>2. CASE j = n + 1
  BY <1>2, StartIs, GoneAt DEF NoMore
<1>3. CASE j \in 1..n
  <2> DEFINE c == m.chunks[j].bytes
             d == m.chunks[j].size
             t == Chunk(m.chunks[j])
  <2>1. c \in Seq(Tokens) /\ Len(c) \in Nat \ {0}
    BY <1>1, <1>3, ChunksAre
  <2>2. /\ Size(d, Len(c))
        /\ \A s \in Seq(Tokens), p \in Nat :
              Reads(s, p, t) => Round(s, p, c, d, p + Len(t))
    BY <1>1, <1>3, TextsAre
  <2>3. Reads(Text, Start(j), t) /\ Start(j + 1) = Start(j) + Len(t)
    BY <1>3, StartIs
  <2>4. Gone(j + 1) = Gone(j) \o c
    BY <1>3, GoneAt
  <2>5. Start(j) \in Nat /\ Text \in Seq(Tokens) /\ j + 1 \in Places
    <3>1. j + 1 \in Places
      BY <1>1, <1>3 DEF Places
    <3> QED BY <3>1, StartIs, WholeIs
  <2> HIDE DEF c, d, t
  <2>6. Round(Text, Start(j), c, d, Start(j + 1))
    <3>1. Round(Text, Start(j), c, d, Start(j) + Len(t))
      BY <2>2, <2>3, <2>5
    <3> QED BY <2>3, <3>1
  <2>7. c # <<>> /\ d \in Seq(Tokens)
    <3>1. Len(<<>>) = 0
      OBVIOUS
    <3> QED BY <2>1, <2>2, <3>1 DEF Size
  <2>8. IsChunk(j, c, d, j + 1)
    BY <2>2, <2>4, <2>6, <2>7 DEF IsChunk
  <2> QED BY <2>1, <2>5, <2>7, <2>8
<1>4. j = n + 1 \/ j \in 1..n
  BY <1>1 DEF Places
<1> QED BY <1>2, <1>3, <1>4

LEMMA SubSeqIs ==
    ASSUME NEW T, NEW s \in Seq(T), NEW a \in Nat, NEW n \in Nat \ {0},
           a + n =< Len(s)
    PROVE  /\ SubSeq(s, a + 1, a + n) \in Seq(T)
           /\ Len(SubSeq(s, a + 1, a + n)) = n
           /\ \A i \in 1..n : SubSeq(s, a + 1, a + n)[i] = s[a + i]
<1> DEFINE u == SubSeq(s, a + 1, a + n)
<1>1. Len(s) \in Nat /\ \A i \in 1..Len(s) : s[i] \in T
  BY LenProperties, ElementOfSeq
<1>2. /\ \A i \in (a + 1)..(a + n) : s[i] \in T
      /\ a + 1 \in Int /\ a + n \in Int
  BY <1>1
<1>3. /\ u \in Seq(T)
      /\ Len(u) = IF a + 1 <= a + n THEN a + n - (a + 1) + 1 ELSE 0
      /\ \A i \in 1..(a + n) - (a + 1) + 1 : u[i] = s[(a + 1) + i - 1]
  BY <1>2, SubSeqProperties
<1> HIDE DEF u
<1>4. /\ (a + n) - (a + 1) + 1 = n /\ a + 1 <= a + n
      /\ \A i \in 1..n : (a + 1) + i - 1 = a + i
  OBVIOUS
<1> QED BY <1>3, <1>4 DEF u

(* What the parser finds of a size that is there.                          *)
LEMMA SizeAt ==
    ASSUME InputInv, pos \in Nat, NEW d, NEW n, Size(d, n),
           Reads(Text, pos, d), Text[pos + Len(d) + 1] = CR
    PROVE  /\ pos + Len(d) < Len(input) =>
                 /\ EndOfDigits = pos + Len(d)
                 /\ SubSeq(input, pos + 1, EndOfDigits) = d
           /\ pos < Len(input) /\ Len(input) =< pos + Len(d) =>
                 EndOfDigits = Len(input)
<1> DEFINE N == Len(input)
           L == Len(d)
<1>1. /\ N \in Nat /\ L \in Nat \ {0} /\ d \in Seq(Tokens)
      /\ \A i \in 1..L : d[i].is = "hex"
      /\ \A i \in 1..L : Text[pos + i] = d[i]
      /\ input \in Seq(Tokens)
      /\ \A i \in 1..N : input[i] = Text[i]
  BY WholeIs DEF InputInv, Size, Reads
<1> HIDE DEF N, L
<1>2. ASSUME NEW i \in pos..(pos + L - 1), i < N
      PROVE  input[i + 1].is = "hex" /\ input[i + 1] = d[i + 1 - pos]
  <2>1. i + 1 \in 1..N /\ i + 1 - pos \in 1..L /\ pos + (i + 1 - pos) = i + 1
    BY <1>1, <1>2
  <2>2. Text[pos + (i + 1 - pos)] = d[i + 1 - pos]
    BY <1>1, <2>1
  <2>3. input[i + 1] = Text[i + 1] /\ d[i + 1 - pos].is = "hex"
    BY <1>1, <2>1
  <2> QED BY <2>1, <2>2, <2>3
<1>3. ASSUME pos + L < N
      PROVE  EndOfDigits = pos + L /\ SubSeq(input, pos + 1, EndOfDigits) = d
  <2>1. input[pos + L + 1].is # "hex"
    <3>1. pos + L + 1 \in 1..N
      BY <1>1, <1>3
    <3>2. input[pos + L + 1] = CR
      BY <1>1, <3>1 DEF L
    <3> QED BY <3>2, SomeTokens
  <2>2. \A i \in pos..(pos + L - 1) : input[i + 1].is = "hex"
    BY <1>1, <1>2, <1>3
  <2>3. pos + L \in pos..N
    BY <1>1, <1>3
  <2>4. EndOfDigits = pos + L
    BY <1>1, <2>1, <2>2, <2>3, EndOfDigitsIs DEF N
  <2> DEFINE u == SubSeq(input, pos + 1, pos + L)
  <2>5. /\ u \in Seq(Tokens) /\ Len(u) = L
        /\ \A i \in 1..L : u[i] = input[pos + i]
    <3>1. L \in Nat \ {0} /\ pos + L =< Len(input)
      BY <1>1, <1>3 DEF N
    <3>2. input \in Seq(Tokens) /\ pos \in Nat
      BY <1>1
    <3>3. /\ SubSeq(input, pos + 1, pos + L) \in Seq(Tokens)
          /\ Len(SubSeq(input, pos + 1, pos + L)) = L
          /\ \A i \in 1..L :
                SubSeq(input, pos + 1, pos + L)[i] = input[pos + i]
      BY <3>1, <3>2, SubSeqIs
    <3> QED BY <3>3
  <2>6. \A i \in 1..L : u[i] = d[i]
    <3> SUFFICES ASSUME NEW i \in 1..L PROVE u[i] = d[i]
      OBVIOUS
    <3>1. pos + i \in 1..N
      BY <1>1, <1>3
    <3> HIDE DEF u
    <3> QED BY <1>1, <2>5, <3>1
  <2> HIDE DEF u
  <2>7. u = d
    BY <1>1, <2>5, <2>6, SeqEqual DEF L
  <2> QED BY <2>4, <2>7 DEF u
<1>4. ASSUME pos < N, N =< pos + L
      PROVE  EndOfDigits = N
  <2>1. \A i \in pos..(N - 1) : input[i + 1].is = "hex"
    BY <1>1, <1>2, <1>4
  <2>2. N \in pos..N
    BY <1>1, <1>4
  <2> QED BY <1>1, <2>1, <2>2, EndOfDigitsIs DEF N
<1> QED BY <1>3, <1>4 DEF N, L

-----------------------------------------------------------------------------
(* THE PAYLOAD                                                             *)

(* All lines have arrived.                                                 *)
LEMMA AllLines ==
    ASSUME InputInv, KnowsFraming(Count(message))
    PROVE  /\ isChunked = message.chunked /\ message.chunked \in BOOLEAN
           /\ ~message.chunked => contentLength = Len(Body(message))
           /\ Len(Body(message)) \in Nat
<1> DEFINE m == message
<1>1. m \in Messages
  BY DEF InputInv
<1>2. m.chunked \in BOOLEAN /\ Len(Body(m)) \in Nat
  BY <1>1, MessageIs, BodyIs
<1>3. Count(m) > Place(m)
  BY <1>1, CountIs, HeadersAre
<1>4. isChunked = m.chunked
  BY <1>2, <1>3, Zenon DEF KnowsFraming
<1>5. ~m.chunked => contentLength = Len(Body(m))
  BY <1>3 DEF KnowsFraming
<1> QED BY <1>2, <1>4, <1>5

LEMMA StartChunksR ==
    ASSUME InputInv, message.leading = 0, PhaseInv, StartChunks
    PROVE  PhaseInv'
<1> DEFINE m == message
<1>1. /\ phase = "payload" /\ isChunked /\ InPayload /\ pos \in Nat
      /\ payload = <<>>
  BY DEF StartChunks, PhaseInv, InPayload
<1>2. /\ pos' = pos + 2 /\ contentLength' = 0 /\ phase' = "chunks"
      /\ UNCHANGED <<message, input, payload, params>>
  BY DEF StartChunks, string, result
<1>3. m.chunked
  <2>1. CASE AtLine(Count(m))
    BY <1>1, <2>1, AllLines DEF AtLine
  <2>2. CASE Broken
    BY <1>1, <2>2 DEF Broken
  <2> QED BY <1>1, <2>1, <2>2 DEF InPayload
<1>4. /\ Len(input) \in Nat /\ Count(m) \in Nat
  BY WholeIs, CountIs DEF InputInv
<1>5. CASE AtLine(Count(m))
  <2>1. pos = 3 * Count(m) /\ KnowsParams(Count(m))
    BY <1>5 DEF AtLine
  <2>2. Start(1)' = 3 * Count(m) + 2
    <3>1. Start(1) = Behind(m)
      BY <1>3, StartIs
    <3> QED BY <1>2, <3>1 DEF Start, Behind
  <2>3. Gone(1)' = <<>> /\ payload' = <<>> /\ Len(payload') = 0
    <3>1. Gone(1) = <<>>
      BY GoneAt
    <3> QED BY <1>1, <1>2, <3>1 DEF Gone
  <2>4. KnowsParams(Count(message))'
    BY <1>2, <2>1 DEF KnowsParams, Told
  <2>5. AtChunk(1)'
    BY <1>2, <2>1, <2>2, <2>3, <2>4 DEF AtChunk
  <2>6. 1 \in Places' /\ pos' \in Nat
    <3>1. Len(m.chunks) \in Nat
      BY ChunksAre DEF InputInv
    <3> QED BY <1>1, <1>2, <3>1 DEF Places
  <2>7. InChunks'
    BY <1>2, <1>3, <2>5, <2>6 DEF InChunks
  <2> QED BY <1>2, <2>6, <2>7 DEF PhaseInv
<1>6. CASE pos = Len(input) /\ Broken
  <2>1. pos' >= Len(input') /\ pos' \in Nat
    BY <1>2, <1>4, <1>6
  <2>2. Len(input') < Len(Text')
    BY <1>2, <1>6 DEF Broken, Text
  <2>3. InChunks'
    BY <1>1, <1>2, <1>3, <2>1, <2>2 DEF InChunks
  <2> QED BY <1>2, <2>1, <2>3 DEF PhaseInv
<1> QED BY <1>1, <1>5, <1>6 DEF InPayload

LEMMA BodyBeyondEndR ==
    ASSUME InputInv, message.leading = 0, PhaseInv, BodyBeyondEnd
    PROVE  PhaseInv'
<1>1. /\ phase = "payload" /\ pos + 2 > Len(input) /\ InPayload /\ pos \in Nat
  BY DEF BodyBeyondEnd, Throw, PhaseInv
<1>2. Len(input) \in Nat /\ Len(Text) \in Nat /\ Len(Text) >= 3 * Count(message) + 2
  BY WholeIs, TextAt DEF Behind
<1>3. Len(input) < Len(Text)
  <2>1. CASE AtLine(Count(message))
    <3>1. pos = 3 * Count(message)
      BY <2>1 DEF AtLine
    <3> QED BY <1>1, <1>2, <3>1
  <2>2. CASE Broken
    BY <2>2 DEF Broken
  <2> QED BY <1>1, <2>1, <2>2 DEF InPayload
<1>4. ~Whole
  BY <1>2, <1>3, WholeIs
<1>5. /\ ~Whole' /\ phase' = "thrown" /\ pos' \in Nat
  BY <1>1, <1>4 DEF BodyBeyondEnd, Throw, Whole, string, scan
<1> QED BY <1>5 DEF PhaseInv

LEMMA ReadBodyR ==
    ASSUME InputInv, message.leading = 0, PhaseInv, ReadBody
    PROVE  PhaseInv'
<1> DEFINE m == message
           b == Body(m)
           L == contentLength
           copy == Copy(pos + 2, L)
<1>1. /\ phase = "payload" /\ InPayload /\ pos \in Nat
      /\ ~isChunked /\ contentLength > 0 /\ pos + 2 =< Len(input)
      /\ pos' = pos + 2 /\ phase' = "finish"
      /\ payload' = [copy EXCEPT ![L] = NUL]
      /\ UNCHANGED <<message, input, contentLength, params>>
  BY DEF ReadBody, BodyStep, PhaseInv, string
<1>2. /\ Len(input) \in Nat /\ Len(Text) \in Nat
      /\ \A i \in 1..Len(input) : input[i] = Text[i]
  BY WholeIs DEF InputInv
<1>3. AtLine(Count(m))
  <2>1. ~(pos = Len(input))
    BY <1>1, <1>2
  <2> QED BY <1>1, <2>1 DEF InPayload
<1>4. /\ pos = 3 * Count(m) /\ KnowsParams(Count(m)) /\ KnowsFraming(Count(m))
  BY <1>3 DEF AtLine
<1>5. ~m.chunked /\ L = Len(b) /\ L \in Nat
  BY <1>1, <1>4, AllLines
<1>6. ASSUME Whole PROVE payload' = Received
  <2>1. /\ Len(input) = Len(Text) /\ Len(Text) = pos + 2 + Len(Framed(m))
        /\ Reads(Text, pos + 2, Framed(m))
    <3>1. pos + 2 = Behind(m)
      BY <1>4 DEF Behind
    <3>2. Len(input) = Len(Text)
      BY <1>6, WholeIs
    <3> QED BY <3>1, <3>2, SerializeIs DEF InputInv, Text
  <2>2. Framed(m) = b /\ b \in Seq(Tokens)
    BY <1>5, BodyIs DEF Framed, InputInv
  <2> HIDE DEF b, L
  <2>3. copy = [i \in 1..L |-> IF pos + 2 + i =< Len(input) THEN input[pos + 2 + i] ELSE Garbage]
    BY DEF Copy
  <2>4. ASSUME NEW i \in 1..L PROVE copy[i] = b[i]
    <3>1. Text[pos + 2 + i] = b[i] /\ pos + 2 + i \in 1..Len(input)
      BY <1>1, <1>2, <1>5, <2>1, <2>2 DEF Reads
    <3> HIDE DEF copy
    <3> QED BY <1>2, <2>3, <3>1
  <2>5. copy = [i \in 1..L |-> b[i]]
    <3>1. copy = [i \in 1..L |-> copy[i]]
      BY DEF Copy
    <3> HIDE DEF copy
    <3> QED BY <2>4, <3>1
  <2>6. b = [i \in 1..L |-> b[i]]
    BY <1>5, <2>2, LenProperties
  <2>7. copy = b /\ b # <<>>
    <3>1. Len(<<>>) = 0
      OBVIOUS
    <3> HIDE DEF copy
    <3> QED BY <1>1, <1>5, <2>5, <2>6, <3>1 DEF L
  <2> HIDE DEF copy
  <2>8. Received = [b EXCEPT ![Len(b)] = NUL]
    BY <1>5, <2>7 DEF Received, b
  <2> QED BY <1>1, <1>5, <2>7, <2>8
<1>7. InFinish'
  <2>1. Whole' => Whole
    BY <1>1 DEF Whole
  <2>2. Whole' => payload' = Received'
    BY <1>1, <1>6, <2>1 DEF Received
  <2>3. KnowsParams(Count(message))'
    BY <1>1, <1>4 DEF KnowsParams, Told
  <2>4. pos' =< Len(input') /\ contentLength' = Len(Body(message'))
    BY <1>1, <1>5
  <2>5. ~message'.chunked
    BY <1>1, <1>5
  <2> QED BY <2>2, <2>3, <2>4, <2>5 DEF InFinish
<1>8. pos' \in Nat
  BY <1>1
<1> QED BY <1>1, <1>7, <1>8 DEF PhaseInv

LEMMA NoBodyR ==
    ASSUME InputInv, message.leading = 0, PhaseInv, NoBody
    PROVE  PhaseInv'
<1> DEFINE m == message
           b == Body(m)
<1>1. /\ phase = "payload" /\ InPayload /\ pos \in Nat /\ payload = <<>>
      /\ ~isChunked /\ contentLength =< 0 /\ phase' = "finish"
      /\ UNCHANGED <<message, input, pos, contentLength, payload, params>>
  BY DEF NoBody, PhaseInv, InPayload, string, scan, result
<1>2. Len(input) \in Nat /\ Len(Text) \in Nat
  BY WholeIs
<1>3. ASSUME Whole
      PROVE  /\ pos =< Len(input) /\ payload = Received
             /\ contentLength = Len(b) /\ KnowsParams(Count(m))
  <2>1. ~Broken
    BY <1>2, <1>3, WholeIs DEF Broken
  <2>2. AtLine(Count(m))
    BY <1>1, <2>1 DEF InPayload
  <2>3. pos =< Len(input) /\ KnowsParams(Count(m)) /\ KnowsFraming(Count(m))
    BY <2>2 DEF AtLine
  <2>4. ~m.chunked /\ contentLength = Len(b) /\ Len(b) \in Nat
    BY <1>1, <2>3, AllLines
  <2>5. b \in Seq(Tokens)
    BY BodyIs DEF InputInv
  <2>6. b = <<>>
    <3> HIDE DEF b
    <3>1. Len(b) = 0
      BY <1>1, <2>4
    <3> QED BY <2>5, <3>1, EmptySeq
  <2> QED BY <1>1, <2>3, <2>4, <2>6 DEF Received
<1>4. PayloadIsPrefix
  <2>1. DOMAIN payload = {}
    BY <1>1
  <2> QED BY <2>1 DEF PayloadIsPrefix
<1>5. InFinish
  BY <1>3, <1>4 DEF InFinish
<1>6. InFinish'
  BY <1>1, <1>5 DEF InFinish, PayloadIsPrefix, Whole, Received, KnowsParams,
     Told
<1> QED BY <1>1, <1>6 DEF PhaseInv

-----------------------------------------------------------------------------
(* THE CHUNKS, READ                                                        *)

(* The size zero is a size like another.                                   *)
LEMMA ZeroAt ==
    ASSUME NEW s, NEW p \in Nat, p + 1 =< Len(s), s[p + 1] = Hex(0)
    PROVE  Size(Zero, 0) /\ Reads(s, p, Zero) /\ Len(Zero) = 1
<1>1. Size(Zero, 0) /\ Len(Zero) = 1 /\ Zero[1] = Hex(0)
  BY ZeroIs
<1>2. \A i \in 1..1 : i = 1
  OBVIOUS
<1> QED BY <1>1, <1>2 DEF Reads

LEMMA SizeBeyondEndR ==
    ASSUME InputInv, message.leading = 0, PhaseInv, SizeBeyondEnd
    PROVE  PhaseInv'
<1>1. /\ phase = "chunks" /\ InChunks /\ pos \in Nat /\ message.chunked
      /\ pos >= Len(input) \/ EndOfDigits = Len(input)
      /\ phase' = "thrown" /\ UNCHANGED <<message, input, pos>>
  <2>1. Len(input) \in Nat
    BY WholeIs
  <2> QED BY <2>1 DEF SizeBeyondEnd, Throw, PhaseInv, InChunks, string, scan
<1>2. Len(input) \in Nat /\ Len(Text) \in Nat /\ Text \in Seq(Tokens)
  BY WholeIs
<1>3. ASSUME NEW d, NEW n, Size(d, n), Reads(Text, pos, d),
             Text[pos + Len(d) + 1] = CR, pos + Len(d) < Len(Text)
      PROVE  Len(input) < Len(Text)
  <2>1. CASE pos + Len(d) < Len(input)
    <3>1. EndOfDigits = pos + Len(d) /\ Len(d) \in Nat \ {0}
      BY <1>1, <1>3, <2>1, SizeAt DEF Size
    <3> QED BY <1>1, <1>2, <2>1, <3>1
  <2>2. CASE ~(pos + Len(d) < Len(input))
    BY <1>1, <1>2, <1>3, <2>2 DEF Size
  <2> QED BY <2>1, <2>2
<1>4. Len(input) < Len(Text)
  <2>1. CASE \E j \in Places : AtChunk(j)
    <3>1. PICK j \in Places : pos = Start(j)
      BY <2>1 DEF AtChunk
    <3>2. Start(j) + 5 =< Len(Text) /\ Start(j) \in Nat
      BY <1>1, StartIs
    <3>3. CASE NoMore(j)
      <4>1. Text[pos + 1] = Hex(0) /\ Text[pos + 2] = CR
        BY <3>1, <3>3 DEF NoMore
      <4>2. pos + 1 =< Len(Text)
        BY <1>1, <1>2, <3>1, <3>2
      <4>3. Size(Zero, 0) /\ Reads(Text, pos, Zero) /\ Len(Zero) = 1
        BY <1>1, <1>2, <4>1, <4>2, ZeroAt
      <4>4. Text[pos + Len(Zero) + 1] = CR /\ pos + Len(Zero) < Len(Text)
        <5>1. pos + 1 + 1 = pos + 2 /\ pos + 1 < Len(Text)
          BY <1>1, <1>2, <3>1, <3>2
        <5> QED BY <4>1, <4>3, <5>1
      <4> QED BY <1>3, <4>3, <4>4
    <3>4. CASE \E c, d \in Seq(Tokens), k \in Places : IsChunk(j, c, d, k)
      <4>1. PICK c \in Seq(Tokens), d \in Seq(Tokens), k \in Places :
               IsChunk(j, c, d, k)
        BY <3>4
      <4>2. /\ Size(d, Len(c)) /\ Reads(Text, pos, d)
            /\ Text[pos + Len(d) + 1] = CR
            /\ Start(k) = pos + Len(d) + 2 + Len(c) + 2
            /\ Start(k) =< Len(Text)
        BY <3>1, <4>1 DEF IsChunk, Round
      <4>3. pos + Len(d) < Len(Text)
        <5>1. Len(c) \in Nat /\ Len(d) \in Nat
          BY <4>1, LenProperties
        <5> QED BY <1>1, <1>2, <4>2, <5>1
      <4> QED BY <1>3, <4>2, <4>3
    <3> QED BY <1>1, <3>3, <3>4, ChunkAt
  <2> QED BY <1>1, <2>1 DEF InChunks
<1>5. ~Whole
  BY <1>2, <1>4, WholeIs
<1> QED BY <1>1, <1>5 DEF PhaseInv, Whole

LEMMA ReadChunkR ==
    ASSUME InputInv, message.leading = 0, PhaseInv, ReadChunk
    PROVE  PhaseInv'
<1> DEFINE m == message
           b == Body(m)
           size == HexToInt(SubSeq(input, pos + 1, EndOfDigits))
           copy == Copy(EndOfDigits + 2, size)
           next == EndOfDigits + 2 + size + 2
<1>1. /\ phase = "chunks" /\ InChunks /\ pos \in Nat /\ m.chunked
      /\ pos < Len(input) /\ EndOfDigits < Len(input)
      /\ UNCHANGED <<message, input, params>>
      /\ size = 0 => /\ pos' = EndOfDigits /\ phase' = "finish"
                     /\ UNCHANGED <<payload, contentLength>>
      /\ size # 0 => /\ payload' = payload \o copy
                     /\ contentLength' = contentLength + size
                     /\ pos' = next
                     /\ phase' = IF next >= Len(input) THEN "finish" ELSE phase
  BY DEF ReadChunk, ChunkStep, PhaseInv, InChunks, string
<1> HIDE DEF size, copy, next
<1>2. /\ Len(input) \in Nat /\ Len(Text) \in Nat /\ Text \in Seq(Tokens)
      /\ \A i \in 1..Len(input) : input[i] = Text[i]
      /\ Whole <=> Len(input) = Len(Text)
  BY WholeIs DEF InputInv
<1>3. PICK j \in Places : AtChunk(j)
  BY <1>1, <1>2 DEF InChunks
<1>4. /\ pos = Start(j) /\ payload = Gone(j) /\ contentLength = Len(payload)
      /\ KnowsParams(Count(m))
  BY <1>3 DEF AtChunk
<1>5. Start(j) + 5 =< Len(Text) /\ Start(j) \in Nat
  BY <1>1, StartIs
<1>6. /\ payload \in Seq(Tokens) /\ Len(payload) \in Nat
      /\ \A i \in 1..Len(payload) : payload[i] = b[i]
      /\ Len(payload) =< Len(b) /\ Len(b) \in Nat
  BY <1>4, GoneIs, BodyIs DEF InputInv
<1>7. KnowsParams(Count(message))'
  BY <1>1, <1>4 DEF KnowsParams, Told
<1>8. ASSUME NEW d, NEW n, Size(d, n), Reads(Text, pos, d),
             Text[pos + Len(d) + 1] = CR
      PROVE  EndOfDigits = pos + Len(d) /\ size = n /\ Len(d) \in Nat \ {0}
  <2>1. Len(d) \in Nat \ {0} /\ HexToInt(d) = n
    BY <1>8 DEF Size
  <2>2. pos + Len(d) < Len(input)
    <3>1. Len(input) =< pos + Len(d) => EndOfDigits = Len(input)
      BY <1>1, <1>8, SizeAt
    <3> QED BY <1>1, <1>2, <2>1, <3>1
  <2>3. EndOfDigits = pos + Len(d) /\ SubSeq(input, pos + 1, EndOfDigits) = d
    BY <1>1, <1>8, <2>2, SizeAt
  <2> QED BY <2>1, <2>3 DEF size
<1>9. CASE NoMore(j)
  <2>1. Text[pos + 1] = Hex(0) /\ Text[pos + 2] = CR /\ Gone(j) = b
    BY <1>4, <1>9 DEF NoMore
  <2>2. pos + 1 =< Len(Text)
    BY <1>1, <1>2, <1>4, <1>5
  <2>3. Size(Zero, 0) /\ Reads(Text, pos, Zero) /\ Len(Zero) = 1
    BY <1>1, <1>2, <2>1, <2>2, ZeroAt
  <2>4. EndOfDigits = pos + 1 /\ size = 0
    <3>1. pos + 1 + 1 = pos + 2
      BY <1>1
    <3>2. Text[pos + Len(Zero) + 1] = CR
      BY <2>1, <2>3, <3>1
    <3> QED BY <1>8, <2>3, <3>2
  <2>5. /\ pos' = EndOfDigits /\ phase' = "finish" /\ pos' \in Nat
        /\ UNCHANGED <<payload, contentLength>>
    BY <1>1, <2>4
  <2>6. payload = b /\ contentLength = Len(b)
    BY <1>4, <2>1
  <2>7. PayloadIsPrefix
    <3>1. DOMAIN payload = 1..Len(payload)
      BY <1>6, LenProperties
    <3> QED BY <1>6, <3>1 DEF PayloadIsPrefix
  <2>8. InFinish'
    <3>1. PayloadIsPrefix'
      BY <1>1, <2>5, <2>7 DEF PayloadIsPrefix
    <3>2. payload' = Received'
      BY <1>1, <2>5, <2>6 DEF Received
    <3>3. pos' =< Len(input')
      BY <1>1, <1>2, <2>5
    <3>4. contentLength' = Len(Body(message'))
      BY <1>1, <2>5, <2>6
    <3> QED BY <1>7, <3>1, <3>2, <3>3, <3>4 DEF InFinish
  <2> QED BY <2>5, <2>8 DEF PhaseInv
<1>10. CASE \E c, d \in Seq(Tokens), k \in Places : IsChunk(j, c, d, k)
  <2>1. PICK c \in Seq(Tokens), d \in Seq(Tokens), k \in Places :
           IsChunk(j, c, d, k)
    BY <1>10
  <2>2. /\ Size(d, Len(c)) /\ Reads(Text, pos, d)
        /\ Text[pos + Len(d) + 1] = CR
        /\ Reads(Text, pos + Len(d) + 2, c)
        /\ Start(k) = pos + Len(d) + 2 + Len(c) + 2
        /\ Gone(k) = payload \o c /\ c # <<>>
    BY <1>4, <2>1 DEF IsChunk, Round
  <2>3. EndOfDigits = pos + Len(d) /\ size = Len(c) /\ Len(d) \in Nat \ {0}
    BY <1>8, <2>2
  <2>4. Len(c) \in Nat /\ Len(c) # 0
    BY <2>1, <2>2, EmptySeq, LenProperties
  <2>5. /\ payload' = payload \o copy /\ contentLength' = contentLength + size
        /\ pos' = next /\ next = Start(k) /\ pos' \in Nat
        /\ phase' = IF next >= Len(input) THEN "finish" ELSE phase
    <3>1. next = Start(k) /\ next \in Nat
      BY <1>1, <2>2, <2>3, <2>4 DEF next
    <3> QED BY <1>1, <2>3, <2>4, <3>1
  <2> DEFINE from == EndOfDigits + 2
  <2>6. /\ from = pos + Len(d) + 2 /\ from \in Nat
        /\ from + Len(c) =< Len(Text)
        /\ \A i \in 1..Len(c) : Text[from + i] = c[i]
        /\ copy = [i \in 1..Len(c) |->
                      IF from + i =< Len(input) THEN input[from + i]
                      ELSE Garbage]
    BY <1>1, <2>2, <2>3 DEF Reads, copy, Copy
  <2> HIDE DEF from
  <2>7. ASSUME NEW i \in 1..Len(c)
        PROVE  /\ copy[i] \in {c[i], Garbage} /\ copy[i] \in Tokens \cup {Garbage}
               /\ from + i =< Len(input) => copy[i] = c[i]
    <3>1. c[i] \in Tokens
      BY <2>1, ElementOfSeq
    <3>2. from + i =< Len(input) => input[from + i] = c[i]
      <4>1. from + i =< Len(input) => from + i \in 1..Len(input)
        BY <1>2, <2>4, <2>6
      <4> QED BY <1>2, <2>6, <4>1
    <3> HIDE DEF copy
    <3> QED BY <2>6, <3>1, <3>2
  <2> DEFINE T == Tokens \cup {Garbage}
  <2>8. copy \in Seq(T) /\ Len(copy) = Len(c) /\ payload \in Seq(T) /\ c \in Seq(T)
    <3>1. copy \in [1..Len(c) -> T]
      BY <2>6, <2>7
    <3>2. ASSUME NEW s \in Seq(Tokens) PROVE s \in Seq(T)
      <4>1. \A i \in 1..Len(s) : s[i] \in T
        BY ElementOfSeq
      <4> HIDE DEF T
      <4> QED BY <4>1, WiderSeq
    <3> HIDE DEF T, copy
    <3>3. copy \in Seq(T) /\ Len(copy) = Len(c)
      BY <2>4, <3>1
    <3>4. payload \in Seq(T) /\ c \in Seq(T)
      BY <1>6, <2>1, <3>2
    <3> QED BY <3>3, <3>4
  <2> DEFINE P == Len(payload)
  <2>9. /\ payload' \in Seq(T) /\ Len(payload') = P + Len(c)
        /\ \A i \in 1..P : payload'[i] = payload[i]
        /\ \A i \in 1..Len(c) : payload'[P + i] = copy[i]
    <3> DEFINE s == payload \o copy
    <3> HIDE DEF T, copy
    <3>1. /\ s \in Seq(T) /\ Len(s) = P + Len(copy)
          /\ \A i \in 1..P : s[i] = payload[i]
          /\ \A i \in 1..Len(copy) : s[P + i] = copy[i]
      <4>1. payload \in Seq(T) /\ copy \in Seq(T)
        BY <2>8
      <4> HIDE DEF P
      <4>2. /\ payload \o copy \in Seq(T)
            /\ Len(payload \o copy) = Len(payload) + Len(copy)
            /\ \A i \in 1..Len(payload) : (payload \o copy)[i] = payload[i]
            /\ \A i \in 1..Len(copy) :
                  (payload \o copy)[Len(payload) + i] = copy[i]
        BY <4>1, Joining
      <4> QED BY <4>2 DEF s, P
    <3>2. payload' = s /\ Len(copy) = Len(c)
      BY <2>5, <2>8
    <3> HIDE DEF s
    <3> QED BY <3>1, <3>2
  <2>10. /\ Gone(k) \in Seq(Tokens) /\ Len(Gone(k)) = P + Len(c)
         /\ \A i \in 1..P : Gone(k)[i] = payload[i]
         /\ \A i \in 1..Len(c) : Gone(k)[P + i] = c[i]
    BY <1>6, <2>1, <2>2, Joining
  <2>11. Len(Gone(k)) =< Len(b) /\ \A i \in 1..Len(Gone(k)) : Gone(k)[i] = b[i]
    BY GoneIs
  <2>12. contentLength' = Len(payload')
    BY <1>4, <1>6, <2>3, <2>4, <2>5, <2>9
  <2>13. CASE next >= Len(input)
    <3>1. PayloadIsPrefix'
      <4>1. DOMAIN payload' = 1..(P + Len(c))
        BY <2>9, LenProperties
      <4>2. ASSUME NEW i \in 1..(P + Len(c))
            PROVE  payload'[i] = Garbage \/ (i =< Len(b) /\ payload'[i] = b[i])
        <5>1. i =< Len(b) /\ Gone(k)[i] = b[i]
          <6>1. i \in Nat /\ i =< Len(Gone(k)) /\ Len(Gone(k)) \in Nat
            BY <1>6, <2>4, <2>10
          <6>2. i \in 1..Len(Gone(k))
            BY <2>10
          <6>3. Gone(k)[i] = b[i]
            BY <2>11, <6>2, Zenon
          <6>4. Len(b) \in Nat /\ Len(Gone(k)) =< Len(b)
            BY <1>1, <2>11, BodyIs DEF InputInv
          <6> QED BY <6>1, <6>3, <6>4
        <5>2. CASE i =< P
          <6>1. i \in 1..P
            BY <1>6, <5>2
          <6> QED BY <2>9, <2>10, <5>1, <6>1
        <5>3. CASE ~(i =< P)
          <6>1. i - P \in 1..Len(c) /\ P + (i - P) = i
            BY <1>6, <2>4, <5>3
          <6>2. payload'[P + (i - P)] = copy[i - P] /\ Gone(k)[P + (i - P)] = c[i - P]
            BY <2>9, <2>10, <6>1
          <6>3. copy[i - P] \in {c[i - P], Garbage}
            BY <2>7, <6>1
          <6> HIDE DEF P
          <6> QED BY <5>1, <6>1, <6>2, <6>3
        <5> QED BY <5>2, <5>3
      <4>3. message' = message
        BY <1>1
      <4> QED BY <4>1, <4>2, <4>3 DEF PayloadIsPrefix
    <3>2. ~Whole'
      <4>1. Start(k) + 5 =< Len(Text) /\ Start(k) \in Nat
        BY <1>1, StartIs
      <4>2. ~Whole
        BY <1>2, <1>5, <2>5, <2>13, <4>1
      <4> QED BY <1>1, <4>2 DEF Whole
    <3>3. InFinish'
      BY <3>1, <3>2 DEF InFinish
    <3>4. phase' = "finish"
      BY <2>5, <2>13
    <3> QED BY <2>5, <3>3, <3>4 DEF PhaseInv
  <2>14. CASE ~(next >= Len(input))
    <3>1. payload' = Gone(k)
      <4>1. \A i \in 1..Len(c) : copy[i] = c[i]
        <5>1. \A i \in 1..Len(c) : from + i =< Len(input)
          BY <1>1, <1>2, <2>2, <2>3, <2>4, <2>5, <2>6, <2>14
        <5> QED BY <2>7, <5>1
      <4>2. copy = c
        <5> HIDE DEF T, copy
        <5> QED BY <2>8, <4>1, SeqEqual
      <4> QED BY <2>2, <2>5, <4>2
    <3>2. Start(k)' = Start(k) /\ Gone(k)' = Gone(k)
      BY <1>1 DEF Start, Gone, Behind, Count
    <3>3. AtChunk(k)'
      BY <1>7, <2>5, <2>12, <3>1, <3>2 DEF AtChunk
    <3>4. InChunks'
      BY <1>1, <3>3 DEF InChunks, Places
    <3>5. phase' = "chunks"
      BY <1>1, <2>5, <2>14
    <3> QED BY <2>5, <3>4, <3>5 DEF PhaseInv
  <2> QED BY <2>13, <2>14
<1> QED BY <1>1, <1>9, <1>10, ChunkAt

-----------------------------------------------------------------------------
(* THE EVENT                                                               *)

LEMMA FinishR ==
    ASSUME InputInv, message.leading = 0, PhaseInv, Finish
    PROVE  PhaseInv'
<1> DEFINE m == message
           b == Body(m)
           n == Len(Headers(m))
<1>1. /\ phase = "finish" /\ InFinish /\ pos \in Nat /\ phase' = "done"
      /\ contentLength > 0 =>
            params' = [x \in DOMAIN params \cup {"length", "payload"} |->
                          IF x \in {"length", "payload"} THEN contentLength
                          ELSE params[x]]
      /\ ~(contentLength > 0) => params' = params
      /\ UNCHANGED <<message, input, pos, payload>>
  BY DEF Finish, PhaseInv, string, scan
<1>2. m \in Messages /\ b \in Seq(Tokens) /\ Len(b) \in Nat
  BY BodyIs DEF InputInv
<1>3. n \in Nat /\ Count(m) = n + 1 /\ m.first # "payload"
  BY <1>2, CountIs, HeadersAre, MessageIs
<1>0. n' = n
  BY <1>1
<1>4. ASSUME Whole
      PROVE  /\ pos =< Len(input) /\ payload = Received
             /\ m.first \in DOMAIN params'
             /\ "payload" \in DOMAIN params' <=> b # <<>>
             /\ \A i \in 1..n : Told(i, n)'
  <2>1. /\ pos =< Len(input) /\ payload = Received /\ contentLength = Len(b)
        /\ KnowsParams(Count(m))
    BY <1>1, <1>4 DEF InFinish
  <2>2. /\ m.first \in DOMAIN params /\ "payload" \notin DOMAIN params
        /\ \A i \in 1..n : Told(i, n)
    <3>1. Count(m) > 0 /\ Count(m) - 1 = n
      BY <1>3
    <3> QED BY <2>1, <3>1 DEF KnowsParams
  <2>3. b = <<>> <=> Len(b) = 0
    <3> HIDE DEF b
    <3> QED BY <1>2, EmptySeq
  <2>4. CASE Len(b) = 0
    <3>1. params' = params
      BY <1>1, <2>1, <2>4
    <3>2. \A i \in 1..n : Told(i, n)'
      <4>1. params' = params /\ message' = message
        BY <1>1, <3>1
      <4> HIDE DEF n
      <4> QED BY <1>0, <2>2, <4>1 DEF Told
    <3> QED BY <2>1, <2>2, <2>3, <2>4, <3>1, <3>2
  <2>5. CASE Len(b) # 0
    <3>1. params' = [x \in DOMAIN params \cup {"length", "payload"} |->
                        IF x \in {"length", "payload"} THEN Len(b)
                        ELSE params[x]]
      <4>1. contentLength > 0 /\ contentLength = Len(b)
        BY <1>2, <2>1, <2>5
      <4> QED BY <1>1, <4>1
    <3> HIDE DEF n, b
    <3>2. ASSUME NEW i \in 1..n PROVE Told(i, n)'
      <4> DEFINE h == Headers(m)[i]
      <4>1. Told(i, n) /\ h.is # "payload"
        BY <1>2, <2>2, HeadersAre DEF n
      <4>2. Headers(message') = Headers(m)
        BY <1>1
      <4>3. h.is = "length" => h.val = Len(b)
        <5>1. i # Place(m) => h.is # "length"
          BY <1>2, HeadersAre DEF n
        <5>2. Headers(m)[Place(m)] = Framing(m)
          BY <1>2, HeadersAre
        <5>3. Framing(m).is = "length" => Framing(m).val = Len(b)
          BY DEF Framing, Token, b
        <5> QED BY <5>1, <5>2, <5>3
      <4> HIDE DEF h
      <4>4. CASE h.is = "length"
        <5>1. h.is \in DOMAIN params' /\ params'[h.is] = h.val
          BY <3>1, <4>3, <4>4
        <5> QED BY <1>0, <4>2, <5>1 DEF Told, h
      <4>5. CASE h.is # "length"
        <5>1. h.is \in DOMAIN params =>
                 h.is \in DOMAIN params' /\ params'[h.is] = params[h.is]
          BY <3>1, <4>1, <4>5
        <5> QED BY <1>0, <4>1, <4>2, <5>1 DEF Told, h
      <4> QED BY <4>4, <4>5
    <3>3. m.first \in DOMAIN params' /\ "payload" \in DOMAIN params'
      BY <2>2, <3>1
    <3> QED BY <2>1, <2>3, <2>5, <3>2, <3>3
  <2> QED BY <2>4, <2>5
<1>5. IsDone'
  <2>1. Whole' => Whole
    BY <1>1 DEF Whole
  <2>2. message'.chunked => PayloadIsPrefix'
    BY <1>1 DEF InFinish, PayloadIsPrefix
  <2>3. Received' = Received
    BY <1>1 DEF Received
  <2>4. Whole' => /\ pos' =< Len(input') /\ payload' = Received'
                  /\ message'.first \in DOMAIN params'
                  /\ "payload" \in DOMAIN params' <=> Body(message') # <<>>
                  /\ \A i \in 1..Len(Headers(message')) :
                        Told(i, Len(Headers(message)))'
    BY <1>0, <1>1, <1>4, <2>1, <2>3
  <2> QED BY <2>2, <2>4 DEF IsDone
<1> QED BY <1>1, <1>5 DEF PhaseInv

-----------------------------------------------------------------------------
(* THEOREMS                                                                *)

(* Nothing changes what has arrived.                                       *)
LEMMA InputStays == Next => UNCHANGED <<message, input>>
  BY DEF Next, LineBeyondEnd, Throw, EmptyLine, FirstLine, Header, StartChunks,
     SizeBeyondEnd, ReadChunk, ChunkStep, BodyBeyondEnd, ReadBody, BodyStep,
     NoBody, Finish, string

LEMMA NextHolds == HInv /\ [Next]_vars => HInv'
<1> SUFFICES ASSUME HInv, [Next]_vars PROVE HInv'
  OBVIOUS
<1>1. InputInv
  BY DEF HInv
<1>2. CASE UNCHANGED vars
  <2>1. UNCHANGED <<message, input, phase, pos, headerCount, contentLength,
                    isChunked, payload, params>>
    BY <1>2 DEF vars, string, scan, result
  <2>2. InputInv' /\ (Stuck => Stuck')
    BY <1>1, <2>1 DEF InputInv, Text, Stuck
  <2>3. PhaseInv => PhaseInv'
    <3>1. \A k : KnowsParams(k) => KnowsParams(k)'
      BY <2>1 DEF KnowsParams, Told
    <3>2. \A k : AtLine(k) => AtLine(k)'
      BY <2>1, <3>1 DEF AtLine, KnowsFraming
    <3>3. Broken => Broken'
      BY <2>1 DEF Broken, Text
    <3>4. (InHeaders => InHeaders') /\ (InPayload => InPayload')
      BY <2>1, <3>2, <3>3 DEF InHeaders, InPayload
    <3>5. \A j : AtChunk(j) => AtChunk(j)'
      BY <2>1, <3>1 DEF AtChunk, Start, Gone
    <3>6. InChunks => InChunks'
      BY <2>1, <3>5 DEF InChunks, Places, Text
    <3>7. PayloadIsPrefix' = PayloadIsPrefix /\ Received' = Received /\ Whole' = Whole
      BY <2>1 DEF PayloadIsPrefix, Received, Whole
    <3>8. InFinish => InFinish'
      BY <2>1, <3>1, <3>7 DEF InFinish
    <3>9. IsDone => IsDone'
      BY <2>1, <3>7 DEF IsDone, Told
    <3> QED BY <2>1, <3>4, <3>6, <3>7, <3>8, <3>9 DEF PhaseInv
  <2> QED BY <2>1, <2>2, <2>3 DEF HInv
<1>3. CASE Next
  <2>1. UNCHANGED <<message, input>>
    BY <1>3, InputStays
  <2>2. InputInv'
    BY <1>1, <2>1 DEF InputInv, Text
  <2>3. CASE message.leading > 0
    <3>1. Stuck'
      BY <1>1, <1>3, <2>3, StuckStays DEF HInv
    <3> QED BY <2>1, <2>2, <2>3, <3>1 DEF HInv
  <2>4. CASE ~(message.leading > 0)
    <3>1. message.leading = 0 /\ PhaseInv
      <4>1. message.leading \in Nat
        BY <1>1, MessageIs DEF InputInv
      <4> QED BY <2>4, <4>1 DEF HInv
    <3>2. PhaseInv'
      <4>1. CASE LineBeyondEnd
        BY <1>1, <3>1, <4>1, LineBeyondEndR
      <4>2. CASE EmptyLine
        BY <1>1, <3>1, <4>2, EmptyLineR
      <4>3. CASE FirstLine
        BY <1>1, <3>1, <4>3, FirstLineR
      <4>4. CASE Header
        BY <1>1, <3>1, <4>4, HeaderR
      <4>5. CASE StartChunks
        BY <1>1, <3>1, <4>5, StartChunksR
      <4>6. CASE SizeBeyondEnd
        BY <1>1, <3>1, <4>6, SizeBeyondEndR
      <4>7. CASE ReadChunk
        BY <1>1, <3>1, <4>7, ReadChunkR
      <4>8. CASE BodyBeyondEnd
        BY <1>1, <3>1, <4>8, BodyBeyondEndR
      <4>9. CASE ReadBody
        BY <1>1, <3>1, <4>9, ReadBodyR
      <4>10. CASE NoBody
        BY <1>1, <3>1, <4>10, NoBodyR
      <4>11. CASE Finish
        BY <1>1, <3>1, <4>11, FinishR
      <4> QED BY <1>3, <4>1, <4>2, <4>3, <4>4, <4>5, <4>6, <4>7, <4>8, <4>9,
             <4>10, <4>11 DEF Next
    <3> QED BY <2>1, <2>2, <2>4, <3>2 DEF HInv
  <2> QED BY <2>3, <2>4
<1> QED BY <1>2, <1>3

(* utils/http.cpp, pos: at every step the parser is where the bytes of the *)
(* message say it is, at the beginning of a line or of a chunk, with what  *)
(* stands before it.                                                       *)
THEOREM ParserFollowsMessage == Spec => []HInv
<1>1. Init => HInv
  BY InitHolds
<1>2. HInv /\ [Next]_vars => HInv'
  BY NextHolds
<1> QED BY <1>1, <1>2, PTL DEF Spec

(* The bytes of a body, and the NUL in place of the last one, are no       *)
(* memory behind the message.                                              *)
LEMMA ReceivedIs ==
    ASSUME InputInv
    PROVE  \A i \in DOMAIN Received : Received[i] # Garbage
<1> DEFINE b == Body(message)
<1>1. b \in Seq(Tokens) /\ \A i \in 1..Len(b) : b[i] # Garbage
  BY BodyIs DEF InputInv
<1>2. DOMAIN b = 1..Len(b)
  BY <1>1, LenProperties
<1> HIDE DEF b
<1>3. DOMAIN [b EXCEPT ![Len(b)] = NUL] = DOMAIN b
  OBVIOUS
<1>4. ASSUME NEW i \in DOMAIN b
      PROVE  [b EXCEPT ![Len(b)] = NUL][i] # Garbage
  BY <1>1, <1>2, SomeTokens
<1>5. Received = b \/ Received = [b EXCEPT ![Len(b)] = NUL]
  BY DEF Received, b
<1> QED BY <1>1, <1>2, <1>3, <1>4, <1>5

(* utils/http.cpp, positions: a request or reply that has arrived as a     *)
(* whole is read within its bounds.                                        *)
THEOREM WholeMessagesAreReadInside ==
    ASSUME Starts \subseteq {"request", "response"}
    PROVE  Spec => []WholeIsReadInside
<1>1. HInv => WholeIsReadInside
  <2> SUFFICES ASSUME HInv, Whole
               PROVE  /\ phase \notin {"thrown", "exited"}
                      /\ pos =< Len(input)
                      /\ \A i \in DOMAIN payload : payload[i] # Garbage
    BY DEF WholeIsReadInside
  <2>1. /\ InputInv /\ Len(input) \in Nat /\ Len(input) = Len(Text)
        /\ message.first \in {"request", "response"}
    <3>1. InputInv
      BY DEF HInv
    <3>2. message.first \in Starts
      BY <3>1, MessageIs DEF InputInv
    <3> QED BY <3>1, <3>2, WholeIs
  <2>2. \A i \in DOMAIN <<>> : <<>>[i] # Garbage
    OBVIOUS
  <2>3. CASE message.leading > 0
    BY <2>1, <2>2, <2>3 DEF HInv, Stuck
  <2>4. CASE ~(message.leading > 0)
    <3>1. PhaseInv /\ message.leading = 0
      <4>1. message.leading \in Nat
        BY <2>1, MessageIs DEF InputInv
      <4> QED BY <2>4, <4>1 DEF HInv
    <3>2. ~Broken
      BY <2>1 DEF Broken
    <3>3. CASE phase \in {"headers", "payload"}
      <4>1. payload = <<>> /\ pos =< Len(input)
        BY <3>1, <3>2, <3>3 DEF PhaseInv, InHeaders, InPayload, AtLine
      <4> QED BY <2>2, <3>3, <4>1
    <3>4. CASE phase = "chunks"
      <4>1. message.chunked /\ \E j \in Places : AtChunk(j)
        BY <2>1, <3>1, <3>4 DEF PhaseInv, InChunks
      <4>2. PICK j \in Places : pos = Start(j) /\ payload = Gone(j)
        BY <4>1 DEF AtChunk
      <4>3. pos =< Len(input)
        <5>1. Start(j) \in Nat /\ Start(j) + 5 =< Len(Text)
          BY <2>1, <3>1, <4>1, StartIs
        <5> QED BY <2>1, <4>2, <5>1
      <4>4. \A i \in DOMAIN payload : payload[i] # Garbage
        <5>1. /\ Gone(j) \in Seq(Tokens)
              /\ \A i \in 1..Len(Gone(j)) : Gone(j)[i] # Garbage
          BY <2>1, GoneIs
        <5>2. DOMAIN Gone(j) = 1..Len(Gone(j))
          BY <5>1, LenProperties
        <5> QED BY <4>2, <5>1, <5>2
      <4> QED BY <3>4, <4>3, <4>4
    <3>5. CASE phase \in {"finish", "done"}
      <4>1. payload = Received /\ pos =< Len(input)
        BY <3>1, <3>5 DEF PhaseInv, InFinish, IsDone
      <4> QED BY <2>1, <3>5, <4>1, ReceivedIs
    <3> QED BY <2>1, <3>1, <3>3, <3>4, <3>5 DEF PhaseInv
  <2> QED BY <2>3, <2>4
<1> QED BY <1>1, ParserFollowsMessage, PTL

(* utils/http.cpp, readHttpMessage: the auditing modules get the body and  *)
(* the headers that were sent, in whatever chunks and whatever the bytes.  *)
THEOREM MessagesAreRecovered == Spec => []MessageIsRecovered
<1>1. HInv => MessageIsRecovered
  <2> SUFFICES ASSUME HInv, Whole, phase = "done" PROVE MessageIsRecovered
    BY DEF MessageIsRecovered
  <2> DEFINE n == Len(Headers(message))
  <2>1. IsDone /\ InputInv
    BY DEF HInv, Stuck, PhaseInv
  <2>2. /\ payload = Received /\ message.first \in DOMAIN params
        /\ "payload" \in DOMAIN params <=> Body(message) # <<>>
        /\ \A i \in 1..n : Told(i, n)
    BY <2>1 DEF IsDone
  <2>3. DOMAIN Headers(message) = 1..n
    <3>1. Headers(message) \in Seq(Tokens)
      BY <2>1, HeadersAre DEF InputInv
    <3> QED BY <3>1, LenProperties
  <2> HIDE DEF n
  <2> QED BY <2>2, <2>3 DEF MessageIsRecovered, Told, Received
<1> QED BY <1>1, ParserFollowsMessage, PTL

(* utils/http.cpp, readHttpChunkedMessage: a chunked message that breaks   *)
(* off is not mistaken for another one.                                    *)
THEOREM CutBodiesArePrefixes == Spec => []CutBodyIsPrefix
<1>1. HInv => CutBodyIsPrefix
  BY DEF HInv, Stuck, PhaseInv, IsDone, CutBodyIsPrefix, PayloadIsPrefix
<1> QED BY <1>1, ParserFollowsMessage, PTL
=============================================================================
