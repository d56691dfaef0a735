---------------------------- MODULE StreamLemmas ----------------------------
(***************************************************************************)
(* Facts about FlattenSeq, the concatenation of a sequence of sequences,   *)
(* by which the modules say what a stream of bytes is made of.             *)
(*                                                                         *)
(* FlattenSeq is a recursive function.  Induction comes from the library's *)
(* theorem that every set of natural numbers has a least element.          *)
(***************************************************************************)
EXTENDS SequencesExt, Integers, SequenceTheorems, WellFoundedInduction, TLAPS

LEMMA Least ==
    ASSUME NEW T \in SUBSET Nat, T # {}
    PROVE  \E m \in T : \A k \in T : m <= k
<1> DEFINE R == OpToRel(<, Nat)
<1>1. IsWellFoundedOn(R, Nat)
  BY NatLessThanWellFounded
<1>2. \A x, y \in Nat : y < x => <<y, x>> \in R
  BY DEF OpToRel
<1> HIDE DEF R
<1>3. \E x \in T : \A y \in T : ~(<<y, x>> \in R)
  BY <1>1, WFMin
<1>4. \E x \in T : \A y \in T : ~(y < x)
  BY <1>2, <1>3, Zenon
<1> QED
  BY <1>4

\* A set with 0 and the successor of each of its numbers has all of them.
LEMMA Induction ==
    ASSUME NEW P, 0 \in P, \A n \in Nat : n \in P => n + 1 \in P
    PROVE  \A n \in Nat : n \in P
<1> DEFINE T == Nat \ P
<1> SUFFICES ASSUME T # {} PROVE FALSE
  OBVIOUS
<1>1. PICK m \in T : \A k \in T : m <= k
  BY Least
<1>2. m - 1 \in Nat /\ m - 1 \notin T
  BY <1>1
<1>3. m - 1 + 1 \in P
  BY <1>2
<1> QED
  BY <1>1, <1>3

-----------------------------------------------------------------------------
\* f joins more and more of the first n sequences of ss.
Joins(f, ss, n) ==
    f = [i \in 1..n |-> IF i = 1 THEN ss[i] ELSE f[i - 1] \o ss[i]]

LEMMA JoinsValue ==
    ASSUME NEW f, NEW ss, NEW n, Joins(f, ss, n), NEW i \in 1..n
    PROVE  f[i] = IF i = 1 THEN ss[i] ELSE f[i - 1] \o ss[i]
<1> DEFINE h == [j \in 1..n |-> IF j = 1 THEN ss[j] ELSE f[j - 1] \o ss[j]]
<1>1. h[i] = IF i = 1 THEN ss[i] ELSE f[i - 1] \o ss[i]
  OBVIOUS
<1>2. f = h
  BY Zenon DEF Joins
<1> HIDE DEF h
<1> QED
  BY <1>1, <1>2

LEMMA JoinsExist == ASSUME NEW ss, NEW n \in Nat PROVE \E f : Joins(f, ss, n)
<1> DEFINE P == {k \in Nat : \E f : Joins(f, ss, k)}
<1>1. 0 \in P
  <2> DEFINE f == [i \in 1..0 |-> ss]
  <2>1. Joins(f, ss, 0)
    BY DEF Joins
  <2> QED
    BY <2>1
<1>2. ASSUME NEW k \in Nat, k \in P PROVE k + 1 \in P
  <2>1. PICK f : Joins(f, ss, k)
    BY <1>2
  <2> DEFINE g == [i \in 1..k + 1 |-> IF i = 1 THEN ss[i] ELSE f[i - 1] \o ss[i]]
             h == [i \in 1..k + 1 |-> IF i = 1 THEN ss[i] ELSE g[i - 1] \o ss[i]]
  <2>2. \A i \in 1..k : g[i] = f[i]
    BY <2>1, JoinsValue
  <2>3. ASSUME NEW i \in 1..k + 1 PROVE g[i] = h[i]
    <3>1. CASE i = 1
      BY <3>1
    <3>2. CASE i # 1
      <4>1. i - 1 \in 1..k
        BY <3>2
      <4> QED
        BY <2>2, <3>2, <4>1
    <3> QED
      BY <3>1, <3>2
  <2>4. g = h
    BY <2>3, Zenon
  <2>5. Joins(g, ss, k + 1)
    BY <2>4, Zenon DEF Joins
  <2> QED
    BY <2>5
<1> HIDE DEF P
<1>3. n \in P
  BY <1>1, <1>2, Induction
<1> QED
  BY <1>3 DEF P

\* What is joined depends on the sequences joined so far only.
LEMMA JoinsAgree ==
    ASSUME NEW f, NEW ss, NEW m \in Nat, Joins(f, ss, m),
           NEW g, NEW tt, NEW n \in Nat, Joins(g, tt, n),
           NEW k \in 1..m, k <= n, \A i \in 1..k : ss[i] = tt[i]
    PROVE  f[k] = g[k]
<1> DEFINE P == {j \in Nat : j \in 1..k => f[j] = g[j]}
<1>1. 0 \in P
  OBVIOUS
<1>2. ASSUME NEW j \in Nat, j \in P PROVE j + 1 \in P
  <2> SUFFICES ASSUME j + 1 \in 1..k PROVE f[j + 1] = g[j + 1]
    OBVIOUS
  <2>0. j + 1 \in 1..m /\ j + 1 \in 1..n
    OBVIOUS
  <2>1. /\ f[j + 1] = IF j + 1 = 1 THEN ss[j + 1] ELSE f[j + 1 - 1] \o ss[j + 1]
        /\ g[j + 1] = IF j + 1 = 1 THEN tt[j + 1] ELSE g[j + 1 - 1] \o tt[j + 1]
    BY <2>0, JoinsValue
  <2>2. CASE j = 0
    BY <2>1, <2>2
  <2>3. CASE j # 0
    <3>1. j \in 1..k /\ j + 1 - 1 = j /\ j + 1 # 1
      BY <2>3
    <3>2. f[j] = g[j]
      BY <1>2, <3>1
    <3> QED
      BY <2>1, <3>1, <3>2
  <2> QED
    BY <2>2, <2>3
<1> HIDE DEF P
<1>3. k \in P
  BY <1>1, <1>2, Induction
<1> QED
  BY <1>3 DEF P

LEMMA FlattenJoins ==
    ASSUME NEW ss, Len(ss) \in Nat \ {0}
    PROVE  \E f : Joins(f, ss, Len(ss)) /\ FlattenSeq(ss) = f[Len(ss)]
<1> DEFINE f == CHOOSE f : Joins(f, ss, Len(ss))
<1>1. Joins(f, ss, Len(ss))
  BY JoinsExist
<1>2. FlattenSeq(ss) = f[Len(ss)]
  BY DEF FlattenSeq, Joins
<1> QED
  BY <1>1, <1>2

LEMMA NotEmpty == ASSUME NEW s, Len(s) # 0 PROVE s # <<>>
<1>1. Len(<<>>) = 0
  OBVIOUS
<1> QED
  BY <1>1, Zenon

LEMMA FlattenEmpty == FlattenSeq(<<>>) = <<>>
BY DEF FlattenSeq

LEMMA FlattenOne == ASSUME NEW s PROVE FlattenSeq(<<s>>) = s
<1> DEFINE ss == <<s>>
<1>1. Len(ss) = 1 /\ ss[1] = s /\ Len(ss) \in Nat \ {0}
  OBVIOUS
<1> HIDE DEF ss
<1>2. PICK f : Joins(f, ss, Len(ss)) /\ FlattenSeq(ss) = f[Len(ss)]
  BY <1>1, FlattenJoins
<1>3. f[1] = s
  BY <1>1, <1>2, JoinsValue
<1> QED
  BY <1>1, <1>2, <1>3 DEF ss

\* What is appended comes last.
LEMMA FlattenAppend ==
    ASSUME NEW S, NEW ss \in Seq(Seq(S)), NEW s \in Seq(S)
    PROVE  FlattenSeq(Append(ss, s)) = FlattenSeq(ss) \o s
<1> DEFINE tt == Append(ss, s)
           n  == Len(ss)
<1>1. /\ n \in Nat /\ Len(tt) = n + 1 /\ tt[n + 1] = s
      /\ \A i \in 1..n : tt[i] = ss[i]
  BY AppendProperties, LenProperties
<1>2. CASE ss = <<>>
  <2>1. tt = <<s>>
    BY <1>2
  <2> QED
    BY <1>2, <2>1, FlattenEmpty, FlattenOne, ConcatEmptySeq
<1>3. CASE ss # <<>>
  <2>0. n \in Nat \ {0}
    BY <1>3, EmptySeq
  <2> HIDE DEF tt, n
  <2>1. PICK f : Joins(f, ss, n) /\ FlattenSeq(ss) = f[n]
    BY <2>0, FlattenJoins DEF n
  <2>2. PICK g : Joins(g, tt, n + 1) /\ FlattenSeq(tt) = g[n + 1]
    <3>1. Len(tt) \in Nat \ {0}
      BY <1>1
    <3> QED
      BY <1>1, <3>1, FlattenJoins
  <2>3. g[n + 1] = g[n] \o s
    <3>1. n + 1 \in 1..n + 1 /\ n + 1 # 1 /\ n + 1 - 1 = n
      BY <2>0
    <3>2. PICK m : m = n + 1 /\ Joins(g, tt, m) /\ m \in 1..m
      BY ONLY <2>2, <3>1
    <3>3. g[m] = IF m = 1 THEN tt[m] ELSE g[m - 1] \o tt[m]
      BY <3>2, JoinsValue
    <3> QED
      BY ONLY <1>1, <3>1, <3>2, <3>3
  <2>4. f[n] = g[n]
    BY <1>1, <2>0, <2>1, <2>2, JoinsAgree
  <2> QED
    BY <2>1, <2>2, <2>3, <2>4 DEF tt
<1> QED
  BY <1>2, <1>3

\* A sequence that is not empty is another with an element behind it.
LEMMA Parts ==
    ASSUME NEW S, NEW s \in Seq(S), s # <<>>
    PROVE  \E t \in Seq(S), e \in S : s = Append(t, e) /\ Len(s) = Len(t) + 1
<1>1. PICK t \in Seq(S), e \in S : s = Append(t, e)
  BY SequenceEmptyOrAppend
<1> QED
  BY <1>1, AppendProperties

LEMMA FlattenType ==
    ASSUME NEW S, NEW ss \in Seq(Seq(S)) PROVE FlattenSeq(ss) \in Seq(S)
<1> DEFINE P == {n \in Nat : \A tt \in Seq(Seq(S)) :
                               Len(tt) = n => FlattenSeq(tt) \in Seq(S)}
<1>1. 0 \in P
  BY FlattenEmpty, EmptySeq
<1>2. ASSUME NEW n \in Nat, n \in P PROVE n + 1 \in P
  <2> SUFFICES ASSUME NEW tt \in Seq(Seq(S)), Len(tt) = n + 1
               PROVE  FlattenSeq(tt) \in Seq(S)
    OBVIOUS
  <2>0. tt # <<>>
    OBVIOUS
  <2>1. PICK uu \in Seq(Seq(S)), u \in Seq(S) :
           tt = Append(uu, u) /\ Len(tt) = Len(uu) + 1
    BY <2>0, Parts
  <2>2. Len(uu) = n
    BY <2>1, LenProperties
  <2>3. FlattenSeq(uu) \in Seq(S)
    BY <1>2, <2>2
  <2> QED
    BY <2>1, <2>3, FlattenAppend, ConcatProperties
<1> HIDE DEF P
<1>3. Len(ss) \in P
  BY <1>1, <1>2, Induction, LenProperties
<1> QED
  BY <1>3 DEF P

LEMMA ConcatElements ==
    ASSUME NEW S, NEW s \in Seq(S), NEW t \in Seq(S)
    PROVE  ToSet(s \o t) = ToSet(s) \cup ToSet(t)
<1> DEFINE m == Len(s)
           n == Len(t)
           w == s \o t
<1>1. /\ m \in Nat /\ DOMAIN s = 1..m /\ n \in Nat /\ DOMAIN t = 1..n
      /\ DOMAIN w = 1..m + n
      /\ \A i \in 1..m + n : w[i] = IF i <= m THEN s[i] ELSE t[i - m]
  BY ConcatProperties, LenProperties
<1> HIDE DEF m, n, w
<1>2. \A i \in 1..m : i \in 1..m + n /\ w[i] = s[i]
  BY <1>1
<1>3. \A i \in 1..n : m + i \in 1..m + n /\ w[m + i] = t[i]
  BY <1>1
<1>4. \A i \in 1..m + n : i \in 1..m \/ (i - m \in 1..n /\ w[i] = t[i - m])
  BY <1>1
<1>5. ASSUME NEW e PROVE e \in ToSet(w) <=> e \in ToSet(s) \/ e \in ToSet(t)
  <2>1. ASSUME NEW i \in 1..m + n, e = w[i]
        PROVE  (\E j \in 1..m : e = s[j]) \/ (\E j \in 1..n : e = t[j])
    BY <1>2, <1>4, <2>1
  <2>2. ASSUME NEW j \in 1..m, e = s[j] PROVE \E i \in 1..m + n : e = w[i]
    BY <1>2, <2>2
  <2>3. ASSUME NEW j \in 1..n, e = t[j] PROVE \E i \in 1..m + n : e = w[i]
    BY <1>3, <2>3
  <2>4. /\ e \in ToSet(w) <=> \E i \in 1..m + n : e = w[i]
        /\ e \in ToSet(s) <=> \E i \in 1..m : e = s[i]
        /\ e \in ToSet(t) <=> \E i \in 1..n : e = t[i]
    BY <1>1, Zenon DEF ToSet
  <2> QED
    BY <2>1, <2>2, <2>3, <2>4, Zenon
<1> QED
  BY <1>5 DEF w

\* What is first comes first: for sequences of every length.
LEMMA FlattenTailOfLength ==
    ASSUME NEW S
    PROVE  \A n \in Nat : \A tt \in Seq(Seq(S)) : Len(tt) = n + 1 =>
              FlattenSeq(tt) = Head(tt) \o FlattenSeq(Tail(tt))
<1> DEFINE P == {n \in Nat : \A tt \in Seq(Seq(S)) : Len(tt) = n + 1 =>
                    FlattenSeq(tt) = Head(tt) \o FlattenSeq(Tail(tt))}
<1>1. 0 \in P
  <2> SUFFICES ASSUME NEW tt \in Seq(Seq(S)), Len(tt) = 1
               PROVE  FlattenSeq(tt) = Head(tt) \o FlattenSeq(Tail(tt))
    OBVIOUS
  <2>1. tt[1] \in Seq(S)
    <3>1. 1 \in 1..Len(tt)
      OBVIOUS
    <3> QED
      BY ONLY <3>1, tt \in Seq(Seq(S)), ElementOfSeq
  <2>2. tt = <<tt[1]>>
    <3>1. <<tt[1]>> \in Seq(Seq(S)) /\ Len(<<tt[1]>>) = 1
      BY ONLY <2>1
    <3>2. \A i \in 1..Len(tt) : tt[i] = <<tt[1]>>[i]
      OBVIOUS
    <3> QED
      BY <3>1, <3>2, SeqEqual
  <2>3. Tail(tt) \in Seq(Seq(S)) /\ Len(Tail(tt)) = 0 /\ Head(tt) = tt[1]
    <3>1. tt # <<>>
      <4>1. Len(tt) # 0
        OBVIOUS
      <4> QED
        BY <4>1, NotEmpty, Zenon
    <3>2. Len(Tail(tt)) = Len(tt) - 1
      BY ONLY <3>1, tt \in Seq(Seq(S)), HeadTailProperties
    <3> QED
      BY <3>1, <3>2, HeadTailProperties
  <2>4. Tail(tt) = <<>>
    BY ONLY <2>3, EmptySeq
  <2>5. FlattenSeq(tt) = tt[1]
    BY <2>2, FlattenOne, Zenon
  <2>6. tt[1] \o <<>> = tt[1]
    BY <2>1, ConcatEmptySeq
  <2> QED
    BY ONLY <2>3, <2>4, <2>5, <2>6, FlattenEmpty
<1>2. ASSUME NEW n \in Nat, n \in P PROVE n + 1 \in P
  <2> SUFFICES ASSUME NEW tt \in Seq(Seq(S)), Len(tt) = n + 2
               PROVE  FlattenSeq(tt) = Head(tt) \o FlattenSeq(Tail(tt))
    OBVIOUS
  <2>0. tt # <<>>
    OBVIOUS
  <2>1. PICK uu \in Seq(Seq(S)), u \in Seq(S) :
           tt = Append(uu, u) /\ Len(tt) = Len(uu) + 1
    BY <2>0, Parts
  <2>2. Len(uu) = n + 1 /\ uu # <<>>
    BY <2>1, LenProperties
  <2>3. FlattenSeq(uu) = Head(uu) \o FlattenSeq(Tail(uu))
    BY <1>2, <2>2
  <2>4. Head(tt) = Head(uu) /\ Tail(tt) = Append(Tail(uu), u)
    BY <2>1, <2>2, HeadTailAppend
  <2>5. Head(uu) \in Seq(S) /\ Tail(uu) \in Seq(Seq(S))
    BY <2>2, HeadTailProperties
  <2>6. FlattenSeq(Tail(uu)) \in Seq(S)
    BY <2>5, FlattenType
  <2>7. FlattenSeq(tt) = FlattenSeq(uu) \o u
    BY <2>1, FlattenAppend
  <2>8. FlattenSeq(Tail(tt)) = FlattenSeq(Tail(uu)) \o u
    BY <2>4, <2>5, FlattenAppend
  <2>9. (Head(uu) \o FlattenSeq(Tail(uu))) \o u
           = Head(uu) \o (FlattenSeq(Tail(uu)) \o u)
    <3>1. PICK a \in Seq(S), b \in Seq(S) :
             a = Head(uu) /\ b = FlattenSeq(Tail(uu))
      BY <2>5, <2>6, Zenon
    <3>2. (a \o b) \o u = a \o (b \o u)
      BY ONLY a \in Seq(S), b \in Seq(S), u \in Seq(S), ConcatAssociative, SMTT(30)
    <3> QED
      BY <3>1, <3>2, Zenon
  <2> QED
    BY ONLY <2>3, <2>4, <2>7, <2>8, <2>9
<1> HIDE DEF P
<1>3. \A n \in Nat : n \in P
  BY <1>1, <1>2, Induction
<1> QED
  BY <1>3 DEF P

LEMMA FlattenTail ==
    ASSUME NEW S, NEW ss \in Seq(Seq(S)), ss # <<>>
    PROVE  FlattenSeq(ss) = Head(ss) \o FlattenSeq(Tail(ss))
<1>1. Len(ss) - 1 \in Nat /\ Len(ss) = Len(ss) - 1 + 1
  BY EmptySeq
<1> QED
  BY <1>1, FlattenTailOfLength, Zenon

\* A stream of single elements is the sequence of them.
LEMMA FlattenSingles ==
    ASSUME NEW S, NEW s \in Seq(S)
    PROVE  FlattenSeq([i \in DOMAIN s |-> <<s[i]>>]) = s
<1> DEFINE Singles(t) == [i \in DOMAIN t |-> <<t[i]>>]
           P == {n \in Nat : \A t \in Seq(S) :
                               Len(t) = n => FlattenSeq(Singles(t)) = t}
<1>1. 0 \in P
  <2> SUFFICES ASSUME NEW t \in Seq(S), Len(t) = 0 PROVE FlattenSeq(Singles(t)) = t
    OBVIOUS
  <2>1. t = <<>>
    BY EmptySeq
  <2>2. Singles(t) = <<>>
    BY <2>1
  <2> QED
    BY <2>1, <2>2, FlattenEmpty
<1>2. ASSUME NEW n \in Nat, n \in P PROVE n + 1 \in P
  <2> SUFFICES ASSUME NEW t \in Seq(S), Len(t) = n + 1
               PROVE  FlattenSeq(Singles(t)) = t
    OBVIOUS
  <2>0. t # <<>>
    OBVIOUS
  <2>1. PICK u \in Seq(S), e \in S : t = Append(u, e) /\ Len(t) = Len(u) + 1
    BY <2>0, Parts
  <2>2. Len(u) = n /\ DOMAIN u = 1..n /\ \A i \in 1..n : u[i] \in S
    BY <2>1, LenProperties, ElementOfSeq
  <2>3. FlattenSeq(Singles(u)) = u
    BY <1>2, <2>2
  <2>4. Singles(u) \in Seq(Seq(S)) /\ <<e>> \in Seq(S) /\ Len(Singles(u)) = n
    BY <2>2
  <2>5. Singles(t) = Append(Singles(u), <<e>>)
    <3>1. /\ DOMAIN t = 1..n + 1 /\ t[n + 1] = e
          /\ \A i \in 1..n : t[i] = u[i]
      BY <2>1, <2>2, AppendProperties, LenProperties
    <3> QED
      BY <2>2, <2>4, <3>1
  <2> HIDE DEF Singles
  <2>6. FlattenSeq(Singles(t)) = u \o <<e>>
    BY <2>3, <2>4, <2>5, FlattenAppend
  <2> QED
    BY <2>1, <2>6, AppendIsConcat
<1> HIDE DEF P
<1>3. Len(s) \in P
  BY <1>1, <1>2, Induction, LenProperties
<1> QED
  BY <1>3 DEF P

\* Where no part is empty, nothing is left only when no part is.
LEMMA FlattenNothing ==
    ASSUME NEW S, NEW ss \in Seq(Seq(S)), FlattenSeq(ss) = <<>>,
           \A i \in DOMAIN ss : Len(ss[i]) # 0
    PROVE  ss = <<>>
<1> SUFFICES ASSUME ss # <<>> PROVE FALSE
  OBVIOUS
<1>1. Head(ss) \in Seq(S) /\ FlattenSeq(Tail(ss)) \in Seq(S) /\ Len(Head(ss)) # 0
  <2>1. 1 \in DOMAIN ss /\ Head(ss) = ss[1]
    BY LenProperties, EmptySeq
  <2> QED
    BY <2>1, HeadTailProperties, FlattenType
<1>2. Len(Head(ss) \o FlattenSeq(Tail(ss))) = 0
  BY FlattenTail
<1> QED
  BY <1>1, <1>2, ConcatProperties, LenProperties

\* The elements of a stream are those of its parts.
LEMMA FlattenElements ==
    ASSUME NEW S, NEW ss \in Seq(Seq(S))
    PROVE  ToSet(FlattenSeq(ss)) = UNION {ToSet(ss[i]) : i \in DOMAIN ss}
<1> DEFINE All(tt) == UNION {ToSet(tt[i]) : i \in DOMAIN tt}
           P == {n \in Nat : \A tt \in Seq(Seq(S)) :
                               Len(tt) = n => ToSet(FlattenSeq(tt)) = All(tt)}
<1>1. 0 \in P
  <2> SUFFICES ASSUME NEW tt \in Seq(Seq(S)), Len(tt) = 0
               PROVE  ToSet(FlattenSeq(tt)) = All(tt)
    OBVIOUS
  <2>1. tt = <<>>
    BY EmptySeq
  <2> QED
    BY <2>1, FlattenEmpty DEF ToSet
<1>2. ASSUME NEW n \in Nat, n \in P PROVE n + 1 \in P
  <2> SUFFICES ASSUME NEW tt \in Seq(Seq(S)), Len(tt) = n + 1
               PROVE  ToSet(FlattenSeq(tt)) = All(tt)
    OBVIOUS
  <2>0. tt # <<>>
    OBVIOUS
  <2>1. PICK uu \in Seq(Seq(S)), u \in Seq(S) :
           tt = Append(uu, u) /\ Len(tt) = Len(uu) + 1
    BY <2>0, Parts
  <2>2. Len(uu) = n /\ DOMAIN uu = 1..n /\ DOMAIN tt = 1..n + 1
    BY <2>1, LenProperties
  <2>3. tt[n + 1] = u /\ \A i \in 1..n : tt[i] = uu[i]
    BY <2>1, <2>2, AppendProperties
  <2>4. All(tt) = All(uu) \cup ToSet(u)
    <3>1. \A i \in 1..n + 1 : i \in 1..n \/ i = n + 1
      OBVIOUS
    <3>2. n + 1 \in 1..n + 1 /\ \A i \in 1..n : i \in 1..n + 1
      OBVIOUS
    <3> QED
      BY <2>2, <2>3, <3>1, <3>2, Zenon
  <2>5. FlattenSeq(tt) = FlattenSeq(uu) \o u /\ FlattenSeq(uu) \in Seq(S)
    BY <2>1, FlattenAppend, FlattenType
  <2>6. ToSet(FlattenSeq(uu) \o u) = ToSet(FlattenSeq(uu)) \cup ToSet(u)
    BY <2>5, ConcatElements
  <2>7. ToSet(FlattenSeq(uu)) = All(uu)
    BY <1>2, <2>2
  <2> QED
    BY <2>4, <2>5, <2>6, <2>7
<1> HIDE DEF P
<1>3. Len(ss) \in P
  BY <1>1, <1>2, Induction, LenProperties
<1> QED
  BY <1>3 DEF P

\* A stream of parts of at most one element is no longer than their number.
LEMMA FlattenShort ==
    ASSUME NEW S, NEW ss \in Seq(Seq(S)), \A i \in DOMAIN ss : Len(ss[i]) <= 1
    PROVE  Len(FlattenSeq(ss)) <= Len(ss)
<1> DEFINE Short(tt) == \A i \in DOMAIN tt : Len(tt[i]) <= 1
           P == {n \in Nat : \A tt \in Seq(Seq(S)) :
                    Len(tt) = n /\ Short(tt) => Len(FlattenSeq(tt)) <= n}
<1>1. 0 \in P
  <2> SUFFICES ASSUME NEW tt \in Seq(Seq(S)), Len(tt) = 0
               PROVE  Len(FlattenSeq(tt)) <= 0
    OBVIOUS
  <2>1. FlattenSeq(tt) = <<>>
    BY EmptySeq, FlattenEmpty
  <2> QED
    BY <2>1
<1>2. ASSUME NEW n \in Nat, n \in P PROVE n + 1 \in P
  <2> SUFFICES ASSUME NEW tt \in Seq(Seq(S)), Len(tt) = n + 1, Short(tt)
               PROVE  Len(FlattenSeq(tt)) <= n + 1
    OBVIOUS
  <2>0. tt # <<>>
    OBVIOUS
  <2>1. PICK uu \in Seq(Seq(S)), u \in Seq(S) :
           tt = Append(uu, u) /\ Len(tt) = Len(uu) + 1
    BY <2>0, Parts
  <2>2. Len(uu) = n /\ DOMAIN uu = 1..n /\ DOMAIN tt = 1..n + 1
    BY <2>1, LenProperties
  <2>3. tt[n + 1] = u /\ \A i \in 1..n : tt[i] = uu[i]
    BY <2>1, <2>2, AppendProperties
  <2>4. Len(u) <= 1 /\ Short(uu)
    <3>1. n + 1 \in DOMAIN tt /\ \A i \in 1..n : i \in DOMAIN tt
      BY <2>2
    <3> QED
      BY <2>2, <2>3, <3>1
  <2>5. FlattenSeq(tt) = FlattenSeq(uu) \o u /\ FlattenSeq(uu) \in Seq(S)
    BY <2>1, FlattenAppend, FlattenType
  <2>6. PICK f \in Seq(S) : f = FlattenSeq(uu)
    BY <2>5
  <2>7. Len(f \o u) = Len(f) + Len(u) /\ Len(f) \in Nat /\ Len(u) \in Nat
    BY ONLY f \in Seq(S), u \in Seq(S), ConcatProperties, LenProperties
  <2>8. Len(f) <= n
    BY <1>2, <2>2, <2>4, <2>6
  <2>9. Len(f \o u) <= n + 1
    BY ONLY n \in Nat, <2>4, <2>7, <2>8
  <2> QED
    BY <2>5, <2>6, <2>9
<1> HIDE DEF P
<1>3. Len(ss) \in P
  BY <1>1, <1>2, Induction, LenProperties
<1> QED
  BY <1>3 DEF P

-----------------------------------------------------------------------------
(* Cutting a stream *)

\* What is cut off the front of a sequence and what is left make up the whole.
LEMMA Cut ==
    ASSUME NEW S, NEW s \in Seq(S), NEW k \in 0..Len(s)
    PROVE  /\ SubSeq(s, 1, k) \in Seq(S) /\ Len(SubSeq(s, 1, k)) = k
           /\ SubSeq(s, k + 1, Len(s)) \in Seq(S)
           /\ Len(SubSeq(s, k + 1, Len(s))) = Len(s) - k
           /\ s = SubSeq(s, 1, k) \o SubSeq(s, k + 1, Len(s))
<1>1. Len(s) \in Nat /\ \A i \in 1..Len(s) : s[i] \in S
  BY LenProperties, ElementOfSeq
<1>2. /\ SubSeq(s, 1, k) \in Seq(S) /\ Len(SubSeq(s, 1, k)) = k
  BY <1>1, SubSeqProperties
<1>3. /\ SubSeq(s, k + 1, Len(s)) \in Seq(S)
      /\ Len(SubSeq(s, k + 1, Len(s))) = Len(s) - k
  BY <1>1, SubSeqProperties
<1>4. /\ 1 \in 1..Len(s) + 1 /\ k \in 1 - 1..Len(s) /\ Len(s) \in k..Len(s)
  BY <1>1
<1>5. SubSeq(s, 1, k) \o SubSeq(s, k + 1, Len(s)) = SubSeq(s, 1, Len(s))
  BY <1>4, ConcatAdjacentSubSeq
<1> QED
  BY <1>2, <1>3, <1>5, SubSeqFull

\* Two ways to part one stream agree where both fronts reach.
LEMMA FrontsAgree ==
    ASSUME NEW S, NEW b \in Seq(S), NEW r \in Seq(S), NEW p \in Seq(S),
           NEW q \in Seq(S), b \o r = p \o q,
           NEW i \in 1..Len(b), i <= Len(p)
    PROVE  b[i] = p[i]
<1>1. (b \o r)[i] = b[i] /\ (p \o q)[i] = p[i]
  BY ConcatProperties, LenProperties
<1> QED
  BY <1>1

\* A front that reaches as far as p begins with p, and the rest follows p.
LEMMA FrontTaken ==
    ASSUME NEW S, NEW b \in Seq(S), NEW r \in Seq(S), NEW p \in Seq(S),
           NEW q \in Seq(S), b \o r = p \o q, Len(p) <= Len(b)
    PROVE  SubSeq(b, 1, Len(p)) = p /\ SubSeq(b, Len(p) + 1, Len(b)) \o r = q
<1> DEFINE n == Len(p)
           c == SubSeq(b, 1, n)
           d == SubSeq(b, n + 1, Len(b))
<1>1. n \in 0..Len(b)
  BY LenProperties
<1>2. /\ c \in Seq(S) /\ Len(c) = n /\ d \in Seq(S) /\ b = c \o d
  BY <1>1, Cut, ZenonT(30)
<1>3. \A i \in 1..n : c[i] = b[i]
  <2>1. \A i \in 1..n : b[i] \in S
    BY <1>1, ElementOfSeq
  <2> QED
    BY <1>1, <2>1, SubSeqProperties
<1>4. \A i \in 1..n : b[i] = p[i]
  BY <1>1, FrontsAgree
<1> HIDE DEF n, c, d
<1>5. c = p
  BY <1>2, <1>3, <1>4, SeqEqual DEF n
<1>6. (c \o d) \o r = c \o (d \o r) /\ d \o r \in Seq(S)
  <2>1. c \in Seq(S) /\ d \in Seq(S) /\ r \in Seq(S)
    BY <1>2
  <2>2. (c \o d) \o r = c \o (d \o r)
    BY ONLY <2>1, ConcatAssociative, SMTT(30)
  <2>3. d \o r \in Seq(S)
    BY ONLY <2>1, ConcatProperties
  <2> QED
    BY <2>2, <2>3
<1>7. p \o (d \o r) = p \o q
  BY <1>2, <1>5, <1>6
<1>8. d \o r = q
  BY <1>6, <1>7, ConcatSimplifications
<1> QED
  BY <1>5, <1>8 DEF n, c, d

\* What is taken off the front of a stream is taken off its first part.
LEMMA TailConcat ==
    ASSUME NEW S, NEW s \in Seq(S), NEW t \in Seq(S), s # <<>>
    PROVE  s \o t # <<>> /\ Tail(s \o t) = Tail(s) \o t
<1> DEFINE u == Tail(s)
<1>1. /\ s \o t \in Seq(S) /\ Len(s \o t) = Len(s) + Len(t)
      /\ \A i \in 1..Len(s) + Len(t) :
            (s \o t)[i] = IF i <= Len(s) THEN s[i] ELSE t[i - Len(s)]
  BY ConcatProperties
<1>2. /\ u \in Seq(S) /\ Len(u) = Len(s) - 1
      /\ \A i \in 1..Len(u) : u[i] = s[i + 1]
  BY HeadTailProperties
<1>3. Len(s) \in Nat \ {0} /\ Len(t) \in Nat
  BY EmptySeq, LenProperties
<1>4. s \o t # <<>>
  <2>1. Len(s \o t) # 0
    BY <1>1, <1>3
  <2> QED
    BY <2>1, NotEmpty, Zenon
<1>5. /\ Tail(s \o t) \in Seq(S) /\ Len(Tail(s \o t)) = Len(s) - 1 + Len(t)
      /\ \A i \in 1..Len(s) - 1 + Len(t) : Tail(s \o t)[i] = (s \o t)[i + 1]
  <2>1. PICK w : w = s \o t /\ w \in Seq(S) /\ w # <<>>
                 /\ Len(w) = Len(s) + Len(t)
    BY <1>1, <1>4
  <2>2. /\ Tail(w) \in Seq(S) /\ Len(Tail(w)) = Len(w) - 1
        /\ \A i \in 1..Len(Tail(w)) : Tail(w)[i] = w[i + 1]
    BY ONLY <2>1, HeadTailProperties
  <2> QED
    BY <1>3, <2>1, <2>2
<1> HIDE DEF u
<1>6. /\ u \o t \in Seq(S) /\ Len(u \o t) = Len(s) - 1 + Len(t)
      /\ \A i \in 1..Len(s) - 1 + Len(t) :
            (u \o t)[i] = IF i <= Len(s) - 1 THEN u[i] ELSE t[i - (Len(s) - 1)]
  <2>1. u \in Seq(S) /\ t \in Seq(S)
    BY <1>2
  <2>2. /\ u \o t \in Seq(S) /\ Len(u \o t) = Len(u) + Len(t)
        /\ \A i \in 1..Len(u) + Len(t) :
              (u \o t)[i] = IF i <= Len(u) THEN u[i] ELSE t[i - Len(u)]
    BY ONLY <2>1, ConcatProperties
  <2> QED
    BY ONLY <1>2, <2>2
<1>7. ASSUME NEW i \in 1..Len(s) - 1 + Len(t)
      PROVE  Tail(s \o t)[i] = (u \o t)[i]
  <2>1. Tail(s \o t)[i] = IF i + 1 <= Len(s) THEN s[i + 1] ELSE t[i + 1 - Len(s)]
    <3>1. i + 1 \in 1..Len(s) + Len(t)
      BY <1>3
    <3> QED
      BY <1>1, <1>5, <3>1
  <2>2. (u \o t)[i] = IF i <= Len(s) - 1 THEN s[i + 1] ELSE t[i - (Len(s) - 1)]
    BY <1>2, <1>3, <1>6
  <2>3. i + 1 - Len(s) = i - (Len(s) - 1) /\ (i + 1 <= Len(s) <=> i <= Len(s) - 1)
    BY <1>3
  <2> QED
    BY <2>1, <2>2, <2>3
<1>8. Tail(s \o t) = u \o t
  <2>1. PICK v, w : v = Tail(s \o t) /\ w = u \o t /\ v \in Seq(S) /\ w \in Seq(S)
                    /\ Len(v) = Len(w) /\ \A i \in 1..Len(v) : v[i] = w[i]
    <3>1. Len(Tail(s \o t)) = Len(u \o t)
      BY <1>5, <1>6
    <3>2. \A i \in 1..Len(Tail(s \o t)) : Tail(s \o t)[i] = (u \o t)[i]
      BY <1>5, <1>7
    <3> QED
      BY <1>5, <1>6, <3>1, <3>2, Zenon
  <2>2. v = w
    BY ONLY <2>1, SeqEqual
  <2> QED
    BY <2>1, <2>2
<1> QED
  BY <1>4, <1>8 DEF u

-----------------------------------------------------------------------------
(* The last of what counts: of the elements of a sequence that are in A, the *)
(* last is in B.                                                             *)

NoneIn(s, A) == \A i \in DOMAIN s : s[i] \notin A
LastIn(s, A, B) ==
    \E i \in DOMAIN s : s[i] \in B /\ \A j \in DOMAIN s : s[j] \in A => j <= i

LEMMA LastAppend ==
    ASSUME NEW S, NEW s \in Seq(S), NEW e \in S, NEW A, NEW B
    PROVE  /\ e \in B => LastIn(Append(s, e), A, B)
           /\ e \notin A /\ NoneIn(s, A) => NoneIn(Append(s, e), A)
           /\ e \notin A /\ LastIn(s, A, B) => LastIn(Append(s, e), A, B)
<1> DEFINE n == Len(s)
           w == Append(s, e)
<1>1. /\ n \in Nat /\ DOMAIN s = 1..n /\ DOMAIN w = 1..n + 1
      /\ w[n + 1] = e /\ \A i \in 1..n : w[i] = s[i]
  BY AppendProperties, LenProperties
<1> HIDE DEF n, w
<1>2. \A i \in 1..n + 1 : i \in 1..n \/ i = n + 1
  BY <1>1
<1>3. ASSUME e \in B PROVE LastIn(w, A, B)
  <2>1. n + 1 \in DOMAIN w /\ \A j \in DOMAIN w : j <= n + 1
    BY <1>1
  <2> QED
    BY <1>1, <1>3, <2>1, Zenon DEF LastIn
<1>4. ASSUME e \notin A, NoneIn(s, A) PROVE NoneIn(w, A)
  BY <1>1, <1>2, <1>4, Zenon DEF NoneIn
<1>5. ASSUME e \notin A, LastIn(s, A, B) PROVE LastIn(w, A, B)
  <2>1. PICK i \in 1..n : s[i] \in B /\ \A j \in 1..n : s[j] \in A => j <= i
    BY <1>1, <1>5, Zenon DEF LastIn
  <2>2. i \in DOMAIN w /\ w[i] \in B
    BY <1>1, <2>1
  <2>3. \A j \in DOMAIN w : w[j] \in A => j <= i
    BY <1>1, <1>2, <1>5, <2>1
  <2> QED
    BY <2>2, <2>3, Zenon DEF LastIn
<1> QED
  BY <1>3, <1>4, <1>5 DEF w

LEMMA LastTail ==
    ASSUME NEW S, NEW s \in Seq(S), s # <<>>, NEW A, NEW B
    PROVE  /\ NoneIn(s, A) => Head(s) \notin A /\ NoneIn(Tail(s), A)
           /\ LastIn(s, A, B) => \/ LastIn(Tail(s), A, B)
                                 \/ Head(s) \in B /\ NoneIn(Tail(s), A)
<1> DEFINE n == Len(s)
           t == Tail(s)
<1>1. /\ n \in Nat \ {0} /\ DOMAIN s = 1..n /\ DOMAIN t = 1..n - 1
      /\ Head(s) = s[1] /\ \A i \in 1..n - 1 : t[i] = s[i + 1]
  BY HeadTailProperties, LenProperties, EmptySeq
<1> HIDE DEF n, t
<1>2. 1 \in 1..n /\ \A i \in 1..n - 1 : i + 1 \in 1..n /\ i + 1 # 1
  BY <1>1
<1>3. ASSUME NoneIn(s, A) PROVE Head(s) \notin A /\ NoneIn(t, A)
  BY <1>1, <1>2, <1>3, Zenon DEF NoneIn
<1>4. ASSUME LastIn(s, A, B)
      PROVE  LastIn(t, A, B) \/ (Head(s) \in B /\ NoneIn(t, A))
  <2>1. PICK i \in 1..n : s[i] \in B /\ \A j \in 1..n : s[j] \in A => j <= i
    BY <1>1, <1>4, Zenon DEF LastIn
  <2>2. CASE i = 1
    <3>1. \A j \in 1..n - 1 : s[j + 1] \notin A
      BY <1>1, <1>2, <2>1, <2>2
    <3> QED
      BY <1>1, <2>1, <2>2, <3>1 DEF NoneIn
  <2>3. CASE i # 1
    <3>1. i - 1 \in DOMAIN t /\ t[i - 1] \in B
      BY <1>1, <2>1, <2>3
    <3>2. \A j \in DOMAIN t : t[j] \in A => j <= i - 1
      <4> SUFFICES ASSUME NEW j \in 1..n - 1, t[j] \in A PROVE j <= i - 1
        BY <1>1
      <4>1. s[j + 1] \in A /\ j + 1 \in 1..n
        BY <1>1, <1>2
      <4>2. j + 1 <= i
        BY <2>1, <4>1
      <4> QED
        BY <1>1, <4>2
    <3> QED
      BY <3>1, <3>2, Zenon DEF LastIn
  <2> QED
    BY <2>2, <2>3
<1> QED
  BY <1>3, <1>4 DEF t
=============================================================================
