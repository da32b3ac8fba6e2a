---------------------------- MODULE CodecsProofs ----------------------------
(***************************************************************************)
(* The conversions of Codecs for inputs of every length: what the parsers  *)
(* read is what the encoders were given, and the URL validator accepts its *)
(* grammar.                                                                *)
(***************************************************************************)
EXTENDS RoundTrips, WellFoundedInduction, TLAPS

-----------------------------------------------------------------------------
(* Induction and recursion                                                 *)

\* A set of numbers that contains 0 and the successor of each of its members
\* contains every number.
LEMMA NatSetInduction ==
    ASSUME NEW T, 0 \in T, \A n \in Nat : n \in T => n + 1 \in T
    PROVE  Nat \subseteq T
<1> DEFINE U == Nat \ T
<1>1. SUFFICES ASSUME U # {} PROVE FALSE
  OBVIOUS
<1>2. PICK x \in U : \A y \in U : ~(<<y, x>> \in OpToRel(<, Nat))
  <2>1. U \subseteq Nat
    OBVIOUS
  <2> HIDE DEF U
  <2> QED
    BY <1>1, <2>1, WFMin, NatLessThanWellFounded, Zenon
<1>3. \A y \in U : ~(y < x)
  BY <1>2, Zenon DEF OpToRel
<1>4. x # 0 /\ x - 1 \in Nat /\ x - 1 \in T
  BY <1>3
<1> QED
  BY <1>4

\* The same up to a bound.
LEMMA BoundedInduction ==
    ASSUME NEW N \in Nat, NEW T, 0 \in T, \A n \in 0..(N - 1) : n \in T => n + 1 \in T
    PROVE  \A n \in 0..N : n \in T
<1> DEFINE V == {n \in Nat : n <= N => n \in T}
<1>1. 0 \in V
  OBVIOUS
<1>2. \A n \in Nat : n \in V => n + 1 \in V
  OBVIOUS
<1> HIDE DEF V
<1>3. Nat \subseteq V
  BY <1>1, <1>2, NatSetInduction
<1> QED
  BY <1>3 DEF V

\* The same downwards from a bound.
LEMMA BackwardInduction ==
    ASSUME NEW N \in Nat, NEW T, N \in T, \A n \in 1..N : n \in T => n - 1 \in T
    PROVE  \A n \in 0..N : n \in T
<1> DEFINE V == {n \in 0..N : N - n \in T}
<1>1. 0 \in V
  OBVIOUS
<1>2. ASSUME NEW n \in 0..(N - 1), n \in V
      PROVE  n + 1 \in V
  <2>1. N - n \in 1..N /\ N - n \in T /\ (N - n) - 1 = N - (n + 1) /\ n + 1 \in 0..N
    BY <1>2
  <2> QED
    BY <2>1
<1> HIDE DEF V
<1>3. \A n \in 0..N : n \in V
  BY <1>1, <1>2, BoundedInduction, Zenon
<1>4. ASSUME NEW n \in 0..N
      PROVE  n \in T
  <2>1. N - n \in 0..N /\ N - (N - n) = n
    OBVIOUS
  <2> QED
    BY <1>3, <2>1 DEF V
<1> QED
  BY <1>4

\* E gives the value of a function at a place from its values at places of lower
\* rank.
Descends(D, S, E, rank) ==
    \A x \in D : \A f, g \in [D -> S] :
        (\A y \in D : rank[y] < rank[x] => f[y] = g[y]) => E[f][x] = E[g][x]

Recursive(D, S, E) ==
    /\ S # {}
    /\ E \in [[D -> S] -> [D -> S]]
    /\ \E N \in Nat : \E rank \in [D -> 0..N] : Descends(D, S, E, rank)

\* A function may be defined by recursion along a bounded rank.
LEMMA Recursion ==
    ASSUME NEW D, NEW S, NEW E, Recursive(D, S, E)
    PROVE  \E f \in [D -> S] : f = E[f]
<1> PICK N \in Nat : \E rank \in [D -> 0..N] : Descends(D, S, E, rank)
  BY DEF Recursive
<1>0. PICK rank \in [D -> 0..N] : Descends(D, S, E, rank)
  OBVIOUS
<1> PICK c \in S : TRUE
  BY DEF Recursive
<1> E \in [[D -> S] -> [D -> S]]
  BY DEF Recursive
<1>00. \A x \in D : \A f, g \in [D -> S] :
         (\A y \in D : rank[y] < rank[x] => f[y] = g[y]) => E[f][x] = E[g][x]
  BY <1>0 DEF Descends
<1> DEFINE Upto(f, n) == \A x \in D : rank[x] < n => f[x] = E[f][x]
           T == {n \in Nat : \E f \in [D -> S] : Upto(f, n)}
<1>1. 0 \in T
  <2>1. [x \in D |-> c] \in [D -> S]
    OBVIOUS
  <2>2. Upto([x \in D |-> c], 0)
    OBVIOUS
  <2> QED
    BY <2>1, <2>2
<1>2. ASSUME NEW n \in Nat, n \in T
      PROVE  n + 1 \in T
  <2>1. PICK f \in [D -> S] : Upto(f, n)
    BY <1>2
  <2> DEFINE h == [x \in D |-> IF rank[x] < n THEN f[x] ELSE E[f][x]]
  <2>2. h \in [D -> S]
    OBVIOUS
  <2>3. \A y \in D : rank[y] < n => h[y] = f[y]
    OBVIOUS
  <2>4. \A x \in D : h[x] = E[f][x]
    BY <2>1
  <2> HIDE DEF h
  <2>5. ASSUME NEW x \in D, rank[x] < n + 1
        PROVE  h[x] = E[h][x]
    <3>1. \A y \in D : rank[y] < rank[x] => h[y] = f[y]
      BY <2>3, <2>5
    <3>2. E[h][x] = E[f][x]
      BY <1>00, <2>2, <3>1, Zenon
    <3> QED
      BY <2>4, <3>2, Zenon
  <2> QED
    BY <2>2, <2>5
<1> HIDE DEF T
<1>3. N + 1 \in T
  BY <1>1, <1>2, NatSetInduction
<1>4. PICK f \in [D -> S] : Upto(f, N + 1)
  BY <1>3 DEF T
<1>5. \A x \in D : f[x] = E[f][x]
  BY <1>4
<1> DEFINE e == E[f]
<1>6. f \in [D -> S] /\ e \in [D -> S] /\ \A x \in D : f[x] = e[x]
  BY <1>5
<1> HIDE DEF e
<1>7. f = e
  BY <1>6
<1> QED
  BY <1>7 DEF e

-----------------------------------------------------------------------------
(* Concat                                                                  *)

\* The elements of a part of a sequence.
Within(S, s, m, n) ==
    s \in Seq(S) /\ m \in Nat /\ n \in Nat /\ 1 <= m /\ m <= n + 1 /\ n <= Len(s)

\* What SubSeq gives for such a part.
LEMMA PartElements ==
    ASSUME NEW S, NEW s, NEW m, NEW n, Within(S, s, m, n)
    PROVE  /\ SubSeq(s, m, n) \in Seq(S)
           /\ Len(SubSeq(s, m, n)) = n - m + 1
           /\ \A j \in 1..(n - m + 1) : SubSeq(s, m, n)[j] = s[m + j - 1]
BY DEF Within

\* The elements of the first part of one.
LEMMA PrefixElements ==
    ASSUME NEW S, NEW s \in Seq(S), NEW n \in Nat, n <= Len(s)
    PROVE  /\ SubSeq(s, 1, n) \in Seq(S)
           /\ Len(SubSeq(s, 1, n)) = n
           /\ \A j \in 1..n : SubSeq(s, 1, n)[j] = s[j]
OBVIOUS

\* A sequence over a set is one over every larger set.
LEMMA SeqOfSubset ==
    ASSUME NEW A, NEW B, A \subseteq B, NEW s \in Seq(A)
    PROVE  s \in Seq(B)
OBVIOUS

\* A short sequence is its elements, one after the other.
LEMMA FewElements ==
    ASSUME NEW S, NEW s \in Seq(S)
    PROVE  /\ Len(s) = 1 => <<s[1]>> \o <<>> \o <<>> = s
           /\ Len(s) = 2 => <<s[1]>> \o <<s[2]>> \o <<>> = s
           /\ Len(s) = 3 => <<s[1]>> \o <<s[2]>> \o <<s[3]>> = s
<1>1. CASE Len(s) = 1
  BY <1>1
<1>2. CASE Len(s) = 2
  <2> DEFINE v == <<s[1]>> \o <<s[2]>> \o <<>>
  <2>1. s[1] \in S /\ s[2] \in S
    <3>1. 1 \in 1..2 /\ 2 \in 1..2 /\ \A i \in 1..Len(s) : s[i] \in S
      OBVIOUS
    <3> QED
      BY <1>2, <3>1, Zenon
  <2>2. v \in Seq(S) /\ Len(v) = 2 /\ v[1] = s[1] /\ v[2] = s[2]
    BY <2>1
  <2> HIDE DEF v
  <2>3. v = s
    BY <1>2, <2>2
  <2> QED
    BY <1>2, <2>3 DEF v
<1>3. CASE Len(s) = 3
  <2> DEFINE v == <<s[1]>> \o <<s[2]>> \o <<s[3]>>
  <2>1. s[1] \in S /\ s[2] \in S /\ s[3] \in S
    BY <1>3, SMTT(30)
  <2>2. v \in Seq(S) /\ Len(v) = 3 /\ v[1] = s[1] /\ v[2] = s[2] /\ v[3] = s[3]
    BY <2>1
  <2> HIDE DEF v
  <2>3. v = s
    BY <1>3, <2>2
  <2> QED
    BY <1>3, <2>3 DEF v
<1> QED
  BY <1>1, <1>2, <1>3, Zenon

Alike(S, s, t) ==
    s \in Seq(S) /\ t \in Seq(S) /\ Len(s) = Len(t) /\ \A i \in 1..Len(s) : s[i] = t[i]

\* Two sequences with the same elements are equal.
LEMMA SameSequence ==
    ASSUME NEW S, NEW s, NEW t, Alike(S, s, t)
    PROVE  s = t
BY DEF Alike

\* t is the part m..n of s.
IsPart(S, s, m, n, t) ==
    /\ Within(S, s, m, n)
    /\ t \in Seq(S) /\ Len(t) = n - m + 1
    /\ \A j \in 1..Len(t) : s[m + j - 1] = t[j]

\* What has the elements of the part is what SubSeq gives.
LEMMA PartIs ==
    ASSUME NEW S, NEW s, NEW m, NEW n, NEW t, IsPart(S, s, m, n, t)
    PROVE  SubSeq(s, m, n) = t
<1> DEFINE p == SubSeq(s, m, n)
<1>1. /\ Within(S, s, m, n)
      /\ t \in Seq(S) /\ Len(t) = n - m + 1
      /\ \A j \in 1..Len(t) : s[m + j - 1] = t[j]
  BY Zenon DEF IsPart
<1>2. /\ p \in Seq(S) /\ Len(p) = n - m + 1
      /\ \A j \in 1..(n - m + 1) : p[j] = s[m + j - 1]
  BY <1>1 DEF Within
<1> HIDE DEF p
<1>3. Alike(S, p, t)
  BY <1>1, <1>2, Zenon DEF Alike
<1> QED
  BY <1>3, SameSequence, Zenon DEF p

\* The empty sequence adds nothing on either side.
LEMMA EmptyConcat ==
    ASSUME NEW S, NEW s \in Seq(S)
    PROVE  <<>> \o s = s /\ s \o <<>> = s
OBVIOUS

\* The elements of two sequences, one after the other.
IsConcat(S, p, s, t) ==
    /\ p \in Seq(S)
    /\ Len(s) \in Nat /\ Len(t) \in Nat
    /\ Len(p) = Len(s) + Len(t)
    /\ \A k \in 1..Len(s) : k \in 1..Len(p) /\ p[k] = s[k]
    /\ \A k \in 1..Len(t) : Len(s) + k \in 1..Len(p) /\ p[Len(s) + k] = t[k]

\* What \o gives.
LEMMA ConcatElements ==
    ASSUME NEW S, NEW s \in Seq(S), NEW t \in Seq(S)
    PROVE  IsConcat(S, s \o t, s, t)
BY DEF IsConcat

\* Concat takes the parts one by one.
LEMMA ConcatSteps ==
    ASSUME NEW S, NEW ss \in Seq(Seq(S))
    PROVE  \E G : /\ G[0] = <<>>
                  /\ \A i \in 1..Len(ss) : G[i] = G[i - 1] \o ss[i]
                  /\ Concat(ss) = G[Len(ss)]
<1> DEFINE N == Len(ss)
           D == 0..N
           step(f, i) == IF i = 0 THEN <<>> ELSE f[i - 1] \o ss[i]
           G == CHOOSE f : f = [i \in D |-> step(f, i)]
<1>1. N \in Nat /\ \A i \in 1..N : ss[i] \in Seq(S)
  OBVIOUS
<1>2. Concat(ss) = G[N]
  BY Zenon DEF Concat
<1>3. \E f : f = [i \in D |-> step(f, i)]
  <2> DEFINE E == [f \in [D -> Seq(S)] |-> [i \in D |-> step(f, i)]]
             rank == [i \in D |-> i]
  <2> HIDE DEF N
  <2>0. <<>> \in Seq(S)
    OBVIOUS
  <2>1. rank \in [D -> 0..N]
    BY <1>1
  <2>2. ASSUME NEW f \in [D -> Seq(S)], NEW i \in D
        PROVE  step(f, i) \in Seq(S)
    <3>1. i # 0 => f[i - 1] \in Seq(S) /\ ss[i] \in Seq(S)
      BY <1>1
    <3> QED
      BY <2>0, <3>1
  <2>3. E \in [[D -> Seq(S)] -> [D -> Seq(S)]]
    BY <2>2, Zenon
  <2>4. ASSUME NEW i \in D, NEW f \in [D -> Seq(S)], NEW g \in [D -> Seq(S)],
               \A y \in D : rank[y] < rank[i] => f[y] = g[y]
        PROVE  E[f][i] = E[g][i]
    <3>1. i # 0 => i - 1 \in D /\ f[i - 1] = g[i - 1]
      BY <1>1, <2>4
    <3>2. step(f, i) = step(g, i)
      BY <3>1, Zenon
    <3> QED
      BY <3>2, Zenon
  <2> HIDE DEF E, rank, D
  <2>5. \A x \in D : \A f, g \in [D -> Seq(S)] :
          (\A y \in D : rank[y] < rank[x] => f[y] = g[y]) => E[f][x] = E[g][x]
    BY <2>4, Zenon
  <2>6. N \in Nat
    BY <1>1
  <2>7. PICK f \in [D -> Seq(S)] : f = E[f]
    <3>1. Descends(D, Seq(S), E, rank)
      BY <2>5, Zenon DEF Descends
    <3>2. Recursive(D, Seq(S), E)
      BY <2>0, <2>1, <2>3, <2>6, <3>1, Zenon DEF Recursive
    <3> QED
      BY <3>2, Recursion
  <2> QED
    BY <2>7, Zenon DEF E
<1>4. G = [i \in D |-> step(G, i)]
  BY <1>3, Zenon
<1>5. \A i \in D : G[i] = step(G, i)
  BY <1>4, Zenon
<1> HIDE DEF G
<1>6. G[0] = <<>>
  BY <1>1, <1>5
<1>7. ASSUME NEW i \in 1..N
      PROVE  G[i] = G[i - 1] \o ss[i]
  <2>1. i \in D /\ i # 0
    BY <1>1
  <2> QED
    BY <1>5, <2>1, Zenon
<1> QED
  BY <1>2, <1>6, <1>7, Zenon

\* Where the parts of ss are in t, which is nothing but them: part i ends at at[i].
Placed(ss, t, at) ==
    /\ at \in [0..Len(ss) -> Nat]
    /\ at[0] = 0
    /\ \A i \in 1..Len(ss) : at[i] = at[i - 1] + Len(ss[i])
    /\ Len(t) = at[Len(ss)]
    /\ \A i \in 1..Len(ss) : \A j \in 1..Len(ss[i]) :
         at[i - 1] + j \in 1..Len(t) /\ t[at[i - 1] + j] = ss[i][j]

\* Concat puts the parts one after the other.
LEMMA ConcatPlaced ==
    ASSUME NEW S, NEW ss \in Seq(Seq(S))
    PROVE  /\ Concat(ss) \in Seq(S)
           /\ \E at : Placed(ss, Concat(ss), at)
<1> DEFINE N == Len(ss)
<1>1. N \in Nat /\ \A i \in 1..N : ss[i] \in Seq(S)
  OBVIOUS
<1>2. PICK G : /\ G[0] = <<>>
               /\ \A i \in 1..N : G[i] = G[i - 1] \o ss[i]
               /\ Concat(ss) = G[N]
  BY ConcatSteps, Zenon
<1> DEFINE at == [i \in 0..N |-> Len(G[i])]
           Has(n, i, j) == at[i - 1] + j \in 1..at[n] /\ G[n][at[i - 1] + j] = ss[i][j]
           T == {n \in 0..N : /\ G[n] \in Seq(S)
                              /\ n # 0 => at[n] = at[n - 1] + Len(ss[n])
                              /\ \A i \in 1..n : \A j \in 1..Len(ss[i]) : Has(n, i, j)}
<1> HIDE DEF N
<1>3. 0 \in T
  <2>1. G[0] \in Seq(S) /\ 0 \in 0..N /\ 1..0 = {}
    BY <1>1, <1>2
  <2> HIDE DEF Has, at
  <2> QED
    BY <2>1, Zenon
<1>4. ASSUME NEW n \in 0..(N - 1), n \in T
      PROVE  n + 1 \in T
  <2>0. G[n] \in Seq(S)
    BY <1>4, Zenon
  <2>1. /\ n + 1 \in 1..N /\ n \in 0..N /\ n + 1 \in 0..N /\ (n + 1) - 1 = n /\ n + 1 # 0
        /\ ss[n + 1] \in Seq(S)
    BY <1>1
  <2>11. G[n + 1] = G[n] \o ss[n + 1]
    BY <1>2, <2>1, Zenon
  <2>2. /\ G[n + 1] \in Seq(S)
        /\ Len(G[n + 1]) = Len(G[n]) + Len(ss[n + 1])
        /\ \A k \in 1..Len(G[n]) : k \in 1..Len(G[n + 1]) /\ G[n + 1][k] = G[n][k]
        /\ \A k \in 1..Len(ss[n + 1]) : /\ Len(G[n]) + k \in 1..Len(G[n + 1])
                                        /\ G[n + 1][Len(G[n]) + k] = ss[n + 1][k]
    <3> DEFINE a == G[n]
               b == ss[n + 1]
               c == G[n + 1]
    <3>1. a \in Seq(S) /\ b \in Seq(S) /\ c = a \o b
      BY <2>0, <2>1, <2>11, Zenon
    <3> HIDE DEF a, b, c
    <3>2. /\ c \in Seq(S)
          /\ Len(c) = Len(a) + Len(b)
          /\ \A k \in 1..Len(a) : k \in 1..Len(c) /\ c[k] = a[k]
          /\ \A k \in 1..Len(b) : Len(a) + k \in 1..Len(c) /\ c[Len(a) + k] = b[k]
      BY <3>1
    <3> QED
      BY <3>2, Zenon DEF a, b, c
  <2>3. at[n] = Len(G[n]) /\ at[n + 1] = Len(G[n + 1])
    BY <2>1
  <2>4. \A i \in 1..n : \A j \in 1..Len(ss[i]) : Has(n, i, j)
    BY <1>4, Zenon
  <2> HIDE DEF at
  <2>5. ASSUME NEW i \in 1..(n + 1), NEW j \in 1..Len(ss[i])
        PROVE  Has(n + 1, i, j)
    <3>1. CASE i = n + 1
      <4>1. i - 1 = n /\ j \in 1..Len(ss[n + 1])
        BY <2>1, <3>1
      <4>2. Len(G[n]) + j \in 1..Len(G[n + 1]) /\ G[n + 1][Len(G[n]) + j] = ss[n + 1][j]
        BY <2>2, <4>1, Zenon
      <4> QED
        BY <2>3, <3>1, <4>1, <4>2, Zenon
    <3>2. CASE i # n + 1
      <4>1. i \in 1..n
        BY <2>1, <3>2
      <4>2. at[i - 1] + j \in 1..at[n] /\ G[n][at[i - 1] + j] = ss[i][j]
        BY <2>4, <4>1, Zenon
      <4> DEFINE p == at[i - 1] + j
      <4>3. p \in 1..at[n + 1] /\ G[n + 1][p] = ss[i][j]
        <5>1. p \in 1..at[n] /\ G[n][p] = ss[i][j]
          BY <4>2
        <5> HIDE DEF p
        <5> QED
          BY <2>2, <2>3, <5>1, Zenon
      <4> QED
        BY <4>3
    <3> QED
      BY <3>1, <3>2
  <2> QED
    BY <2>1, <2>2, <2>3, <2>5, Zenon
<1> HIDE DEF T
<1>5. \A n \in 0..N : n \in T
  BY <1>1, <1>3, <1>4, BoundedInduction, Zenon
<1>6. N \in T
  BY <1>1, <1>5
<1>7. Placed(ss, Concat(ss), at)
  <2>1. Concat(ss) = G[N] /\ at[0] = 0 /\ Len(Concat(ss)) = at[N]
    BY <1>1, <1>2
  <2>2. at \in [0..N -> Nat]
    <3>1. \A n \in 0..N : Len(G[n]) \in Nat
      BY <1>5 DEF T
    <3> QED
      BY <3>1
  <2> HIDE DEF at
  <2>3. ASSUME NEW i \in 1..N
        PROVE  at[i] = at[i - 1] + Len(ss[i])
    <3>1. i \in T /\ i # 0
      BY <1>1, <1>5
    <3> HIDE DEF Has
    <3> QED
      BY <3>1, Zenon DEF T
  <2>4. \A i \in 1..N : \A j \in 1..Len(ss[i]) :
          at[i - 1] + j \in 1..at[N] /\ G[N][at[i - 1] + j] = ss[i][j]
    <3> HIDE DEF Has
    <3>1. \A i \in 1..N : \A j \in 1..Len(ss[i]) : Has(N, i, j)
      BY <1>6, Zenon DEF T
    <3> QED
      BY <3>1, Zenon DEF Has
  <2> QED
    BY <2>1, <2>2, <2>3, <2>4, Zenon DEF Placed, N
<1>8. Concat(ss) \in Seq(S)
  BY <1>2, <1>6 DEF T
<1> QED
  BY <1>7, <1>8, Zenon

\* Place p is in a part.
InPart(ss, at, p) == \E i \in 1..Len(ss) : \E j \in 1..Len(ss[i]) : p = at[i - 1] + j

\* Every place of t is in a part.
LEMMA PlacedCovers ==
    ASSUME NEW S, NEW ss \in Seq(Seq(S)), NEW t, NEW at, Placed(ss, t, at)
    PROVE  \A p \in 1..Len(t) : InPart(ss, at, p)
<1> DEFINE N == Len(ss)
           In(p, n) == \E i \in 1..n : \E j \in 1..Len(ss[i]) : p = at[i - 1] + j
           T == {n \in 0..N : \A p \in 1..at[n] : In(p, n)}
<1>1. N \in Nat /\ \A i \in 1..N : Len(ss[i]) \in Nat
  OBVIOUS
<1>2. /\ at \in [0..N -> Nat]
      /\ at[0] = 0
      /\ \A i \in 1..N : at[i] = at[i - 1] + Len(ss[i])
      /\ Len(t) = at[N]
  BY Zenon DEF Placed
<1> HIDE DEF N
<1>3. 0 \in T
  BY <1>1, <1>2
<1>4. ASSUME NEW n \in 0..(N - 1), n \in T
      PROVE  n + 1 \in T
  <2>1. /\ n + 1 \in 1..N /\ n + 1 \in 0..N /\ n \in 0..N /\ n \in Nat /\ (n + 1) - 1 = n
        /\ \A i \in 1..n : i \in 1..(n + 1)
    BY <1>1
  <2> DEFINE a == at[n]
             b == at[n + 1]
             l == Len(ss[n + 1])
  <2>2. b = a + l /\ a \in Nat /\ b \in Nat /\ l \in Nat
    BY <1>1, <1>2, <2>1
  <2>3. \A p \in 1..a : In(p, n)
    BY <1>4, Zenon
  <2> HIDE DEF a, b, l
  <2>4. ASSUME NEW p \in 1..b
        PROVE  In(p, n + 1)
    <3>1. CASE p <= a
      <4>1. p \in 1..a
        BY <2>2, <3>1
      <4> QED
        BY <2>1, <2>3, <4>1, Zenon
    <3>2. CASE ~(p <= a)
      <4>1. p - a \in 1..l /\ p = a + (p - a)
        BY <2>2, <3>2
      <4> DEFINE j == p - a
      <4>2. j \in 1..l /\ p = a + j
        BY <4>1
      <4> HIDE DEF j
      <4>3. n + 1 \in 1..(n + 1)
        BY <2>1
      <4> QED
        BY <2>1, <4>2, <4>3, Zenon DEF a, l
    <3> QED
      BY <3>1, <3>2
  <2> HIDE DEF In
  <2> QED
    BY <2>1, <2>4, Zenon DEF b
<1> HIDE DEF T
<1>5. \A n \in 0..N : n \in T
  BY <1>1, <1>3, <1>4, BoundedInduction, Zenon
<1>6. N \in T
  BY <1>1, <1>5
<1> QED
  BY <1>2, <1>6, Zenon DEF T, N, InPart

\* The parts determine the places and the text.
LEMMA PlacedUnique ==
    ASSUME NEW S, NEW ss \in Seq(Seq(S)), NEW s \in Seq(S), NEW t \in Seq(S), NEW a, NEW b,
           Placed(ss, s, a), Placed(ss, t, b)
    PROVE  a = b /\ s = t
<1> DEFINE N == Len(ss)
           T == {n \in 0..N : a[n] = b[n]}
<1>1. N \in Nat
  OBVIOUS
<1>2. /\ a \in [0..N -> Nat] /\ b \in [0..N -> Nat]
      /\ a[0] = 0 /\ b[0] = 0
      /\ \A i \in 1..N : a[i] = a[i - 1] + Len(ss[i])
      /\ \A i \in 1..N : b[i] = b[i - 1] + Len(ss[i])
      /\ Len(s) = a[N] /\ Len(t) = b[N]
  BY Zenon DEF Placed
<1>3. /\ \A i \in 1..N : \A j \in 1..Len(ss[i]) : s[a[i - 1] + j] = ss[i][j]
      /\ \A i \in 1..N : \A j \in 1..Len(ss[i]) : t[b[i - 1] + j] = ss[i][j]
  BY Zenon DEF Placed
<1> HIDE DEF N
<1>4. 0 \in T
  BY <1>1, <1>2
<1>5. ASSUME NEW n \in 0..(N - 1), n \in T
      PROVE  n + 1 \in T
  <2>1. n + 1 \in 1..N /\ n + 1 \in 0..N /\ (n + 1) - 1 = n
    BY <1>1
  <2>2. a[n] = b[n]
    BY <1>5, Zenon
  <2>3. a[n + 1] = a[n] + Len(ss[n + 1]) /\ b[n + 1] = b[n] + Len(ss[n + 1])
    BY <1>2, <2>1
  <2> QED
    BY <2>1, <2>2, <2>3, Zenon
<1> HIDE DEF T
<1>6. \A n \in 0..N : n \in T
  BY <1>1, <1>4, <1>5, BoundedInduction, Zenon
<1>7. a = b
  <2> DEFINE D == 0..N
  <2>1. a \in [D -> Nat] /\ b \in [D -> Nat] /\ \A n \in D : a[n] = b[n]
    BY <1>2, <1>6, Zenon DEF T
  <2> HIDE DEF D
  <2> QED
    BY <2>1
<1>8. Len(s) = Len(t)
  BY <1>2, <1>7, Zenon
<1>9. \A p \in 1..Len(s) : s[p] = t[p]
  <2>1. \A p \in 1..Len(s) : \E i \in 1..N : \E j \in 1..Len(ss[i]) : p = a[i - 1] + j
    <3>1. \A p \in 1..Len(s) : InPart(ss, a, p)
      BY PlacedCovers, Zenon
    <3> QED
      BY <3>1, Zenon DEF N, InPart
  <2> TAKE p \in 1..Len(s)
  <2>2. PICK i \in 1..N : \E j \in 1..Len(ss[i]) : p = a[i - 1] + j
    BY <2>1, Zenon
  <2>3. PICK j \in 1..Len(ss[i]) : p = a[i - 1] + j
    BY <2>2, Zenon
  <2>4. s[p] = ss[i][j]
    BY <1>3, <2>3, Zenon
  <2>5. t[p] = ss[i][j]
    BY <1>3, <1>7, <2>3, Zenon
  <2> QED
    BY <2>4, <2>5, Zenon
<1>10. s = t
  BY <1>8, <1>9, SameSequence, Zenon DEF Alike
<1> QED
  BY <1>7, <1>10

\* What consists of the parts is what Concat gives.
LEMMA ConcatIs ==
    ASSUME NEW S, NEW ss \in Seq(Seq(S)), NEW t \in Seq(S), NEW at, Placed(ss, t, at)
    PROVE  Concat(ss) = t
BY ConcatPlaced, PlacedUnique, Zenon

-----------------------------------------------------------------------------
(* base64url                                                               *)

SixBit == 0..63

\* The two tables are inverse to each other, and neither knows the padding.
LEMMA TablesInverse ==
    /\ \A n \in SixBit : /\ TableChar(n) \in Byte
                         /\ TableChar(n) # Pad
                         /\ DecodeChar(TableChar(n)) = n
    /\ DecodeChar(Pad) = -1
<1>1. ASSUME NEW n \in SixBit
      PROVE  /\ TableChar(n) \in Byte
             /\ TableChar(n) # Pad
             /\ DecodeChar(TableChar(n)) = n
  <2>1. n \in Int /\ 0 <= n /\ n <= 63
    BY DEF SixBit
  <2>2. CASE n < 26
    <3>1. TableChar(n) = 65 + n
      BY <2>1, <2>2 DEF TableChar
    <3> QED
      BY <2>1, <2>2, <3>1 DEF DecodeChar, Upper, Lower, Digit, Pad, Byte
  <2>3. CASE n >= 26 /\ n < 52
    <3>1. TableChar(n) = 71 + n
      BY <2>1, <2>3 DEF TableChar
    <3> QED
      BY <2>1, <2>3, <3>1 DEF DecodeChar, Upper, Lower, Digit, Pad, Byte
  <2>4. CASE n >= 52 /\ n < 62
    <3>1. TableChar(n) = n - 4
      BY <2>1, <2>4 DEF TableChar
    <3> QED
      BY <2>1, <2>4, <3>1 DEF DecodeChar, Upper, Lower, Digit, Pad, Byte
  <2>5. CASE n >= 62
    <3>1. (n = 62 /\ TableChar(n) = 45) \/ (n = 63 /\ TableChar(n) = 95)
      BY <2>1, <2>5 DEF TableChar
    <3> QED
      BY <3>1 DEF DecodeChar, Upper, Lower, Digit, Pad, Byte
  <2> QED
    BY <2>1, <2>2, <2>3, <2>4, <2>5
<1>2. DecodeChar(Pad) = -1
  BY DEF DecodeChar, Upper, Lower, Digit, Pad
<1> QED
  BY <1>1, <1>2

\* The quartet that padding makes of the characters of a group.
PaddedGroup(g, q) ==
    \A j \in 1..4 : q[j] = IF j <= Len(g) + 1 THEN EncodeGroup(g)[j] ELSE Pad

\* What EncodeGroup writes, with '=' up to four characters, is what
\* DecodeQuartet reads.
LEMMA GroupQuartet ==
    ASSUME NEW g \in Seq(Byte), NEW n \in 1..3, Len(g) = n, NEW q, PaddedGroup(g, q)
    PROVE  /\ EncodeGroup(g) \in Seq(Byte)
           /\ Len(EncodeGroup(g)) = n + 1
           /\ DecodableQuartet(q)
           /\ DecodeQuartet(q) = g
<1> DEFINE At(i) == IF i <= n THEN g[i] ELSE 0
           x == At(1)
           y == At(2)
           z == At(3)
           b == x * 65536 + y * 256 + z
           c1 == b \div 262144
           c2 == (b \div 4096) % 64
           c3 == (b \div 64) % 64
           c4 == b % 64
           t1 == TableChar(c1)
           t2 == TableChar(c2)
           t3 == TableChar(c3)
           t4 == TableChar(c4)
           w == <<t1, t2, t3, t4>>
           e == SubSeq(w, 1, n + 1)
<1>0. n \in Nat /\ n \in 1..3 /\ n + 1 \in Nat /\ n + 1 <= 4 /\ 1 <= n + 1
  OBVIOUS
<1>2. EncodeGroup(g) = e
  BY SMT DEF EncodeGroup, TableChars
<1>20. \A j \in 1..4 : q[j] = IF j <= n + 1 THEN e[j] ELSE Pad
  <2> HIDE DEF e
  <2> QED
    BY <1>2, Zenon DEF PaddedGroup
<1>21. g \in Seq(Nat) /\ \A i \in 1..n : g[i] \in Nat /\ g[i] <= 255
  <2>1. Byte \subseteq Nat /\ \A i \in Byte : i <= 255
    BY SMT DEF Byte
  <2>2. \A i \in 1..n : g[i] \in Byte
    BY SMT
  <2>3. g \in Seq(Nat)
    BY <2>1, SeqOfSubset, Zenon
  <2> QED
    BY <2>1, <2>2, <2>3, Zenon
<1>1. /\ x \in Nat /\ x <= 255
      /\ y \in Nat /\ y <= 255
      /\ z \in Nat /\ z <= 255
      /\ n < 3 => z = 0
      /\ n < 2 => y = 0
  BY <1>0, <1>21, SMT
<1> HIDE DEF x, y, z
<1>3. /\ b \in Nat /\ b <= 16777215
      /\ b \div 65536 = x
      /\ (b \div 256) % 256 = y
      /\ b % 256 = z
      /\ z = 0 => b % 64 = 0
      /\ z = 0 /\ y = 0 => (b \div 64) % 64 = 0
  <2>1. x \in Nat /\ x <= 255 /\ y \in Nat /\ y <= 255 /\ z \in Nat /\ z <= 255
    BY <1>1, SMT
  <2>2. b \in Nat /\ b <= 16777215 /\ b \div 65536 = x
    BY <2>1, SMT
  <2>3. (b \div 256) % 256 = y /\ b % 256 = z
    BY <2>1, SMT
  <2>4. /\ z = 0 => b % 64 = 0
        /\ z = 0 /\ y = 0 => (b \div 64) % 64 = 0
    BY <2>1, SMT
  <2> QED
    BY <2>2, <2>3, <2>4, SMT
<1> HIDE DEF b
<1>31. b \in Nat /\ b <= 16777215
  BY <1>3, SMT
<1>41. c1 \in 0..63 /\ c2 \in 0..63 /\ c3 \in 0..63 /\ c4 \in 0..63
  BY <1>31, SMT
<1>42. c1 * 262144 + c2 * 4096 + c3 * 64 + c4 = b
  BY <1>31, SMT
<1>43. /\ z = 0 => c4 = 0
       /\ z = 0 /\ y = 0 => c3 = 0
  BY <1>3, SMT
<1> HIDE DEF c1, c2, c3, c4
<1>44. /\ t1 \in Byte /\ t2 \in Byte /\ t3 \in Byte /\ t4 \in Byte
       /\ t1 # Pad /\ t2 # Pad /\ t3 # Pad /\ t4 # Pad
       /\ DecodeChar(t1) = c1 /\ DecodeChar(t2) = c2
       /\ DecodeChar(t3) = c3 /\ DecodeChar(t4) = c4
       /\ DecodeChar(Pad) = -1
  <2>1. c1 \in SixBit /\ c2 \in SixBit /\ c3 \in SixBit /\ c4 \in SixBit
    BY <1>41, Zenon DEF SixBit
  <2> QED
    BY <2>1, TablesInverse, Zenon
<1> HIDE DEF t1, t2, t3, t4
<1>5. /\ w \in Seq(Byte) /\ Len(w) = 4
      /\ w[1] = t1 /\ w[2] = t2 /\ w[3] = t3 /\ w[4] = t4
  BY <1>44, SMT
<1> HIDE DEF w
<1>6. /\ e \in Seq(Byte) /\ Len(e) = n + 1
      /\ \A j \in 1..(n + 1) : e[j] = w[j]
  <2> DEFINE m == n + 1
  <2>1. m \in Nat /\ 1 <= m /\ m <= 4
    BY <1>0, SMT
  <2> HIDE DEF m
  <2>2. /\ SubSeq(w, 1, m) \in Seq(Byte) /\ Len(SubSeq(w, 1, m)) = m
        /\ \A j \in 1..m : SubSeq(w, 1, m)[j] = w[j]
    <3>1. m <= Len(w)
      BY <1>5, <2>1, Zenon
    <3> QED
      BY <1>5, <2>1, <3>1, PrefixElements, Zenon
  <2> QED
    BY <2>2, Zenon DEF m
<1> HIDE DEF e
<1>8. /\ q[1] = t1 /\ q[2] = t2
      /\ q[3] = IF n < 2 THEN Pad ELSE t3
      /\ q[4] = IF n < 3 THEN Pad ELSE t4
  BY <1>0, <1>5, <1>6, <1>20, SMT
<1>9. DecodableQuartet(q)
  <2>1. DecodeChar(t1) >= 0 /\ DecodeChar(t2) >= 0 /\ DecodeChar(t3) >= 0 /\ DecodeChar(t4) >= 0
    BY <1>41, <1>44, SMT
  <2> QED
    BY <1>8, <2>1, Zenon DEF DecodableQuartet
<1>10. DecodeQuartet(q) = g
  <2> DEFINE Bits(c) == IF DecodeChar(c) >= 0 THEN DecodeChar(c) ELSE 0
             b1 == Bits(q[1])
             b2 == Bits(q[2])
             b3 == Bits(q[3])
             b4 == Bits(q[4])
             d == b1 * 262144 + b2 * 4096 + b3 * 64 + b4
             X == d \div 65536
             Y == (d \div 256) % 256
             Z == d % 256
  <2>1. DecodeQuartet(q) = <<X>> \o (IF q[3] = Pad THEN <<>> ELSE <<Y>>)
                                 \o (IF q[4] = Pad THEN <<>> ELSE <<Z>>)
    BY SMT DEF DecodeQuartet
  <2>2. q[3] = Pad <=> n < 2
    BY <1>0, <1>44, <1>8, SMT
  <2>3. q[4] = Pad <=> n < 3
    BY <1>0, <1>44, <1>8, SMT
  <2>31. b1 = c1 /\ b2 = c2 /\ b3 = c3 /\ b4 = c4
    <3>1. Bits(t1) = c1 /\ Bits(t2) = c2 /\ Bits(t3) = c3 /\ Bits(t4) = c4 /\ Bits(Pad) = 0
      BY <1>41, <1>44, SMT
    <3> HIDE DEF Bits
    <3> QED
      BY <1>0, <1>1, <1>43, <1>8, <3>1, SMT
  <2> HIDE DEF b1, b2, b3, b4
  <2>4. d = b
    BY <1>42, <2>31, SMT
  <2> HIDE DEF d
  <2>5. X = x /\ Y = y /\ Z = z
    BY <1>3, <2>4, SMT
  <2> HIDE DEF X, Y, Z
  <2>6. g \in Seq(Nat) /\ x \in Nat /\ y \in Nat /\ z \in Nat
    BY <1>1, <1>21, SMT
  <2>7. CASE n = 1
    <3>1. q[3] = Pad /\ q[4] = Pad /\ g[1] = x
      BY <2>2, <2>3, <2>7, SMT DEF x
    <3>2. DecodeQuartet(q) = <<x>> \o <<>> \o <<>>
      BY <2>1, <2>5, <3>1, Zenon
    <3> QED
      BY <2>6, <2>7, <3>1, <3>2, FewElements, Zenon
  <2>8. CASE n = 2
    <3>1. q[3] # Pad /\ q[4] = Pad /\ g[1] = x /\ g[2] = y
      BY <2>2, <2>3, <2>8, SMT DEF x, y
    <3>2. DecodeQuartet(q) = <<x>> \o <<y>> \o <<>>
      BY <2>1, <2>5, <3>1, Zenon
    <3> QED
      BY <2>6, <2>8, <3>1, <3>2, FewElements, Zenon
  <2>9. CASE n = 3
    <3>1. q[3] # Pad /\ q[4] # Pad /\ g[1] = x /\ g[2] = y /\ g[3] = z
      BY <2>2, <2>3, <2>9, SMT DEF x, y, z
    <3>2. DecodeQuartet(q) = <<x>> \o <<y>> \o <<z>>
      BY <2>1, <2>5, <3>1, Zenon
    <3> QED
      BY <2>6, <2>9, <3>1, <3>2, FewElements, Zenon
  <2> QED
    BY <1>0, <2>7, <2>8, <2>9, SMT
<1> QED
  BY <1>2, <1>6, <1>9, <1>10, Zenon

\* The groups of the loop over the bytes; every one but the last has three.
LEMMA GroupElements ==
    ASSUME NEW data \in Seq(Byte), NEW L \in Nat, Len(data) = L,
           NEW n \in Nat, n = (L + 2) \div 3, NEW g \in 1..n
    PROVE  \E m \in 1..3 :
             /\ Group(data, g) \in Seq(Byte)
             /\ Len(Group(data, g)) = m
             /\ m = IF 3 * g <= L THEN 3 ELSE L - (3 * g - 3)
             /\ \A j \in 1..m :
                  /\ (3 * g - 3) + j \in 1..L
                  /\ Group(data, g)[j] = data[(3 * g - 3) + j]
             /\ g < n => m = 3
<1> DEFINE m == IF 3 * g <= L THEN 3 ELSE L - (3 * g - 3)
           a == 3 * g - 2
           b == IF 3 * g <= L THEN 3 * g ELSE L
<1>1. /\ m \in 1..3 /\ a \in Nat /\ b \in Nat /\ 1 <= a /\ a <= b + 1 /\ b <= L /\ b - a + 1 = m
      /\ g < n => m = 3
  BY SMT
<1>2. \A j \in 1..m : (3 * g - 3) + j \in 1..L /\ (3 * g - 3) + j = a + j - 1
  BY SMT
<1>3. Group(data, g) = SubSeq(data, a, b)
  BY Zenon DEF Group
<1> HIDE DEF a, b
<1>4. /\ SubSeq(data, a, b) \in Seq(Byte)
      /\ Len(SubSeq(data, a, b)) = b - a + 1
      /\ \A j \in 1..(b - a + 1) : SubSeq(data, a, b)[j] = data[a + j - 1]
  <2>1. Within(Byte, data, a, b)
    BY <1>1, Zenon DEF Within
  <2> QED
    BY <2>1, PartElements, SMT
<1> DEFINE s == SubSeq(data, a, b)
<1>5. s \in Seq(Byte) /\ Len(s) = m /\ \A j \in 1..m : s[j] = data[a + j - 1]
  <2> HIDE DEF m
  <2> QED
    BY <1>1, <1>4, Zenon
<1>6. \A j \in 1..m : (3 * g - 3) + j \in 1..L /\ s[j] = data[(3 * g - 3) + j]
  <2> HIDE DEF s, m
  <2> QED
    BY <1>2, <1>5, Zenon
<1> HIDE DEF s, m
<1>7. Group(data, g) = s
  BY <1>3, Zenon DEF s
<1> QED
  BY <1>1, <1>5, <1>6, <1>7, Zenon DEF m

Groups(data) == [g \in 1..((Len(data) + 2) \div 3) |-> Group(data, g)]

\* The groups are the bytes.
LEMMA GroupsOfData ==
    ASSUME NEW data \in Seq(Byte)
    PROVE  Concat(Groups(data)) = data
<1> DEFINE L == Len(data)
           n == (L + 2) \div 3
           gs == Groups(data)
           at == [g \in 0..n |-> IF 3 * g <= L THEN 3 * g ELSE L]
<1>1. L \in Nat
  OBVIOUS
<1>2. gs = [g \in 1..n |-> Group(data, g)]
  BY Zenon DEF Groups
<1> HIDE DEF L
<1>3. n \in Nat /\ (IF 3 * n <= L THEN 3 * n ELSE L) = L
  BY <1>1, SMT
<1>30. n = (L + 2) \div 3
  OBVIOUS
<1> HIDE DEF n, gs
<1>4. ASSUME NEW g \in 1..n
      PROVE  \E m \in 1..3 :
               /\ Group(data, g) \in Seq(Byte)
               /\ Len(Group(data, g)) = m
               /\ m = IF 3 * g <= L THEN 3 ELSE L - (3 * g - 3)
               /\ \A j \in 1..m :
                    /\ (3 * g - 3) + j \in 1..L
                    /\ Group(data, g)[j] = data[(3 * g - 3) + j]
               /\ g < n => m = 3
  BY <1>1, <1>3, <1>30, GroupElements, Zenon DEF L
<1>5. gs \in Seq(Seq(Byte)) /\ Len(gs) = n /\ \A g \in 1..n : gs[g] = Group(data, g)
  <2>1. \A g \in 1..n : Group(data, g) \in Seq(Byte)
    BY <1>4, Zenon
  <2> QED
    BY <1>2, <1>3, <2>1
<1>6. at \in [0..n -> Nat] /\ at[0] = 0 /\ at[n] = L
  BY <1>1, <1>3
<1>7. ASSUME NEW g \in 1..n
      PROVE  /\ at[g] = at[g - 1] + Len(gs[g])
             /\ \A j \in 1..Len(gs[g]) :
                  at[g - 1] + j \in 1..Len(data) /\ data[at[g - 1] + j] = gs[g][j]
  <2>1. PICK m \in 1..3 :
               /\ Group(data, g) \in Seq(Byte)
               /\ Len(Group(data, g)) = m
               /\ m = IF 3 * g <= L THEN 3 ELSE L - (3 * g - 3)
               /\ \A j \in 1..m :
                    /\ (3 * g - 3) + j \in 1..L
                    /\ Group(data, g)[j] = data[(3 * g - 3) + j]
               /\ g < n => m = 3
    BY <1>4, Zenon
  <2>2. Len(gs[g]) = m /\ m = IF 3 * g <= L THEN 3 ELSE L - (3 * g - 3)
    BY <1>5, <2>1, Zenon
  <2>3. at[g - 1] = 3 * g - 3 /\ at[g] = (3 * g - 3) + m
    <3>1. (IF 3 * (g - 1) <= L THEN 3 * (g - 1) ELSE L) = 3 * g - 3
      BY <1>1, <1>3, <1>30, SMT
    <3>2. (IF 3 * g <= L THEN 3 * g ELSE L) = (3 * g - 3) + m
      BY <1>1, <1>3, <1>30, <2>2, SMT
    <3>3. g \in 0..n /\ g - 1 \in 0..n
      BY <1>3, SMT
    <3> QED
      BY <3>1, <3>2, <3>3, Zenon
  <2> HIDE DEF at
  <2> QED
    BY <1>5, <2>1, <2>2, <2>3, Zenon DEF L
<1> HIDE DEF at
<1>8. Placed(gs, data, at)
  BY <1>5, <1>6, <1>7, Zenon DEF Placed, L
<1>9. Concat(gs) = data
  BY <1>5, <1>8, ConcatIs, Zenon
<1> QED
  BY <1>9, Zenon DEF gs

\* The text of ss, when every part but the last has four characters, and what
\* padding makes of it: part g is in quartet g.
InQuartets(ss, n) ==
    /\ ss \in Seq(Seq(Byte))
    /\ Len(ss) = n
    /\ \A g \in 1..n : \E m \in 2..4 : Len(ss[g]) = m /\ (g < n => m = 4)

\* Padding such a text changes no character of it, and the Pad characters
\* complete its last quartet.
LEMMA QuartetParts ==
    ASSUME NEW n \in Nat, NEW ss, InQuartets(ss, n)
    PROVE  LET p == Padded(Concat(ss))
           IN  /\ p \in Seq(Nat)
               /\ Len(p) = 4 * n
               /\ \A g \in 1..n : \A j \in 1..4 :
                    p[(4 * g - 4) + j] = IF j <= Len(ss[g]) THEN ss[g][j] ELSE Pad
<1> DEFINE t == Concat(ss)
           l == Len(t)
           k == (4 - (l % 4)) % 4
           pad == [i \in 1..k |-> Pad]
           p == t \o pad
<1>1. ss \in Seq(Seq(Byte)) /\ Len(ss) = n
  BY Zenon DEF InQuartets
<1>2. \A g \in 1..n : \E m \in 2..4 : Len(ss[g]) = m /\ (g < n => m = 4)
  BY Zenon DEF InQuartets
<1>3. t \in Seq(Byte) /\ \E at : Placed(ss, t, at)
  BY <1>1, ConcatPlaced, Zenon
<1>4. PICK at : Placed(ss, t, at)
  BY <1>3, Zenon
<1>5. p = Padded(Concat(ss))
  BY Zenon DEF Padded
<1> HIDE DEF t
<1>6. l \in Nat
  BY <1>3
<1> HIDE DEF l
<1>7. /\ at \in [0..n -> Nat]
      /\ at[0] = 0
      /\ \A i \in 1..n : at[i] = at[i - 1] + Len(ss[i])
      /\ l = at[n]
      /\ \A i \in 1..n : \A j \in 1..Len(ss[i]) :
           at[i - 1] + j \in 1..l /\ t[at[i - 1] + j] = ss[i][j]
  BY <1>1, <1>4, Zenon DEF Placed, l
<1>8. \A g \in 1..n : at[g - 1] = 4 * (g - 1)
  <2> DEFINE T == {i \in 0..n : i < n => at[i] = 4 * i}
  <2>1. 0 \in T
    BY <1>7
  <2>2. ASSUME NEW i \in 0..(n - 1), i \in T
        PROVE  i + 1 \in T
    <3>1. i + 1 \in 1..n /\ (i + 1) - 1 = i /\ i < n /\ i + 1 \in 0..n
      OBVIOUS
    <3>2. at[i] = 4 * i
      BY <2>2, <3>1
    <3>3. at[i + 1] = at[i] + Len(ss[i + 1])
      BY <1>7, <3>1, Zenon
    <3>4. i + 1 < n => Len(ss[i + 1]) = 4
      BY <1>2, <3>1, Zenon
    <3>5. i + 1 < n => at[i + 1] = 4 * i + 4
      BY <3>2, <3>3, <3>4, Zenon
    <3>6. 4 * i + 4 = 4 * (i + 1)
      OBVIOUS
    <3> QED
      BY <3>1, <3>5, <3>6, Zenon
  <2> HIDE DEF T
  <2>3. \A i \in 0..n : i \in T
    BY <2>1, <2>2, BoundedInduction, Zenon
  <2> QED
    BY <2>3 DEF T
<1>9. n = 0 => l = 0
  BY <1>7, Zenon
<1>10. ASSUME n # 0
       PROVE  \E m \in 2..4 : Len(ss[n]) = m /\ l = 4 * (n - 1) + m
  <2>1. n \in 1..n
    BY <1>10
  <2>2. PICK m \in 2..4 : Len(ss[n]) = m
    BY <1>2, <2>1, Zenon
  <2>3. at[n] = at[n - 1] + Len(ss[n]) /\ at[n - 1] = 4 * (n - 1)
    BY <1>7, <1>8, <2>1, Zenon
  <2> QED
    BY <1>7, <2>2, <2>3, Zenon
<1>11. k \in Nat /\ l + k = 4 * n
  <2>1. CASE n = 0
    BY <1>9, <2>1
  <2>2. CASE n # 0
    <3>1. PICK m \in 2..4 : l = 4 * (n - 1) + m
      BY <1>10, <2>2, Zenon
    <3> QED
      BY <2>2, <3>1, SMT
  <2> QED
    BY <2>1, <2>2
<1> HIDE DEF k
<1>12. Byte \subseteq Nat /\ Pad \in Nat
  BY DEF Byte, Pad
<1>13. t \in Seq(Nat) /\ pad \in Seq(Nat) /\ Len(pad) = k /\ \A i \in 1..k : pad[i] = Pad
  <2>1. t \in Seq(Nat)
    BY <1>3, <1>12, SeqOfSubset, Zenon
  <2> QED
    BY <1>11, <1>12, <2>1
<1> HIDE DEF pad
<1>14. /\ p \in Seq(Nat) /\ Len(p) = l + k
       /\ \A i \in 1..l : p[i] = t[i]
       /\ \A i \in 1..k : p[l + i] = pad[i]
  <2>1. /\ p \in Seq(Nat) /\ Len(p) = Len(t) + Len(pad)
        /\ \A i \in 1..Len(t) : i \in 1..Len(p) /\ p[i] = t[i]
        /\ \A i \in 1..Len(pad) : Len(t) + i \in 1..Len(p) /\ p[Len(t) + i] = pad[i]
    <3>1. IsConcat(Nat, t \o pad, t, pad)
      BY <1>13, ConcatElements, Zenon
    <3> QED
      BY <3>1, Zenon DEF IsConcat
  <2> HIDE DEF p
  <2> QED
    BY <1>13, <2>1, Zenon DEF l
<1> HIDE DEF p
<1>15. ASSUME NEW g \in 1..n, NEW j \in 1..4
       PROVE  p[(4 * g - 4) + j] = IF j <= Len(ss[g]) THEN ss[g][j] ELSE Pad
  <2>1. PICK m \in 2..4 : Len(ss[g]) = m /\ (g < n => m = 4)
    BY <1>2, Zenon
  <2>2. at[g - 1] = 4 * g - 4
    <3>1. 4 * (g - 1) = 4 * g - 4
      OBVIOUS
    <3> QED
      BY <1>8, <3>1, Zenon
  <2>3. CASE j <= m
    <3>1. j \in 1..m
      BY <2>3
    <3>2. at[g - 1] + j \in 1..l /\ t[at[g - 1] + j] = ss[g][j]
      BY <1>7, <2>1, <3>1, Zenon
    <3> QED
      BY <1>14, <2>1, <2>2, <2>3, <3>2, Zenon
  <2>4. CASE ~(j <= m)
    <3>1. g = n /\ n # 0
      BY <2>1, <2>4
    <3>2. l = 4 * (n - 1) + m
      BY <1>10, <2>1, <3>1, Zenon
    <3> DEFINE i == j - m
    <3>3. i \in 1..k /\ (4 * g - 4) + j = l + i
      BY <1>6, <1>11, <2>4, <3>1, <3>2
    <3> HIDE DEF i
    <3> QED
      BY <1>13, <1>14, <2>1, <2>4, <3>3, Zenon
  <2> QED
    BY <2>3, <2>4
<1> QED
  BY <1>5, <1>11, <1>14, <1>15, Zenon

\* base64url_decode undoes base64url_encode for every sequence of bytes: the
\* decoder restores the padding the encoder left out, reads every quartet and
\* drops no byte of the last group.
THEOREM Base64Inverse ==
    ASSUME NEW data \in Seq(Byte)
    PROVE  base64url_decode(base64url_encode(data)) = data
<1> DEFINE L == Len(data)
           n == (L + 2) \div 3
           ee == [g \in 1..n |-> EncodeGroup(Group(data, g))]
           enc == Concat(ee)
           p == Padded(enc)
           all == 1..(Len(p) \div 4)
           read == {m \in {0} \cup all : \A g \in 1..m : DecodableQuartet(Quartet(p, g))}
           dd(m) == [g \in 1..m |-> DecodeQuartet(Quartet(p, g))]
<1>1. base64url_encode(data) = enc
  BY Zenon DEF base64url_encode
<1>2. base64url_decode(enc) = Concat(dd(Max(read)))
  <2> HIDE DEF enc
  <2> QED
    BY Zenon DEF base64url_decode
<1>3. L \in Nat /\ Len(data) = L /\ n = (L + 2) \div 3
  OBVIOUS
<1> HIDE DEF L
<1>4. n \in Nat
  BY <1>3, SMT
<1> HIDE DEF n
<1>5. \A g \in 1..n : \E m \in 1..3 :
        Group(data, g) \in Seq(Byte) /\ Len(Group(data, g)) = m /\ (g < n => m = 3)
  <2> TAKE g \in 1..n
  <2>1. \E m \in 1..3 :
          /\ Group(data, g) \in Seq(Byte)
          /\ Len(Group(data, g)) = m
          /\ m = IF 3 * g <= L THEN 3 ELSE L - (3 * g - 3)
          /\ \A j \in 1..m :
               /\ (3 * g - 3) + j \in 1..L
               /\ Group(data, g)[j] = data[(3 * g - 3) + j]
          /\ g < n => m = 3
    BY <1>3, <1>4, GroupElements, ZenonT(30)
  <2> QED
    BY <2>1, Zenon
<1>6. ASSUME NEW g \in 1..n
      PROVE  /\ ee[g] \in Seq(Byte)
             /\ \E m \in 2..4 : Len(ee[g]) = m /\ (g < n => m = 4)
             /\ \A q : PaddedGroup(Group(data, g), q) =>
                         DecodableQuartet(q) /\ DecodeQuartet(q) = Group(data, g)
             /\ Len(ee[g]) = Len(Group(data, g)) + 1
  <2> DEFINE G == Group(data, g)
             q0 == [j \in 1..4 |-> IF j <= Len(G) + 1 THEN EncodeGroup(G)[j] ELSE Pad]
  <2>1. PICK m \in 1..3 : G \in Seq(Byte) /\ Len(G) = m /\ (g < n => m = 3)
    BY <1>5, Zenon
  <2>2. ee[g] = EncodeGroup(G)
    BY Zenon
  <2> HIDE DEF G
  <2>3. PaddedGroup(G, q0)
    BY Zenon DEF PaddedGroup
  <2> HIDE DEF q0
  <2>4. EncodeGroup(G) \in Seq(Byte) /\ Len(EncodeGroup(G)) = m + 1
    BY <2>1, <2>3, GroupQuartet, Zenon
  <2>5. \A q : PaddedGroup(G, q) => DecodableQuartet(q) /\ DecodeQuartet(q) = G
    BY <2>1, GroupQuartet, Zenon
  <2>6. m + 1 \in 2..4 /\ (m = 3 => m + 1 = 4)
    OBVIOUS
  <2> HIDE DEF ee
  <2> QED
    BY <2>1, <2>2, <2>4, <2>5, <2>6, Zenon DEF G
<1>60. ee \in Seq(Seq(Byte)) /\ Len(ee) = n
  <2>1. \A g \in 1..n : EncodeGroup(Group(data, g)) \in Seq(Byte)
    BY <1>6, Zenon
  <2> QED
    BY <1>4, <2>1
<1>61. \A g \in 1..n : ee[g] = EncodeGroup(Group(data, g))
  BY Zenon
<1> HIDE DEF ee
<1>7. InQuartets(ee, n)
  BY <1>6, <1>60, Zenon DEF InQuartets
<1>8. /\ p \in Seq(Nat)
      /\ Len(p) = 4 * n
      /\ \A g \in 1..n : \A j \in 1..4 :
           p[(4 * g - 4) + j] = IF j <= Len(ee[g]) THEN ee[g][j] ELSE Pad
  BY <1>4, <1>7, QuartetParts, Zenon
<1> HIDE DEF p
<1>9. \A g \in 1..n : PaddedGroup(Group(data, g), Quartet(p, g))
  <2> TAKE g \in 1..n
  <2> DEFINE a == 4 * g - 3
             b == 4 * g
             q == Quartet(p, g)
  <2>1. a \in Nat /\ b \in Nat /\ 1 <= a /\ a <= b + 1 /\ b <= 4 * n /\ b - a + 1 = 4
    BY <1>4
  <2>2. \A j \in 1..4 : a + j - 1 = (4 * g - 4) + j
    BY <1>4
  <2>3. q = SubSeq(p, a, b)
    BY Zenon DEF Quartet
  <2> HIDE DEF a, b, q
  <2>4. Within(Nat, p, a, b)
    BY <1>8, <2>1, Zenon DEF Within
  <2>5. \A j \in 1..(b - a + 1) : q[j] = p[a + j - 1]
    BY <2>3, <2>4, PartElements, SMT
  <2>6. \A j \in 1..4 : q[j] = p[(4 * g - 4) + j]
    BY <2>1, <2>2, <2>5, Zenon
  <2>7. \A j \in 1..4 : q[j] = IF j <= Len(Group(data, g)) + 1
                               THEN EncodeGroup(Group(data, g))[j] ELSE Pad
    BY <1>6, <1>61, <1>8, <2>6, ZenonT(30)
  <2> QED
    BY <2>7, Zenon DEF PaddedGroup, q
<1>10. Max(read) = n
  <2>1. all = 1..n
    BY <1>4, <1>8, SMT
  <2> HIDE DEF all
  <2>2. n \in read
    BY <1>4, <1>6, <1>9, <2>1
  <2>3. \A m \in read : m \in Nat /\ m <= n
    BY <1>4, <2>1
  <2> HIDE DEF read
  <2>4. \E m \in read : \A k \in read : m >= k
    BY <1>4, <2>2, <2>3
  <2>5. Max(read) \in read /\ \A k \in read : Max(read) >= k
    BY <2>4, Zenon DEF Max
  <2> QED
    <3> DEFINE x == Max(read)
    <3>1. x \in Nat /\ x <= n /\ x >= n
      BY <2>2, <2>3, <2>5, Zenon
    <3> HIDE DEF x
    <3>2. x = n
      BY <1>4, <3>1
    <3> QED
      BY <3>2 DEF x
<1>11. dd(n) = Groups(data)
  <2>1. \A g \in 1..n : DecodeQuartet(Quartet(p, g)) = Group(data, g)
    BY <1>6, <1>9, Zenon
  <2>2. Groups(data) = [g \in 1..n |-> Group(data, g)]
    BY <1>3, Zenon DEF Groups, n
  <2> QED
    BY <2>1, <2>2, Zenon
<1> QED
  BY <1>1, <1>2, <1>10, <1>11, GroupsOfData, Zenon

-----------------------------------------------------------------------------
(* Percent encoding                                                        *)

\* How percent_decode reads one byte that percent_encode wrote: as it stands, or
\* as an escape.
Plain(c, e) == c \notin {37, 38, 43, 61} /\ e = <<c>>
Escaped(c, e) ==
    \E h, l \in Byte : h \notin {38, 61} /\ l \notin {38, 61} /\ e = <<37, h, l>> /\ Strtol(h, l) = c

\* HexValue reads the digit that HexChar writes, and no digit is '%', '&', '+'
\* or '='.
LEMMA HexDigits ==
    ASSUME NEW n \in Nat, n <= 15
    PROVE  /\ HexChar(n) \in Byte /\ HexChar(n) >= 48 /\ HexChar(n) # 61
           /\ HexValue(HexChar(n)) = n
<1>1. CASE n < 10
  <2>1. HexChar(n) = 48 + n
    BY <1>1 DEF HexChar
  <2> DEFINE h == HexChar(n)
  <2>2. h = 48 + n
    BY <2>1
  <2> HIDE DEF h
  <2>3. h \in Digit /\ h - 48 = n /\ h \in Byte /\ h >= 48 /\ h # 61 /\ h \notin 65..70 /\ h \notin 97..102
    BY <1>1, <2>2, SMT DEF Digit, Byte
  <2>4. HexValue(h) = n
    BY <2>3, SMT DEF HexValue
  <2> QED
    BY <2>3, <2>4 DEF h
<1>2. CASE ~(n < 10)
  <2> DEFINE h == HexChar(n)
  <2>2. h = 55 + n
    BY <1>2 DEF HexChar
  <2> HIDE DEF h
  <2>3. h \in 65..70 /\ h - 55 = n /\ h \in Byte /\ h >= 48 /\ h # 61 /\ h \notin Digit /\ h \notin 97..102
    BY <1>2, <2>2, SMT DEF Digit, Byte
  <2>4. HexValue(h) = n
    BY <2>3, SMT DEF HexValue
  <2> QED
    BY <2>3, <2>4 DEF h
<1> QED
  BY <1>1, <1>2

\* percent_encode writes every byte in one of the two forms.
LEMMA ByteCoding ==
    ASSUME NEW c \in Byte
    PROVE  Plain(c, EncodeByte(c)) \/ Escaped(c, EncodeByte(c))
<1>1. CASE c \in Unreserved
  <2>1. c \notin {37, 38, 43, 61}
    BY <1>1, SMT DEF Unreserved, Digit, Upper, Lower
  <2> QED
    BY <1>1, <2>1, Zenon DEF Plain, EncodeByte
<1>2. CASE c \notin Unreserved
  <2> DEFINE a == c \div 16
             b == c % 16
             h == HexChar(a)
             l == HexChar(b)
  <2>1. a \in Nat /\ a <= 15 /\ b \in Nat /\ b <= 15 /\ 16 * a + b = c
    BY SMT DEF Byte
  <2>2. EncodeByte(c) = <<37, h, l>>
    BY <1>2, Zenon DEF EncodeByte
  <2> HIDE DEF a, b
  <2>3. h \in Byte /\ h >= 48 /\ h # 61 /\ HexValue(h) = a
    BY <2>1, HexDigits, Zenon
  <2>4. l \in Byte /\ l >= 48 /\ l # 61 /\ HexValue(l) = b
    BY <2>1, HexDigits, Zenon
  <2> HIDE DEF h, l
  <2>5. HexValue(h) >= 0 /\ HexValue(l) >= 0 /\ 16 * HexValue(h) + HexValue(l) = c
    BY <2>1, <2>3, <2>4, SMT
  <2>6. ~(HexValue(h) >= 0 /\ HexValue(l) < 0)
    BY <2>1, <2>3, <2>4, SMT
  <2>7. /\ h \notin {9, 10, 11, 12, 13, 32, 43} /\ h # 45
        /\ h \notin {38, 61} /\ l \notin {38, 61}
    BY <2>3, <2>4, SMT DEF Byte
  <2>8. Strtol(h, l) = c
    BY <2>5, <2>6, <2>7, Zenon DEF Strtol
  <2> QED
    BY <2>2, <2>3, <2>4, <2>7, <2>8, Zenon DEF Escaped
<1> QED
  BY <1>1, <1>2

\* The turns of percent_decode's loop.
LEMMA DecodeTurns ==
    ASSUME NEW text \in Seq(Byte)
    PROVE  \E rest : /\ \A i \in 1..(Len(text) + 1) : rest[i] = DecodeAt(text, rest, i)
                     /\ percent_decode(text) = rest[1]
<1> DEFINE L == Len(text)
           D == 1..(L + 1)
           V == {Strtol(a, b) : a \in Byte, b \in Byte} \cup Byte \cup {32}
           R == CHOOSE f : f = [i \in D |-> DecodeAt(text, f, i)]
           E == [f \in [D -> Seq(V)] |-> [i \in D |-> DecodeAt(text, f, i)]]
           rank == [i \in D |-> (L + 1) - i]
<1>1. percent_decode(text) = R[1]
  BY Zenon DEF percent_decode
<1>2. L \in Nat /\ \A i \in 1..L : text[i] \in Byte
  OBVIOUS
<1>3. /\ \A a, b \in Byte : Strtol(a, b) \in V
      /\ \A a \in Byte : a \in V
      /\ 32 \in V
  OBVIOUS
<1> HIDE DEF V
<1>4. ASSUME NEW i \in D
      PROVE  \/ i > L /\ \A f : DecodeAt(text, f, i) = <<>>
             \/ /\ i \in 1..L /\ i + 3 \in D
                /\ \E v \in V : \A f : DecodeAt(text, f, i) = <<v>> \o f[i + 3]
             \/ /\ i \in 1..L /\ i + 1 \in D
                /\ \E v \in V : \A f : DecodeAt(text, f, i) = <<v>> \o f[i + 1]
  <2>1. CASE i > L
    BY <2>1, Zenon DEF DecodeAt, L
  <2>2. CASE ~(i > L) /\ text[i] = 37 /\ i + 2 <= L
    <3>1. i \in 1..L /\ i + 1 \in 1..L /\ i + 2 \in 1..L /\ i + 3 \in D
      BY <1>2, <2>2, SMT
    <3>2. \A f : DecodeAt(text, f, i) = <<Strtol(text[i + 1], text[i + 2])>> \o f[i + 3]
      BY <2>2, Zenon DEF DecodeAt, EscapeFits, L
    <3>3. Strtol(text[i + 1], text[i + 2]) \in V
      BY <1>2, <1>3, <3>1, Zenon
    <3> QED
      BY <3>1, <3>2, <3>3, Zenon
  <2>3. CASE ~(i > L) /\ ~(text[i] = 37 /\ i + 2 <= L)
    <3>1. i \in 1..L /\ i + 1 \in D
      BY <1>2, <2>3, SMT
    <3>2. \A f : DecodeAt(text, f, i) = <<IF text[i] = 43 THEN 32 ELSE text[i]>> \o f[i + 1]
      BY <2>3, Zenon DEF DecodeAt, EscapeFits, L
    <3>3. (IF text[i] = 43 THEN 32 ELSE text[i]) \in V
      BY <1>2, <1>3, <3>1, Zenon
    <3> QED
      BY <3>1, <3>2, <3>3, Zenon
  <2> QED
    BY <2>1, <2>2, <2>3, Zenon
<1> HIDE DEF L
<1>5. \E f : f = [i \in D |-> DecodeAt(text, f, i)]
  <2>1. ASSUME NEW f \in [D -> Seq(V)], NEW i \in D
        PROVE  DecodeAt(text, f, i) \in Seq(V)
    <3>1. CASE i > L /\ DecodeAt(text, f, i) = <<>>
      BY <3>1
    <3>2. CASE i + 3 \in D /\ \E v \in V : DecodeAt(text, f, i) = <<v>> \o f[i + 3]
      <4>1. PICK v \in V : DecodeAt(text, f, i) = <<v>> \o f[i + 3]
        BY <3>2
      <4> DEFINE r == f[i + 3]
      <4>2. r \in Seq(V)
        BY <3>2, Zenon
      <4> HIDE DEF r
      <4>3. <<v>> \o r \in Seq(V)
        BY <4>2
      <4> QED
        BY <4>1, <4>3, Zenon DEF r
    <3>3. CASE i + 1 \in D /\ \E v \in V : DecodeAt(text, f, i) = <<v>> \o f[i + 1]
      <4>1. PICK v \in V : DecodeAt(text, f, i) = <<v>> \o f[i + 1]
        BY <3>3
      <4> DEFINE r == f[i + 1]
      <4>2. r \in Seq(V)
        BY <3>3
      <4> HIDE DEF r
      <4>3. <<v>> \o r \in Seq(V)
        BY <4>2
      <4> QED
        BY <4>1, <4>3, Zenon DEF r
    <3> QED
      BY <1>4, <3>1, <3>2, <3>3, Zenon
  <2>2. E \in [[D -> Seq(V)] -> [D -> Seq(V)]]
    BY <2>1, Zenon
  <2>3. ASSUME NEW i \in D, NEW f \in [D -> Seq(V)], NEW g \in [D -> Seq(V)],
               \A y \in D : rank[y] < rank[i] => f[y] = g[y]
        PROVE  E[f][i] = E[g][i]
    <3>1. i + 3 \in D => f[i + 3] = g[i + 3]
      BY <1>2, <2>3
    <3>2. i + 1 \in D => f[i + 1] = g[i + 1]
      BY <1>2, <2>3
    <3>3. DecodeAt(text, f, i) = DecodeAt(text, g, i)
      BY <1>4, <3>1, <3>2, Zenon
    <3> QED
      BY <3>3, Zenon
  <2>4. rank \in [D -> 0..(L + 1)] /\ L + 1 \in Nat
    BY <1>2
  <2>5. Seq(V) # {}
    <3>1. <<>> \in Seq(V)
      OBVIOUS
    <3> QED
      BY <3>1, Zenon
  <2> HIDE DEF E, rank, D
  <2>6. Descends(D, Seq(V), E, rank)
    BY <2>3, Zenon DEF Descends
  <2>7. Recursive(D, Seq(V), E)
    BY <2>2, <2>4, <2>5, <2>6, Zenon DEF Recursive
  <2>8. PICK f \in [D -> Seq(V)] : f = E[f]
    BY <2>7, Recursion
  <2> QED
    BY <2>8, Zenon DEF E
<1>6. R = [i \in D |-> DecodeAt(text, R, i)]
  BY <1>5, Zenon
<1>7. \A i \in D : R[i] = DecodeAt(text, R, i)
  BY <1>6, Zenon
<1> HIDE DEF R
<1> QED
  BY <1>1, <1>7, Zenon DEF L

\* One element before the rest of a sequence.
LEMMA SuffixStep ==
    ASSUME NEW S, NEW s \in Seq(S), NEW L \in Nat, Len(s) = L, NEW i \in 1..L
    PROVE  <<s[i]>> \o SubSeq(s, i + 1, L) = SubSeq(s, i, L)
<1> DEFINE a == SubSeq(s, i + 1, L)
           b == SubSeq(s, i, L)
           c == <<s[i]>>
           p == c \o a
<1>1. a \in Seq(S) /\ Len(a) = L - i /\ \A j \in 1..(L - i) : a[j] = s[i + j]
  BY SMT
<1>2. b \in Seq(S) /\ Len(b) = L - i + 1 /\ \A j \in 1..(L - i + 1) : b[j] = s[i + j - 1]
  BY SMT
<1>3. c \in Seq(S) /\ Len(c) = 1 /\ c[1] = s[i]
  BY SMT
<1> HIDE DEF a, b, c
<1>4. /\ p \in Seq(S) /\ Len(p) = 1 + (L - i)
      /\ p[1] = c[1]
      /\ \A j \in 1..(L - i) : p[1 + j] = a[j]
  <2>1. IsConcat(S, p, c, a)
    BY <1>1, <1>3, ConcatElements, Zenon
  <2> HIDE DEF p
  <2>2. 1 \in 1..1
    OBVIOUS
  <2> QED
    BY <1>1, <1>3, <2>1, <2>2, Zenon DEF IsConcat
<1> HIDE DEF p
<1>5. Len(p) = Len(b) /\ \A j \in 1..Len(p) : p[j] = b[j]
  <2>1. 1 + (L - i) = L - i + 1
    OBVIOUS
  <2>2. ASSUME NEW j \in 1..(L - i + 1)
        PROVE  p[j] = b[j]
    <3>1. CASE j = 1
      <4>1. i + j - 1 = i
        BY <3>1
      <4> QED
        BY <1>2, <1>3, <1>4, <3>1, <4>1, Zenon
    <3>2. CASE j # 1
      <4> DEFINE k == j - 1
      <4>1. k \in 1..(L - i) /\ 1 + k = j /\ i + k = i + j - 1
        BY <3>2
      <4> HIDE DEF k
      <4>2. p[j] = a[k] /\ a[k] = s[i + k] /\ b[j] = s[i + j - 1]
        BY <1>1, <1>2, <1>4, <4>1, Zenon
      <4> QED
        BY <4>1, <4>2, Zenon
    <3> QED
      BY <3>1, <3>2
  <2> QED
    BY <1>2, <1>4, <2>1, <2>2, Zenon
<1>6. p = b
  BY <1>2, <1>4, <1>5, SameSequence, Zenon DEF Alike
<1> QED
  BY <1>6 DEF p, a, b, c

\* percent_encode writes bytes, none of which is a delimiter of a query.
LEMMA EncodedBytes ==
    ASSUME NEW value \in Seq(Byte)
    PROVE  LET ss == [i \in DOMAIN value |-> EncodeByte(value[i])]
           IN  /\ ss \in Seq(Seq(Byte))
               /\ Len(ss) = Len(value)
               /\ percent_encode(value) = Concat(ss)
               /\ percent_encode(value) \in Seq(Byte)
               /\ \A p \in 1..Len(percent_encode(value)) : percent_encode(value)[p] \notin {38, 61}
<1> DEFINE L == Len(value)
           ss == [i \in DOMAIN value |-> EncodeByte(value[i])]
           t == percent_encode(value)
<1>1. L \in Nat /\ DOMAIN value = 1..L /\ \A i \in 1..L : value[i] \in Byte
  OBVIOUS
<1>2. \A i \in 1..L : ss[i] = EncodeByte(value[i])
  BY <1>1, Zenon
<1>3. ASSUME NEW c \in Byte
      PROVE  /\ EncodeByte(c) \in Seq(Byte)
             /\ \A j \in 1..Len(EncodeByte(c)) : EncodeByte(c)[j] \notin {38, 61}
  <2> DEFINE e == EncodeByte(c)
  <2>1. Plain(c, e) \/ Escaped(c, e)
    BY ByteCoding, Zenon
  <2> HIDE DEF e
  <2>2. CASE Plain(c, e)
    <3>1. e = <<c>> /\ c \notin {38, 61}
      BY <2>2 DEF Plain
    <3> QED
      BY <3>1 DEF e
  <2>3. CASE Escaped(c, e)
    <3>1. PICK h, d \in Byte : h \notin {38, 61} /\ d \notin {38, 61} /\ e = <<37, h, d>>
      BY <2>3, Zenon DEF Escaped
    <3>2. 37 \in Byte /\ 37 \notin {38, 61}
      BY DEF Byte
    <3>3. e \in Seq(Byte) /\ Len(e) = 3 /\ e[1] = 37 /\ e[2] = h /\ e[3] = d
      BY <3>1, <3>2
    <3>4. \A j \in 1..3 : e[j] \notin {38, 61}
      <4> TAKE j \in 1..3
      <4>1. j = 1 \/ j = 2 \/ j = 3
        OBVIOUS
      <4>2. e[j] = 37 \/ e[j] = h \/ e[j] = d
        BY <3>3, <4>1, Zenon
      <4> QED
        BY <3>1, <3>2, <4>2, SMT
    <3> QED
      BY <3>3, <3>4, Zenon DEF e
  <2> QED
    BY <2>1, <2>2, <2>3
<1>4. ss \in Seq(Seq(Byte)) /\ Len(ss) = L
  <2>1. \A i \in 1..L : EncodeByte(value[i]) \in Seq(Byte)
    BY <1>1, <1>3, Zenon
  <2> QED
    BY <1>1, <2>1
<1>5. t = Concat(ss)
  BY Zenon DEF percent_encode
<1> HIDE DEF t, ss
<1>6. t \in Seq(Byte) /\ \E at : Placed(ss, t, at)
  BY <1>4, <1>5, ConcatPlaced, Zenon
<1>7. PICK at : Placed(ss, t, at)
  BY <1>6, Zenon
<1>8. ASSUME NEW p \in 1..Len(t)
      PROVE  t[p] \notin {38, 61}
  <2>1. InPart(ss, at, p)
    BY <1>4, <1>7, PlacedCovers, Zenon
  <2>2. PICK i \in 1..L : \E j \in 1..Len(ss[i]) : p = at[i - 1] + j
    BY <1>4, <2>1, Zenon DEF InPart
  <2>3. PICK j \in 1..Len(ss[i]) : p = at[i - 1] + j
    BY <2>2, Zenon
  <2>4. t[p] = ss[i][j]
    BY <1>4, <1>7, <2>3, Zenon DEF Placed
  <2> DEFINE M == {38, 61}
  <2>5. \A c \in Byte : \A k \in 1..Len(EncodeByte(c)) : EncodeByte(c)[k] \notin M
    BY <1>3, Zenon
  <2> HIDE DEF M
  <2>6. t[p] \notin M
    BY <1>1, <1>2, <2>4, <2>5, Zenon
  <2> QED
    BY <2>6 DEF M
<1> QED
  BY <1>4, <1>5, <1>6, <1>8, Zenon DEF t, ss

\* percent_decode undoes percent_encode for every sequence of bytes.
THEOREM PercentInverse ==
    ASSUME NEW value \in Seq(Byte)
    PROVE  percent_decode(percent_encode(value)) = value
<1> DEFINE L == Len(value)
           ss == [i \in DOMAIN value |-> EncodeByte(value[i])]
           text == percent_encode(value)
<1>1. L \in Nat /\ DOMAIN value = 1..L
  OBVIOUS
<1>2. /\ ss \in Seq(Seq(Byte)) /\ Len(ss) = L
      /\ text = Concat(ss) /\ text \in Seq(Byte)
  BY EncodedBytes, Zenon
<1>3. \A i \in 1..L : value[i] \in Byte /\ ss[i] = EncodeByte(value[i])
  OBVIOUS
<1> HIDE DEF L, ss, text
<1>4. PICK at : Placed(ss, text, at)
  BY <1>2, ConcatPlaced, Zenon
<1>5. /\ at \in [0..L -> Nat]
      /\ at[0] = 0
      /\ \A i \in 1..L : at[i] = at[i - 1] + Len(ss[i])
      /\ Len(text) = at[L]
      /\ \A i \in 1..L : \A j \in 1..Len(ss[i]) :
           at[i - 1] + j \in 1..Len(text) /\ text[at[i - 1] + j] = ss[i][j]
  BY <1>2, <1>4, Zenon DEF Placed
<1>6. PICK rest : /\ \A i \in 1..(Len(text) + 1) : rest[i] = DecodeAt(text, rest, i)
                  /\ percent_decode(text) = rest[1]
  BY <1>2, DecodeTurns, Zenon
<1>7. ASSUME NEW i \in 1..L
      PROVE  rest[at[i - 1] + 1] = <<value[i]>> \o rest[at[i] + 1]
  <2> DEFINE c == value[i]
             e == ss[i]
             a == at[i - 1]
             p == a + 1
             l == Len(text)
  <2>1. c \in Byte /\ (Plain(c, e) \/ Escaped(c, e))
    BY <1>3, ByteCoding, Zenon
  <2>2. a \in Nat /\ at[i] = a + Len(e)
    BY <1>1, <1>5
  <2>3. \A j \in 1..Len(e) : a + j \in 1..l /\ text[a + j] = e[j]
    BY <1>5, Zenon
  <2>30. l \in Nat
    BY <1>2
  <2>31. \A k \in 1..(l + 1) : rest[k] = DecodeAt(text, rest, k)
    BY <1>6, Zenon
  <2> HIDE DEF c, e, a, l
  <2>4. CASE Plain(c, e)
    <3>1. e = <<c>> /\ c # 37 /\ c # 43
      BY <2>4 DEF Plain
    <3>2. Len(e) = 1 /\ e[1] = c
      BY <3>1
    <3>3. p \in 1..l /\ text[p] = c
      BY <2>3, <3>2
    <3>4. p \in 1..(l + 1) /\ ~(p > l) /\ p + 1 = at[i] + 1
      BY <2>2, <2>30, <3>2, <3>3
    <3> HIDE DEF p
    <3>5. DecodeAt(text, rest, p) = <<c>> \o rest[p + 1]
      BY <3>1, <3>3, <3>4, Zenon DEF DecodeAt, l
    <3> QED
      BY <2>31, <3>4, <3>5, Zenon DEF p, a, c
  <2>5. CASE Escaped(c, e)
    <3>1. PICK h, d \in Byte : e = <<37, h, d>> /\ Strtol(h, d) = c
      BY <2>5, Zenon DEF Escaped
    <3>2. Len(e) = 3 /\ e[1] = 37 /\ e[2] = h /\ e[3] = d
      BY <3>1
    <3>3. /\ a + 1 \in 1..l /\ text[a + 1] = 37
          /\ a + 2 \in 1..l /\ text[a + 2] = h
          /\ a + 3 \in 1..l /\ text[a + 3] = d
      BY <2>3, <3>2
    <3>4. /\ p \in 1..(l + 1) /\ ~(p > l) /\ p + 3 = at[i] + 1 /\ p + 2 <= l
          /\ p + 1 = a + 2 /\ p + 2 = a + 3 /\ p = a + 1
      BY <2>2, <2>30, <3>2, <3>3
    <3> HIDE DEF p
    <3>5. text[p] = 37 /\ text[p + 1] = h /\ text[p + 2] = d
      BY <3>3, <3>4, Zenon
    <3>6. DecodeAt(text, rest, p) = <<c>> \o rest[p + 3]
      BY <3>1, <3>4, <3>5, Zenon DEF DecodeAt, EscapeFits, l
    <3> QED
      BY <2>31, <3>4, <3>6, Zenon DEF p, a, c
  <2> QED
    BY <2>1, <2>4, <2>5, Zenon
<1> DEFINE T == {i \in 0..L : rest[at[i] + 1] = SubSeq(value, i + 1, L)}
<1>8. L \in T
  <2> DEFINE l == Len(text)
  <2>1. l \in Nat /\ l + 1 \in 1..(l + 1) /\ l + 1 > l
    BY <1>2
  <2>2. rest[l + 1] = DecodeAt(text, rest, l + 1)
    BY <1>6, <2>1, Zenon
  <2>3. DecodeAt(text, rest, l + 1) = <<>>
    BY <2>1, Zenon DEF DecodeAt
  <2>4. SubSeq(value, L + 1, L) = <<>>
    BY <1>1
  <2>5. L \in 0..L
    BY <1>1
  <2> QED
    BY <1>5, <2>2, <2>3, <2>4, <2>5, Zenon
<1>9. ASSUME NEW i \in 1..L, i \in T
      PROVE  i - 1 \in T
  <2>1. i - 1 \in 0..L /\ (i - 1) + 1 = i
    BY <1>1
  <2>2. rest[at[i] + 1] = SubSeq(value, i + 1, L)
    BY <1>9, Zenon
  <2>3. <<value[i]>> \o SubSeq(value, i + 1, L) = SubSeq(value, i, L)
    BY <1>1, SuffixStep, Zenon DEF L
  <2> QED
    BY <1>7, <2>1, <2>2, <2>3, Zenon
<1> HIDE DEF T
<1>10. \A i \in 0..L : i \in T
  BY <1>1, <1>8, <1>9, BackwardInduction, Zenon
<1>11. rest[1] = SubSeq(value, 1, L)
  <2>1. 0 \in T /\ 0 + 1 = 1
    BY <1>1, <1>10
  <2> QED
    BY <1>5, <2>1, Zenon DEF T
<1>12. SubSeq(value, 1, L) = value
  BY DEF L
<1> QED
  BY <1>6, <1>11, <1>12, Zenon DEF text

-----------------------------------------------------------------------------
(* Split and Join                                                          *)

\* A sequence with one more element.
LEMMA AppendTyped ==
    ASSUME NEW S, NEW s \in Seq(S), NEW x \in S
    PROVE  Append(s, x) \in Seq(S) /\ Append(s, x) # <<>>
<1> DEFINE t == Append(s, x)
<1>1. t \in Seq(S) /\ Len(t) = Len(s) + 1 /\ Len(s) \in Nat
  OBVIOUS
<1> HIDE DEF t
<1>2. t # <<>>
  BY <1>1
<1> QED
  BY <1>1, <1>2 DEF t

\* The first n + 1 elements are the first n and the next one.
LEMMA PrefixStep ==
    ASSUME NEW S, NEW s \in Seq(S), NEW n \in Nat, n + 1 <= Len(s)
    PROVE  Append(SubSeq(s, 1, n), s[n + 1]) = SubSeq(s, 1, n + 1)
OBVIOUS

\* A character other than the delimiter goes to the last field.
CutIs(F, u, c, d) ==
    Cut(Append(F, u), c, d) =
        IF c = d THEN Append(Append(F, u), <<>>) ELSE Append(F, Append(u, c))

\* Cut works on the last field only.
LEMMA CutField ==
    ASSUME NEW C, NEW F \in Seq(Seq(C)), NEW u \in Seq(C), NEW c \in C, NEW d
    PROVE  CutIs(F, u, c, d)
<1> DEFINE f == Append(F, u)
           v == Append(u, c)
           k == Len(f)
           g == [f EXCEPT ![k] = Append(f[k], c)]
           h == Append(F, v)
<1>1. F \in Seq(Seq(C)) /\ u \in Seq(C) /\ v \in Seq(C) /\ Len(F) \in Nat
  OBVIOUS
<1>2. /\ f \in Seq(Seq(C)) /\ Len(f) = Len(F) + 1 /\ f[Len(F) + 1] = u
      /\ \A i \in 1..Len(F) : f[i] = F[i]
  BY <1>1
<1> HIDE DEF v
<1>3. /\ h \in Seq(Seq(C)) /\ Len(h) = Len(F) + 1 /\ h[Len(F) + 1] = v
      /\ \A i \in 1..Len(F) : h[i] = F[i]
  BY <1>1
<1>4. f[k] = u /\ Append(f[k], c) = v
  BY <1>2, Zenon DEF v
<1> HIDE DEF f
<1>5. g = [f EXCEPT ![k] = v] /\ k = Len(F) + 1
  BY <1>2, <1>4, Zenon
<1>6. g = h
  <2> DEFINE e == [f EXCEPT ![k] = v]
  <2>1. k \in Nat /\ k = Len(F) + 1
    BY <1>1, <1>5
  <2> HIDE DEF k
  <2>2. e \in Seq(Seq(C)) /\ Len(e) = k /\ e[k] = v /\ \A i \in 1..Len(F) : e[i] = f[i]
    BY <1>1, <1>2, <2>1
  <2> HIDE DEF e, h, g
  <2>3. Len(e) = Len(h)
    BY <1>3, <2>1, <2>2, Zenon
  <2>4. \A i \in 1..Len(e) : i = k \/ i \in 1..Len(F)
    BY <1>1, <2>1, <2>2
  <2>5. \A i \in 1..Len(e) : e[i] = h[i]
    BY <1>2, <1>3, <2>1, <2>2, <2>4, Zenon
  <2>6. e = h
    <3>1. Alike(Seq(C), e, h)
      BY <1>3, <2>2, <2>3, <2>5, Zenon DEF Alike
    <3> QED
      BY <3>1, SameSequence, Zenon
  <2> QED
    BY <1>5, <2>6, Zenon DEF e
<1>7. Cut(f, c, d) = IF c = d THEN Append(f, <<>>) ELSE g
  BY Zenon DEF Cut
<1> QED
  BY <1>6, <1>7, Zenon DEF f, v, CutIs

\* A field that is not empty has a last element.
LEMMA LastField ==
    ASSUME NEW C, NEW f \in Seq(Seq(C)), f # <<>>
    PROVE  \E F \in Seq(Seq(C)) : \E u \in Seq(C) : f = Append(F, u)
<1> DEFINE k == Len(f)
           F == SubSeq(f, 1, k - 1)
           u == f[k]
<1>1. k \in Nat /\ 1 <= k /\ k \in 1..k
  OBVIOUS
<1>2. u \in Seq(C)
  BY <1>1
<1>3. F \in Seq(Seq(C)) /\ Len(F) = k - 1 /\ \A i \in 1..(k - 1) : F[i] = f[i]
  <2> DEFINE m == k - 1
  <2>1. m \in Nat /\ m <= Len(f)
    BY <1>1
  <2> HIDE DEF m
  <2>2. /\ SubSeq(f, 1, m) \in Seq(Seq(C)) /\ Len(SubSeq(f, 1, m)) = m
        /\ \A i \in 1..m : SubSeq(f, 1, m)[i] = f[i]
    BY <2>1, PrefixElements, Zenon
  <2> QED
    BY <2>2, Zenon DEF m
<1> HIDE DEF F, u
<1> DEFINE g == Append(F, u)
<1>4. g \in Seq(Seq(C)) /\ Len(g) = k /\ g[k] = u /\ \A i \in 1..(k - 1) : g[i] = F[i]
  BY <1>1, <1>2, <1>3
<1> HIDE DEF g
<1>5. \A i \in 1..k : i = k \/ i \in 1..(k - 1)
  BY <1>1
<1>6. \A i \in 1..Len(g) : g[i] = f[i]
  BY <1>3, <1>4, <1>5, Zenon DEF u
<1>7. g = f
  BY <1>4, <1>6, SameSequence, Zenon DEF Alike
<1> QED
  BY <1>2, <1>3, <1>7, Zenon DEF g

\* Split takes the characters one by one.
LEMMA SplitTurns ==
    ASSUME NEW C, NEW text \in Seq(C), NEW d
    PROVE  \E F : /\ F[0] = <<<<>>>>
                  /\ \A n \in 1..Len(text) : F[n] = Cut(F[n - 1], text[n], d)
                  /\ Split(text, d) = F[Len(text)]
<1> DEFINE L == Len(text)
           D == 0..L
           S == {f \in Seq(Seq(C)) : f # <<>>}
           step(f, n) == IF n = 0 THEN <<<<>>>> ELSE Cut(f[n - 1], text[n], d)
           R == CHOOSE f : f = [n \in D |-> step(f, n)]
           E == [f \in [D -> S] |-> [n \in D |-> step(f, n)]]
           rank == [n \in D |-> n]
<1>1. Split(text, d) = R[L]
  BY Zenon DEF Split
<1>2. L \in Nat /\ \A n \in 1..L : text[n] \in C
  OBVIOUS
<1> HIDE DEF L
<1>3. <<<<>>>> \in S
  OBVIOUS
<1>4. ASSUME NEW f \in S, NEW c \in C
      PROVE  Cut(f, c, d) \in S
  <2>1. PICK F \in Seq(Seq(C)) : \E u \in Seq(C) : f = Append(F, u)
    BY LastField, Zenon
  <2>2. PICK u \in Seq(C) : f = Append(F, u)
    BY <2>1, Zenon
  <2>3. Cut(f, c, d) = IF c = d THEN Append(f, <<>>) ELSE Append(F, Append(u, c))
    <3>1. CutIs(F, u, c, d)
      BY CutField, Zenon
    <3> QED
      BY <2>2, <3>1, Zenon DEF CutIs
  <2>4. Append(f, <<>>) \in Seq(Seq(C)) /\ Append(f, <<>>) # <<>>
    <3>1. f \in Seq(Seq(C)) /\ <<>> \in Seq(C)
      OBVIOUS
    <3> QED
      BY <3>1, AppendTyped, Zenon
  <2>5. Append(F, Append(u, c)) \in Seq(Seq(C)) /\ Append(F, Append(u, c)) # <<>>
    <3> DEFINE v == Append(u, c)
    <3>1. v \in Seq(C)
      OBVIOUS
    <3> HIDE DEF v
    <3>2. Append(F, v) \in Seq(Seq(C)) /\ Append(F, v) # <<>>
      BY <3>1, AppendTyped, Zenon
    <3> QED
      BY <3>2 DEF v
  <2> QED
    BY <2>3, <2>4, <2>5, Zenon
<1> HIDE DEF S
<1>5. \E f : f = [n \in D |-> step(f, n)]
  <2>1. ASSUME NEW f \in [D -> S], NEW n \in D
        PROVE  step(f, n) \in S
    <3>1. CASE n = 0
      BY <1>3, <3>1, Zenon
    <3>2. CASE n # 0
      <4>1. n \in 1..L /\ n - 1 \in D
        BY <1>2, <3>2
      <4>2. f[n - 1] \in S
        BY <4>1, Zenon
      <4> QED
        BY <1>2, <1>4, <3>2, <4>1, <4>2, Zenon
    <3> QED
      BY <3>1, <3>2
  <2>2. E \in [[D -> S] -> [D -> S]]
    BY <2>1, Zenon
  <2>3. ASSUME NEW n \in D, NEW f \in [D -> S], NEW g \in [D -> S],
               \A y \in D : rank[y] < rank[n] => f[y] = g[y]
        PROVE  E[f][n] = E[g][n]
    <3>1. n # 0 => f[n - 1] = g[n - 1]
      BY <1>2, <2>3
    <3>2. step(f, n) = step(g, n)
      BY <3>1, Zenon
    <3> QED
      BY <3>2, Zenon
  <2>4. rank \in [D -> 0..L]
    BY <1>2
  <2>5. S # {}
    BY <1>3, Zenon
  <2> HIDE DEF E, rank, D
  <2>6. Descends(D, S, E, rank)
    BY <2>3, Zenon DEF Descends
  <2>7. Recursive(D, S, E)
    BY <1>2, <2>2, <2>4, <2>5, <2>6, Zenon DEF Recursive
  <2>8. PICK f \in [D -> S] : f = E[f]
    BY <2>7, Recursion
  <2> QED
    BY <2>8, Zenon DEF E
<1>6. R = [n \in D |-> step(R, n)]
  BY <1>5, Zenon
<1>7. \A n \in D : R[n] = step(R, n)
  BY <1>6, Zenon
<1> HIDE DEF R
<1>8. R[0] = <<<<>>>>
  BY <1>2, <1>7
<1>9. \A n \in 1..L : R[n] = Cut(R[n - 1], text[n], d)
  <2> TAKE n \in 1..L
  <2>1. n \in D /\ n # 0
    BY <1>2
  <2> QED
    BY <1>7, <2>1, Zenon
<1> QED
  BY <1>1, <1>8, <1>9, Zenon DEF L

\* Characters without a delimiter make up the last field.
Run(C, F, G, n, w, text, d) ==
    /\ G \in Seq(Seq(C)) /\ w \in Seq(C) /\ n \in Nat
    /\ F[n] = Append(G, <<>>)
    /\ \A j \in 1..Len(w) : /\ w[j] # d
                            /\ text[n + j] = w[j]
                            /\ F[n + j] = Cut(F[(n + j) - 1], text[n + j], d)

Ran(F, G, n, w) == F[n + Len(w)] = Append(G, w)

\* A run of characters without the delimiter becomes one field.
LEMMA RunField ==
    ASSUME NEW C, NEW F, NEW G, NEW n, NEW w, NEW text, NEW d, Run(C, F, G, n, w, text, d)
    PROVE  Ran(F, G, n, w)
<1> DEFINE m == Len(w)
           T == {j \in 0..m : F[n + j] = Append(G, SubSeq(w, 1, j))}
<1>1. /\ G \in Seq(Seq(C)) /\ w \in Seq(C) /\ n \in Nat
      /\ F[n] = Append(G, <<>>)
      /\ \A j \in 1..m : w[j] # d /\ text[n + j] = w[j]
      /\ \A j \in 1..m : F[n + j] = Cut(F[(n + j) - 1], text[n + j], d)
  BY Zenon DEF Run
<1>2. m \in Nat /\ \A j \in 1..m : w[j] \in C
  BY <1>1
<1>3. 0 \in T
  <2>1. SubSeq(w, 1, 0) = <<>> /\ n + 0 = n /\ 0 \in 0..m
    BY <1>1, <1>2
  <2> QED
    BY <1>1, <2>1, Zenon
<1>4. ASSUME NEW j \in 0..(m - 1), j \in T
      PROVE  j + 1 \in T
  <2>1. j + 1 \in 1..m /\ j + 1 \in 0..m /\ (n + (j + 1)) - 1 = n + j /\ j \in Nat /\ j <= m
    BY <1>1, <1>2
  <2> DEFINE u == SubSeq(w, 1, j)
             c == w[j + 1]
  <2>2. u \in Seq(C) /\ c \in C
    BY <1>1, <1>2, <2>1
  <2>3. Append(u, c) = SubSeq(w, 1, j + 1)
    <3>1. j + 1 <= Len(w)
      BY <2>1
    <3> QED
      BY <1>1, <2>1, <3>1, PrefixStep, Zenon
  <2>4. F[n + j] = Append(G, u)
    BY <1>4, Zenon
  <2>5. F[n + (j + 1)] = Cut(F[n + j], c, d) /\ c # d
    BY <1>1, <2>1, Zenon
  <2> HIDE DEF u, c
  <2>6. Cut(Append(G, u), c, d) = Append(G, Append(u, c))
    <3>1. CutIs(G, u, c, d)
      BY <1>1, <2>2, CutField, Zenon
    <3> QED
      BY <2>5, <3>1, Zenon DEF CutIs
  <2>7. F[n + (j + 1)] = Append(G, SubSeq(w, 1, j + 1))
    BY <2>3, <2>4, <2>5, <2>6, Zenon
  <2> QED
    BY <2>1, <2>7, Zenon
<1> HIDE DEF T, m
<1>5. \A j \in 0..m : j \in T
  BY <1>2, <1>3, <1>4, BoundedInduction, Zenon
<1>6. m \in T
  BY <1>2, <1>5
<1>7. SubSeq(w, 1, m) = w
  BY <1>1 DEF m
<1> QED
  BY <1>6, <1>7, Zenon DEF T, m, Ran

\* What Join puts one after the other.
Joined(parts, sep) == [i \in DOMAIN parts |-> (IF i = 1 THEN <<>> ELSE sep) \o parts[i]]

\* Where the parts are in what Join gives.
LEMMA JoinParts ==
    ASSUME NEW C, NEW sep \in Seq(C), NEW parts \in Seq(Seq(C))
    PROVE  /\ Joined(parts, sep) \in Seq(Seq(C))
           /\ Len(Joined(parts, sep)) = Len(parts)
           /\ Join(parts, sep) \in Seq(C)
           /\ \E at : Placed(Joined(parts, sep), Join(parts, sep), at)
<1> DEFINE N == Len(parts)
           js == Joined(parts, sep)
           e(i) == (IF i = 1 THEN <<>> ELSE sep) \o parts[i]
<1>1. N \in Nat /\ DOMAIN parts = 1..N /\ \A i \in 1..N : parts[i] \in Seq(C)
  OBVIOUS
<1>2. \A i \in 1..N : e(i) \in Seq(C)
  <2> TAKE i \in 1..N
  <2> DEFINE a == IF i = 1 THEN <<>> ELSE sep
             b == parts[i]
  <2>1. a \in Seq(C) /\ b \in Seq(C)
    BY <1>1
  <2> HIDE DEF a, b
  <2>2. a \o b \in Seq(C)
    BY <2>1
  <2> QED
    BY <2>2 DEF a, b
<1>3. js = [i \in 1..N |-> e(i)]
  BY <1>1, Zenon DEF Joined
<1> HIDE DEF e
<1>4. js \in Seq(Seq(C)) /\ Len(js) = N
  BY <1>1, <1>2, <1>3
<1>5. Join(parts, sep) = Concat(js)
  BY Zenon DEF Join, Joined
<1> HIDE DEF js
<1>6. Concat(js) \in Seq(C) /\ \E at : Placed(js, Concat(js), at)
  BY <1>4, ConcatPlaced, Zenon
<1> QED
  BY <1>4, <1>5, <1>6, Zenon DEF js

\* The parts have no delimiter in them.
Splittable(C, parts, d) ==
    /\ d \in C
    /\ parts \in Seq(Seq(C))
    /\ parts # <<>>
    /\ \A i \in 1..Len(parts) : \A j \in 1..Len(parts[i]) : parts[i][j] # d

\* Split undoes Join.
LEMMA SplitJoin ==
    ASSUME NEW C, NEW parts, NEW d, Splittable(C, parts, d)
    PROVE  Split(Join(parts, <<d>>), d) = parts
<1> DEFINE sep == <<d>>
           N == Len(parts)
           js == Joined(parts, sep)
           text == Join(parts, sep)
<1>1. /\ d \in C /\ parts \in Seq(Seq(C)) /\ parts # <<>>
      /\ \A i \in 1..N : \A j \in 1..Len(parts[i]) : parts[i][j] # d
  BY Zenon DEF Splittable
<1>2. /\ N \in Nat /\ N # 0 /\ DOMAIN parts = 1..N
      /\ \A i \in 1..N : parts[i] \in Seq(C)
  BY <1>1
<1>3. sep \in Seq(C) /\ Len(sep) = 1 /\ sep[1] = d
  BY <1>1
<1> HIDE DEF sep
<1>4. js \in Seq(Seq(C)) /\ Len(js) = N /\ text \in Seq(C) /\ \E at : Placed(js, text, at)
  BY <1>1, <1>3, JoinParts, Zenon
<1>5. \A i \in 1..N : js[i] = (IF i = 1 THEN <<>> ELSE sep) \o parts[i]
  BY <1>2, Zenon DEF Joined
<1> HIDE DEF N, js, text
<1>6. PICK at : Placed(js, text, at)
  BY <1>4, Zenon
<1>7. /\ at \in [0..N -> Nat]
      /\ at[0] = 0
      /\ \A i \in 1..N : at[i] = at[i - 1] + Len(js[i])
      /\ Len(text) = at[N]
      /\ \A i \in 1..N : \A j \in 1..Len(js[i]) :
           at[i - 1] + j \in 1..Len(text) /\ text[at[i - 1] + j] = js[i][j]
  BY <1>4, <1>6, Zenon DEF Placed
<1>8. PICK F : /\ F[0] = <<<<>>>>
               /\ \A n \in 1..Len(text) : F[n] = Cut(F[n - 1], text[n], d)
               /\ Split(text, d) = F[Len(text)]
  BY <1>4, SplitTurns, Zenon
<1> DEFINE T == {m \in 0..N : m # 0 => F[at[m]] = SubSeq(parts, 1, m)}
<1>9. 0 \in T
  BY <1>2
<1>10. ASSUME NEW m \in 0..(N - 1), m \in T
       PROVE  m + 1 \in T
  <2> DEFINE i == m + 1
             G == SubSeq(parts, 1, m)
             w == parts[i]
  <2>1. i \in 1..N /\ i \in 0..N /\ i - 1 = m /\ m \in Nat /\ m <= N /\ m \in 0..N
    BY <1>2
  <2>2. G \in Seq(Seq(C)) /\ w \in Seq(C)
    BY <1>1, <1>2, <2>1 DEF N
  <2>3. Append(G, w) = SubSeq(parts, 1, i)
    <3>1. m + 1 <= Len(parts)
      BY <1>2, <2>1 DEF N
    <3> QED
      BY <1>1, <2>1, <3>1, PrefixStep, Zenon
  <2>4. \A j \in 1..Len(w) : w[j] # d
    BY <1>1, <2>1, Zenon DEF N
  <2> HIDE DEF G, w, i
  <2>5. Len(w) \in Nat /\ at[m] \in Nat
    BY <1>7, <2>1, <2>2, SMTT(30)
  <2>6. F[at[i]] = Append(G, w)
    <3> DEFINE b == at[m]
               l == Len(text)
    <3>0. /\ at[i] = b + Len(js[i]) /\ b \in Nat /\ l \in Nat
          /\ \A j \in 1..Len(js[i]) : b + j \in 1..l /\ text[b + j] = js[i][j]
          /\ \A n \in 1..l : F[n] = Cut(F[n - 1], text[n], d)
      <4>1. Len(text) \in Nat
        BY <1>4
      <4>2. /\ at[i] = at[i - 1] + Len(js[i])
            /\ \A j \in 1..Len(js[i]) :
                 at[i - 1] + j \in 1..Len(text) /\ text[at[i - 1] + j] = js[i][j]
        BY <1>7, <2>1, Zenon
      <4> QED
        BY <1>8, <2>1, <2>5, <4>1, <4>2, Zenon
    <3> HIDE DEF b, l
    <3>1. CASE m = 0
      <4>1. i = 1 /\ b = 0
        BY <1>7, <3>1 DEF i, b
      <4>2. js[i] = w
        <5>1. js[i] = <<>> \o w
          BY <1>5, <2>1, <4>1, Zenon DEF w
        <5> QED
          BY <2>2, <5>1, EmptyConcat, Zenon
      <4>3. G = <<>> /\ Append(G, <<>>) = <<<<>>>>
        <5>1. SubSeq(parts, 1, 0) = <<>>
          BY <1>1
        <5>2. Append(<<>>, <<>>) = <<<<>>>>
          OBVIOUS
        <5> QED
          BY <3>1, <5>1, <5>2, Zenon DEF G
      <4>4. \A j \in 1..Len(w) : 0 + j \in 1..l /\ text[0 + j] = w[j]
        BY <3>0, <4>1, <4>2, Zenon
      <4>5. Run(C, F, G, 0, w, text, d)
        <5>1. 0 \in Nat /\ F[0] = Append(G, <<>>)
          BY <1>8, <4>3, Zenon
        <5> QED
          BY <2>2, <2>4, <3>0, <4>4, <5>1, Zenon DEF Run
      <4>6. at[i] = 0 + Len(w)
        BY <3>0, <4>1, <4>2, Zenon
      <4>7. Ran(F, G, 0, w)
        BY <4>5, RunField, Zenon
      <4> QED
        BY <4>6, <4>7, Zenon DEF Ran
    <3>2. CASE m # 0
      <4>1. i # 1
        BY <2>1, <3>2
      <4> DEFINE q == js[i]
                 n == b + 1
      <4>2. IsConcat(C, q, sep, w)
        <5>1. q = sep \o w
          BY <1>5, <2>1, <4>1, Zenon DEF w
        <5> QED
          BY <1>3, <2>2, <5>1, ConcatElements, Zenon
      <4>3. /\ Len(q) = 1 + Len(w)
            /\ 1 \in 1..Len(q) /\ q[1] = d
            /\ \A j \in 1..Len(w) : 1 + j \in 1..Len(q) /\ q[1 + j] = w[j]
        <5>1. 1 \in 1..1
          OBVIOUS
        <5> HIDE DEF q
        <5> QED
          BY <1>3, <4>2, <5>1, Zenon DEF IsConcat
      <4>4. n \in 1..l /\ text[n] = d /\ n - 1 = b
        <5>1. b + 1 \in 1..l /\ text[b + 1] = d
          BY <3>0, <4>3, Zenon
        <5> QED
          BY <3>0, <5>1
      <4>5. F[n] = Append(G, <<>>)
        <5>1. F[b] = G
          BY <1>10, <3>2, Zenon DEF b, G
        <5>2. F[n] = Cut(F[b], d, d)
          BY <3>0, <4>4, Zenon
        <5> QED
          BY <5>1, <5>2, Zenon DEF Cut
      <4>6. \A j \in 1..Len(w) : n + j \in 1..l /\ text[n + j] = w[j]
        <5> TAKE j \in 1..Len(w)
        <5>1. b + (1 + j) \in 1..l /\ text[b + (1 + j)] = w[j]
          BY <3>0, <4>3, Zenon
        <5>2. b + (1 + j) = n + j
          BY <2>5, <3>0
        <5> QED
          BY <5>1, <5>2, Zenon
      <4>7. Run(C, F, G, n, w, text, d)
        <5>1. n \in Nat
          BY <3>0
        <5> HIDE DEF n
        <5> QED
          BY <2>2, <2>4, <3>0, <4>5, <4>6, <5>1, Zenon DEF Run
      <4>8. at[i] = n + Len(w)
        <5>1. at[i] = b + (1 + Len(w))
          BY <3>0, <4>3, Zenon
        <5> QED
          BY <2>5, <3>0, <5>1
      <4> HIDE DEF n
      <4>9. Ran(F, G, n, w)
        BY <4>7, RunField, Zenon
      <4> QED
        BY <4>8, <4>9, Zenon DEF Ran
    <3> QED
      BY <3>1, <3>2
  <2> QED
    BY <2>1, <2>3, <2>6, Zenon DEF i
<1> HIDE DEF T
<1>11. \A m \in 0..N : m \in T
  BY <1>2, <1>9, <1>10, BoundedInduction, Zenon
<1>12. F[at[N]] = SubSeq(parts, 1, N)
  BY <1>2, <1>11 DEF T
<1>13. SubSeq(parts, 1, N) = parts
  BY <1>1 DEF N
<1> QED
  BY <1>7, <1>8, <1>12, <1>13, Zenon DEF text, sep

-----------------------------------------------------------------------------
(* Query strings                                                           *)

\* Free(s, M): no character of s is in M.
Free(s, M) == \A p \in 1..Len(s) : s[p] \notin M

\* The characters of two sequences are those of either.
LEMMA FreeConcat ==
    ASSUME NEW S, NEW M, NEW s \in Seq(S), NEW t \in Seq(S), Free(s, M), Free(t, M)
    PROVE  Free(s \o t, M)
<1> DEFINE p == s \o t
<1>1. IsConcat(S, p, s, t)
  BY ConcatElements, Zenon
<1> HIDE DEF p
<1>2. ASSUME NEW i \in 1..Len(p)
      PROVE  p[i] \notin M
  <2> DEFINE l == Len(s)
             m == Len(t)
  <2>1. l \in Nat /\ m \in Nat /\ Len(p) = l + m
    BY <1>1, Zenon DEF IsConcat
  <2>2. /\ \A k \in 1..l : p[k] = s[k]
        /\ \A k \in 1..m : p[l + k] = t[k]
    BY <1>1, Zenon DEF IsConcat
  <2> HIDE DEF l, m
  <2>3. CASE i <= l
    <3>1. i \in 1..l
      BY <2>1, <2>3
    <3> QED
      BY <2>2, <3>1, Zenon DEF Free, l
  <2>4. CASE ~(i <= l)
    <3> DEFINE k == i - l
    <3>1. k \in 1..m /\ i = l + k
      BY <2>1, <2>4
    <3> HIDE DEF k
    <3>2. p[i] = t[k]
      BY <2>2, <3>1, Zenon
    <3> QED
      BY <3>1, <3>2, Zenon DEF Free, m
  <2> QED
    BY <2>3, <2>4
<1> QED
  BY <1>2, Zenon DEF Free, p

\* A pair of a query string is cut at its '='.
LEMMA PairSplit ==
    ASSUME NEW a \in Seq(Byte), NEW b \in Seq(Byte), Free(a, {61}), Free(b, {61})
    PROVE  Split(a \o <<61>> \o b, 61) = <<a, b>>
<1> DEFINE parts == <<a, b>>
           sep == <<61>>
           js == Joined(parts, sep)
<1>1. 61 \in Byte /\ sep \in Seq(Byte) /\ <<>> \in Seq(Byte)
  BY DEF Byte
<1>2. /\ parts \in Seq(Seq(Byte)) /\ parts # <<>> /\ Len(parts) = 2
      /\ parts[1] = a /\ parts[2] = b /\ DOMAIN parts = 1..2
  OBVIOUS
<1> HIDE DEF parts, sep
<1>3. Splittable(Byte, parts, 61)
  <2>1. /\ \A j \in 1..Len(a) : a[j] # 61
        /\ \A j \in 1..Len(b) : b[j] # 61
    BY Zenon DEF Free
  <2>2. \A i \in 1..2 : i = 1 \/ i = 2
    OBVIOUS
  <2>3. \A i \in 1..Len(parts) : parts[i] = a \/ parts[i] = b
    BY <1>2, <2>2, Zenon
  <2>4. ASSUME NEW i \in 1..Len(parts)
        PROVE  \A j \in 1..Len(parts[i]) : parts[i][j] # 61
    <3>1. CASE parts[i] = a
      BY <2>1, <3>1, Zenon
    <3>2. CASE parts[i] = b
      BY <2>1, <3>2, Zenon
    <3> QED
      BY <2>3, <3>1, <3>2, Zenon
  <2> QED
    BY <1>1, <1>2, <2>4, Zenon DEF Splittable
<1>4. Split(Join(parts, sep), 61) = parts
  BY <1>3, SplitJoin, Zenon DEF sep
<1>5. js \in Seq(Seq(Byte)) /\ Len(js) = 2 /\ js[1] = <<>> \o a /\ js[2] = sep \o b
  <2>1. js \in Seq(Seq(Byte)) /\ Len(js) = Len(parts)
    BY <1>1, <1>2, JoinParts, Zenon
  <2>2. 1 \in 1..2 /\ 2 \in 1..2 /\ 2 # 1
    OBVIOUS
  <2> QED
    BY <1>2, <2>1, <2>2, Zenon DEF Joined
<1>6. Join(parts, sep) = Concat(js)
  BY Zenon DEF Join, Joined
<1> HIDE DEF js
<1>7. PICK G : /\ G[0] = <<>>
               /\ \A i \in 1..2 : G[i] = G[i - 1] \o js[i]
               /\ Concat(js) = G[2]
  BY <1>5, ConcatSteps, Zenon
<1>8. G[1] = <<>> \o (<<>> \o a) /\ G[2] = G[1] \o (sep \o b)
  <2>1. 1 \in 1..2 /\ 2 \in 1..2 /\ 1 - 1 = 0 /\ 2 - 1 = 1
    OBVIOUS
  <2> QED
    BY <1>5, <1>7, <2>1, Zenon
<1>9. G[1] = a
  BY <1>8, EmptyConcat, Zenon
<1>10. (a \o sep) \o b = a \o (sep \o b)
  <2>1. a \in Seq(Byte) /\ sep \in Seq(Byte) /\ b \in Seq(Byte)
    BY <1>1
  <2> QED
    BY <2>1, SMTT(30)
<1> QED
  BY <1>4, <1>6, <1>7, <1>8, <1>9, <1>10, Zenon DEF parts, sep

\* The pairs that a server reads are those to_query_string was given, for every
\* query that is not empty and whatever bytes its keys and values hold.
THEOREM QueryInverse ==
    ASSUME NEW query \in Seq(Seq(Byte) \X Seq(Byte)), query # <<>>
    PROVE  Params(to_query_string(query)) = query
<1> DEFINE N == Len(query)
           a(i) == percent_encode(query[i][1])
           b(i) == percent_encode(query[i][2])
           parts == [i \in DOMAIN query |-> a(i) \o <<61>> \o b(i)]
           text == to_query_string(query)
<1>1. /\ N \in Nat /\ N # 0 /\ DOMAIN query = 1..N
      /\ \A i \in 1..N : query[i][1] \in Seq(Byte) /\ query[i][2] \in Seq(Byte)
      /\ \A i \in 1..N : query[i] = <<query[i][1], query[i][2]>>
  OBVIOUS
<1>2. text = Join(parts, <<38>>)
  BY Zenon DEF to_query_string
<1>3. \A i \in 1..N : /\ a(i) \in Seq(Byte) /\ Free(a(i), {38, 61})
                      /\ b(i) \in Seq(Byte) /\ Free(b(i), {38, 61})
  BY <1>1, EncodedBytes, Zenon DEF Free
<1>4. \A i \in 1..N : percent_decode(a(i)) = query[i][1] /\ percent_decode(b(i)) = query[i][2]
  BY <1>1, PercentInverse, Zenon
<1> HIDE DEF a, b
<1>5. parts = [i \in 1..N |-> a(i) \o <<61>> \o b(i)]
  BY <1>1, Zenon
<1>6. ASSUME NEW i \in 1..N
      PROVE  /\ a(i) \o <<61>> \o b(i) \in Seq(Byte)
             /\ Free(a(i) \o <<61>> \o b(i), {38})
             /\ Split(a(i) \o <<61>> \o b(i), 61) = <<a(i), b(i)>>
  <2> DEFINE x == a(i)
             y == b(i)
             e == <<61>>
  <2>1. x \in Seq(Byte) /\ y \in Seq(Byte) /\ Free(x, {38, 61}) /\ Free(y, {38, 61})
    BY <1>3, Zenon
  <2>2. 61 \in Byte /\ 61 \notin {38}
    BY DEF Byte
  <2>3. e \in Seq(Byte) /\ Free(e, {38})
    BY <2>2 DEF Free
  <2> HIDE DEF x, y
  <2>4. Free(x, {38}) /\ Free(y, {38}) /\ Free(x, {61}) /\ Free(y, {61})
    BY <2>1, Zenon DEF Free
  <2>5. Split(x \o e \o y, 61) = <<x, y>>
    BY <2>1, <2>4, PairSplit, Zenon
  <2> HIDE DEF e
  <2>6. x \o e \in Seq(Byte) /\ Free(x \o e, {38})
    BY <2>1, <2>3, <2>4, FreeConcat, SMT
  <2> DEFINE z == x \o e
  <2>7. z \in Seq(Byte) /\ Free(z, {38})
    BY <2>6
  <2> HIDE DEF z
  <2>8. z \o y \in Seq(Byte) /\ Free(z \o y, {38})
    BY <2>1, <2>4, <2>7, FreeConcat, SMT
  <2> QED
    BY <2>5, <2>8, Zenon DEF x, y, e, z
<1>7. parts \in Seq(Seq(Byte)) /\ Len(parts) = N
  <2>1. \A i \in 1..N : a(i) \o <<61>> \o b(i) \in Seq(Byte)
    BY <1>6, Zenon
  <2> QED
    BY <1>1, <1>5, <2>1
<1>8. \A i \in 1..N : parts[i] = a(i) \o <<61>> \o b(i)
  BY <1>5, Zenon
<1> HIDE DEF parts
<1>9. Splittable(Byte, parts, 38)
  <2>1. parts # <<>> /\ 38 \in Byte
    BY <1>1, <1>7 DEF Byte
  <2>2. \A i \in 1..N : Free(parts[i], {38})
    BY <1>6, <1>8, Zenon
  <2>3. \A i \in 1..N : \A j \in 1..Len(parts[i]) : parts[i][j] # 38
    BY <2>2, Zenon DEF Free
  <2> QED
    BY <1>7, <2>1, <2>3, Zenon DEF Splittable
<1>10. Split(text, 38) = parts
  BY <1>2, <1>9, SplitJoin, Zenon
<1>11. DOMAIN parts = 1..N
  BY <1>7
<1>12. Params(text) = [i \in 1..N |-> <<percent_decode(Split(parts[i], 61)[1]),
                                        percent_decode(Split(parts[i], 61)[2])>>]
  BY <1>10, <1>11, Zenon DEF Params
<1>13. ASSUME NEW i \in 1..N
       PROVE  <<percent_decode(Split(parts[i], 61)[1]),
                percent_decode(Split(parts[i], 61)[2])>> = query[i]
  <2>1. Split(parts[i], 61) = <<a(i), b(i)>>
    BY <1>6, <1>8, Zenon
  <2>2. <<a(i), b(i)>>[1] = a(i) /\ <<a(i), b(i)>>[2] = b(i)
    OBVIOUS
  <2>3. /\ percent_decode(Split(parts[i], 61)[1]) = query[i][1]
        /\ percent_decode(Split(parts[i], 61)[2]) = query[i][2]
    BY <1>4, <2>1, <2>2, Zenon
  <2> QED
    BY <1>1, <2>3, Zenon
<1>14. Params(text) = [i \in 1..N |-> query[i]]
  BY <1>12, <1>13, Zenon
<1>15. query = [i \in 1..N |-> query[i]]
  BY <1>1
<1> QED
  BY <1>14, <1>15, Zenon DEF text

-----------------------------------------------------------------------------
(* Find                                                                    *)

\* A set of naturals that is not empty has a least element, which Min gives.
LEMMA MinIs ==
    ASSUME NEW A, A \subseteq Nat, A # {}
    PROVE  Min(A) \in A /\ \A y \in A : Min(A) <= y
<1>1. PICK x \in A : \A y \in A : ~(<<y, x>> \in OpToRel(<, Nat))
  BY WFMin, NatLessThanWellFounded, Zenon
<1>2. \A y \in A : x <= y
  <2> TAKE y \in A
  <2>1. x \in Nat /\ y \in Nat
    BY Zenon
  <2>2. ~(y < x)
    BY <1>1, <2>1, Zenon DEF OpToRel
  <2> QED
    BY <2>1, <2>2
<1> QED
  BY <1>2, Zenon DEF Min

\* r is the first position from `from` on that holds a member of M, 0 if none does.
FirstAt(s, M, from, r) ==
    \/ r = 0 /\ \A i \in from..Len(s) : s[i] \notin M
    \/ r \in from..Len(s) /\ s[r] \in M /\ \A i \in from..(r - 1) : s[i] \notin M

\* Find gives the first position, or 0 for npos.
LEMMA FindIs ==
    ASSUME NEW S, NEW s \in Seq(S), NEW M, NEW from \in Nat
    PROVE  FirstAt(s, M, from, Find(s, M, from))
<1> DEFINE l == Len(s)
           A == {i \in from..l : s[i] \in M}
           r == Find(s, M, from)
<1>1. l \in Nat
  OBVIOUS
<1>2. r = IF A = {} THEN 0 ELSE Min(A)
  BY Zenon DEF Find
<1>3. CASE A = {}
  BY <1>2, <1>3, Zenon DEF FirstAt
<1>4. CASE A # {}
  <2>1. A \subseteq Nat
    BY <1>1
  <2>2. \A i : i \in A <=> i \in from..l /\ s[i] \in M
    BY Zenon
  <2> HIDE DEF A
  <2>3. Min(A) \in A /\ \A y \in A : Min(A) <= y
    BY <1>4, <2>1, MinIs, Zenon
  <2>4. r = Min(A)
    BY <1>2, <1>4, Zenon
  <2> HIDE DEF r
  <2>5. r \in A /\ \A y \in A : r <= y
    BY <2>3, <2>4, Zenon
  <2>6. r \in from..l /\ s[r] \in M
    BY <2>2, <2>5, Zenon
  <2>7. ASSUME NEW i \in from..(r - 1)
        PROVE  s[i] \notin M
    <3>1. i \in from..l /\ ~(r <= i)
      BY <1>1, <2>6
    <3> QED
      BY <2>2, <2>5, <3>1, Zenon
  <2> QED
    BY <2>6, <2>7, Zenon DEF FirstAt, r
<1> QED
  BY <1>3, <1>4

\* It is the only one.
LEMMA FirstIsUnique ==
    ASSUME NEW S, NEW s \in Seq(S), NEW M, NEW from \in Nat, 1 <= from, NEW q, NEW r,
           FirstAt(s, M, from, q), FirstAt(s, M, from, r)
    PROVE  q = r
<1> DEFINE l == Len(s)
<1>1. l \in Nat
  OBVIOUS
<1>2. \/ q = 0 /\ \A i \in from..l : s[i] \notin M
      \/ q \in from..l /\ s[q] \in M /\ \A i \in from..(q - 1) : s[i] \notin M
  BY Zenon DEF FirstAt
<1>3. \/ r = 0 /\ \A i \in from..l : s[i] \notin M
      \/ r \in from..l /\ s[r] \in M /\ \A i \in from..(r - 1) : s[i] \notin M
  BY Zenon DEF FirstAt
<1> HIDE DEF l
<1>4. CASE q = 0 /\ \A i \in from..l : s[i] \notin M
  BY <1>3, <1>4, Zenon
<1>5. CASE r = 0 /\ \A i \in from..l : s[i] \notin M
  BY <1>2, <1>5, Zenon
<1>6. CASE /\ q \in from..l /\ s[q] \in M /\ \A i \in from..(q - 1) : s[i] \notin M
           /\ r \in from..l /\ s[r] \in M /\ \A i \in from..(r - 1) : s[i] \notin M
  <2>1. r \notin from..(q - 1) /\ q \notin from..(r - 1)
    BY <1>6, Zenon
  <2>2. q \in from..l /\ r \in from..l
    BY <1>6, Zenon
  <2> QED
    BY <1>1, <2>1, <2>2
<1> QED
  BY <1>2, <1>3, <1>4, <1>5, <1>6, Zenon

-----------------------------------------------------------------------------
(* Cookies                                                                 *)

Char == Byte

EqualSign == 61
Semicolon == 59
Blank == 32
Marks == {61, 59}

\* The marks are characters, and no two of them the same.
LEMMA MarkBytes ==
    EqualSign \in Char /\ Semicolon \in Char /\ Blank \in Char /\ Semicolon # Blank
BY SMT DEF EqualSign, Semicolon, Blank, Char, Byte

Mark(s, i) == s[i] = 59 /\ s[i + 1] = 32

\* r is where the first "; " from `from` on starts, 0 if there is none.
EndAt(s, from, r) ==
    \/ r = 0 /\ \A i \in from..(Len(s) - 1) : ~Mark(s, i)
    \/ r \in from..(Len(s) - 1) /\ Mark(s, r) /\ \A i \in from..(r - 1) : ~Mark(s, i)

\* FindFragmentEnd gives where the first "; " starts, or 0 for npos.
LEMMA FragmentEndIs ==
    ASSUME NEW S, NEW s \in Seq(S), NEW from \in Nat
    PROVE  EndAt(s, from, FindFragmentEnd(s, from))
<1> DEFINE l == Len(s) - 1
           A == {i \in from..l : s[i] = 59 /\ s[i + 1] = 32}
           r == FindFragmentEnd(s, from)
<1>1. l \in Int
  OBVIOUS
<1>2. r = IF A = {} THEN 0 ELSE Min(A)
  BY Zenon DEF FindFragmentEnd
<1>3. CASE A = {}
  BY <1>2, <1>3, Zenon DEF EndAt, Mark
<1>4. CASE A # {}
  <2>2. \A i : i \in A <=> i \in from..l /\ Mark(s, i)
    BY Zenon DEF Mark
  <2> HIDE DEF A
  <2>1. A \subseteq Nat
    BY <1>1, <2>2
  <2>3. Min(A) \in A /\ \A y \in A : Min(A) <= y
    BY <1>4, <2>1, MinIs, Zenon
  <2>4. r = Min(A)
    BY <1>2, <1>4, Zenon
  <2> HIDE DEF r
  <2>5. r \in A /\ \A y \in A : r <= y
    BY <2>3, <2>4, Zenon
  <2>6. r \in from..l /\ Mark(s, r)
    BY <2>2, <2>5, Zenon
  <2>7. ASSUME NEW i \in from..(r - 1)
        PROVE  ~Mark(s, i)
    <3>1. i \in from..l /\ ~(r <= i)
      BY <1>1, <2>6
    <3> QED
      BY <2>2, <2>5, <3>1, Zenon
  <2> QED
    BY <2>6, <2>7, Zenon DEF EndAt, r
<1> QED
  BY <1>3, <1>4, Zenon

\* There is one such place at most.
LEMMA EndIsUnique ==
    ASSUME NEW S, NEW s \in Seq(S), NEW from \in Nat, 1 <= from, NEW q, NEW r,
           EndAt(s, from, q), EndAt(s, from, r)
    PROVE  q = r
<1> DEFINE l == Len(s) - 1
<1>1. l \in Int
  OBVIOUS
<1>2. \/ q = 0 /\ \A i \in from..l : ~Mark(s, i)
      \/ q \in from..l /\ Mark(s, q) /\ \A i \in from..(q - 1) : ~Mark(s, i)
  BY Zenon DEF EndAt
<1>3. \/ r = 0 /\ \A i \in from..l : ~Mark(s, i)
      \/ r \in from..l /\ Mark(s, r) /\ \A i \in from..(r - 1) : ~Mark(s, i)
  BY Zenon DEF EndAt
<1> HIDE DEF l
<1>4. CASE q = 0 /\ \A i \in from..l : ~Mark(s, i)
  BY <1>3, <1>4, Zenon
<1>5. CASE r = 0 /\ \A i \in from..l : ~Mark(s, i)
  BY <1>2, <1>5, Zenon
<1>6. CASE /\ q \in from..l /\ Mark(s, q) /\ \A i \in from..(q - 1) : ~Mark(s, i)
           /\ r \in from..l /\ Mark(s, r) /\ \A i \in from..(r - 1) : ~Mark(s, i)
  <2>1. r \notin from..(q - 1) /\ q \notin from..(r - 1)
    BY <1>6, Zenon
  <2>2. q \in from..l /\ r \in from..l
    BY <1>6, Zenon
  <2> QED
    BY <1>1, <2>1, <2>2
<1> QED
  BY <1>2, <1>3, <1>4, <1>5, <1>6, Zenon

\* A function that parse_cookie computes: what the loop finds from each place on.
Parses(text, rest) ==
    \A i \in 1..(Len(text) + 2) : rest[i] = ParseCookieAt(text, rest, i)

\* parse_cookie computes such a function: the recursion ends, because every turn
\* of the loop moves on.
LEMMA CookieTurns ==
    ASSUME NEW cookie, NEW text \in Seq(Char)
    PROVE  text = Append(cookie, 59) =>
               \E rest : Parses(text, rest) /\ EmplacedCookies(cookie) = rest[1]
<1> DEFINE L == Len(text)
           D == 1..(L + 2)
           B == UNION {{SubSeq(text, m, n) : m \in Int} : n \in Int}
           A == {StripPrefix(b) : b \in B}
           V == A \X B
           R == CHOOSE f : f = [i \in D |-> ParseCookieAt(text, f, i)]
           E == [f \in [D -> Seq(V)] |-> [i \in D |-> ParseCookieAt(text, f, i)]]
           rank == [i \in D |-> (L + 2) - i]
<1>1. text = Append(cookie, 59) => EmplacedCookies(cookie) = R[1]
  BY Zenon DEF EmplacedCookies
<1>2. L \in Nat
  OBVIOUS
<1>3. \A a, b, c, d \in Int : <<StripPrefix(SubSeq(text, a, b)), SubSeq(text, c, d)>> \in V
  <2>2. ASSUME NEW c \in Int, NEW d \in Int
        PROVE  SubSeq(text, c, d) \in B
    <3> DEFINE H(n) == {SubSeq(text, m, n) : m \in Int}
    <3>1. SubSeq(text, c, d) \in H(d)
      BY Zenon
    <3>2. B = UNION {H(n) : n \in Int}
      BY Zenon
    <3> HIDE DEF H, B
    <3> QED
      BY <3>1, <3>2, Zenon
  <2> HIDE DEF B
  <2>1. \A a, b \in Int : StripPrefix(SubSeq(text, a, b)) \in A
    BY <2>2, Zenon
  <2> HIDE DEF A
  <2> QED
    BY <2>1, <2>2, Zenon
<1> HIDE DEF V
<1>4. ASSUME NEW i \in D
      PROVE  \/ \E o \in Seq(V) : \A f : ParseCookieAt(text, f, i) = o
             \/ \E n \in D : i < n /\ \A f : ParseCookieAt(text, f, i) = f[n]
             \/ \E o \in Seq(V), n \in D :
                    i < n /\ \A f : ParseCookieAt(text, f, i) = o \o f[n]
  <2> DEFINE sep == Find(text, {61, 59}, i)
             name == SubSeq(text, i, sep - 1)
             end == FindFragmentEnd(text, sep + 1)
             last == (IF end = 0 THEN Len(text) ELSE end) - 1
             value == SubSeq(text, sep + 1, last)
             found == IF SameWord(name, Options) THEN <<>> ELSE <<<<StripPrefix(name), value>>>>
  <2>1. i \in Nat
    BY <1>2
  <2>2. sep = 0 \/ sep \in i..L
    BY <2>1, FindIs, Zenon DEF FirstAt
  <2>4. \A f : ParseCookieAt(text, f, i) =
               CASE sep = 0 -> <<>>
                 [] sep # 0 /\ SameWord(name, Flags) -> f[AfterFlag(text, sep)]
                 [] sep # 0 /\ ~SameWord(name, Flags) /\ end = 0 -> found
                 [] OTHER -> found \o f[end + 2]
    BY Zenon DEF ParseCookieAt
  <2> HIDE DEF sep
  <2>3. sep \in Nat
    BY <1>2, <2>1, <2>2
  <2>5. sep + 1 \in Nat
    BY <2>3
  <2>6. end = 0 \/ end \in (sep + 1)..(L - 1)
    BY <2>5, FragmentEndIs, Zenon DEF EndAt
  <2> HIDE DEF end
  <2>7. found \in Seq(V)
    <3>1. last \in Int /\ sep - 1 \in Int /\ sep + 1 \in Int /\ i \in Int
      BY <1>2, <2>1, <2>3, <2>6
    <3> HIDE DEF last
    <3>2. <<StripPrefix(name), value>> \in V
      BY <1>3, <3>1, Zenon
    <3> DEFINE e == <<StripPrefix(name), value>>
    <3>3. e \in V
      BY <3>2, Zenon
    <3> HIDE DEF e
    <3>4. <<>> \in Seq(V) /\ <<e>> \in Seq(V)
      BY <3>3
    <3> QED
      BY <3>4, Zenon DEF e
  <2> HIDE DEF found, name
  <2>8. CASE sep = 0
    <3>1. <<>> \in Seq(V)
      OBVIOUS
    <3>2. \A f : ParseCookieAt(text, f, i) = <<>>
      BY <2>4, <2>8
    <3> QED
      BY <3>1, <3>2, Zenon
  <2>9. CASE sep # 0 /\ SameWord(name, Flags)
    <3> DEFINE n == AfterFlag(text, sep)
    <3>1. n \in D /\ i < n
      <4>1. sep \in i..L
        BY <2>2, <2>9
      <4>2. n = sep + 2 \/ n = sep + 1
        BY Zenon DEF AfterFlag
      <4> HIDE DEF n
      <4> QED
        BY <1>2, <2>1, <4>1, <4>2
    <3>2. \A f : ParseCookieAt(text, f, i) = f[n]
      BY <2>4, <2>9
    <3> QED
      BY <3>1, <3>2, Zenon
  <2>10. CASE sep # 0 /\ ~SameWord(name, Flags) /\ end = 0
    <3>1. \A f : ParseCookieAt(text, f, i) = found
      BY <2>4, <2>10
    <3> QED
      BY <2>7, <3>1, Zenon
  <2>11. CASE sep # 0 /\ ~SameWord(name, Flags) /\ end # 0
    <3> DEFINE n == end + 2
    <3>1. n \in D /\ i < n
      <4>1. sep \in i..L /\ end \in (sep + 1)..(L - 1)
        BY <2>2, <2>6, <2>11
      <4> QED
        BY <1>2, <2>1, <4>1
    <3>2. \A f : ParseCookieAt(text, f, i) = found \o f[n]
      BY <2>4, <2>11
    <3> HIDE DEF n
    <3> QED
      BY <2>7, <3>1, <3>2, Zenon
  <2> QED
    BY <2>8, <2>9, <2>10, <2>11, Zenon
<1> HIDE DEF L
<1>5. \E f \in [D -> Seq(V)] : f = [i \in D |-> ParseCookieAt(text, f, i)]
  <2>1. ASSUME NEW f \in [D -> Seq(V)], NEW i \in D
        PROVE  ParseCookieAt(text, f, i) \in Seq(V)
    <3>1. CASE \E o \in Seq(V) : ParseCookieAt(text, f, i) = o
      BY <3>1, Zenon
    <3>2. CASE \E n \in D : ParseCookieAt(text, f, i) = f[n]
      BY <3>2, Zenon
    <3>3. CASE \E o \in Seq(V), n \in D : ParseCookieAt(text, f, i) = o \o f[n]
      <4>1. PICK o \in Seq(V), n \in D : ParseCookieAt(text, f, i) = o \o f[n]
        BY <3>3, Zenon
      <4> DEFINE r == f[n]
      <4>2. r \in Seq(V)
        BY Zenon
      <4> HIDE DEF r
      <4>3. o \o r \in Seq(V)
        BY <4>2
      <4> QED
        BY <4>1, <4>3, Zenon DEF r
    <3> QED
      BY <1>4, <3>1, <3>2, <3>3, Zenon
  <2>2. E \in [[D -> Seq(V)] -> [D -> Seq(V)]]
    BY <2>1, Zenon
  <2>3. ASSUME NEW i \in D, NEW f \in [D -> Seq(V)], NEW g \in [D -> Seq(V)],
               \A y \in D : rank[y] < rank[i] => f[y] = g[y]
        PROVE  E[f][i] = E[g][i]
    <3>1. \A n \in D : i < n => f[n] = g[n]
      BY <1>2, <2>3
    <3>2. ParseCookieAt(text, f, i) = ParseCookieAt(text, g, i)
      BY <1>4, <3>1, Zenon
    <3> QED
      BY <3>2, Zenon
  <2>4. rank \in [D -> 0..(L + 2)] /\ L + 2 \in Nat
    BY <1>2
  <2>5. Seq(V) # {}
    <3>1. <<>> \in Seq(V)
      OBVIOUS
    <3> QED
      BY <3>1, Zenon
  <2> HIDE DEF E, rank, D
  <2>6. Descends(D, Seq(V), E, rank)
    BY <2>3, Zenon DEF Descends
  <2>7. Recursive(D, Seq(V), E)
    BY <2>2, <2>4, <2>5, <2>6, Zenon DEF Recursive
  <2>8. PICK f \in [D -> Seq(V)] : f = E[f]
    BY <2>7, Recursion
  <2> QED
    BY <2>8, Zenon DEF E
<1>6. PICK f \in [D -> Seq(V)] : f = [i \in D |-> ParseCookieAt(text, f, i)]
  BY <1>5
<1>7. R = [i \in D |-> ParseCookieAt(text, R, i)]
  BY <1>6, Zenon
<1> HIDE DEF R
<1>8. Parses(text, R)
  BY <1>7, Zenon DEF Parses, L
<1> QED
  BY <1>1, <1>8, Zenon

\* w is a name, '=' and a value.
Assigns(w, name, value) ==
    /\ w \in Seq(Char) /\ name \in Seq(Char) /\ value \in Seq(Char)
    /\ Len(w) = Len(name) + 1 + Len(value)
    /\ \A j \in 1..Len(name) : w[j] = name[j]
    /\ w[Len(name) + 1] = EqualSign
    /\ \A j \in 1..Len(value) : w[Len(name) + 1 + j] = value[j]

\* to_cookie_string writes a name, '=' and a value.
LEMMA AssignElements ==
    ASSUME NEW name \in Seq(Char), NEW value \in Seq(Char)
    PROVE  Assigns(name \o <<61>> \o value, name, value)
<1> DEFINE e == <<EqualSign>>
           u == name \o e
           w == u \o value
           n == Len(name)
           v == Len(value)
<1>1. e \in Seq(Char) /\ Len(e) = 1 /\ e[1] = EqualSign
  BY MarkBytes
<1>2. n \in Nat /\ v \in Nat
  OBVIOUS
<1> HIDE DEF e
<1>3. IsConcat(Char, u, name, e)
  BY <1>1, ConcatElements, Zenon
<1>4. u \in Seq(Char) /\ Len(u) = n + 1 /\ u[n + 1] = EqualSign /\ \A k \in 1..n : u[k] = name[k]
  <2>1. 1 \in 1..1
    OBVIOUS
  <2> HIDE DEF u
  <2> QED
    BY <1>1, <1>3, <2>1, Zenon DEF IsConcat
<1> HIDE DEF u
<1>5. IsConcat(Char, w, u, value)
  BY <1>4, ConcatElements, Zenon
<1> HIDE DEF w
<1>6. /\ w \in Seq(Char) /\ Len(w) = n + 1 + v
      /\ \A k \in 1..(n + 1) : w[k] = u[k]
      /\ \A k \in 1..v : w[n + 1 + k] = value[k]
  BY <1>4, <1>5, Zenon DEF IsConcat
<1>7. n + 1 \in 1..(n + 1) /\ \A k \in 1..n : k \in 1..(n + 1)
  BY <1>2
<1>8. w[n + 1] = EqualSign /\ \A k \in 1..n : w[k] = name[k]
  BY <1>4, <1>6, <1>7, Zenon
<1> QED
  BY <1>6, <1>8, Zenon DEF Assigns, w, u, e, EqualSign

\* The fragment w stands in T after place a, and a "; " or the last ';' follows.
Fragment(T, a, w) ==
    /\ w \in Seq(Char) /\ a \in Nat
    /\ a + Len(w) + 1 <= Len(T)
    /\ \A j \in 1..Len(w) : T[a + j] = w[j]
    /\ T[a + Len(w) + 1] = Semicolon
    /\ a + Len(w) + 1 # Len(T) => T[a + Len(w) + 2] = Blank

\* What the loop finds from the fragment that ends at b on.
Later(T, rest, b) == IF b + 1 = Len(T) THEN <<>> ELSE rest[b + 3]

Pair == Seq(Char) \X Seq(Char)

\* The turn at the fragment w adds out to what the later ones find.
Turn(T, rest, a, w, out) ==
    LET later == Later(T, rest, a + Len(w))
    IN  later \in Seq(Pair) => rest[a + 1] = out \o later

\* A name with its value ends the search for either mark at the '=', and the
\* value lasts up to the next fragment or the end of the text.
LEMMA AssignPlaces ==
    ASSUME NEW T \in Seq(Char), NEW a, NEW w, NEW name, NEW value,
           Fragment(T, a, w), Assigns(w, name, value),
           Free(name, Marks), WholeValue(value)
    PROVE  LET sep == a + Len(name) + 1
               b   == a + Len(w)
           IN  /\ sep \in Nat /\ sep # 0
               /\ FirstAt(T, Marks, a + 1, sep)
               /\ SubSeq(T, a + 1, sep - 1) = name
               /\ EndAt(T, sep + 1, IF b + 1 = Len(T) THEN 0 ELSE b + 1)
               /\ SubSeq(T, sep + 1, b) = value
<1> DEFINE l == Len(T)
           n == Len(name)
           v == Len(value)
           sep == a + n + 1
           b == a + Len(w)
<1>1. /\ w \in Seq(Char) /\ name \in Seq(Char) /\ value \in Seq(Char)
      /\ Len(w) = n + 1 + v
      /\ \A j \in 1..n : w[j] = name[j]
      /\ w[n + 1] = EqualSign
      /\ \A j \in 1..v : w[n + 1 + j] = value[j]
  BY Zenon DEF Assigns
<1>2. /\ a \in Nat /\ b + 1 <= l
      /\ \A j \in 1..Len(w) : T[a + j] = w[j]
      /\ T[b + 1] = Semicolon
      /\ b + 1 # l => T[a + Len(w) + 2] = Blank
  BY Zenon DEF Fragment
<1>3. l \in Nat /\ n \in Nat /\ v \in Nat
  BY <1>1
<1>4. b = sep + v /\ sep \in Nat /\ b \in Nat /\ sep = a + (n + 1) /\ b = a + (n + 1 + v)
  BY <1>1, <1>2, <1>3
<1> HIDE DEF l, n, v
<1>5. \A j \in 1..n : T[a + j] = name[j] /\ name[j] \notin Marks
  <2>1. \A j \in 1..n : j \in 1..(n + 1 + v)
    BY <1>3
  <2>2. \A j \in 1..n : name[j] \notin Marks
    BY Zenon DEF Free, n
  <2> QED
    BY <1>1, <1>2, <2>1, <2>2, Zenon
<1>6. T[sep] = EqualSign
  <2>1. n + 1 \in 1..(n + 1 + v)
    BY <1>3
  <2>2. T[a + (n + 1)] = w[n + 1]
    BY <1>1, <1>2, <2>1, Zenon
  <2> QED
    BY <1>1, <1>4, <2>2, Zenon
<1>7. ASSUME NEW j \in 1..v
      PROVE  T[sep + j] = value[j]
  <2>1. n + 1 + j \in 1..(n + 1 + v) /\ a + (n + 1 + j) = sep + j
    BY <1>2, <1>3
  <2> QED
    BY <1>1, <1>2, <2>1, Zenon
<1> HIDE DEF sep, b
<1>8. FirstAt(T, Marks, a + 1, sep)
  <2>1. sep \in (a + 1)..l
    BY <1>2, <1>3, <1>4
  <2>2. ASSUME NEW i \in (a + 1)..(sep - 1)
        PROVE  T[i] \notin Marks
    <3> DEFINE j == i - a
    <3>1. j \in 1..n /\ a + j = i
      BY <1>2, <1>3, <1>4
    <3> HIDE DEF j
    <3> QED
      BY <1>5, <3>1, Zenon
  <2> QED
    BY <1>6, <2>1, <2>2, Zenon DEF FirstAt, l, EqualSign, Marks
<1>9. SubSeq(T, a + 1, sep - 1) = name
  <2> DEFINE m == a + 1
             k == sep - 1
  <2>1. /\ m \in Nat /\ k \in Nat /\ 1 <= m /\ m <= k + 1 /\ k <= l /\ k - m + 1 = n
        /\ \A j \in 1..n : m + j - 1 = a + j
    BY <1>2, <1>3, <1>4
  <2> HIDE DEF m, k
  <2>2. Within(Char, T, m, k)
    BY <2>1, Zenon DEF Within, l
  <2>3. \A j \in 1..n : T[m + j - 1] = name[j]
    BY <1>5, <2>1, Zenon
  <2>4. IsPart(Char, T, m, k, name)
    BY <1>1, <2>1, <2>2, <2>3, Zenon DEF IsPart, n
  <2> QED
    BY <2>4, PartIs, Zenon DEF m, k
<1>10. SubSeq(T, sep + 1, b) = value
  <2> DEFINE m == sep + 1
  <2>1. /\ m \in Nat /\ 1 <= m /\ m <= b + 1 /\ b <= l /\ b - m + 1 = v
        /\ \A j \in 1..v : m + j - 1 = sep + j
    BY <1>2, <1>3, <1>4
  <2> HIDE DEF m
  <2>2. Within(Char, T, m, b)
    BY <1>4, <2>1, Zenon DEF Within, l
  <2>3. \A j \in 1..v : T[m + j - 1] = value[j]
    BY <1>7, <2>1, Zenon
  <2>4. IsPart(Char, T, m, b, value)
    BY <1>1, <2>1, <2>2, <2>3, Zenon DEF IsPart, v
  <2> QED
    BY <2>4, PartIs, Zenon DEF m
<1>11. ASSUME NEW i \in (sep + 1)..b
       PROVE  ~Mark(T, i)
  <2> DEFINE j == i - sep
  <2>1. j \in 1..v /\ sep + j = i
    BY <1>3, <1>4
  <2> HIDE DEF j
  <2>2. CASE j = v
    <3>1. i + 1 = b + 1
      BY <1>4, <2>1, <2>2
    <3> QED
      BY <1>2, <3>1, SMT DEF Mark, Semicolon
  <2>3. CASE j # v
    <3> DEFINE h == j + 1
    <3>0. sep \in Nat
      BY <1>4
    <3>1. j \in 1..(v - 1) /\ h \in 1..v /\ sep + h = i + 1
      BY <1>3, <2>1, <2>3, <3>0
    <3>2. value[j] = Semicolon => value[h] # Blank
      BY <3>1, Zenon DEF WholeValue, v, Semicolon, Blank
    <3> HIDE DEF h
    <3>3. T[i] = value[j] /\ T[i + 1] = value[h]
      BY <1>7, <2>1, <3>1, Zenon
    <3> QED
      BY <3>2, <3>3, Zenon DEF Mark, Semicolon, Blank
  <2> QED
    BY <2>2, <2>3
<1>12. EndAt(T, sep + 1, IF b + 1 = l THEN 0 ELSE b + 1)
  <2>1. CASE b + 1 = l
    <3>1. l - 1 = b
      BY <1>3, <1>4, <2>1, SMTT(30)
    <3> QED
      BY <1>11, <2>1, <3>1, Zenon DEF EndAt, l
  <2>2. CASE b + 1 # l
    <3>1. b + 1 \in (sep + 1)..(l - 1) /\ (b + 1) - 1 = b
      BY <1>2, <1>3, <1>4, <2>2
    <3>2. (n + 1 + v) \in Nat /\ a + (n + 1 + v) + 2 = (b + 1) + 1
      BY <1>2, <1>3, <1>4
    <3>3. Mark(T, b + 1)
      BY <1>1, <1>2, <2>2, <3>2, Zenon DEF Mark, Semicolon, Blank
    <3> QED
      BY <1>11, <2>2, <3>1, <3>3, Zenon DEF EndAt, l
  <2> QED
    BY <2>1, <2>2
<1>13. sep \in Nat /\ sep # 0
  BY <1>2, <1>3, <1>4
<1> QED
  BY <1>8, <1>9, <1>10, <1>12, <1>13, Zenon DEF sep, b, l, n

\* What the turn at a name with its value adds.
Output(name, value) == IF SameWord(name, Options) THEN <<>> ELSE <<<<StripPrefix(name), value>>>>

\* The turn at a name with its value takes both as they were written.
LEMMA AssignTurn ==
    ASSUME NEW T \in Seq(Char), NEW rest, Parses(T, rest),
           NEW a, NEW w, NEW name, NEW value,
           Fragment(T, a, w), Assigns(w, name, value),
           Free(name, Marks), WholeValue(value), ~SameWord(name, Flags)
    PROVE  Turn(T, rest, a, w, Output(name, value))
<1> DEFINE l == Len(T)
           sep == a + Len(name) + 1
           b == a + Len(w)
           end == IF b + 1 = l THEN 0 ELSE b + 1
           out == Output(name, value)
           last == (IF end = 0 THEN l ELSE end) - 1
<1>1. /\ sep \in Nat /\ sep # 0
      /\ FirstAt(T, Marks, a + 1, sep)
      /\ SubSeq(T, a + 1, sep - 1) = name
      /\ EndAt(T, sep + 1, end)
      /\ SubSeq(T, sep + 1, b) = value
  BY AssignPlaces, Zenon
<1>2. a \in Nat /\ Len(w) \in Nat /\ b + 1 <= l /\ l \in Nat
  BY DEF Fragment
<1>3. b \in Nat
  BY <1>2
<1> HIDE DEF sep, b, l
<1>4. a + 1 \in Nat /\ 1 <= a + 1 /\ a + 1 \in 1..(l + 2) /\ sep + 1 \in Nat /\ 1 <= sep + 1
  <2>1. b >= a
    BY <1>2 DEF b
  <2> QED
    BY <1>1, <1>2, <1>3, <2>1
<1>5. Find(T, {61, 59}, a + 1) = sep
  <2>1. FirstAt(T, Marks, a + 1, Find(T, Marks, a + 1))
    BY <1>4, FindIs, Zenon
  <2>2. Find(T, Marks, a + 1) = sep
    BY <1>1, <1>4, <2>1, FirstIsUnique, Zenon
  <2> QED
    BY <2>2, Zenon DEF Marks
<1>6. FindFragmentEnd(T, sep + 1) = end
  <2>1. EndAt(T, sep + 1, FindFragmentEnd(T, sep + 1))
    BY <1>4, FragmentEndIs, Zenon
  <2> QED
    BY <1>1, <1>4, <2>1, EndIsUnique, Zenon
<1>7. last = b
  BY <1>2, <1>3
<1>8. rest[a + 1] = ParseCookieAt(T, rest, a + 1)
  BY <1>4, Zenon DEF Parses, l
<1>9. ParseCookieAt(T, rest, a + 1) =
          CASE sep = 0 -> <<>>
            [] sep # 0 /\ SameWord(name, Flags) -> rest[AfterFlag(T, sep)]
            [] sep # 0 /\ ~SameWord(name, Flags) /\ end = 0 -> out
            [] OTHER -> out \o rest[end + 2]
  <2> DEFINE e == FindFragmentEnd(T, sep + 1)
             n == SubSeq(T, a + 1, sep - 1)
             v == SubSeq(T, sep + 1, (IF e = 0 THEN Len(T) ELSE e) - 1)
             f == IF SameWord(n, Options) THEN <<>> ELSE <<<<StripPrefix(n), v>>>>
  <2>1. ParseCookieAt(T, rest, a + 1) =
          CASE sep = 0 -> <<>>
            [] sep # 0 /\ SameWord(n, Flags) -> rest[AfterFlag(T, sep)]
            [] sep # 0 /\ ~SameWord(n, Flags) /\ e = 0 -> f
            [] OTHER -> f \o rest[e + 2]
    BY <1>5, Zenon DEF ParseCookieAt
  <2>2. e = end /\ n = name
    BY <1>1, <1>6, Zenon
  <2>3. v = SubSeq(T, sep + 1, last)
    BY <2>2, Zenon DEF l
  <2>4. v = value
    BY <1>1, <1>7, <2>3, Zenon
  <2>5. f = out
    BY <2>2, <2>4, Zenon DEF Output
  <2> HIDE DEF e, n, v, f, out, end
  <2> QED
    BY <2>1, <2>2, <2>5, Zenon
<1>10. \E V : out \in Seq(V)
  <2> DEFINE p == <<StripPrefix(name), value>>
  <2>1. <<>> \in Seq({p}) /\ <<p>> \in Seq({p})
    OBVIOUS
  <2> HIDE DEF p
  <2>2. out \in Seq({p})
    BY <2>1, Zenon DEF Output, p
  <2> QED
    BY <2>2, Zenon
<1> HIDE DEF out
<1>11. CASE b + 1 = l
  <2>1. end = 0 /\ Later(T, rest, b) = <<>>
    BY <1>11, Zenon DEF Later, l
  <2> HIDE DEF end
  <2>2. rest[a + 1] = out
    BY <1>1, <1>8, <1>9, <2>1
  <2>3. out \o <<>> = out
    BY <1>10, EmptyConcat, Zenon
  <2> QED
    BY <2>1, <2>2, <2>3, Zenon DEF Turn, b, out
<1>12. CASE b + 1 # l
  <2>1. end = b + 1 /\ Later(T, rest, b) = rest[b + 3]
    BY <1>12, Zenon DEF Later, l
  <2>2. end # 0 /\ end + 2 = b + 3
    BY <1>3, <2>1
  <2> HIDE DEF end
  <2>3. rest[a + 1] = out \o rest[end + 2]
    BY <1>1, <1>8, <1>9, <2>2
  <2> QED
    BY <2>1, <2>2, <2>3, Zenon DEF Turn, b, out
<1> QED
  BY <1>11, <1>12

\* A flag adds nothing, and the turn after it starts where the next fragment does.
LEMMA FlagTurn ==
    ASSUME NEW T \in Seq(Char), NEW rest, Parses(T, rest), NEW a, NEW w,
           Fragment(T, a, w), Free(w, Marks), SameWord(w, Flags)
    PROVE  Turn(T, rest, a, w, <<>>)
<1> DEFINE l == Len(T)
           n == Len(w)
           b == a + n
           sep == b + 1
<1>1. /\ w \in Seq(Char) /\ a \in Nat /\ sep <= l
      /\ \A j \in 1..n : T[a + j] = w[j]
      /\ T[sep] = Semicolon
  BY Zenon DEF Fragment
<1>2. n \in Nat /\ l \in Nat
  BY <1>1
<1>3. \A j \in 1..n : w[j] \notin Marks
  BY Zenon DEF Free
<1> HIDE DEF l, n
<1>4. /\ b \in Nat /\ sep \in Nat /\ sep # 0 /\ sep \in (a + 1)..l
      /\ a + 1 \in Nat /\ 1 <= a + 1 /\ a + 1 \in 1..(l + 2)
  BY <1>1, <1>2
<1>5. Find(T, {61, 59}, a + 1) = sep
  <2>1. ASSUME NEW i \in (a + 1)..(sep - 1)
        PROVE  T[i] \notin Marks
    <3> DEFINE j == i - a
    <3>1. j \in 1..n /\ a + j = i
      BY <1>1, <1>2
    <3> HIDE DEF j
    <3> QED
      BY <1>1, <1>3, <3>1, Zenon
  <2>2. T[sep] \in Marks
    BY <1>1, Zenon DEF Semicolon, Marks
  <2>3. FirstAt(T, Marks, a + 1, sep)
    BY <1>4, <2>1, <2>2, Zenon DEF FirstAt, l
  <2>4. FirstAt(T, Marks, a + 1, Find(T, Marks, a + 1))
    BY <1>4, FindIs, Zenon
  <2> HIDE DEF sep
  <2>5. Find(T, Marks, a + 1) = sep
    BY <1>4, <2>3, <2>4, FirstIsUnique, Zenon
  <2> QED
    BY <2>5, Zenon DEF Marks
<1>6. SubSeq(T, a + 1, sep - 1) = w
  <2> DEFINE m == a + 1
             k == sep - 1
  <2>1. /\ m \in Nat /\ k \in Nat /\ 1 <= m /\ m <= k + 1 /\ k <= l /\ n = k - m + 1
        /\ \A j \in 1..n : m + j - 1 = a + j
    BY <1>1, <1>2, <1>4
  <2> HIDE DEF m, k, sep
  <2>2. Within(Char, T, m, k)
    BY <2>1, Zenon DEF Within, l
  <2>3. \A j \in 1..n : T[m + j - 1] = w[j]
    BY <1>1, <2>1, Zenon
  <2>4. IsPart(Char, T, m, k, w)
    BY <1>1, <2>1, <2>2, <2>3, Zenon DEF IsPart, n
  <2> QED
    BY <2>4, PartIs, Zenon DEF m, k
<1>7. rest[a + 1] = ParseCookieAt(T, rest, a + 1)
  BY <1>4, Zenon DEF Parses, l
<1>8. AfterFlag(T, sep) = b + 3
  <2>1. AfterFlag(T, sep) = sep + 2
    BY <1>1, Zenon DEF AfterFlag, Semicolon
  <2> QED
    BY <1>4, <2>1
<1> HIDE DEF b, sep
<1>9. rest[a + 1] = rest[b + 3]
  <2> DEFINE e == FindFragmentEnd(T, sep + 1)
             v == SubSeq(T, sep + 1, (IF e = 0 THEN Len(T) ELSE e) - 1)
             f == IF SameWord(w, Options) THEN <<>> ELSE <<<<StripPrefix(w), v>>>>
  <2>1. ParseCookieAt(T, rest, a + 1) =
          CASE sep = 0 -> <<>>
            [] sep # 0 /\ SameWord(w, Flags) -> rest[AfterFlag(T, sep)]
            [] sep # 0 /\ ~SameWord(w, Flags) /\ e = 0 -> f
            [] OTHER -> f \o rest[e + 2]
    BY <1>5, <1>6, Zenon DEF ParseCookieAt
  <2> HIDE DEF e, v, f
  <2>2. ParseCookieAt(T, rest, a + 1) = rest[AfterFlag(T, sep)]
    BY <1>4, <2>1
  <2> QED
    BY <1>7, <1>8, <2>2, Zenon
<1>10. CASE sep = l
  <2>1. b + 3 \in 1..(l + 2) /\ b + 3 \in Nat /\ b + 3 = l + 2
    BY <1>2, <1>4, <1>10 DEF sep
  <2>2. Find(T, {61, 59}, b + 3) = 0
    <3>1. FirstAt(T, {61, 59}, b + 3, Find(T, {61, 59}, b + 3))
      BY <2>1, FindIs, Zenon
    <3>2. (l + 2)..l = {}
      BY <1>2
    <3> QED
      BY <2>1, <3>1, <3>2, Zenon DEF FirstAt, l
  <2>3. rest[b + 3] = ParseCookieAt(T, rest, b + 3)
    BY <2>1, Zenon DEF Parses, l
  <2>4. ParseCookieAt(T, rest, b + 3) = <<>>
    <3> DEFINE e == FindFragmentEnd(T, 0 + 1)
               u == SubSeq(T, b + 3, 0 - 1)
               v == SubSeq(T, 0 + 1, (IF e = 0 THEN Len(T) ELSE e) - 1)
               f == IF SameWord(u, Options) THEN <<>> ELSE <<<<StripPrefix(u), v>>>>
    <3>1. ParseCookieAt(T, rest, b + 3) =
            CASE 0 = 0 -> <<>>
              [] 0 # 0 /\ SameWord(u, Flags) -> rest[AfterFlag(T, 0)]
              [] 0 # 0 /\ ~SameWord(u, Flags) /\ e = 0 -> f
              [] OTHER -> f \o rest[e + 2]
      BY <2>2, Zenon DEF ParseCookieAt
    <3> HIDE DEF e, u, v, f
    <3> QED
      BY <3>1
  <2>5. Later(T, rest, b) = <<>>
    BY <1>10, Zenon DEF Later, sep, l
  <2>6. <<>> \o <<>> = <<>>
    OBVIOUS
  <2> QED
    BY <1>9, <2>3, <2>4, <2>5, <2>6, Zenon DEF Turn, b, n
<1>11. CASE sep # l
  <2>1. Later(T, rest, b) = rest[b + 3]
    BY <1>11, Zenon DEF Later, sep, l
  <2>2. Later(T, rest, b) \in Seq(Pair) => <<>> \o Later(T, rest, b) = Later(T, rest, b)
    BY EmptyConcat, Zenon
  <2> QED
    BY <1>9, <2>1, <2>2, Zenon DEF Turn, b, n
<1> QED
  BY <1>10, <1>11

\* A fragment that parse_cookie understands, with what it finds in it.
Reads(w, out) ==
    \/ \E name, value :
         /\ Assigns(w, name, value) /\ Free(name, Marks) /\ WholeValue(value)
         /\ ~SameWord(name, Flags)
         /\ out = Output(name, value)
    \/ SameWord(w, Flags) /\ Free(w, Marks) /\ out = <<>>

\* The turn at a fragment parse_cookie understands finds what is in it.
LEMMA ReadTurn ==
    ASSUME NEW T \in Seq(Char), NEW rest, Parses(T, rest), NEW a, NEW w, NEW out,
           Fragment(T, a, w), Reads(w, out)
    PROVE  Turn(T, rest, a, w, out)
BY AssignTurn, FlagTurn, Zenon DEF Reads

\* The fragments of a cookie, or of its first attributes.
OneCookie(ws, out) ==
    /\ ws \in Seq(Seq(Char)) /\ 1 <= Len(ws)
    /\ Reads(ws[1], out)
    /\ \A j \in 2..Len(ws) : Reads(ws[j], <<>>)

\* One more attribute does not change what is found.
LEMMA OneMoreAttribute ==
    ASSUME NEW ws, NEW out, OneCookie(ws, out), NEW w \in Seq(Char), Reads(w, <<>>)
    PROVE  OneCookie(ws \o <<w>>, out)
<1> DEFINE n == Len(ws)
           xs == ws \o <<w>>
           S == Seq(Char)
<1>1. /\ ws \in Seq(S) /\ 1 <= n /\ Reads(ws[1], out)
      /\ \A j \in 2..n : Reads(ws[j], <<>>)
  BY Zenon DEF OneCookie
<1>2. w \in S
  OBVIOUS
<1> HIDE DEF S
<1>3. /\ n \in Nat /\ xs \in Seq(S) /\ Len(xs) = n + 1
      /\ \A j \in 1..n : xs[j] = ws[j]
      /\ xs[n + 1] = w
  BY <1>1, <1>2
<1> HIDE DEF xs, n
<1>4. 1 \in 1..n /\ 1 <= n + 1
  BY <1>1, <1>3
<1>5. ASSUME NEW j \in 2..(n + 1)
      PROVE  Reads(xs[j], <<>>)
  <2>1. j = n + 1 \/ (j \in 2..n /\ j \in 1..n)
    BY <1>3
  <2> QED
    BY <1>1, <1>3, <2>1, Zenon
<1> QED
  BY <1>1, <1>3, <1>4, <1>5, Zenon DEF OneCookie, xs, S

\* A word that the parser takes for the name of an attribute.
OptionWord(w) ==
    /\ w \in Seq(Char) /\ Free(w, Marks)
    /\ SameWord(w, Options) /\ ~SameWord(w, Flags)

PathWord == <<80, 97, 116, 104>>
ExpiresWord == <<69, 120, 112, 105, 114, 101, 115>>

\* "Path", as to_cookie_string writes it, is such a word.
LEMMA PathIsOption == OptionWord(PathWord)
<1> DEFINE w == PathWord
           low == [i \in DOMAIN w |-> ToLower(w[i])]
<1>1. /\ w \in Seq(Char) /\ Len(w) = 4 /\ DOMAIN w = 1..4
      /\ w[1] = 80 /\ w[2] = 97 /\ w[3] = 116 /\ w[4] = 104
  BY SMT DEF PathWord, Char, Byte
<1> HIDE DEF w
<1>2. Free(w, Marks)
  BY <1>1, SMT DEF Free, Marks
<1>3. low = <<112, 97, 116, 104>>
  <2> DEFINE t == <<112, 97, 116, 104>>
  <2>1. t = [i \in 1..4 |-> t[i]] /\ t[1] = 112 /\ t[2] = 97 /\ t[3] = 116 /\ t[4] = 104
    BY SMT
  <2>2. low = [i \in 1..4 |-> ToLower(w[i])]
    BY <1>1, Zenon
  <2> HIDE DEF t
  <2>3. \A i \in 1..4 : ToLower(w[i]) = t[i]
    <3>1. /\ ToLower(w[1]) = t[1] /\ ToLower(w[2]) = t[2]
          /\ ToLower(w[3]) = t[3] /\ ToLower(w[4]) = t[4]
      BY <1>1, <2>1, SMT DEF ToLower, Upper
    <3>2. \A i \in 1..4 : i = 1 \/ i = 2 \/ i = 3 \/ i = 4
      BY SMT
    <3> QED
      BY <3>1, <3>2, Zenon
  <2> HIDE DEF low
  <2>4. t = [i \in 1..4 |-> t[i]]
    BY <2>1, SMT
  <2>5. low = t
    BY <2>2, <2>3, <2>4, Zenon
  <2> QED
    BY <2>5 DEF t
<1>4. SameWord(w, Options)
  BY <1>3, SMT DEF SameWord, Options
<1>5. ~SameWord(w, Flags)
  BY <1>3, SMT DEF SameWord, Flags
<1>6. w \in Seq(Char)
  BY <1>1, SMT
<1> QED
  BY <1>2, <1>4, <1>5, <1>6, Zenon DEF OptionWord, w

\* So is "Expires".
LEMMA ExpiresIsOption == OptionWord(ExpiresWord)
<1> DEFINE w == ExpiresWord
           low == [i \in DOMAIN w |-> ToLower(w[i])]
<1>1. /\ w \in Seq(Char) /\ Len(w) = 7 /\ DOMAIN w = 1..7
      /\ w[1] = 69 /\ w[2] = 120 /\ w[3] = 112 /\ w[4] = 105
      /\ w[5] = 114 /\ w[6] = 101 /\ w[7] = 115
  BY SMT DEF ExpiresWord, Char, Byte
<1> HIDE DEF w
<1>2. Free(w, Marks)
  BY <1>1, SMT DEF Free, Marks
<1>3. low = <<101, 120, 112, 105, 114, 101, 115>>
  <2> DEFINE t == <<101, 120, 112, 105, 114, 101, 115>>
  <2>1. /\ t = [i \in 1..7 |-> t[i]]
        /\ t[1] = 101 /\ t[2] = 120 /\ t[3] = 112 /\ t[4] = 105
        /\ t[5] = 114 /\ t[6] = 101 /\ t[7] = 115
    BY SMT
  <2>2. low = [i \in 1..7 |-> ToLower(w[i])]
    BY <1>1, Zenon
  <2> HIDE DEF t
  <2>3. \A i \in 1..7 : ToLower(w[i]) = t[i]
    <3>1. /\ ToLower(w[1]) = t[1] /\ ToLower(w[2]) = t[2] /\ ToLower(w[3]) = t[3]
          /\ ToLower(w[4]) = t[4] /\ ToLower(w[5]) = t[5] /\ ToLower(w[6]) = t[6]
          /\ ToLower(w[7]) = t[7]
      BY <1>1, <2>1, SMT DEF ToLower, Upper
    <3>2. \A i \in 1..7 : i = 1 \/ i = 2 \/ i = 3 \/ i = 4 \/ i = 5 \/ i = 6 \/ i = 7
      BY SMT
    <3> QED
      BY <3>1, <3>2, Zenon
  <2> HIDE DEF low
  <2>4. t = [i \in 1..7 |-> t[i]]
    BY <2>1, SMT
  <2>5. low = t
    BY <2>2, <2>3, <2>4, Zenon
  <2> QED
    BY <2>5 DEF t
<1>4. SameWord(w, Options)
  BY <1>3, SMT DEF SameWord, Options
<1>5. ~SameWord(w, Flags)
  BY <1>3, SMT DEF SameWord, Flags
<1>6. w \in Seq(Char)
  BY <1>1, SMT
<1> QED
  BY <1>2, <1>4, <1>5, <1>6, Zenon DEF OptionWord, w

\* No spelling of a flag holds a mark.
LEMMA FlagIsFree ==
    ASSUME NEW w \in Seq(Char), SameWord(w, Flags)
    PROVE  Free(w, Marks)
<1> DEFINE low == [i \in DOMAIN w |-> ToLower(w[i])]
<1>1. \A f \in Flags : \A i \in DOMAIN f : f[i] \in Lower
  <2> DEFINE a == <<115, 101, 99, 117, 114, 101>>
             b == <<104, 116, 116, 112, 111, 110, 108, 121>>
  <2>1. /\ DOMAIN a = 1..6
        /\ a[1] = 115 /\ a[2] = 101 /\ a[3] = 99 /\ a[4] = 117 /\ a[5] = 114 /\ a[6] = 101
    BY SMT
  <2>2. /\ DOMAIN b = 1..8
        /\ b[1] = 104 /\ b[2] = 116 /\ b[3] = 116 /\ b[4] = 112
        /\ b[5] = 111 /\ b[6] = 110 /\ b[7] = 108 /\ b[8] = 121
    BY SMT
  <2>3. Flags = {a, b}
    BY DEF Flags
  <2> HIDE DEF a, b
  <2>4. \A i \in DOMAIN a : a[i] \in Lower
    <3>1. \A i \in 1..6 : i = 1 \/ i = 2 \/ i = 3 \/ i = 4 \/ i = 5 \/ i = 6
      BY SMT
    <3>2. /\ a[1] \in Lower /\ a[2] \in Lower /\ a[3] \in Lower
          /\ a[4] \in Lower /\ a[5] \in Lower /\ a[6] \in Lower
      BY <2>1, SMT DEF Lower
    <3>3. DOMAIN a = 1..6
      BY <2>1, SMT
    <3> QED
      BY <3>1, <3>2, <3>3, Zenon
  <2>5. \A i \in DOMAIN b : b[i] \in Lower
    <3>1. \A i \in 1..8 : \/ i = 1 \/ i = 2 \/ i = 3 \/ i = 4
                          \/ i = 5 \/ i = 6 \/ i = 7 \/ i = 8
      BY SMT
    <3>2. /\ b[1] \in Lower /\ b[2] \in Lower /\ b[3] \in Lower /\ b[4] \in Lower
          /\ b[5] \in Lower /\ b[6] \in Lower /\ b[7] \in Lower /\ b[8] \in Lower
      BY <2>2, SMT DEF Lower
    <3>3. DOMAIN b = 1..8
      BY <2>2, SMT
    <3> QED
      BY <3>1, <3>2, <3>3, Zenon
  <2> QED
    BY <2>3, <2>4, <2>5, Zenon
<1>2. low \in Flags
  BY Zenon DEF SameWord
<1>3. \A i \in DOMAIN w : ToLower(w[i]) \in Lower
  <2>1. DOMAIN low = DOMAIN w /\ \A i \in DOMAIN w : low[i] = ToLower(w[i])
    BY Zenon
  <2> HIDE DEF low
  <2> QED
    BY <1>1, <1>2, <2>1, Zenon
<1>4. \A m \in Marks : ToLower(m) \notin Lower
  BY SMT DEF Marks, ToLower, Upper, Lower
<1>5. DOMAIN w = 1..Len(w)
  OBVIOUS
<1> QED
  BY <1>3, <1>4, <1>5, Zenon DEF Free

\* A number is written with digits only.
LEMMA DecimalDigits ==
    ASSUME NEW n \in Nat
    PROVE  Decimal(n) \in Seq(Digit)
<1> DEFINE D == 0..n
           S == Seq(Digit)
           G(f, k) == IF k < 10 THEN <<48 + k>> ELSE Append(f[k \div 10], 48 + (k % 10))
           R == CHOOSE f : f = [k \in D |-> G(f, k)]
           E == [f \in [D -> S] |-> [k \in D |-> G(f, k)]]
           rank == [k \in D |-> k]
<1>1. Decimal(n) = R[n]
  BY Zenon DEF Decimal
<1>2. ASSUME NEW k \in D, ~(k < 10)
      PROVE  k \div 10 \in D /\ k \div 10 < k /\ 48 + (k % 10) \in Digit
  BY <1>2, SMT DEF Digit
<1>3. ASSUME NEW k \in D, k < 10
      PROVE  <<48 + k>> \in S
  <2> DEFINE d == 48 + k
  <2>1. d \in Digit
    BY <1>3, SMT DEF Digit
  <2> HIDE DEF d
  <2>2. <<d>> \in S
    BY <2>1
  <2> QED
    BY <2>2 DEF d
<1>4. ASSUME NEW f \in [D -> S], NEW k \in D
      PROVE  G(f, k) \in S
  <2>1. CASE k < 10
    BY <1>3, <2>1, Zenon
  <2>2. CASE ~(k < 10)
    <3> DEFINE s == f[k \div 10]
               d == 48 + (k % 10)
    <3>1. s \in S /\ d \in Digit
      BY <1>2, <2>2, Zenon
    <3> HIDE DEF s, d
    <3>2. Append(s, d) \in S
      BY <3>1
    <3> QED
      BY <2>2, <3>2, Zenon DEF s, d
  <2> QED
    BY <2>1, <2>2, Zenon
<1>5. E \in [[D -> S] -> [D -> S]]
  BY <1>4, Zenon
<1>6. ASSUME NEW k \in D, NEW f \in [D -> S], NEW g \in [D -> S],
             \A y \in D : rank[y] < rank[k] => f[y] = g[y]
      PROVE  E[f][k] = E[g][k]
  <2>1. ~(k < 10) => f[k \div 10] = g[k \div 10]
    <3> DEFINE y == k \div 10
    <3>1. ~(k < 10) => y \in D /\ y < k
      BY <1>2, Zenon
    <3>2. y \in D => (rank[y] = y /\ rank[k] = k)
      BY Zenon
    <3> HIDE DEF y, rank
    <3> QED
      BY <1>6, <3>1, <3>2, Zenon DEF y
  <2>2. G(f, k) = G(g, k)
    BY <2>1, Zenon
  <2> QED
    BY <2>2, Zenon
<1>7. rank \in [D -> 0..n] /\ S # {}
  <2>1. <<>> \in S
    OBVIOUS
  <2> QED
    BY <2>1, Zenon
<1> HIDE DEF E, rank, D, S
<1>8. Descends(D, S, E, rank)
  BY <1>6, Zenon DEF Descends
<1>9. Recursive(D, S, E)
  BY <1>5, <1>7, <1>8, Zenon DEF Recursive
<1>10. PICK f \in [D -> S] : f = E[f]
  BY <1>9, Recursion
<1>11. R = [k \in D |-> G(R, k)]
  <2>1. f = [k \in D |-> G(f, k)]
    BY <1>10, Zenon DEF E
  <2> QED
    BY <2>1, Zenon
<1> HIDE DEF R
<1> DEFINE U == {k \in Nat : \A j \in D : j <= k => R[j] \in S}
<1>12. ASSUME NEW j \in D, \A i \in D : i < j => R[i] \in S
       PROVE  R[j] \in S
  <2>1. R[j] = G(R, j)
    BY <1>11, Zenon
  <2>2. CASE j < 10
    BY <1>3, <2>1, <2>2, Zenon
  <2>3. CASE ~(j < 10)
    <3> DEFINE s == R[j \div 10]
               d == 48 + (j % 10)
    <3>1. s \in S /\ d \in Digit
      BY <1>2, <1>12, <2>3, Zenon
    <3> HIDE DEF s, d
    <3>2. Append(s, d) \in S
      BY <3>1 DEF S
    <3> QED
      BY <2>1, <2>3, <3>2, Zenon DEF s, d
  <2> QED
    BY <2>2, <2>3, Zenon
<1>13. 0 \in U
  <2>1. \A j \in D : (j <= 0 => \A i \in D : ~(i < j)) /\ 0 \in Nat
    BY DEF D
  <2>2. 0 \in Nat
    OBVIOUS
  <2> QED
    BY <1>12, <2>1, <2>2, Zenon
<1>14. ASSUME NEW k \in Nat, k \in U
       PROVE  k + 1 \in U
  <2>1. \A j \in D : j <= k + 1 => \A i \in D : i < j => i <= k
    BY DEF D
  <2>2. \A i \in D : i <= k => R[i] \in S
    BY <1>14, Zenon
  <2>3. k + 1 \in Nat
    OBVIOUS
  <2> QED
    BY <1>12, <2>1, <2>2, <2>3, Zenon
<1>15. n \in U
  <2> HIDE DEF U
  <2> QED
    BY <1>13, <1>14, NatSetInduction, Zenon
<1>16. n \in D /\ n <= n
  BY DEF D
<1> QED
  BY <1>1, <1>15, <1>16, Zenon DEF S

\* What a server writes for one cookie is understood that way.
LEMMA ServerCookie ==
    ASSUME NEW c \in CookieRecords, PlainCookie(c)
    PROVE  OneCookie(ServerFragments(c), <<<<StripPrefix(c.name), c.value>>>>)
<1> DEFINE name == c.name
           value == c.value
           path == c.path
           date == Decimal(c.expires)
           out == <<<<StripPrefix(name), value>>>>
           f == name \o <<61>> \o value
           p == PathWord \o <<61>> \o path
           e == ExpiresWord \o <<61>> \o date
           s == c.flag
<1>1. name \in Seq(Char) /\ value \in Seq(Char) /\ path \in Seq(Char) /\ s \in Seq(Char)
  BY Zenon DEF CookieRecords, Char
<1>2. Free(name, Marks) /\ ~SameWord(name, Options) /\ ~SameWord(name, Flags)
  <2>1. Range(name) \cap Marks = {} /\ ~SameWord(name, Options) /\ ~SameWord(name, Flags)
    BY Zenon DEF PlainCookie, PlainName, Marks
  <2> DEFINE n == name
  <2>2. DOMAIN n = 1..Len(n)
    BY <1>1
  <2> HIDE DEF n
  <2>3. Free(n, Marks)
    BY <2>1, <2>2, Zenon DEF Range, Free, n
  <2> QED
    BY <2>1, <2>3, Zenon DEF n
<1> HIDE DEF name, value, path, date
<1>3. f \in Seq(Char) /\ Reads(f, out)
  <2>1. Assigns(f, name, value)
    BY <1>1, AssignElements, Zenon
  <2>2. WholeValue(value)
    BY Zenon DEF value, PlainCookie
  <2>3. out = Output(name, value)
    BY <1>2, Zenon DEF Output
  <2> HIDE DEF f, out
  <2> QED
    BY <1>2, <2>1, <2>2, <2>3, Zenon DEF Reads, Assigns
<1>4. ASSUME NEW o, NEW v \in Seq(Char), OptionWord(o), WholeValue(v)
      PROVE  LET u == o \o <<61>> \o v
             IN  u \in Seq(Char) /\ Reads(u, <<>>)
  <2> DEFINE u == o \o <<61>> \o v
  <2>1. /\ o \in Seq(Char) /\ Free(o, Marks)
        /\ SameWord(o, Options) /\ ~SameWord(o, Flags)
    BY <1>4, Zenon DEF OptionWord
  <2>2. Assigns(u, o, v)
    BY <2>1, AssignElements, Zenon
  <2>3. Output(o, v) = <<>>
    BY <2>1, Zenon DEF Output
  <2> HIDE DEF u
  <2>4. u \in Seq(Char) /\ Reads(u, <<>>)
    BY <1>4, <2>1, <2>2, <2>3, Zenon DEF Reads, Assigns
  <2> QED
    BY <2>4, Zenon DEF u
<1>5. p \in Seq(Char) /\ Reads(p, <<>>)
  <2>1. WholeValue(path)
    BY Zenon DEF path, PlainCookie
  <2> QED
    BY <1>1, <1>4, <2>1, PathIsOption, Zenon
<1>6. e \in Seq(Char) /\ Reads(e, <<>>)
  <2>1. date \in Seq(Digit)
    <3>1. c.expires \in Nat
      BY Zenon DEF CookieRecords
    <3> QED
      BY <3>1, DecimalDigits, Zenon DEF date
  <2>2. Digit \subseteq Char /\ Semicolon \notin Digit
    BY SMT DEF Digit, Char, Byte, Semicolon
  <2>3. date \in Seq(Char)
    BY <2>1, <2>2, SeqOfSubset, Zenon
  <2>4. WholeValue(date)
    <3>1. \A i \in 1..(Len(date) - 1) : date[i] \in Digit
      BY <2>1
    <3> QED
      BY <2>2, <3>1, Zenon DEF WholeValue, Semicolon
  <2> QED
    BY <1>4, <2>3, <2>4, ExpiresIsOption, Zenon
<1>7. s # <<>> => s \in Seq(Char) /\ Reads(s, <<>>)
  <2>1. s # <<>> => SameWord(s, Flags)
    BY Zenon DEF PlainCookie
  <2>2. s # <<>> => Free(s, Marks)
    BY <1>1, <2>1, FlagIsFree, Zenon
  <2> QED
    BY <1>1, <2>1, <2>2, Zenon DEF Reads
<1> HIDE DEF f, p, e, s, out
<1> DEFINE x == <<f>>
           y == x \o (IF path = <<>> THEN <<>> ELSE <<p>>)
           z == y \o (IF c.expires = 0 THEN <<>> ELSE <<e>>)
           t == z \o (IF s = <<>> THEN <<>> ELSE <<s>>)
<1>8. OneCookie(x, out)
  <2>1. x \in Seq(Seq(Char)) /\ Len(x) = 1 /\ x[1] = f
    BY <1>3
  <2>2. 1 <= 1 /\ 2..1 = {}
    OBVIOUS
  <2> HIDE DEF x
  <2> QED
    BY <1>3, <2>1, <2>2, Zenon DEF OneCookie
<1> HIDE DEF x
<1>9. OneCookie(y, out)
  BY <1>5, <1>8, OneMoreAttribute, EmptyConcat, Zenon DEF OneCookie
<1> HIDE DEF y
<1>10. OneCookie(z, out)
  BY <1>6, <1>9, OneMoreAttribute, EmptyConcat, Zenon DEF OneCookie
<1> HIDE DEF z
<1>11. OneCookie(t, out)
  BY <1>7, <1>10, OneMoreAttribute, EmptyConcat, Zenon DEF OneCookie
<1>12. t = ServerFragments(c)
  BY Zenon DEF ServerFragments, CookieFragments, t, z, y, x, f, p, e, s, name, value, path,
               date, PathWord, ExpiresWord
<1> HIDE DEF t
<1> QED
  BY <1>11, <1>12, Zenon DEF out, name, value

\* The fragments ws stand in T one after the other, each after its place pos[k].
Laid(T, ws, pos) ==
    /\ pos[1] = 0
    /\ \A k \in 1..Len(ws) :
         /\ Fragment(T, pos[k], ws[k])
         /\ k = Len(ws) => pos[k] + Len(ws[k]) + 1 = Len(T)
         /\ k # Len(ws) => /\ pos[k] + Len(ws[k]) + 1 # Len(T)
                           /\ pos[k + 1] = pos[k] + Len(ws[k]) + 2

\* What to_cookie_string joins with "; " stands like that in the text that
\* parse_cookie reads.
LEMMA JoinedLaid ==
    ASSUME NEW ws \in Seq(Seq(Char)), 1 <= Len(ws), NEW text, NEW T,
           text = Join(ws, <<Semicolon, Blank>>), T = Append(text, Semicolon)
    PROVE  T \in Seq(Char) /\ \E pos : Laid(T, ws, pos)
<1> DEFINE K == Len(ws)
           sep == <<Semicolon, Blank>>
           js == Joined(ws, sep)
           l == Len(text)
<1>1. Semicolon \in Char /\ Blank \in Char
  BY MarkBytes
<1>2. sep \in Seq(Char) /\ Len(sep) = 2 /\ sep[1] = Semicolon /\ sep[2] = Blank
  BY <1>1
<1> HIDE DEF sep
<1>3. K \in Nat /\ 1 <= K /\ DOMAIN ws = 1..K /\ \A k \in 1..K : ws[k] \in Seq(Char)
  <2> DEFINE S == Seq(Char)
  <2> HIDE DEF S
  <2>1. ws \in Seq(S)
    BY DEF S
  <2>2. K \in Nat /\ DOMAIN ws = 1..K /\ \A k \in 1..K : ws[k] \in S
    BY <2>1
  <2> QED
    BY <2>2, Zenon DEF S
<1>4. /\ js \in Seq(Seq(Char)) /\ Len(js) = K /\ text \in Seq(Char)
      /\ \E at : Placed(js, text, at)
  BY <1>2, JoinParts, Zenon DEF sep
<1>5. \A k \in 1..K : js[k] = (IF k = 1 THEN <<>> ELSE sep) \o ws[k]
  BY <1>3, Zenon DEF Joined
<1>6. PICK at : Placed(js, text, at)
  BY <1>4
<1> HIDE DEF js
<1>7. /\ at \in [0..K -> Nat] /\ at[0] = 0 /\ l = at[K]
      /\ \A k \in 1..K : at[k] = at[k - 1] + Len(js[k])
      /\ \A k \in 1..K : \A j \in 1..Len(js[k]) :
           at[k - 1] + j \in 1..l /\ text[at[k - 1] + j] = js[k][j]
  BY <1>4, <1>6, Zenon DEF Placed
<1>8. /\ T \in Seq(Char) /\ Len(T) = l + 1 /\ T[l + 1] = Semicolon
      /\ \A p \in 1..l : T[p] = text[p]
  BY <1>1, <1>4
<1> HIDE DEF K, l
<1> DEFINE pos == [k \in 1..K |-> IF k = 1 THEN 0 ELSE at[k - 1] + 2]
           n(k) == Len(ws[k])
<1>9. \A k \in 1..K : n(k) \in Nat
  BY <1>3
<1>10. ASSUME NEW k \in 1..K, k # 1
       PROVE  /\ Len(js[k]) = 2 + n(k)
              /\ js[k][1] = Semicolon /\ js[k][2] = Blank
              /\ \A j \in 1..n(k) : js[k][2 + j] = ws[k][j]
  <2> DEFINE w == ws[k]
             x == sep \o w
  <2>1. w \in Seq(Char)
    BY <1>3
  <2> HIDE DEF w
  <2>2. IsConcat(Char, x, sep, w)
    BY <1>2, <2>1, ConcatElements, Zenon
  <2> HIDE DEF x
  <2>3. /\ Len(x) = 2 + Len(w)
        /\ \A j \in 1..2 : x[j] = sep[j]
        /\ \A j \in 1..Len(w) : x[2 + j] = w[j]
    BY <1>2, <2>2, Zenon DEF IsConcat
  <2>4. 1 \in 1..2 /\ 2 \in 1..2
    OBVIOUS
  <2>5. js[k] = x
    BY <1>5, <1>10, Zenon DEF x, w
  <2> QED
    BY <1>2, <2>3, <2>4, <2>5, Zenon DEF w
<1>11. js[1] = ws[1]
  <2>1. 1 \in 1..K
    BY <1>3
  <2>2. js[1] = <<>> \o ws[1] /\ ws[1] \in Seq(Char)
    BY <1>3, <1>5, <2>1, Zenon
  <2> QED
    BY <2>2, EmptyConcat, Zenon
<1> HIDE DEF n
<1>12. ASSUME NEW k \in 1..K
       PROVE  /\ pos[k] \in Nat
              /\ pos[k] + n(k) = at[k]
              /\ \A j \in 1..n(k) : pos[k] + j \in 1..l /\ text[pos[k] + j] = ws[k][j]
  <2>0. n(k) \in Nat
    BY <1>9
  <2>1. CASE k = 1
    <3>1. pos[k] = 0 /\ at[k] = at[k - 1] + n(k) /\ k - 1 = 0
      BY <1>7, <1>11, <2>1 DEF n
    <3>2. at[k] = 0 + n(k)
      BY <1>7, <3>1, Zenon
    <3>3. \A j \in 1..n(k) : 0 + j \in 1..l /\ text[0 + j] = ws[k][j]
      <4>1. js[k] = ws[k] /\ at[k - 1] = 0
        BY <1>7, <1>11, <2>1, <3>1, Zenon
      <4>2. \A j \in 1..Len(js[k]) : at[k - 1] + j \in 1..l /\ text[at[k - 1] + j] = js[k][j]
        BY <1>7, Zenon
      <4> QED
        BY <4>1, <4>2, Zenon DEF n
    <3>4. 0 \in Nat
      OBVIOUS
    <3> QED
      BY <3>1, <3>2, <3>3, <3>4, Zenon
  <2>2. CASE k # 1
    <3> DEFINE b == at[k - 1]
    <3>1. pos[k] = b + 2
      BY <2>2, Zenon
    <3>2. b \in Nat
      <4>1. k - 1 \in 0..K
        BY <1>3
      <4> QED
        BY <1>7, <4>1, Zenon
    <3>3. /\ at[k] = b + (2 + n(k))
          /\ \A j \in 1..(2 + n(k)) : b + j \in 1..l /\ text[b + j] = js[k][j]
      BY <1>7, <1>10, <2>2, Zenon
    <3> HIDE DEF pos, b
    <3>4. ASSUME NEW j \in 1..n(k)
          PROVE  pos[k] + j \in 1..l /\ text[pos[k] + j] = ws[k][j]
      <4>1. 2 + j \in 1..(2 + n(k)) /\ b + (2 + j) = pos[k] + j
        BY <2>0, <3>1, <3>2
      <4>2. js[k][2 + j] = ws[k][j]
        BY <1>10, <2>2, Zenon
      <4>3. b + (2 + j) \in 1..l /\ text[b + (2 + j)] = js[k][2 + j]
        BY <3>3, <4>1, Zenon
      <4> QED
        BY <4>1, <4>2, <4>3, Zenon
    <3>5. pos[k] \in Nat /\ pos[k] + n(k) = at[k]
      BY <2>0, <3>1, <3>2, <3>3
    <3> QED
      BY <3>4, <3>5, Zenon
  <2> QED
    BY <2>1, <2>2, Zenon
<1>13. pos[1] = 0 /\ \A k \in 1..K : k # 1 => pos[k] = at[k - 1] + 2
  BY <1>3
<1> HIDE DEF pos
<1>14. ASSUME NEW k \in 1..K
       PROVE  /\ Fragment(T, pos[k], ws[k])
              /\ k = K => pos[k] + n(k) + 1 = Len(T)
              /\ k # K => /\ pos[k] + n(k) + 1 # Len(T)
                          /\ pos[k + 1] = pos[k] + n(k) + 2
  <2> DEFINE a == at[k]
  <2>1. a \in Nat /\ pos[k] \in Nat /\ n(k) \in Nat /\ l \in Nat /\ pos[k] + n(k) = a
    <3>1. k \in 0..K /\ K \in 0..K
      BY <1>3
    <3> QED
      BY <1>7, <1>9, <1>12, <3>1, Zenon
  <2>2. \A j \in 1..n(k) : T[pos[k] + j] = ws[k][j]
    BY <1>8, <1>12, Zenon
  <2>3. ws[k] \in Seq(Char)
    BY <1>3
  <2>4. CASE k = K
    <3>1. a = l
      BY <1>7, <2>4, Zenon
    <3> HIDE DEF a
    <3>2. pos[k] + n(k) + 1 = Len(T) /\ pos[k] + n(k) + 1 <= Len(T) /\ T[a + 1] = Semicolon
      BY <1>8, <2>1, <3>1
    <3>3. Fragment(T, pos[k], ws[k])
      BY <2>1, <2>2, <2>3, <3>2, Zenon DEF Fragment, n
    <3> QED
      BY <2>4, <3>2, <3>3, Zenon
  <2>5. CASE k # K
    <3> DEFINE h == k + 1
    <3>1. h \in 1..K /\ h # 1 /\ h - 1 = k
      BY <1>3, <2>5
    <3>2. pos[h] = a + 2
      BY <1>13, <3>1, Zenon
    <3> HIDE DEF h
    <3>3. 1 \in 1..(2 + n(h)) /\ 2 \in 1..(2 + n(h))
      <4>1. n(h) \in Nat
        BY <1>9, <3>1, Zenon
      <4> QED
        BY <4>1
    <3>4. /\ a + 1 \in 1..l /\ text[a + 1] = Semicolon
          /\ a + 2 \in 1..l /\ text[a + 2] = Blank
      <4>1. /\ Len(js[h]) = 2 + n(h)
            /\ js[h][1] = Semicolon /\ js[h][2] = Blank
        BY <1>10, <3>1, Zenon
      <4> QED
        BY <1>7, <3>1, <3>3, <4>1, Zenon
    <3>5. T[a + 1] = Semicolon /\ T[a + 2] = Blank
      BY <1>8, <3>4, Zenon
    <3> HIDE DEF a
    <3>6. a + 1 # Len(T) /\ a + 1 <= Len(T) /\ pos[k] + n(k) + 2 = a + 2
      BY <1>8, <2>1, <3>4, SMTT(30)
    <3>7. Fragment(T, pos[k], ws[k])
      BY <2>1, <2>2, <2>3, <3>5, <3>6, Zenon DEF Fragment, n
    <3> QED
      BY <2>1, <2>5, <3>2, <3>6, <3>7, Zenon DEF h
  <2> QED
    BY <2>4, <2>5
<1>15. Laid(T, ws, pos)
  BY <1>13, <1>14, Zenon DEF Laid, K, n
<1> QED
  BY <1>8, <1>15, Zenon

\* parse_cookie takes the fragments of a text one by one.
LEMMA ParseJoined ==
    ASSUME NEW ws \in Seq(Seq(Char)), 1 <= Len(ws)
    PROVE  \E R : /\ R[1] = EmplacedCookies(Join(ws, <<59, 32>>))
                  /\ R[Len(ws) + 1] = <<>>
                  /\ \A k \in 1..Len(ws) : \A out :
                       Reads(ws[k], out) /\ R[k + 1] \in Seq(Pair) => R[k] = out \o R[k + 1]
<1> DEFINE K == Len(ws)
           text == Join(ws, <<Semicolon, Blank>>)
           T == Append(text, Semicolon)
<1>1. T \in Seq(Char) /\ \E pos : Laid(T, ws, pos)
  BY JoinedLaid, Zenon
<1>2. T = Append(text, 59) /\ text = Join(ws, <<59, 32>>)
  BY Zenon DEF Semicolon, Blank
<1> HIDE DEF T, text
<1>3. PICK rest : Parses(T, rest) /\ EmplacedCookies(text) = rest[1]
  BY <1>1, <1>2, CookieTurns, Zenon
<1>4. PICK pos : Laid(T, ws, pos)
  BY <1>1
<1>5. K \in Nat /\ 1 <= K
  <2> DEFINE S == Seq(Char)
  <2> HIDE DEF S
  <2>1. ws \in Seq(S)
    BY DEF S
  <2> QED
    BY <2>1
<1>6. /\ pos[1] = 0
      /\ \A k \in 1..K : /\ Fragment(T, pos[k], ws[k])
                         /\ k = K => pos[k] + Len(ws[k]) + 1 = Len(T)
                         /\ k # K => /\ pos[k] + Len(ws[k]) + 1 # Len(T)
                                     /\ pos[k + 1] = pos[k] + Len(ws[k]) + 2
  BY <1>4, Zenon DEF Laid
<1> HIDE DEF K
<1> DEFINE R == [k \in 1..(K + 1) |-> IF k = K + 1 THEN <<>> ELSE rest[pos[k] + 1]]
<1>7. /\ R[K + 1] = <<>>
      /\ \A k \in 1..K : k \in 1..(K + 1) /\ R[k] = rest[pos[k] + 1]
  <2>1. K + 1 \in 1..(K + 1) /\ \A k \in 1..K : k \in 1..(K + 1) /\ k # K + 1
    BY <1>5
  <2> QED
    BY <2>1, Zenon
<1> HIDE DEF R
<1>8. R[1] = EmplacedCookies(text)
  <2>1. 1 \in 1..K /\ 0 + 1 = 1
    BY <1>5
  <2> QED
    BY <1>3, <1>6, <1>7, <2>1, Zenon
<1>9. ASSUME NEW k \in 1..K
      PROVE  Later(T, rest, pos[k] + Len(ws[k])) = R[k + 1]
  <2>1. CASE k = K
    BY <1>6, <1>7, <2>1, Zenon DEF Later
  <2>2. CASE k # K
    <3>1. k + 1 \in 1..K
      BY <1>5, <2>2
    <3>2. pos[k + 1] + 1 = pos[k] + Len(ws[k]) + 3
      <4>1. pos[k] \in Nat /\ Len(ws[k]) \in Nat /\ pos[k + 1] = pos[k] + Len(ws[k]) + 2
        <5>1. Fragment(T, pos[k], ws[k]) /\ pos[k + 1] = pos[k] + Len(ws[k]) + 2
          BY <1>6, <2>2, Zenon
        <5> DEFINE w == ws[k]
        <5>2. w \in Seq(Char) /\ pos[k] \in Nat
          BY <5>1, Zenon DEF Fragment
        <5> HIDE DEF w
        <5>3. Len(w) \in Nat
          BY <5>2
        <5> QED
          BY <5>1, <5>2, <5>3, Zenon DEF w
      <4> QED
        BY <4>1
    <3> QED
      BY <1>6, <1>7, <2>2, <3>1, <3>2, Zenon DEF Later
  <2> QED
    BY <2>1, <2>2
<1>10. ASSUME NEW k \in 1..K, NEW out, Reads(ws[k], out), R[k + 1] \in Seq(Pair)
       PROVE  R[k] = out \o R[k + 1]
  <2>1. Turn(T, rest, pos[k], ws[k], out)
    BY <1>1, <1>3, <1>6, <1>10, ReadTurn, Zenon
  <2> QED
    BY <1>7, <1>9, <1>10, <2>1, Zenon DEF Turn
<1> QED
  BY <1>2, <1>7, <1>8, <1>10, Zenon DEF K

\* StripPrefix gives a name.
LEMMA StrippedName ==
    ASSUME NEW S, NEW name \in Seq(S)
    PROVE  StripPrefix(name) \in Seq(S)
<1> DEFINE dash == Find(name, {45}, 1)
<1>1. dash = 0 \/ dash \in 1..Len(name)
  <2>1. 1 \in Nat
    OBVIOUS
  <2>2. FirstAt(name, {45}, 1, dash)
    BY <2>1, FindIs, Zenon
  <2> HIDE DEF dash
  <2> QED
    BY <2>2, Zenon DEF FirstAt
<1> HIDE DEF dash
<1>2. dash # 0 => SubSeq(name, dash + 1, Len(name)) \in Seq(S)
  BY <1>1
<1> QED
  BY <1>2, Zenon DEF StripPrefix, dash

\* Of what a server writes, the loop of parse_cookie emplaces the cookies, in
\* order and with their whole values, and nothing else.
LEMMA CookiesEmplaced ==
    ASSUME NEW cookies \in Seq(CookieRecords), cookies # <<>>,
           \A i \in DOMAIN cookies : PlainCookie(cookies[i])
    PROVE  EmplacedCookies(ServerText(cookies))
               = [i \in DOMAIN cookies |-> <<StripPrefix(cookies[i].name), cookies[i].value>>]
<1> DEFINE N == Len(cookies)
           S == Seq(Char)
           o(i) == <<StripPrefix(cookies[i].name), cookies[i].value>>
           pairs == [i \in 1..N |-> o(i)]
           ff == [i \in 1..N |-> ServerFragments(cookies[i])]
           ws == Concat(ff)
<1>1. /\ N \in Nat /\ 1 <= N /\ DOMAIN cookies = 1..N
      /\ \A i \in 1..N : cookies[i] \in CookieRecords
  OBVIOUS
<1>2. \A i \in 1..N : OneCookie(ServerFragments(cookies[i]), <<o(i)>>)
  BY <1>1, ServerCookie, Zenon
<1>3. \A i \in 1..N : o(i) \in Pair
  <2> TAKE i \in 1..N
  <2> DEFINE c == cookies[i]
  <2>3. c.name \in Seq(Char) /\ c.value \in Seq(Char)
    <3>1. c \in CookieRecords
      BY <1>1
    <3> QED
      BY <3>1, Zenon DEF CookieRecords, Char
  <2>4. StripPrefix(c.name) \in Seq(Char)
    BY <2>3, StrippedName, Zenon
  <2> QED
    BY <2>3, <2>4, Zenon DEF Pair
<1> HIDE DEF o, N
<1>4. pairs \in Seq(Pair) /\ Len(pairs) = N /\ \A i \in 1..N : pairs[i] = o(i)
  BY <1>1, <1>3
<1>5. /\ \A i \in 1..N : ff[i] \in Seq(S) /\ OneCookie(ff[i], <<o(i)>>)
      /\ ff \in Seq(Seq(S)) /\ Len(ff) = N
  <2>1. \A i \in 1..N : ff[i] \in Seq(S) /\ OneCookie(ff[i], <<o(i)>>)
    BY <1>2, Zenon DEF OneCookie
  <2>2. ff = [i \in 1..N |-> ff[i]]
    BY Zenon
  <2> HIDE DEF S, ff
  <2> DEFINE Z == Seq(S)
  <2>3. \A i \in 1..N : ff[i] \in Z
    BY <2>1, Zenon
  <2> HIDE DEF Z
  <2>4. ff \in Seq(Z) /\ Len(ff) = N
    BY <1>1, <2>2, <2>3
  <2> QED
    BY <2>1, <2>4, Zenon DEF Z
<1>6. ServerText(cookies) = Join(ws, <<59, 32>>)
  BY <1>1, Zenon DEF ServerText
<1> HIDE DEF ff, S, pairs
<1>7. ws \in Seq(S) /\ \E at : Placed(ff, ws, at)
  BY <1>5, ConcatPlaced, Zenon
<1>8. PICK at : Placed(ff, ws, at)
  BY <1>7
<1> HIDE DEF ws
<1> DEFINE K == Len(ws)
           m(i) == Len(ff[i])
<1>9. /\ at \in [0..N -> Nat] /\ at[0] = 0 /\ K = at[N]
      /\ \A i \in 1..N : at[i] = at[i - 1] + m(i)
      /\ \A i \in 1..N : \A j \in 1..m(i) :
           at[i - 1] + j \in 1..K /\ ws[at[i - 1] + j] = ff[i][j]
  BY <1>5, <1>8, Zenon DEF Placed
<1>10. ASSUME NEW i \in 1..N
       PROVE  /\ m(i) \in Nat /\ 1 <= m(i)
              /\ Reads(ff[i][1], <<o(i)>>)
              /\ \A j \in 2..m(i) : Reads(ff[i][j], <<>>)
  <2> DEFINE f == ff[i]
  <2>1. f \in Seq(S) /\ OneCookie(f, <<o(i)>>)
    BY <1>5, Zenon
  <2> HIDE DEF f
  <2>2. Len(f) \in Nat
    BY <2>1
  <2> QED
    BY <2>1, <2>2, Zenon DEF OneCookie, f
<1> HIDE DEF m
<1>11. K \in Nat /\ 1 <= K
  <2>1. 1 \in 1..N
    BY <1>1
  <2>2. 1 \in 1..m(1)
    <3>1. m(1) \in Nat /\ 1 <= m(1)
      BY <1>10, <2>1, Zenon
    <3> QED
      BY <3>1
  <2>3. at[1 - 1] + 1 \in 1..K
    BY <1>9, <2>1, <2>2, Zenon
  <2>4. K \in Nat
    BY <1>7
  <2> HIDE DEF K
  <2> QED
    BY <2>3, <2>4
<1>12. PICK R : /\ R[1] = EmplacedCookies(Join(ws, <<59, 32>>))
                /\ R[K + 1] = <<>>
                /\ \A k \in 1..K : \A out :
                     Reads(ws[k], out) /\ R[k + 1] \in Seq(Pair) => R[k] = out \o R[k + 1]
  BY <1>7, <1>11, ParseJoined, Zenon DEF S
<1> HIDE DEF K
<1> DEFINE U == {i \in 0..N : R[at[i] + 1] = SubSeq(pairs, i + 1, N)}
<1>13. N \in U
  <2>1. N \in 0..N
    BY <1>1
  <2>2. SubSeq(pairs, N + 1, N) = <<>>
    BY <1>1, <1>4
  <2> QED
    BY <1>9, <1>12, <2>1, <2>2, Zenon
<1>14. ASSUME NEW i \in 1..N, i \in U
       PROVE  i - 1 \in U
  <2> DEFINE b == at[i - 1]
             n == m(i)
             s == SubSeq(pairs, i + 1, N)
             W == {j \in 0..(n - 1) : R[b + j + 2] = s}
  <2>1. i - 1 \in 0..N /\ i \in 0..N /\ (i - 1) + 1 = i
    BY <1>1
  <2>2. b \in Nat /\ n \in Nat /\ 1 <= n /\ at[i] = b + n
    BY <1>9, <1>10, <2>1, Zenon
  <2>3. s \in Seq(Pair)
    BY <1>1, <1>4
  <2>4. R[at[i] + 1] = s
    BY <1>14, Zenon
  <2>5. \A j \in 1..n : b + j \in 1..K /\ ws[b + j] = ff[i][j]
    BY <1>9, Zenon
  <2>6. <<o(i)>> \o s = SubSeq(pairs, i, N)
    BY <1>1, <1>4, SuffixStep, Zenon
  <2> HIDE DEF b, n, s
  <2>7. n - 1 \in W
    <3>1. b + (n - 1) + 2 = at[i] + 1 /\ n - 1 \in 0..(n - 1)
      BY <2>2
    <3> QED
      BY <2>4, <3>1, Zenon
  <2>8. ASSUME NEW j \in 1..(n - 1), j \in W
        PROVE  j - 1 \in W
    <3> DEFINE h == j + 1
    <3>1. /\ h \in 2..n /\ h \in 1..n /\ j - 1 \in 0..(n - 1)
          /\ (b + h) + 1 = b + j + 2 /\ b + h = b + (j - 1) + 2
      BY <2>2
    <3> HIDE DEF h
    <3>2. R[b + j + 2] = s
      BY <2>8, Zenon
    <3>3. Reads(ws[b + h], <<>>) /\ b + h \in 1..K
      BY <1>10, <2>5, <3>1, Zenon DEF n
    <3>4. R[b + h] = <<>> \o s
      BY <1>12, <2>3, <3>1, <3>2, <3>3, Zenon
    <3>5. R[b + h] = s
      BY <2>3, <3>4, EmptyConcat, Zenon
    <3> QED
      BY <3>1, <3>5, Zenon
  <2>9. n - 1 \in Nat /\ 0 \in 0..(n - 1)
    BY <2>2
  <2>10. 0 \in W
    <3> DEFINE q == n - 1
    <3> HIDE DEF W, q
    <3>1. \A j \in 0..q : j \in W
      BY <2>7, <2>8, <2>9, BackwardInduction, Zenon DEF q
    <3> QED
      BY <2>9, <3>1, Zenon DEF q
  <2>11. b + 0 + 2 = (b + 1) + 1 /\ 1 \in 1..n
    BY <2>2
  <2>12. R[(b + 1) + 1] = s
    BY <2>10, <2>11, Zenon
  <2>13. Reads(ws[b + 1], <<o(i)>>) /\ b + 1 \in 1..K
    BY <1>10, <2>5, <2>11, Zenon
  <2>14. R[b + 1] = <<o(i)>> \o s
    BY <1>12, <2>3, <2>12, <2>13, Zenon
  <2> QED
    BY <2>1, <2>6, <2>14, Zenon DEF b, s
<1>15. 0 \in U
  <2>1. 0 \in 0..N
    BY <1>1
  <2> HIDE DEF U
  <2>2. \A i \in 0..N : i \in U
    BY <1>1, <1>13, <1>14, BackwardInduction, Zenon
  <2> QED
    BY <2>1, <2>2, Zenon
<1>16. R[1] = SubSeq(pairs, 1, N)
  <2>1. 0 + 1 = 1
    OBVIOUS
  <2> QED
    BY <1>9, <1>15, <2>1, Zenon
<1>17. SubSeq(pairs, 1, N) = pairs
  BY <1>1, <1>4
<1> QED
  BY <1>1, <1>6, <1>12, <1>16, <1>17, Zenon DEF pairs, o

\* Of what a server writes, parse_cookie finds the cookies with their whole
\* values, as often as they are there, and nothing else.
THEOREM CookieInverse ==
    ASSUME NEW cookies \in Seq(CookieRecords), cookies # <<>>,
           \A i \in DOMAIN cookies : PlainCookie(cookies[i])
    PROVE  parse_cookie(ServerText(cookies))
               = Multimap([i \in DOMAIN cookies |->
                              <<StripPrefix(cookies[i].name), cookies[i].value>>])
BY CookiesEmplaced, Zenon DEF parse_cookie

-----------------------------------------------------------------------------
(* URLs                                                                    *)

Equals == "="
Slash == "/"
Question == "?"
Ampersand == "&"
Dot == "."
Colon == "://"

\* A function that is_valid_query computes: what it says of the parameters from
\* each place on.
Validates(query, rest) ==
    \A i \in 1..(Len(query) + 1) : rest[i] = ParamValidAt(query, rest, i)

\* is_valid_query computes such a function.
LEMMA QueryTurns ==
    ASSUME NEW S, NEW query \in Seq(S)
    PROVE  \E rest : /\ Validates(query, rest)
                     /\ is_valid_query(query)
                          <=> query # <<>> /\ query[1] = Question /\ rest[2]
<1> DEFINE L == Len(query)
           D == 1..(L + 1)
           R == CHOOSE f : f = [i \in D |-> ParamValidAt(query, f, i)]
           E == [f \in [D -> BOOLEAN] |-> [i \in D |-> ParamValidAt(query, f, i)]]
           rank == [i \in D |-> (L + 1) - i]
<1>1. is_valid_query(query) <=> query # <<>> /\ query[1] = Question /\ R[2]
  BY Zenon DEF is_valid_query, Question
<1>2. L \in Nat
  OBVIOUS
<1>3. ASSUME NEW i \in D
      PROVE  \/ \A f : ParamValidAt(query, f, i) = ParamValidAt(query, [k \in D |-> TRUE], i)
             \/ \E n \in D : /\ i < n
                             /\ \A f, g : f[n] = g[n] =>
                                    ParamValidAt(query, f, i) = ParamValidAt(query, g, i)
  <2> DEFINE amp == Find(query, {"&"}, i)
             equal == Find(query, {"="}, i)
  <2>1. i \in Nat
    BY <1>2
  <2>2. amp = 0 \/ amp \in i..L
    BY <2>1, FindIs, Zenon DEF FirstAt
  <2>3. \A f : ParamValidAt(query, f, i) = (\/ i > Len(query)
                                            \/ /\ equal # 0
                                               /\ amp = 0 \/ equal < amp
                                               /\ amp # 0 => f[amp + 1])
    BY Zenon DEF ParamValidAt
  <2> HIDE DEF amp, equal
  <2>4. CASE amp = 0
    BY <2>3, <2>4, Zenon
  <2>5. CASE amp # 0
    <3>1. amp + 1 \in D /\ i < amp + 1
      BY <1>2, <2>1, <2>2, <2>5
    <3>2. \A f, g : f[amp + 1] = g[amp + 1] =>
                        ParamValidAt(query, f, i) = ParamValidAt(query, g, i)
      BY <2>3, Zenon
    <3> QED
      BY <3>1, <3>2, Zenon
  <2> QED
    BY <2>4, <2>5
<1> HIDE DEF L
<1>4. \E f \in [D -> BOOLEAN] : f = [i \in D |-> ParamValidAt(query, f, i)]
  <2>1. \A f : \A i \in D : ParamValidAt(query, f, i) \in BOOLEAN
    BY Zenon DEF ParamValidAt
  <2>2. E \in [[D -> BOOLEAN] -> [D -> BOOLEAN]]
    BY <2>1, Zenon
  <2>3. ASSUME NEW i \in D, NEW f \in [D -> BOOLEAN], NEW g \in [D -> BOOLEAN],
               \A y \in D : rank[y] < rank[i] => f[y] = g[y]
        PROVE  E[f][i] = E[g][i]
    <3>1. \A n \in D : i < n => f[n] = g[n]
      BY <1>2, <2>3
    <3>2. ParamValidAt(query, f, i) = ParamValidAt(query, g, i)
      BY <1>3, <3>1, Zenon
    <3> QED
      BY <3>2, Zenon
  <2>4. rank \in [D -> 0..(L + 1)] /\ L + 1 \in Nat
    BY <1>2
  <2>5. BOOLEAN # {}
    BY Zenon
  <2> HIDE DEF E, rank, D
  <2>6. Descends(D, BOOLEAN, E, rank)
    BY <2>3, Zenon DEF Descends
  <2>7. Recursive(D, BOOLEAN, E)
    BY <2>2, <2>4, <2>5, <2>6, Zenon DEF Recursive
  <2>8. PICK f \in [D -> BOOLEAN] : f = E[f]
    BY <2>7, Recursion
  <2> QED
    BY <2>8, Zenon DEF E
<1>5. R = [i \in D |-> ParamValidAt(query, R, i)]
  BY <1>4, Zenon
<1> HIDE DEF R
<1>6. Validates(query, R)
  BY <1>5, Zenon DEF Validates, L
<1> QED
  BY <1>1, <1>6, Zenon

\* The parameter that starts at p has its '='.
Param(q, p) == \E e \in p..Len(q) : q[e] = Equals /\ \A k \in p..e : q[k] # Ampersand

\* So have those that start at pos or later.
ParamsFrom(q, pos) == \A p \in pos..Len(q) : p = pos \/ q[p - 1] = Ampersand => Param(q, p)

\* What a turn of is_valid_query sees of the parameter it is at, and of those
\* behind it.
LEMMA FirstParam ==
    ASSUME NEW S, NEW q \in Seq(S), NEW pos \in 1..Len(q), NEW equal, NEW amp,
           FirstAt(q, {Equals}, pos, equal), FirstAt(q, {Ampersand}, pos, amp)
    PROVE  /\ Param(q, pos) <=> equal # 0 /\ (amp = 0 \/ equal < amp)
           /\ ParamsFrom(q, pos) <=> Param(q, pos) /\ (amp # 0 => ParamsFrom(q, amp + 1))
<1> DEFINE L == Len(q)
<1>1. L \in Nat
  OBVIOUS
<1>2. \/ equal = 0 /\ \A i \in pos..L : q[i] # Equals
      \/ equal \in pos..L /\ q[equal] = Equals /\ \A i \in pos..(equal - 1) : q[i] # Equals
  BY Zenon DEF FirstAt
<1>3. \/ amp = 0 /\ \A i \in pos..L : q[i] # Ampersand
      \/ amp \in pos..L /\ q[amp] = Ampersand /\ \A i \in pos..(amp - 1) : q[i] # Ampersand
  BY Zenon DEF FirstAt
<1> HIDE DEF L
<1>4. equal \in Int /\ amp \in Int
  BY <1>1, <1>2, <1>3
<1>5. ASSUME Param(q, pos)
      PROVE  equal # 0 /\ (amp = 0 \/ equal < amp)
  <2>1. PICK e \in pos..L : q[e] = Equals /\ \A k \in pos..e : q[k] # Ampersand
    BY <1>5, Zenon DEF Param, L
  <2>2. equal \in pos..L /\ \A i \in pos..(equal - 1) : q[i] # Equals
    BY <1>2, <2>1, Zenon
  <2>3. e \notin pos..(equal - 1)
    BY <2>1, <2>2, Zenon
  <2>4. amp = 0 \/ (amp \in pos..L /\ amp \notin pos..e)
    BY <1>3, <2>1, Zenon
  <2> QED
    BY <1>1, <2>2, <2>3, <2>4
<1>6. ASSUME equal # 0, amp = 0 \/ equal < amp
      PROVE  Param(q, pos)
  <2>1. equal \in pos..L /\ q[equal] = Equals
    BY <1>2, <1>6, Zenon
  <2>2. ASSUME NEW k \in pos..equal
        PROVE  q[k] # Ampersand
    <3>1. k \in pos..L /\ (amp # 0 => k \in pos..(amp - 1))
      BY <1>1, <1>4, <1>6, <2>1
    <3>2. CASE amp = 0 /\ \A i \in pos..L : q[i] # Ampersand
      BY <3>1, <3>2, Zenon
    <3>3. CASE amp # 0 /\ \A i \in pos..(amp - 1) : q[i] # Ampersand
      BY <3>1, <3>3, Zenon
    <3>4. amp \in pos..L => amp # 0
      BY <1>1
    <3> QED
      BY <1>3, <3>2, <3>3, <3>4, Zenon
  <2> QED
    BY <2>1, <2>2, Zenon DEF Param, L
<1>7. ASSUME ParamsFrom(q, pos)
      PROVE  Param(q, pos) /\ (amp # 0 => ParamsFrom(q, amp + 1))
  <2>1. pos \in pos..L
    BY <1>1 DEF L
  <2>2. Param(q, pos)
    BY <1>7, <2>1, Zenon DEF ParamsFrom, L
  <2>3. ASSUME amp # 0, NEW p \in (amp + 1)..L, p = amp + 1 \/ q[p - 1] = Ampersand
        PROVE  Param(q, p)
    <3>1. amp \in pos..L /\ q[amp] = Ampersand
      BY <1>3, <2>3, Zenon
    <3>2. p \in pos..L /\ (amp + 1) - 1 = amp
      BY <1>1, <3>1
    <3>3. q[p - 1] = Ampersand
      BY <2>3, <3>1, <3>2, Zenon
    <3> QED
      BY <1>7, <3>2, <3>3, Zenon DEF ParamsFrom, L
  <2> QED
    BY <2>2, <2>3, Zenon DEF ParamsFrom, L
<1>8. ASSUME Param(q, pos), amp # 0 => ParamsFrom(q, amp + 1)
      PROVE  ParamsFrom(q, pos)
  <2>1. ASSUME NEW p \in pos..L, p = pos \/ q[p - 1] = Ampersand
        PROVE  Param(q, p)
    <3>1. CASE p = pos
      BY <1>8, <3>1, Zenon
    <3>2. CASE p # pos /\ q[p - 1] = Ampersand
      <4>1. p - 1 \in pos..L
        BY <1>1, <3>2
      <4>2. amp # 0 /\ amp \in pos..L /\ p - 1 \notin pos..(amp - 1)
        BY <1>1, <1>3, <3>2, <4>1
      <4>3. p \in (amp + 1)..L
        BY <1>1, <4>1, <4>2
      <4> QED
        BY <1>8, <3>2, <4>2, <4>3, Zenon DEF ParamsFrom, L
    <3> QED
      BY <2>1, <3>1, <3>2, Zenon
  <2> QED
    BY <2>1, Zenon DEF ParamsFrom, L
<1> QED
  BY <1>5, <1>6, <1>7, <1>8, Zenon

\* is_valid_query accepts a '?' before parameters that each have their '='.
LEMMA QueryValid ==
    ASSUME NEW S, NEW query \in Seq(S)
    PROVE  is_valid_query(query) <=>
               query # <<>> /\ query[1] = "?" /\ QueryGrammar(query)
<1> DEFINE L == Len(query)
           G(i) == ParamsFrom(query, i)
<1>1. L \in Nat /\ (query # <<>> => 1 <= L)
  OBVIOUS
<1>2. PICK rest : /\ Validates(query, rest)
                  /\ is_valid_query(query)
                       <=> query # <<>> /\ query[1] = Question /\ rest[2]
  BY QueryTurns, Zenon
<1> DEFINE U == {n \in 0..(L + 1) : \A i \in 1..(L + 1) : i >= n => (rest[i] <=> G(i))}
<1>3. ASSUME NEW i \in 1..(L + 1), i > L
      PROVE  rest[i] <=> G(i)
  <2>1. rest[i] = ParamValidAt(query, rest, i)
    BY <1>2, Zenon DEF Validates
  <2>2. ParamValidAt(query, rest, i) <=> TRUE
    BY <1>3, Zenon DEF ParamValidAt
  <2>3. i..L = {}
    BY <1>1, <1>3
  <2>4. G(i)
    BY <2>3, Zenon DEF ParamsFrom
  <2> QED
    BY <2>1, <2>2, <2>4, Zenon
<1>4. ASSUME NEW i \in 1..L, \A k \in 1..(L + 1) : k > i => (rest[k] <=> G(k))
      PROVE  rest[i] <=> G(i)
  <2> DEFINE equal == Find(query, {"="}, i)
             amp == Find(query, {"&"}, i)
  <2>1. i \in Nat /\ i \in 1..(L + 1) /\ ~(i > L)
    BY <1>1
  <2>2. FirstAt(query, {Equals}, i, equal) /\ FirstAt(query, {Ampersand}, i, amp)
    BY <2>1, FindIs, Zenon DEF Equals, Ampersand
  <2>3. rest[i] = ParamValidAt(query, rest, i)
    BY <1>2, <2>1, Zenon DEF Validates
  <2>4. ParamValidAt(query, rest, i) <=>
            equal # 0 /\ (amp = 0 \/ equal < amp) /\ (amp # 0 => rest[amp + 1])
    BY <2>1, Zenon DEF ParamValidAt
  <2> HIDE DEF equal, amp
  <2>5. amp # 0 => amp + 1 \in 1..(L + 1) /\ amp + 1 > i
    <3>1. amp = 0 \/ amp \in i..L
      BY <2>2, Zenon DEF FirstAt
    <3> QED
      BY <1>1, <2>1, <3>1
  <2>6. /\ Param(query, i) <=> equal # 0 /\ (amp = 0 \/ equal < amp)
        /\ G(i) <=> Param(query, i) /\ (amp # 0 => G(amp + 1))
    BY <2>2, FirstParam, Zenon
  <2> HIDE DEF G
  <2>7. amp # 0 => (rest[amp + 1] <=> G(amp + 1))
    BY <1>4, <2>5, Zenon
  <2> QED
    BY <2>3, <2>4, <2>6, <2>7, Zenon
<1> HIDE DEF L, G
<1>5. L + 1 \in U
  <2>1. L + 1 \in 0..(L + 1) /\ \A i \in 1..(L + 1) : i >= L + 1 => i > L
    BY <1>1
  <2> QED
    BY <1>3, <2>1, Zenon
<1>6. ASSUME NEW n \in 1..(L + 1), n \in U
      PROVE  n - 1 \in U
  <2>1. \A i \in 1..(L + 1) : i >= n => (rest[i] <=> G(i))
    BY <1>6, Zenon
  <2>2. n - 1 \in 0..(L + 1)
    BY <1>1
  <2>3. ASSUME NEW i \in 1..(L + 1), i >= n - 1
        PROVE  rest[i] <=> G(i)
    <3>1. CASE i >= n
      BY <2>1, <3>1, Zenon
    <3>2. CASE ~(i >= n)
      <4>1. i \in 1..L /\ \A k \in 1..(L + 1) : k > i => k >= n
        BY <1>1, <2>3, <3>2
      <4> QED
        BY <1>4, <2>1, <4>1, Zenon
    <3> QED
      BY <3>1, <3>2, Zenon
  <2> QED
    BY <2>2, <2>3, Zenon
<1>7. ASSUME query # <<>>
      PROVE  rest[2] <=> QueryGrammar(query)
  <2>1. L + 1 \in Nat /\ 0 \in 0..(L + 1) /\ 2 \in 1..(L + 1) /\ 2 >= 0
    BY <1>1, <1>7
  <2>2. 0 \in U
    <3> DEFINE q == L + 1
    <3> HIDE DEF U, q
    <3>1. \A n \in 0..q : n \in U
      BY <1>5, <1>6, <2>1, BackwardInduction, Zenon DEF q
    <3> QED
      BY <2>1, <3>1, Zenon DEF q
  <2>3. rest[2] <=> G(2)
    BY <2>1, <2>2, Zenon
  <2>4. G(2) <=> QueryGrammar(query)
    BY Zenon DEF G, ParamsFrom, Param, QueryGrammar, Equals, Ampersand
  <2> QED
    BY <2>3, <2>4, Zenon
<1> QED
  BY <1>2, <1>7, Zenon DEF Question

\* The characters of a part, one by one.
LEMMA PartRange ==
    ASSUME NEW S, NEW s, NEW m, NEW n, NEW X, Within(S, s, m, n)
    PROVE  Range(SubSeq(s, m, n)) \subseteq X <=> \A k \in m..n : s[k] \in X
<1> DEFINE p == SubSeq(s, m, n)
           l == n - m + 1
<1>1. m \in Nat /\ n \in Nat
  BY DEF Within
<1>2. DOMAIN p = 1..l /\ \A j \in 1..l : p[j] = s[m + j - 1]
  BY DEF Within
<1> HIDE DEF p
<1>3. ASSUME Range(p) \subseteq X, NEW k \in m..n
      PROVE  s[k] \in X
  <2> DEFINE j == k - m + 1
  <2>1. j \in 1..l /\ m + j - 1 = k
    BY <1>1
  <2> HIDE DEF j, l
  <2> QED
    BY <1>2, <1>3, <2>1, Zenon DEF Range
<1>4. ASSUME \A k \in m..n : s[k] \in X
      PROVE  Range(p) \subseteq X
  <2>1. \A j \in 1..l : m + j - 1 \in m..n
    BY <1>1
  <2> HIDE DEF l
  <2> QED
    BY <1>2, <1>4, <2>1, Zenon DEF Range
<1> QED
  BY <1>3, <1>4, Zenon DEF p

HostWord == Alnum \cup {"-"}
Host == Alnum \cup {"-", "."}

\* The characters of a host name, and the two that end it.
LEMMA HostCharacters ==
    /\ Dot \in Host /\ Dot \notin HostWord
    /\ \A c \in HostWord : c \in Host
    /\ \A c \in Alpha : c \in Host
    /\ \A c \in Host : c = Dot \/ c \in HostWord
    /\ Slash \notin Host /\ Question \notin Host
BY Zenon DEF Dot, Host, HostWord, Alnum, Alpha, Slash, Question

\* is_valid_domain accepts a dot with something on both sides of it, letters
\* only on the right.
LEMMA DomainValid ==
    ASSUME NEW S, NEW s \in Seq(S), NEW n, n = Len(s)
    PROVE  is_valid_domain(s) <=>
               \E d \in 2..(n - 1) :
                   /\ s[d] = "."
                   /\ Range(SubSeq(s, 1, d - 1)) \subseteq Alnum \cup {"-"}
                   /\ Range(SubSeq(s, d + 1, n)) \subseteq Alpha
<1> DEFINE dot == Find(s, {"."}, 1)
<1>1. n \in Nat
  OBVIOUS
<1>2. is_valid_domain(s) <=> /\ dot \notin {0, 1, n}
                             /\ Range(s) \subseteq Host
                             /\ Range(SubSeq(s, dot + 1, n)) \subseteq Alpha
  BY Zenon DEF is_valid_domain, Host
<1>3. FirstAt(s, {Dot}, 1, dot)
  <2>1. 1 \in Nat
    OBVIOUS
  <2> QED
    BY <2>1, FindIs, Zenon DEF Dot
<1> HIDE DEF dot
<1>4. \/ dot = 0
      \/ dot \in 1..n /\ s[dot] = Dot /\ \A i \in 1..(dot - 1) : s[i] # Dot
  BY <1>3, Zenon DEF FirstAt
<1>5. Range(s) \subseteq Host <=> \A k \in 1..n : s[k] \in Host
  <2>1. DOMAIN s = 1..n
    OBVIOUS
  <2> QED
    BY <2>1, Zenon DEF Range
<1>6. ASSUME NEW d \in 1..n
      PROVE  /\ Range(SubSeq(s, 1, d - 1)) \subseteq HostWord
                  <=> \A k \in 1..(d - 1) : s[k] \in HostWord
             /\ Range(SubSeq(s, d + 1, n)) \subseteq Alpha
                  <=> \A k \in (d + 1)..n : s[k] \in Alpha
  <2>1. Within(S, s, 1, d - 1) /\ Within(S, s, d + 1, n)
    BY <1>1 DEF Within
  <2> QED
    BY <2>1, PartRange, Zenon
<1>7. ASSUME is_valid_domain(s)
      PROVE  /\ dot \in 2..(n - 1) /\ s[dot] = Dot
             /\ Range(SubSeq(s, 1, dot - 1)) \subseteq HostWord
             /\ Range(SubSeq(s, dot + 1, n)) \subseteq Alpha
  <2>1. /\ dot \notin {0, 1, n}
        /\ \A k \in 1..n : s[k] \in Host
        /\ Range(SubSeq(s, dot + 1, n)) \subseteq Alpha
    BY <1>2, <1>5, <1>7, Zenon
  <2>2. dot \in 1..n /\ s[dot] = Dot /\ \A i \in 1..(dot - 1) : s[i] # Dot
    BY <1>4, <2>1, Zenon
  <2>3. dot \in 2..(n - 1) /\ \A k \in 1..(dot - 1) : k \in 1..n
    BY <1>1, <2>1, <2>2
  <2>4. \A k \in 1..(dot - 1) : s[k] \in HostWord
    BY <2>1, <2>2, <2>3, HostCharacters, Zenon
  <2> QED
    BY <1>6, <2>1, <2>2, <2>3, <2>4, Zenon
<1>8. ASSUME NEW d \in 2..(n - 1), s[d] = Dot,
             Range(SubSeq(s, 1, d - 1)) \subseteq HostWord,
             Range(SubSeq(s, d + 1, n)) \subseteq Alpha
      PROVE  is_valid_domain(s)
  <2>1. d \in 1..n /\ d \notin {0, 1, n}
    BY <1>1
  <2>2. /\ \A k \in 1..(d - 1) : s[k] \in HostWord
        /\ \A k \in (d + 1)..n : s[k] \in Alpha
    BY <1>6, <1>8, <2>1, Zenon
  <2>3. \A k \in 1..(d - 1) : s[k] # Dot
    BY <2>2, HostCharacters, Zenon
  <2>4. FirstAt(s, {Dot}, 1, d)
    BY <1>8, <2>1, <2>3, Zenon DEF FirstAt
  <2>5. dot = d
    <3>1. 1 \in Nat /\ 1 <= 1
      OBVIOUS
    <3> QED
      BY <1>3, <2>4, <3>1, FirstIsUnique, Zenon
  <2>6. ASSUME NEW k \in 1..n
        PROVE  s[k] \in Host
    <3>1. k \in 1..(d - 1) \/ k = d \/ k \in (d + 1)..n
      BY <1>1
    <3> QED
      BY <1>8, <2>2, <3>1, HostCharacters, Zenon
  <2> QED
    BY <1>2, <1>5, <1>8, <2>1, <2>5, <2>6, Zenon
<1> QED
  BY <1>7, <1>8, Zenon DEF Dot, HostWord

\* What is_valid_domain accepts is a host name.
LEMMA DomainIsHost ==
    ASSUME NEW S, NEW s \in Seq(S), is_valid_domain(s)
    PROVE  HostName(s)
<1> DEFINE n == Len(s)
<1>1. n \in Nat /\ DOMAIN s = 1..n
  OBVIOUS
<1>2. PICK d \in 2..(n - 1) : /\ s[d] = Dot
                              /\ Range(SubSeq(s, 1, d - 1)) \subseteq HostWord
                              /\ Range(SubSeq(s, d + 1, n)) \subseteq Alpha
  BY DomainValid, Zenon DEF Dot, HostWord
<1>3. Range(s) \subseteq Host
  BY Zenon DEF is_valid_domain, Host
<1>4. /\ d \in 1..n /\ d \notin {1, n} /\ d + 1 \in (d + 1)..n
      /\ Within(S, s, 1, d - 1) /\ Within(S, s, d + 1, n)
  <2> HIDE DEF n
  <2>1. d \in 1..n /\ d \notin {1, n} /\ d + 1 \in (d + 1)..n
    BY <1>1
  <2>2. /\ 1 \in Nat /\ d - 1 \in Nat /\ 1 <= 1 /\ 1 <= d - 1 + 1 /\ d - 1 <= n
        /\ d + 1 \in Nat /\ 1 <= d + 1 /\ d + 1 <= n + 1 /\ n <= n
    BY <1>1
  <2> QED
    BY <1>1, <2>1, <2>2, Zenon DEF Within, n
<1>5. /\ \A k \in 1..(d - 1) : s[k] \in HostWord
      /\ \A k \in (d + 1)..n : s[k] \in Alpha
  BY <1>2, <1>4, PartRange, Zenon
<1>6. \A k \in (d + 1)..n : s[k] # Dot
  BY <1>5, Zenon DEF Alpha, Dot
<1>7. ASSUME NEW k \in 1..n, s[k] = Dot
      PROVE  k = d
  <2>1. k \in 1..(d - 1) \/ k = d \/ k \in (d + 1)..n
    BY <1>1
  <2> QED
    BY <1>5, <1>6, <1>7, <2>1, HostCharacters, Zenon
<1>8. \A k \in 1..n : s[k] = Dot => k \notin {1, n} /\ s[k + 1] # Dot
  BY <1>4, <1>6, <1>7, Zenon
<1> QED
  BY <1>1, <1>2, <1>3, <1>4, <1>8, Zenon DEF HostName, Host, Dot

\* A host name that is_valid_domain refuses has two dots.
LEMMA HostIsDomain ==
    ASSUME NEW S, NEW s \in Seq(S), HostName(s)
    PROVE  is_valid_domain(s) \/ \E a, b \in 1..Len(s) : a < b /\ s[a] = Dot /\ s[b] = Dot
<1> DEFINE n == Len(s)
<1>1. n \in Nat /\ DOMAIN s = 1..n
  OBVIOUS
<1>2. PICK d \in 1..n : s[d] = Dot /\ Range(SubSeq(s, d + 1, n)) \subseteq Alpha
  BY <1>1, Zenon DEF HostName, Dot
<1>3. \A k \in 1..n : s[k] \in Host
  BY <1>1, Zenon DEF HostName, Host, Range
<1>4. d # 1 /\ d # n
  BY <1>1, <1>2, Zenon DEF HostName, Dot
<1>5. d \in 2..(n - 1) /\ \A k \in 1..(d - 1) : k \in 1..n /\ k < d
  <2> HIDE DEF n
  <2> QED
    BY <1>1, <1>4
<1>6. CASE \E k \in 1..(d - 1) : s[k] = Dot
  BY <1>2, <1>5, <1>6, Zenon
<1>7. CASE \A k \in 1..(d - 1) : s[k] # Dot
  <2>1. \A k \in 1..(d - 1) : s[k] \in HostWord
    BY <1>3, <1>5, <1>7, HostCharacters, Zenon
  <2>2. Within(S, s, 1, d - 1)
    BY <1>1, <1>5 DEF Within
  <2>3. Range(SubSeq(s, 1, d - 1)) \subseteq HostWord
    BY <2>1, <2>2, PartRange, Zenon
  <2> QED
    BY <1>2, <1>5, <2>3, DomainValid, Zenon DEF Dot, HostWord
<1> QED
  BY <1>6, <1>7, Zenon

\* The grammar, said with the validators of the path and the query.
LEMMA GrammarByParts ==
    ASSUME NEW S, NEW r \in Seq(S)
    PROVE  UrlGrammar(r) <=>
               \E i, j \in 0..Len(r) :
                   /\ i <= j
                   /\ HostName(SubSeq(r, 1, i))
                   /\ SubSeq(r, i + 1, j) # <<>> => is_valid_path(SubSeq(r, i + 1, j))
                   /\ SubSeq(r, j + 1, Len(r)) # <<>> =>
                          is_valid_query(SubSeq(r, j + 1, Len(r)))
<1> DEFINE M == Len(r)
           A(i) == HostName(SubSeq(r, 1, i))
           B(i, j) == SubSeq(r, i + 1, j) # <<>> =>
                        /\ SubSeq(r, i + 1, j)[1] = "/"
                        /\ Range(SubSeq(r, i + 1, j)) \subseteq Alnum \cup {"/", "-", "_"}
           C(j) == SubSeq(r, j + 1, M) # <<>> =>
                     SubSeq(r, j + 1, M)[1] = "?" /\ QueryGrammar(SubSeq(r, j + 1, M))
<1>1. UrlGrammar(r) <=> \E i, j \in 0..M : i <= j /\ A(i) /\ B(i, j) /\ C(j)
  BY Zenon DEF UrlGrammar
<1>2. M \in Nat
  OBVIOUS
<1>4. ASSUME NEW i, NEW j
      PROVE  B(i, j) <=> (SubSeq(r, i + 1, j) # <<>> => is_valid_path(SubSeq(r, i + 1, j)))
  BY Zenon DEF is_valid_path
<1>5. ASSUME NEW j \in 0..M
      PROVE  C(j) <=> (SubSeq(r, j + 1, M) # <<>> => is_valid_query(SubSeq(r, j + 1, M)))
  <2> DEFINE p == SubSeq(r, j + 1, M)
  <2>1. p \in Seq(S)
    BY <1>2
  <2> HIDE DEF p
  <2> QED
    BY <2>1, QueryValid, Zenon DEF p
<1> HIDE DEF B, C
<1> QED
  BY <1>1, <1>4, <1>5, Zenon

\* What is_valid_url asks of the text r after the scheme, cut at the first '/'
\* and the first '?'.
PartsValid(r, p, q) ==
    /\ is_valid_domain(SubSeq(r, 1, DomainEnd(r, p, q)))
    /\ p # 0 => is_valid_path(SubSeq(r, p, IF q # 0 THEN q - 1 ELSE Len(r)))
    /\ q # 0 => is_valid_query(SubSeq(r, q, Len(r)))

\* When a part is empty.
LEMMA PartEmpty ==
    ASSUME NEW S, NEW s \in Seq(S), NEW m \in Nat, NEW n \in Int, 1 <= m, n <= Len(s)
    PROVE  SubSeq(s, m, n) # <<>> <=> m <= n
OBVIOUS

\* A text that passes the checks of is_valid_url has the form of the grammar.
LEMMA ValidIsGrammatical ==
    ASSUME NEW S, NEW r \in Seq(S), NEW p, NEW q,
           FirstAt(r, {Slash}, 1, p), FirstAt(r, {Question}, 1, q), PartsValid(r, p, q)
    PROVE  UrlGrammar(r)
<1> DEFINE M == Len(r)
           i == DomainEnd(r, p, q)
           j == IF q # 0 THEN q - 1 ELSE M
<1>1. M \in Nat
  OBVIOUS
<1>2. (p = 0 \/ p \in 1..M) /\ (q = 0 \/ q \in 1..M)
  BY Zenon DEF FirstAt
<1>3. /\ is_valid_domain(SubSeq(r, 1, i))
      /\ p # 0 => is_valid_path(SubSeq(r, p, j))
      /\ q # 0 => is_valid_query(SubSeq(r, q, M))
  BY Zenon DEF PartsValid
<1>4. p # 0 => p <= j
  <2>1. p # 0 => SubSeq(r, p, j) # <<>>
    BY <1>3, Zenon DEF is_valid_path
  <2>2. j \in Int /\ j <= M
    BY <1>1, <1>2
  <2> HIDE DEF j
  <2>3. ASSUME p # 0
        PROVE  SubSeq(r, p, j) # <<>> <=> p <= j
    <3>1. p \in Nat /\ 1 <= p
      BY <1>1, <1>2, <2>3
    <3> QED
      BY <2>2, <3>1, PartEmpty, Zenon
  <2> QED
    BY <2>1, <2>3, Zenon
<1>5. i = (IF p # 0 THEN p ELSE IF q # 0 THEN q ELSE M + 1) - 1
  BY Zenon DEF DomainEnd
<1> HIDE DEF i, M
<1>6. i \in 0..M /\ j \in 0..M /\ i <= j
  BY <1>1, <1>2, <1>4, <1>5
<1>7. ASSUME SubSeq(r, i + 1, j) # <<>>
      PROVE  is_valid_path(SubSeq(r, i + 1, j))
  <2>1. i + 1 \in Nat /\ 1 <= i + 1 /\ j \in Int /\ j <= Len(r)
    BY <1>1, <1>6 DEF M
  <2>2. i + 1 <= j
    <3> HIDE DEF j
    <3> QED
      BY <1>7, <2>1, PartEmpty, Zenon
  <2>3. p # 0 /\ i + 1 = p
    BY <1>1, <1>2, <1>5, <2>2
  <2> HIDE DEF j
  <2> QED
    BY <1>3, <2>3, Zenon
<1>8. ASSUME SubSeq(r, j + 1, M) # <<>>
      PROVE  is_valid_query(SubSeq(r, j + 1, M))
  <2>1. j + 1 \in Nat /\ 1 <= j + 1 /\ M \in Int /\ M <= Len(r)
    BY <1>1, <1>6 DEF M
  <2>2. j + 1 <= M
    <3> HIDE DEF j
    <3> QED
      BY <1>8, <2>1, PartEmpty, Zenon
  <2>3. q # 0 /\ j + 1 = q
    BY <1>1, <1>2, <2>2
  <2> HIDE DEF j
  <2> QED
    BY <1>3, <2>3, Zenon
<1>9. HostName(SubSeq(r, 1, i))
  <2>1. SubSeq(r, 1, i) \in Seq(S)
    BY <1>1, <1>6 DEF M
  <2> QED
    BY <1>3, <2>1, DomainIsHost, Zenon
<1> HIDE DEF j
<1> QED
  BY <1>6, <1>7, <1>8, <1>9, GrammarByParts, Zenon DEF M

PathChar == Alnum \cup {"/", "-", "_"}

\* Two dots of r with no '/' or '?' before them.
TwoDots(r) ==
    \E a, b \in 1..Len(r) :
        /\ a < b /\ r[a] = Dot /\ r[b] = Dot
        /\ \A k \in 1..b : r[k] # Slash /\ r[k] # Question

\* A text of the grammar is valid, unless a '/' stands behind the '?' that ends
\* its domain, or there are two dots in the domain.
LEMMA GrammaticalIsValid ==
    ASSUME NEW S, NEW r \in Seq(S), NEW p, NEW q,
           FirstAt(r, {Slash}, 1, p), FirstAt(r, {Question}, 1, q), UrlGrammar(r)
    PROVE  PartsValid(r, p, q) \/ (q # 0 /\ p # 0 /\ q < p) \/ TwoDots(r)
<1> DEFINE M == Len(r)
<1>1. M \in Nat /\ 1 \in Nat /\ 1 <= 1
  OBVIOUS
<1>2. PICK i \in 0..M, j \in 0..M :
          /\ i <= j
          /\ HostName(SubSeq(r, 1, i))
          /\ SubSeq(r, i + 1, j) # <<>> => is_valid_path(SubSeq(r, i + 1, j))
          /\ SubSeq(r, j + 1, M) # <<>> => is_valid_query(SubSeq(r, j + 1, M))
  BY GrammarByParts, Zenon
<1>3. /\ SubSeq(r, i + 1, j) # <<>> <=> i + 1 <= j
      /\ SubSeq(r, j + 1, M) # <<>> <=> j + 1 <= M
  <2>1. /\ i + 1 \in Nat /\ 1 <= i + 1 /\ j \in Int /\ j <= M
        /\ j + 1 \in Nat /\ 1 <= j + 1 /\ M \in Int /\ M <= M
    BY <1>1
  <2> QED
    BY <2>1, PartEmpty, Zenon
<1>4. \A k \in 1..i : r[k] # Slash /\ r[k] # Question
  <2>1. Range(SubSeq(r, 1, i)) \subseteq Host
    BY <1>2, Zenon DEF HostName, Host
  <2>2. Within(S, r, 1, i)
    BY <1>1, <1>2 DEF Within
  <2>3. \A k \in 1..i : r[k] \in Host
    BY <2>1, <2>2, PartRange, Zenon
  <2> QED
    BY <2>3, HostCharacters, Zenon
<1>5. /\ i + 1 <= j => r[i + 1] = Slash
      /\ \A k \in (i + 1)..j : r[k] # Question
  <2>1. CASE i + 1 <= j
    <3> DEFINE t == SubSeq(r, i + 1, j)
    <3>1. Within(S, r, i + 1, j)
      BY <1>1, <1>2, <2>1 DEF Within
    <3>2. t[1] = r[i + 1]
      BY <1>1, <1>2, <2>1
    <3>3. t[1] = Slash /\ Range(t) \subseteq PathChar
      BY <1>2, <1>3, <2>1, Zenon DEF is_valid_path, Slash, PathChar
    <3>4. \A k \in (i + 1)..j : r[k] \in PathChar
      BY <3>1, <3>3, PartRange, Zenon
    <3>5. Question \notin PathChar
      BY Zenon DEF Question, PathChar, Alnum
    <3> HIDE DEF t
    <3> QED
      BY <3>2, <3>3, <3>4, <3>5, Zenon
  <2>2. CASE ~(i + 1 <= j)
    <3>1. (i + 1)..j = {}
      BY <1>1, <1>2, <2>2
    <3> QED
      BY <2>2, <3>1, Zenon
  <2> QED
    BY <2>1, <2>2
<1>6. j + 1 <= M => r[j + 1] = Question
  <2> DEFINE t == SubSeq(r, j + 1, M)
  <2>1. j + 1 <= M => t[1] = r[j + 1]
    BY <1>1, <1>2
  <2>2. j + 1 <= M => t[1] = Question
    BY <1>2, <1>3, Zenon DEF is_valid_query, Question
  <2> HIDE DEF t
  <2> QED
    BY <2>1, <2>2, Zenon
<1>7. Slash # Question
  BY Zenon DEF Slash, Question
<1>8. q = IF j + 1 <= M THEN j + 1 ELSE 0
  <2>1. CASE j + 1 <= M
    <3>1. j + 1 \in 1..M /\ \A k \in 1..((j + 1) - 1) : k \in 1..i \/ k \in (i + 1)..j
      BY <1>1, <1>2, <2>1
    <3>2. \A k \in 1..((j + 1) - 1) : r[k] # Question
      BY <1>4, <1>5, <3>1, Zenon
    <3>3. FirstAt(r, {Question}, 1, j + 1)
      BY <1>6, <2>1, <3>1, <3>2, Zenon DEF FirstAt
    <3>4. q = j + 1
      BY <1>1, <3>3, FirstIsUnique, Zenon
    <3> QED
      BY <2>1, <3>4, Zenon
  <2>2. CASE ~(j + 1 <= M)
    <3>1. \A k \in 1..M : k \in 1..i \/ k \in (i + 1)..j
      BY <1>1, <1>2, <2>2
    <3>2. \A k \in 1..M : r[k] # Question
      BY <1>4, <1>5, <3>1, Zenon
    <3>3. FirstAt(r, {Question}, 1, 0)
      BY <3>2, Zenon DEF FirstAt
    <3>4. q = 0
      BY <1>1, <3>3, FirstIsUnique, Zenon
    <3> QED
      BY <2>2, <3>4, Zenon
  <2> QED
    BY <2>1, <2>2
<1>9. i + 1 <= j => p = i + 1
  <2>1. ASSUME i + 1 <= j
        PROVE  p = i + 1
    <3>1. i + 1 \in 1..M /\ \A k \in 1..((i + 1) - 1) : k \in 1..i
      BY <1>1, <1>2, <2>1
    <3>2. \A k \in 1..((i + 1) - 1) : r[k] # Slash
      BY <1>4, <3>1, Zenon
    <3>3. FirstAt(r, {Slash}, 1, i + 1)
      BY <1>5, <2>1, <3>1, <3>2, Zenon DEF FirstAt
    <3> QED
      BY <1>1, <3>3, FirstIsUnique, Zenon
  <2> QED
    BY <2>1
<1>10. i = j => p = 0 \/ (q # 0 /\ q < p)
  <2>1. ASSUME i = j, p # 0
        PROVE  q # 0 /\ q < p
    <3>1. p \in 1..M /\ r[p] = Slash
      BY <2>1, Zenon DEF FirstAt
    <3>2. p \notin 1..i
      BY <1>4, <3>1, Zenon
    <3>3. j + 1 <= M
      BY <1>1, <2>1, <3>1, <3>2
    <3>4. p # j + 1
      BY <1>6, <1>7, <3>1, <3>3, Zenon
    <3>5. q = j + 1
      BY <1>8, <3>3, Zenon
    <3> QED
      BY <1>1, <2>1, <3>1, <3>2, <3>4, <3>5
  <2> QED
    BY <2>1, Zenon
<1> HIDE DEF M
<1>11. CASE q # 0 /\ p # 0 /\ q < p
  BY <1>11
<1>12. CASE ~(q # 0 /\ p # 0 /\ q < p)
  <2>1. (i + 1 <= j /\ p = i + 1) \/ (i = j /\ p = 0)
    <3>1. i + 1 <= j \/ i = j
      BY <1>1, <1>2
    <3> QED
      BY <1>9, <1>10, <1>12, <3>1, Zenon
  <2>2. DomainEnd(r, p, q) = i
    <3>1. DomainEnd(r, p, q) = (IF p # 0 THEN p ELSE IF q # 0 THEN q ELSE M + 1) - 1
      BY Zenon DEF DomainEnd, M
    <3> QED
      BY <1>1, <1>2, <1>8, <2>1, <3>1
  <2>3. (IF q # 0 THEN q - 1 ELSE M) = j
    BY <1>1, <1>2, <1>8
  <2>4. p # 0 => is_valid_path(SubSeq(r, p, IF q # 0 THEN q - 1 ELSE M))
    BY <1>2, <1>3, <2>1, <2>3, Zenon
  <2>5. q # 0 => is_valid_query(SubSeq(r, q, M))
    BY <1>2, <1>3, <1>8, Zenon
  <2> DEFINE h == SubSeq(r, 1, i)
  <2>6. h \in Seq(S) /\ Len(h) = i /\ \A k \in 1..i : h[k] = r[k]
    BY <1>1, <1>2 DEF M
  <2>7. HostName(h)
    BY <1>2, Zenon
  <2> HIDE DEF h
  <2>8. is_valid_domain(h) \/ \E a, b \in 1..i : a < b /\ h[a] = Dot /\ h[b] = Dot
    BY <2>6, <2>7, HostIsDomain, Zenon
  <2>9. CASE is_valid_domain(h)
    BY <2>2, <2>4, <2>5, <2>9, Zenon DEF PartsValid, M, h
  <2>10. CASE \E a, b \in 1..i : a < b /\ h[a] = Dot /\ h[b] = Dot
    <3>1. PICK a \in 1..i, b \in 1..i : a < b /\ h[a] = Dot /\ h[b] = Dot
      BY <2>10
    <3>2. a \in 1..M /\ b \in 1..M /\ \A k \in 1..b : k \in 1..i
      BY <1>1, <1>2
    <3> QED
      BY <1>4, <2>6, <3>1, <3>2, Zenon DEF TwoDots, M
  <2> QED
    BY <2>8, <2>9, <2>10, Zenon
<1> QED
  BY <1>11, <1>12

\* r is what follows place s of u.
IsRest(S, u, s, r) == u \in Seq(S) /\ s \in 1..Len(u) /\ r = SubSeq(u, s + 1, Len(u))

\* The first place after s that holds a member of X, seen in the rest of the text.
FoundInRest(u, s, r, X, p) ==
    FirstAt(r, X, 1, p) /\ Find(u, X, s + 1) = IF p = 0 THEN 0 ELSE s + p

\* A search after place s of u is a search in the rest.
LEMMA FindInRest ==
    ASSUME NEW S, NEW u, NEW s, NEW X, NEW r, IsRest(S, u, s, r)
    PROVE  \E p : FoundInRest(u, s, r, X, p)
<1> SUFFICES ASSUME u \in Seq(S), s \in 1..Len(u), r = SubSeq(u, s + 1, Len(u))
             PROVE  \E p : FoundInRest(u, s, r, X, p)
  BY Zenon DEF IsRest
<1> DEFINE L == Len(u)
           M == L - s
           p == Find(r, X, 1)
           f == IF p = 0 THEN 0 ELSE s + p
<1>1. L \in Nat /\ M \in Nat /\ s \in Nat /\ s + 1 \in Nat /\ 1 <= s + 1 /\ 1 \in Nat
  OBVIOUS
<1>2. r \in Seq(S) /\ Len(r) = M /\ \A k \in 1..M : r[k] = u[s + k]
  OBVIOUS
<1>3. FirstAt(r, X, 1, p)
  BY <1>1, <1>2, FindIs, Zenon
<1> HIDE DEF p
<1>4. \/ p = 0 /\ \A k \in 1..M : r[k] \notin X
      \/ p \in 1..M /\ r[p] \in X /\ \A k \in 1..(p - 1) : r[k] \notin X
  BY <1>2, <1>3, Zenon DEF FirstAt
<1>5. FirstAt(u, X, s + 1, f)
  <2>1. CASE p = 0 /\ \A k \in 1..M : r[k] \notin X
    <3>1. ASSUME NEW k \in (s + 1)..L
          PROVE  u[k] \notin X
      <4> DEFINE h == k - s
      <4>1. h \in 1..M /\ s + h = k
        BY <1>1
      <4> HIDE DEF h
      <4> QED
        BY <1>2, <2>1, <4>1, Zenon
    <3>2. f = 0
      BY <2>1
    <3> QED
      BY <3>1, <3>2, Zenon DEF FirstAt
  <2>2. CASE p \in 1..M /\ r[p] \in X /\ \A k \in 1..(p - 1) : r[k] \notin X
    <3>1. f = s + p /\ s + p \in (s + 1)..L
      BY <1>1, <2>2
    <3>2. u[s + p] \in X
      BY <1>2, <2>2, Zenon
    <3>3. ASSUME NEW k \in (s + 1)..((s + p) - 1)
          PROVE  u[k] \notin X
      <4> DEFINE h == k - s
      <4>1. h \in 1..M /\ h \in 1..(p - 1) /\ s + h = k
        BY <1>1, <2>2
      <4> HIDE DEF h
      <4> QED
        BY <1>2, <2>2, <4>1, Zenon
    <3> HIDE DEF f
    <3> QED
      BY <3>1, <3>2, <3>3, Zenon DEF FirstAt
  <2> QED
    BY <1>4, <2>1, <2>2, Zenon
<1>6. Find(u, X, s + 1) = f
  <2>1. FirstAt(u, X, s + 1, Find(u, X, s + 1))
    BY <1>1, FindIs, Zenon
  <2> HIDE DEF f
  <2> QED
    BY <1>1, <1>5, <2>1, FirstIsUnique, Zenon
<1> QED
  BY <1>3, <1>6, Zenon DEF FoundInRest

\* A part of the rest is a part of the text.
OfRest(S, u, s, r, m, n) ==
    IsRest(S, u, s, r) /\ m \in Nat /\ n \in Int /\ 1 <= m /\ n <= Len(r)
SamePart(u, s, r, m, n) == SubSeq(u, s + m, s + n) = SubSeq(r, m, n)

\* The same part, taken from u or from the rest.
LEMMA PartOfRest ==
    ASSUME NEW S, NEW u, NEW s, NEW r, NEW m, NEW n, OfRest(S, u, s, r, m, n)
    PROVE  SamePart(u, s, r, m, n)
<1> SUFFICES ASSUME u \in Seq(S), s \in 1..Len(u), r = SubSeq(u, s + 1, Len(u)),
                    m \in Nat, n \in Int, 1 <= m, n <= Len(r)
             PROVE  SubSeq(u, s + m, s + n) = SubSeq(r, m, n)
  BY Zenon DEF OfRest, IsRest, SamePart
<1> DEFINE x == SubSeq(u, s + m, s + n)
           y == SubSeq(r, m, n)
<1>1. r \in Seq(S) /\ Len(r) = Len(u) - s /\ \A k \in 1..(Len(u) - s) : r[k] = u[s + k]
  OBVIOUS
<1>2. CASE m <= n
  <2>1. x \in Seq(S) /\ Len(x) = n - m + 1 /\ \A k \in 1..(n - m + 1) : x[k] = u[s + m + k - 1]
    BY <1>1, <1>2
  <2>2. y \in Seq(S) /\ Len(y) = n - m + 1 /\ \A k \in 1..(n - m + 1) : y[k] = r[m + k - 1]
    BY <1>1, <1>2
  <2>3. ASSUME NEW k \in 1..(n - m + 1)
        PROVE  u[s + m + k - 1] = r[m + k - 1]
    <3> DEFINE h == m + k - 1
    <3>1. h \in 1..(Len(u) - s) /\ s + h = s + m + k - 1
      BY <1>1, <1>2
    <3> HIDE DEF h
    <3>2. r[h] = u[s + h]
      BY <1>1, <3>1, Zenon
    <3> QED
      BY <3>1, <3>2, Zenon DEF h
  <2> HIDE DEF x, y
  <2>4. \A k \in 1..(n - m + 1) : x[k] = y[k]
    BY <2>1, <2>2, <2>3, Zenon
  <2>5. Alike(S, x, y)
    BY <2>1, <2>2, <2>4, Zenon DEF Alike
  <2> QED
    BY <2>5, SameSequence, Zenon DEF x, y
<1>3. CASE ~(m <= n)
  BY <1>1, <1>3
<1> QED
  BY <1>2, <1>3

\* is_valid_url looks at the parts of what follows the scheme.
LEMMA ValidUrl ==
    ASSUME NEW S, NEW u, NEW Protocol, NEW s, NEW r,
           Find(u, {Colon}, 1) = s, IsRest(S, u, s, r)
    PROVE  \E p, q :
               /\ FirstAt(r, {Slash}, 1, p) /\ FirstAt(r, {Question}, 1, q)
               /\ is_valid_url(u, Protocol)
                    <=> SubSeq(u, 1, s - 1) \in Protocol /\ PartsValid(r, p, q)
<1> DEFINE L == Len(u)
           M == Len(r)
           path == Find(u, {Slash}, s + 1)
           query == Find(u, {Question}, s + 1)
<1>1. L \in Nat /\ s \in Nat /\ s # 0 /\ r \in Seq(S) /\ M \in Nat /\ M = L - s
  BY DEF IsRest
<1>2. PICK p : FoundInRest(u, s, r, {Slash}, p)
  BY FindInRest, Zenon
<1>3. PICK q : FoundInRest(u, s, r, {Question}, q)
  BY FindInRest, Zenon
<1>4. FirstAt(r, {Slash}, 1, p) /\ path = IF p = 0 THEN 0 ELSE s + p
  BY <1>2, Zenon DEF FoundInRest
<1>5. FirstAt(r, {Question}, 1, q) /\ query = IF q = 0 THEN 0 ELSE s + q
  BY <1>3, Zenon DEF FoundInRest
<1>6. is_valid_url(u, Protocol) <=>
          /\ s # 0
          /\ SubSeq(u, 1, s - 1) \in Protocol
          /\ is_valid_domain(SubSeq(u, s + 1, DomainEnd(u, path, query)))
          /\ path # 0 => is_valid_path(SubSeq(u, path, IF query # 0 THEN query - 1 ELSE L))
          /\ query # 0 => is_valid_query(SubSeq(u, query, L))
  BY Zenon DEF is_valid_url, Slash, Question, Colon
<1> DEFINE d == DomainEnd(r, p, q)
           e == IF q # 0 THEN q - 1 ELSE M
<1>7. d = (IF p # 0 THEN p ELSE IF q # 0 THEN q ELSE M + 1) - 1
  BY Zenon DEF DomainEnd
<1>8. DomainEnd(u, path, query)
          = (IF path # 0 THEN path ELSE IF query # 0 THEN query ELSE L + 1) - 1
  BY Zenon DEF DomainEnd
<1>9. (p = 0 \/ p \in 1..M) /\ (q = 0 \/ q \in 1..M)
  BY <1>4, <1>5, Zenon DEF FirstAt
<1> HIDE DEF path, query, d, L, M
<1>10. /\ path # 0 <=> p # 0
       /\ query # 0 <=> q # 0
  BY <1>1, <1>4, <1>5, <1>9
<1>11. /\ DomainEnd(u, path, query) = s + d
       /\ d \in Int /\ d <= M
       /\ (IF query # 0 THEN query - 1 ELSE L) = s + e
       /\ e \in Int /\ e <= M
  <2> DEFINE du == DomainEnd(u, path, query)
  <2>1. /\ path = IF p = 0 THEN 0 ELSE s + p
        /\ query = IF q = 0 THEN 0 ELSE s + q
        /\ du = (IF path # 0 THEN path ELSE IF query # 0 THEN query ELSE L + 1) - 1
    BY <1>4, <1>5, <1>8, Zenon
  <2>2. L \in Nat /\ s \in Nat /\ s # 0 /\ M \in Nat /\ M = L - s
    BY <1>1
  <2> HIDE DEF du
  <2>3. du = s + d /\ d \in Int /\ d <= M
    BY <1>7, <1>9, <2>1, <2>2
  <2>4. (IF query # 0 THEN query - 1 ELSE L) = s + e /\ e \in Int /\ e <= M
    BY <1>9, <2>1, <2>2
  <2> QED
    BY <2>3, <2>4, Zenon DEF du
<1> HIDE DEF e
<1>12. SubSeq(u, s + 1, s + d) = SubSeq(r, 1, d)
  <2>1. 1 \in Nat /\ 1 <= 1
    OBVIOUS
  <2>2. OfRest(S, u, s, r, 1, d)
    BY <1>11, <2>1, Zenon DEF M, OfRest
  <2>3. SamePart(u, s, r, 1, d)
    BY <2>2, PartOfRest, Zenon
  <2> QED
    BY <2>3, Zenon DEF SamePart
<1>13. p # 0 => path = s + p /\ SubSeq(u, s + p, s + e) = SubSeq(r, p, e)
  <2>1. p # 0 => p \in Nat /\ 1 <= p
    BY <1>1, <1>9
  <2>2. p # 0 => OfRest(S, u, s, r, p, e)
    BY <1>11, <2>1, Zenon DEF M, OfRest
  <2>3. p # 0 => SamePart(u, s, r, p, e)
    BY <2>2, PartOfRest, Zenon
  <2> QED
    BY <1>4, <2>3, Zenon DEF SamePart
<1>14. q # 0 => query = s + q /\ SubSeq(u, s + q, L) = SubSeq(r, q, M)
  <2>1. (q # 0 => q \in Nat /\ 1 <= q) /\ M \in Int /\ M <= M /\ s + M = L
    BY <1>1, <1>9
  <2>2. q # 0 => OfRest(S, u, s, r, q, M)
    BY <2>1, Zenon DEF M, OfRest
  <2>3. q # 0 => SamePart(u, s, r, q, M)
    BY <2>2, PartOfRest, Zenon
  <2> QED
    BY <1>5, <2>1, <2>3, Zenon DEF SamePart
<1>15. /\ is_valid_domain(SubSeq(u, s + 1, DomainEnd(u, path, query)))
            <=> is_valid_domain(SubSeq(r, 1, d))
       /\ p # 0 => (is_valid_path(SubSeq(u, path, IF query # 0 THEN query - 1 ELSE L))
                      <=> is_valid_path(SubSeq(r, p, e)))
       /\ q # 0 => (is_valid_query(SubSeq(u, query, L)) <=> is_valid_query(SubSeq(r, q, M)))
  BY <1>11, <1>12, <1>13, <1>14, Zenon
<1>16. PartsValid(r, p, q) <=>
           /\ is_valid_domain(SubSeq(r, 1, d))
           /\ p # 0 => is_valid_path(SubSeq(r, p, e))
           /\ q # 0 => is_valid_query(SubSeq(r, q, M))
  BY Zenon DEF PartsValid, d, e, M
<1>17. is_valid_url(u, Protocol)
           <=> SubSeq(u, 1, s - 1) \in Protocol /\ PartsValid(r, p, q)
  BY <1>1, <1>6, <1>10, <1>15, <1>16, Zenon
<1> QED
  BY <1>4, <1>5, <1>17, Zenon

\* A text with one "://" at most.
OneScheme(url) == \A i, j \in DOMAIN url : url[i] = "://" /\ url[j] = "://" => i = j

\* is_valid_url accepts exactly the URLs of the grammar, for texts of every length
\* and every set of schemes, unless a '/' stands in a query without a path
\* before it or the host name has two dots.
THEOREM UrlByGrammar ==
    ASSUME NEW u \in Seq(STRING), OneScheme(u),
           \A w \in Protocols : w \in Seq(STRING \ {"/"})
    PROVE  /\ is_valid_url(u, Protocols) => WellFormed(u)
           /\ WellFormed(u) =>
                  is_valid_url(u, Protocols) \/ SlashInQuery(u) \/ Subdomain(u)
<1> DEFINE L == Len(u)
           s0 == Find(u, {Colon}, 1)
           r(s) == SubSeq(u, s + 1, L)
           NoSlash == STRING \ {"/"}
<1>1. L \in Nat /\ DOMAIN u = 1..L /\ 1 \in Nat /\ 1 <= 1
  OBVIOUS
<1>2. FirstAt(u, {Colon}, 1, s0)
  BY <1>1, FindIs, Zenon
<1>3. \A w \in Protocols : w \in Seq(NoSlash)
  BY Zenon
<1>4. Slash \notin NoSlash /\ Colon # Slash
  BY Zenon DEF Slash, Colon
<1>5. \A s \in 1..L : IsRest(STRING, u, s, r(s))
  BY Zenon DEF IsRest
<1>6. \A i, j \in 1..L : u[i] = Colon /\ u[j] = Colon => i = j
  BY <1>1, Zenon DEF OneScheme, Colon
<1> HIDE DEF s0, NoSlash, L, r
<1>7. ASSUME is_valid_url(u, Protocols)
      PROVE  WellFormed(u)
  <2>1. s0 # 0
    BY <1>7, Zenon DEF is_valid_url, s0, Colon
  <2>2. s0 \in 1..L /\ u[s0] = Colon
    BY <1>2, <2>1, Zenon DEF FirstAt, L
  <2>3. IsRest(STRING, u, s0, r(s0))
    BY <1>5, <2>2, Zenon
  <2> DEFINE t == r(s0)
  <2>4. PICK p, q : /\ FirstAt(t, {Slash}, 1, p) /\ FirstAt(t, {Question}, 1, q)
                    /\ is_valid_url(u, Protocols)
                         <=> SubSeq(u, 1, s0 - 1) \in Protocols /\ PartsValid(t, p, q)
    BY <2>3, ValidUrl, Zenon DEF s0
  <2>5. t \in Seq(STRING)
    BY <2>3 DEF IsRest
  <2>6. UrlGrammar(t)
    BY <1>7, <2>4, <2>5, ValidIsGrammatical, Zenon
  <2> QED
    BY <1>1, <1>7, <2>2, <2>4, <2>6, Zenon DEF WellFormed, Colon, r, L
<1>8. ASSUME WellFormed(u)
      PROVE  is_valid_url(u, Protocols) \/ SlashInQuery(u) \/ Subdomain(u)
  <2>1. PICK s \in 1..L : /\ u[s] = Colon
                          /\ SubSeq(u, 1, s - 1) \in Protocols
                          /\ UrlGrammar(r(s))
    BY <1>1, <1>8, Zenon DEF WellFormed, Colon, r, L
  <2> DEFINE t == r(s)
  <2>2. s0 = s
    <3>1. \A k \in 1..(s - 1) : k \in 1..L /\ k # s
      BY <1>1
    <3>2. \A k \in 1..(s - 1) : u[k] # Colon
      BY <1>6, <2>1, <3>1, Zenon
    <3>3. FirstAt(u, {Colon}, 1, s)
      BY <2>1, <3>2, Zenon DEF FirstAt, L
    <3> QED
      BY <1>1, <1>2, <3>3, FirstIsUnique, Zenon
  <2>3. IsRest(STRING, u, s, t)
    BY <1>5, Zenon
  <2>4. PICK p, q : /\ FirstAt(t, {Slash}, 1, p) /\ FirstAt(t, {Question}, 1, q)
                    /\ is_valid_url(u, Protocols)
                         <=> SubSeq(u, 1, s - 1) \in Protocols /\ PartsValid(t, p, q)
    BY <2>2, <2>3, ValidUrl, Zenon DEF s0
  <2>5. t \in Seq(STRING) /\ Len(t) = L - s /\ \A k \in 1..(L - s) : t[k] = u[s + k]
    BY <2>3 DEF IsRest, L
  <2> HIDE DEF t
  <2>6. PartsValid(t, p, q) \/ (q # 0 /\ p # 0 /\ q < p) \/ TwoDots(t)
    BY <2>1, <2>4, <2>5, GrammaticalIsValid, Zenon DEF t
  <2>7. CASE PartsValid(t, p, q)
    BY <2>1, <2>4, <2>7, Zenon
  <2>8. CASE q # 0 /\ p # 0 /\ q < p
    <3> DEFINE M == L - s
    <3>1. /\ p \in 1..M /\ t[p] = Slash /\ \A k \in 1..(p - 1) : t[k] # Slash
          /\ q \in 1..M /\ t[q] = Question
      BY <2>4, <2>5, <2>8, Zenon DEF FirstAt
    <3>2. s + q \in 1..L /\ s + p \in 1..L /\ s + q < s + p
      BY <1>1, <2>8, <3>1
    <3>3. u[s + q] = Question /\ u[s + p] = Slash
      BY <2>5, <3>1, Zenon
    <3>4. ASSUME NEW k \in 1..(s + q)
          PROVE  u[k] # Slash
      <4>1. CASE k \in 1..(s - 1)
        <5> DEFINE w == SubSeq(u, 1, s - 1)
        <5>1. w[k] = u[k] /\ Len(w) = s - 1
          BY <1>1, <4>1 DEF L
        <5>2. w \in Seq(NoSlash)
          BY <1>3, <2>1, Zenon
        <5> HIDE DEF w
        <5>3. w[k] \in NoSlash
          BY <4>1, <5>1, <5>2
        <5> QED
          BY <1>4, <5>1, <5>3, Zenon
      <4>2. CASE k = s
        BY <1>4, <2>1, <4>2, Zenon
      <4>3. CASE k > s
        <5> DEFINE h == k - s
        <5>1. h \in 1..M /\ h \in 1..(p - 1) /\ s + h = k
          BY <1>1, <2>8, <3>1, <3>2, <4>3
        <5> HIDE DEF h
        <5> QED
          BY <2>5, <3>1, <5>1, Zenon
      <4> QED
        BY <1>1, <3>1, <4>1, <4>2, <4>3
    <3>5. SlashInQuery(u)
      BY <1>1, <3>2, <3>3, <3>4, Zenon DEF SlashInQuery, Slash, Question
    <3> QED
      BY <3>5
  <2>9. CASE TwoDots(t)
    <3> DEFINE M == L - s
    <3>1. PICK a \in 1..M, b \in 1..M :
              /\ a < b /\ t[a] = Dot /\ t[b] = Dot
              /\ \A k \in 1..b : t[k] # Slash /\ t[k] # Question
      BY <2>5, <2>9, Zenon DEF TwoDots
    <3>2. s + a \in 1..L /\ s + b \in 1..L /\ s < s + a /\ s + a < s + b
      BY <1>1, <3>1
    <3>3. u[s + a] = Dot /\ u[s + b] = Dot
      BY <2>5, <3>1, Zenon
    <3>4. Colon # Question
      BY Zenon DEF Colon, Question
    <3>5. ASSUME NEW k \in s..(s + b)
          PROVE  u[k] # Slash /\ u[k] # Question
      <4>1. CASE k = s
        BY <1>4, <2>1, <3>4, <4>1, Zenon
      <4>2. CASE k # s
        <5> DEFINE h == k - s
        <5>1. h \in 1..M /\ h \in 1..b /\ s + h = k
          BY <1>1, <4>2
        <5> HIDE DEF h
        <5> QED
          BY <2>5, <3>1, <5>1, Zenon
      <4> QED
        BY <4>1, <4>2
    <3>6. \A k \in s..(s + b) : u[k] \notin {"/", "?"}
      BY <3>5, Zenon DEF Slash, Question
    <3>7. Subdomain(u)
      BY <1>1, <2>1, <3>2, <3>3, <3>6, Zenon DEF Subdomain, Colon, Dot
    <3> QED
      BY <3>7
  <2> QED
    BY <2>6, <2>7, <2>8, <2>9
<1> QED
  BY <1>7, <1>8

-----------------------------------------------------------------------------
(* The inputs of the specification.                                        *)

\* An input is a sequence of what its kind is made of.
InputOK ==
    /\ kind = "query" => input \in Seq(QueryPairs)
    /\ kind = "bytes" => input \in Seq(Bytes)
    /\ kind = "cookies" => input \in Seq(CookieSet)
    /\ kind = "url" => input \in Seq(STRING) /\ OneScheme(input)

\* A token other than "://" leaves a text with one scheme at most.
LEMMA OneSchemeGrows ==
    ASSUME NEW url \in Seq(STRING), OneScheme(url), NEW x \in STRING \ {"://"}
    PROVE  Append(url, x) \in Seq(STRING) /\ OneScheme(Append(url, x))
<1> DEFINE n == Len(url)
           v == Append(url, x)
<1>1. x \in STRING /\ x # Colon
  BY Zenon DEF Colon
<1>2. \A i, j \in DOMAIN url : url[i] = Colon /\ url[j] = Colon => i = j
  BY Zenon DEF OneScheme, Colon
<1>3. /\ n \in Nat /\ DOMAIN url = 1..n /\ v \in Seq(STRING) /\ DOMAIN v = 1..(n + 1)
      /\ v[n + 1] = x /\ \A i \in 1..n : v[i] = url[i]
  <2> DEFINE y == x
  <2>1. y \in STRING
    BY <1>1
  <2> QED
    BY <2>1
<1> HIDE DEF v, n
<1>4. \A i \in 1..(n + 1) : i = n + 1 \/ i \in 1..n
  BY <1>3
<1>5. \A i, j \in DOMAIN v : v[i] = Colon /\ v[j] = Colon => i = j
  BY <1>1, <1>2, <1>3, <1>4, Zenon
<1> QED
  BY <1>3, <1>5, Zenon DEF OneScheme, Colon, v

\* The inputs the specification builds keep that form.
THEOREM InputsTyped == Spec => []InputOK
<1>1. Init => InputOK
  <2> SUFFICES ASSUME Init
               PROVE  InputOK
    OBVIOUS
  <2>1. CASE kind \in {"query", "bytes", "cookies"} /\ input = <<>>
    <3>1. <<>> \in Seq(QueryPairs) /\ <<>> \in Seq(Bytes) /\ <<>> \in Seq(CookieSet)
      OBVIOUS
    <3>2. kind # "url"
      BY <2>1
    <3> QED
      BY <2>1, <3>1, <3>2, Zenon DEF InputOK
  <2>2. CASE kind = "url" /\ input \in UrlStarts
    <3>1. input \in Seq(STRING) /\ OneScheme(input)
      BY <2>2, InputsAssumption, Zenon DEF OneScheme
    <3>2. kind # "query" /\ kind # "bytes" /\ kind # "cookies"
      BY <2>2
    <3> QED
      BY <3>1, <3>2, Zenon DEF InputOK
  <2> QED
    BY <2>1, <2>2, Zenon DEF Init
<1>2. InputOK /\ [Next]_vars => InputOK'
  <2> SUFFICES ASSUME InputOK, [Next]_vars
               PROVE  InputOK'
    OBVIOUS
  <2>0. "query" # "bytes" /\ "query" # "cookies" /\ "query" # "url" /\ "bytes" # "cookies"
        /\ "bytes" # "url" /\ "cookies" # "url"
    OBVIOUS
  <2>1. CASE Grows("query", MaxParams, QueryPairs)
    <3>1. PICK x \in QueryPairs : input' = Append(input, x) /\ kind = "query" /\ kind' = kind
      BY <2>1, Zenon DEF Grows
    <3>2. input \in Seq(QueryPairs)
      BY <3>1, Zenon DEF InputOK
    <3>3. Append(input, x) \in Seq(QueryPairs)
      BY <3>2
    <3> QED
      BY <2>0, <3>1, <3>3, Zenon DEF InputOK
  <2>2. CASE Grows("bytes", MaxBytes, Bytes)
    <3>1. PICK x \in Bytes : input' = Append(input, x) /\ kind = "bytes" /\ kind' = kind
      BY <2>2, Zenon DEF Grows
    <3>2. input \in Seq(Bytes)
      BY <3>1, Zenon DEF InputOK
    <3>3. Append(input, x) \in Seq(Bytes)
      BY <3>2
    <3> QED
      BY <2>0, <3>1, <3>3, Zenon DEF InputOK
  <2>3. CASE Grows("cookies", MaxCookies, CookieSet)
    <3>1. PICK x \in CookieSet : input' = Append(input, x) /\ kind = "cookies" /\ kind' = kind
      BY <2>3, Zenon DEF Grows
    <3>2. input \in Seq(CookieSet)
      BY <3>1, Zenon DEF InputOK
    <3>3. Append(input, x) \in Seq(CookieSet)
      BY <3>2
    <3> QED
      BY <2>0, <3>1, <3>3, Zenon DEF InputOK
  <2>4. CASE Grows("url", MaxUrl, UrlTokens)
    <3>1. PICK x \in UrlTokens : input' = Append(input, x) /\ kind = "url" /\ kind' = kind
      BY <2>4, Zenon DEF Grows
    <3>2. input \in Seq(STRING) /\ OneScheme(input) /\ x \in STRING \ {"://"}
      BY <3>1, InputsAssumption, Zenon DEF InputOK
    <3>3. Append(input, x) \in Seq(STRING) /\ OneScheme(Append(input, x))
      BY <3>2, OneSchemeGrows, Zenon
    <3>4. input' \in Seq(STRING) /\ OneScheme(input)'
      BY <3>1, <3>3, Zenon DEF OneScheme
    <3> QED
      BY <2>0, <3>1, <3>4, Zenon DEF InputOK
  <2>5. CASE UNCHANGED vars
    BY <2>5, Zenon DEF vars, InputOK, OneScheme
  <2> QED
    BY <2>1, <2>2, <2>3, <2>4, <2>5, Zenon DEF Next
<1> QED
  BY <1>1, <1>2, PTL DEF Spec

\* base64url_decode undoes base64url_encode on every input of every length.
THEOREM Base64RoundTrips == Spec => []Base64RoundTrip
<1>1. InputOK => Base64RoundTrip
  <2>1. ASSUME kind = "bytes", input \in Seq(Bytes)
        PROVE  input \in Seq(Byte)
    BY <2>1, InputsAssumption, SeqOfSubset, Zenon
  <2> QED
    BY <2>1, Base64Inverse, Zenon DEF InputOK, Base64RoundTrip
<1> QED
  BY <1>1, InputsTyped, PTL

\* A server reads the pairs that to_query_string was given.
THEOREM QueryRoundTrips == Spec => []QueryRoundTrip
<1>1. InputOK => QueryRoundTrip
  <2>1. ASSUME kind = "query", input \in Seq(QueryPairs)
        PROVE  input \in Seq(Seq(Byte) \X Seq(Byte))
    <3> DEFINE A == QueryPairs
               B == Seq(Byte) \X Seq(Byte)
    <3>1. A \subseteq B
      BY InputsAssumption, Zenon
    <3> HIDE DEF A, B
    <3>2. input \in Seq(A)
      BY <2>1, Zenon DEF A
    <3> QED
      BY <3>1, <3>2, SeqOfSubset, Zenon DEF B
  <2> QED
    BY <2>1, QueryInverse, Zenon DEF InputOK, QueryRoundTrip
<1> QED
  BY <1>1, InputsTyped, PTL

\* parse_cookie finds the cookies of what a server writes and nothing else.
THEOREM CookieRoundTrips == Spec => []CookieRoundTrip
<1>1. InputOK => CookieRoundTrip
  <2>1. ASSUME kind = "cookies", input \in Seq(CookieSet)
        PROVE  /\ input \in Seq(CookieRecords)
               /\ \A i \in DOMAIN input : PlainCookie(input[i])
    <3> DEFINE A == CookieSet
    <3>1. A \subseteq CookieRecords
      BY InputsAssumption, Zenon
    <3>2. \A i \in DOMAIN input : input[i] \in A
      BY <2>1
    <3>3. \A c \in A : PlainCookie(c)
      BY InputsAssumption, Zenon
    <3> HIDE DEF A
    <3>4. input \in Seq(A)
      BY <2>1, Zenon DEF A
    <3>5. input \in Seq(CookieRecords)
      BY <3>1, <3>4, SeqOfSubset, Zenon
    <3> QED
      BY <3>2, <3>3, <3>5, Zenon
  <2> QED
    BY <2>1, CookieInverse, Zenon DEF InputOK, CookieRoundTrip
<1> QED
  BY <1>1, InputsTyped, PTL

\* is_valid_url accepts no text outside the grammar, and the URLs of the grammar
\* but for a '/' in a query that follows the domain directly and for a host name
\* with two dots.
THEOREM UrlsSplit == Spec => []UrlSplits
<1>1. InputOK => UrlSplits
  <2>1. \A w \in Protocols : w \in Seq(STRING \ {"/"})
    BY InputsAssumption, Zenon
  <2> QED
    BY <2>1, UrlByGrammar, Zenon DEF InputOK, UrlSplits
<1> QED
  BY <1>1, InputsTyped, PTL
=============================================================================
