----------------------------- MODULE CodecProofs -----------------------------
(***************************************************************************)
(* The properties of CodecReference hold for messages of any length, for   *)
(* octets of any width, any texts, any lower case and any limit of         *)
(* pointers.                                                               *)
(*                                                                         *)
(* The readers of dns-core and of the RFC are recursive functions.  That   *)
(* they satisfy their equations, and what they give, follows by induction  *)
(* over a measure: the octets that are left and, for a name, the pointers  *)
(* that may still be followed (Induction, Recursion).  The round trip is   *)
(* then shown from the inside out, for labels, names, strings, data,       *)
(* questions and records, sections and messages: the octets written for a  *)
(* thing "carry" what it says, that is, wherever they stand in a message   *)
(* the RFC reads it there.                                                 *)
(***************************************************************************)
EXTENDS CodecReference, SequenceTheorems, WellFoundedInduction, TLAPS

-----------------------------------------------------------------------------
(* Induction and recursion                                                 *)

\* A nonempty set of naturals has a least element.
LEMMA LeastExists ==
  ASSUME NEW S \in SUBSET Nat, S # {}
  PROVE  \E x \in S : \A y \in S : x <= y
<1> DEFINE R == OpToRel(<, Nat)
<1>1. IsWellFoundedOn(R, Nat)
  BY NatLessThanWellFounded, Zenon
<1>2. \A x, y \in Nat : x < y => <<x, y>> \in R
  BY Zenon DEF OpToRel
<1> HIDE DEF R
<1>3. \E x \in S : \A y \in S : ~ (<<y, x>> \in R)
  BY <1>1, WFMin, Zenon
<1>4. PICK x \in S : \A y \in S : ~ (<<y, x>> \in R)
  BY <1>3
<1>5. \A y \in S : ~ (y < x)
  BY <1>2, <1>4
<1> QED BY <1>5

\* Induction over a measure: a set that has every element of D whose smaller
\* elements it has, has all of D.
Inductive(D, mu, S) ==
    /\ \A x \in D : mu[x] \in Nat
    /\ \A x \in D : (\A y \in D : mu[y] < mu[x] => y \in S) => x \in S

LEMMA Induction ==
  ASSUME NEW D, NEW mu, NEW S, Inductive(D, mu, S)
  PROVE  \A x \in D : x \in S
<1> USE DEF Inductive
<1> SUFFICES ASSUME NEW a \in D, a \notin S PROVE FALSE
  OBVIOUS
<1> DEFINE N == {mu[x] : x \in {z \in D : z \notin S}}
<1>1. N \in SUBSET Nat /\ N # {}
  OBVIOUS
<1>2. PICK n \in N : \A k \in N : n <= k
  BY <1>1, LeastExists
<1>3. PICK x \in D : x \notin S /\ mu[x] = n
  BY <1>2
<1>4. \A y \in D : mu[y] < mu[x] => y \in S
  <2> SUFFICES ASSUME NEW y \in D, mu[y] < mu[x], y \notin S PROVE FALSE
    OBVIOUS
  <2>1. mu[y] \in N
    OBVIOUS
  <2>2. n <= mu[y] /\ mu[y] < n
    BY <1>2, <1>3, <2>1
  <2>3. n \in Nat /\ mu[y] \in Nat
    BY <1>1, <2>1
  <2> HIDE DEF N
  <2> QED BY <2>2, <2>3
<1> QED BY <1>3, <1>4

\* What F makes of a function at x depends on the function below x only.
Local(F, D, V, mu) ==
    \A g, h \in [D -> V] : \A x \in D :
        (\A y \in D : mu[y] < mu[x] => g[y] = h[y]) => F[g][x] = F[h][x]

Solvable(F, D, V) == \E f \in [D -> V] : f = F[f]

\* What is defined over D by smaller elements of D is defined: the equation of
\* a recursive function has a solution.
LEMMA Recursion ==
  ASSUME NEW D, NEW V, NEW mu, NEW F, V # {}, mu \in [D -> Nat],
         F \in [[D -> V] -> [D -> V]], Local(F, D, V, mu)
  PROVE  Solvable(F, D, V)
<1> USE DEF Local, Solvable
<1> DEFINE Solves(n, h) == \A x \in D : mu[x] < n => h[x] = F[h][x]
<1>1. \A n \in Nat : \E h \in [D -> V] : Solves(n, h)
  <2> DEFINE S == {n \in Nat : ~ \E h \in [D -> V] : Solves(n, h)}
  <2> SUFFICES ASSUME S # {} PROVE FALSE
    OBVIOUS
  <2>1. PICK n \in S : \A k \in S : n <= k
    BY LeastExists, S \in SUBSET Nat
  <2>2. n # 0
    <3>1. PICK v \in V : TRUE
      OBVIOUS
    <3>2. [x \in D |-> v] \in [D -> V] /\ Solves(0, [x \in D |-> v])
      OBVIOUS
    <3> QED BY <3>2
  <2>3. n - 1 \in Nat /\ n - 1 \notin S
    BY <2>1, <2>2
  <2>4. PICK h \in [D -> V] : Solves(n - 1, h)
    BY <2>3
  <2>5. F[h] \in [D -> V]
    OBVIOUS
  <2>6. ASSUME NEW x \in D, mu[x] < n PROVE F[h][x] = F[F[h]][x]
    <3>1. \A y \in D : mu[y] < mu[x] => mu[y] < n - 1
      BY <2>3, <2>6
    <3>2. \A y \in D : mu[y] < mu[x] => h[y] = F[h][y]
      BY <2>4, <3>1
    <3> QED BY <2>5, <3>2
  <2> QED BY <2>5, <2>6
<1> DEFINE H == [n \in Nat |-> CHOOSE h \in [D -> V] : Solves(n, h)]
           f == [x \in D |-> H[mu[x] + 1][x]]
<1>2. \A n \in Nat : H[n] \in [D -> V] /\ Solves(n, H[n])
  BY <1>1
<1> HIDE DEF H
<1>3. \A x \in D : \A n, k \in Nat : mu[x] < n /\ mu[x] < k => H[n][x] = H[k][x]
  <2> DEFINE S == {x \in D : \A n, k \in Nat : mu[x] < n /\ mu[x] < k => H[n][x] = H[k][x]}
  <2>1. ASSUME NEW x \in D, \A y \in D : mu[y] < mu[x] => y \in S
        PROVE  x \in S
    <3> SUFFICES ASSUME NEW n \in Nat, NEW k \in Nat, mu[x] < n, mu[x] < k
                 PROVE  H[n][x] = H[k][x]
      OBVIOUS
    <3>1. \A y \in D : mu[y] < mu[x] => mu[y] < n /\ mu[y] < k
      OBVIOUS
    <3>2. \A y \in D : mu[y] < mu[x] => H[n][y] = H[k][y]
      BY <2>1, <3>1
    <3>3. F[H[n]][x] = F[H[k]][x]
      BY <1>2, <3>2
    <3> QED BY <1>2, <3>3
  <2> HIDE DEF S
  <2>2. \A x \in D : x \in S
    <3>1. Inductive(D, mu, S)
      BY <2>1 DEF Inductive
    <3> QED BY <3>1, Induction
  <2> QED BY <2>2 DEF S
<1>4. f \in [D -> V]
  BY <1>2
<1>5. ASSUME NEW x \in D PROVE f[x] = F[f][x]
  <2>1. mu[x] + 1 \in Nat /\ mu[x] < mu[x] + 1
    OBVIOUS
  <2>2. ASSUME NEW y \in D, mu[y] < mu[x] PROVE H[mu[x] + 1][y] = f[y]
    <3>1. mu[y] + 1 \in Nat /\ mu[y] < mu[y] + 1 /\ mu[y] < mu[x] + 1
      BY <2>2
    <3> QED BY <1>3, <2>1, <3>1
  <2> HIDE DEF f
  <2>3. F[H[mu[x] + 1]][x] = F[f][x]
    BY <1>2, <1>4, <2>1, <2>2
  <2>4. f[x] = H[mu[x] + 1][x]
    BY DEF f
  <2> QED BY <1>2, <2>1, <2>3, <2>4
<1>6. F[f] \in [D -> V]
  BY <1>4
<1>7. f = F[f]
  BY <1>4, <1>5, <1>6
<1> QED BY <1>4, <1>7

\* Induction over the naturals, with a set for the predicate.
LEMMA CountingUp ==
  ASSUME NEW S, 0 \in S, ASSUME NEW n \in Nat, n \in S PROVE n + 1 \in S
  PROVE  \A n \in Nat : n \in S
<1> DEFINE mu == [n \in Nat |-> n]
<1>1. ASSUME NEW n \in Nat, \A k \in Nat : mu[k] < mu[n] => k \in S
      PROVE  n \in S
  <2>1. CASE n = 0
    BY <2>1
  <2>2. CASE n # 0
    <3>1. n - 1 \in Nat /\ mu[n - 1] < mu[n] /\ n = (n - 1) + 1
      BY <2>2
    <3> QED BY <1>1, <3>1
  <2> QED BY <2>1, <2>2
<1>2. \A n \in Nat : mu[n] \in Nat
  OBVIOUS
<1> HIDE DEF mu
<1>5. Inductive(Nat, mu, S)
  BY <1>1, <1>2 DEF Inductive
<1> QED BY <1>5, Induction

-----------------------------------------------------------------------------
(* FlattenSeq                                                              *)

Flattened(s) ==
    CHOOSE flatten : flatten = [i \in 1 .. Len(s) |->
                                   IF i = 1 THEN s[i] ELSE flatten[i - 1] \o s[i]]

LEMMA FlattenedIs ==
  ASSUME NEW S, NEW s \in Seq(Seq(S))
  PROVE  /\ FlattenSeq(s) = IF Len(s) = 0 THEN s ELSE Flattened(s)[Len(s)]
         /\ \A i \in 1 .. Len(s) :
               /\ Flattened(s)[i] = IF i = 1 THEN s[i] ELSE Flattened(s)[i - 1] \o s[i]
               /\ Flattened(s)[i] \in Seq(S)
<1> DEFINE D == 1 .. Len(s)
           V == Seq(S)
           mu == [i \in D |-> i]
           Step(f, i) == IF i = 1 THEN s[i] ELSE f[i - 1] \o s[i]
           F == [f \in [D -> V] |-> [i \in D |-> Step(f, i)]]
           fl == Flattened(s)
<1>1. FlattenSeq(s) = IF Len(s) = 0 THEN s ELSE fl[Len(s)]
  BY DEF FlattenSeq, Flattened
<1>2. Len(s) \in Nat /\ mu \in [D -> Nat] /\ \A i \in D : s[i] \in V
  BY LenProperties, ElementOfSeq
<1>3. ASSUME NEW f, NEW i \in D, \A k \in D : mu[k] < mu[i] => f[k] \in V
      PROVE  Step(f, i) \in V
  <2>1. CASE i = 1
    BY <1>2, <2>1
  <2>2. CASE i # 1
    <3>1. i - 1 \in D /\ mu[i - 1] < mu[i]
      BY <1>2, <2>2
    <3>2. f[i - 1] \in V /\ s[i] \in V
      BY <1>2, <1>3, <3>1
    <3>3. f[i - 1] \o s[i] \in V
      BY <3>2, ConcatProperties
    <3> QED BY <2>2, <3>3
  <2> QED BY <2>1, <2>2
<1>4. ASSUME NEW g, NEW h, NEW i \in D, \A k \in D : mu[k] < mu[i] => g[k] = h[k]
      PROVE  Step(g, i) = Step(h, i)
  <2>1. i # 1 => i - 1 \in D /\ mu[i - 1] < mu[i]
    BY <1>2
  <2> QED BY <1>4, <2>1
<1> HIDE DEF mu, V, Step
<1>5. F \in [[D -> V] -> [D -> V]]
  BY <1>3
<1>6. Local(F, D, V, mu)
  BY <1>4 DEF Local
<1>7. V # {}
  BY EmptySeq DEF V
<1>8. Solvable(F, D, V)
  <2> HIDE DEF F, D
  <2> QED BY <1>2, <1>5, <1>6, <1>7, Recursion, Zenon
<1>9. \E f : f = [i \in D |-> Step(f, i)]
  BY <1>8 DEF Solvable
<1>10. fl = [i \in D |-> Step(fl, i)]
  BY <1>9 DEF Flattened, Step
<1> HIDE DEF fl, F
<1>11. \A i \in D : fl[i] = Step(fl, i)
  BY <1>10
<1>12. \A i \in D : fl[i] \in V
  <2> DEFINE T == {i \in D : fl[i] \in V}
  <2>1. ASSUME NEW i \in D, \A k \in D : mu[k] < mu[i] => k \in T
        PROVE  i \in T
    BY <1>3, <1>11, <2>1
  <2>2. \A i \in D : mu[i] \in Nat
    BY <1>2
  <2> HIDE DEF T, D, mu
  <2>3. \A i \in D : i \in T
    <3>1. Inductive(D, mu, T)
      BY <2>1, <2>2 DEF Inductive
    <3> QED BY <3>1, Induction
  <2> QED BY <2>3 DEF T
<1> QED BY <1>1, <1>11, <1>12 DEF fl, V, Step

LEMMA FlattenType ==
  ASSUME NEW S, NEW s \in Seq(Seq(S))
  PROVE  FlattenSeq(s) \in Seq(S)
<1>1. Len(s) \in Nat /\ (Len(s) = 0 => s = <<>>)
  BY LenProperties, EmptySeq
<1> QED BY <1>1, FlattenedIs, EmptySeq

LEMMA FlattenEmpty == FlattenSeq(<<>>) = <<>>
BY DEF FlattenSeq

LEMMA FlattenOne ==
  ASSUME NEW S, NEW x \in Seq(S)
  PROVE  FlattenSeq(<<x>>) = x
<1>1. <<x>> \in Seq(Seq(S)) /\ Len(<<x>>) = 1 /\ <<x>>[1] = x /\ 1 \in 1 .. 1
  OBVIOUS
<1> DEFINE t == <<x>>
<1> HIDE DEF t
<1>2. t \in Seq(Seq(S)) /\ Len(t) = 1 /\ t[1] = x
  BY <1>1 DEF t
<1>3. FlattenSeq(t) = Flattened(t)[1] /\ Flattened(t)[1] = t[1]
  BY <1>2, FlattenedIs
<1> QED BY <1>2, <1>3 DEF t

\* The first first, then the rest.
LEMMA FlattenFirst ==
  ASSUME NEW S, NEW x \in Seq(S), NEW s \in Seq(Seq(S))
  PROVE  FlattenSeq(<<x>> \o s) = x \o FlattenSeq(s)
<1> DEFINE t == <<x>> \o s
           n == Len(s)
<1>1. /\ t \in Seq(Seq(S)) /\ n \in Nat /\ Len(t) = n + 1 /\ t[1] = x
      /\ \A i \in 1 .. n : t[i + 1] = s[i]
  <2>1. <<x>> \in Seq(Seq(S)) /\ Len(<<x>>) = 1 /\ <<x>>[1] = x
    OBVIOUS
  <2>2. /\ t \in Seq(Seq(S)) /\ Len(t) = 1 + n
        /\ \A i \in 1 .. 1 + n : t[i] = IF i <= 1 THEN <<x>>[i] ELSE s[i - 1]
    BY <2>1, ConcatProperties
  <2>3. n \in Nat
    BY LenProperties
  <2> HIDE DEF t, n
  <2>4. ASSUME NEW i \in 1 .. n PROVE t[i + 1] = s[i]
    <3>1. i + 1 \in 1 .. 1 + n /\ ~(i + 1 <= 1) /\ (i + 1) - 1 = i
      BY <2>3
    <3> QED BY <2>2, <3>1
  <2>5. t[1] = x
    BY <2>1, <2>2, <2>3
  <2> QED BY <2>2, <2>3, <2>4, <2>5
<1> HIDE DEF t, n
<1>2. CASE n = 0
  <2>1. s = <<>>
    BY <1>2, EmptySeq DEF n
  <2>2. t = <<x>>
    BY <2>1 DEF t
  <2>3. FlattenSeq(t) = x /\ x \o FlattenSeq(s) = x
    BY <2>1, <2>2, FlattenOne, FlattenEmpty, ConcatEmptySeq
  <2> QED BY <2>3 DEF t
<1>3. CASE n # 0
  <2> DEFINE f == Flattened(s)
             g == Flattened(t)
             Q == {k \in Nat : k \in 1 .. n => g[k + 1] = x \o f[k]}
  <2>1. \A i \in 1 .. n : s[i] \in Seq(S)
    BY ElementOfSeq DEF n
  <2>2. \A i \in 1 .. n : /\ f[i] = IF i = 1 THEN s[i] ELSE f[i - 1] \o s[i]
                          /\ f[i] \in Seq(S)
    BY FlattenedIs DEF n
  <2>3. \A i \in 1 .. n + 1 : g[i] = IF i = 1 THEN t[i] ELSE g[i - 1] \o t[i]
    <3> DEFINE k == n + 1
    <3>1. t \in Seq(Seq(S)) /\ Len(t) = k
      BY <1>1
    <3> HIDE DEF k
    <3>2. \A i \in 1 .. k : g[i] = IF i = 1 THEN t[i] ELSE g[i - 1] \o t[i]
      BY <3>1, FlattenedIs
    <3> QED BY <3>2 DEF k
  <2>4. FlattenSeq(s) = f[n] /\ FlattenSeq(t) = g[n + 1]
    <3>1. FlattenSeq(s) = f[n]
      BY <1>3, FlattenedIs DEF n
    <3>2. Len(t) # 0
      BY <1>1
    <3>3. FlattenSeq(t) = g[Len(t)]
      BY <1>1, <3>2, FlattenedIs
    <3> QED BY <1>1, <3>1, <3>3
  <2> HIDE DEF f, g
  <2>10. \A y, z \in Seq(S) : x \o (y \o z) = (x \o y) \o z
    BY ConcatAssociative
  <2>5. ASSUME NEW k \in Nat, k \in Q PROVE k + 1 \in Q
    <3> SUFFICES ASSUME k + 1 \in 1 .. n
                 PROVE  g[(k + 1) + 1] = x \o f[k + 1]
      OBVIOUS
    <3> DEFINE i == k + 1
               j == i + 1
    <3>1. i \in 1 .. n /\ j \in 1 .. n + 1 /\ j # 1 /\ j - 1 = i /\ i - 1 = k
      BY <1>1
    <3>2. t[j] = s[i]
      BY <1>1, <3>1
    <3>3. CASE k = 0
      <4>1. i = 1 /\ j = 2 /\ 1 \in 1 .. n + 1
        BY <1>1, <3>3
      <4> HIDE DEF i, j
      <4>2. f[i] = s[i] /\ g[1] = x /\ g[j] = g[i] \o t[j]
        BY <1>1, <2>2, <2>3, <3>1, <4>1
      <4>3. g[j] = x \o f[i]
        BY <3>2, <4>1, <4>2
      <4> QED BY <4>3 DEF i, j
    <3>4. CASE k # 0
      <4>1. k \in 1 .. n /\ i # 1
        BY <1>1, <3>4
      <4>2. g[i] = x \o f[k]
        BY <2>5, <4>1
      <4> HIDE DEF i, j
      <4>3. f[i] = f[k] \o s[i] /\ g[j] = g[i] \o t[j]
        BY <2>2, <2>3, <3>1, <4>1
      <4>4. f[k] \in Seq(S) /\ s[i] \in Seq(S)
        BY <2>1, <2>2, <3>1, <4>1
      <4>5. x \o (f[k] \o s[i]) = (x \o f[k]) \o s[i]
        BY <2>10, <4>4
      <4>6. g[j] = x \o f[i]
        BY <3>2, <4>2, <4>3, <4>5
      <4> QED BY <4>6 DEF i, j
    <3> QED BY <3>3, <3>4
  <2>6. 0 \in Q
    BY <1>1
  <2> HIDE DEF Q
  <2>7. \A k \in Nat : k \in Q
    BY <2>5, <2>6, CountingUp
  <2>8. n \in 1 .. n
    BY <1>1, <1>3
  <2>9. g[n + 1] = x \o f[n]
    BY <1>1, <2>7, <2>8 DEF Q
  <2> QED BY <2>4, <2>9 DEF t
<1> QED BY <1>2, <1>3

-----------------------------------------------------------------------------
(* Octets                                                                  *)

Octets == 0 .. Octet - 1
Texts == Seq(Octets)

LEMMA OctetsOf ==
  ASSUME NEW m \in Texts, NEW p \in Nat, NEW n \in Nat, Has(m, p, n)
  PROVE  /\ Slice(m, p, n) \in Texts
         /\ Len(Slice(m, p, n)) = n
         /\ \A i \in 1 .. n : Slice(m, p, n)[i] = m[p + i]
         /\ n > 0 => OctetAt(m, p) \in Octets
<1>1. \A i \in p + 1 .. p + n : m[i] \in Octets
  BY ElementOfSeq DEF Has, Texts
<1>2. SubSeq(m, p + 1, p + n) \in Seq(Octets)
      /\ Len(SubSeq(m, p + 1, p + n)) = (IF p + 1 <= p + n THEN p + n - (p + 1) + 1 ELSE 0)
      /\ \A i \in 1 .. p + n - (p + 1) + 1 : SubSeq(m, p + 1, p + n)[i] = m[p + 1 + i - 1]
  BY <1>1, SubSeqProperties
<1>3. p + n - (p + 1) + 1 = n /\ \A i \in 1 .. n : p + 1 + i - 1 = p + i
  OBVIOUS
<1> QED BY <1>1, <1>2, <1>3 DEF Slice, Texts, OctetAt

LEMMA LowerCaseType ==
  ASSUME NEW s \in Texts
  PROVE  LowerCase(s) \in Texts /\ Len(LowerCase(s)) = Len(s)
<1>1. \A i \in 1 .. Len(s) : LowerOctet[s[i]] \in Octets
  BY CodecAssumption, ElementOfSeq DEF Texts, Octets
<1> QED BY <1>1 DEF LowerCase, Texts

LEMMA PointerType ==
  ASSUME NEW a \in Octets, NEW b \in Octets
  PROVE  PointerTo(a, b) \in Nat
<1>1. Octet \div 4 \in Nat /\ Octet \div 4 > 0
  BY CodecAssumption
<1>2. a % (Octet \div 4) \in Nat
  BY <1>1 DEF Octets
<1> QED BY <1>2, CodecAssumption DEF PointerTo, Octets

-----------------------------------------------------------------------------
(* read_domain_name                                                        *)

Labels == Seq(Texts)
NameResults == {Err} \union [ok : {"ok"}, value : Labels, next : Nat]

\* What read_domain_name does at an offset, r being what it does elsewhere.
NameStep(r, m, x) ==
    LET p == x[1]
        jumps == x[2]
        b == OctetAt(m, p)
        label == Slice(m, p + 1, b)
    IN  IF jumps > MaxJumps \/ ~Has(m, p, 1) THEN Err
        ELSE IF b = 0 THEN Ok(<<>>, p + 1)
        ELSE IF IsPointer(b)
        THEN IF Has(m, p, 2)
             THEN r[<<PointerTo(b, OctetAt(m, p + 1)), jumps + 1>>]
             ELSE Err
        ELSE IF Has(m, p + 1, b) /\ ToSet(label) \intersect NotUtf8 = {}
             THEN Before(LowerCase(label), r[<<p + 1 + b, jumps>>])
             ELSE Err

\* Every label brings the end of the message nearer, every pointer the limit.
NameMeasure(m) ==
    [x \in Nat \X Nat |->
        IF x[2] > MaxJumps \/ x[1] >= Len(m) THEN 0
        ELSE (MaxJumps + 1 - x[2]) * (Len(m) + 1) + (Len(m) - x[1])]

NameReader(m) ==
    CHOOSE read : read = [x \in Nat \X Nat |-> NameStep(read, m, x)]

LEMMA ReaderOfNames ==
  ASSUME NEW m, NEW start
  PROVE  ReadName(m, start) = NameReader(m)[<<start, 0>>]
BY DEF ReadName, NameReader, NameStep

LEMMA MeasureFalls ==
  ASSUME NEW m \in Texts, NEW p \in Nat, NEW j \in Nat, j <= MaxJumps, p < Len(m)
  PROVE  /\ NameMeasure(m) \in [Nat \X Nat -> Nat]
         /\ \A q \in Nat : p < q => NameMeasure(m)[<<q, j>>] < NameMeasure(m)[<<p, j>>]
         /\ \A q \in Nat : NameMeasure(m)[<<q, j + 1>>] < NameMeasure(m)[<<p, j>>]
<1> DEFINE K == Len(m) + 1
           M(k, q) == (MaxJumps + 1 - k) * K + (Len(m) - q)
<1>1. MaxJumps \in Nat /\ Len(m) \in Nat /\ K \in Nat
  BY CodecAssumption, LenProperties DEF Texts
<1>2. \A k, q \in Nat : k <= MaxJumps /\ q < Len(m) => M(k, q) \in Nat /\ M(k, q) > 0
  <2> SUFFICES ASSUME NEW k \in Nat, NEW q \in Nat, k <= MaxJumps, q < Len(m)
               PROVE  M(k, q) \in Nat /\ M(k, q) > 0
    OBVIOUS
  <2>1. MaxJumps + 1 - k \in Nat /\ Len(m) - q \in Nat /\ Len(m) - q > 0
    BY <1>1
  <2>2. (MaxJumps + 1 - k) * K \in Nat
    BY <1>1, <2>1
  <2> QED BY <2>1, <2>2
<1>3. ASSUME j + 1 <= MaxJumps, NEW q \in Nat, q < Len(m) PROVE M(j + 1, q) < M(j, p)
  <2> DEFINE a == MaxJumps + 1 - (j + 1)
  <2>1. a \in Nat /\ MaxJumps + 1 - j = a + 1
    BY <1>1
  <2>2. (a + 1) * K = a * K + K /\ a * K \in Nat
    BY <1>1, <2>1
  <2> DEFINE b == a * K
  <2>3. M(j + 1, q) = b + (Len(m) - q) /\ M(j, p) = b + K + (Len(m) - p)
    BY <2>1, <2>2
  <2>4. b \in Nat
    BY <2>2
  <2> HIDE DEF a, b, M
  <2> QED BY <1>1, <1>3, <2>3, <2>4
<1>4. \A x \in Nat \X Nat : NameMeasure(m)[x] \in Nat
  <2> SUFFICES ASSUME NEW x \in Nat \X Nat PROVE NameMeasure(m)[x] \in Nat
    OBVIOUS
  <2>1. PICK k \in Nat, q \in Nat : x = <<q, k>>
    OBVIOUS
  <2> HIDE DEF M
  <2>2. k <= MaxJumps /\ q < Len(m) => M(k, q) \in Nat
    BY <1>2
  <2> QED BY <1>1, <2>1, <2>2 DEF NameMeasure, M
<1>5. NameMeasure(m) \in [Nat \X Nat -> Nat]
  BY <1>4 DEF NameMeasure
<1>6. \A q, k \in Nat : NameMeasure(m)[<<q, k>>] =
          IF k > MaxJumps \/ q >= Len(m) THEN 0 ELSE M(k, q)
  BY DEF NameMeasure
<1>7. ASSUME NEW q \in Nat, p < q PROVE NameMeasure(m)[<<q, j>>] < NameMeasure(m)[<<p, j>>]
  <2>1. (MaxJumps + 1 - j) * K \in Nat
    BY <1>1
  <2>2. M(j, q) < M(j, p)
    BY <1>1, <1>7, <2>1
  <2>3. M(j, p) > 0
    BY <1>2
  <2> HIDE DEF M
  <2> QED BY <1>1, <1>6, <2>2, <2>3
<1>8. ASSUME NEW q \in Nat PROVE NameMeasure(m)[<<q, j + 1>>] < NameMeasure(m)[<<p, j>>]
  <2> HIDE DEF M
  <2> QED BY <1>1, <1>2, <1>3, <1>6, <1>8
<1> QED BY <1>5, <1>7, <1>8

LEMMA LengthOf ==
  ASSUME NEW m \in Texts
  PROVE  Len(m) \in Nat /\ MaxJumps \in Nat /\ DOMAIN m = 1 .. Len(m)
BY CodecAssumption, LenProperties DEF Texts

\* Where the octets at an offset send read_domain_name is nearer to the end.
LEMMA NameStepLocal ==
  ASSUME NEW m \in Texts, NEW p \in Nat, NEW j \in Nat, NEW g, NEW h,
         \A q, k \in Nat : NameMeasure(m)[<<q, k>>] < NameMeasure(m)[<<p, j>>]
                              => g[<<q, k>>] = h[<<q, k>>]
  PROVE  NameStep(g, m, <<p, j>>) = NameStep(h, m, <<p, j>>)
<1> DEFINE b == OctetAt(m, p)
           label == Slice(m, p + 1, b)
<1>0. Len(m) \in Nat /\ MaxJumps \in Nat
  BY LengthOf
<1>1. CASE j > MaxJumps \/ ~Has(m, p, 1)
  BY <1>1 DEF NameStep
<1>2. CASE j <= MaxJumps /\ Has(m, p, 1)
  <2>1. p < Len(m) /\ b \in Octets
    BY <1>0, <1>2, OctetsOf DEF Has
  <2>2. ASSUME Has(m, p, 2)
        PROVE  g[<<PointerTo(b, OctetAt(m, p + 1)), j + 1>>]
                 = h[<<PointerTo(b, OctetAt(m, p + 1)), j + 1>>]
    <3>1. OctetAt(m, p + 1) \in Octets
      BY <1>0, <2>2, OctetsOf, Has(m, p + 1, 1) DEF Has
    <3>2. PointerTo(b, OctetAt(m, p + 1)) \in Nat
      BY <2>1, <3>1, PointerType
    <3> QED BY <1>2, <2>1, <3>2, MeasureFalls
  <2>3. g[<<p + 1 + b, j>>] = h[<<p + 1 + b, j>>]
    <3>1. p + 1 + b \in Nat /\ p < p + 1 + b
      BY <2>1, CodecAssumption DEF Octets
    <3> QED BY <1>2, <2>1, <3>1, MeasureFalls
  <2> QED BY <2>2, <2>3 DEF NameStep
<1> QED BY <1>0, <1>1, <1>2

LEMMA NameStepType ==
  ASSUME NEW m \in Texts, NEW p \in Nat, NEW j \in Nat, NEW r,
         \A q, k \in Nat : NameMeasure(m)[<<q, k>>] < NameMeasure(m)[<<p, j>>]
                              => r[<<q, k>>] \in NameResults
  PROVE  NameStep(r, m, <<p, j>>) \in NameResults
<1> DEFINE b == OctetAt(m, p)
           label == Slice(m, p + 1, b)
<1>0. Len(m) \in Nat /\ MaxJumps \in Nat /\ Err \in NameResults
  BY LengthOf DEF NameResults
<1>1. CASE j > MaxJumps \/ ~Has(m, p, 1)
  BY <1>0, <1>1 DEF NameStep
<1>2. CASE j <= MaxJumps /\ Has(m, p, 1)
  <2>1. p < Len(m) /\ b \in Octets /\ b \in Nat
    BY <1>0, <1>2, OctetsOf, CodecAssumption DEF Has, Octets
  <2>2. ASSUME Has(m, p, 2)
        PROVE  r[<<PointerTo(b, OctetAt(m, p + 1)), j + 1>>] \in NameResults
    <3>1. OctetAt(m, p + 1) \in Octets
      BY <1>0, <2>2, OctetsOf, Has(m, p + 1, 1) DEF Has
    <3>2. PointerTo(b, OctetAt(m, p + 1)) \in Nat
      BY <2>1, <3>1, PointerType
    <3> QED BY <1>2, <2>1, <3>2, MeasureFalls
  <2>3. r[<<p + 1 + b, j>>] \in NameResults
    <3>1. p + 1 + b \in Nat /\ p < p + 1 + b
      BY <2>1
    <3> QED BY <1>2, <2>1, <3>1, MeasureFalls
  <2>4. Ok(<<>>, p + 1) \in NameResults
    BY DEF NameResults, Ok, Labels
  <2>5. ASSUME Has(m, p + 1, b)
        PROVE  Before(LowerCase(label), r[<<p + 1 + b, j>>]) \in NameResults
    <3>1. LowerCase(label) \in Texts
      BY <2>1, <2>5, OctetsOf, LowerCaseType
    <3> HIDE DEF b, label
    <3>2. CASE r[<<p + 1 + b, j>>] = Err
      BY <1>0, <3>2 DEF Before, Then, Err
    <3>3. CASE r[<<p + 1 + b, j>>] \in [ok : {"ok"}, value : Labels, next : Nat]
      <4>1. PICK v \in Labels, n \in Nat : r[<<p + 1 + b, j>>] = Ok(v, n)
        BY <3>3 DEF Ok
      <4>2. <<LowerCase(label)>> \o v \in Labels
        BY <3>1 DEF Labels
      <4>3. Before(LowerCase(label), r[<<p + 1 + b, j>>]) = Ok(<<LowerCase(label)>> \o v, n)
        BY <4>1 DEF Before, Then, Ok
      <4> QED BY <4>2, <4>3 DEF NameResults, Ok
    <3> QED BY <2>3, <3>2, <3>3 DEF NameResults
  <2> QED BY <1>0, <2>2, <2>4, <2>5 DEF NameStep
<1> QED BY <1>0, <1>1, <1>2

\* The equation that defines read_domain_name has a solution.
LEMMA NamesRead ==
  ASSUME NEW m \in Texts, NEW p \in Nat, NEW j \in Nat
  PROVE  /\ NameReader(m)[<<p, j>>] = NameStep(NameReader(m), m, <<p, j>>)
         /\ NameReader(m)[<<p, j>>] \in NameResults
<1> DEFINE D == Nat \X Nat
           V == NameResults
           mu == NameMeasure(m)
           F == [f \in [D -> V] |-> [x \in D |-> NameStep(f, m, x)]]
           read == NameReader(m)
<1>1. mu \in [D -> Nat]
  <2>1. \A x \in D : mu[x] \in Nat
    <3>1. \A q, k \in Nat : (MaxJumps + 1 - k) * (Len(m) + 1) \in Int
      BY LengthOf
    <3>2. ASSUME NEW q \in Nat, NEW k \in Nat, k <= MaxJumps, q < Len(m)
          PROVE  (MaxJumps + 1 - k) * (Len(m) + 1) + (Len(m) - q) \in Nat
      <4>1. MaxJumps + 1 - k \in Nat /\ Len(m) + 1 \in Nat /\ Len(m) - q \in Nat
        BY <3>2, LengthOf
      <4>2. (MaxJumps + 1 - k) * (Len(m) + 1) \in Nat
        BY <4>1
      <4> QED BY <4>1, <4>2
    <3> QED BY <3>2, LengthOf DEF NameMeasure
  <2> QED BY <2>1 DEF NameMeasure
<1>2. ASSUME NEW f, NEW x \in D, \A y \in D : mu[y] < mu[x] => f[y] \in V
      PROVE  NameStep(f, m, x) \in V
  <2>1. PICK q \in Nat, k \in Nat : x = <<q, k>>
    OBVIOUS
  <2>2. \A a, b \in Nat : mu[<<a, b>>] < mu[<<q, k>>] => f[<<a, b>>] \in V
    BY <1>2, <2>1
  <2> HIDE DEF mu, V
  <2> QED BY <2>1, <2>2, NameStepType DEF mu, V
<1>3. ASSUME NEW g, NEW h, NEW x \in D, \A y \in D : mu[y] < mu[x] => g[y] = h[y]
      PROVE  NameStep(g, m, x) = NameStep(h, m, x)
  <2>1. PICK q \in Nat, k \in Nat : x = <<q, k>>
    OBVIOUS
  <2>2. \A a, b \in Nat : mu[<<a, b>>] < mu[<<q, k>>] => g[<<a, b>>] = h[<<a, b>>]
    BY <1>3, <2>1
  <2> HIDE DEF mu
  <2> QED BY <2>1, <2>2, NameStepLocal DEF mu
<1> HIDE DEF mu, V
<1>4. F \in [[D -> V] -> [D -> V]]
  BY <1>2
<1>5. Local(F, D, V, mu)
  BY <1>3 DEF Local
<1>6. V # {}
  BY DEF V, NameResults
<1>7. Solvable(F, D, V)
  <2> HIDE DEF F, D
  <2> QED BY <1>1, <1>4, <1>5, <1>6, Recursion, Zenon
<1>8. \E f : f = [x \in D |-> NameStep(f, m, x)]
  BY <1>7 DEF Solvable
<1>9. read = [x \in D |-> NameStep(read, m, x)]
  BY <1>8 DEF NameReader
<1> HIDE DEF read, F
<1>10. \A x \in D : read[x] = NameStep(read, m, x)
  BY <1>9
<1>11. \A x \in D : read[x] \in V
  <2> DEFINE S == {x \in D : read[x] \in V}
  <2>1. ASSUME NEW x \in D, \A y \in D : mu[y] < mu[x] => y \in S
        PROVE  x \in S
    BY <1>2, <1>10, <2>1
  <2>2. \A x \in D : mu[x] \in Nat
    BY <1>1
  <2> HIDE DEF S, D, mu
  <2>3. \A x \in D : x \in S
    <3>1. Inductive(D, mu, S)
      BY <2>1, <2>2 DEF Inductive
    <3> QED BY <3>1, Induction
  <2> QED BY <2>3 DEF S
<1>12. <<p, j>> \in D
  OBVIOUS
<1> QED BY <1>10, <1>11, <1>12 DEF read, V

-----------------------------------------------------------------------------
(* The names of RFC 1035                                                   *)

NameItems == {No} \union [good : {TRUE}, says : Labels, end : Nat]

\* What the RFC says of an offset, r being what it says of others.
LabelStep(r, m, x) ==
    LET q == x[1]
        left == x[2]
        b == OctetAt(m, q)
    IN  IF q >= Len(m) THEN No
        ELSE IF b = 0 THEN Item(<<>>, q + 1)
        ELSE IF Points(b) /\ left > 0 /\ q + 1 < Len(m)
        THEN Given(r[<<PointerTo(b, OctetAt(m, q + 1)), left - 1>>],
                LAMBDA name, e : Item(name, q + 2))
        ELSE IF OpensLabel(b) /\ q + b < Len(m)
                /\ ToSet(Slice(m, q + 1, b)) \intersect NotUtf8 = {}
        THEN FirstThen(LowerCase(Slice(m, q + 1, b)), r[<<q + b + 1, left>>])
        ELSE No

LabelMeasure(m) ==
    [x \in Nat \X Nat |->
        IF x[1] >= Len(m) THEN 0 ELSE x[2] * (Len(m) + 1) + (Len(m) - x[1])]

LabelReader(m) ==
    CHOOSE labels : labels = [x \in Nat \X Nat |-> LabelStep(labels, m, x)]

LEMMA ReaderOfLabels ==
  ASSUME NEW m, NEW p, NEW n
  PROVE  NameAt(m, p, n) = LabelReader(m)[<<p, n>>]
BY DEF NameAt, LabelReader, LabelStep

LEMMA LabelMeasureFalls ==
  ASSUME NEW m \in Texts, NEW p \in Nat, NEW n \in Nat, p < Len(m)
  PROVE  /\ \A q \in Nat : p < q => LabelMeasure(m)[<<q, n>>] < LabelMeasure(m)[<<p, n>>]
         /\ n > 0 => \A q \in Nat :
               LabelMeasure(m)[<<q, n - 1>>] < LabelMeasure(m)[<<p, n>>]
<1> DEFINE K == Len(m) + 1
           M(k, q) == k * K + (Len(m) - q)
<1>1. Len(m) \in Nat /\ K \in Nat
  BY LengthOf
<1>2. \A k, q \in Nat : q < Len(m) => M(k, q) \in Nat /\ M(k, q) > 0
  <2> SUFFICES ASSUME NEW k \in Nat, NEW q \in Nat, q < Len(m)
               PROVE  M(k, q) \in Nat /\ M(k, q) > 0
    OBVIOUS
  <2>1. k * K \in Nat /\ Len(m) - q \in Nat /\ Len(m) - q > 0
    BY <1>1
  <2> QED BY <2>1
<1>3. \A q, k \in Nat : LabelMeasure(m)[<<q, k>>] = IF q >= Len(m) THEN 0 ELSE M(k, q)
  BY DEF LabelMeasure
<1>4. ASSUME NEW q \in Nat, p < q PROVE LabelMeasure(m)[<<q, n>>] < LabelMeasure(m)[<<p, n>>]
  <2>1. n * K \in Nat
    BY <1>1
  <2>2. M(n, q) < M(n, p) /\ M(n, p) > 0
    BY <1>1, <1>2, <1>4, <2>1
  <2> HIDE DEF M
  <2> QED BY <1>1, <1>3, <2>2
<1>5. ASSUME n > 0, NEW q \in Nat
      PROVE  LabelMeasure(m)[<<q, n - 1>>] < LabelMeasure(m)[<<p, n>>]
  <2>1. q < Len(m) => M(n - 1, q) < M(n, p)
    <3> DEFINE a == n - 1
    <3>1. a \in Nat /\ n = a + 1
      BY <1>5
    <3>2. (a + 1) * K = a * K + K /\ a * K \in Nat
      BY <1>1, <3>1
    <3> HIDE DEF a
    <3> QED BY <1>1, <3>1, <3>2 DEF a
  <2>2. n - 1 \in Nat /\ M(n, p) > 0
    BY <1>2, <1>5
  <2> HIDE DEF M
  <2> QED BY <1>1, <1>3, <2>1, <2>2
<1> QED BY <1>4, <1>5

LEMMA LabelStepLocal ==
  ASSUME NEW m \in Texts, NEW p \in Nat, NEW n \in Nat, NEW g, NEW h,
         \A q, k \in Nat : LabelMeasure(m)[<<q, k>>] < LabelMeasure(m)[<<p, n>>]
                              => g[<<q, k>>] = h[<<q, k>>]
  PROVE  LabelStep(g, m, <<p, n>>) = LabelStep(h, m, <<p, n>>)
<1> DEFINE b == OctetAt(m, p)
<1>0. Len(m) \in Nat
  BY LengthOf
<1>1. CASE p >= Len(m)
  BY <1>1 DEF LabelStep, Given
<1>2. CASE p < Len(m)
  <2>1. b \in Octets /\ b \in Nat
    <3>1. Has(m, p, 1) /\ 1 \in Nat /\ 1 > 0
      BY <1>0, <1>2 DEF Has
    <3>2. b \in Octets
      BY <3>1, OctetsOf
    <3> HIDE DEF b
    <3> QED BY <3>2, CodecAssumption DEF Octets
  <2>2. ASSUME n > 0, p + 1 < Len(m)
        PROVE  g[<<PointerTo(b, OctetAt(m, p + 1)), n - 1>>]
                 = h[<<PointerTo(b, OctetAt(m, p + 1)), n - 1>>]
    <3>1. OctetAt(m, p + 1) \in Octets
      BY <1>0, <2>2, OctetsOf, Has(m, p + 1, 1) DEF Has
    <3>2. PointerTo(b, OctetAt(m, p + 1)) \in Nat /\ n - 1 \in Nat
      BY <2>1, <2>2, <3>1, PointerType
    <3> QED BY <1>2, <2>2, <3>2, LabelMeasureFalls
  <2>3. g[<<p + b + 1, n>>] = h[<<p + b + 1, n>>]
    <3>1. p + b + 1 \in Nat /\ p < p + b + 1
      BY <2>1
    <3> QED BY <1>2, <3>1, LabelMeasureFalls
  <2> QED BY <2>2, <2>3 DEF LabelStep, Given
<1> QED BY <1>0, <1>1, <1>2

LEMMA LabelStepType ==
  ASSUME NEW m \in Texts, NEW p \in Nat, NEW n \in Nat, NEW r,
         \A q, k \in Nat : LabelMeasure(m)[<<q, k>>] < LabelMeasure(m)[<<p, n>>]
                              => r[<<q, k>>] \in NameItems
  PROVE  LabelStep(r, m, <<p, n>>) \in NameItems
<1> DEFINE b == OctetAt(m, p)
           label == Slice(m, p + 1, b)
<1>0. Len(m) \in Nat /\ No \in NameItems
  BY LengthOf DEF NameItems
<1>1. CASE p >= Len(m)
  BY <1>0, <1>1 DEF LabelStep, Given
<1>2. CASE p < Len(m)
  <2>1. b \in Octets /\ b \in Nat
    <3>1. Has(m, p, 1) /\ 1 \in Nat /\ 1 > 0
      BY <1>0, <1>2 DEF Has
    <3>2. b \in Octets
      BY <3>1, OctetsOf
    <3> HIDE DEF b
    <3> QED BY <3>2, CodecAssumption DEF Octets
  <2>2. ASSUME n > 0, p + 1 < Len(m)
        PROVE  Given(r[<<PointerTo(b, OctetAt(m, p + 1)), n - 1>>],
                  LAMBDA name, e : Item(name, p + 2)) \in NameItems
    <3> DEFINE i == r[<<PointerTo(b, OctetAt(m, p + 1)), n - 1>>]
    <3>1. OctetAt(m, p + 1) \in Octets
      BY <1>0, <2>2, OctetsOf, Has(m, p + 1, 1) DEF Has
    <3>2. PointerTo(b, OctetAt(m, p + 1)) \in Nat /\ n - 1 \in Nat
      BY <2>1, <2>2, <3>1, PointerType
    <3>3. i \in NameItems
      BY <1>2, <2>2, <3>2, LabelMeasureFalls
    <3> HIDE DEF i
    <3>4. ASSUME i = No PROVE Given(i, LAMBDA name, end : Item(name, p + 2)) \in NameItems
      BY <1>0, <3>4 DEF Given, No
    <3>5. ASSUME i \in [good : {TRUE}, says : Labels, end : Nat]
          PROVE  Given(i, LAMBDA name, end : Item(name, p + 2)) \in NameItems
      <4>1. PICK v \in Labels, e \in Nat : i = Item(v, e)
        BY <3>5 DEF Item
      <4>2. Given(i, LAMBDA name, end : Item(name, p + 2)) = Item(v, p + 2)
        BY <4>1 DEF Given, Item
      <4>3. Item(v, p + 2) \in NameItems
        BY DEF NameItems, Item
      <4> QED BY <4>2, <4>3 DEF Given
    <3>6. i = No \/ i \in [good : {TRUE}, says : Labels, end : Nat]
      BY <3>3 DEF NameItems
    <3>7. Given(i, LAMBDA name, end : Item(name, p + 2)) \in NameItems
      BY <3>4, <3>5, <3>6 DEF Given
    <3> QED BY <3>7 DEF i, Given
  <2>3. r[<<p + b + 1, n>>] \in NameItems
    <3>1. p + b + 1 \in Nat /\ p < p + b + 1
      BY <2>1
    <3> QED BY <1>2, <3>1, LabelMeasureFalls
  <2>4. Item(<<>>, p + 1) \in NameItems
    BY DEF NameItems, Item, Labels
  <2>5. ASSUME p + b < Len(m)
        PROVE  FirstThen(LowerCase(label), r[<<p + b + 1, n>>]) \in NameItems
    <3>1. LowerCase(label) \in Texts
      BY <1>0, <2>1, <2>5, OctetsOf, LowerCaseType DEF Has
    <3> HIDE DEF b, label
    <3>2. CASE r[<<p + b + 1, n>>] = No
      BY <1>0, <3>2 DEF FirstThen, Given, No
    <3>3. CASE r[<<p + b + 1, n>>] \in [good : {TRUE}, says : Labels, end : Nat]
      <4>1. PICK v \in Labels, e \in Nat : r[<<p + b + 1, n>>] = Item(v, e)
        BY <3>3 DEF Item
      <4>2. <<LowerCase(label)>> \o v \in Labels
        BY <3>1 DEF Labels
      <4>3. FirstThen(LowerCase(label), r[<<p + b + 1, n>>]) = Item(<<LowerCase(label)>> \o v, e)
        BY <4>1 DEF FirstThen, Given, Item
      <4> QED BY <4>2, <4>3 DEF NameItems, Item
    <3> QED BY <2>3, <3>2, <3>3 DEF NameItems
  <2> QED BY <1>0, <2>2, <2>4, <2>5 DEF LabelStep, Given
<1> QED BY <1>0, <1>1, <1>2

\* The equation that defines the names of the RFC has a solution.
LEMMA NamesStand ==
  ASSUME NEW m \in Texts, NEW p \in Nat, NEW n \in Nat
  PROVE  /\ LabelReader(m)[<<p, n>>] = LabelStep(LabelReader(m), m, <<p, n>>)
         /\ LabelReader(m)[<<p, n>>] \in NameItems
         /\ LabelMeasure(m)[<<p, n>>] \in Nat
<1> DEFINE D == Nat \X Nat
           V == NameItems
           mu == LabelMeasure(m)
           F == [f \in [D -> V] |-> [x \in D |-> LabelStep(f, m, x)]]
           labels == LabelReader(m)
<1>1. mu \in [D -> Nat]
  <2>1. \A x \in D : mu[x] \in Nat
    <3>1. ASSUME NEW q \in Nat, NEW k \in Nat, q < Len(m)
          PROVE  k * (Len(m) + 1) + (Len(m) - q) \in Nat
      <4>1. Len(m) + 1 \in Nat /\ Len(m) - q \in Nat
        BY <3>1, LengthOf
      <4>2. k * (Len(m) + 1) \in Nat
        BY <4>1
      <4> QED BY <4>1, <4>2
    <3> QED BY <3>1, LengthOf DEF LabelMeasure
  <2> QED BY <2>1 DEF LabelMeasure
<1>2. ASSUME NEW f, NEW x \in D, \A y \in D : mu[y] < mu[x] => f[y] \in V
      PROVE  LabelStep(f, m, x) \in V
  <2>1. PICK q \in Nat, k \in Nat : x = <<q, k>>
    OBVIOUS
  <2>2. \A a, b \in Nat : mu[<<a, b>>] < mu[<<q, k>>] => f[<<a, b>>] \in V
    BY <1>2, <2>1
  <2> HIDE DEF mu, V
  <2> QED BY <2>1, <2>2, LabelStepType DEF mu, V
<1>3. ASSUME NEW g, NEW h, NEW x \in D, \A y \in D : mu[y] < mu[x] => g[y] = h[y]
      PROVE  LabelStep(g, m, x) = LabelStep(h, m, x)
  <2>1. PICK q \in Nat, k \in Nat : x = <<q, k>>
    OBVIOUS
  <2>2. \A a, b \in Nat : mu[<<a, b>>] < mu[<<q, k>>] => g[<<a, b>>] = h[<<a, b>>]
    BY <1>3, <2>1
  <2> HIDE DEF mu
  <2> QED BY <2>1, <2>2, LabelStepLocal DEF mu
<1> HIDE DEF mu, V
<1>4. F \in [[D -> V] -> [D -> V]]
  BY <1>2
<1>5. Local(F, D, V, mu)
  BY <1>3 DEF Local
<1>6. V # {}
  BY DEF V, NameItems
<1>7. Solvable(F, D, V)
  <2> HIDE DEF F, D
  <2> QED BY <1>1, <1>4, <1>5, <1>6, Recursion, Zenon
<1>8. \E f : f = [x \in D |-> LabelStep(f, m, x)]
  BY <1>7 DEF Solvable
<1>9. labels = [x \in D |-> LabelStep(labels, m, x)]
  BY <1>8 DEF LabelReader
<1> HIDE DEF labels, F
<1>10. \A x \in D : labels[x] = LabelStep(labels, m, x)
  BY <1>9
<1>11. \A x \in D : labels[x] \in V
  <2> DEFINE S == {x \in D : labels[x] \in V}
  <2>1. ASSUME NEW x \in D, \A y \in D : mu[y] < mu[x] => y \in S
        PROVE  x \in S
    BY <1>2, <1>10, <2>1
  <2>2. \A x \in D : mu[x] \in Nat
    BY <1>1
  <2> HIDE DEF S, D, mu
  <2>3. \A x \in D : x \in S
    <3>1. Inductive(D, mu, S)
      BY <2>1, <2>2 DEF Inductive
    <3> QED BY <3>1, Induction
  <2> QED BY <2>3 DEF S
<1>12. <<p, n>> \in D
  OBVIOUS
<1> QED BY <1>1, <1>10, <1>11, <1>12 DEF labels, V, mu

-----------------------------------------------------------------------------
(* read_domain_name and the RFC                                            *)

\* A name that is right by the RFC is read as it says, and a name without
\* pointers is read up to its end.
Agrees(m, p, left) ==
    \A j \in Nat : j + left <= MaxJumps /\ LabelReader(m)[<<p, left>>].good =>
        LET name == LabelReader(m)[<<p, left>>]
            read == NameReader(m)[<<p, j>>]
        IN  /\ read.ok = "ok" /\ read.value = name.says
            /\ left = 0 => read.next = name.end

LEMMA TopBits ==
  ASSUME NEW b \in Octets
  PROVE  /\ Points(b) => IsPointer(b)
         /\ OpensLabel(b) => b > 0 /\ ~IsPointer(b)
<1>1. Octet \div 4 \in Nat /\ Octet \div 4 > 0 /\ b \in Nat
  BY CodecAssumption DEF Octets
<1> DEFINE Q == Octet \div 4
<1>2. b = ((b \div Q) * Q) + (b % Q) /\ b % Q >= 0
  BY <1>1
<1>3. Points(b) => b >= 3 * Q
  BY <1>1, <1>2 DEF Points
<1> QED BY <1>1, <1>3 DEF Points, IsPointer, OpensLabel

LEMMA NamesAgree ==
  ASSUME NEW m \in Texts, NEW p \in Nat, NEW left \in Nat
  PROVE  Agrees(m, p, left)
<1> DEFINE D == Nat \X Nat
           mu == LabelMeasure(m)
           S == {x \in D : Agrees(m, x[1], x[2])}
<1>1. ASSUME NEW x \in D, \A y \in D : mu[y] < mu[x] => y \in S
      PROVE  x \in S
  <2>1. PICK q \in Nat, n \in Nat : x = <<q, n>>
    OBVIOUS
  <2> DEFINE b == OctetAt(m, q)
             label == Slice(m, q + 1, b)
             name == LabelReader(m)[<<q, n>>]
  <2> SUFFICES ASSUME NEW j \in Nat, j + n <= MaxJumps, name.good
               PROVE  LET read == NameReader(m)[<<q, j>>]
                      IN  /\ read.ok = "ok" /\ read.value = name.says
                          /\ n = 0 => read.next = name.end
    BY <2>1 DEF Agrees
  <2> DEFINE read == NameReader(m)[<<q, j>>]
  <2>2. name = LabelStep(LabelReader(m), m, <<q, n>>) /\ name \in NameItems
        /\ read = NameStep(NameReader(m), m, <<q, j>>)
    BY NamesStand, NamesRead
  <2>3. Len(m) \in Nat /\ MaxJumps \in Nat
    BY LengthOf
  <2>4. q < Len(m)
    BY <2>2, <2>3 DEF LabelStep, Given, No
  <2>5. b \in Octets /\ b \in Nat /\ Has(m, q, 1) /\ j <= MaxJumps
    <3>1. Has(m, q, 1) /\ j <= MaxJumps
      BY <2>3, <2>4 DEF Has
    <3>2. b \in Octets
      BY <3>1, OctetsOf
    <3> QED BY <3>1, <3>2, CodecAssumption DEF Octets
  <2>6. \A a, k \in Nat : mu[<<a, k>>] < mu[<<q, n>>] => Agrees(m, a, k)
    BY <1>1, <2>1
  <2> HIDE DEF S, D, mu
  <2>7. CASE b = 0
    <3>1. name = Item(<<>>, q + 1)
      BY <2>2, <2>4, <2>3, <2>7 DEF LabelStep, Given
    <3>2. read = Ok(<<>>, q + 1)
      BY <2>2, <2>5, <2>3, <2>7 DEF NameStep
    <3> QED BY <3>1, <3>2 DEF Item, Ok
  <2>8. CASE b # 0 /\ Points(b) /\ n > 0 /\ q + 1 < Len(m)
    <3> DEFINE t == PointerTo(b, OctetAt(m, q + 1))
               there == LabelReader(m)[<<t, n - 1>>]
    <3>1. OctetAt(m, q + 1) \in Octets /\ Has(m, q, 2)
      BY <2>3, <2>8, OctetsOf, Has(m, q + 1, 1) DEF Has
    <3>2. t \in Nat /\ n - 1 \in Nat
      BY <2>5, <2>8, <3>1, PointerType
    <3>3. mu[<<t, n - 1>>] < mu[<<q, n>>]
      BY <2>4, <2>8, <3>2, LabelMeasureFalls DEF mu
    <3>4. Agrees(m, t, n - 1)
      BY <2>6, <3>2, <3>3
    <3>5. name = Given(there, LAMBDA v, e : Item(v, q + 2))
      BY <2>2, <2>3, <2>4, <2>8 DEF LabelStep, Given
    <3>6. there \in NameItems
      BY <3>2, NamesStand
    <3>7. there.good /\ name.says = there.says
      BY <3>5, <3>6 DEF Given, NameItems, No, Item
    <3>8. IsPointer(b)
      BY <2>5, <2>8, TopBits
    <3>9. read = NameReader(m)[<<t, j + 1>>]
      BY <2>2, <2>3, <2>5, <2>8, <3>1, <3>8 DEF NameStep
    <3>10. (j + 1) + (n - 1) <= MaxJumps /\ j + 1 \in Nat
      BY <2>3
    <3> QED BY <2>8, <3>4, <3>7, <3>9, <3>10 DEF Agrees
  <2>9. CASE /\ b # 0 /\ ~(Points(b) /\ n > 0 /\ q + 1 < Len(m))
             /\ OpensLabel(b) /\ q + b < Len(m) /\ ToSet(label) \intersect NotUtf8 = {}
    <3> DEFINE rest == LabelReader(m)[<<q + b + 1, n>>]
               more == NameReader(m)[<<q + 1 + b, j>>]
    <3>1. q + b + 1 \in Nat /\ q < q + b + 1 /\ q + b + 1 = q + 1 + b
      BY <2>5
    <3>2. Agrees(m, q + b + 1, n)
      BY <2>4, <2>6, <3>1, LabelMeasureFalls DEF mu
    <3>3. name = FirstThen(LowerCase(label), rest) /\ rest \in NameItems
      <4>1. name = FirstThen(LowerCase(label), rest)
        BY <2>2, <2>3, <2>4, <2>9 DEF LabelStep, Given
      <4> QED BY <3>1, <4>1, NamesStand
    <3>4. rest.good /\ name.says = <<LowerCase(label)>> \o rest.says /\ name.end = rest.end
      <4> DEFINE v == LowerCase(label)
      <4>1. name = FirstThen(v, rest) /\ name.good
        BY <2>3, <3>3
      <4> HIDE DEF v, name, rest
      <4>2. name = IF rest.good THEN Item(<<v>> \o rest.says, rest.end) ELSE No
        BY <4>1 DEF FirstThen, Given
      <4>3. rest.good
        BY <4>1, <4>2 DEF No
      <4>4. name.says = <<v>> \o rest.says /\ name.end = rest.end
        BY <4>2, <4>3 DEF Item
      <4> QED BY <4>3, <4>4 DEF v
    <3>5. ~IsPointer(b) /\ Has(m, q + 1, b)
      BY <2>3, <2>5, <2>9, TopBits DEF Has
    <3>6. read = Before(LowerCase(label), more)
      BY <2>2, <2>3, <2>5, <2>9, <3>5 DEF NameStep
    <3>7. more.ok = "ok" /\ more.value = rest.says /\ (n = 0 => more.next = rest.end)
      BY <3>1, <3>2, <3>4 DEF Agrees
    <3>8. read = Ok(<<LowerCase(label)>> \o more.value, more.next)
      BY <3>6, <3>7 DEF Before, Then
    <3> DEFINE v == <<LowerCase(label)>> \o rest.says
    <3>9. name.says = v /\ read = Ok(v, more.next)
      BY <3>4, <3>7, <3>8
    <3>11. read.ok = "ok" /\ read.value = v /\ read.next = more.next
      <4> HIDE DEF read, more, v
      <4> QED BY <3>9 DEF Ok
    <3>12. /\ read.ok = "ok" /\ read.value = name.says
           /\ n = 0 => read.next = name.end
      <4> HIDE DEF name, read, rest, more, v
      <4> QED BY <3>4, <3>7, <3>9, <3>11
    <3> QED BY <3>12
  <2>10. name = No \/ b = 0 \/ (Points(b) /\ n > 0 /\ q + 1 < Len(m))
         \/ (OpensLabel(b) /\ q + b < Len(m) /\ ToSet(label) \intersect NotUtf8 = {})
    BY <2>2, <2>3, <2>4 DEF LabelStep, Given
  <2> QED BY <2>7, <2>8, <2>9, <2>10 DEF No
<1>2. \A x \in D : mu[x] \in Nat
  BY NamesStand
<1>3. <<p, left>> \in D
  OBVIOUS
<1> HIDE DEF S, D, mu
<1>4. \A x \in D : x \in S
  <2>1. Inductive(D, mu, S)
    BY <1>1, <1>2 DEF Inductive
  <2> QED BY <2>1, Induction
<1> QED BY <1>3, <1>4 DEF S

-----------------------------------------------------------------------------
(* Sequences that are written one after the other                          *)

LEMMA FirstAndRest ==
  ASSUME NEW S, NEW x \in S, NEW s \in Seq(S)
  PROVE  /\ <<x>> \o s \in Seq(S) /\ Len(<<x>> \o s) = Len(s) + 1
         /\ (<<x>> \o s)[1] = x
         /\ \A i \in 1 .. Len(s) : (<<x>> \o s)[i + 1] = s[i]
         /\ \A i \in 2 .. Len(s) + 1 : (<<x>> \o s)[i] = s[i - 1]
<1>1. <<x>> \in Seq(S) /\ Len(<<x>>) = 1 /\ <<x>>[1] = x
  OBVIOUS
<1> DEFINE t == <<x>> \o s
<1>2. /\ t \in Seq(S) /\ Len(t) = 1 + Len(s)
      /\ \A i \in 1 .. 1 + Len(s) : t[i] = IF i <= 1 THEN <<x>>[i] ELSE s[i - 1]
  BY <1>1, ConcatProperties
<1>3. Len(s) \in Nat
  BY LenProperties
<1> HIDE DEF t
<1>4. ASSUME NEW i \in 1 .. Len(s) PROVE t[i + 1] = s[i]
  <2>1. i + 1 \in 1 .. 1 + Len(s) /\ ~(i + 1 <= 1) /\ (i + 1) - 1 = i
    BY <1>3
  <2> QED BY <1>2, <2>1
<1>5. t[1] = x
  BY <1>1, <1>2, <1>3
<1>6. ASSUME NEW i \in 2 .. Len(s) + 1 PROVE t[i] = s[i - 1]
  BY <1>2, <1>3
<1> QED BY <1>2, <1>3, <1>4, <1>5, <1>6 DEF t

LEMMA Splits ==
  ASSUME NEW S, NEW s \in Seq(S), Len(s) > 0
  PROVE  /\ Head(s) \in S /\ Tail(s) \in Seq(S) /\ Len(Tail(s)) = Len(s) - 1
         /\ s = <<Head(s)>> \o Tail(s)
<1>1. s # <<>> /\ Len(s) \in Nat
  BY EmptySeq, LenProperties
<1>2. Head(s) \in S /\ Tail(s) \in Seq(S) /\ Len(Tail(s)) = Len(s) - 1
      /\ \A i \in 1 .. Len(Tail(s)) : Tail(s)[i] = s[i + 1]
  BY <1>1, HeadTailProperties
<1> DEFINE h == Head(s)
           r == Tail(s)
           t == <<h>> \o r
<1>3. h = s[1]
  BY <1>1
<1> HIDE DEF h, r
<1>4. /\ t \in Seq(S) /\ Len(t) = Len(r) + 1 /\ t[1] = h
      /\ \A i \in 2 .. Len(r) + 1 : t[i] = r[i - 1]
  BY <1>2, FirstAndRest DEF h, r
<1>5. Len(r) = Len(s) - 1 /\ \A i \in 1 .. Len(r) : r[i] = s[i + 1]
  BY <1>2 DEF r
<1> HIDE DEF t
<1>6. ASSUME NEW i \in 1 .. Len(s) PROVE s[i] = t[i]
  <2>1. CASE i = 1
    BY <1>3, <1>4, <2>1
  <2>2. CASE i # 1
    <3>1. i \in 2 .. Len(r) + 1 /\ i - 1 \in 1 .. Len(r) /\ (i - 1) + 1 = i
      BY <1>1, <1>5, <2>2
    <3> QED BY <1>4, <1>5, <3>1
  <2> QED BY <2>1, <2>2
<1>7. Len(t) = Len(s)
  BY <1>1, <1>4, <1>5
<1>8. s = t
  BY <1>4, <1>6, <1>7, SeqEqual
<1> QED BY <1>2, <1>8 DEF t, h, r

\* What G makes of the elements of a sequence, one after the other.
Mapped(G, s) == [i \in DOMAIN s |-> G[s[i]]]

Maps(G, S, T) == G \in [S -> T]

LEMMA MappedType ==
  ASSUME NEW S, NEW T, NEW G, Maps(G, S, T), NEW s \in Seq(S)
  PROVE  Mapped(G, s) \in Seq(T) /\ Len(Mapped(G, s)) = Len(s)
<1>1. Len(s) \in Nat /\ DOMAIN s = 1 .. Len(s) /\ \A i \in 1 .. Len(s) : s[i] \in S
  BY LenProperties, ElementOfSeq
<1> QED BY <1>1 DEF Mapped, Maps

\* G writes an S with Ts.
Writes(G, S, T) == G \in [S -> Seq(T)]

LEMMA FlattenMapped ==
  ASSUME NEW S, NEW T, NEW G, Writes(G, S, T), NEW x \in S, NEW s \in Seq(S)
  PROVE  /\ FlattenSeq(Mapped(G, s)) \in Seq(T)
         /\ FlattenSeq(Mapped(G, Cons(x, s))) = G[x] \o FlattenSeq(Mapped(G, s))
<1> DEFINE t == <<x>> \o s
           u == <<G[x]>> \o Mapped(G, s)
           v == Mapped(G, t)
<1>0. \A r \in Seq(S) : Mapped(G, r) \in Seq(Seq(T)) /\ Len(Mapped(G, r)) = Len(r)
  <2> DEFINE U == Seq(T)
  <2>1. Maps(G, S, U)
    BY DEF Writes, Maps
  <2> HIDE DEF U
  <2>2. ASSUME NEW r \in Seq(S)
        PROVE  Mapped(G, r) \in Seq(U) /\ Len(Mapped(G, r)) = Len(r)
    BY <2>1, MappedType
  <2> QED BY <2>2 DEF U
<1>1. /\ Mapped(G, s) \in Seq(Seq(T)) /\ Len(Mapped(G, s)) = Len(s) /\ Len(s) \in Nat
      /\ G[x] \in Seq(T)
  BY <1>0, LenProperties DEF Writes
<1>2. /\ t \in Seq(S) /\ Len(t) = Len(s) + 1 /\ t[1] = x
      /\ \A i \in 2 .. Len(s) + 1 : t[i] = s[i - 1]
  BY FirstAndRest
<1>3. /\ u \in Seq(Seq(T)) /\ Len(u) = Len(s) + 1 /\ u[1] = G[x]
      /\ \A i \in 2 .. Len(s) + 1 : u[i] = Mapped(G, s)[i - 1]
  BY <1>1, FirstAndRest
<1> HIDE DEF t, u
<1>4. v \in Seq(Seq(T)) /\ Len(v) = Len(s) + 1
  BY <1>0, <1>2
<1>5. ASSUME NEW i \in 1 .. Len(s) + 1 PROVE u[i] = v[i]
  <2>1. v[i] = G[t[i]]
    BY <1>2, LenProperties DEF Mapped
  <2>2. CASE i = 1
    BY <1>2, <1>3, <2>1, <2>2
  <2>3. CASE i # 1
    <3>1. i \in 2 .. Len(s) + 1 /\ i - 1 \in DOMAIN s
      BY <1>1, <2>3, LenProperties
    <3>2. Mapped(G, s)[i - 1] = G[s[i - 1]]
      BY <3>1 DEF Mapped
    <3> QED BY <1>2, <1>3, <2>1, <3>1, <3>2
  <2> QED BY <2>2, <2>3
<1> HIDE DEF v
<1>6. u = v
  BY <1>3, <1>4, <1>5, SeqEqual
<1>7. FlattenSeq(u) = G[x] \o FlattenSeq(Mapped(G, s))
  BY <1>1, FlattenFirst DEF u
<1> QED BY <1>1, <1>6, <1>7, FlattenType DEF t, v, Cons

\* A sequence of its elements is itself.
LEMMA FlattenElements ==
  ASSUME NEW S, NEW s \in Seq(S)
  PROVE  FlattenSeq([i \in DOMAIN s |-> <<s[i]>>]) = s
<1> DEFINE t == [i \in DOMAIN s |-> <<s[i]>>]
           n == Len(s)
           f == Flattened(t)
<1>1. n \in Nat /\ DOMAIN s = 1 .. n /\ \A i \in 1 .. n : s[i] \in S
  BY LenProperties, ElementOfSeq
<1>2. t \in Seq(Seq(S)) /\ Len(t) = n
  BY <1>1
<1>3. \A i \in 1 .. n : t[i] = <<s[i]>>
  BY <1>1
<1> HIDE DEF t, n
<1>4. /\ FlattenSeq(t) = IF n = 0 THEN t ELSE f[n]
      /\ \A i \in 1 .. n : f[i] = IF i = 1 THEN t[i] ELSE f[i - 1] \o t[i]
  BY <1>2, FlattenedIs
<1> HIDE DEF f
<1>5. CASE n = 0
  <2>1. s = <<>> /\ t = <<>>
    BY <1>2, <1>5, EmptySeq DEF n
  <2> QED BY <1>4, <1>5, <2>1 DEF t
<1>6. CASE n # 0
  <2> DEFINE Q == {k \in Nat : k \in 1 .. n => f[k] = SubSeq(s, 1, k)}
  <2>1. 0 \in Q
    BY <1>1
  <2>2. ASSUME NEW k \in Nat, k \in Q PROVE k + 1 \in Q
    <3> SUFFICES ASSUME k + 1 \in 1 .. n PROVE f[k + 1] = SubSeq(s, 1, k + 1)
      OBVIOUS
    <3> DEFINE i == k + 1
    <3>1. i \in 1 .. n /\ i - 1 = k /\ 1 \in 1 .. n
      BY <1>1
    <3> HIDE DEF i
    <3>2. SubSeq(s, 1, i) = SubSeq(s, 1, k) \o <<s[i]>>
      BY <1>1, <3>1, SubSeqRecursiveSecond DEF n
    <3>3. CASE k = 0
      <4>1. SubSeq(s, 1, k) = <<>>
        BY <3>3, SubSeqEmpty
      <4>2. i = 1 /\ f[i] = <<s[i]>>
        BY <1>3, <1>4, <3>1, <3>3
      <4>3. <<>> \o <<s[i]>> = <<s[i]>>
        BY <1>1, <3>1, ConcatEmptySeq
      <4> QED BY <3>2, <4>1, <4>2, <4>3 DEF i
    <3>4. CASE k # 0
      <4>1. k \in 1 .. n /\ i # 1
        BY <1>1, <3>1, <3>4
      <4>2. f[k] = SubSeq(s, 1, k)
        BY <2>2, <4>1
      <4>3. f[i] = f[k] \o <<s[i]>>
        BY <1>3, <1>4, <3>1, <4>1
      <4> QED BY <3>2, <4>2, <4>3 DEF i
    <3> QED BY <3>3, <3>4
  <2> HIDE DEF Q
  <2>3. \A k \in Nat : k \in Q
    BY <2>1, <2>2, CountingUp
  <2>4. f[n] = SubSeq(s, 1, n)
    BY <1>1, <1>6, <2>3 DEF Q
  <2>5. SubSeq(s, 1, n) = s
    BY SubSeqFull DEF n
  <2> QED BY <1>4, <1>6, <2>4, <2>5 DEF t
<1> QED BY <1>5, <1>6

-----------------------------------------------------------------------------
(* Octets that stand somewhere in a message                                *)

Spells(m, p, w) == p + Len(w) <= Len(m) /\ \A i \in 1 .. Len(w) : m[p + i] = w[i]

LEMMA Appended ==
  ASSUME NEW u \in Texts, NEW w \in Texts
  PROVE  /\ u \o w \in Texts /\ Len(u \o w) = Len(u) + Len(w)
         /\ \A i \in 1 .. Len(u) : (u \o w)[i] = u[i]
         /\ \A i \in 1 .. Len(w) : (u \o w)[Len(u) + i] = w[i]
<1> DEFINE t == u \o w
<1>1. /\ t \in Texts /\ Len(t) = Len(u) + Len(w)
      /\ \A i \in 1 .. Len(u) + Len(w) : t[i] = IF i <= Len(u) THEN u[i] ELSE w[i - Len(u)]
  BY ConcatProperties DEF Texts
<1>2. Len(u) \in Nat /\ Len(w) \in Nat
  BY LengthOf
<1> HIDE DEF t
<1>3. \A i \in 1 .. Len(u) : t[i] = u[i]
  BY <1>1, <1>2
<1>4. ASSUME NEW i \in 1 .. Len(w) PROVE t[Len(u) + i] = w[i]
  <2>1. Len(u) + i \in 1 .. Len(u) + Len(w) /\ ~(Len(u) + i <= Len(u))
        /\ (Len(u) + i) - Len(u) = i
    BY <1>2
  <2> QED BY <1>1, <2>1
<1> QED BY <1>1, <1>3, <1>4 DEF t

LEMMA OneOctet ==
  ASSUME NEW b \in Octets
  PROVE  <<b>> \in Texts /\ Len(<<b>>) = 1 /\ <<b>>[1] = b
BY DEF Texts

LEMMA SpellsTwo ==
  ASSUME NEW m \in Texts, NEW p \in Nat, NEW u \in Texts, NEW w \in Texts,
         Spells(m, p, u \o w)
  PROVE  Spells(m, p, u) /\ Spells(m, p + Len(u), w) /\ p + Len(u) \in Nat
<1> DEFINE t == u \o w
<1>1. /\ Len(t) = Len(u) + Len(w)
      /\ \A i \in 1 .. Len(u) : t[i] = u[i]
      /\ \A i \in 1 .. Len(w) : t[Len(u) + i] = w[i]
  BY Appended
<1>2. Len(u) \in Nat /\ Len(w) \in Nat /\ Len(m) \in Nat
  BY LengthOf
<1>3. p + Len(t) <= Len(m) /\ \A i \in 1 .. Len(t) : m[p + i] = t[i]
  BY DEF Spells
<1> HIDE DEF t
<1>4. ASSUME NEW i \in 1 .. Len(u) PROVE m[p + i] = u[i]
  BY <1>1, <1>2, <1>3
<1>5. ASSUME NEW i \in 1 .. Len(w) PROVE m[(p + Len(u)) + i] = w[i]
  <2>1. Len(u) + i \in 1 .. Len(t) /\ (p + Len(u)) + i = p + (Len(u) + i)
    BY <1>1, <1>2
  <2> QED BY <1>1, <1>3, <2>1
<1> QED BY <1>1, <1>2, <1>3, <1>4, <1>5 DEF Spells

LEMMA SpellsFirst ==
  ASSUME NEW m \in Texts, NEW p \in Nat, NEW b \in Octets, NEW w \in Texts,
         Spells(m, p, <<b>> \o w)
  PROVE  Has(m, p, 1) /\ OctetAt(m, p) = b /\ Spells(m, p + 1, w)
<1>1. <<b>> \in Texts /\ Len(<<b>>) = 1 /\ <<b>>[1] = b
  BY OneOctet
<1>2. Spells(m, p, <<b>>) /\ Spells(m, p + 1, w)
  BY <1>1, SpellsTwo
<1> QED BY <1>1, <1>2 DEF Spells, Has, OctetAt

\* What stands somewhere is the slice there.
LEMMA SpellsSlice ==
  ASSUME NEW m \in Texts, NEW p \in Nat, NEW w \in Texts, Spells(m, p, w)
  PROVE  Has(m, p, Len(w)) /\ Slice(m, p, Len(w)) = w
<1> DEFINE n == Len(w)
           s == Slice(m, p, n)
<1>1. n \in Nat /\ Has(m, p, n)
  BY LengthOf DEF Spells, Has
<1> HIDE DEF n
<1>2. s \in Texts /\ Len(s) = n /\ \A i \in 1 .. n : s[i] = m[p + i]
  BY <1>1, OctetsOf
<1> HIDE DEF s
<1>3. \A i \in 1 .. n : s[i] = w[i]
  BY <1>2 DEF Spells, n
<1>4. s = w
  BY <1>1, <1>2, <1>3, SeqEqual DEF Texts, n
<1> QED BY <1>1, <1>4 DEF s, n

LEMMA SliceStands ==
  ASSUME NEW m \in Texts, NEW p \in Nat, NEW n \in Nat, Has(m, p, n)
  PROVE  Spells(m, p, Slice(m, p, n))
BY OctetsOf DEF Spells, Has

LEMMA SliceTwo ==
  ASSUME NEW m \in Texts, NEW p \in Nat, NEW n \in Nat, NEW k \in Nat, Has(m, p, n + k)
  PROVE  /\ Slice(m, p, n + k) = Slice(m, p, n) \o Slice(m, p + n, k)
         /\ Has(m, p, n) /\ Has(m, p + n, k)
<1> DEFINE u == Slice(m, p, n)
           w == Slice(m, p + n, k)
           s == Slice(m, p, n + k)
           t == u \o w
<1>0. Len(m) \in Nat /\ p + n \in Nat /\ n + k \in Nat
  BY LengthOf
<1>1. Has(m, p, n) /\ Has(m, p + n, k)
  BY <1>0 DEF Has
<1>2. u \in Texts /\ Len(u) = n /\ \A i \in 1 .. n : u[i] = m[p + i]
  BY <1>1, OctetsOf
<1>3. w \in Texts /\ Len(w) = k /\ \A i \in 1 .. k : w[i] = m[(p + n) + i]
  BY <1>0, <1>1, OctetsOf
<1>4. s \in Texts /\ Len(s) = n + k /\ \A i \in 1 .. n + k : s[i] = m[p + i]
  BY <1>0, OctetsOf
<1> HIDE DEF u, w, s
<1>5. t \in Texts /\ Len(t) = n + k /\ (\A i \in 1 .. n : t[i] = u[i])
      /\ \A i \in 1 .. k : t[n + i] = w[i]
  BY <1>2, <1>3, Appended
<1> HIDE DEF t
<1>6. ASSUME NEW i \in 1 .. n + k PROVE s[i] = t[i]
  <2>1. CASE i <= n
    BY <1>2, <1>4, <1>5, <2>1
  <2>2. CASE ~(i <= n)
    <3> DEFINE j == i - n
    <3>1. j \in 1 .. k /\ i = n + j /\ p + i = (p + n) + j
      BY <1>0, <2>2
    <3> HIDE DEF j
    <3>2. t[i] = w[j] /\ w[j] = m[p + i]
      BY <1>3, <1>5, <3>1
    <3> QED BY <1>4, <3>2
  <2> QED BY <2>1, <2>2
<1>7. s = t
  BY <1>4, <1>5, <1>6, SeqEqual DEF Texts
<1> QED BY <1>1, <1>7 DEF s, t, u, w

LEMMA SliceOne ==
  ASSUME NEW m \in Texts, NEW p \in Nat, Has(m, p, 1)
  PROVE  Slice(m, p, 1) = <<OctetAt(m, p)>>
<1> DEFINE s == Slice(m, p, 1)
           b == OctetAt(m, p)
<1>1. s \in Texts /\ Len(s) = 1 /\ s[1] = b /\ b \in Octets
  <2>0. ASSUME NEW n \in Nat, Has(m, p, n)
        PROVE  /\ Slice(m, p, n) \in Texts /\ Len(Slice(m, p, n)) = n
               /\ \A i \in 1 .. n : Slice(m, p, n)[i] = m[p + i]
               /\ n > 0 => OctetAt(m, p) \in Octets
    BY <2>0, OctetsOf
  <2>1. s \in Texts /\ Len(s) = 1 /\ (\A i \in 1 .. 1 : s[i] = m[p + i])
        /\ b \in Octets
    <3> DEFINE n == 1
    <3>1. n \in Nat /\ n > 0 /\ Has(m, p, n)
      OBVIOUS
    <3> HIDE DEF n
    <3>2. /\ Slice(m, p, n) \in Texts /\ Len(Slice(m, p, n)) = n
          /\ \A i \in 1 .. n : Slice(m, p, n)[i] = m[p + i]
          /\ n > 0 => OctetAt(m, p) \in Octets
      BY <2>0, <3>1
    <3> QED BY <3>1, <3>2 DEF n
  <2> HIDE DEF s
  <2> QED BY <2>1 DEF OctetAt
<1>2. <<b>> \in Texts /\ Len(<<b>>) = 1 /\ <<b>>[1] = b
  BY <1>1, OneOctet
<1> HIDE DEF s, b
<1>3. \A i \in 1 .. 1 : s[i] = <<b>>[i]
  BY <1>1, <1>2
<1>4. s = <<b>>
  BY <1>1, <1>2, <1>3, SeqEqual DEF Texts
<1> QED BY <1>4 DEF s, b

\* Texts of Len octets, an octet for each.
LEMMA SliceFirst ==
  ASSUME NEW m \in Texts, NEW p \in Nat, NEW n \in Nat, Has(m, p, n + 1)
  PROVE  /\ Slice(m, p, n + 1) = <<OctetAt(m, p)>> \o Slice(m, p + 1, n)
         /\ Has(m, p, 1) /\ Has(m, p + 1, n) /\ OctetAt(m, p) \in Octets
<1>1. Has(m, p, 1 + n) /\ 1 + n = n + 1
  BY DEF Has
<1>2. /\ Slice(m, p, 1 + n) = Slice(m, p, 1) \o Slice(m, p + 1, n)
      /\ Has(m, p, 1) /\ Has(m, p + 1, n)
  BY <1>1, SliceTwo
<1>3. OctetAt(m, p) \in Octets
  BY <1>2, OctetsOf
<1> QED BY <1>1, <1>2, <1>3, SliceOne

-----------------------------------------------------------------------------
(* Labels and strings, each after its length                               *)

WithLengths(s) == FlattenSeq([i \in DOMAIN s |-> WithLength(s[i])])

LEMMA WithLengthType ==
  ASSUME NEW l \in Texts
  PROVE  /\ WithLength(l) \in Texts
         /\ Len(l) \in Octets => WithLength(l) = <<Len(l)>> \o l
<1>1. Len(l) \in Nat /\ Octet \in Nat /\ Octet > 0
  BY LengthOf, CodecAssumption
<1>2. Len(l) % Octet \in Octets
  BY <1>1 DEF Octets
<1>3. Len(l) \in Octets => Len(l) % Octet = Len(l)
  BY <1>1 DEF Octets
<1>4. <<Len(l) % Octet>> \o l \in Texts
  BY <1>2, OneOctet, Appended
<1> QED BY <1>3, <1>4 DEF WithLength

LEMMA WithLengthsOf ==
  ASSUME NEW s \in Labels
  PROVE  /\ WithLengths(s) \in Texts
         /\ \A l \in Texts : WithLengths(<<l>> \o s) = WithLength(l) \o WithLengths(s)
<1> DEFINE G == [l \in Texts |-> WithLength(l)]
<1>1. G \in [Texts -> Texts] /\ \A l \in Texts : G[l] = WithLength(l)
  BY WithLengthType
<1>2. ASSUME NEW t \in Labels PROVE Mapped(G, t) = [i \in DOMAIN t |-> WithLength(t[i])]
  <2>1. \A i \in DOMAIN t : t[i] \in Texts
    BY ElementOfSeq DEF Labels
  <2> QED BY <2>1 DEF Mapped
<1> HIDE DEF G
<1>3. WithLengths(s) = FlattenSeq(Mapped(G, s))
  BY <1>2 DEF WithLengths
<1>4. ASSUME NEW l \in Texts
      PROVE  /\ FlattenSeq(Mapped(G, s)) \in Seq(Octets)
             /\ FlattenSeq(Mapped(G, Cons(l, s))) = G[l] \o FlattenSeq(Mapped(G, s))
  <2>1. Writes(G, Texts, Octets) /\ s \in Seq(Texts)
    BY <1>1 DEF Texts, Labels, Writes
  <2> QED BY <2>1, FlattenMapped
<1>5. ASSUME NEW l \in Texts PROVE WithLengths(<<l>> \o s) = FlattenSeq(Mapped(G, Cons(l, s)))
  <2>1. <<l>> \o s \in Labels
    BY FirstAndRest DEF Labels
  <2> QED BY <1>2, <2>1 DEF WithLengths, Cons
<1>6. <<>> \in Texts
  BY DEF Texts
<1>7. WithLengths(s) \in Texts
  BY <1>3, <1>4, <1>6 DEF Texts
<1> QED BY <1>1, <1>3, <1>4, <1>5, <1>7

LEMMA NoLengths == WithLengths(<<>>) = <<>>
<1>1. [i \in DOMAIN <<>> |-> WithLength(<<>>[i])] = <<>>
  OBVIOUS
<1> QED BY <1>1, FlattenEmpty DEF WithLengths

LEMMA TextsAppend ==
  ASSUME NEW u \in Texts, NEW v \in Texts, NEW w \in Texts
  PROVE  (u \o v) \o w = u \o (v \o w)
BY ConcatAssociative DEF Texts

LEMMA WriteNameType ==
  ASSUME NEW v \in Labels
  PROVE  /\ WriteName(v) \in Texts /\ Len(WriteName(v)) > 0
         /\ \A l \in Texts : WriteName(<<l>> \o v) = WithLength(l) \o WriteName(v)
<1>1. WriteName(v) = WithLengths(v) \o << 0 >>
  BY DEF WriteName, WithLengths
<1>2. 0 \in Octets
  BY CodecAssumption DEF Octets
<1>3. << 0 >> \in Texts /\ Len(<< 0 >>) = 1 /\ WithLengths(v) \in Texts
  BY <1>2, OneOctet, WithLengthsOf
<1>4. WriteName(v) \in Texts /\ Len(WriteName(v)) > 0
  BY <1>1, <1>3, Appended, LengthOf
<1>5. ASSUME NEW l \in Texts PROVE WriteName(<<l>> \o v) = WithLength(l) \o WriteName(v)
  <2>1. WriteName(<<l>> \o v) = WithLengths(<<l>> \o v) \o << 0 >>
    BY DEF WriteName, WithLengths
  <2>2. WithLength(l) \in Texts
    BY WithLengthType
  <2>3. WithLengths(<<l>> \o v) = WithLength(l) \o WithLengths(v)
    BY WithLengthsOf
  <2>4. (WithLength(l) \o WithLengths(v)) \o << 0 >> = WithLength(l) \o (WithLengths(v) \o << 0 >>)
    BY <1>3, <2>2, TextsAppend
  <2> QED BY <1>1, <2>1, <2>3, <2>4
<1> QED BY <1>4, <1>5

LEMMA WriteNoName == WriteName(<<>>) = << 0 >>
<1>1. WriteName(<<>>) = WithLengths(<<>>) \o << 0 >>
  BY DEF WriteName, WithLengths
<1>2. <<>> \o << 0 >> = << 0 >>
  OBVIOUS
<1> QED BY <1>1, <1>2, NoLengths

-----------------------------------------------------------------------------
(* Names, read and written                                                 *)

\* Wherever w stands in a message, the name there is v and ends where w does.
NameCarries(v, w) ==
    /\ w \in Texts
    /\ \A m \in Texts : \A p \in Nat :
          Spells(m, p, w) => NameAt(m, p, 0) = Item(v, p + Len(w))

LEMMA NameStands ==
  ASSUME NEW m \in Texts, NEW p \in Nat, NEW n \in Nat
  PROVE  NameAt(m, p, n) \in NameItems
BY ReaderOfLabels, NamesStand

\* A name without pointers, one label at a time.
LEMMA PlainName ==
  ASSUME NEW m \in Texts, NEW p \in Nat
  PROVE  LET b == OctetAt(m, p)
             label == Slice(m, p + 1, b)
         IN  NameAt(m, p, 0) =
                IF p >= Len(m) THEN No
                ELSE IF b = 0 THEN Item(<<>>, p + 1)
                ELSE IF OpensLabel(b) /\ p + b < Len(m) /\ ToSet(label) \intersect NotUtf8 = {}
                THEN FirstThen(LowerCase(label), NameAt(m, p + b + 1, 0))
                ELSE No
<1>1. 0 \in Nat /\ ~(0 > 0)
  OBVIOUS
<1>2. LabelReader(m)[<<p, 0>>] = LabelStep(LabelReader(m), m, <<p, 0>>)
  BY <1>1, NamesStand
<1>3. \A q : NameAt(m, q, 0) = LabelReader(m)[<<q, 0>>]
  BY ReaderOfLabels
<1> QED BY <1>1, <1>2, <1>3 DEF LabelStep

LEMMA RootCarries == NameCarries(<<>>, << 0 >>)
<1>1. 0 \in Octets
  BY CodecAssumption DEF Octets
<1>2. << 0 >> \in Texts /\ Len(<< 0 >>) = 1 /\ << 0 >>[1] = 0
  BY <1>1, OneOctet
<1>3. ASSUME NEW m \in Texts, NEW p \in Nat, Spells(m, p, << 0 >>)
      PROVE  NameAt(m, p, 0) = Item(<<>>, p + 1)
  <2>1. p + 1 <= Len(m) /\ OctetAt(m, p) = 0 /\ Len(m) \in Nat
    BY <1>2, <1>3, LengthOf DEF Spells, OctetAt
  <2> QED BY <2>1, PlainName
<1> QED BY <1>2, <1>3 DEF NameCarries

LEMMA LabelCarries ==
  ASSUME NEW l \in Texts, OpensLabel(Len(l)), ToSet(l) \intersect NotUtf8 = {},
         NEW v, NEW w, NameCarries(v, w)
  PROVE  NameCarries(<<LowerCase(l)>> \o v, <<Len(l)>> \o (l \o w))
<1> DEFINE b == Len(l)
           r == l \o w
           t == <<b>> \o r
<1>1. b \in Octets /\ b \in Nat /\ b # 0 /\ OpensLabel(b)
  <2>1. Octet \div 4 <= Octet /\ Octet \in Nat /\ Octet \div 4 \in Nat
    BY CodecAssumption
  <2> QED BY <2>1, LengthOf DEF OpensLabel, Octets
<1>2. w \in Texts /\ Len(w) \in Nat
  BY LengthOf DEF NameCarries
<1>3. r \in Texts /\ Len(r) = b + Len(w)
  BY <1>2, Appended
<1> HIDE DEF r
<1>4. t \in Texts /\ Len(t) = 1 + (b + Len(w))
  <2>1. <<b>> \in Texts /\ Len(<<b>>) = 1
    BY <1>1, OneOctet
  <2> QED BY <1>3, <2>1, Appended
<1>5. ASSUME NEW m \in Texts, NEW p \in Nat, Spells(m, p, t)
      PROVE  NameAt(m, p, 0) = Item(<<LowerCase(l)>> \o v, p + Len(t))
  <2> HIDE DEF b
  <2>1. Has(m, p, 1) /\ OctetAt(m, p) = b /\ Spells(m, p + 1, r) /\ p + 1 \in Nat
    BY <1>1, <1>3, <1>5, SpellsFirst
  <2>2. Spells(m, p + 1, l) /\ Spells(m, (p + 1) + b, w) /\ (p + 1) + b \in Nat
    BY <1>2, <2>1, SpellsTwo DEF r, b
  <2>3. Has(m, p + 1, b) /\ Slice(m, p + 1, b) = l
    BY <2>1, <2>2, SpellsSlice DEF b
  <2>4. p < Len(m) /\ p + b < Len(m) /\ (p + 1) + b = p + b + 1 /\ Len(m) \in Nat
    BY <1>1, <2>1, <2>3, LengthOf DEF Has
  <2>5. NameAt(m, p + b + 1, 0) = Item(v, (p + b + 1) + Len(w))
    BY <2>2, <2>4 DEF NameCarries
  <2>6. NameAt(m, p, 0) = FirstThen(LowerCase(l), NameAt(m, p + b + 1, 0))
    <3>1. NameAt(m, p, 0) =
            LET label == Slice(m, p + 1, b)
            IN  IF p >= Len(m) THEN No
                ELSE IF b = 0 THEN Item(<<>>, p + 1)
                ELSE IF OpensLabel(b) /\ p + b < Len(m) /\ ToSet(label) \intersect NotUtf8 = {}
                THEN FirstThen(LowerCase(label), NameAt(m, p + b + 1, 0))
                ELSE No
      BY <2>1, PlainName
    <3> QED BY <1>1, <2>3, <2>4, <3>1
  <2>7. NameAt(m, p, 0) = Item(<<LowerCase(l)>> \o v, (p + b + 1) + Len(w))
    BY <2>5, <2>6 DEF FirstThen, Given, Item
  <2>8. (p + b + 1) + Len(w) = p + Len(t)
    BY <1>1, <1>2, <1>4 DEF b
  <2> QED BY <2>7, <2>8
<1>6. t \in Texts
  BY <1>4
<1>7. \A m \in Texts : \A p \in Nat :
         Spells(m, p, t) => NameAt(m, p, 0) = Item(<<LowerCase(l)>> \o v, p + Len(t))
  BY <1>5
<1>8. NameCarries(<<LowerCase(l)>> \o v, t)
  <2> HIDE DEF t, b
  <2> QED BY <1>6, <1>7 DEF NameCarries
<1> QED BY <1>8 DEF t, b, r

\* Lower case is lower case and a text.
LEMMA LowerCaseTwice ==
  ASSUME NEW l \in Texts, ToSet(l) \intersect NotUtf8 = {}
  PROVE  /\ LowerCase(LowerCase(l)) = LowerCase(l)
         /\ ToSet(LowerCase(l)) \intersect NotUtf8 = {}
<1> DEFINE k == LowerCase(l)
<1>1. DOMAIN l = 1 .. Len(l) /\ \A i \in DOMAIN l : l[i] \in Octets
  BY LengthOf, ElementOfSeq DEF Texts
<1>2. k = [i \in DOMAIN l |-> LowerOctet[l[i]]]
  BY DEF LowerCase
<1>3. \A i \in DOMAIN l : l[i] \notin NotUtf8
  BY DEF ToSet
<1>4. \A i \in DOMAIN l : LowerOctet[LowerOctet[l[i]]] = LowerOctet[l[i]]
                          /\ LowerOctet[l[i]] \notin NotUtf8
  BY <1>1, <1>3, TextAssumption DEF Octets
<1> HIDE DEF k
<1>5. LowerCase(k) = k
  BY <1>2, <1>4 DEF LowerCase
<1>6. ToSet(k) \intersect NotUtf8 = {}
  BY <1>2, <1>4 DEF ToSet
<1> QED BY <1>5, <1>6 DEF k

\* A name without pointers is as long as what is written of it; it means the same
\* wherever it is copied to, and so does what is written of it.
Renders(m, p) ==
    LET name == NameAt(m, p, 0)
    IN  name.good =>
           /\ name.says \in Labels /\ name.end \in Nat
           /\ p < name.end /\ name.end <= Len(m)
           /\ Len(WriteName(name.says)) = name.end - p
           /\ NameCarries(name.says, WriteName(name.says))
           /\ NameCarries(name.says, Slice(m, p, name.end - p))

LEMMA NamesRender ==
  ASSUME NEW m \in Texts, NEW p \in Nat
  PROVE  Renders(m, p)
<1> DEFINE mu == [q \in Nat |-> LabelMeasure(m)[<<q, 0>>]]
           S == {q \in Nat : Renders(m, q)}
<1>1. ASSUME NEW q \in Nat, \A k \in Nat : mu[k] < mu[q] => k \in S
      PROVE  q \in S
  <2> DEFINE b == OctetAt(m, q)
             label == Slice(m, q + 1, b)
             name == NameAt(m, q, 0)
             rest == NameAt(m, q + b + 1, 0)
  <2> SUFFICES ASSUME name.good PROVE Renders(m, q)
    BY DEF Renders
  <2>1. Len(m) \in Nat /\ No.good = FALSE
    BY LengthOf DEF No
  <2>2. name = IF q >= Len(m) THEN No
               ELSE IF b = 0 THEN Item(<<>>, q + 1)
               ELSE IF OpensLabel(b) /\ q + b < Len(m) /\ ToSet(label) \intersect NotUtf8 = {}
               THEN FirstThen(LowerCase(label), rest)
               ELSE No
    BY PlainName
  <2>3. q < Len(m) /\ Has(m, q, 1)
    BY <2>1, <2>2 DEF Has
  <2>4. b \in Octets /\ b \in Nat
    <3>1. b \in Octets
      BY <2>3, OctetsOf
    <3> QED BY <3>1, CodecAssumption DEF Octets
  <2> HIDE DEF name, rest, b, label
  <2>5. CASE b = 0
    <3>1. name = Item(<<>>, q + 1)
      BY <2>1, <2>2, <2>3, <2>5
    <3>2. Slice(m, q, 1) = << 0 >>
      BY <2>3, <2>5, SliceOne DEF b
    <3>3. <<>> \in Labels /\ Len(<< 0 >>) = 1
      BY DEF Labels
    <3>4. name.good /\ name.says = <<>> /\ name.end = q + 1 /\ name.end - q = 1
      BY <3>1 DEF Item
    <3>5. /\ name.end \in Nat /\ q < name.end /\ name.end <= Len(m)
          /\ Len(WriteName(name.says)) = name.end - q
      BY <2>1, <2>3, <3>3, <3>4, WriteNoName
    <3>6. /\ NameCarries(name.says, WriteName(name.says))
          /\ NameCarries(name.says, Slice(m, q, name.end - q))
      BY <3>2, <3>4, WriteNoName, RootCarries
    <3> QED BY <3>3, <3>4, <3>5, <3>6 DEF Renders, name
  <2>6. CASE b # 0
    <3>1. OpensLabel(b) /\ q + b < Len(m) /\ ToSet(label) \intersect NotUtf8 = {}
          /\ name = FirstThen(LowerCase(label), rest)
      BY <2>1, <2>2, <2>6
    <3>2. q + b + 1 \in Nat /\ q < q + b + 1
      BY <2>4
    <3>3. Renders(m, q + b + 1) /\ rest \in NameItems
      <4>1. LabelMeasure(m)[<<q + b + 1, 0>>] < LabelMeasure(m)[<<q, 0>>]
        BY <2>3, <3>2, LabelMeasureFalls
      <4>2. mu[q + b + 1] < mu[q]
        BY <3>2, <4>1
      <4> HIDE DEF mu
      <4> QED BY <1>1, <3>2, <4>2, NameStands DEF rest
    <3> DEFINE v == rest.says
               e == rest.end
               l == LowerCase(label)
    <3>4. rest.good /\ name.says = <<l>> \o v /\ name.end = e
      BY <3>1, <3>3 DEF FirstThen, Given, NameItems, No, Item
    <3>5. /\ v \in Labels /\ e \in Nat /\ q + b + 1 < e /\ e <= Len(m)
          /\ Len(WriteName(v)) = e - (q + b + 1)
          /\ NameCarries(v, WriteName(v))
          /\ NameCarries(v, Slice(m, q + b + 1, e - (q + b + 1)))
      BY <3>3, <3>4 DEF Renders, rest
    <3>6. Has(m, q + 1, b) /\ label \in Texts /\ Len(label) = b
      <4>1. Has(m, q + 1, b)
        BY <2>1, <2>4, <3>1 DEF Has
      <4> QED BY <2>4, <4>1, OctetsOf DEF label
    <3>7. l \in Texts /\ Len(l) = b /\ LowerCase(l) = l /\ ToSet(l) \intersect NotUtf8 = {}
      BY <3>1, <3>6, LowerCaseType, LowerCaseTwice
    <3> HIDE DEF v, e, l
    <3>8. WriteName(<<l>> \o v) = <<b>> \o (l \o WriteName(v))
      <4>1. WriteName(<<l>> \o v) = WithLength(l) \o WriteName(v) /\ WriteName(v) \in Texts
        BY <3>5, <3>7, WriteNameType
      <4>2. WithLength(l) = <<b>> \o l
        BY <2>4, <3>7, WithLengthType
      <4>3. <<b>> \in Texts
        BY <2>4, OneOctet
      <4>4. (<<b>> \o l) \o WriteName(v) = <<b>> \o (l \o WriteName(v))
        BY <3>7, <4>1, <4>3, TextsAppend
      <4> QED BY <4>1, <4>2, <4>4
    <3>9. NameCarries(<<l>> \o v, WriteName(<<l>> \o v))
      BY <3>1, <3>5, <3>7, <3>8, LabelCarries
    <3>10. Len(WriteName(<<l>> \o v)) = e - q
      <4>1. WriteName(v) \in Texts /\ <<b>> \in Texts /\ Len(<<b>>) = 1
        BY <2>4, <3>5, OneOctet, WriteNameType
      <4>2. l \o WriteName(v) \in Texts /\ Len(l \o WriteName(v)) = b + Len(WriteName(v))
        <5> DEFINE w == WriteName(v)
        <5>1. l \in Texts /\ w \in Texts /\ Len(l) = b
          BY <3>7, <4>1
        <5> HIDE DEF l, w
        <5>2. l \o w \in Texts /\ Len(l \o w) = Len(l) + Len(w)
          BY <5>1, Appended
        <5> QED BY <5>1, <5>2 DEF w
      <4>3. Len(<<b>> \o (l \o WriteName(v))) = 1 + Len(l \o WriteName(v))
        BY <4>1, <4>2, Appended
      <4>4. 1 + (b + (e - (q + b + 1))) = e - q
        BY <2>4, <3>5
      <4> QED BY <3>5, <3>8, <4>2, <4>3, <4>4
    <3> DEFINE z == Slice(m, q + b + 1, e - (q + b + 1))
    <3>11. Slice(m, q, e - q) = <<b>> \o (label \o z)
      <4> DEFINE k == e - (q + b + 1)
      <4>1. k \in Nat /\ e - q = (b + k) + 1 /\ b + k \in Nat /\ (q + 1) + b = q + b + 1
        BY <2>4, <3>2, <3>5
      <4>2. Has(m, q, (b + k) + 1)
        BY <3>5, <4>1 DEF Has
      <4> HIDE DEF k
      <4>3. Slice(m, q, (b + k) + 1) = <<b>> \o Slice(m, q + 1, b + k) /\ Has(m, q + 1, b + k)
        BY <4>1, <4>2, SliceFirst DEF b
      <4>4. Slice(m, q + 1, b + k) = label \o Slice(m, (q + 1) + b, k)
        BY <2>4, <4>1, <4>3, SliceTwo DEF label
      <4> QED BY <4>1, <4>3, <4>4 DEF k
    <3>12. NameCarries(<<l>> \o v, Slice(m, q, e - q))
      BY <3>1, <3>5, <3>6, <3>11, LabelCarries DEF l
    <3>13. <<l>> \o v \in Labels
      BY <3>5, <3>7, FirstAndRest DEF Labels
    <3>14. q < e
      BY <2>4, <3>5
    <3> QED BY <3>4, <3>5, <3>9, <3>10, <3>12, <3>13, <3>14 DEF Renders, name
  <2> QED BY <2>5, <2>6
<1>2. \A q \in Nat : mu[q] \in Nat
  BY NamesStand
<1> HIDE DEF S, mu
<1>3. \A q \in Nat : q \in S
  <2>1. Inductive(Nat, mu, S)
    BY <1>1, <1>2 DEF Inductive
  <2> QED BY <2>1, Induction
<1> QED BY <1>3 DEF S

LEMMA PlainNamesAreRead ==
  ASSUME NEW m \in Texts, NEW p \in Nat, NameAt(m, p, 0).good
  PROVE  ReadName(m, p) = Ok(NameAt(m, p, 0).says, NameAt(m, p, 0).end)
<1> DEFINE name == NameAt(m, p, 0)
           read == ReadName(m, p)
<1>1. name = LabelReader(m)[<<p, 0>>] /\ read = NameReader(m)[<<p, 0>>]
  BY ReaderOfLabels, ReaderOfNames
<1>2. Agrees(m, p, 0)
  BY NamesAgree
<1>3. read \in NameResults
  BY <1>1, NamesRead
<1>4. 0 \in Nat /\ 0 + 0 <= MaxJumps
  BY CodecAssumption
<1> HIDE DEF name, read
<1>5. read.ok = "ok" /\ read.value = name.says /\ read.next = name.end
  BY <1>1, <1>2, <1>4 DEF Agrees, name
<1>6. read = Ok(read.value, read.next)
  BY <1>3, <1>5 DEF NameResults, Ok, Err
<1> QED BY <1>5, <1>6 DEF name, read

-----------------------------------------------------------------------------
(* The strings of a TXT record                                             *)

StringsStep(r, m, e, q) ==
    LET b == OctetAt(m, q)
    IN  IF q = e THEN Item(<<>>, e)
        ELSE IF q < e /\ q + b < e
        THEN FirstThen(Slice(m, q + 1, b), r[q + b + 1])
        ELSE No

StringReader(m, e) ==
    CHOOSE strings : strings = [q \in Nat |-> StringsStep(strings, m, e, q)]

StringMeasure(e) == [q \in Nat |-> IF q < e THEN e - q ELSE 0]

LEMMA ReaderOfStrings ==
  ASSUME NEW m, NEW p, NEW e
  PROVE  StringsIn(m, p, e) = StringReader(m, e)[p]
BY DEF StringsIn, StringReader, StringsStep

LEMMA FirstThenType ==
  ASSUME NEW v \in Texts, NEW i \in NameItems
  PROVE  /\ FirstThen(v, i) \in NameItems
         /\ i.good => FirstThen(v, i) = Item(Cons(v, i.says), i.end)
         /\ FirstThen(v, i).good => i.good
<1>1. CASE i = No
  BY <1>1 DEF FirstThen, Given, No, NameItems
<1>2. CASE i \in [good : {TRUE}, says : Labels, end : Nat]
  <2>1. PICK vs \in Labels, e \in Nat : i = Item(vs, e)
    BY <1>2 DEF Item
  <2>2. <<v>> \o vs \in Labels
    BY DEF Labels
  <2>3. FirstThen(v, i) = Item(<<v>> \o vs, e) /\ i.good /\ i.says = vs /\ i.end = e
    BY <2>1 DEF FirstThen, Given, Item
  <2> QED BY <2>2, <2>3 DEF NameItems, Item, Cons
<1> QED BY <1>1, <1>2 DEF NameItems

\* Where the strings up to e begin, if there is one.
LEMMA StringHere ==
  ASSUME NEW m \in Texts, NEW e \in Nat, e <= Len(m), NEW q \in Nat, q < e
  PROVE  LET b == OctetAt(m, q)
         IN  /\ b \in Octets /\ b \in Nat /\ q + b + 1 \in Nat
             /\ StringMeasure(e)[q + b + 1] < StringMeasure(e)[q]
             /\ q + b < e => /\ Has(m, q, 1) /\ Has(m, q + 1, b)
                             /\ Slice(m, q + 1, b) \in Texts /\ Len(Slice(m, q + 1, b)) = b
<1> DEFINE b == OctetAt(m, q)
<1>1. Has(m, q, 1) /\ Len(m) \in Nat
  BY LengthOf DEF Has
<1>2. b \in Octets
  BY <1>1, OctetsOf
<1>3. b \in Nat /\ q + b + 1 \in Nat /\ q < q + b + 1
  BY <1>2, CodecAssumption DEF Octets
<1> HIDE DEF b
<1>4. StringMeasure(e)[q + b + 1] < StringMeasure(e)[q]
  BY <1>3 DEF StringMeasure
<1>5. ASSUME q + b < e PROVE Has(m, q + 1, b)
  BY <1>1, <1>3, <1>5 DEF Has
<1>6. ASSUME q + b < e
      PROVE  Slice(m, q + 1, b) \in Texts /\ Len(Slice(m, q + 1, b)) = b
  BY <1>3, <1>5, <1>6, OctetsOf
<1> QED BY <1>1, <1>2, <1>3, <1>4, <1>5, <1>6 DEF b

\* The equation that defines the strings has a solution.
LEMMA StringsStand ==
  ASSUME NEW m \in Texts, NEW e \in Nat, e <= Len(m), NEW q \in Nat
  PROVE  /\ StringsIn(m, q, e) = StringsStep(StringReader(m, e), m, e, q)
         /\ StringsIn(m, q, e) \in NameItems
         /\ StringMeasure(e)[q] \in Nat
<1> DEFINE D == Nat
           V == NameItems
           mu == StringMeasure(e)
           F == [f \in [D -> V] |-> [x \in D |-> StringsStep(f, m, e, x)]]
           strings == StringReader(m, e)
<1>1. mu \in [D -> Nat]
  BY DEF StringMeasure
<1>2. ASSUME NEW f, NEW x \in D, \A y \in D : mu[y] < mu[x] => f[y] \in V
      PROVE  StringsStep(f, m, e, x) \in V
  <2>1. CASE x = e
    BY <2>1 DEF StringsStep, NameItems, Item, Labels
  <2>2. CASE x < e
    <3> DEFINE b == OctetAt(m, x)
    <3>1. b \in Nat /\ x + b + 1 \in Nat /\ mu[x + b + 1] < mu[x]
          /\ (x + b < e => Slice(m, x + 1, b) \in Texts)
      BY <2>2, StringHere
    <3>2. f[x + b + 1] \in V
      BY <1>2, <3>1
    <3> HIDE DEF b
    <3>3. x + b < e => FirstThen(Slice(m, x + 1, b), f[x + b + 1]) \in V
      BY <3>1, <3>2, FirstThenType
    <3>4. No \in V
      BY DEF NameItems
    <3> QED BY <2>2, <3>3, <3>4 DEF StringsStep, b
  <2>3. CASE ~(x = e) /\ ~(x < e)
    BY <2>3 DEF StringsStep, NameItems
  <2> QED BY <2>1, <2>2, <2>3
<1>3. ASSUME NEW g, NEW h, NEW x \in D, \A y \in D : mu[y] < mu[x] => g[y] = h[y]
      PROVE  StringsStep(g, m, e, x) = StringsStep(h, m, e, x)
  <2>1. CASE x < e
    <3> DEFINE b == OctetAt(m, x)
    <3>1. b \in Nat /\ x + b + 1 \in Nat /\ mu[x + b + 1] < mu[x]
      BY <2>1, StringHere
    <3>2. g[x + b + 1] = h[x + b + 1]
      BY <1>3, <3>1
    <3> QED BY <3>2 DEF StringsStep
  <2>2. CASE ~(x < e)
    BY <2>2 DEF StringsStep
  <2> QED BY <2>1, <2>2
<1> HIDE DEF mu, V
<1>4. F \in [[D -> V] -> [D -> V]]
  BY <1>2
<1>5. Local(F, D, V, mu)
  BY <1>3 DEF Local
<1>6. V # {}
  BY DEF V, NameItems
<1>7. Solvable(F, D, V)
  <2> HIDE DEF F, D
  <2> QED BY <1>1, <1>4, <1>5, <1>6, Recursion, Zenon
<1>8. \E f : f = [x \in D |-> StringsStep(f, m, e, x)]
  BY <1>7 DEF Solvable
<1>9. strings = [x \in D |-> StringsStep(strings, m, e, x)]
  BY <1>8 DEF StringReader
<1> HIDE DEF strings, F
<1>10. \A x \in D : strings[x] = StringsStep(strings, m, e, x)
  BY <1>9
<1>11. \A x \in D : strings[x] \in V
  <2> DEFINE S == {x \in D : strings[x] \in V}
  <2>1. ASSUME NEW x \in D, \A y \in D : mu[y] < mu[x] => y \in S
        PROVE  x \in S
    BY <1>2, <1>10, <2>1
  <2>2. \A x \in D : mu[x] \in Nat
    BY <1>1
  <2> HIDE DEF S, D, mu
  <2>3. \A x \in D : x \in S
    <3>1. Inductive(D, mu, S)
      BY <2>1, <2>2 DEF Inductive
    <3> QED BY <3>1, Induction
  <2> QED BY <2>3 DEF S
<1> QED BY <1>1, <1>10, <1>11, ReaderOfStrings DEF strings, V, mu

\* read_rdata's loop over strings.
TextStep(r, m, length, x) ==
    LET p == x[1]
        done == x[2]
        n == OctetAt(m, p)
    IN  IF done >= length THEN Ok(<<>>, p)
        ELSE IF ~Has(m, p, 1) \/ ~Has(m, p + 1, n) THEN Panic
        ELSE Before(LossyText(Slice(m, p + 1, n)), r[<<p + 1 + n, done + 1 + n>>])

TextReader(m, length) ==
    CHOOSE read : read = [x \in Nat \X Nat |-> TextStep(read, m, length, x)]

TextResults == NameResults \union {Panic}

TextMeasure(m) == [x \in Nat \X Nat |-> IF x[1] < Len(m) THEN Len(m) - x[1] ELSE 0]

LEMMA ReaderOfTexts ==
  ASSUME NEW m, NEW start, NEW length
  PROVE  ReadStrings(m, start, length) = TextReader(m, length)[<<start, 0>>]
BY DEF ReadStrings, TextReader, TextStep

LEMMA LossyTextType ==
  ASSUME NEW l \in Texts
  PROVE  /\ LossyText(l) \in Texts
         /\ ToSet(l) \intersect NotUtf8 = {} => LossyText(l) = l
<1> DEFINE t == [i \in DOMAIN l |-> IF l[i] \in NotUtf8 THEN Replacement ELSE <<l[i]>>]
<1>1. DOMAIN l = 1 .. Len(l) /\ Len(l) \in Nat /\ \A i \in DOMAIN l : l[i] \in Octets
  BY LengthOf, ElementOfSeq DEF Texts
<1>2. \A i \in DOMAIN l : <<l[i]>> \in Seq(Octets)
  BY <1>1
<1>3. Replacement \in Seq(Octets)
  BY TextAssumption DEF Octets
<1>4. t \in Seq(Seq(Octets))
  <2>1. \A i \in DOMAIN l : t[i] \in Seq(Octets)
    BY <1>2, <1>3
  <2> QED BY <1>1, <2>1
<1>5. LossyText(l) = FlattenSeq(t)
  BY DEF LossyText
<1>6. LossyText(l) \in Texts
  BY <1>4, <1>5, FlattenType DEF Texts
<1>7. ASSUME ToSet(l) \intersect NotUtf8 = {} PROVE LossyText(l) = l
  <2>1. \A i \in DOMAIN l : l[i] \notin NotUtf8
    BY <1>7 DEF ToSet
  <2>2. t = [i \in DOMAIN l |-> <<l[i]>>]
    BY <2>1
  <2> HIDE DEF t
  <2>3. FlattenSeq(t) = l
    BY <2>2, FlattenElements DEF Texts
  <2> QED BY <1>5, <2>3
<1> QED BY <1>6, <1>7

LEMMA BeforeType ==
  ASSUME NEW v \in Texts, NEW r \in TextResults
  PROVE  /\ Before(v, r) \in TextResults
         /\ r.ok = "ok" => Before(v, r) = Ok(Cons(v, r.value), r.next)
<1>1. CASE r = Err \/ r = Panic
  BY <1>1 DEF Before, Then, Err, Panic, TextResults, NameResults
<1>2. CASE r \in [ok : {"ok"}, value : Labels, next : Nat]
  <2>1. PICK vs \in Labels, e \in Nat : r = Ok(vs, e)
    BY <1>2 DEF Ok
  <2>2. <<v>> \o vs \in Labels
    BY DEF Labels
  <2>3. Before(v, r) = Ok(<<v>> \o vs, e) /\ r.value = vs /\ r.next = e
    BY <2>1 DEF Before, Then, Ok
  <2> QED BY <2>2, <2>3 DEF TextResults, NameResults, Ok, Cons
<1> QED BY <1>1, <1>2 DEF TextResults, NameResults

\* Where a string that can be read sends the loop.
LEMMA TextHere ==
  ASSUME NEW m \in Texts, NEW p \in Nat, NEW done \in Nat,
         Has(m, p, 1), Has(m, p + 1, OctetAt(m, p))
  PROVE  LET n == OctetAt(m, p)
         IN  /\ n \in Octets /\ n \in Nat
             /\ p + 1 + n \in Nat /\ done + 1 + n \in Nat
             /\ TextMeasure(m)[<<p + 1 + n, done + 1 + n>>] < TextMeasure(m)[<<p, done>>]
             /\ LossyText(Slice(m, p + 1, n)) \in Texts
<1> DEFINE n == OctetAt(m, p)
<1>1. n \in Octets
  BY OctetsOf
<1>2. n \in Nat /\ p + 1 + n \in Nat /\ done + 1 + n \in Nat /\ p < p + 1 + n
  <2>1. n \in Nat
    BY <1>1, CodecAssumption DEF Octets
  <2> HIDE DEF n
  <2> QED BY <2>1
<1>3. p < Len(m) /\ Len(m) \in Nat
  BY LengthOf DEF Has
<1>4. Slice(m, p + 1, n) \in Texts
  BY <1>2, OctetsOf
<1> HIDE DEF n
<1>5. TextMeasure(m)[<<p + 1 + n, done + 1 + n>>] < TextMeasure(m)[<<p, done>>]
  BY <1>2, <1>3 DEF TextMeasure
<1> QED BY <1>1, <1>2, <1>4, <1>5, LossyTextType DEF n

\* The equation that defines the loop has a solution.
LEMMA TextsRead ==
  ASSUME NEW m \in Texts, NEW length \in Nat, NEW p \in Nat, NEW done \in Nat
  PROVE  /\ TextReader(m, length)[<<p, done>>]
               = TextStep(TextReader(m, length), m, length, <<p, done>>)
         /\ TextReader(m, length)[<<p, done>>] \in TextResults
<1> DEFINE D == Nat \X Nat
           V == TextResults
           mu == TextMeasure(m)
           F == [f \in [D -> V] |-> [x \in D |-> TextStep(f, m, length, x)]]
           read == TextReader(m, length)
<1>1. mu \in [D -> Nat]
  BY LengthOf DEF TextMeasure
<1>2. ASSUME NEW f, NEW x \in D, \A y \in D : mu[y] < mu[x] => f[y] \in V
      PROVE  TextStep(f, m, length, x) \in V
  <2>1. PICK q \in Nat, k \in Nat : x = <<q, k>>
    OBVIOUS
  <2> DEFINE n == OctetAt(m, q)
             y == <<q + 1 + n, k + 1 + n>>
             text == LossyText(Slice(m, q + 1, n))
  <2>2. CASE k >= length
    BY <2>1, <2>2 DEF TextStep, TextResults, NameResults, Ok, Labels
  <2>3. CASE ~(k >= length) /\ (~Has(m, q, 1) \/ ~Has(m, q + 1, n))
    BY <2>1, <2>3 DEF TextStep, TextResults
  <2>4. CASE ~(k >= length) /\ Has(m, q, 1) /\ Has(m, q + 1, n)
    <3>1. y \in D /\ mu[y] < mu[x] /\ text \in Texts
      BY <2>1, <2>4, TextHere
    <3>2. f[y] \in V
      BY <1>2, <3>1
    <3>3. TextStep(f, m, length, x) = Before(text, f[y])
      BY <2>1, <2>4 DEF TextStep
    <3> HIDE DEF text, y
    <3> QED BY <3>1, <3>2, <3>3, BeforeType
  <2> QED BY <2>2, <2>3, <2>4
<1>3. ASSUME NEW g, NEW h, NEW x \in D, \A y \in D : mu[y] < mu[x] => g[y] = h[y]
      PROVE  TextStep(g, m, length, x) = TextStep(h, m, length, x)
  <2>1. PICK q \in Nat, k \in Nat : x = <<q, k>>
    OBVIOUS
  <2> DEFINE n == OctetAt(m, q)
             y == <<q + 1 + n, k + 1 + n>>
  <2>2. CASE k >= length \/ ~Has(m, q, 1) \/ ~Has(m, q + 1, n)
    BY <2>1, <2>2 DEF TextStep
  <2>3. CASE Has(m, q, 1) /\ Has(m, q + 1, n)
    <3>1. y \in D /\ mu[y] < mu[x]
      BY <2>1, <2>3, TextHere
    <3>2. g[y] = h[y]
      BY <1>3, <3>1
    <3> QED BY <2>1, <3>2 DEF TextStep
  <2> QED BY <2>2, <2>3
<1> HIDE DEF mu, V
<1>4. F \in [[D -> V] -> [D -> V]]
  BY <1>2
<1>5. Local(F, D, V, mu)
  BY <1>3 DEF Local
<1>6. V # {}
  BY DEF V, TextResults
<1>7. Solvable(F, D, V)
  <2> HIDE DEF F, D
  <2> QED BY <1>1, <1>4, <1>5, <1>6, Recursion, Zenon
<1>8. \E f : f = [x \in D |-> TextStep(f, m, length, x)]
  BY <1>7 DEF Solvable
<1>9. read = [x \in D |-> TextStep(read, m, length, x)]
  BY <1>8 DEF TextReader
<1> HIDE DEF read, F
<1>10. \A x \in D : read[x] = TextStep(read, m, length, x)
  BY <1>9
<1>11. \A x \in D : read[x] \in V
  <2> DEFINE S == {x \in D : read[x] \in V}
  <2>1. ASSUME NEW x \in D, \A y \in D : mu[y] < mu[x] => y \in S
        PROVE  x \in S
    BY <1>2, <1>10, <2>1
  <2>2. \A x \in D : mu[x] \in Nat
    BY <1>1
  <2> HIDE DEF S, D, mu
  <2>3. \A x \in D : x \in S
    <3>1. Inductive(D, mu, S)
      BY <2>1, <2>2 DEF Inductive
    <3> QED BY <3>1, Induction
  <2> QED BY <2>3 DEF S
<1>12. <<p, done>> \in D
  OBVIOUS
<1> QED BY <1>10, <1>11, <1>12 DEF read, V

\* Wherever w stands in a message, the strings there are ss.
StringsCarry(ss, w) ==
    /\ w \in Texts
    /\ \A m \in Texts : \A p \in Nat :
          Spells(m, p, w) => StringsIn(m, p, p + Len(w)) = Item(ss, p + Len(w))

LEMMA NoStringsCarry == StringsCarry(<<>>, <<>>)
<1>1. <<>> \in Texts /\ Len(<<>>) = 0
  BY DEF Texts
<1>2. ASSUME NEW m \in Texts, NEW p \in Nat, Spells(m, p, <<>>)
      PROVE  StringsIn(m, p, p) = Item(<<>>, p)
  <2>1. p <= Len(m)
    BY <1>1, <1>2, LengthOf DEF Spells
  <2> QED BY <2>1, StringsStand DEF StringsStep
<1>3. \A p \in Nat : p + 0 = p
  OBVIOUS
<1> QED BY <1>1, <1>2, <1>3 DEF StringsCarry

LEMMA StringCarries ==
  ASSUME NEW l \in Texts, Len(l) \in Octets, NEW ss, NEW w, StringsCarry(ss, w)
  PROVE  StringsCarry(<<l>> \o ss, <<Len(l)>> \o (l \o w))
<1> DEFINE b == Len(l)
           r == l \o w
           t == <<b>> \o r
<1>1. b \in Octets /\ b \in Nat /\ <<b>> \in Texts /\ Len(<<b>>) = 1
  BY OneOctet, LengthOf
<1>2. w \in Texts /\ Len(w) \in Nat
  BY LengthOf DEF StringsCarry
<1>3. r \in Texts /\ Len(r) = b + Len(w)
  BY <1>2, Appended
<1> HIDE DEF r
<1>4. t \in Texts /\ Len(t) = 1 + (b + Len(w))
  <2>1. <<b>> \in Texts /\ Len(<<b>>) = 1
    BY <1>1
  <2> QED BY <1>3, <2>1, Appended
<1>5. ASSUME NEW m \in Texts, NEW p \in Nat, Spells(m, p, t)
      PROVE  StringsIn(m, p, p + Len(t)) = Item(<<l>> \o ss, p + Len(t))
  <2> HIDE DEF b
  <2>1. Has(m, p, 1) /\ OctetAt(m, p) = b /\ Spells(m, p + 1, r) /\ p + 1 \in Nat
    BY <1>1, <1>3, <1>5, SpellsFirst
  <2>2. Spells(m, p + 1, l) /\ Spells(m, (p + 1) + b, w) /\ (p + 1) + b \in Nat
    BY <1>2, <2>1, SpellsTwo DEF r, b
  <2>3. Slice(m, p + 1, b) = l
    BY <2>1, <2>2, SpellsSlice DEF b
  <2> DEFINE e == p + Len(t)
  <2>4. /\ e \in Nat /\ p < e /\ p + b < e /\ (p + 1) + b = p + b + 1
        /\ e = (p + b + 1) + Len(w)
    BY <1>1, <1>2, <1>4
  <2>5. e <= Len(m)
    BY <1>5 DEF Spells
  <2>6. StringsIn(m, p + b + 1, e) = Item(ss, e)
    BY <2>2, <2>4 DEF StringsCarry
  <2> HIDE DEF e
  <2>7. StringsIn(m, p, e) = StringsStep(StringReader(m, e), m, e, p)
    BY <2>4, <2>5, StringsStand
  <2>8. StringsIn(m, p, e) = FirstThen(l, StringReader(m, e)[p + b + 1])
    BY <1>1, <2>1, <2>3, <2>4, <2>7 DEF StringsStep
  <2>9. StringsIn(m, p, e) = FirstThen(l, Item(ss, e))
    BY <2>6, <2>8, ReaderOfStrings
  <2> QED BY <2>9 DEF e, FirstThen, Given, Item
<1>6. t \in Texts
  BY <1>4
<1>7. \A m \in Texts : \A p \in Nat :
         Spells(m, p, t) => StringsIn(m, p, p + Len(t)) = Item(<<l>> \o ss, p + Len(t))
  BY <1>5
<1>8. StringsCarry(<<l>> \o ss, t)
  <2> HIDE DEF t, b
  <2> QED BY <1>6, <1>7 DEF StringsCarry
<1> QED BY <1>8 DEF t, b, r

LEMMA SliceText ==
  ASSUME NEW m \in Texts, ToSet(m) \intersect NotUtf8 = {},
         NEW p \in Nat, NEW n \in Nat, Has(m, p, n)
  PROVE  ToSet(Slice(m, p, n)) \intersect NotUtf8 = {}
<1> DEFINE s == Slice(m, p, n)
<1>1. s \in Texts /\ Len(s) = n /\ \A i \in 1 .. n : s[i] = m[p + i]
  BY OctetsOf
<1>2. DOMAIN m = 1 .. Len(m) /\ DOMAIN s = 1 .. n /\ Len(m) \in Nat
  BY <1>1, LengthOf
<1>3. \A i \in DOMAIN m : m[i] \notin NotUtf8
  BY DEF ToSet
<1> HIDE DEF s
<1>4. ASSUME NEW i \in 1 .. n PROVE s[i] \notin NotUtf8
  <2>1. p + i \in DOMAIN m
    BY <1>2 DEF Has
  <2> QED BY <1>1, <1>3, <2>1
<1> QED BY <1>2, <1>4 DEF ToSet, s

\* The strings of a plain message are read as they are, up to their end; what is
\* written of them is what stood there, and says the same anywhere.
StringsRender(m, start, length, q) ==
    LET e == start + length
        strings == StringsIn(m, q, e)
    IN  q >= start /\ strings.good =>
           /\ strings.says \in Labels /\ strings.end = e /\ q <= e
           /\ WithLengths(strings.says) = Slice(m, q, e - q)
           /\ StringsCarry(strings.says, Slice(m, q, e - q))
           /\ TextReader(m, length)[<<q, q - start>>] = Ok(strings.says, e)

LEMMA StringsAreRead ==
  ASSUME NEW m \in Texts, ToSet(m) \intersect NotUtf8 = {},
         NEW start \in Nat, NEW length \in Nat, start + length <= Len(m), NEW p \in Nat
  PROVE  StringsRender(m, start, length, p)
<1> DEFINE e == start + length
           mu == StringMeasure(e)
           S == {q \in Nat : StringsRender(m, start, length, q)}
<1>0. e \in Nat /\ Len(m) \in Nat /\ e <= Len(m)
  BY LengthOf
<1>1. ASSUME NEW q \in Nat, \A k \in Nat : mu[k] < mu[q] => k \in S
      PROVE  q \in S
  <2> DEFINE b == OctetAt(m, q)
             label == Slice(m, q + 1, b)
             rest == StringsIn(m, q + b + 1, e)
             strings == StringsIn(m, q, e)
             read == TextReader(m, length)[<<q, q - start>>]
  <2> SUFFICES ASSUME q >= start, strings.good
               PROVE  /\ strings.says \in Labels /\ strings.end = e /\ q <= e
                      /\ WithLengths(strings.says) = Slice(m, q, e - q)
                      /\ StringsCarry(strings.says, Slice(m, q, e - q))
                      /\ read = Ok(strings.says, e)
    BY DEF StringsRender
  <2>1. strings = StringsStep(StringReader(m, e), m, e, q) /\ No.good = FALSE
    BY <1>0, StringsStand DEF No
  <2>2. strings = IF q = e THEN Item(<<>>, e)
                  ELSE IF q < e /\ q + b < e THEN FirstThen(label, rest)
                  ELSE No
    BY <2>1, ReaderOfStrings DEF StringsStep
  <2>3. read = TextStep(TextReader(m, length), m, length, <<q, q - start>>)
        /\ q - start \in Nat
    BY TextsRead
  <2> HIDE DEF strings, read, e, mu, S
  <2>4. CASE q = e
    <3>1. strings = Item(<<>>, e)
      BY <2>2, <2>4
    <3>2. read = Ok(<<>>, q)
      <4>1. q - start >= length
        BY <2>4 DEF e
      <4> QED BY <2>3, <4>1 DEF TextStep
    <3>3. Slice(m, q, e - q) = <<>>
      <4>1. e - q = 0 /\ q + 0 = q /\ q < q + 1
        BY <1>0, <2>4
      <4>2. SubSeq(m, q + 1, q) = <<>>
        BY <4>1, SubSeqEmpty DEF Texts
      <4> QED BY <4>1, <4>2 DEF Slice
    <3>4. <<>> \in Labels
      BY DEF Labels
    <3> QED BY <1>0, <2>4, <3>1, <3>2, <3>3, <3>4, NoLengths, NoStringsCarry DEF Item
  <2>5. CASE q # e
    <3>1. q < e /\ q + b < e /\ strings = FirstThen(label, rest)
      BY <2>1, <2>2, <2>5
    <3>2. /\ b \in Octets /\ b \in Nat /\ q + b + 1 \in Nat
          /\ mu[q + b + 1] < mu[q]
          /\ Has(m, q, 1) /\ Has(m, q + 1, b) /\ label \in Texts /\ Len(label) = b
      BY <1>0, <3>1, StringHere DEF mu
    <3> HIDE DEF b, label, rest
    <3>3. StringsRender(m, start, length, q + b + 1)
      BY <1>1, <3>2 DEF S
    <3>4. rest \in NameItems
      BY <1>0, <3>2, StringsStand DEF rest
    <3> DEFINE ss == rest.says
    <3>5. rest.good /\ strings.says = <<label>> \o ss /\ strings.end = rest.end
      <4>1. rest.good /\ strings = Item(Cons(label, ss), rest.end)
        BY <3>1, <3>2, <3>4, FirstThenType
      <4> QED BY <4>1 DEF Item, Cons
    <3>6. q + b + 1 >= start
      BY <3>2
    <3> DEFINE z == Slice(m, q + b + 1, e - (q + b + 1))
               more == TextReader(m, length)[<<q + b + 1, (q + b + 1) - start>>]
    <3>7. /\ ss \in Labels /\ rest.end = e /\ q + b + 1 <= e
          /\ WithLengths(ss) = z /\ StringsCarry(ss, z) /\ more = Ok(ss, e)
      BY <3>3, <3>5, <3>6 DEF StringsRender, rest, e
    <3> HIDE DEF ss, z, more
    <3>8. Slice(m, q, e - q) = <<b>> \o (label \o z)
      <4> DEFINE k == e - (q + b + 1)
      <4>1. k \in Nat /\ e - q = (b + k) + 1 /\ b + k \in Nat /\ (q + 1) + b = q + b + 1
        BY <1>0, <3>2, <3>7
      <4>2. Has(m, q, (b + k) + 1)
        <5>1. q + (e - q) <= Len(m)
          BY <1>0
        <5> QED BY <4>1, <5>1 DEF Has
      <4> HIDE DEF k
      <4>3. Slice(m, q, (b + k) + 1) = <<b>> \o Slice(m, q + 1, b + k) /\ Has(m, q + 1, b + k)
        BY <4>1, <4>2, SliceFirst DEF b
      <4>4. Slice(m, q + 1, b + k) = label \o Slice(m, (q + 1) + b, k)
        <5>1. q + 1 \in Nat /\ b \in Nat /\ k \in Nat /\ Has(m, q + 1, b + k)
          BY <3>2, <4>1, <4>3
        <5>2. Slice(m, q + 1, b + k) = Slice(m, q + 1, b) \o Slice(m, (q + 1) + b, k)
          BY <5>1, SliceTwo
        <5> QED BY <5>2 DEF label
      <4>5. z = Slice(m, (q + 1) + b, k)
        BY <4>1 DEF z, k
      <4>6. Slice(m, q, e - q) = Slice(m, q, (b + k) + 1)
        BY <4>1
      <4> QED BY <4>3, <4>4, <4>5, <4>6
    <3>9. StringsCarry(<<label>> \o ss, Slice(m, q, e - q))
      BY <3>2, <3>7, <3>8, StringCarries
    <3>10. WithLengths(<<label>> \o ss) = Slice(m, q, e - q)
      <4>1. WithLengths(<<label>> \o ss) = WithLength(label) \o z
        BY <3>2, <3>7, WithLengthsOf
      <4>2. WithLength(label) = <<b>> \o label
        BY <3>2, WithLengthType
      <4>3. z \in Texts /\ <<b>> \in Texts
        BY <3>2, <3>7, OneOctet DEF StringsCarry
      <4>4. (<<b>> \o label) \o z = <<b>> \o (label \o z)
        BY <3>2, <4>3, TextsAppend
      <4> QED BY <3>8, <4>1, <4>2, <4>4
    <3>11. read = Ok(<<label>> \o ss, e)
      <4>1. ~(q - start >= length)
        BY <3>1 DEF e
      <4>2. LossyText(label) = label
        <5>1. ToSet(label) \intersect NotUtf8 = {}
          BY <3>2, SliceText DEF label
        <5> QED BY <3>2, <5>1, LossyTextType
      <4>3. q + 1 + b = q + b + 1 /\ (q - start) + 1 + b = (q + b + 1) - start
        BY <3>2
      <4>4. read = Before(LossyText(label), TextReader(m, length)[<<q + 1 + b, (q - start) + 1 + b>>])
        BY <2>3, <3>2, <4>1 DEF TextStep, b, label
      <4>5. read = Before(label, Ok(ss, e))
        BY <3>7, <4>2, <4>3, <4>4 DEF more
      <4> QED BY <4>5 DEF Before, Then, Ok
    <3>12. <<label>> \o ss \in Labels
      BY <3>2, <3>7, FirstAndRest DEF Labels
    <3>13. q <= e
      BY <1>0, <3>1
    <3> QED BY <3>5, <3>7, <3>9, <3>10, <3>11, <3>12, <3>13
  <2> QED BY <2>4, <2>5
<1>2. \A q \in Nat : mu[q] \in Nat
  BY <1>0, StringsStand
<1> HIDE DEF S, mu
<1>3. \A q \in Nat : q \in S
  <2>1. Inductive(Nat, mu, S)
    BY <1>1, <1>2 DEF Inductive
  <2> QED BY <2>1, Induction
<1> QED BY <1>3 DEF S

-----------------------------------------------------------------------------
(* Questions and records                                                   *)

Results(T) == {Err, Panic} \union [ok : {"ok"}, value : T, next : Nat]

Numbers == [known : BOOLEAN, number : Octets]
Questions == [name : Labels, qtype : Numbers, qclass : Numbers]

Preferred == {Cons(o, v) : o \in Octets, v \in Labels}
Contents == Labels \union Texts \union Preferred

\* Data of a type, as it is kept.
DataFits(rtype, short, v) ==
    /\ rtype = CNAME => v \in Labels
    /\ rtype = MX /\ ~short => v \in Preferred
    /\ rtype = TXT => v \in Labels
    /\ rtype \notin {CNAME, TXT} /\ ~(rtype = MX /\ ~short) => v \in Texts

Records ==
    {r \in [name : Labels, rtype : Numbers, rclass : Numbers, ttl : Octets,
            short : BOOLEAN, rdata : Contents] :
        DataFits(r.rtype.number, r.short, r.rdata)}

LEMMA Distinct ==
  /\ CNAME # MX /\ CNAME # TXT /\ MX # TXT /\ CNAME # NS /\ MX # NS /\ TXT # NS
  /\ A # CNAME /\ A # MX /\ A # TXT /\ A # NS
  /\ A \in Octets /\ Octet > 10 /\ Octet \in Nat
BY RecordAssumption, CodecAssumption DEF Octets

LEMMA ResultIs ==
  ASSUME NEW T, NEW r \in Results(T)
  PROVE  \/ r = Err /\ r.ok # "ok"
         \/ r = Panic /\ r.ok # "ok"
         \/ r.ok = "ok" /\ r.value \in T /\ r.next \in Nat /\ r = Ok(r.value, r.next)
BY DEF Results, Err, Panic, Ok

LEMMA OkIs ==
  ASSUME NEW T, NEW v \in T, NEW e \in Nat
  PROVE  Ok(v, e) \in Results(T)
BY DEF Results, Ok

LEMMA NumberType ==
  ASSUME NEW b \in Octets
  PROVE  /\ QueryType(b) \in Numbers /\ QueryClass(b) \in Numbers
         /\ ToU16(QueryType(b)) = b /\ ToU16(QueryClass(b)) = b
         /\ QueryType(b).number = b /\ QueryClass(b).number = b
BY DEF QueryType, QueryClass, ToU16, Numbers

LEMMA ReadNameType ==
  ASSUME NEW m \in Texts, NEW p \in Nat
  PROVE  ReadName(m, p) \in Results(Labels)
<1>1. ReadName(m, p) \in NameResults
  BY ReaderOfNames, NamesRead
<1> QED BY <1>1 DEF NameResults, Results

LEMMA ReadStringsType ==
  ASSUME NEW m \in Texts, NEW p \in Nat, NEW length \in Nat
  PROVE  ReadStrings(m, p, length) \in Results(Labels)
<1>1. ReadStrings(m, p, length) \in TextResults
  BY ReaderOfTexts, TextsRead
<1> QED BY <1>1 DEF TextResults, NameResults, Results

\* Octets below the end of what there is.
LEMMA OctetsUpTo ==
  ASSUME NEW m \in Texts, NEW p \in Nat, NEW n \in Nat, Has(m, p, n)
  PROVE  \A i \in 0 .. n - 1 : OctetAt(m, p + i) \in Octets
<1> SUFFICES ASSUME NEW i \in 0 .. n - 1 PROVE OctetAt(m, p + i) \in Octets
  OBVIOUS
<1>1. p + i \in Nat /\ Has(m, p + i, 1)
  BY LengthOf DEF Has
<1> QED BY <1>1, OctetsOf

LEMMA QuestionType ==
  ASSUME NEW m \in Texts, NEW p \in Nat
  PROVE  ReadQuestion(m, p) \in Results(Questions)
<1> DEFINE r == ReadName(m, p)
<1>1. r \in Results(Labels)
  BY ReadNameType
<1>2. CASE r.ok = "ok"
  <2> DEFINE q == r.next
             v == [name |-> r.value, qtype |-> QueryType(OctetAt(m, q)),
                   qclass |-> QueryClass(OctetAt(m, q + 1))]
  <2>1. r.value \in Labels /\ q \in Nat
    BY <1>1, <1>2, ResultIs
  <2>2. ReadQuestion(m, p) = IF Has(m, q, 2) THEN Ok(v, q + 2) ELSE Err
    BY <1>2 DEF ReadQuestion, Then
  <2>3. ASSUME Has(m, q, 2) PROVE v \in Questions
    <3>1. OctetAt(m, q + 0) \in Octets /\ OctetAt(m, q + 1) \in Octets /\ q + 0 = q
      BY <2>1, <2>3, OctetsUpTo
    <3>2. OctetAt(m, q) \in Octets
      BY <3>1
    <3>3. QueryType(OctetAt(m, q)) \in Numbers /\ QueryClass(OctetAt(m, q + 1)) \in Numbers
      BY <3>1, <3>2, NumberType
    <3> HIDE DEF q
    <3> QED BY <2>1, <3>3 DEF Questions
  <2> HIDE DEF v, q
  <2>4. q + 2 \in Nat /\ Err \in Results(Questions)
    BY <2>1 DEF Results
  <2> QED BY <2>2, <2>3, <2>4, OkIs
<1>3. CASE r.ok # "ok"
  <2>1. r \in Results(Questions)
    BY <1>1, <1>3, ResultIs DEF Results
  <2> QED BY <1>3, <2>1 DEF ReadQuestion, Then
<1> QED BY <1>2, <1>3

LEMMA DataType ==
  ASSUME NEW m \in Texts, NEW rtype \in Octets, NEW p \in Nat, NEW length \in Octets,
         Has(m, p, length)
  PROVE  LET r == ReadData(m, rtype, p, length)
         IN  /\ r \in Results(Contents)
             /\ r.ok = "ok" => DataFits(rtype, length < 2, r.value)
<1> DEFINE r == ReadData(m, rtype, p, length)
<1>0. length \in Nat
  BY CodecAssumption DEF Octets
<1>1. CASE rtype = CNAME
  <2>1. r = ReadName(m, p)
    BY <1>1, Distinct DEF ReadData
  <2>2. r \in Results(Labels)
    BY <2>1, ReadNameType
  <2> HIDE DEF r
  <2>3. r \in Results(Contents) /\ (r.ok = "ok" => r.value \in Labels)
    BY <2>2 DEF Results, Contents, Err, Panic
  <2>4. r \in Results(Contents) /\ (r.ok = "ok" => DataFits(rtype, length < 2, r.value))
    BY <1>1, <2>3, Distinct DEF DataFits
  <2> QED BY <2>4 DEF r
<1>2. CASE rtype = MX /\ length >= 2
  <2> DEFINE o == OctetAt(m, p)
             n == ReadName(m, p + 1)
  <2>1. r = Before(o, n)
    BY <1>2, Distinct DEF ReadData
  <2>2. n \in Results(Labels)
    BY ReadNameType
  <2>3. o \in Octets
    BY <1>0, <1>2, OctetsOf
  <2> HIDE DEF r, o, n
  <2>4. CASE n.ok = "ok"
    <3>1. n.value \in Labels /\ n.next \in Nat
      BY <2>2, <2>4, ResultIs
    <3>2. r = Ok(Cons(o, n.value), n.next)
      BY <2>1, <2>4 DEF Before, Then, Cons
    <3>3. Cons(o, n.value) \in Preferred
      BY <2>3, <3>1 DEF Preferred
    <3>4. r \in Results(Contents) /\ r.value \in Preferred
      BY <3>1, <3>2, <3>3 DEF Results, Contents, Ok
    <3>5. DataFits(rtype, length < 2, r.value)
      BY <1>0, <1>2, <3>4, Distinct DEF DataFits
    <3> QED BY <3>4, <3>5 DEF r
  <2>5. CASE n.ok # "ok"
    <3>1. r = n /\ n \in Results(Contents)
      BY <2>1, <2>2, <2>5, ResultIs DEF Before, Then, Results
    <3> QED BY <2>5, <3>1 DEF r
  <2> QED BY <2>4, <2>5
<1>3. CASE rtype = TXT
  <2>1. r = ReadStrings(m, p, length)
    BY <1>3, Distinct DEF ReadData
  <2>2. r \in Results(Labels)
    BY <1>0, <2>1, ReadStringsType
  <2> HIDE DEF r
  <2>3. r \in Results(Contents) /\ (r.ok = "ok" => r.value \in Labels)
    BY <2>2 DEF Results, Contents, Err, Panic
  <2>4. r \in Results(Contents) /\ (r.ok = "ok" => DataFits(rtype, length < 2, r.value))
    BY <1>3, <2>3, Distinct DEF DataFits
  <2> QED BY <2>4 DEF r
<1>4. CASE rtype \notin {CNAME, TXT} /\ ~(rtype = MX /\ length >= 2)
  <2> DEFINE s == Slice(m, p, length)
  <2>1. r = Ok(s, p + length)
    BY <1>4 DEF ReadData
  <2>2. s \in Texts /\ p + length \in Nat
    BY <1>0, OctetsOf
  <2> HIDE DEF r, s
  <2>3. r \in Results(Contents) /\ r.value = s
    BY <2>1, <2>2 DEF Results, Contents, Ok
  <2>4. DataFits(rtype, length < 2, s)
    BY <1>0, <1>4, <2>2, Distinct DEF DataFits
  <2>5. r \in Results(Contents) /\ (r.ok = "ok" => DataFits(rtype, length < 2, r.value))
    BY <2>3, <2>4
  <2> QED BY <2>5 DEF r
<1> QED BY <1>1, <1>2, <1>3, <1>4

LEMMA RecordType ==
  ASSUME NEW m \in Texts, NEW p \in Nat
  PROVE  ReadRecord(m, p) \in Results(Records)
<1> DEFINE n == ReadName(m, p)
           read == ReadRecord(m, p)
<1>1. n \in Results(Labels) /\ Err \in Results(Records)
  BY ReadNameType DEF Results
<1>2. CASE n.ok = "ok"
  <2> DEFINE f == n.next
             t == OctetAt(m, f)
             c == OctetAt(m, f + 1)
             ttl == OctetAt(m, f + 2)
             length == OctetAt(m, f + 3)
             d == ReadData(m, t, f + 4, length)
             v == [name |-> n.value, rtype |-> QueryType(t), rclass |-> QueryClass(c),
                   ttl |-> ttl, short |-> length < 2, rdata |-> d.value]
  <2>1. n.value \in Labels /\ f \in Nat
    BY <1>1, <1>2, ResultIs
  <2>2. read = IF ~Has(m, f, 4) \/ ~Has(m, f + 4, length) THEN Err
               ELSE IF d.ok = "ok" THEN Ok(v, d.next) ELSE d
    BY <1>2 DEF ReadRecord, Then
  <2>3. CASE ~Has(m, f, 4) \/ ~Has(m, f + 4, length)
    BY <1>1, <2>2, <2>3
  <2>4. CASE Has(m, f, 4) /\ Has(m, f + 4, length)
    <3>1. \A i \in 0 .. 4 - 1 : OctetAt(m, f + i) \in Octets
      BY <2>1, <2>4, OctetsUpTo
    <3>2. f + 0 = f /\ {0, 1, 2, 3} \subseteq 0 .. 4 - 1 /\ f + 4 \in Nat
      BY <2>1
    <3>3. t \in Octets /\ c \in Octets /\ ttl \in Octets /\ length \in Octets
      BY <3>1, <3>2
    <3>4. d \in Results(Contents) /\ (d.ok = "ok" => DataFits(t, length < 2, d.value))
      BY <2>4, <3>2, <3>3, DataType
    <3>5. read = IF d.ok = "ok" THEN Ok(v, d.next) ELSE d
      BY <2>2, <2>4
    <3>6. QueryType(t) \in Numbers /\ QueryClass(c) \in Numbers /\ QueryType(t).number = t
      BY <3>3, NumberType
    <3>7. ASSUME d.ok = "ok" PROVE v \in Records /\ d.next \in Nat
      <4>1. d.value \in Contents /\ d.next \in Nat
        BY <3>4, <3>7, ResultIs
      <4> HIDE DEF d, t, c, ttl, length
      <4>2. (length < 2) \in BOOLEAN
        OBVIOUS
      <4>3. v \in [name : Labels, rtype : Numbers, rclass : Numbers, ttl : Octets,
                   short : BOOLEAN, rdata : Contents]
        BY <2>1, <3>3, <3>6, <4>1, <4>2
      <4>4. v.rtype.number = t /\ v.short = (length < 2) /\ v.rdata = d.value
        BY <3>6
      <4>5. DataFits(v.rtype.number, v.short, v.rdata)
        BY <3>4, <3>7, <4>4
      <4> HIDE DEF v
      <4> QED BY <4>1, <4>3, <4>5 DEF Records
    <3> HIDE DEF d, v
    <3> QED BY <3>4, <3>5, <3>7, OkIs, ResultIs DEF Results
  <2> QED BY <2>3, <2>4
<1>3. CASE n.ok # "ok"
  <2>1. n \in Results(Records)
    BY <1>1, <1>3, ResultIs DEF Results
  <2> QED BY <1>3, <2>1 DEF ReadRecord, Then
<1> QED BY <1>2, <1>3

Items(section) == IF section = "questions" THEN Questions ELSE Records

LEMMA ItemType ==
  ASSUME NEW section, NEW m \in Texts, NEW p \in Nat
  PROVE  ReadItem(section, m, p) \in Results(Items(section))
BY QuestionType, RecordType DEF ReadItem, Items

-----------------------------------------------------------------------------
(* Sections                                                                *)

AllStep(r, section, m, x) ==
    LET p == x[1]
        k == x[2]
    IN  IF k = 0 THEN Ok(<<>>, p)
        ELSE Then(ReadItem(section, m, p),
                  LAMBDA item, next : Before(item, r[<<next, k - 1>>]))

AllReader(section, m) ==
    CHOOSE read : read = [x \in Nat \X Nat |-> AllStep(read, section, m, x)]

LEMMA ReaderOfAll ==
  ASSUME NEW section, NEW m, NEW start, NEW n
  PROVE  ReadAll(section, m, start, n) = AllReader(section, m)[<<start, n>>]
BY DEF ReadAll, AllReader, AllStep

\* The equation that defines the reader of a section has a solution, and it reads
\* as many items as it is told to.
LEMMA AllAreRead ==
  ASSUME NEW section, NEW m \in Texts, NEW p \in Nat, NEW n \in Nat
  PROVE  /\ AllReader(section, m)[<<p, n>>] = AllStep(AllReader(section, m), section, m, <<p, n>>)
         /\ ReadAll(section, m, p, n) \in Results(Seq(Items(section)))
         /\ ReadAll(section, m, p, n).ok = "ok" => Len(ReadAll(section, m, p, n).value) = n
<1> DEFINE D == Nat \X Nat
           T == Items(section)
           V == Results(Seq(T))
           mu == [x \in D |-> x[2]]
           F == [f \in [D -> V] |-> [x \in D |-> AllStep(f, section, m, x)]]
           read == AllReader(section, m)
<1>1. mu \in [D -> Nat]
  OBVIOUS
<1>2. ASSUME NEW f, NEW x \in D, \A y \in D : mu[y] < mu[x] => f[y] \in V
      PROVE  /\ AllStep(f, section, m, x) \in V
             /\ x[2] > 0 /\ AllStep(f, section, m, x).ok = "ok" =>
                   /\ ReadItem(section, m, x[1]).ok = "ok"
                   /\ LET item == ReadItem(section, m, x[1])
                          rest == f[<<item.next, x[2] - 1>>]
                      IN  /\ item.value \in T /\ item.next \in Nat
                          /\ rest.ok = "ok" /\ rest.value \in Seq(T) /\ rest.next \in Nat
                          /\ AllStep(f, section, m, x) = Ok(Cons(item.value, rest.value), rest.next)
  <2>1. PICK q \in Nat, k \in Nat : x = <<q, k>>
    OBVIOUS
  <2> DEFINE item == ReadItem(section, m, q)
             rest == f[<<item.next, k - 1>>]
             step == AllStep(f, section, m, x)
  <2>2. CASE k = 0
    <3>1. step = Ok(<<>>, q)
      BY <2>1, <2>2 DEF AllStep
    <3>2. <<>> \in Seq(T)
      OBVIOUS
    <3> HIDE DEF T, step
    <3>3. step \in V
      BY <3>1, <3>2, OkIs
    <3> QED BY <2>1, <2>2, <3>3 DEF step
  <2>3. CASE k # 0 /\ item.ok # "ok"
    <3>1. step = item
      BY <2>1, <2>3 DEF AllStep, Then
    <3>2. item \in Results(T)
      BY ItemType
    <3> HIDE DEF item, T, step
    <3>3. item \in V
      BY <2>3, <3>2, ResultIs DEF Results
    <3> QED BY <2>1, <2>3, <3>1, <3>3 DEF step, item
  <2>4. CASE k # 0 /\ item.ok = "ok"
    <3>1. item \in Results(T)
      BY ItemType
    <3>2. step = Before(item.value, rest)
      BY <2>1, <2>4 DEF AllStep, Then
    <3> HIDE DEF item, T, step, rest
    <3>3. item.value \in T /\ item.next \in Nat
      BY <2>4, <3>1, ResultIs
    <3>4. rest \in V
      <4>1. k - 1 \in Nat /\ <<item.next, k - 1>> \in D /\ mu[<<item.next, k - 1>>] < mu[x]
        BY <2>1, <2>4, <3>3
      <4> HIDE DEF mu, D, V
      <4> QED BY <1>2, <4>1 DEF rest
    <3>5. CASE rest.ok = "ok"
      <4>1. rest.value \in Seq(T) /\ rest.next \in Nat
        BY <3>4, <3>5, ResultIs
      <4>2. step = Ok(Cons(item.value, rest.value), rest.next)
        BY <3>2, <3>5 DEF Before, Then, Cons
      <4>3. Cons(item.value, rest.value) \in Seq(T)
        BY <3>3, <4>1 DEF Cons
      <4>4. step \in V
        BY <4>1, <4>2, <4>3, OkIs
      <4> QED BY <2>1, <2>4, <3>3, <3>5, <4>1, <4>2, <4>4 DEF item, rest, step
    <3>6. CASE rest.ok # "ok"
      <4>1. step = rest
        BY <3>2, <3>6 DEF Before, Then
      <4> QED BY <2>1, <3>4, <3>6, <4>1 DEF step
    <3> QED BY <3>5, <3>6
  <2> QED BY <2>2, <2>3, <2>4
<1>3. ASSUME NEW g, NEW h, NEW x \in D, \A y \in D : mu[y] < mu[x] => g[y] = h[y]
      PROVE  AllStep(g, section, m, x) = AllStep(h, section, m, x)
  <2>1. PICK q \in Nat, k \in Nat : x = <<q, k>>
    OBVIOUS
  <2> DEFINE item == ReadItem(section, m, q)
  <2>2. CASE k = 0
    BY <2>1, <2>2 DEF AllStep
  <2>3. CASE k # 0 /\ item.ok # "ok"
    BY <2>1, <2>3 DEF AllStep, Then
  <2>4. CASE k # 0 /\ item.ok = "ok"
    <3>1. item.next \in Nat
      <4>1. item \in Results(T)
        BY ItemType
      <4> HIDE DEF item, T
      <4> QED BY <2>4, <4>1, ResultIs
    <3>2. <<item.next, k - 1>> \in D /\ mu[<<item.next, k - 1>>] < mu[x]
      BY <2>1, <2>4, <3>1
    <3>3. g[<<item.next, k - 1>>] = h[<<item.next, k - 1>>]
      BY <1>3, <3>2
    <3> QED BY <2>1, <2>4, <3>3 DEF AllStep, Then
  <2> QED BY <2>2, <2>3, <2>4
<1> HIDE DEF mu, V, T
<1>4. F \in [[D -> V] -> [D -> V]]
  BY <1>2
<1>5. Local(F, D, V, mu)
  BY <1>3 DEF Local
<1>6. V # {}
  BY DEF V, Results
<1>7. Solvable(F, D, V)
  <2> HIDE DEF F, D
  <2> QED BY <1>1, <1>4, <1>5, <1>6, Recursion, Zenon
<1>8. \E f : f = [x \in D |-> AllStep(f, section, m, x)]
  BY <1>7 DEF Solvable
<1>9. read = [x \in D |-> AllStep(read, section, m, x)]
  BY <1>8 DEF AllReader
<1> HIDE DEF read, F
<1>10. \A x \in D : read[x] = AllStep(read, section, m, x)
  BY <1>9
<1> DEFINE S == {x \in D : read[x] \in V /\ (read[x].ok = "ok" => Len(read[x].value) = x[2])}
<1>11. \A x \in D : x \in S
  <2>1. ASSUME NEW x \in D, \A y \in D : mu[y] < mu[x] => y \in S
        PROVE  x \in S
    <3>1. PICK q \in Nat, k \in Nat : x = <<q, k>>
      OBVIOUS
    <3>2. \A y \in D : mu[y] < mu[x] => read[y] \in V
      BY <2>1
    <3>3. read[x] = AllStep(read, section, m, x)
      BY <1>10
    <3>4. read[x] \in V
      BY <1>2, <3>2, <3>3
    <3>5. ASSUME read[x].ok = "ok" PROVE Len(read[x].value) = x[2]
      <4>1. CASE k = 0
        <5>1. read[x] = Ok(<<>>, q)
          BY <3>1, <3>3, <4>1 DEF AllStep
        <5> QED BY <3>1, <4>1, <5>1 DEF Ok
      <4>2. CASE k # 0
        <5> DEFINE item == ReadItem(section, m, q)
                   y == <<item.next, k - 1>>
                   rest == read[y]
        <5>1. /\ item.value \in T /\ item.next \in Nat
              /\ rest.ok = "ok" /\ rest.value \in Seq(T) /\ rest.next \in Nat
              /\ AllStep(read, section, m, x) = Ok(Cons(item.value, rest.value), rest.next)
          <6>1. x[1] = q /\ x[2] = k /\ x[2] > 0 /\ AllStep(read, section, m, x).ok = "ok"
            BY <3>1, <3>3, <3>5, <4>2
          <6> HIDE DEF S, D
          <6> QED BY <1>2, <3>2, <6>1
        <5>2. y \in D /\ mu[y] < mu[x] /\ y[2] = k - 1
          BY <3>1, <4>2, <5>1 DEF mu
        <5>3. Len(rest.value) = k - 1
          BY <2>1, <5>1, <5>2
        <5> HIDE DEF item, rest
        <5>4. read[x].value = <<item.value>> \o rest.value
          BY <3>3, <5>1 DEF Ok, Cons
        <5>5. Len(<<item.value>> \o rest.value) = Len(rest.value) + 1
          BY <5>1, FirstAndRest
        <5> QED BY <3>1, <5>3, <5>4, <5>5
      <4> QED BY <4>1, <4>2
    <3> QED BY <3>4, <3>5
  <2>2. \A x \in D : mu[x] \in Nat
    BY <1>1
  <2> HIDE DEF S, D, mu
  <2>5. Inductive(D, mu, S)
    BY <2>1, <2>2 DEF Inductive
  <2> QED BY <2>5, Induction
<1>12. <<p, n>> \in D /\ <<p, n>>[2] = n
  OBVIOUS
<1>13. <<p, n>> \in S
  BY <1>11, <1>12
<1>14. read[<<p, n>>] = ReadAll(section, m, p, n)
  BY ReaderOfAll DEF read
<1>15. read[<<p, n>>] = AllStep(read, section, m, <<p, n>>)
  BY <1>10, <1>12
<1> QED BY <1>12, <1>13, <1>14, <1>15 DEF read, V, T

-----------------------------------------------------------------------------
(* Writing                                                                 *)

LEMMA HeadAndTail ==
  ASSUME NEW S, NEW x, NEW v \in Seq(S)
  PROVE  Head(Cons(x, v)) = x /\ Tail(Cons(x, v)) = v
<1> DEFINE U == S \union {x}
           t == <<x>> \o v
<1>1. v \in Seq(U) /\ x \in U /\ Len(v) \in Nat
  <2>1. \A i \in 1 .. Len(v) : v[i] \in U
    BY ElementOfSeq
  <2> QED BY <2>1, LenProperties
<1> HIDE DEF U
<1>2. /\ t \in Seq(U) /\ Len(t) = Len(v) + 1 /\ t[1] = x
      /\ \A i \in 1 .. Len(v) : t[i + 1] = v[i]
  BY <1>1, FirstAndRest
<1> HIDE DEF t
<1>3. t # <<>>
  BY <1>1, <1>2, EmptySeq
<1>4. Head(t) = x /\ Tail(t) \in Seq(U) /\ Len(Tail(t)) = Len(v)
      /\ \A i \in 1 .. Len(v) : Tail(t)[i] = t[i + 1]
  <2>1. Head(t) = t[1] /\ Tail(t) \in Seq(U) /\ Len(Tail(t)) = Len(t) - 1
        /\ \A i \in 1 .. Len(Tail(t)) : Tail(t)[i] = t[i + 1]
    BY <1>2, <1>3, HeadTailProperties
  <2>2. Len(Tail(t)) = Len(v)
    BY <1>1, <1>2, <2>1
  <2> QED BY <1>2, <2>1, <2>2
<1>5. Tail(t) = v
  <2>1. \A i \in 1 .. Len(v) : Tail(t)[i] = v[i]
    BY <1>2, <1>4
  <2> QED BY <1>1, <1>4, <2>1, SeqEqual
<1> QED BY <1>4, <1>5 DEF t, Cons

LEMMA WriteQuestionType ==
  ASSUME NEW q \in Questions
  PROVE  /\ WriteQuestion(q) \in Texts
         /\ Len(WriteQuestion(q)) = Len(WriteName(q.name)) + 2
<1>1. q.name \in Labels /\ q.qtype.number \in Octets /\ q.qclass.number \in Octets
  BY DEF Questions, Numbers
<1>2. WriteName(q.name) \in Texts
  BY <1>1, WriteNameType
<1> DEFINE t == <<q.qtype.number, q.qclass.number>>
<1>3. t \in Texts /\ Len(t) = 2
  BY <1>1 DEF Texts
<1>4. WriteQuestion(q) = WriteName(q.name) \o t
  BY DEF WriteQuestion, ToU16
<1> HIDE DEF t
<1>5. WriteName(q.name) \o t \in Texts
      /\ Len(WriteName(q.name) \o t) = Len(WriteName(q.name)) + Len(t)
  BY <1>2, <1>3, Appended
<1> QED BY <1>3, <1>4, <1>5

\* What is written of data, by its type.
LEMMA DataOfType ==
  ASSUME NEW r \in Records
  PROVE  /\ DataOf(r) \in Texts
         /\ r.rtype.number = CNAME => DataOf(r) = WriteName(r.rdata)
         /\ r.rtype.number = MX /\ ~r.short => \A o, v \in Contents \union Octets :
               o \in Octets /\ v \in Labels /\ r.rdata = Cons(o, v)
                  => DataOf(r) = <<o>> \o WriteName(v)
         /\ r.rtype.number = TXT => DataOf(r) = WithLengths(r.rdata)
         /\ r.rtype.number \notin {CNAME, TXT} /\ ~(r.rtype.number = MX /\ ~r.short)
               => DataOf(r) = r.rdata
<1> DEFINE n == r.rtype.number
           d == r.rdata
<1>1. n \in Octets /\ DataFits(n, r.short, d)
  BY DEF Records, Numbers
<1>2. DataOf(r) = CASE n = CNAME -> WriteName(d)
                    [] n = MX /\ ~r.short -> <<Head(d)>> \o WriteName(Tail(d))
                    [] n = TXT -> WithLengths(d)
                    [] OTHER -> d
  BY DEF DataOf, ToU16, WithLengths
<1> HIDE DEF n, d
<1>3. CASE n = CNAME
  <2>1. DataOf(r) = WriteName(d) /\ d \in Labels
    BY <1>1, <1>2, <1>3, Distinct DEF DataFits
  <2> QED BY <1>3, <2>1, WriteNameType, Distinct DEF n, d
<1>4. CASE n = MX /\ ~r.short
  <2>1. DataOf(r) = <<Head(d)>> \o WriteName(Tail(d)) /\ d \in Preferred
    BY <1>1, <1>2, <1>4, Distinct DEF DataFits
  <2>2. ASSUME NEW o \in Octets, NEW v \in Labels, d = Cons(o, v)
        PROVE  /\ DataOf(r) = <<o>> \o WriteName(v)
               /\ DataOf(r) \in Texts
    <3>1. Head(d) = o /\ Tail(d) = v
      BY <2>2, HeadAndTail DEF Labels
    <3>2. DataOf(r) = <<o>> \o WriteName(v)
      BY <2>1, <3>1
    <3>3. <<o>> \in Texts /\ WriteName(v) \in Texts
      BY OneOctet, WriteNameType
    <3> QED BY <3>2, <3>3, Appended
  <2>3. \E o \in Octets : \E v \in Labels : d = Cons(o, v)
    BY <2>1 DEF Preferred
  <2> QED BY <1>4, <2>2, <2>3, Distinct DEF n, d
<1>5. CASE n = TXT
  <2>1. DataOf(r) = WithLengths(d) /\ d \in Labels
    BY <1>1, <1>2, <1>5, Distinct DEF DataFits
  <2> QED BY <1>5, <2>1, WithLengthsOf, Distinct DEF n, d
<1>6. CASE n \notin {CNAME, TXT} /\ ~(n = MX /\ ~r.short)
  <2>1. DataOf(r) = d /\ d \in Texts
    BY <1>1, <1>2, <1>6 DEF DataFits
  <2> QED BY <1>6, <2>1 DEF n, d
<1> QED BY <1>3, <1>4, <1>5, <1>6 DEF n

\* The fixed part of a record: type, class and ttl.
Fixed(r) == <<r.rtype.number, r.rclass.number, r.ttl>>

LEMMA WriteRecordType ==
  ASSUME NEW r \in Records
  PROVE  /\ WriteRecord(r) \in Texts
         /\ WriteRecord(r) = WriteName(r.name) \o (Fixed(r) \o WithLength(DataOf(r)))
         /\ WriteName(r.name) \in Texts /\ Fixed(r) \in Texts /\ Len(Fixed(r)) = 3
         /\ WithLength(DataOf(r)) \in Texts
<1>1. r.name \in Labels /\ r.rtype.number \in Octets /\ r.rclass.number \in Octets
      /\ r.ttl \in Octets
  BY DEF Records, Numbers
<1>2. WriteName(r.name) \in Texts
  BY <1>1, WriteNameType
<1>3. Fixed(r) \in Texts /\ Len(Fixed(r)) = 3
  BY <1>1 DEF Texts, Fixed
<1>4. WithLength(DataOf(r)) \in Texts
  BY DataOfType, WithLengthType
<1>5. WriteRecord(r) = (WriteName(r.name) \o Fixed(r)) \o WithLength(DataOf(r))
  BY DEF WriteRecord, ToU16, Fixed
<1>6. WriteRecord(r) = WriteName(r.name) \o (Fixed(r) \o WithLength(DataOf(r)))
  BY <1>2, <1>3, <1>4, <1>5, TextsAppend
<1>7. Fixed(r) \o WithLength(DataOf(r)) \in Texts
  BY <1>3, <1>4, Appended
<1>8. WriteRecord(r) \in Texts
  BY <1>2, <1>6, <1>7, Appended
<1> QED BY <1>2, <1>3, <1>4, <1>6, <1>8

WriteItem(section, x) == IF section = "questions" THEN WriteQuestion(x) ELSE WriteRecord(x)
WriteItems(section, s) == FlattenSeq([i \in DOMAIN s |-> WriteItem(section, s[i])])

LEMMA WriteItemType ==
  ASSUME NEW section, NEW x \in Items(section)
  PROVE  WriteItem(section, x) \in Texts
BY WriteQuestionType, WriteRecordType DEF WriteItem, Items

LEMMA WriteItemsType ==
  ASSUME NEW section, NEW s \in Seq(Items(section))
  PROVE  /\ WriteItems(section, s) \in Texts
         /\ \A x \in Items(section) :
               WriteItems(section, Cons(x, s)) = WriteItem(section, x) \o WriteItems(section, s)
<1> DEFINE T == Items(section)
           G == [x \in T |-> WriteItem(section, x)]
<1>1. G \in [T -> Texts] /\ \A x \in T : G[x] = WriteItem(section, x)
  BY WriteItemType
<1> HIDE DEF T
<1>2. ASSUME NEW t \in Seq(T)
      PROVE  Mapped(G, t) = [i \in DOMAIN t |-> WriteItem(section, t[i])]
  <2>1. \A i \in DOMAIN t : t[i] \in T
    BY ElementOfSeq
  <2> QED BY <2>1 DEF Mapped
<1>3. s \in Seq(T)
  BY DEF T
<1> HIDE DEF G
<1>4. WriteItems(section, s) = FlattenSeq(Mapped(G, s))
  BY <1>2, <1>3 DEF WriteItems
<1>5. Writes(G, T, Octets)
  BY <1>1 DEF Writes, Texts
<1>6. ASSUME NEW x \in T
      PROVE  /\ FlattenSeq(Mapped(G, s)) \in Seq(Octets)
             /\ WriteItems(section, Cons(x, s)) = WriteItem(section, x) \o WriteItems(section, s)
  <2>1. /\ FlattenSeq(Mapped(G, s)) \in Seq(Octets)
        /\ FlattenSeq(Mapped(G, Cons(x, s))) = G[x] \o FlattenSeq(Mapped(G, s))
    BY <1>3, <1>5, FlattenMapped
  <2>2. Cons(x, s) \in Seq(T)
    BY <1>3 DEF Cons
  <2>3. WriteItems(section, Cons(x, s)) = FlattenSeq(Mapped(G, Cons(x, s)))
    BY <1>2, <2>2 DEF WriteItems
  <2> QED BY <1>1, <1>4, <2>1, <2>3
<1>7. CASE T = {}
  <2>1. s = <<>>
    <3>1. Len(s) = 0
      <4>1. Len(s) \in Nat /\ \A i \in 1 .. Len(s) : s[i] \in T
        BY <1>3, LenProperties, ElementOfSeq
      <4>2. Len(s) > 0 => 1 \in 1 .. Len(s)
        BY <4>1
      <4> QED BY <1>7, <4>1, <4>2
    <3> QED BY <1>3, <3>1, EmptySeq
  <2>2. Mapped(G, <<>>) = <<>>
    BY DEF Mapped
  <2>3. <<>> \in Texts
    BY DEF Texts
  <2> QED BY <1>4, <1>7, <2>1, <2>2, <2>3, FlattenEmpty DEF T
<1>8. CASE T # {}
  BY <1>4, <1>6, <1>8 DEF T, Texts
<1> QED BY <1>7, <1>8

LEMMA WriteNoItems ==
  ASSUME NEW section
  PROVE  WriteItems(section, <<>>) = <<>>
<1>1. [i \in DOMAIN <<>> |-> WriteItem(section, <<>>[i])] = <<>>
  OBVIOUS
<1> QED BY <1>1, FlattenEmpty DEF WriteItems

-----------------------------------------------------------------------------
(* Questions and records, read and written                                 *)

ItemAt(section, m, p) ==
    IF section = "questions" THEN QuestionAt(m, p, 0) ELSE RecordAt(m, p, 0)

\* Wherever w stands in a message, the item there is s and ends where w does.
ItemCarries(section, s, w) ==
    /\ w \in Texts
    /\ \A m \in Texts : \A p \in Nat :
          Spells(m, p, w) => ItemAt(section, m, p) = Item(s, p + Len(w))

\* Wherever w stands in a message, the data of this type there is s.
DataCarries(rtype, s, w) ==
    /\ w \in Texts
    /\ \A m \in Texts : \A p \in Nat :
          Spells(m, p, w) => DataIn(m, rtype, p, p + Len(w), 0) = Item(s, p + Len(w))

LEMMA QuestionCarries ==
  ASSUME NEW v, NEW w, NameCarries(v, w), NEW t \in Texts, Len(t) = 2
  PROVE  ItemCarries("questions", <<v, t>>, w \o t)
<1> DEFINE u == w \o t
<1>1. w \in Texts /\ Len(w) \in Nat
  BY LengthOf DEF NameCarries
<1>2. u \in Texts /\ Len(u) = Len(w) + 2
  <2>1. u \in Texts /\ Len(u) = Len(w) + Len(t)
    BY <1>1, Appended
  <2> QED BY <2>1
<1> HIDE DEF u
<1>3. ASSUME NEW m \in Texts, NEW p \in Nat, Spells(m, p, u)
      PROVE  ItemAt("questions", m, p) = Item(<<v, t>>, p + Len(u))
  <2> DEFINE stop == p + Len(w)
  <2>1. Spells(m, p, w) /\ Spells(m, stop, t) /\ stop \in Nat
    BY <1>1, <1>3, SpellsTwo DEF u
  <2>2. NameAt(m, p, 0) = Item(v, stop)
    BY <2>1 DEF NameCarries
  <2> HIDE DEF stop
  <2>3. Has(m, stop, 2) /\ Slice(m, stop, 2) = t
    BY <2>1, SpellsSlice
  <2>4. QuestionAt(m, p, 0) = Item(<<v, t>>, stop + 2)
    <3> DEFINE name == NameAt(m, p, 0)
    <3>1. name.good /\ name.says = v /\ name.end = stop
      BY <2>2 DEF Item
    <3> HIDE DEF name
    <3>2. QuestionAt(m, p, 0) =
            IF stop + 2 <= Len(m) THEN Item(<<v, Slice(m, stop, 2)>>, stop + 2) ELSE No
      BY <3>1 DEF QuestionAt, Given, name
    <3> QED BY <2>3, <3>2 DEF Has
  <2>5. stop + 2 = p + Len(u)
    BY <1>1, <1>2 DEF stop
  <2> QED BY <2>4, <2>5 DEF ItemAt
<1> HIDE DEF u
<1>4. ItemCarries("questions", <<v, t>>, u)
  BY <1>2, <1>3 DEF ItemCarries
<1> QED BY <1>4 DEF u

LEMMA RecordCarries ==
  ASSUME NEW section, section # "questions",
         NEW v, NEW w, NameCarries(v, w), NEW x \in Texts, Len(x) = 3,
         NEW s, NEW d \in Texts, Len(d) \in Octets, DataCarries(x[1], s, d)
  PROVE  ItemCarries(section, <<v, x, s>>, w \o (x \o WithLength(d)))
<1> DEFINE n == Len(d)
           l == <<n>> \o d
           r == x \o l
           t == w \o r
<1>0. n \in Nat /\ n \in Octets /\ WithLength(d) = l
  BY LengthOf, WithLengthType
<1>1. w \in Texts /\ Len(w) \in Nat
  BY LengthOf DEF NameCarries
<1>2. l \in Texts /\ Len(l) = 1 + n
  <2>1. <<n>> \in Texts /\ Len(<<n>>) = 1
    BY <1>0, OneOctet
  <2> QED BY <2>1, Appended
<1> HIDE DEF l
<1>3. r \in Texts /\ Len(r) = 3 + (1 + n)
  <2>1. r \in Texts /\ Len(r) = Len(x) + Len(l)
    BY <1>2, Appended
  <2> QED BY <1>2, <2>1
<1> HIDE DEF r
<1>4. t \in Texts /\ Len(t) = Len(w) + (3 + (1 + n))
  <2>1. t \in Texts /\ Len(t) = Len(w) + Len(r)
    BY <1>1, <1>3, Appended
  <2> QED BY <1>3, <2>1
<1> HIDE DEF t
<1>5. ASSUME NEW m \in Texts, NEW p \in Nat, Spells(m, p, t)
      PROVE  ItemAt(section, m, p) = Item(<<v, x, s>>, p + Len(t))
  <2> DEFINE from == p + Len(w)
             stop == from + 4 + n
  <2>1. Spells(m, p, w) /\ Spells(m, from, r) /\ from \in Nat
    BY <1>1, <1>3, <1>5, SpellsTwo DEF t
  <2>2. NameAt(m, p, 0) = Item(v, from)
    BY <2>1 DEF NameCarries
  <2> HIDE DEF from
  <2>3. Spells(m, from, x) /\ Spells(m, from + 3, l) /\ from + 3 \in Nat
    BY <1>2, <2>1, SpellsTwo DEF r
  <2>4. Has(m, from + 3, 1) /\ OctetAt(m, from + 3) = n /\ Spells(m, (from + 3) + 1, d)
    BY <1>0, <2>3, SpellsFirst DEF l
  <2> HIDE DEF n
  <2>5. Spells(m, from + 4, d) /\ (from + 4) + Len(d) = stop /\ from + 4 \in Nat /\ stop \in Nat
    <3>1. (from + 3) + 1 = from + 4
      BY <2>1
    <3>2. (from + 4) + Len(d) = stop
      BY <1>0, <2>1 DEF n
    <3> QED BY <1>0, <2>1, <2>4, <3>1, <3>2
  <2>6. DataIn(m, x[1], from + 4, stop, 0) = Item(s, stop)
    BY <2>5 DEF DataCarries
  <2>7. OctetAt(m, from) = x[1]
    BY <2>3 DEF Spells, OctetAt
  <2>8. Slice(m, from, 3) = x
    BY <2>1, <2>3, SpellsSlice
  <2>9. stop <= Len(m) /\ from + 4 <= Len(m)
    <3>1. (from + 4) + Len(d) <= Len(m)
      BY <2>5 DEF Spells
    <3> QED BY <1>0, <2>1, <2>5, <3>1, LengthOf DEF n
  <2>10. RecordWith(m, v, from, stop, 0) = Item(<<v, x, s>>, stop)
    <3>1. ~(stop > Len(m))
      BY <2>5, <2>9, LengthOf
    <3> HIDE DEF stop
    <3> DEFINE data == DataIn(m, x[1], from + 4, stop, 0)
    <3>2. data.good /\ data.says = s /\ data.end = stop
      BY <2>6 DEF Item
    <3> HIDE DEF data
    <3>3. RecordWith(m, v, from, stop, 0) = Item(<<v, Slice(m, from, 3), s>>, stop)
      BY <2>7, <3>1, <3>2 DEF RecordWith, Given, data
    <3> QED BY <2>8, <3>3
  <2>11. RecordAt(m, p, 0) = RecordWith(m, v, from, stop, 0)
    <3>1. from + 4 + OctetAt(m, from + 3) = stop
      BY <2>4
    <3> HIDE DEF stop
    <3> QED BY <2>2, <2>9, <3>1 DEF RecordAt, Given, Item
  <2>12. stop = p + Len(t)
    BY <1>0, <1>1, <1>4 DEF from
  <2> HIDE DEF stop
  <2> QED BY <2>10, <2>11, <2>12 DEF ItemAt
<1>6. ItemCarries(section, <<v, x, s>>, t)
  BY <1>4, <1>5 DEF ItemCarries
<1> QED BY <1>0, <1>6 DEF t, r

\* What the data of a record says, type by type.
LEMMA DataInIs ==
  ASSUME NEW m, NEW rtype, NEW p \in Nat, NEW stop \in Nat
  PROVE  /\ rtype \in {CNAME, NS} => DataIn(m, rtype, p, stop, 0) = NameAt(m, p, 0)
         /\ rtype = MX /\ p < stop => DataIn(m, rtype, p, stop, 0)
                                         = FirstThen(OctetAt(m, p), NameAt(m, p + 1, 0))
         /\ rtype = MX /\ p >= stop => DataIn(m, rtype, p, stop, 0) = No
         /\ rtype = TXT => DataIn(m, rtype, p, stop, 0) = StringsIn(m, p, stop)
         /\ rtype \notin {CNAME, NS, MX, TXT} =>
               DataIn(m, rtype, p, stop, 0) = Item(Slice(m, p, stop - p), stop)
<1>1. CASE rtype \in {CNAME, NS}
  BY <1>1, Distinct DEF DataIn
<1>2. CASE rtype = MX /\ p < stop
  BY <1>2, Distinct DEF DataIn
<1>3. CASE rtype = MX /\ p >= stop
  BY <1>3, Distinct DEF DataIn
<1>4. CASE rtype = TXT
  BY <1>4, Distinct DEF DataIn
<1>5. CASE rtype \notin {CNAME, NS, MX, TXT}
  BY <1>5 DEF DataIn
<1> QED BY <1>1, <1>2, <1>3, <1>4, <1>5

LEMMA NameDataCarries ==
  ASSUME NEW v, NEW w, NameCarries(v, w), NEW rtype, rtype \in {CNAME, NS}
  PROVE  DataCarries(rtype, v, w)
<1> SUFFICES ASSUME NEW m \in Texts, NEW p \in Nat, Spells(m, p, w)
             PROVE  DataIn(m, rtype, p, p + Len(w), 0) = Item(v, p + Len(w))
  BY DEF NameCarries, DataCarries
<1>1. p + Len(w) \in Nat
  BY LengthOf DEF NameCarries
<1> QED BY <1>1, DataInIs DEF NameCarries

LEMMA StringsDataCarry ==
  ASSUME NEW v, NEW w, StringsCarry(v, w)
  PROVE  DataCarries(TXT, v, w)
<1> SUFFICES ASSUME NEW m \in Texts, NEW p \in Nat, Spells(m, p, w)
             PROVE  DataIn(m, TXT, p, p + Len(w), 0) = Item(v, p + Len(w))
  BY DEF StringsCarry, DataCarries
<1>1. p + Len(w) \in Nat
  BY LengthOf DEF StringsCarry
<1> QED BY <1>1, DataInIs DEF StringsCarry

LEMMA OpaqueDataCarries ==
  ASSUME NEW w \in Texts, NEW rtype, rtype \notin {CNAME, NS, MX, TXT}
  PROVE  DataCarries(rtype, w, w)
<1> SUFFICES ASSUME NEW m \in Texts, NEW p \in Nat, Spells(m, p, w)
             PROVE  DataIn(m, rtype, p, p + Len(w), 0) = Item(w, p + Len(w))
  BY DEF DataCarries
<1>1. DataIn(m, rtype, p, p + Len(w), 0) = Item(Slice(m, p, (p + Len(w)) - p), p + Len(w))
  BY LengthOf, DataInIs
<1>2. (p + Len(w)) - p = Len(w)
  BY LengthOf
<1>3. Slice(m, p, Len(w)) = w
  BY SpellsSlice
<1> QED BY <1>1, <1>2, <1>3

LEMMA PreferredDataCarries ==
  ASSUME NEW v, NEW w, NameCarries(v, w), NEW o \in Octets
  PROVE  DataCarries(MX, <<o>> \o v, <<o>> \o w)
<1> DEFINE u == <<o>> \o w
           s == <<o>> \o v
<1>1. w \in Texts /\ Len(w) \in Nat /\ <<o>> \in Texts /\ Len(<<o>>) = 1
  BY LengthOf, OneOctet DEF NameCarries
<1>2. u \in Texts /\ Len(u) = 1 + Len(w)
  BY <1>1, Appended
<1> HIDE DEF u
<1>3. ASSUME NEW m \in Texts, NEW p \in Nat, Spells(m, p, u)
      PROVE  DataIn(m, MX, p, p + Len(u), 0) = Item(s, p + Len(u))
  <2>1. OctetAt(m, p) = o /\ Spells(m, p + 1, w) /\ p + 1 \in Nat
    BY <1>1, <1>3, SpellsFirst DEF u
  <2>2. NameAt(m, p + 1, 0) = Item(v, (p + 1) + Len(w))
    BY <2>1 DEF NameCarries
  <2>3. p < p + Len(u) /\ (p + 1) + Len(w) = p + Len(u)
    BY <1>1, <1>2
  <2>4. DataIn(m, MX, p, p + Len(u), 0) = FirstThen(o, NameAt(m, p + 1, 0))
    BY <1>1, <1>2, <2>1, <2>3, DataInIs
  <2> DEFINE name == NameAt(m, p + 1, 0)
  <2>5. name.good /\ name.says = v /\ name.end = p + Len(u)
    BY <2>2, <2>3 DEF Item
  <2> HIDE DEF name
  <2>6. FirstThen(o, name) = Item(s, p + Len(u))
    BY <2>5 DEF FirstThen, Given
  <2> QED BY <2>4, <2>6 DEF name
<1> HIDE DEF s
<1>4. DataCarries(MX, s, u)
  BY <1>2, <1>3 DEF DataCarries
<1> QED BY <1>4 DEF s, u

\* Data that fills its length is read up to its end; what is written of it is as
\* long and says the same wherever it stands.
DataSurvives(rtype, data, short, length, value) ==
    \A r \in Records :
        r.rtype.number = rtype /\ r.short = short /\ r.rdata = value =>
            Len(DataOf(r)) = length /\ DataCarries(rtype, data, DataOf(r))

LEMMA DataRenders ==
  ASSUME NEW m \in Texts, ToSet(m) \intersect NotUtf8 = {}, NEW rtype \in Octets,
         NEW p \in Nat, NEW length \in Octets, Has(m, p, length),
         DataIn(m, rtype, p, p + length, 0).good,
         DataIn(m, rtype, p, p + length, 0).end = p + length
  PROVE  LET read == ReadData(m, rtype, p, length)
         IN  /\ read = Ok(read.value, p + length)
             /\ DataSurvives(rtype, DataIn(m, rtype, p, p + length, 0).says,
                             length < 2, length, read.value)
<1> DEFINE stop == p + length
           data == DataIn(m, rtype, p, stop, 0)
           read == ReadData(m, rtype, p, length)
           Goal == /\ read = Ok(read.value, stop)
                   /\ DataSurvives(rtype, data.says, length < 2, length, read.value)
<1>0. length \in Nat /\ stop \in Nat /\ stop - p = length /\ stop <= Len(m)
  BY CodecAssumption DEF Octets, Has
<1>1. CASE rtype = CNAME
  <2>1. data = NameAt(m, p, 0) /\ read = ReadName(m, p)
    BY <1>0, <1>1, DataInIs, Distinct DEF ReadData
  <2>2. read = Ok(data.says, stop)
    BY <2>1, PlainNamesAreRead
  <2>3. /\ Len(WriteName(data.says)) = length
        /\ NameCarries(data.says, WriteName(data.says))
    BY <1>0, <2>1, NamesRender DEF Renders
  <2> HIDE DEF data, read
  <2>4. DataCarries(rtype, data.says, WriteName(data.says))
    BY <1>1, <2>3, NameDataCarries
  <2>5. DataSurvives(rtype, data.says, length < 2, length, data.says)
    BY <1>1, <2>3, <2>4, DataOfType DEF DataSurvives
  <2> QED BY <2>2, <2>5 DEF Ok, read, data
<1>2. CASE rtype = NS
  <2>1. data = NameAt(m, p, 0) /\ read = Ok(Slice(m, p, length), stop)
    BY <1>0, <1>2, DataInIs, Distinct DEF ReadData
  <2> DEFINE s == Slice(m, p, length)
  <2>2. NameCarries(data.says, Slice(m, p, stop - p))
    BY <2>1, NamesRender DEF Renders
  <2>3. Len(s) = length
    BY <1>0, OctetsOf
  <2> HIDE DEF data, read
  <2>4. DataCarries(rtype, data.says, s)
    BY <1>0, <1>2, <2>2, NameDataCarries
  <2> HIDE DEF s
  <2>5. DataSurvives(rtype, data.says, length < 2, length, s)
    BY <1>2, <2>3, <2>4, DataOfType, Distinct DEF DataSurvives
  <2> QED BY <2>1, <2>5 DEF Ok, read, data, s
<1>3. CASE rtype = MX
  <2> DEFINE o == OctetAt(m, p)
             name == NameAt(m, p + 1, 0)
  <2>1. p < stop /\ data = FirstThen(o, name)
    <3>1. No.good = FALSE
      BY DEF No
    <3> QED BY <1>0, <1>3, <3>1, DataInIs
  <2>2. p + 1 \in Nat
    OBVIOUS
  <2>3. name.good /\ name.end = stop /\ data.says = <<o>> \o name.says
    BY <2>1 DEF FirstThen, Given, Item, No
  <2>4. /\ p + 1 < stop /\ Len(WriteName(name.says)) = stop - (p + 1)
        /\ NameCarries(name.says, WriteName(name.says)) /\ name.says \in Labels
    BY <2>2, <2>3, NamesRender DEF Renders
  <2>5. length >= 2 /\ ~(length < 2) /\ stop - (p + 1) = length - 1
    BY <1>0, <2>4
  <2>6. read = Ok(<<o>> \o name.says, stop)
    <3>1. read = Before(o, ReadName(m, p + 1))
      BY <1>3, <2>5, Distinct DEF ReadData
    <3> DEFINE n == ReadName(m, p + 1)
    <3>2. n = Ok(name.says, stop)
      BY <2>2, <2>3, PlainNamesAreRead
    <3>3. n.ok = "ok" /\ n.value = name.says /\ n.next = stop
      BY <3>2 DEF Ok
    <3> HIDE DEF n
    <3>4. Before(o, n) = Ok(<<o>> \o name.says, stop)
      BY <3>3 DEF Before, Then
    <3> QED BY <3>1, <3>4 DEF n
  <2>7. o \in Octets
    BY <1>0, <2>5, OctetsOf
  <2> HIDE DEF data, read, o, name
  <2> DEFINE w == <<o>> \o WriteName(name.says)
  <2>8. Len(w) = length
    <3>1. WriteName(name.says) \in Texts /\ <<o>> \in Texts /\ Len(<<o>>) = 1
      BY <2>4, <2>7, OneOctet DEF NameCarries
    <3>2. Len(w) = Len(<<o>>) + Len(WriteName(name.says))
      BY <3>1, Appended
    <3> QED BY <1>0, <2>4, <2>5, <3>1, <3>2
  <2>9. DataCarries(MX, data.says, w)
    BY <2>3, <2>4, <2>7, PreferredDataCarries
  <2>10. DataSurvives(rtype, data.says, length < 2, length, <<o>> \o name.says)
    <3> SUFFICES ASSUME NEW r \in Records, r.rtype.number = rtype, r.short = (length < 2),
                        r.rdata = <<o>> \o name.says
                 PROVE  DataOf(r) = w
      BY <1>3, <2>8, <2>9 DEF DataSurvives
    <3>1. r.rdata = Cons(o, name.says) /\ r.rtype.number = MX /\ ~r.short
      BY <1>3, <2>5 DEF Cons
    <3>2. name.says \in Contents \union Octets /\ o \in Contents \union Octets
      BY <2>4, <2>7 DEF Contents
    <3> QED BY <2>4, <2>7, <3>1, <3>2, DataOfType
  <2> QED BY <2>6, <2>10 DEF Ok, read, data
<1>4. CASE rtype = TXT
  <2>1. data = StringsIn(m, p, stop) /\ read = ReadStrings(m, p, length)
    BY <1>0, <1>4, DataInIs, Distinct DEF ReadData
  <2>2. StringsRender(m, p, length, p)
    BY <1>0, StringsAreRead
  <2>3. p - p = 0 /\ p >= p
    OBVIOUS
  <2>4. /\ WithLengths(data.says) = Slice(m, p, length)
        /\ StringsCarry(data.says, Slice(m, p, length))
        /\ read = Ok(data.says, stop)
    BY <1>0, <2>1, <2>2, <2>3, ReaderOfTexts DEF StringsRender
  <2>5. Len(Slice(m, p, length)) = length
    BY <1>0, OctetsOf
  <2> HIDE DEF data, read
  <2>6. DataCarries(rtype, data.says, Slice(m, p, length))
    BY <1>4, <2>4, StringsDataCarry
  <2>7. DataSurvives(rtype, data.says, length < 2, length, data.says)
    BY <1>4, <2>4, <2>5, <2>6, DataOfType DEF DataSurvives
  <2> QED BY <2>4, <2>7 DEF Ok, read, data
<1>5. CASE rtype \notin {CNAME, NS, MX, TXT}
  <2> DEFINE s == Slice(m, p, length)
  <2>1. data = Item(s, stop) /\ read = Ok(s, stop)
    BY <1>0, <1>5, DataInIs DEF ReadData
  <2>2. s \in Texts /\ Len(s) = length
    BY <1>0, OctetsOf
  <2> HIDE DEF data, read, s
  <2>3. DataCarries(rtype, s, s)
    BY <1>5, <2>2, OpaqueDataCarries
  <2>4. DataSurvives(rtype, s, length < 2, length, s)
    BY <1>5, <2>2, <2>3, DataOfType DEF DataSurvives
  <2> QED BY <2>1, <2>4 DEF Ok, Item, read, data
<1> HIDE DEF Goal
<1>6. Goal
  BY <1>1, <1>2, <1>3, <1>4, <1>5 DEF Goal
<1> QED BY <1>6 DEF Goal

LEMMA SliceOfLength ==
  ASSUME NEW m \in Texts, NEW p \in Nat
  PROVE  /\ Has(m, p, 2) => /\ Slice(m, p, 2) \in Texts /\ Len(Slice(m, p, 2)) = 2
                            /\ \A i \in 1 .. 2 : Slice(m, p, 2)[i] = m[p + i]
         /\ Has(m, p, 3) => /\ Slice(m, p, 3) \in Texts /\ Len(Slice(m, p, 3)) = 3
                            /\ \A i \in 1 .. 3 : Slice(m, p, 3)[i] = m[p + i]
<1> DEFINE Fact(n) == Has(m, p, n) => /\ Slice(m, p, n) \in Texts /\ Len(Slice(m, p, n)) = n
                                      /\ \A i \in 1 .. n : Slice(m, p, n)[i] = m[p + i]
<1>1. \A n \in Nat : Fact(n)
  BY OctetsOf
<1> HIDE DEF Fact
<1>2. Fact(2) /\ Fact(3)
  BY <1>1
<1> QED BY <1>2 DEF Fact

LEMMA SliceOfTwo ==
  ASSUME NEW m \in Texts, NEW p \in Nat, Has(m, p, 2)
  PROVE  /\ Slice(m, p, 2) = <<OctetAt(m, p), OctetAt(m, p + 1)>>
         /\ OctetAt(m, p) \in Octets /\ OctetAt(m, p + 1) \in Octets
<1> DEFINE t == <<OctetAt(m, p), OctetAt(m, p + 1)>>
           s == Slice(m, p, 2)
<1>1. OctetAt(m, p) \in Octets /\ OctetAt(m, p + 1) \in Octets
  <2>1. OctetAt(m, p + 0) \in Octets /\ OctetAt(m, p + 1) \in Octets /\ p + 0 = p
    BY OctetsUpTo
  <2> QED BY <2>1
<1>2. t \in Texts /\ Len(t) = 2 /\ t[1] = m[p + 1] /\ t[2] = m[(p + 1) + 1]
  BY <1>1 DEF Texts, OctetAt
<1>3. s \in Texts /\ Len(s) = 2 /\ \A i \in 1 .. 2 : s[i] = m[p + i]
  BY SliceOfLength
<1> HIDE DEF s, t
<1>4. (p + 1) + 1 = p + 2 /\ \A i \in 1 .. 2 : i = 1 \/ i = 2
  OBVIOUS
<1>5. \A i \in 1 .. 2 : s[i] = t[i]
  BY <1>2, <1>3, <1>4
<1>6. s = t
  BY <1>2, <1>3, <1>5, SeqEqual DEF Texts
<1> QED BY <1>1, <1>6 DEF s, t

LEMMA SliceOfThree ==
  ASSUME NEW m \in Texts, NEW p \in Nat, Has(m, p, 4)
  PROVE  /\ Slice(m, p, 3) = <<OctetAt(m, p), OctetAt(m, p + 1), OctetAt(m, p + 2)>>
         /\ OctetAt(m, p) \in Octets /\ OctetAt(m, p + 1) \in Octets
         /\ OctetAt(m, p + 2) \in Octets /\ OctetAt(m, p + 3) \in Octets
<1> DEFINE t == <<OctetAt(m, p), OctetAt(m, p + 1), OctetAt(m, p + 2)>>
           s == Slice(m, p, 3)
<1>1. /\ OctetAt(m, p) \in Octets /\ OctetAt(m, p + 1) \in Octets
      /\ OctetAt(m, p + 2) \in Octets /\ OctetAt(m, p + 3) \in Octets
  <2>1. \A i \in 0 .. 4 - 1 : OctetAt(m, p + i) \in Octets
    BY OctetsUpTo
  <2>2. {0, 1, 2, 3} \subseteq 0 .. 4 - 1 /\ p + 0 = p
    OBVIOUS
  <2> QED BY <2>1, <2>2
<1>2. /\ t \in Texts /\ Len(t) = 3
      /\ t[1] = m[p + 1] /\ t[2] = m[(p + 1) + 1] /\ t[3] = m[(p + 2) + 1]
  BY <1>1 DEF Texts, OctetAt
<1>3. s \in Texts /\ Len(s) = 3 /\ \A i \in 1 .. 3 : s[i] = m[p + i]
  <2>1. Has(m, p, 3)
    BY LengthOf DEF Has
  <2> QED BY <2>1, SliceOfLength
<1> HIDE DEF s, t
<1>4. (p + 1) + 1 = p + 2 /\ (p + 2) + 1 = p + 3 /\ \A i \in 1 .. 3 : i = 1 \/ i = 2 \/ i = 3
  OBVIOUS
<1>5. \A i \in 1 .. 3 : s[i] = t[i]
  BY <1>2, <1>3, <1>4
<1>6. s = t
  BY <1>2, <1>3, <1>5, SeqEqual DEF Texts
<1> QED BY <1>1, <1>6 DEF s, t

\* A question or record that stands at p is read up to its end; what is written
\* of it is as long and says the same wherever it stands.
ItemSurvives(section, item, p, m, read) ==
    /\ read = Ok(read.value, item.end) /\ read.value \in Items(section)
    /\ item.end \in Nat /\ p < item.end /\ item.end <= Len(m)
    /\ Len(WriteItem(section, read.value)) = item.end - p
    /\ ItemCarries(section, item.says, WriteItem(section, read.value))

\* What a question that was read says.
SaysQuestion(q) == <<q.name, <<ToU16(q.qtype), ToU16(q.qclass)>>>>

LEMMA QuestionRenders ==
  ASSUME NEW m \in Texts, NEW p \in Nat, QuestionAt(m, p, 0).good
  PROVE  LET item == QuestionAt(m, p, 0)
             read == ReadQuestion(m, p)
         IN  /\ ItemSurvives("questions", item, p, m, read)
             /\ item.says = SaysQuestion(read.value)
             /\ NameCarries(read.value.name, WriteName(read.value.name))
<1> DEFINE name == NameAt(m, p, 0)
           from == name.end
           item == QuestionAt(m, p, 0)
           read == ReadQuestion(m, p)
           t == Slice(m, from, 2)
           a == OctetAt(m, from)
           b == OctetAt(m, from + 1)
           q == [name |-> name.says, qtype |-> QueryType(a), qclass |-> QueryClass(b)]
<1>0. No.good = FALSE
  BY DEF No
<1>1. /\ name.good /\ from + 2 <= Len(m)
      /\ item = Item(<<name.says, t>>, from + 2)
  <2> HIDE DEF name
  <2>1. item = IF name.good
               THEN IF from + 2 <= Len(m) THEN Item(<<name.says, t>>, from + 2) ELSE No
               ELSE No
    BY DEF QuestionAt, Given, name
  <2> HIDE DEF item, from, t
  <2>2. item.good
    BY DEF item
  <2> QED BY <1>0, <2>1, <2>2
<1>2. /\ name.says \in Labels /\ from \in Nat /\ p < from /\ from <= Len(m)
      /\ Len(WriteName(name.says)) = from - p
      /\ NameCarries(name.says, WriteName(name.says))
  BY <1>1, NamesRender DEF Renders
<1>3. ReadName(m, p) = Ok(name.says, from)
  BY <1>1, PlainNamesAreRead
<1> HIDE DEF name, from, item
<1>4. Has(m, from, 2)
  BY <1>1 DEF Has
<1>5. t = <<a, b>> /\ a \in Octets /\ b \in Octets
  BY <1>2, <1>4, SliceOfTwo
<1>6. t \in Texts /\ Len(t) = 2
  BY <1>2, <1>4, SliceOfLength
<1> HIDE DEF t
<1>7. read = Ok(q, from + 2)
  <2> DEFINE n == ReadName(m, p)
  <2>1. n.ok = "ok" /\ n.value = name.says /\ n.next = from
    BY <1>3 DEF Ok
  <2> HIDE DEF n, a, b
  <2> QED BY <1>4, <2>1 DEF ReadQuestion, Then, n, a, b
<1> HIDE DEF a, b
<1>8. q.name = name.says /\ ToU16(q.qtype) = a /\ ToU16(q.qclass) = b
  BY <1>5, NumberType
<1>9. q \in Questions
  BY <1>2, <1>5, NumberType DEF Questions
<1> HIDE DEF q, read
<1>10. WriteQuestion(q) = WriteName(name.says) \o t
  BY <1>5, <1>8 DEF WriteQuestion
<1>11. Len(WriteQuestion(q)) = (from + 2) - p
  BY <1>2, <1>8, <1>9, WriteQuestionType
<1>12. ItemCarries("questions", <<name.says, t>>, WriteQuestion(q))
  BY <1>2, <1>6, <1>10, QuestionCarries
<1>13. read.value = q /\ read = Ok(q, from + 2)
  BY <1>7 DEF Ok
<1>14. item.says = <<name.says, t>> /\ item.end = from + 2
  BY <1>1 DEF Item
<1>15. from + 2 \in Nat /\ p < from + 2
  BY <1>2
<1>16. ItemSurvives("questions", item, p, m, read)
  BY <1>1, <1>9, <1>11, <1>12, <1>13, <1>14, <1>15 DEF ItemSurvives, WriteItem, Items
<1>17. item.says = SaysQuestion(q)
  BY <1>5, <1>8, <1>14 DEF SaysQuestion
<1> QED BY <1>2, <1>8, <1>13, <1>16, <1>17 DEF item, read

LEMMA RecordRenders ==
  ASSUME NEW m \in Texts, ToSet(m) \intersect NotUtf8 = {},
         NEW section, section # "questions",
         NEW p \in Nat, RecordAt(m, p, 0).good
  PROVE  LET item == RecordAt(m, p, 0)
         IN  ItemSurvives(section, item, p, m, ReadRecord(m, p)) /\ p + 5 <= item.end
<1> DEFINE name == NameAt(m, p, 0)
           from == name.end
           item == RecordAt(m, p, 0)
           read == ReadRecord(m, p)
           x == Slice(m, from, 3)
           a == OctetAt(m, from)
           b == OctetAt(m, from + 1)
           c == OctetAt(m, from + 2)
           length == OctetAt(m, from + 3)
           stop == from + 4 + length
           data == DataIn(m, a, from + 4, stop, 0)
<1>0. No.good = FALSE /\ Len(m) \in Nat
  BY LengthOf DEF No
<1>1. name.good /\ from + 4 <= Len(m) /\ item = RecordWith(m, name.says, from, stop, 0)
  <2> HIDE DEF name
  <2>1. item = IF name.good
               THEN IF from + 4 <= Len(m) THEN RecordWith(m, name.says, from, stop, 0) ELSE No
               ELSE No
    BY DEF RecordAt, Given, name
  <2> HIDE DEF item, from, stop
  <2>2. item.good
    BY DEF item
  <2> QED BY <1>0, <2>1, <2>2
<1>2. /\ name.says \in Labels /\ from \in Nat /\ p < from /\ from <= Len(m)
      /\ Len(WriteName(name.says)) = from - p
      /\ NameCarries(name.says, WriteName(name.says))
  BY <1>1, NamesRender DEF Renders
<1>3. ReadName(m, p) = Ok(name.says, from)
  BY <1>1, PlainNamesAreRead
<1>4. ~(stop > Len(m)) /\ data.good /\ data.end = stop
      /\ item = Item(<<name.says, x, data.says>>, stop)
  <2> HIDE DEF name, from, data
  <2>1. item = IF stop > Len(m) THEN No
               ELSE IF data.good
               THEN IF data.end = stop THEN Item(<<name.says, x, data.says>>, stop) ELSE No
               ELSE No
    BY <1>1 DEF RecordWith, Given, data
  <2> HIDE DEF item, stop, x
  <2>2. item.good
    BY DEF item
  <2> QED BY <1>0, <2>1, <2>2
<1> HIDE DEF name, from, item
<1>5. Has(m, from, 4)
  BY <1>1 DEF Has
<1>6. /\ x = <<a, b, c>> /\ a \in Octets /\ b \in Octets /\ c \in Octets
      /\ length \in Octets /\ length \in Nat
  <2>1. length \in Octets
    BY <1>2, <1>5, SliceOfThree
  <2> QED BY <1>2, <1>5, <2>1, SliceOfThree, CodecAssumption DEF Octets
<1>7. x \in Texts /\ Len(x) = 3
  <2>1. Has(m, from, 3)
    BY <1>0, <1>2, <1>5 DEF Has
  <2> QED BY <1>2, <2>1, SliceOfLength
<1>8. stop \in Nat /\ from + 4 \in Nat /\ (from + 4) + length = stop /\ Has(m, from + 4, length)
  BY <1>0, <1>2, <1>4, <1>6 DEF Has
<1> DEFINE d == ReadData(m, a, from + 4, length)
           r == [name |-> name.says, rtype |-> QueryType(a), rclass |-> QueryClass(b),
                 ttl |-> c, short |-> length < 2, rdata |-> d.value]
<1>9. d = Ok(d.value, stop) /\ DataSurvives(a, data.says, length < 2, length, d.value)
  <2> HIDE DEF stop, a, length
  <2>1. data.good /\ data.end = stop
    BY <1>4
  <2> QED BY <1>6, <1>8, <2>1, DataRenders
<1>10. read = Ok(r, stop)
  <2> DEFINE n == ReadName(m, p)
  <2>1. n.ok = "ok" /\ n.value = name.says /\ n.next = from
    BY <1>3 DEF Ok
  <2>2. d.ok = "ok" /\ d.next = stop
    <3> HIDE DEF d
    <3> QED BY <1>9 DEF Ok
  <2> HIDE DEF n, stop
  <2> QED BY <1>5, <1>8, <2>1, <2>2 DEF ReadRecord, Then, n
<1>11. r \in Records
  <2>1. read \in Results(Records)
    BY RecordType
  <2> HIDE DEF r, stop, read
  <2>2. read.ok = "ok" /\ read.value = r
    BY <1>10 DEF Ok
  <2> QED BY <2>1, <2>2, ResultIs
<1> HIDE DEF x, data, stop, d
<1>12. /\ r.name = name.says /\ r.rtype.number = a /\ r.rclass.number = b /\ r.ttl = c
       /\ r.short = (length < 2) /\ r.rdata = d.value
  <2> HIDE DEF a, b, c, length
  <2> QED BY <1>6, NumberType
<1> HIDE DEF a, b, c, length, r, read
<1>13. Len(DataOf(r)) = length /\ DataCarries(a, data.says, DataOf(r))
  BY <1>9, <1>11, <1>12 DEF DataSurvives
<1>14. Fixed(r) = x /\ x[1] = a
  BY <1>6, <1>12 DEF Fixed
<1>15. WriteRecord(r) = WriteName(name.says) \o (x \o WithLength(DataOf(r)))
  BY <1>11, <1>12, <1>14, WriteRecordType
<1>16. DataOf(r) \in Texts
  BY <1>11, DataOfType
<1>17. ItemCarries(section, <<name.says, x, data.says>>, WriteRecord(r))
  BY <1>2, <1>6, <1>7, <1>13, <1>14, <1>15, <1>16, RecordCarries
<1>18. Len(WriteRecord(r)) = stop - p
  <2> DEFINE w == WithLength(DataOf(r))
             u == x \o w
  <2>1. w \in Texts /\ Len(w) = 1 + length
    <3>1. w = <<length>> \o DataOf(r) /\ w \in Texts
      BY <1>6, <1>13, <1>16, WithLengthType
    <3>2. <<length>> \in Texts /\ Len(<<length>>) = 1
      BY <1>6, OneOctet
    <3>3. Len(<<length>> \o DataOf(r)) = Len(<<length>>) + Len(DataOf(r))
      BY <1>16, <3>2, Appended
    <3> QED BY <1>13, <3>1, <3>2, <3>3
  <2> HIDE DEF w
  <2>2. u \in Texts /\ Len(u) = Len(x) + Len(w)
    BY <1>7, <2>1, Appended
  <2> HIDE DEF u
  <2>3. WriteName(name.says) \in Texts
    BY <1>2 DEF NameCarries
  <2>4. Len(WriteName(name.says) \o u) = Len(WriteName(name.says)) + Len(u)
    BY <2>2, <2>3, Appended
  <2>5. Len(WriteRecord(r)) = (from - p) + (3 + (1 + length))
    BY <1>2, <1>7, <1>15, <2>1, <2>2, <2>4 DEF u, w
  <2>6. (from - p) + (3 + (1 + length)) = stop - p
    BY <1>2, <1>6, <1>8
  <2> QED BY <2>5, <2>6
<1>19. read.value = r /\ read = Ok(r, stop)
  BY <1>10 DEF Ok
<1>20. item.says = <<name.says, x, data.says>> /\ item.end = stop
  BY <1>4 DEF Item
<1>21. p + 5 <= stop /\ p < stop /\ stop <= Len(m)
  BY <1>0, <1>2, <1>4, <1>6, <1>8
<1>22. ItemSurvives(section, item, p, m, read)
  BY <1>8, <1>11, <1>17, <1>18, <1>19, <1>20, <1>21 DEF ItemSurvives, WriteItem, Items
<1> QED BY <1>20, <1>21, <1>22 DEF item, read

-----------------------------------------------------------------------------
(* Sections, read and written                                              *)

StandsIn(T) == {No} \union [good : {TRUE}, says : T, end : Nat]

\* What a question or a record may say.
Statements == (Labels \X Texts) \union (Labels \X Texts \X Contents)

LEMMA ItemIs ==
  ASSUME NEW T, NEW i \in StandsIn(T)
  PROVE  \/ i = No /\ ~i.good
         \/ i.good /\ i.says \in T /\ i.end \in Nat /\ i = Item(i.says, i.end)
<1>1. CASE i = No
  BY <1>1 DEF No
<1>2. CASE i # No
  <2>1. PICK v \in T, stop \in Nat : i = Item(v, stop)
    BY <1>2 DEF StandsIn, Item
  <2> QED BY <2>1 DEF Item
<1> QED BY <1>1, <1>2

LEMMA ItemStands ==
  ASSUME NEW T, NEW v \in T, NEW stop \in Nat
  PROVE  Item(v, stop) \in StandsIn(T) /\ No \in StandsIn(T)
BY DEF StandsIn, Item

LEMMA DataStands ==
  ASSUME NEW m \in Texts, NEW rtype, NEW p \in Nat, NEW stop \in Nat, stop <= Len(m), p <= stop
  PROVE  DataIn(m, rtype, p, stop, 0) \in StandsIn(Contents)
<1> DEFINE data == DataIn(m, rtype, p, stop, 0)
<1>0. \A i \in NameItems : i \in StandsIn(Contents)
  BY DEF NameItems, StandsIn, Contents
<1>1. CASE rtype \in {CNAME, NS}
  BY <1>0, <1>1, DataInIs, NameStands
<1>2. CASE rtype = MX /\ p < stop
  <2> DEFINE o == OctetAt(m, p)
             name == NameAt(m, p + 1, 0)
  <2>1. data = FirstThen(o, name)
    BY <1>2, DataInIs
  <2>2. o \in Octets
    <3>1. Has(m, p, 1)
      BY <1>2, LengthOf DEF Has
    <3> QED BY <3>1, OctetsOf
  <2>3. name \in StandsIn(Labels)
    <3>1. p + 1 \in Nat /\ 0 \in Nat
      OBVIOUS
    <3> QED BY <3>1, NameStands DEF NameItems, StandsIn
  <2> HIDE DEF o, name, data
  <2>4. CASE name.good
    <3>1. name.says \in Labels /\ name.end \in Nat
      BY <2>3, <2>4, ItemIs
    <3>2. data = Item(Cons(o, name.says), name.end)
      BY <2>1, <2>4 DEF FirstThen, Given, Cons
    <3>3. Cons(o, name.says) \in Contents
      BY <2>2, <3>1 DEF Contents, Preferred
    <3> QED BY <3>1, <3>2, <3>3, ItemStands DEF data
  <2>5. CASE ~name.good
    <3>1. data = No
      BY <2>1, <2>5 DEF FirstThen, Given
    <3> QED BY <3>1 DEF data, StandsIn
  <2> QED BY <2>4, <2>5
<1>3. CASE rtype = MX /\ p >= stop
  BY <1>3, DataInIs DEF StandsIn
<1>4. CASE rtype = TXT
  BY <1>0, <1>4, DataInIs, StringsStand
<1>5. CASE rtype \notin {CNAME, NS, MX, TXT}
  <2> DEFINE s == Slice(m, p, stop - p)
  <2>1. data = Item(s, stop)
    BY <1>5, DataInIs
  <2>2. stop - p \in Nat /\ Has(m, p, stop - p)
    BY LengthOf DEF Has
  <2>3. s \in Contents
    BY <2>2, OctetsOf DEF Contents
  <2> HIDE DEF s
  <2> QED BY <2>1, <2>3, ItemStands
<1> QED BY <1>1, <1>2, <1>3, <1>4, <1>5

LEMMA ItemAtStands ==
  ASSUME NEW section, NEW m \in Texts, NEW p \in Nat
  PROVE  ItemAt(section, m, p) \in StandsIn(Statements)
<1> DEFINE name == NameAt(m, p, 0)
           from == name.end
           item == ItemAt(section, m, p)
<1>0. No \in StandsIn(Statements) /\ Len(m) \in Nat
  BY LengthOf DEF StandsIn
<1>1. name \in StandsIn(Labels)
  BY NameStands DEF NameItems, StandsIn
<1>2. CASE ~name.good
  <2>1. item = No
    BY <1>2 DEF ItemAt, QuestionAt, RecordAt, Given
  <2> QED BY <1>0, <2>1
<1>3. CASE name.good /\ section = "questions"
  <2> DEFINE t == Slice(m, from, 2)
  <2>1. name.says \in Labels /\ from \in Nat
    BY <1>1, <1>3, ItemIs
  <2> HIDE DEF name
  <2>2. item = IF from + 2 <= Len(m) THEN Item(<<name.says, t>>, from + 2) ELSE No
    BY <1>3 DEF ItemAt, QuestionAt, Given, name
  <2>3. ASSUME from + 2 <= Len(m) PROVE t \in Texts /\ from + 2 \in Nat
    BY <2>1, <2>3, SliceOfLength DEF Has
  <2> HIDE DEF from, t, item
  <2>4. ASSUME from + 2 <= Len(m) PROVE <<name.says, t>> \in Statements
    BY <2>1, <2>3, <2>4 DEF Statements
  <2> QED BY <1>0, <2>2, <2>3, <2>4, ItemStands DEF item
<1>4. CASE name.good /\ section # "questions"
  <2> DEFINE x == Slice(m, from, 3)
             length == OctetAt(m, from + 3)
             stop == from + 4 + length
             data == DataIn(m, OctetAt(m, from), from + 4, stop, 0)
  <2>1. name.says \in Labels /\ from \in Nat
    BY <1>1, <1>4, ItemIs
  <2> HIDE DEF name
  <2>2. item = IF from + 4 <= Len(m) THEN RecordWith(m, name.says, from, stop, 0) ELSE No
    BY <1>4 DEF ItemAt, RecordAt, Given, name
  <2> HIDE DEF from
  <2>3. CASE ~(from + 4 <= Len(m))
    BY <1>0, <2>2, <2>3
  <2>4. CASE from + 4 <= Len(m)
    <3>0. Has(m, from, 4) /\ Has(m, from, 3)
      BY <1>0, <2>1, <2>4 DEF Has
    <3>1. x \in Texts /\ length \in Octets
      BY <2>1, <3>0, SliceOfLength, SliceOfThree
    <3>2. stop \in Nat /\ from + 4 <= stop /\ from + 4 \in Nat
      BY <2>1, <3>1, CodecAssumption DEF Octets
    <3> HIDE DEF x, length, stop
    <3>3. item = IF stop > Len(m) THEN No
                 ELSE IF data.good
                 THEN IF data.end = stop THEN Item(<<name.says, x, data.says>>, stop) ELSE No
                 ELSE No
      <4> HIDE DEF data, item
      <4>1. item = RecordWith(m, name.says, from, stop, 0)
        BY <2>2, <2>4
      <4> QED BY <4>1 DEF RecordWith, Given, data, x
    <3>4. ASSUME ~(stop > Len(m)) PROVE data \in StandsIn(Contents)
      BY <1>0, <3>2, <3>4, DataStands
    <3> HIDE DEF data, item
    <3>5. ASSUME ~(stop > Len(m)), data.good PROVE <<name.says, x, data.says>> \in Statements
      <4>1. data.says \in Contents
        BY <3>4, <3>5, ItemIs
      <4> QED BY <2>1, <3>1, <4>1 DEF Statements
    <3> QED BY <1>0, <3>2, <3>3, <3>5, ItemStands DEF item
  <2> QED BY <2>3, <2>4
<1> QED BY <1>2, <1>3, <1>4

\* What the RFC says of a section, r being what it says of the rest.
SectionStep(r, section, m, x) ==
    LET q == x[1]
        k == x[2]
    IN  IF k = 0 THEN Item(<<>>, q)
        ELSE Given(ItemAt(section, m, q), LAMBDA item, e : FirstThen(item, r[<<e, k - 1>>]))

SectionReader(section, m) ==
    CHOOSE all : all = [x \in Nat \X Nat |-> SectionStep(all, section, m, x)]

LEMMA ReaderOfSections ==
  ASSUME NEW section, NEW m, NEW p, NEW count
  PROVE  AllAt(section, m, p, count, 0) = SectionReader(section, m)[<<p, count>>]
BY DEF AllAt, SectionReader, SectionStep, ItemAt

LEMMA FirstThenStands ==
  ASSUME NEW T, NEW v \in T, NEW i \in StandsIn(Seq(T))
  PROVE  /\ FirstThen(v, i) \in StandsIn(Seq(T))
         /\ i.good => FirstThen(v, i) = Item(Cons(v, i.says), i.end)
         /\ FirstThen(v, i).good => i.good
<1>1. CASE i.good
  <2>1. i.says \in Seq(T) /\ i.end \in Nat
    BY <1>1, ItemIs
  <2>2. FirstThen(v, i) = Item(Cons(v, i.says), i.end)
    BY <1>1 DEF FirstThen, Given, Cons
  <2>3. Cons(v, i.says) \in Seq(T)
    BY <2>1 DEF Cons
  <2> QED BY <1>1, <2>1, <2>2, <2>3, ItemStands
<1>2. CASE ~i.good
  <2>1. FirstThen(v, i) = No
    BY <1>2 DEF FirstThen, Given
  <2> QED BY <1>2, <2>1 DEF No, StandsIn
<1> QED BY <1>1, <1>2

\* The equation that defines a section has a solution.
LEMMA SectionsStand ==
  ASSUME NEW section, NEW m \in Texts, NEW p \in Nat, NEW n \in Nat
  PROVE  /\ AllAt(section, m, p, n, 0)
               = SectionStep(SectionReader(section, m), section, m, <<p, n>>)
         /\ AllAt(section, m, p, n, 0) \in StandsIn(Seq(Statements))
<1> DEFINE D == Nat \X Nat
           V == StandsIn(Seq(Statements))
           mu == [x \in D |-> x[2]]
           F == [f \in [D -> V] |-> [x \in D |-> SectionStep(f, section, m, x)]]
           all == SectionReader(section, m)
<1>1. mu \in [D -> Nat]
  OBVIOUS
<1>2. ASSUME NEW f, NEW x \in D, \A y \in D : mu[y] < mu[x] => f[y] \in V
      PROVE  SectionStep(f, section, m, x) \in V
  <2>1. PICK q \in Nat, k \in Nat : x = <<q, k>>
    OBVIOUS
  <2> DEFINE item == ItemAt(section, m, q)
             rest == f[<<item.end, k - 1>>]
             step == SectionStep(f, section, m, x)
  <2>2. CASE k = 0
    <3>1. step = Item(<<>>, q)
      BY <2>1, <2>2 DEF SectionStep
    <3>2. <<>> \in Seq(Statements)
      OBVIOUS
    <3> HIDE DEF step
    <3> QED BY <3>1, <3>2, ItemStands DEF step
  <2>3. CASE k # 0 /\ ~item.good
    <3>1. step = No
      BY <2>1, <2>3 DEF SectionStep, Given
    <3> QED BY <3>1 DEF StandsIn
  <2>4. CASE k # 0 /\ item.good
    <3>1. item \in StandsIn(Statements)
      BY ItemAtStands
    <3>2. step = FirstThen(item.says, rest)
      BY <2>1, <2>4 DEF SectionStep, Given
    <3> HIDE DEF item, step, rest
    <3>3. item.says \in Statements /\ item.end \in Nat
      BY <2>4, <3>1, ItemIs
    <3>4. rest \in V
      <4>1. k - 1 \in Nat /\ <<item.end, k - 1>> \in D /\ mu[<<item.end, k - 1>>] < mu[x]
        BY <2>1, <2>4, <3>3
      <4> HIDE DEF mu, D, V
      <4> QED BY <1>2, <4>1 DEF rest
    <3> QED BY <3>2, <3>3, <3>4, FirstThenStands DEF step
  <2> QED BY <2>2, <2>3, <2>4
<1>3. ASSUME NEW g, NEW h, NEW x \in D, \A y \in D : mu[y] < mu[x] => g[y] = h[y]
      PROVE  SectionStep(g, section, m, x) = SectionStep(h, section, m, x)
  <2>1. PICK q \in Nat, k \in Nat : x = <<q, k>>
    OBVIOUS
  <2> DEFINE item == ItemAt(section, m, q)
  <2>2. CASE k = 0
    BY <2>1, <2>2 DEF SectionStep
  <2>3. CASE k # 0 /\ ~item.good
    BY <2>1, <2>3 DEF SectionStep, Given
  <2>4. CASE k # 0 /\ item.good
    <3>1. item.end \in Nat
      <4>1. item \in StandsIn(Statements)
        BY ItemAtStands
      <4> HIDE DEF item
      <4> QED BY <2>4, <4>1, ItemIs
    <3>2. <<item.end, k - 1>> \in D /\ mu[<<item.end, k - 1>>] < mu[x]
      BY <2>1, <2>4, <3>1
    <3>3. g[<<item.end, k - 1>>] = h[<<item.end, k - 1>>]
      BY <1>3, <3>2
    <3> QED BY <2>1, <2>4, <3>3 DEF SectionStep, Given
  <2> QED BY <2>2, <2>3, <2>4
<1> HIDE DEF mu, V
<1>4. F \in [[D -> V] -> [D -> V]]
  BY <1>2
<1>5. Local(F, D, V, mu)
  BY <1>3 DEF Local
<1>6. V # {}
  BY DEF V, StandsIn
<1>7. Solvable(F, D, V)
  <2> HIDE DEF F, D
  <2> QED BY <1>1, <1>4, <1>5, <1>6, Recursion, Zenon
<1>8. \E f : f = [x \in D |-> SectionStep(f, section, m, x)]
  BY <1>7 DEF Solvable
<1>9. all = [x \in D |-> SectionStep(all, section, m, x)]
  BY <1>8 DEF SectionReader
<1> HIDE DEF all, F
<1>10. \A x \in D : all[x] = SectionStep(all, section, m, x)
  BY <1>9
<1> DEFINE S == {x \in D : all[x] \in V}
<1>11. \A x \in D : x \in S
  <2>1. ASSUME NEW x \in D, \A y \in D : mu[y] < mu[x] => y \in S
        PROVE  x \in S
    BY <1>2, <1>10, <2>1
  <2>2. \A x \in D : mu[x] \in Nat
    BY <1>1
  <2> HIDE DEF S, D, mu
  <2>5. Inductive(D, mu, S)
    BY <2>1, <2>2 DEF Inductive
  <2> QED BY <2>5, Induction
<1>12. <<p, n>> \in D
  OBVIOUS
<1>13. all[<<p, n>>] \in V
  BY <1>11, <1>12
<1>14. AllAt(section, m, p, n, 0) = all[<<p, n>>]
  BY ReaderOfSections DEF all
<1> QED BY <1>10, <1>12, <1>13, <1>14 DEF all, V

\* One item at a time, as they stand and as they are read.
LEMMA SectionIs ==
  ASSUME NEW section, NEW m \in Texts, NEW p \in Nat
  PROVE  /\ AllAt(section, m, p, 0, 0) = Item(<<>>, p)
         /\ ReadAll(section, m, p, 0) = Ok(<<>>, p)
         /\ \A k \in Nat :
               LET item == ItemAt(section, m, p)
                   rest == AllAt(section, m, item.end, k, 0)
               IN  AllAt(section, m, p, k + 1, 0)
                      = IF item.good THEN FirstThen(item.says, rest) ELSE No
         /\ \A k \in Nat :
               LET item == ReadItem(section, m, p)
                   rest == ReadAll(section, m, item.next, k)
               IN  item.ok = "ok" => ReadAll(section, m, p, k + 1) = Before(item.value, rest)
<1>1. AllAt(section, m, p, 0, 0) = Item(<<>>, p)
  <2>1. AllAt(section, m, p, 0, 0) = SectionStep(SectionReader(section, m), section, m, <<p, 0>>)
    BY SectionsStand
  <2> QED BY <2>1 DEF SectionStep
<1>2. ReadAll(section, m, p, 0) = Ok(<<>>, p)
  <2>1. AllReader(section, m)[<<p, 0>>] = AllStep(AllReader(section, m), section, m, <<p, 0>>)
    BY AllAreRead
  <2> QED BY <2>1, ReaderOfAll DEF AllStep
<1>3. ASSUME NEW k \in Nat
      PROVE  LET item == ItemAt(section, m, p)
                 rest == AllAt(section, m, item.end, k, 0)
             IN  AllAt(section, m, p, k + 1, 0)
                    = IF item.good THEN FirstThen(item.says, rest) ELSE No
  <2> DEFINE n == k + 1
  <2>1. n \in Nat /\ n # 0 /\ n - 1 = k
    OBVIOUS
  <2> HIDE DEF n
  <2>2. AllAt(section, m, p, n, 0) = SectionStep(SectionReader(section, m), section, m, <<p, n>>)
    BY <2>1, SectionsStand
  <2> QED BY <2>1, <2>2, ReaderOfSections DEF SectionStep, Given, n
<1>4. ASSUME NEW k \in Nat, ReadItem(section, m, p).ok = "ok"
      PROVE  LET item == ReadItem(section, m, p)
                 rest == ReadAll(section, m, item.next, k)
             IN  ReadAll(section, m, p, k + 1) = Before(item.value, rest)
  <2> DEFINE n == k + 1
  <2>1. n \in Nat /\ n # 0 /\ n - 1 = k
    OBVIOUS
  <2> HIDE DEF n
  <2>2. ReadAll(section, m, p, n) = AllStep(AllReader(section, m), section, m, <<p, n>>)
    BY <2>1, AllAreRead, ReaderOfAll
  <2>3. AllStep(AllReader(section, m), section, m, <<p, n>>)
          = Then(ReadItem(section, m, p),
                 LAMBDA item, next : Before(item, AllReader(section, m)[<<next, k>>]))
    BY <2>1 DEF AllStep, Then
  <2>4. ReadAll(section, m, p, n)
          = Before(ReadItem(section, m, p).value,
                   AllReader(section, m)[<<ReadItem(section, m, p).next, k>>])
    BY <1>4, <2>2, <2>3 DEF Then
  <2> QED BY <2>4, ReaderOfAll DEF n
<1> QED BY <1>1, <1>2, <1>3, <1>4

\* Wherever w stands in a message, the k items there are ss.
SectionCarries(section, ss, w, k) ==
    /\ ss \in Seq(Statements) /\ w \in Texts /\ k \in Nat
    /\ \A m \in Texts : \A p \in Nat :
          Spells(m, p, w) => AllAt(section, m, p, k, 0) = Item(ss, p + Len(w))

LEMMA NothingCarries ==
  ASSUME NEW section
  PROVE  SectionCarries(section, <<>>, <<>>, 0)
<1>1. <<>> \in Texts /\ Len(<<>>) = 0 /\ \A p \in Nat : p + 0 = p
  BY DEF Texts
<1>2. \A m \in Texts : \A p \in Nat : AllAt(section, m, p, 0, 0) = Item(<<>>, p)
  BY SectionIs
<1> QED BY <1>1, <1>2 DEF SectionCarries

LEMMA ItemAndSectionCarry ==
  ASSUME NEW section, NEW s \in Statements, NEW v, ItemCarries(section, s, v),
         NEW ss, NEW w, NEW k, SectionCarries(section, ss, w, k)
  PROVE  SectionCarries(section, Cons(s, ss), v \o w, k + 1)
<1> DEFINE u == v \o w
           t == Cons(s, ss)
<1>1. /\ v \in Texts /\ w \in Texts /\ Len(v) \in Nat /\ Len(w) \in Nat
      /\ k \in Nat /\ k + 1 \in Nat /\ ss \in Seq(Statements)
  BY LengthOf DEF ItemCarries, SectionCarries
<1>2. u \in Texts /\ Len(u) = Len(v) + Len(w)
  BY <1>1, Appended
<1>3. t \in Seq(Statements)
  BY <1>1 DEF Cons
<1> HIDE DEF u, t
<1>4. ASSUME NEW m \in Texts, NEW p \in Nat, Spells(m, p, u)
      PROVE  AllAt(section, m, p, k + 1, 0) = Item(t, p + Len(u))
  <2> DEFINE item == ItemAt(section, m, p)
             stop == p + Len(v)
             rest == AllAt(section, m, stop, k, 0)
  <2>1. Spells(m, p, v) /\ Spells(m, stop, w) /\ stop \in Nat
    BY <1>1, <1>4, SpellsTwo DEF u
  <2>2. item.good /\ item.says = s /\ item.end = stop
    BY <2>1 DEF ItemCarries, Item
  <2>3. rest = Item(ss, stop + Len(w))
    BY <2>1 DEF SectionCarries
  <2>4. AllAt(section, m, p, k + 1, 0) = FirstThen(s, rest)
    BY <1>1, <2>2, SectionIs
  <2>5. rest.good /\ rest.says = ss /\ rest.end = stop + Len(w)
    BY <2>3 DEF Item
  <2>6. stop + Len(w) = p + Len(u)
    BY <1>1, <1>2
  <2> HIDE DEF rest, stop
  <2>7. FirstThen(s, rest) = Item(t, stop + Len(w))
    BY <2>5 DEF FirstThen, Given, Cons, t
  <2> QED BY <2>4, <2>6, <2>7
<1>5. SectionCarries(section, t, u, k + 1)
  BY <1>1, <1>2, <1>3, <1>4 DEF SectionCarries
<1> QED BY <1>5 DEF t, u

LEMMA ConsAppend ==
  ASSUME NEW S, NEW x \in S, NEW s \in Seq(S), NEW t \in Seq(S)
  PROVE  Cons(x, s) \o t = Cons(x, s \o t) /\ s \o t \in Seq(S)
<1>1. <<x>> \in Seq(S)
  OBVIOUS
<1>2. (<<x>> \o s) \o t = <<x>> \o (s \o t)
  BY <1>1, ConcatAssociative
<1> QED BY <1>2, ConcatProperties DEF Cons

\* Items that follow others are as long after them as alone.
LEMMA ItemsInTurn ==
  ASSUME NEW section, NEW t \in Seq(Items(section)), NEW s \in Seq(Items(section))
  PROVE  /\ Len(WriteItems(section, s \o t))
               = Len(WriteItems(section, s)) + Len(WriteItems(section, t))
         /\ Len(WriteItems(section, s)) \in Nat /\ Len(WriteItems(section, t)) \in Nat
<1> DEFINE T == Items(section)
           Size(v) == Len(WriteItems(section, v))
           S == {n \in Nat : \A v \in Seq(T) : Len(v) = n => Size(v \o t) = Size(v) + Size(t)}
<1>1. \A v \in Seq(T) : WriteItems(section, v) \in Texts /\ Size(v) \in Nat
  BY WriteItemsType, LengthOf
<1>2. t \in Seq(T) /\ s \in Seq(T) /\ Len(s) \in Nat
  BY LenProperties
<1>3. 0 \in S
  <2> SUFFICES ASSUME NEW v \in Seq(T), Len(v) = 0 PROVE Size(v \o t) = Size(v) + Size(t)
    OBVIOUS
  <2>1. v = <<>> /\ <<>> \o t = t
    BY <1>2, EmptySeq, ConcatEmptySeq
  <2>2. WriteItems(section, <<>>) = <<>> /\ Len(<<>>) = 0
    BY WriteNoItems
  <2>3. Size(v \o t) = Size(t) /\ Size(v) = 0
    BY <2>1, <2>2
  <2> HIDE DEF Size
  <2> QED BY <1>1, <1>2, <2>3
<1>4. ASSUME NEW n \in Nat, n \in S PROVE n + 1 \in S
  <2> SUFFICES ASSUME NEW v \in Seq(T), Len(v) = n + 1 PROVE Size(v \o t) = Size(v) + Size(t)
    OBVIOUS
  <2> DEFINE x == Head(v)
             r == Tail(v)
  <2>1. x \in T /\ r \in Seq(T) /\ Len(r) = n /\ v = Cons(x, r)
    BY <1>4, Splits DEF Cons
  <2> HIDE DEF x, r
  <2>2. v \o t = Cons(x, r \o t) /\ r \o t \in Seq(T)
    <3> HIDE DEF T
    <3>1. Cons(x, r) \o t = Cons(x, r \o t) /\ r \o t \in Seq(T)
      BY <1>2, <2>1, ConsAppend
    <3> QED BY <2>1, <3>1
  <2>3. Size(r \o t) = Size(r) + Size(t)
    BY <1>4, <2>1
  <2> DEFINE w == WriteItem(section, x)
  <2>4. w \in Texts /\ Len(w) \in Nat
    BY <2>1, WriteItemType, LengthOf
  <2>5. /\ WriteItems(section, Cons(x, r)) = w \o WriteItems(section, r)
        /\ WriteItems(section, Cons(x, r \o t)) = w \o WriteItems(section, r \o t)
    BY <2>1, <2>2, WriteItemsType
  <2> HIDE DEF w, T
  <2>6. /\ Len(w \o WriteItems(section, r)) = Len(w) + Size(r)
        /\ Len(w \o WriteItems(section, r \o t)) = Len(w) + Size(r \o t)
    BY <1>1, <2>1, <2>2, <2>4, Appended
  <2>7. Size(v) = Len(w) + Size(r) /\ Size(v \o t) = Len(w) + Size(r \o t)
    BY <2>1, <2>2, <2>5, <2>6
  <2>8. Size(r) \in Nat /\ Size(t) \in Nat
    BY <1>1, <1>2, <2>1
  <2> HIDE DEF Size
  <2> QED BY <2>3, <2>4, <2>7, <2>8
<1> HIDE DEF S
<1>5. \A n \in Nat : n \in S
  BY <1>3, <1>4, CountingUp
<1>6. Size(s \o t) = Size(s) + Size(t)
  BY <1>2, <1>5 DEF S
<1> QED BY <1>1, <1>2, <1>6

\* The items of a section that stands at p are read up to its end.  What is
\* written of them is as long and, whatever items come after them, says the same
\* wherever it stands.
FollowedBy(section, said, value, n) ==
    \A t \in Seq(Items(section)) : \A u \in Seq(Statements) : \A j \in Nat :
        SectionCarries(section, u, WriteItems(section, t), j) =>
            SectionCarries(section, said \o u, WriteItems(section, value \o t), n + j)

SectionRenders(section, m, p, n) ==
    LET all == AllAt(section, m, p, n, 0)
        read == ReadAll(section, m, p, n)
    IN  p <= Len(m) /\ all.good =>
           /\ read = Ok(read.value, all.end) /\ read.value \in Seq(Items(section))
           /\ all.says \in Seq(Statements) /\ all.end \in Nat /\ all.end <= Len(m)
           /\ p <= all.end
           /\ section # "questions" => p + 5 * n <= all.end
           /\ Len(WriteItems(section, read.value)) = all.end - p
           /\ FollowedBy(section, all.says, read.value, n)

LEMMA SectionsRender ==
  ASSUME NEW section, NEW m \in Texts, ToSet(m) \intersect NotUtf8 = {},
         NEW p \in Nat, NEW n \in Nat
  PROVE  SectionRenders(section, m, p, n)
<1> DEFINE S == {k \in Nat : \A q \in Nat : SectionRenders(section, m, q, k)}
<1>1. 0 \in S
  <2> SUFFICES ASSUME NEW q \in Nat, q <= Len(m) PROVE SectionRenders(section, m, q, 0)
    BY DEF SectionRenders
  <2> DEFINE all == AllAt(section, m, q, 0, 0)
             read == ReadAll(section, m, q, 0)
  <2>1. all = Item(<<>>, q) /\ read = Ok(<<>>, q)
    BY SectionIs
  <2> HIDE DEF all, read
  <2>2. all.says = <<>> /\ all.end = q /\ read.value = <<>> /\ read = Ok(read.value, all.end)
    BY <2>1 DEF Item, Ok
  <2>3. Len(WriteItems(section, <<>>)) = q - q
    BY WriteNoItems
  <2>4. FollowedBy(section, <<>>, <<>>, 0)
    <3>1. \A t \in Seq(Items(section)) : <<>> \o t = t
      BY ConcatEmptySeq
    <3>2. \A u \in Seq(Statements) : <<>> \o u = u
      BY ConcatEmptySeq
    <3>3. \A j \in Nat : 0 + j = j
      OBVIOUS
    <3> QED BY <3>1, <3>2, <3>3 DEF FollowedBy
  <2>5. q <= q /\ q + 5 * 0 <= q
    OBVIOUS
  <2>6. <<>> \in Seq(Items(section)) /\ <<>> \in Seq(Statements)
    OBVIOUS
  <2>7. /\ read = Ok(read.value, all.end) /\ read.value \in Seq(Items(section))
        /\ all.says \in Seq(Statements) /\ all.end \in Nat /\ all.end <= Len(m)
        /\ q <= all.end
        /\ section # "questions" => q + 5 * 0 <= all.end
        /\ Len(WriteItems(section, read.value)) = all.end - q
        /\ FollowedBy(section, all.says, read.value, 0)
    BY <2>2, <2>3, <2>4, <2>5, <2>6
  <2> QED BY <2>7 DEF SectionRenders, all, read
<1>2. ASSUME NEW k \in Nat, k \in S PROVE k + 1 \in S
  <2> SUFFICES ASSUME NEW q \in Nat, q <= Len(m), AllAt(section, m, q, k + 1, 0).good
               PROVE  SectionRenders(section, m, q, k + 1)
    BY DEF SectionRenders
  <2> DEFINE item == ItemAt(section, m, q)
             first == ReadItem(section, m, q)
             x == first.value
             from == item.end
             rest == AllAt(section, m, from, k, 0)
             others == ReadAll(section, m, from, k)
             v == others.value
             all == AllAt(section, m, q, k + 1, 0)
             read == ReadAll(section, m, q, k + 1)
  <2>0. Len(m) \in Nat /\ k + 1 \in Nat
    BY LengthOf
  <2>1. item.good /\ all = FirstThen(item.says, rest)
    <3>1. No.good = FALSE
      BY DEF No
    <3> QED BY <3>1, SectionIs
  <2>2. /\ ItemSurvives(section, item, q, m, first)
        /\ section # "questions" => q + 5 <= from
    BY <2>1, QuestionRenders, RecordRenders DEF ItemAt, ReadItem
  <2>3. /\ first = Ok(x, from) /\ x \in Items(section)
        /\ from \in Nat /\ q < from /\ from <= Len(m)
        /\ Len(WriteItem(section, x)) = from - q
        /\ ItemCarries(section, item.says, WriteItem(section, x))
    BY <2>2 DEF ItemSurvives
  <2>4. item.says \in Statements
    BY <2>1, ItemAtStands, ItemIs
  <2>5. rest \in StandsIn(Seq(Statements))
    BY <2>3, SectionsStand
  <2> HIDE DEF item, first, rest, x, from
  <2>6. rest.good /\ all = Item(Cons(item.says, rest.says), rest.end)
    BY <2>1, <2>4, <2>5, FirstThenStands
  <2>7. SectionRenders(section, m, from, k)
    BY <1>2, <2>3
  <2>8. /\ others = Ok(v, rest.end) /\ v \in Seq(Items(section))
        /\ rest.says \in Seq(Statements) /\ rest.end \in Nat /\ rest.end <= Len(m)
        /\ from <= rest.end
        /\ section # "questions" => from + 5 * k <= rest.end
        /\ Len(WriteItems(section, v)) = rest.end - from
        /\ FollowedBy(section, rest.says, v, k)
    BY <2>3, <2>6, <2>7 DEF SectionRenders, rest
  <2>9. first.ok = "ok" /\ first.value = x /\ first.next = from
    BY <2>3 DEF Ok
  <2>10. read = Before(x, others)
    BY <2>9, SectionIs DEF first
  <2>11. read = Ok(Cons(x, v), rest.end)
    <3> HIDE DEF others, v
    <3>1. others.ok = "ok" /\ others.value = v /\ others.next = rest.end
      BY <2>8 DEF Ok
    <3> HIDE DEF read
    <3> QED BY <2>10, <3>1 DEF Before, Then, Cons
  <2> HIDE DEF others, v, all, read
  <2>12. Cons(x, v) \in Seq(Items(section)) /\ Cons(item.says, rest.says) \in Seq(Statements)
    BY <2>3, <2>4, <2>8 DEF Cons
  <2>13. WriteItems(section, Cons(x, v)) = WriteItem(section, x) \o WriteItems(section, v)
         /\ WriteItem(section, x) \in Texts /\ WriteItems(section, v) \in Texts
    BY <2>3, <2>8, WriteItemsType, WriteItemType
  <2>14. Len(WriteItems(section, Cons(x, v))) = rest.end - q
    <3>1. Len(WriteItems(section, Cons(x, v)))
             = Len(WriteItem(section, x)) + Len(WriteItems(section, v))
      BY <2>13, Appended
    <3>2. (from - q) + (rest.end - from) = rest.end - q
      BY <2>3, <2>8
    <3> QED BY <2>3, <2>8, <3>1, <3>2
  <2>15. q <= rest.end /\ (section # "questions" => q + 5 * (k + 1) <= rest.end)
    BY <2>2, <2>3, <2>8
  <2>16. FollowedBy(section, Cons(item.says, rest.says), Cons(x, v), k + 1)
    <3> SUFFICES ASSUME NEW t \in Seq(Items(section)), NEW u \in Seq(Statements), NEW j \in Nat,
                        SectionCarries(section, u, WriteItems(section, t), j)
                 PROVE  SectionCarries(section, Cons(item.says, rest.says) \o u,
                                       WriteItems(section, Cons(x, v) \o t), (k + 1) + j)
      BY DEF FollowedBy
    <3>1. SectionCarries(section, rest.says \o u, WriteItems(section, v \o t), k + j)
      BY <2>8 DEF FollowedBy
    <3>2. SectionCarries(section, Cons(item.says, rest.says \o u),
                         WriteItem(section, x) \o WriteItems(section, v \o t), (k + j) + 1)
      BY <2>3, <2>4, <3>1, ItemAndSectionCarry
    <3>3. Cons(item.says, rest.says) \o u = Cons(item.says, rest.says \o u)
      <4> DEFINE a == item.says
                 b == rest.says
      <4>1. a \in Statements /\ b \in Seq(Statements)
        BY <2>4, <2>8
      <4> HIDE DEF a, b
      <4>2. Cons(a, b) \o u = Cons(a, b \o u)
        BY <4>1, ConsAppend
      <4> QED BY <4>2 DEF a, b
    <3>4. Cons(x, v) \o t = Cons(x, v \o t) /\ v \o t \in Seq(Items(section))
      BY <2>3, <2>8, ConsAppend
    <3>5. WriteItems(section, Cons(x, v \o t))
             = WriteItem(section, x) \o WriteItems(section, v \o t)
      BY <2>3, <3>4, WriteItemsType
    <3>6. (k + j) + 1 = (k + 1) + j
      OBVIOUS
    <3> QED BY <3>2, <3>3, <3>4, <3>5, <3>6
  <2>17. all.says = Cons(item.says, rest.says) /\ all.end = rest.end
    BY <2>6 DEF Item
  <2>18. read.value = Cons(x, v) /\ read = Ok(read.value, all.end)
    BY <2>11, <2>17 DEF Ok
  <2>19. /\ read = Ok(read.value, all.end) /\ read.value \in Seq(Items(section))
         /\ all.says \in Seq(Statements) /\ all.end \in Nat /\ all.end <= Len(m)
         /\ q <= all.end
         /\ section # "questions" => q + 5 * (k + 1) <= all.end
         /\ Len(WriteItems(section, read.value)) = all.end - q
         /\ FollowedBy(section, all.says, read.value, k + 1)
    BY <2>8, <2>12, <2>14, <2>15, <2>16, <2>17, <2>18
  <2> QED BY <2>19 DEF SectionRenders, all, read
<1> HIDE DEF S
<1>3. \A k \in Nat : k \in S
  BY <1>1, <1>2, CountingUp
<1> QED BY <1>3 DEF S

-----------------------------------------------------------------------------
(* Flags                                                                   *)

Bit(flag) == IF flag THEN 1 ELSE 0

BitOf(w, n) == (w \div n) % 2
OpcodeOf(w) == (w \div 2048) % 16
CodeOf(w) == w % 16

\* The bits of a word do not meet.
Word(a, op, b, c, d, e, r) ==
    a * 32768 + op * 2048 + b * 1024 + c * 512 + d * 256 + e * 128 + r

Fields(w, a, op, b, c, d, e, r) ==
    /\ w \in Nat /\ w <= 65535
    /\ BitOf(w, 32768) = a /\ OpcodeOf(w) = op
    /\ BitOf(w, 1024) = b /\ BitOf(w, 512) = c
    /\ BitOf(w, 256) = d /\ BitOf(w, 128) = e /\ CodeOf(w) = r

LEMMA WordOf ==
  ASSUME NEW a \in Nat, NEW op \in Nat, NEW b \in Nat, NEW c \in Nat,
         NEW d \in Nat, NEW e \in Nat, NEW r \in Nat,
         a <= 1, op <= 3, b <= 1, c <= 1, d <= 1, e <= 1, r <= 5
  PROVE  Fields(Word(a, op, b, c, d, e, r), a, op, b, c, d, e, r)
<1> DEFINE w == Word(a, op, b, c, d, e, r)
<1>1. w \in Nat
  BY DEF Word
<1>15. w <= 65535
  BY DEF Word
<1>2. w \div 32768 = a
  BY DEF Word
<1>3. w \div 2048 = a * 16 + op
  BY DEF Word
<1>4. w \div 1024 = a * 32 + op * 2 + b
  BY DEF Word
<1>5. w \div 512 = a * 64 + op * 4 + b * 2 + c
  BY DEF Word
<1>6. w \div 256 = a * 128 + op * 8 + b * 4 + c * 2 + d
  BY DEF Word
<1>7. w \div 128 = a * 256 + op * 16 + b * 8 + c * 4 + d * 2 + e
  BY DEF Word
<1>8. CodeOf(w) = r
  BY DEF Word, CodeOf
<1> HIDE DEF w
<1>9. BitOf(w, 32768) = a
  BY <1>2 DEF BitOf
<1>10. OpcodeOf(w) = op
  BY <1>3 DEF OpcodeOf
<1>11. BitOf(w, 1024) = b
  BY <1>4 DEF BitOf
<1>12. BitOf(w, 512) = c
  BY <1>5 DEF BitOf
<1>13. BitOf(w, 256) = d
  BY <1>6 DEF BitOf
<1>14. BitOf(w, 128) = e
  BY <1>7 DEF BitOf
<1>16. Fields(w, a, op, b, c, d, e, r)
  BY <1>1, <1>15, <1>8, <1>9, <1>10, <1>11, <1>12, <1>13, <1>14 DEF Fields
<1> QED BY <1>16 DEF w

Headers == [is_response : BOOLEAN, opcode : 0 .. 3, authoritative_answer : BOOLEAN,
            truncated : BOOLEAN, recursion_desired : BOOLEAN,
            recursion_available : BOOLEAN, rcode : 0 .. 5]

\* The flags of the five that a header has.
KeptOf(h) ==
    {bit \in {32768, 1024, 512, 256, 128} :
        CASE bit = 32768 -> h.is_response
          [] bit = 1024 -> h.authoritative_answer
          [] bit = 512 -> h.truncated
          [] bit = 256 -> h.recursion_desired
          [] OTHER -> h.recursion_available}

LEMMA SameFlags ==
  ASSUME NEW h \in Headers, NEW word,
         h.is_response <=> BitOf(word, 32768) = 1,
         h.authoritative_answer <=> BitOf(word, 1024) = 1,
         h.truncated <=> BitOf(word, 512) = 1,
         h.recursion_desired <=> BitOf(word, 256) = 1,
         h.recursion_available <=> BitOf(word, 128) = 1
  PROVE  Kept(word) = KeptOf(h)
<1> DEFINE Odd(bit) == BitOf(word, bit) = 1
           Flag(bit) == CASE bit = 32768 -> h.is_response
                          [] bit = 1024 -> h.authoritative_answer
                          [] bit = 512 -> h.truncated
                          [] bit = 256 -> h.recursion_desired
                          [] OTHER -> h.recursion_available
<1>1. (Flag(32768) <=> h.is_response) /\ (Flag(1024) <=> h.authoritative_answer)
      /\ (Flag(512) <=> h.truncated) /\ (Flag(256) <=> h.recursion_desired)
      /\ (Flag(128) <=> h.recursion_available)
  BY DEF Headers
<1>2. (Flag(32768) <=> Odd(32768)) /\ (Flag(1024) <=> Odd(1024)) /\ (Flag(512) <=> Odd(512))
      /\ (Flag(256) <=> Odd(256)) /\ (Flag(128) <=> Odd(128))
  BY <1>1
<1>3. Kept(word) = {bit \in {32768, 1024, 512, 256, 128} : Odd(bit)}
  BY DEF Kept, BitOf
<1>4. KeptOf(h) = {bit \in {32768, 1024, 512, 256, 128} : Flag(bit)}
  BY DEF KeptOf
<1> HIDE DEF Odd, Flag
<1>5. \A bit \in {32768, 1024, 512, 256, 128} : Flag(bit) <=> Odd(bit)
  BY <1>2
<1> QED BY <1>3, <1>4, <1>5

LEMMA FlagsWritten ==
  ASSUME NEW h \in Headers
  PROVE  /\ WriteFlags(h) \in Nat /\ WriteFlags(h) <= 65535
         /\ Kept(WriteFlags(h)) = KeptOf(h)
         /\ CodeOf(WriteFlags(h)) = h.rcode
         /\ OpcodeOf(WriteFlags(h)) = h.opcode
<1> DEFINE a == Bit(h.is_response)
           b == Bit(h.authoritative_answer)
           c == Bit(h.truncated)
           d == Bit(h.recursion_desired)
           e == Bit(h.recursion_available)
           op == h.opcode
           r == h.rcode
           w == Word(a, op, b, c, d, e, r)
<1>1. /\ a \in Nat /\ b \in Nat /\ c \in Nat /\ d \in Nat /\ e \in Nat
      /\ a <= 1 /\ b <= 1 /\ c <= 1 /\ d <= 1 /\ e <= 1
      /\ op \in Nat /\ op <= 3 /\ r \in Nat /\ r <= 5
  BY DEF Bit, Headers
<1>2. WriteFlags(h) = w
  <2>1. \A flag \in BOOLEAN : \A bit \in Nat : (IF flag THEN bit ELSE 0) = Bit(flag) * bit
    BY DEF Bit
  <2>2. WriteFlags(h) = a * 32768 + op * 2048 + b * 1024 + c * 512 + d * 256 + e * 128 + r
    BY <2>1 DEF WriteFlags, Headers
  <2> QED BY <2>2 DEF Word
<1>3. /\ a = 1 <=> h.is_response
      /\ b = 1 <=> h.authoritative_answer
      /\ c = 1 <=> h.truncated
      /\ d = 1 <=> h.recursion_desired
      /\ e = 1 <=> h.recursion_available
  BY DEF Bit
<1> HIDE DEF a, b, c, d, e, op, r
<1>6. Fields(w, a, op, b, c, d, e, r)
  BY <1>1, WordOf
<1> HIDE DEF w
<1>4. /\ w \in Nat /\ w <= 65535
      /\ BitOf(w, 32768) = a /\ OpcodeOf(w) = op
      /\ BitOf(w, 1024) = b /\ BitOf(w, 512) = c
      /\ BitOf(w, 256) = d /\ BitOf(w, 128) = e /\ CodeOf(w) = r
  BY <1>6 DEF Fields
<1>5. Kept(w) = KeptOf(h)
  BY <1>3, <1>4, SameFlags
<1> QED BY <1>2, <1>4, <1>5 DEF op, r

LEMMA FlagsRead ==
  ASSUME NEW word \in Nat
  PROVE  LET h == ReadFlags(word)
         IN  /\ h \in Headers
             /\ KeptOf(h) = Kept(word)
             /\ h.rcode = NoError <=> CodeOf(word) = NoError
             /\ h.opcode = 0 <=> OpcodeOf(word) = 0
<1> DEFINE h == ReadFlags(word)
           op == OpcodeOf(word)
           code == CodeOf(word)
<1>1. op \in 0 .. 15 /\ code \in 0 .. 15
  BY DEF OpcodeOf, CodeOf
<1> HIDE DEF op, code
<1>2. Opcode(op) \in 0 .. 3 /\ ResponseCode(code) \in 0 .. 5
  BY <1>1 DEF Opcode, ResponseCode, ServFail
<1>3. (Opcode(op) = 0 <=> op = 0) /\ (ResponseCode(code) = NoError <=> code = NoError)
  BY <1>1 DEF Opcode, ResponseCode, ServFail, NoError
<1>4. h = [is_response |-> IsSet(word, 32768), opcode |-> Opcode(op),
           authoritative_answer |-> IsSet(word, 1024), truncated |-> IsSet(word, 512),
           recursion_desired |-> IsSet(word, 256), recursion_available |-> IsSet(word, 128),
           rcode |-> ResponseCode(code)]
  BY DEF ReadFlags, op, code, OpcodeOf, CodeOf
<1>5. \A bit : IsSet(word, bit) \in BOOLEAN /\ (IsSet(word, bit) <=> BitOf(word, bit) = 1)
  BY DEF IsSet, BitOf
<1> HIDE DEF h
<1>6. h \in Headers
  BY <1>2, <1>4, <1>5 DEF Headers
<1>7. KeptOf(h) = Kept(word)
  <2>1. /\ h.is_response <=> BitOf(word, 32768) = 1
        /\ h.authoritative_answer <=> BitOf(word, 1024) = 1
        /\ h.truncated <=> BitOf(word, 512) = 1
        /\ h.recursion_desired <=> BitOf(word, 256) = 1
        /\ h.recursion_available <=> BitOf(word, 128) = 1
    BY <1>4, <1>5
  <2> QED BY <1>6, <2>1, SameFlags
<1>8. h.rcode = ResponseCode(code) /\ h.opcode = Opcode(op)
  BY <1>4
<1> QED BY <1>3, <1>6, <1>7, <1>8 DEF h, op, code

-----------------------------------------------------------------------------
(* Messages, read                                                          *)

\* The sections as they stand and as they are read.
QuestionsAt(m) == AllAt("questions", m, 3, m[1], 0)
AnswersAt(m) == AllAt("answers", m, QuestionsAt(m).end, m[2], 0)
OthersAt(m) == AllAt("others", m, AnswersAt(m).end, m[3], 0)

QuestionsRead(m) == ReadAll("questions", m, 3, m[1])
AnswersRead(m) == ReadAll("answers", m, QuestionsRead(m).next, m[2])
OthersRead(m) == ReadAll("others", m, AnswersRead(m).next, m[3])

LEMMA CountsOf ==
  ASSUME NEW m \in Texts, Len(m) >= 3
  PROVE  /\ m[1] \in Octets /\ m[2] \in Octets /\ m[3] \in Octets
         /\ m[1] \in Nat /\ m[2] \in Nat /\ m[3] \in Nat
         /\ SubSeq(m, 1, 3) = <<m[1], m[2], m[3]>>
<1> DEFINE s == SubSeq(m, 1, 3)
           t == <<m[1], m[2], m[3]>>
<1>0. 1 \in 1 .. Len(m) /\ 2 \in 1 .. Len(m) /\ 3 \in 1 .. Len(m)
  BY LengthOf
<1>1. m[1] \in Octets /\ m[2] \in Octets /\ m[3] \in Octets
  BY <1>0, ElementOfSeq DEF Texts
<1>2. \A b \in Octets : b \in Nat
  BY CodecAssumption DEF Octets
<1>3. t \in Texts /\ Len(t) = 3 /\ t[1] = m[1] /\ t[2] = m[2] /\ t[3] = m[3]
  BY <1>1 DEF Texts
<1>4. s \in Texts /\ Len(s) = 3 /\ \A i \in 1 .. 3 : s[i] = m[i]
  <2>1. s = Slice(m, 0, 3) /\ Has(m, 0, 3) /\ 0 \in Nat /\ \A i \in 1 .. 3 : 0 + i = i
    BY DEF Slice, Has
  <2> HIDE DEF s
  <2>2. /\ Slice(m, 0, 3) \in Texts /\ Len(Slice(m, 0, 3)) = 3
        /\ \A i \in 1 .. 3 : Slice(m, 0, 3)[i] = m[0 + i]
    BY <2>1, SliceOfLength
  <2> QED BY <2>1, <2>2
<1> HIDE DEF s, t
<1>5. \A i \in 1 .. 3 : i = 1 \/ i = 2 \/ i = 3
  OBVIOUS
<1>6. \A i \in 1 .. 3 : s[i] = t[i]
  BY <1>3, <1>4, <1>5
<1>7. s = t
  BY <1>3, <1>4, <1>6, SeqEqual DEF Texts
<1> QED BY <1>1, <1>2, <1>7 DEF s, t

LEMMA MeaningIs ==
  ASSUME NEW m
  PROVE  /\ Meaning(m, 0).good =>
               ~(Len(m) < 3) /\ QuestionsAt(m).good /\ AnswersAt(m).good /\ OthersAt(m).good
         /\ ~(Len(m) < 3) /\ QuestionsAt(m).good /\ AnswersAt(m).good /\ OthersAt(m).good =>
               Meaning(m, 0) = Item([questions |-> QuestionsAt(m).says,
                                     answers |-> AnswersAt(m).says,
                                     others |-> OthersAt(m).says], OthersAt(m).end)
<1> DEFINE qs == QuestionsAt(m)
           as == AnswersAt(m)
           os == OthersAt(m)
           all == Item([questions |-> qs.says, answers |-> as.says, others |-> os.says], os.end)
<1>0. No.good = FALSE
  BY DEF No
<1>1. CASE Len(m) < 3
  <2>1. Meaning(m, 0) = No
    BY <1>1 DEF Meaning
  <2> QED BY <1>0, <1>1, <2>1
<1>2. CASE ~(Len(m) < 3) /\ ~qs.good
  <2>1. Meaning(m, 0) = No
    BY <1>2 DEF Meaning, Given, QuestionsAt
  <2> QED BY <1>0, <1>2, <2>1
<1>3. CASE ~(Len(m) < 3) /\ qs.good /\ ~as.good
  <2>1. Meaning(m, 0) = No
    BY <1>3 DEF Meaning, Given, QuestionsAt, AnswersAt
  <2> QED BY <1>0, <1>3, <2>1
<1>4. CASE ~(Len(m) < 3) /\ qs.good /\ as.good /\ ~os.good
  <2>1. Meaning(m, 0) = No
    BY <1>4 DEF Meaning, Given, QuestionsAt, AnswersAt, OthersAt
  <2> QED BY <1>0, <1>4, <2>1
<1>5. CASE ~(Len(m) < 3) /\ qs.good /\ as.good /\ os.good
  <2>1. Meaning(m, 0) = all
    BY <1>5 DEF Meaning, Given, QuestionsAt, AnswersAt, OthersAt
  <2> QED BY <1>5, <2>1
<1> QED BY <1>1, <1>2, <1>3, <1>4, <1>5

PacketOf(word, m) ==
    [header |-> ReadFlags(word), questions |-> QuestionsRead(m).value,
     answers |-> AnswersRead(m).value, others |-> OthersRead(m).value]

LEMMA PacketIs ==
  ASSUME NEW word, NEW m
  PROVE  /\ ReadPacket(word, m).ok = "ok" =>
               /\ Has(m, 0, 3) /\ QuestionsRead(m).ok = "ok"
               /\ AnswersRead(m).ok = "ok" /\ OthersRead(m).ok = "ok"
         /\ (/\ Has(m, 0, 3) /\ QuestionsRead(m).ok = "ok"
             /\ AnswersRead(m).ok = "ok" /\ OthersRead(m).ok = "ok")
               => ReadPacket(word, m) = Ok(PacketOf(word, m), OthersRead(m).next)
<1> DEFINE qs == QuestionsRead(m)
           as == AnswersRead(m)
           os == OthersRead(m)
           r == ReadPacket(word, m)
<1>0. /\ Count(m, "questions") = m[1] /\ Count(m, "answers") = m[2]
      /\ Count(m, "others") = m[3]
  BY DEF Count, OctetAt
<1>1. CASE ~Has(m, 0, 3)
  <2>1. r = Err
    BY <1>1 DEF ReadPacket
  <2> QED BY <1>1, <2>1 DEF Err
<1>2. CASE Has(m, 0, 3) /\ qs.ok # "ok"
  <2>1. r = qs
    BY <1>0, <1>2 DEF ReadPacket, Then, QuestionsRead
  <2> QED BY <1>2, <2>1
<1>3. CASE Has(m, 0, 3) /\ qs.ok = "ok" /\ as.ok # "ok"
  <2>1. r = as
    BY <1>0, <1>3 DEF ReadPacket, Then, QuestionsRead, AnswersRead
  <2> QED BY <1>3, <2>1
<1>4. CASE Has(m, 0, 3) /\ qs.ok = "ok" /\ as.ok = "ok" /\ os.ok # "ok"
  <2>1. r = os
    BY <1>0, <1>4 DEF ReadPacket, Then, QuestionsRead, AnswersRead, OthersRead
  <2> QED BY <1>4, <2>1
<1>5. CASE Has(m, 0, 3) /\ qs.ok = "ok" /\ as.ok = "ok" /\ os.ok = "ok"
  <2>1. r = Ok(PacketOf(word, m), os.next)
    BY <1>0, <1>5 DEF ReadPacket, Then, QuestionsRead, AnswersRead, OthersRead, PacketOf
  <2> QED BY <1>5, <2>1
<1> QED BY <1>1, <1>2, <1>3, <1>4, <1>5

Packets ==
    [header : Headers, questions : Seq(Questions), answers : Seq(Records), others : Seq(Records)]

LEMMA ItemsOf ==
  Items("questions") = Questions /\ Items("answers") = Records /\ Items("others") = Records
BY DEF Items

LEMMA PacketType ==
  ASSUME NEW word \in Nat, NEW m \in Texts, ReadPacket(word, m).ok = "ok"
  PROVE  LET pk == ReadPacket(word, m).value
         IN  /\ pk = PacketOf(word, m) /\ pk \in Packets
             /\ Len(m) >= 3
             /\ Len(pk.questions) = m[1] /\ Len(pk.answers) = m[2] /\ Len(pk.others) = m[3]
<1> DEFINE qs == QuestionsRead(m)
           as == AnswersRead(m)
           os == OthersRead(m)
           r == ReadPacket(word, m)
           pk == PacketOf(word, m)
<1>1. Has(m, 0, 3) /\ qs.ok = "ok" /\ as.ok = "ok" /\ os.ok = "ok" /\ r = Ok(pk, os.next)
  BY PacketIs
<1>2. Len(m) >= 3
  BY <1>1, LengthOf DEF Has
<1>3. m[1] \in Nat /\ m[2] \in Nat /\ m[3] \in Nat
  BY <1>2, CountsOf
<1>4. qs \in Results(Seq(Questions)) /\ Len(qs.value) = m[1]
  <2>1. 3 \in Nat
    OBVIOUS
  <2> QED BY <1>1, <1>3, <2>1, AllAreRead, ItemsOf DEF QuestionsRead
<1>5. qs.value \in Seq(Questions) /\ qs.next \in Nat
  <2> HIDE DEF qs
  <2> QED BY <1>1, <1>4, ResultIs
<1>6. as \in Results(Seq(Records)) /\ Len(as.value) = m[2]
  BY <1>1, <1>3, <1>5, AllAreRead, ItemsOf DEF AnswersRead
<1>7. as.value \in Seq(Records) /\ as.next \in Nat
  <2> HIDE DEF as
  <2> QED BY <1>1, <1>6, ResultIs
<1>8. os \in Results(Seq(Records)) /\ Len(os.value) = m[3]
  BY <1>1, <1>3, <1>7, AllAreRead, ItemsOf DEF OthersRead
<1>9. os.value \in Seq(Records)
  <2> HIDE DEF os
  <2> QED BY <1>1, <1>8, ResultIs
<1>10. pk.questions = qs.value /\ pk.answers = as.value /\ pk.others = os.value
  BY DEF PacketOf
<1>11. pk \in Packets
  BY <1>5, <1>7, <1>9, FlagsRead DEF PacketOf, Packets
<1>12. r.value = pk
  <2> HIDE DEF pk, r, os
  <2> QED BY <1>1 DEF Ok
<1> QED BY <1>2, <1>4, <1>6, <1>8, <1>10, <1>11, <1>12

-----------------------------------------------------------------------------
(* Messages, written                                                       *)

\* A packet of so many items, one section after the other.
LEMMA WrittenIs ==
  ASSUME NEW pk \in Packets, NEW a \in Octets, NEW b \in Octets, NEW c \in Octets,
         Len(pk.questions) = a, Len(pk.answers) = b, Len(pk.others) = c
  PROVE  ToBytes(pk) =
           [word |-> WriteFlags(pk.header),
            octets |-> ((<<a, b, c>> \o WriteItems("questions", pk.questions))
                         \o WriteItems("answers", pk.answers)) \o WriteItems("others", pk.others)]
<1>1. ASSUME NEW n \in Octets PROVE n % Octet = n
  <2>1. n \in Nat /\ n < Octet /\ Octet \in Nat /\ Octet > 0
    BY CodecAssumption DEF Octets
  <2> QED BY <2>1
<1>2. WriteItems("questions", pk.questions)
        = FlattenSeq([i \in DOMAIN pk.questions |-> WriteQuestion(pk.questions[i])])
  BY DEF WriteItems, WriteItem
<1>3. \A s : WriteItems("answers", s) = WriteAll(s) /\ WriteItems("others", s) = WriteAll(s)
  BY DEF WriteItems, WriteItem, WriteAll
<1>4. <<Len(pk.questions) % Octet, Len(pk.answers) % Octet, Len(pk.others) % Octet>>
         = <<a, b, c>>
  BY <1>1
<1> QED BY <1>2, <1>3, <1>4 DEF ToBytes

LEMMA AppendedStands ==
  ASSUME NEW u \in Texts, NEW w \in Texts
  PROVE  /\ Spells(u \o w, Len(u), w)
         /\ \A p \in Nat : \A v : Spells(u, p, v) /\ Len(v) \in Nat => Spells(u \o w, p, v)
<1> DEFINE t == u \o w
<1>1. /\ Len(t) = Len(u) + Len(w)
      /\ \A i \in 1 .. Len(u) : t[i] = u[i]
      /\ \A i \in 1 .. Len(w) : t[Len(u) + i] = w[i]
  BY Appended
<1>2. Len(u) \in Nat /\ Len(w) \in Nat
  BY LengthOf
<1> HIDE DEF t
<1>3. Spells(t, Len(u), w)
  BY <1>1, <1>2 DEF Spells
<1>4. ASSUME NEW p \in Nat, NEW v, Spells(u, p, v), Len(v) \in Nat PROVE Spells(t, p, v)
  <2>1. \A i \in 1 .. Len(v) : p + i \in 1 .. Len(u)
    BY <1>2, <1>4 DEF Spells
  <2> QED BY <1>1, <1>2, <1>4, <2>1 DEF Spells
<1> QED BY <1>3, <1>4 DEF t

\* The sections stand one after the other behind the counts.
LEMMA SectionsStandThere ==
  ASSUME NEW a \in Octets, NEW b \in Octets, NEW c \in Octets,
         NEW u \in Texts, NEW v \in Texts, NEW w \in Texts
  PROVE  LET m == ((<<a, b, c>> \o u) \o v) \o w
         IN  /\ m \in Texts /\ Len(m) = 3 + Len(u) + Len(v) + Len(w)
             /\ m[1] = a /\ m[2] = b /\ m[3] = c /\ SubSeq(m, 1, 3) = <<a, b, c>>
             /\ Spells(m, 3, u) /\ Spells(m, 3 + Len(u), v)
             /\ Spells(m, 3 + Len(u) + Len(v), w)
<1> DEFINE h == <<a, b, c>>
           k == h \o u
           l == k \o v
           m == l \o w
<1>1. Len(u) \in Nat /\ Len(v) \in Nat /\ Len(w) \in Nat
  BY LengthOf
<1>2. h \in Texts /\ Len(h) = 3 /\ h[1] = a /\ h[2] = b /\ h[3] = c
  BY DEF Texts
<1> HIDE DEF h
<1>3. k \in Texts /\ Len(k) = 3 + Len(u) /\ \A i \in 1 .. 3 : k[i] = h[i]
  <2>1. k \in Texts /\ Len(k) = Len(h) + Len(u) /\ \A i \in 1 .. Len(h) : k[i] = h[i]
    BY <1>1, <1>2, Appended
  <2> QED BY <1>2, <2>1
<1>4. Spells(k, 3, u)
  <2>1. Spells(k, Len(h), u)
    BY <1>1, <1>2, AppendedStands
  <2> QED BY <1>2, <2>1
<1> HIDE DEF k
<1>5. l \in Texts /\ Len(l) = 3 + Len(u) + Len(v) /\ \A i \in 1 .. 3 : l[i] = k[i]
  <2>1. l \in Texts /\ Len(l) = Len(k) + Len(v) /\ \A i \in 1 .. Len(k) : l[i] = k[i]
    BY <1>1, <1>3, Appended
  <2>2. \A i \in 1 .. 3 : i \in 1 .. Len(k)
    BY <1>1, <1>3
  <2> QED BY <1>3, <2>1, <2>2
<1>6. Spells(l, 3, u) /\ Spells(l, 3 + Len(u), v)
  <2>1. Spells(l, Len(k), v) /\ \A p \in Nat : Spells(k, p, u) => Spells(l, p, u)
    BY <1>1, <1>3, AppendedStands
  <2>2. 3 \in Nat
    OBVIOUS
  <2> QED BY <1>3, <1>4, <2>1, <2>2
<1> HIDE DEF l
<1>7. m \in Texts /\ Len(m) = 3 + Len(u) + Len(v) + Len(w) /\ \A i \in 1 .. 3 : m[i] = l[i]
  <2>1. m \in Texts /\ Len(m) = Len(l) + Len(w) /\ \A i \in 1 .. Len(l) : m[i] = l[i]
    BY <1>1, <1>5, Appended
  <2>2. \A i \in 1 .. 3 : i \in 1 .. Len(l)
    BY <1>1, <1>5
  <2> QED BY <1>5, <2>1, <2>2
<1>8. /\ Spells(m, 3, u) /\ Spells(m, 3 + Len(u), v)
      /\ Spells(m, 3 + Len(u) + Len(v), w)
  <2>1. /\ Spells(m, Len(l), w)
        /\ \A p \in Nat : Spells(l, p, u) => Spells(m, p, u)
        /\ \A p \in Nat : Spells(l, p, v) => Spells(m, p, v)
    BY <1>1, <1>5, AppendedStands
  <2>2. 3 \in Nat /\ 3 + Len(u) \in Nat
    BY <1>1
  <2> QED BY <1>5, <1>6, <2>1, <2>2
<1> HIDE DEF m
<1>9. m[1] = a /\ m[2] = b /\ m[3] = c
  <2>1. \A i \in {1, 2, 3} : m[i] = h[i]
    BY <1>3, <1>5, <1>7
  <2> QED BY <1>2, <2>1
<1>10. ~(Len(m) < 3)
  BY <1>1, <1>7
<1>11. SubSeq(m, 1, 3) = <<a, b, c>>
  BY <1>7, <1>9, <1>10, CountsOf, LengthOf
<1> QED BY <1>7, <1>8, <1>9, <1>11 DEF m, l, k, h

\* What is written of the sections is said by the message.
LEMMA SectionsAreSaid ==
  ASSUME NEW a \in Octets, NEW b \in Octets, NEW c \in Octets,
         NEW qs, NEW as, NEW os, NEW u, NEW v, NEW w,
         SectionCarries("questions", qs, u, a), SectionCarries("answers", as, v, b),
         SectionCarries("others", os, w, c)
  PROVE  LET m == ((<<a, b, c>> \o u) \o v) \o w
         IN  /\ m \in Texts /\ Len(m) = 3 + Len(u) + Len(v) + Len(w)
             /\ Meaning(m, 0) = Item([questions |-> qs, answers |-> as, others |-> os], Len(m))
<1> DEFINE m == ((<<a, b, c>> \o u) \o v) \o w
<1>1. /\ u \in Texts /\ v \in Texts /\ w \in Texts
      /\ Len(u) \in Nat /\ Len(v) \in Nat /\ Len(w) \in Nat
  BY LengthOf DEF SectionCarries
<1>7. m \in Texts /\ Len(m) = 3 + Len(u) + Len(v) + Len(w)
  BY <1>1, SectionsStandThere
<1>8. Spells(m, 3, u) /\ Spells(m, 3 + Len(u), v) /\ Spells(m, 3 + Len(u) + Len(v), w)
  BY <1>1, SectionsStandThere
<1>9. m[1] = a /\ m[2] = b /\ m[3] = c
  BY <1>1, SectionsStandThere
<1> HIDE DEF m
<1> DEFINE p == 3 + Len(u)
           q == 3 + Len(u) + Len(v)
<1>10. p \in Nat /\ q \in Nat /\ 3 \in Nat /\ p + Len(v) = q /\ q + Len(w) = Len(m)
       /\ ~(Len(m) < 3)
  BY <1>1, <1>7
<1>11. QuestionsAt(m) = Item(qs, p)
  <2>1. \A x \in Nat : Spells(m, x, u) => AllAt("questions", m, x, a, 0) = Item(qs, x + Len(u))
    BY <1>7 DEF SectionCarries
  <2> QED BY <1>8, <1>9, <1>10, <2>1 DEF QuestionsAt
<1>12. AnswersAt(m) = Item(as, q)
  <2> HIDE DEF p, q
  <2>1. QuestionsAt(m).end = p
    BY <1>11 DEF Item
  <2>2. AllAt("answers", m, p, b, 0) = Item(as, p + Len(v))
    BY <1>7, <1>8, <1>10 DEF SectionCarries, p
  <2> QED BY <1>9, <1>10, <2>1, <2>2 DEF AnswersAt
<1>13. OthersAt(m) = Item(os, Len(m))
  <2> HIDE DEF p, q
  <2>1. AnswersAt(m).end = q
    BY <1>12 DEF Item
  <2>2. AllAt("others", m, q, c, 0) = Item(os, q + Len(w))
    BY <1>7, <1>8, <1>10 DEF SectionCarries, q
  <2> QED BY <1>9, <1>10, <2>1, <2>2 DEF OthersAt
<1>14. /\ QuestionsAt(m).good /\ QuestionsAt(m).says = qs
       /\ AnswersAt(m).good /\ AnswersAt(m).says = as
       /\ OthersAt(m).good /\ OthersAt(m).says = os /\ OthersAt(m).end = Len(m)
  BY <1>11, <1>12, <1>13 DEF Item
<1>15. Meaning(m, 0) = Item([questions |-> qs, answers |-> as, others |-> os], Len(m))
  BY <1>10, <1>14, MeaningIs
<1> QED BY <1>7, <1>15 DEF m

\* The first question of a section, as it stands and as it is read.
LEMMA FirstOfSection ==
  ASSUME NEW m \in Texts, NEW p \in Nat, NEW n \in Nat
  PROVE  LET all == AllAt("questions", m, p, n, 0)
             read == ReadAll("questions", m, p, n)
             item == QuestionAt(m, p, 0)
             first == ReadQuestion(m, p)
         IN  /\ n = 0 => all.says = <<>> /\ read.value = <<>>
             /\ n > 0 /\ all.good => item.good /\ all.says # <<>> /\ Head(all.says) = item.says
             /\ n > 0 /\ read.ok = "ok" /\ first.ok = "ok" =>
                   read.value # <<>> /\ Head(read.value) = first.value
<1> DEFINE all == AllAt("questions", m, p, n, 0)
           read == ReadAll("questions", m, p, n)
           item == QuestionAt(m, p, 0)
           first == ReadQuestion(m, p)
<1>0. item = ItemAt("questions", m, p) /\ first = ReadItem("questions", m, p)
  BY DEF ItemAt, ReadItem
<1>1. ASSUME n = 0 PROVE all.says = <<>> /\ read.value = <<>>
  BY <1>1, SectionIs DEF Item, Ok
<1>2. ASSUME n > 0 PROVE n - 1 \in Nat /\ (n - 1) + 1 = n
  BY <1>2
<1>3. ASSUME n > 0, all.good
      PROVE  item.good /\ all.says # <<>> /\ Head(all.says) = item.says
  <2> DEFINE k == n - 1
             rest == AllAt("questions", m, item.end, k, 0)
  <2>1. k \in Nat /\ k + 1 = n
    BY <1>2, <1>3
  <2> HIDE DEF k
  <2>2. all = IF item.good THEN FirstThen(item.says, rest) ELSE No
    <3>1. LET one == ItemAt("questions", m, p)
              others == AllAt("questions", m, one.end, k, 0)
          IN  AllAt("questions", m, p, k + 1, 0)
                 = IF one.good THEN FirstThen(one.says, others) ELSE No
      BY <2>1, SectionIs
    <3> QED BY <1>0, <2>1, <3>1
  <2>3. item.good /\ all = FirstThen(item.says, rest)
    <3> HIDE DEF all, item, rest
    <3>1. No.good = FALSE /\ all.good
      BY <1>3 DEF No, all
    <3> QED BY <2>2, <3>1
  <2>4. item \in StandsIn(Statements)
    BY <1>0, ItemAtStands
  <2> HIDE DEF item
  <2>5. item.says \in Statements /\ item.end \in Nat
    BY <2>3, <2>4, ItemIs
  <2>6. rest \in StandsIn(Seq(Statements))
    BY <2>1, <2>5, SectionsStand
  <2> HIDE DEF rest
  <2>7. rest.good /\ all.says = Cons(item.says, rest.says)
    BY <1>3, <2>3, <2>5, <2>6, FirstThenStands DEF Item
  <2>8. rest.says \in Seq(Statements)
    BY <2>6, <2>7, ItemIs
  <2>9. Len(all.says) = Len(rest.says) + 1 /\ Len(rest.says) \in Nat
    BY <2>5, <2>7, <2>8, FirstAndRest, LenProperties DEF Cons
  <2>10. all.says # <<>>
    BY <2>9
  <2>11. Head(all.says) = item.says
    BY <2>7, <2>8, HeadAndTail
  <2> QED BY <2>3, <2>10, <2>11 DEF item
<1>4. ASSUME n > 0, read.ok = "ok", first.ok = "ok"
      PROVE  read.value # <<>> /\ Head(read.value) = first.value
  <2> DEFINE k == n - 1
             rest == ReadAll("questions", m, first.next, k)
  <2>1. k \in Nat /\ k + 1 = n
    BY <1>2, <1>4
  <2> HIDE DEF k
  <2>2. read = Before(first.value, rest)
    <3>1. \A j \in Nat :
             ReadItem("questions", m, p).ok = "ok" =>
                ReadAll("questions", m, p, j + 1)
                   = Before(ReadItem("questions", m, p).value,
                            ReadAll("questions", m, ReadItem("questions", m, p).next, j))
      BY SectionIs
    <3> HIDE DEF first
    <3>2. \A j \in Nat :
             ReadAll("questions", m, p, j + 1)
                = Before(first.value, ReadAll("questions", m, first.next, j))
      BY <1>0, <1>4, <3>1
    <3>3. ReadAll("questions", m, p, k + 1) = read
      BY <2>1
    <3> HIDE DEF read
    <3> QED BY <2>1, <3>2, <3>3
  <2>3. first \in Results(Questions)
    BY QuestionType
  <2> HIDE DEF first
  <2>4. first.value \in Questions /\ first.next \in Nat
    BY <1>4, <2>3, ResultIs
  <2>5. rest \in Results(Seq(Questions))
    BY <2>1, <2>4, AllAreRead, ItemsOf
  <2> HIDE DEF rest
  <2>6. rest.ok = "ok" /\ read.value = Cons(first.value, rest.value)
    <3> HIDE DEF read
    <3>1. read.ok = "ok"
      BY <1>4 DEF read
    <3> QED BY <2>2, <3>1 DEF Before, Then, Ok, Cons
  <2>7. rest.value \in Seq(Questions)
    BY <2>5, <2>6, ResultIs
  <2>8. Len(read.value) = Len(rest.value) + 1 /\ Len(rest.value) \in Nat
    BY <2>4, <2>6, <2>7, FirstAndRest, LenProperties DEF Cons
  <2>9. read.value # <<>>
    BY <2>8
  <2>10. Head(read.value) = first.value
    BY <2>6, <2>7, HeadAndTail
  <2> QED BY <2>9, <2>10 DEF first
<1> QED BY <1>1, <1>3, <1>4

\* A section with nothing after it.
LEMMA FollowedByNothing ==
  ASSUME NEW section, NEW said \in Seq(Statements), NEW value \in Seq(Items(section)),
         NEW n \in Nat, FollowedBy(section, said, value, n)
  PROVE  SectionCarries(section, said, WriteItems(section, value), n)
<1>1. <<>> \in Seq(Items(section)) /\ <<>> \in Seq(Statements) /\ 0 \in Nat /\ n + 0 = n
  OBVIOUS
<1>2. said \o <<>> = said /\ value \o <<>> = value
  BY ConcatEmptySeq
<1>3. SectionCarries(section, <<>>, WriteItems(section, <<>>), 0)
  BY NothingCarries, WriteNoItems
<1>4. SectionCarries(section, said \o <<>>, WriteItems(section, value \o <<>>), n + 0)
  BY <1>1, <1>3 DEF FollowedBy
<1> QED BY <1>1, <1>2, <1>4

\* What is known of a plain message.
PlainRead(m, pk, query, stop) ==
    /\ pk \in Packets
    /\ Len(pk.questions) = m[1] /\ Len(pk.answers) = m[2] /\ Len(pk.others) = m[3]
    /\ query.questions \in Seq(Statements) /\ query.answers \in Seq(Statements)
    /\ query.others \in Seq(Statements)
    /\ FollowedBy("questions", query.questions, pk.questions, m[1])
    /\ FollowedBy("answers", query.answers, pk.answers, m[2])
    /\ FollowedBy("others", query.others, pk.others, m[3])
    /\ stop \in Nat /\ stop <= Len(m) /\ 5 * m[2] <= Len(m)
    /\ 3 + Len(WriteItems("questions", pk.questions)) + Len(WriteItems("answers", pk.answers))
         + Len(WriteItems("others", pk.others)) = stop

LEMMA PlainIsRead ==
  ASSUME NEW word \in Nat, NEW m \in Texts, Plain(m)
  PROVE  LET query == Meaning(m, 0).says
             stop == Meaning(m, 0).end
         IN  /\ ReadPacket(word, m).ok = "ok" /\ Len(m) >= 3
             /\ Meaning(m, 0) = Item([questions |-> query.questions, answers |-> query.answers,
                                      others |-> query.others], stop)
             /\ query.questions = QuestionsAt(m).says /\ QuestionsAt(m).good
             /\ PlainRead(m, ReadPacket(word, m).value, query, stop)
<1> DEFINE query == Meaning(m, 0).says
           stop == Meaning(m, 0).end
           q1 == QuestionsAt(m)
           a1 == AnswersAt(m)
           o1 == OthersAt(m)
           q2 == QuestionsRead(m)
           a2 == AnswersRead(m)
           o2 == OthersRead(m)
           pk == ReadPacket(word, m).value
<1>1. Meaning(m, 0).good /\ ToSet(m) \intersect NotUtf8 = {}
  BY DEF Plain
<1>2. /\ ~(Len(m) < 3) /\ q1.good /\ a1.good /\ o1.good
      /\ Meaning(m, 0) = Item([questions |-> q1.says, answers |-> a1.says, others |-> o1.says],
                              o1.end)
  BY <1>1, MeaningIs
<1>3. query.questions = q1.says /\ query.answers = a1.says /\ query.others = o1.says
      /\ stop = o1.end
  <2> DEFINE all == Meaning(m, 0)
             what == [questions |-> q1.says, answers |-> a1.says, others |-> o1.says]
  <2>1. all = Item(what, o1.end)
    BY <1>2
  <2>2. what.questions = q1.says /\ what.answers = a1.says /\ what.others = o1.says
    OBVIOUS
  <2> HIDE DEF q1, a1, o1, all, what
  <2>3. all.says = what /\ all.end = o1.end
    BY <2>1 DEF Item
  <2> QED BY <2>2, <2>3 DEF all
<1>4. Len(m) \in Nat /\ Len(m) >= 3 /\ Has(m, 0, 3) /\ 3 \in Nat
  BY <1>2, LengthOf DEF Has
<1>5. m[1] \in Nat /\ m[2] \in Nat /\ m[3] \in Nat
  BY <1>4, CountsOf
<1>6. SectionRenders("questions", m, 3, m[1])
  BY <1>1, <1>4, <1>5, SectionsRender
<1>7. /\ q2 = Ok(q2.value, q1.end) /\ q1.says \in Seq(Statements)
      /\ q1.end \in Nat /\ q1.end <= Len(m) /\ 3 <= q1.end
      /\ Len(WriteItems("questions", q2.value)) = q1.end - 3
      /\ FollowedBy("questions", q1.says, q2.value, m[1])
  BY <1>2, <1>4, <1>6 DEF SectionRenders, QuestionsAt, QuestionsRead
<1>8. q2.ok = "ok" /\ q2.next = q1.end
  <2> HIDE DEF q2, q1
  <2> QED BY <1>7 DEF Ok
<1>9. SectionRenders("answers", m, q1.end, m[2])
  BY <1>1, <1>5, <1>7, SectionsRender
<1>10. /\ a2 = Ok(a2.value, a1.end) /\ a1.says \in Seq(Statements)
       /\ a1.end \in Nat /\ a1.end <= Len(m) /\ q1.end + 5 * m[2] <= a1.end
       /\ Len(WriteItems("answers", a2.value)) = a1.end - q1.end
       /\ FollowedBy("answers", a1.says, a2.value, m[2])
  BY <1>2, <1>7, <1>8, <1>9 DEF SectionRenders, AnswersAt, AnswersRead
<1>11. a2.ok = "ok" /\ a2.next = a1.end
  <2> DEFINE e == a1.end
             v == a2.value
  <2>1. a2 = Ok(v, e)
    BY <1>10
  <2> HIDE DEF q2, a2, q1, a1, v, e
  <2>2. a2.ok = "ok" /\ a2.next = e
    BY <2>1 DEF Ok
  <2> QED BY <2>2 DEF e
<1>12. SectionRenders("others", m, a1.end, m[3])
  BY <1>1, <1>5, <1>10, SectionsRender
<1>13. /\ o2 = Ok(o2.value, o1.end) /\ o1.says \in Seq(Statements)
       /\ o1.end \in Nat /\ o1.end <= Len(m)
       /\ Len(WriteItems("others", o2.value)) = o1.end - a1.end
       /\ FollowedBy("others", o1.says, o2.value, m[3])
  BY <1>2, <1>10, <1>11, <1>12 DEF SectionRenders, OthersAt, OthersRead
<1>14. o2.ok = "ok"
  <2> HIDE DEF o2, o1
  <2> QED BY <1>13 DEF Ok
<1>15. ReadPacket(word, m).ok = "ok"
  <2>1. ReadPacket(word, m) = Ok(PacketOf(word, m), o2.next)
    BY <1>4, <1>8, <1>11, <1>14, PacketIs
  <2> QED BY <2>1 DEF Ok
<1>16. /\ pk = PacketOf(word, m) /\ pk \in Packets
       /\ Len(pk.questions) = m[1] /\ Len(pk.answers) = m[2] /\ Len(pk.others) = m[3]
  BY <1>15, PacketType
<1>17. pk.questions = q2.value /\ pk.answers = a2.value /\ pk.others = o2.value
  BY <1>16 DEF PacketOf
<1> HIDE DEF q1, a1, o1, q2, a2, o2, query, stop, pk
<1> DEFINE i == q1.end
           j == a1.end
           k == o1.end
           five == 5 * m[2]
<1>18. i \in Nat /\ j \in Nat /\ k \in Nat /\ k <= Len(m)
  BY <1>7, <1>10, <1>13, Zenon
<1>20. i + five <= j /\ j <= Len(m)
  BY <1>10, Zenon
<1>21. /\ Len(WriteItems("questions", q2.value)) = i - 3
       /\ Len(WriteItems("answers", a2.value)) = j - i
       /\ Len(WriteItems("others", o2.value)) = k - j
  BY <1>7, <1>10, <1>13, Zenon
<1>22. five \in Nat
  BY <1>5
<1> HIDE DEF i, j, k, five
<1>23. 3 + (i - 3) + (j - i) + (k - j) = k
  BY <1>18
<1>24. five <= Len(m)
  BY <1>4, <1>18, <1>20, <1>22
<1>25. 3 + Len(WriteItems("questions", pk.questions)) + Len(WriteItems("answers", pk.answers))
         + Len(WriteItems("others", pk.others)) = k
  BY <1>17, <1>21, <1>23
<1>26. stop = k
  BY <1>3 DEF k
<1>19. PlainRead(m, pk, query, stop)
  <2>1. stop \in Nat /\ stop <= Len(m) /\ 5 * m[2] <= Len(m)
    BY <1>18, <1>24, <1>26 DEF five
  <2>2. /\ query.questions \in Seq(Statements) /\ query.answers \in Seq(Statements)
        /\ query.others \in Seq(Statements)
    BY <1>3, <1>7, <1>10, <1>13, Zenon
  <2>3. /\ FollowedBy("questions", query.questions, pk.questions, m[1])
        /\ FollowedBy("answers", query.answers, pk.answers, m[2])
        /\ FollowedBy("others", query.others, pk.others, m[3])
    BY <1>3, <1>7, <1>10, <1>13, <1>17, Zenon
  <2> QED BY <1>16, <1>25, <1>26, <2>1, <2>2, <2>3 DEF PlainRead
<1> QED BY <1>2, <1>3, <1>4, <1>15, <1>19 DEF query, stop, pk, q1

\* A reply to it: its sections, and t more answers that say u.
ReplyTo(m, pk, query, stop, t, u, reply) ==
    /\ m \in Texts /\ PlainRead(m, pk, query, stop) /\ Len(m) >= 3
    /\ t \in Seq(Records) /\ u \in Seq(Statements)
    /\ SectionCarries("answers", u, WriteItems("answers", t), Len(t))
    /\ m[2] + Len(t) \in Octets
    /\ reply \in Packets /\ reply.questions = pk.questions /\ reply.others = pk.others
    /\ reply.answers = pk.answers \o t

\* What is written of a plain message, with or without answers more.
LEMMA ReplyIsWritten ==
  ASSUME NEW m, NEW pk, NEW query, NEW stop, NEW t, NEW u, NEW reply,
         ReplyTo(m, pk, query, stop, t, u, reply)
  PROVE  LET octets == ToBytes(reply).octets
         IN  /\ ToBytes(reply).word = WriteFlags(reply.header)
             /\ Meaning(octets, 0) = Item([questions |-> query.questions,
                                           answers |-> query.answers \o u,
                                           others |-> query.others], Len(octets))
             /\ Len(octets) = stop + Len(WriteItems("answers", t))
<1> DEFINE a == m[1]
           b == m[2] + Len(t)
           c == m[3]
           x == WriteItems("questions", pk.questions)
           y == WriteItems("answers", pk.answers \o t)
           z == WriteItems("others", pk.others)
           octets == ((<<a, b, c>> \o x) \o y) \o z
<1> USE DEF ReplyTo
<1>1. /\ a \in Octets /\ b \in Octets /\ c \in Octets
      /\ a \in Nat /\ m[2] \in Nat /\ c \in Nat /\ Len(t) \in Nat
  BY CountsOf, LenProperties
<1>2. /\ pk.questions \in Seq(Questions) /\ pk.answers \in Seq(Records)
      /\ pk.others \in Seq(Records)
  BY DEF PlainRead, Packets
<1>3. SectionCarries("questions", query.questions, x, a)
  BY <1>1, <1>2, ItemsOf, FollowedByNothing DEF PlainRead
<1>4. SectionCarries("others", query.others, z, c)
  BY <1>1, <1>2, ItemsOf, FollowedByNothing DEF PlainRead
<1>5. SectionCarries("answers", query.answers \o u, y, b)
  BY <1>1, ItemsOf DEF PlainRead, FollowedBy
<1>6. Len(reply.questions) = a /\ Len(reply.answers) = b /\ Len(reply.others) = c
  BY <1>2, ConcatProperties DEF PlainRead
<1>7. ToBytes(reply) = [word |-> WriteFlags(reply.header), octets |-> octets]
  <2> HIDE DEF a, b, c
  <2>1. ToBytes(reply) =
           [word |-> WriteFlags(reply.header),
            octets |-> ((<<a, b, c>> \o WriteItems("questions", reply.questions))
                         \o WriteItems("answers", reply.answers))
                         \o WriteItems("others", reply.others)]
    <3>1. reply \in Packets
      OBVIOUS
    <3> QED BY ONLY <1>1, <1>6, <3>1, WrittenIs
  <2>2. /\ WriteItems("questions", reply.questions) = x
        /\ WriteItems("answers", reply.answers) = y
        /\ WriteItems("others", reply.others) = z
    OBVIOUS
  <2> HIDE DEF x, y, z
  <2> QED BY <2>1, <2>2
<1>8. /\ Meaning(octets, 0) = Item([questions |-> query.questions,
                                    answers |-> query.answers \o u,
                                    others |-> query.others], Len(octets))
      /\ Len(octets) = 3 + Len(x) + Len(y) + Len(z)
  <2> DEFINE v == query.answers \o u
             says == [questions |-> query.questions, answers |-> v, others |-> query.others]
  <2>0. SectionCarries("answers", v, y, b)
    BY <1>5
  <2> HIDE DEF a, b, c, x, y, z, v
  <2>1. /\ Len(octets) = 3 + Len(x) + Len(y) + Len(z)
        /\ Meaning(octets, 0) = Item(says, Len(octets))
    BY <1>1, <1>3, <1>4, <2>0, SectionsAreSaid
  <2> HIDE DEF octets
  <2> QED BY <2>1 DEF v
<1>9. Len(octets) = stop + Len(WriteItems("answers", t))
  <2> DEFINE k == Len(WriteItems("answers", pk.answers))
             n == Len(WriteItems("answers", t))
  <2>1. Len(y) = k + n /\ k \in Nat /\ n \in Nat
    BY <1>2, ItemsOf, ItemsInTurn
  <2>2. 3 + Len(x) + k + Len(z) = stop
    BY DEF PlainRead
  <2>3. Len(x) \in Nat /\ Len(z) \in Nat
    BY <1>3, <1>4, LengthOf DEF SectionCarries
  <2> HIDE DEF x, y, z, octets, k, n
  <2>4. Len(octets) = stop + n
    BY <1>8, <2>1, <2>2, <2>3
  <2> QED BY <2>4 DEF n
<1> HIDE DEF octets, ReplyTo
<1>10. ToBytes(reply).word = WriteFlags(reply.header) /\ ToBytes(reply).octets = octets
  BY <1>7
<1> QED BY <1>8, <1>9, <1>10

-----------------------------------------------------------------------------
(* The answer made for a blocked name                                      *)

AddressOf(name) ==
    [name |-> name, rtype |-> QueryType(A), rclass |-> QueryClass(1),
     ttl |-> 10, short |-> FALSE, rdata |-> <<0, 0, 0, 0>>]

SaysAddress(name) == <<name, <<A, 1, 10>>, <<0, 0, 0, 0>>>>

LEMMA AddressType ==
  ASSUME NEW name \in Labels
  PROVE  /\ AddressOf(name) \in Records
         /\ Fixed(AddressOf(name)) = <<A, 1, 10>>
         /\ DataOf(AddressOf(name)) = <<0, 0, 0, 0>>
         /\ <<0, 0, 0, 0>> \in Texts /\ Len(<<0, 0, 0, 0>>) = 4
<1> DEFINE r == AddressOf(name)
           data == <<0, 0, 0, 0>>
           rtype == QueryType(A)
           rclass == QueryClass(1)
<1>1. A \in Octets /\ 0 \in Octets /\ 1 \in Octets /\ 10 \in Octets
  BY Distinct DEF Octets
<1>2. data \in Texts /\ Len(data) = 4
  BY <1>1 DEF Texts
<1>3. rtype \in Numbers /\ rclass \in Numbers /\ rtype.number = A /\ rclass.number = 1
  BY <1>1 DEF QueryType, QueryClass, Numbers
<1> HIDE DEF data, rtype, rclass
<1>4. r = [name |-> name, rtype |-> rtype, rclass |-> rclass,
           ttl |-> 10, short |-> FALSE, rdata |-> data]
  BY DEF AddressOf, rtype, rclass, data
<1> HIDE DEF r
<1>5. /\ r.rtype = rtype /\ r.rclass = rclass /\ r.ttl = 10 /\ r.short = FALSE
      /\ r.rdata = data /\ r.name = name
  BY <1>4
<1>6. DataFits(A, FALSE, data)
  BY <1>2, Distinct DEF DataFits
<1>7. data \in Contents
  BY <1>2 DEF Contents
<1>8. r \in Records
  <2>1. r \in [name : Labels, rtype : Numbers, rclass : Numbers, ttl : Octets,
               short : BOOLEAN, rdata : Contents]
    BY <1>1, <1>3, <1>4, <1>7
  <2> QED BY <1>3, <1>5, <1>6, <2>1 DEF Records
<1>9. Fixed(r) = <<A, 1, 10>>
  BY <1>3, <1>5 DEF Fixed
<1>10. DataOf(r) = data
  BY <1>3, <1>5, <1>8, Distinct, DataOfType
<1> QED BY <1>2, <1>8, <1>9, <1>10 DEF r, data

\* It says that the name has the address 0.0.0.0.
LEMMA AddressCarries ==
  ASSUME NEW name \in Labels, NameCarries(name, WriteName(name))
  PROVE  /\ SectionCarries("answers", <<SaysAddress(name)>>,
                           WriteItems("answers", <<AddressOf(name)>>), 1)
         /\ Len(WriteItems("answers", <<AddressOf(name)>>)) = Len(WriteName(name)) + 8
<1> DEFINE r == AddressOf(name)
           s == SaysAddress(name)
           x == <<A, 1, 10>>
           data == <<0, 0, 0, 0>>
           w == WriteName(name)
<1>0. r \in Records /\ r.name = name
  BY AddressType DEF AddressOf
<1>1. Fixed(r) = x /\ DataOf(r) = data /\ data \in Texts /\ Len(data) = 4
  BY AddressType
<1>2. x \in Texts /\ Len(x) = 3 /\ x[1] = A /\ 4 \in Octets
  BY Distinct DEF Octets, Texts
<1>3. s = <<name, x, data>>
  BY DEF SaysAddress
<1> HIDE DEF r, x, data, s
<1>4. DataCarries(x[1], data, data)
  BY <1>1, <1>2, Distinct, OpaqueDataCarries
<1>5. WriteRecord(r) = w \o (x \o WithLength(data))
  BY <1>0, <1>1, WriteRecordType
<1>6. ItemCarries("answers", <<name, x, data>>, w \o (x \o WithLength(data)))
  BY <1>1, <1>2, <1>4, RecordCarries
<1>7. s \in Statements
  BY <1>1, <1>2, <1>3 DEF Statements, Contents
<1>8. SectionCarries("answers", Cons(s, <<>>), WriteRecord(r) \o <<>>, 0 + 1)
  BY <1>3, <1>5, <1>6, <1>7, ItemAndSectionCarry, NothingCarries
<1>9. WriteItems("answers", Cons(r, <<>>)) = WriteRecord(r) \o <<>>
  <2> DEFINE T == Items("answers")
             none == <<>>
  <2>1. r \in T /\ none \in Seq(T)
    BY <1>0 DEF Items
  <2>2. WriteItem("answers", r) = WriteRecord(r)
    BY DEF WriteItem
  <2>3. WriteItems("answers", none) = <<>>
    BY WriteNoItems
  <2> HIDE DEF none
  <2>4. \A y \in T :
          WriteItems("answers", Cons(y, none)) = WriteItem("answers", y) \o WriteItems("answers", none)
    BY <2>1, WriteItemsType
  <2>5. WriteItems("answers", Cons(r, none)) = WriteRecord(r) \o <<>>
    BY <2>1, <2>2, <2>3, <2>4
  <2> QED BY <2>5 DEF none
<1>10. Cons(s, <<>>) = <<s>> /\ Cons(r, <<>>) = <<r>>
  <2>1. \A e : <<e>> \in Seq({e})
    OBVIOUS
  <2>2. <<s>> \o <<>> = <<s>> /\ <<r>> \o <<>> = <<r>>
    BY <2>1, ConcatEmptySeq
  <2> QED BY <2>2 DEF Cons
<1>11. Len(WriteRecord(r) \o <<>>) = Len(w) + 8
  <2> DEFINE l == WithLength(data)
  <2>1. l \in Texts /\ Len(l) = 5
    <3> DEFINE first == <<Len(data)>>
    <3>1. Len(data) \in Octets
      BY <1>1, <1>2
    <3>2. l = first \o data /\ l \in Texts
      BY <1>1, <3>1, WithLengthType
    <3>3. first \in Texts /\ Len(first) = 1
      BY <3>1, OneOctet
    <3> HIDE DEF first, l
    <3>4. Len(first \o data) = Len(first) + Len(data)
      BY <1>1, <3>3, Appended
    <3>5. Len(first \o data) = 5
      BY <1>1, <3>3, <3>4
    <3> QED BY <3>2, <3>5
  <2> HIDE DEF l
  <2>7. x \o l \in Texts /\ Len(x \o l) = Len(x) + Len(l)
    BY <1>2, <2>1, Appended
  <2>2. x \o l \in Texts /\ Len(x \o l) = 8
    BY <1>2, <2>1, <2>7
  <2>3. w \in Texts /\ Len(w) \in Nat
    BY LengthOf DEF NameCarries
  <2>4. w \o (x \o l) \in Texts /\ Len(w \o (x \o l)) = Len(w) + 8
    BY <2>2, <2>3, Appended
  <2>5. WriteRecord(r) = w \o (x \o l)
    BY <1>5 DEF l
  <2>6. WriteRecord(r) \o <<>> = WriteRecord(r)
    BY <2>4, <2>5, ConcatEmptySeq DEF Texts
  <2> QED BY <2>4, <2>5, <2>6
<1> QED BY <1>8, <1>9, <1>10, <1>11 DEF r, s

-----------------------------------------------------------------------------
(* The specification                                                       *)

Reply(pk) ==
    CASE phase = "from cache" -> pk
      [] phase = "nxdomain" -> Response(pk, NXDomain, <<>>)
      [] phase = "zero_ip" -> Response(pk, NoError, NoAddress(pk))
      [] OTHER -> Response(pk, ServFail, <<>>)

\* What was parsed is the message that came in, and what was written is the
\* packet or the reply made from it.
CodecInv ==
    /\ message \in Messages
    /\ phase \in {"received", "parsed", "refused", "panicked"} \union Replies
    /\ packet = IF phase = "received" THEN Err
                ELSE ReadPacket(message.word, message.octets)
    /\ phase \in {"parsed"} \union Replies => packet.ok = "ok"
    /\ phase \in {"refused", "panicked"} => packet.ok # "ok"
    /\ phase \in Replies => written = ToBytes(Reply(packet.value))

LEMMA CodecInvStep ==
  ASSUME CodecInv, [Next]_vars
  PROVE  CodecInv'
<1> USE DEF CodecInv, Reply, Replies
<1>1. CASE Parse
  <2>1. packet' = ReadPacket(message.word, message.octets) /\ message' = message
    BY <1>1 DEF Parse
  <2>2. \/ packet'.ok = "ok" /\ phase' = "parsed"
        \/ packet'.ok # "ok" /\ phase' \in {"refused", "panicked"}
    BY <1>1 DEF Parse
  <2> QED BY <2>1, <2>2
<1>2. CASE Serialise
  BY <1>2 DEF Serialise, Write
<1>3. CASE BuildBlockedResponse
  BY <1>3 DEF BuildBlockedResponse, Write
<1>4. CASE BuildFailure
  BY <1>4 DEF BuildFailure, Write
<1>5. CASE UNCHANGED vars
  BY <1>5 DEF vars
<1> QED BY <1>1, <1>2, <1>3, <1>4, <1>5 DEF Next

LEMMA CodecInvHolds == Spec => []CodecInv
<1>1. Init => CodecInv
  BY DEF Init, CodecInv, Replies
<1> QED BY <1>1, CodecInvStep, PTL DEF Spec

\* A message is octets and a word of 16 bits.
LEMMA MessageIs ==
  ASSUME CodecInv
  PROVE  /\ message.octets \in Texts /\ message.word \in Nat
         /\ Len(message.octets) \in Nat /\ Len(message.octets) < 5 * (Octet - 1)
<1>1. message \in Messages
  BY DEF CodecInv
<1>2. /\ message.word \in Nat
      /\ message.octets \in Seq(0 .. Octet - 1) /\ Len(message.octets) < 5 * (Octet - 1)
  BY <1>1, MessageAssumption
<1>3. message.octets \in Texts
  BY <1>2 DEF Texts, Octets
<1> QED BY <1>2, <1>3, LengthOf

-----------------------------------------------------------------------------
(* Names                                                                   *)

\* read_domain_name is right on every name of any message, of up to MaxJumps
\* pointers wherever they lead: for every number of pointers allowed, every
\* text and every lower case.
THEOREM NamesHold == Spec => []NamesAreRead
<1>1. ASSUME CodecInv PROVE NamesAreRead
  <2> DEFINE m == message.octets
  <2>1. m \in Texts /\ MaxJumps \in Nat /\ Len(m) \in Nat
    BY <1>1, MessageIs, CodecAssumption
  <2> HIDE DEF m
  <2>2. ASSUME NEW p \in Nat, NameAt(m, p, MaxJumps).good
        PROVE  ReadName(m, p).ok = "ok" /\ ReadName(m, p).value = NameAt(m, p, MaxJumps).says
    <3>1. /\ NameAt(m, p, MaxJumps) = LabelReader(m)[<<p, MaxJumps>>]
          /\ ReadName(m, p) = NameReader(m)[<<p, 0>>]
      BY ReaderOfLabels, ReaderOfNames
    <3>2. Agrees(m, p, MaxJumps)
      BY <2>1, NamesAgree
    <3>3. 0 \in Nat /\ 0 + MaxJumps <= MaxJumps
      BY <2>1
    <3> QED BY <2>2, <3>1, <3>2, <3>3 DEF Agrees
  <2>3. \A p \in 0 .. Len(m) - 1 : p \in Nat
    BY <2>1
  <2>4. \A p \in 0 .. Len(m) - 1 : NameAt(m, p, MaxJumps).good =>
            ReadName(m, p).ok = "ok" /\ ReadName(m, p).value = NameAt(m, p, MaxJumps).says
    BY <2>2, <2>3
  <2> QED BY <2>4 DEF NamesAreRead, m
<1> QED BY <1>1, CodecInvHolds, PTL

-----------------------------------------------------------------------------
(* Packets                                                                 *)

\* What a message that was parsed has become.
LEMMA ParsedIs ==
  ASSUME CodecInv, packet.ok = "ok"
  PROVE  /\ packet.value = PacketOf(message.word, message.octets)
         /\ packet = ReadPacket(message.word, message.octets)
         /\ packet.value \in Packets
         /\ packet.value.header = ReadFlags(message.word)
         /\ Len(message.octets) >= 3
         /\ Len(packet.value.questions) = message.octets[1]
         /\ Len(packet.value.answers) = message.octets[2]
         /\ Len(packet.value.others) = message.octets[3]
<1> DEFINE m == message.octets
           word == message.word
           pk == packet.value
<1>1. m \in Texts /\ word \in Nat
  BY MessageIs
<1>2. packet = ReadPacket(word, m)
  <2>1. phase # "received"
    BY DEF CodecInv, Err
  <2> QED BY <2>1 DEF CodecInv
<1>3. ReadPacket(word, m).ok = "ok" /\ ReadPacket(word, m).value = pk
  BY <1>2
<1>4. /\ pk = PacketOf(word, m) /\ pk \in Packets /\ Len(m) >= 3
      /\ Len(pk.questions) = m[1] /\ Len(pk.answers) = m[2] /\ Len(pk.others) = m[3]
  BY <1>1, <1>3, PacketType
<1>5. pk.header = ReadFlags(word)
  BY <1>4 DEF PacketOf
<1> QED BY <1>2, <1>4, <1>5

Codes == 0 .. 5

\* Flags with that of a response.
AsResponse(flags) == flags \union {32768}

\* A reply is a packet: the questions and other records of the query, its
\* answers and those that are added, its flags with that of a response.
LEMMA ResponseIs ==
  ASSUME NEW pk \in Packets, NEW rcode \in Codes, NEW t \in Seq(Records)
  PROVE  LET reply == Response(pk, rcode, t)
         IN  /\ reply \in Packets
             /\ reply.questions = pk.questions /\ reply.others = pk.others
             /\ reply.answers = pk.answers \o t
             /\ reply.header \in Headers /\ reply.header.rcode = rcode
             /\ KeptOf(reply.header) = AsResponse(KeptOf(pk.header))
<1> DEFINE h == [pk.header EXCEPT !.is_response = TRUE, !.rcode = rcode]
           v == pk.answers \o t
<1>1. Response(pk, rcode, t) = [pk EXCEPT !.header = h, !.answers = v]
  BY DEF Response, Packets, Headers
<1>2. /\ pk.header \in Headers /\ pk.questions \in Seq(Questions)
      /\ pk.answers \in Seq(Records) /\ pk.others \in Seq(Records)
  BY DEF Packets
<1>3. h \in Headers /\ h.rcode = rcode
  BY <1>2 DEF Headers, Codes
<1>4. KeptOf(h) = AsResponse(KeptOf(pk.header))
  <2> DEFINE g == pk.header
  <2>1. /\ h.is_response /\ h.authoritative_answer = g.authoritative_answer
        /\ h.truncated = g.truncated /\ h.recursion_desired = g.recursion_desired
        /\ h.recursion_available = g.recursion_available
    BY <1>2 DEF Headers
  <2> HIDE DEF h, g
  <2>2. ASSUME NEW bit \in {32768, 1024, 512, 256, 128}
        PROVE  bit \in KeptOf(h) <=> bit \in KeptOf(g) \/ bit = 32768
    BY <2>1 DEF KeptOf
  <2>3. \A bit : bit \in KeptOf(h) \/ bit \in KeptOf(g) \union {32768} =>
                 bit \in {32768, 1024, 512, 256, 128}
    BY DEF KeptOf
  <2>4. KeptOf(h) = KeptOf(g) \union {32768}
    BY <2>2, <2>3
  <2> QED BY <2>4 DEF g, AsResponse
<1>5. v \in Seq(Records)
  BY <1>2, ConcatProperties
<1> HIDE DEF h, v
<1> DEFINE reply == [pk EXCEPT !.header = h, !.answers = v]
<1>6. /\ reply \in Packets /\ reply.questions = pk.questions /\ reply.others = pk.others
      /\ reply.answers = v /\ reply.header = h
  BY <1>3, <1>5 DEF Packets
<1> HIDE DEF reply
<1>7. Response(pk, rcode, t) = reply
  BY <1>1 DEF reply
<1> QED BY <1>3, <1>4, <1>6, <1>7 DEF v

\* The flags that were read are written again.
THEOREM FlagsHold == Spec => []FlagsSurvive
<1>1. ASSUME CodecInv, phase = "from cache"
      PROVE  /\ Kept(written.word) = Kept(message.word)
             /\ (written.word % 16 = NoError) <=> (message.word % 16 = NoError)
             /\ (written.word \div 2048) % 16 = 0 <=> (message.word \div 2048) % 16 = 0
  <2> DEFINE h == packet.value.header
             w == written.word
             v == message.word
  <2>1. packet.ok = "ok" /\ written = ToBytes(packet.value)
    BY <1>1 DEF CodecInv, Reply, Replies
  <2>2. w = WriteFlags(h)
    BY <2>1 DEF ToBytes
  <2>3. h = ReadFlags(v) /\ v \in Nat
    <3>1. packet.value.header = ReadFlags(message.word)
      BY <1>1, <2>1, ParsedIs, Zenon
    <3>2. message.word \in Nat
      BY <1>1, MessageIs, Zenon
    <3> QED BY <3>1, <3>2
  <2> HIDE DEF h, w, v
  <2>4. /\ h \in Headers /\ KeptOf(h) = Kept(v)
        /\ h.rcode = NoError <=> CodeOf(v) = NoError
        /\ h.opcode = 0 <=> OpcodeOf(v) = 0
    BY <2>3, FlagsRead
  <2>5. Kept(w) = KeptOf(h) /\ CodeOf(w) = h.rcode /\ OpcodeOf(w) = h.opcode
    BY <2>2, <2>4, FlagsWritten
  <2>6. /\ Kept(w) = Kept(v)
        /\ CodeOf(w) = NoError <=> CodeOf(v) = NoError
        /\ OpcodeOf(w) = 0 <=> OpcodeOf(v) = 0
    BY <2>4, <2>5
  <2> QED BY <2>6 DEF CodeOf, OpcodeOf, w, v
<1>2. CodecInv => FlagsSurvive
  BY <1>1 DEF FlagsSurvive
<1> QED BY <1>2, CodecInvHolds, PTL

\* The filter and the cache key see the question that was asked, whatever
\* comes after it in the message.
THEOREM FirstQuestionHolds == Spec => []FirstQuestionIsRight
<1>1. ASSUME CodecInv, packet.ok = "ok", packet.value.questions # <<>>,
             QuestionAt(message.octets, 3, 0).good
      PROVE  SaysQuestion(Head(packet.value.questions)) = QuestionAt(message.octets, 3, 0).says
  <2> DEFINE m == message.octets
             qs == packet.value.questions
             item == QuestionAt(m, 3, 0)
             read == ReadAll("questions", m, 3, m[1])
             first == ReadQuestion(m, 3)
  <2>1. m \in Texts /\ packet = ReadPacket(message.word, m)
        /\ packet.value = PacketOf(message.word, m) /\ Len(m) >= 3
    BY <1>1, MessageIs, ParsedIs
  <2>2. qs = read.value /\ read.ok = "ok"
    <3>1. QuestionsRead(m).ok = "ok"
      BY <1>1, <2>1, PacketIs
    <3> QED BY <2>1, <3>1 DEF PacketOf, QuestionsRead
  <2>3. item.says = SaysQuestion(first.value) /\ first = Ok(first.value, item.end)
    BY <1>1, <2>1, QuestionRenders DEF ItemSurvives
  <2>4. first.ok = "ok"
    <3> HIDE DEF first
    <3> QED BY <2>3 DEF Ok
  <2>5. m[1] \in Nat
    BY <2>1, CountsOf
  <2>6. /\ m[1] = 0 => read.value = <<>>
        /\ m[1] > 0 /\ read.ok = "ok" /\ first.ok = "ok" => Head(read.value) = first.value
    BY <2>1, <2>5, FirstOfSection
  <2>7. Head(qs) = first.value
    <3> HIDE DEF read, first, qs, m
    <3>1. qs # <<>>
      BY <1>1 DEF qs
    <3> QED BY <2>2, <2>4, <2>5, <2>6, <3>1
  <2> HIDE DEF first, qs
  <2> QED BY <2>3, <2>7 DEF qs, m
<1>2. CodecInv => FirstQuestionIsRight
  BY <1>1 DEF FirstQuestionIsRight, SaysQuestion
<1> QED BY <1>2, CodecInvHolds, PTL

-----------------------------------------------------------------------------
(* Replies                                                                 *)

\* A packet as long as its counts is written with these counts, in front.
LEMMA CountsAreWritten ==
  ASSUME NEW pk \in Packets, NEW a \in Octets, NEW b \in Octets, NEW c \in Octets,
         Len(pk.questions) = a, Len(pk.answers) = b, Len(pk.others) = c
  PROVE  SubSeq(ToBytes(pk).octets, 1, 3) = <<a, b, c>>
<1> DEFINE x == WriteItems("questions", pk.questions)
           y == WriteItems("answers", pk.answers)
           z == WriteItems("others", pk.others)
           octets == ((<<a, b, c>> \o x) \o y) \o z
<1>1. /\ pk.questions \in Seq(Items("questions")) /\ pk.answers \in Seq(Items("answers"))
      /\ pk.others \in Seq(Items("others"))
  BY ItemsOf DEF Packets
<1>2. x \in Texts /\ y \in Texts /\ z \in Texts
  BY <1>1, WriteItemsType
<1>3. ToBytes(pk) = [word |-> WriteFlags(pk.header), octets |-> octets]
  BY WrittenIs
<1> HIDE DEF x, y, z
<1>4. SubSeq(octets, 1, 3) = <<a, b, c>>
  BY <1>2, SectionsStandThere
<1> HIDE DEF octets
<1>5. ToBytes(pk).octets = octets
  BY <1>3
<1> QED BY <1>4, <1>5

\* The answers added to a reply: none, or an address.
LEMMA AnswersAre ==
  ASSUME NEW pk \in Packets
  PROVE  \/ NoAddress(pk) = <<>>
         \/ /\ pk.questions # <<>> /\ Head(pk.questions) \in Questions
            /\ ToU16(Head(pk.questions).qtype) = A
            /\ NoAddress(pk) = <<AddressOf(Head(pk.questions).name)>>
            /\ AddressOf(Head(pk.questions).name) \in Records
<1> DEFINE q == Head(pk.questions)
<1>1. ASSUME pk.questions # <<>>, ToU16(q.qtype) = A
      PROVE  /\ q \in Questions /\ NoAddress(pk) = <<AddressOf(q.name)>>
             /\ AddressOf(q.name) \in Records
  <2>1. pk.questions \in Seq(Questions)
    BY DEF Packets
  <2>2. q \in Questions
    BY <1>1, <2>1
  <2>3. q.name \in Labels
    BY <2>2 DEF Questions
  <2>4. NoAddress(pk) = <<AddressOf(q.name)>>
    BY <1>1 DEF NoAddress, AddressOf
  <2> QED BY <2>2, <2>3, <2>4, AddressType
<1>2. ASSUME ~(pk.questions # <<>> /\ ToU16(q.qtype) = A) PROVE NoAddress(pk) = <<>>
  BY <1>2 DEF NoAddress
<1> QED BY <1>1, <1>2

\* Whatever is written is a packet.
LEMMA ReplyType ==
  ASSUME NEW pk \in Packets, phase \in Replies
  PROVE  Reply(pk) \in Packets /\ ToBytes(Reply(pk)).word \in Nat
         /\ ToBytes(Reply(pk)).word < 65536
<1>1. <<>> \in Seq(Records) /\ NoAddress(pk) \in Seq(Records)
  <2> DEFINE t == NoAddress(pk)
             r == AddressOf(Head(pk.questions).name)
  <2>1. t = <<>> \/ (r \in Records /\ t = <<r>>)
    BY AnswersAre
  <2> HIDE DEF t, r
  <2>2. ASSUME t = <<>> PROVE t \in Seq(Records)
    BY <2>2
  <2>3. ASSUME r \in Records, t = <<r>> PROVE t \in Seq(Records)
    BY <2>3
  <2> QED BY <2>1, <2>2, <2>3 DEF t
<1>2. NXDomain \in Codes /\ NoError \in Codes /\ ServFail \in Codes
  BY DEF Codes, NXDomain, NoError, ServFail
<1>3. /\ Response(pk, NXDomain, <<>>) \in Packets
      /\ Response(pk, NoError, NoAddress(pk)) \in Packets
      /\ Response(pk, ServFail, <<>>) \in Packets
  <2> DEFINE none == <<>>
             t == NoAddress(pk)
  <2>1. none \in Seq(Records) /\ t \in Seq(Records)
    BY <1>1
  <2> HIDE DEF none, t
  <2>3. ASSUME NEW rcode \in Codes, NEW u \in Seq(Records)
        PROVE  Response(pk, rcode, u) \in Packets
    BY ResponseIs
  <2>2. /\ Response(pk, NXDomain, none) \in Packets
        /\ Response(pk, NoError, t) \in Packets
        /\ Response(pk, ServFail, none) \in Packets
    BY <1>2, <2>1, <2>3
  <2> QED BY <2>2 DEF none, t
<1>4. Reply(pk) \in Packets
  BY <1>3 DEF Reply
<1> DEFINE reply == Reply(pk)
<1> HIDE DEF reply
<1>5. reply \in Packets
  BY <1>4 DEF reply
<1>6. ToBytes(reply).word = WriteFlags(reply.header) /\ reply.header \in Headers
  BY <1>5 DEF ToBytes, Packets
<1>7. WriteFlags(reply.header) \in Nat /\ WriteFlags(reply.header) <= 65535
  BY <1>6, FlagsWritten
<1>8. ToBytes(reply).word \in Nat /\ ToBytes(reply).word < 65536
  BY <1>6, <1>7
<1> QED BY <1>5, <1>8 DEF reply

\* A packet holds as many questions and records as were announced, and what is
\* written from the cache announces as many.
THEOREM CodecTyped == Spec => []CodecTypeOK
<1>1. ASSUME CodecInv, packet.ok = "ok"
      PROVE  SubSeq(message.octets, 1, 3) =
                <<Len(packet.value.questions), Len(packet.value.answers),
                  Len(packet.value.others)>>
  <2> DEFINE m == message.octets
  <2>1. m \in Texts /\ Len(m) >= 3
    BY <1>1, MessageIs, ParsedIs
  <2> HIDE DEF m
  <2>2. SubSeq(m, 1, 3) = <<m[1], m[2], m[3]>>
    BY <2>1, CountsOf
  <2>3. /\ Len(packet.value.questions) = m[1] /\ Len(packet.value.answers) = m[2]
        /\ Len(packet.value.others) = m[3]
    BY <1>1, ParsedIs, Zenon DEF m
  <2> QED BY <2>2, <2>3 DEF m
<1>2. ASSUME CodecInv, phase \in Replies PROVE written.word \in Nat /\ written.word < 65536
  <2>1. packet.ok = "ok" /\ written = ToBytes(Reply(packet.value))
    BY <1>2 DEF CodecInv
  <2>2. packet.value \in Packets
    BY <1>2, <2>1, ParsedIs, Zenon
  <2> DEFINE reply == ToBytes(Reply(packet.value))
  <2>3. reply.word \in Nat /\ reply.word < 65536
    BY <1>2, <2>2, ReplyType
  <2> HIDE DEF reply
  <2>4. written = reply
    BY <2>1 DEF reply
  <2> QED BY <2>3, <2>4
<1>3. ASSUME CodecInv, phase = "from cache"
      PROVE  SubSeq(written.octets, 1, 3) = SubSeq(message.octets, 1, 3)
  <2> DEFINE m == message.octets
             pk == packet.value
  <2>1. packet.ok = "ok" /\ written = ToBytes(pk)
    BY <1>3 DEF CodecInv, Reply, Replies
  <2>2. m \in Texts /\ Len(m) >= 3 /\ pk \in Packets
    BY <1>3, <2>1, MessageIs, ParsedIs, Zenon
  <2>3. Len(pk.questions) = m[1] /\ Len(pk.answers) = m[2] /\ Len(pk.others) = m[3]
    BY <1>3, <2>1, ParsedIs, Zenon
  <2> HIDE DEF m, pk
  <2>4. /\ SubSeq(m, 1, 3) = <<m[1], m[2], m[3]>>
        /\ m[1] \in Octets /\ m[2] \in Octets /\ m[3] \in Octets
    BY <2>2, CountsOf
  <2>5. SubSeq(ToBytes(pk).octets, 1, 3) = <<m[1], m[2], m[3]>>
    BY <2>2, <2>3, <2>4, CountsAreWritten
  <2> QED BY <2>1, <2>4, <2>5 DEF m
<1>4. CodecInv => CodecTypeOK
  <2> DEFINE Counted == SubSeq(message.octets, 1, 3) =
                <<Len(packet.value.questions), Len(packet.value.answers),
                  Len(packet.value.others)>>
             Sized == written.word \in Nat /\ written.word < 65536
             Same == SubSeq(written.octets, 1, 3) = SubSeq(message.octets, 1, 3)
  <2> HAVE CodecInv
  <2>1. phase \in {"received", "parsed", "refused", "panicked"} \union Replies
    BY DEF CodecInv
  <2>2. packet.ok = "ok" => Counted
    BY <1>1
  <2>3. phase \in Replies => Sized
    BY <1>2
  <2>4. phase = "from cache" => Same
    BY <1>3
  <2>5. CodecTypeOK <=> /\ phase \in {"received", "parsed", "refused", "panicked"} \union Replies
                        /\ packet.ok = "ok" => Counted
                        /\ phase \in Replies => Sized
                        /\ phase = "from cache" => Same
    BY DEF CodecTypeOK
  <2> HIDE DEF Counted, Sized, Same
  <2> QED BY <2>1, <2>2, <2>3, <2>4, <2>5
<1> QED BY <1>4, CodecInvHolds, PTL

-----------------------------------------------------------------------------
(* Plain messages                                                          *)

\* A plain message is parsed, and the packet holds what it says.
LEMMA PlainPacket ==
  ASSUME CodecInv, Plain(message.octets), phase # "received"
  PROVE  LET m == message.octets
             query == Meaning(m, 0).says
             stop == Meaning(m, 0).end
         IN  /\ packet.ok = "ok" /\ m \in Texts /\ Len(m) >= 3
             /\ Meaning(m, 0) = Item([questions |-> query.questions, answers |-> query.answers,
                                      others |-> query.others], stop)
             /\ packet.value \in Packets
             /\ PlainRead(m, packet.value, query, stop)
<1> DEFINE m == message.octets
           word == message.word
           query == Meaning(m, 0).says
           stop == Meaning(m, 0).end
<1>1. m \in Texts /\ word \in Nat /\ Plain(m)
  BY MessageIs
<1>2. packet = ReadPacket(word, m)
  BY DEF CodecInv
<1>3. /\ ReadPacket(word, m).ok = "ok" /\ Len(m) >= 3
      /\ Meaning(m, 0) = Item([questions |-> query.questions, answers |-> query.answers,
                               others |-> query.others], stop)
      /\ PlainRead(m, ReadPacket(word, m).value, query, stop)
  <2> HIDE DEF m, word
  <2> QED BY <1>1, PlainIsRead
<1>4. packet.ok = "ok" /\ PlainRead(m, packet.value, query, stop)
  BY <1>2, <1>3
<1>5. packet.value \in Packets
  BY <1>4, ParsedIs, Zenon
<1> QED BY <1>1, <1>3, <1>4, <1>5

\* A reply with the sections of the query says what the query says, and ends
\* where the query does.
SameReply(m, pk, query, stop, reply) ==
    /\ m \in Texts /\ PlainRead(m, pk, query, stop) /\ Len(m) >= 3
    /\ reply \in Packets /\ reply.questions = pk.questions
    /\ reply.others = pk.others /\ reply.answers = pk.answers

LEMMA SameSections ==
  ASSUME NEW m, NEW pk, NEW query, NEW stop, NEW reply,
         SameReply(m, pk, query, stop, reply)
  PROVE  LET octets == ToBytes(reply).octets
         IN  /\ Meaning(octets, 0) = Item([questions |-> query.questions,
                                           answers |-> query.answers,
                                           others |-> query.others], stop)
             /\ Len(octets) = stop
<1> DEFINE t == <<>>
           octets == ToBytes(reply).octets
           v == query.answers \o t
<1>1. t \in Seq(Records) /\ t \in Seq(Statements) /\ Len(t) = 0
  OBVIOUS
<1>2. SectionCarries("answers", t, WriteItems("answers", t), Len(t))
  BY <1>1, NothingCarries, WriteNoItems
<1>3. m[2] + Len(t) \in Octets
  <2>1. m[2] \in Octets /\ m[2] \in Nat
    BY CountsOf DEF SameReply
  <2> QED BY <1>1, <2>1
<1>4. v = query.answers
  BY ConcatEmptySeq DEF PlainRead, SameReply
<1>5. reply.answers = pk.answers \o t
  BY ConcatEmptySeq DEF PlainRead, Packets, SameReply
<1>6. Len(WriteItems("answers", t)) = 0 /\ stop \in Nat
  BY WriteNoItems DEF SameReply, PlainRead
<1> HIDE DEF t
<1>7. /\ Meaning(octets, 0) = Item([questions |-> query.questions, answers |-> v,
                                    others |-> query.others], Len(octets))
      /\ Len(octets) = stop + Len(WriteItems("answers", t))
  <2>1. ReplyTo(m, pk, query, stop, t, t, reply)
    BY <1>1, <1>2, <1>3, <1>5 DEF ReplyTo, SameReply
  <2> QED BY <2>1, ReplyIsWritten
<1> HIDE DEF octets, v
<1> QED BY <1>4, <1>6, <1>7 DEF octets

\* A message of text without pointers is parsed, for every such message, and
\* says the same when it is written from the cache.
THEOREM PlainMessagesHold == Spec => []PlainMessagesSurvive
<1>1. ASSUME CodecInv, Plain(message.octets)
      PROVE  phase \notin {"refused", "panicked"}
  <2>1. phase # "received" => packet.ok = "ok"
    BY <1>1, PlainPacket
  <2> QED BY <1>1, <2>1 DEF CodecInv
<1>2. ASSUME CodecInv, Plain(message.octets), phase = "from cache"
      PROVE  Meaning(written.octets, 0) = Meaning(message.octets, 0)
  <2> DEFINE m == message.octets
             query == Meaning(m, 0).says
             stop == Meaning(m, 0).end
             pk == packet.value
             says == [questions |-> query.questions, answers |-> query.answers,
                      others |-> query.others]
  <2>1. /\ m \in Texts /\ Len(m) >= 3 /\ Meaning(m, 0) = Item(says, stop)
        /\ pk \in Packets /\ PlainRead(m, pk, query, stop)
    BY <1>2, PlainPacket
  <2>2. written = ToBytes(pk)
    BY <1>2 DEF CodecInv, Reply, Replies
  <2> HIDE DEF m, pk, query, stop
  <2>4. Meaning(ToBytes(pk).octets, 0) = Item(says, stop)
    <3>1. SameReply(m, pk, query, stop, pk)
      BY <2>1 DEF SameReply
    <3> QED BY <3>1, SameSections
  <2> HIDE DEF says
  <2>5. Meaning(written.octets, 0) = Meaning(m, 0)
    BY <2>1, <2>2, <2>4
  <2> QED BY <2>5 DEF m
<1>3. CodecInv => PlainMessagesSurvive
  BY <1>1, <1>2 DEF PlainMessagesSurvive
<1> QED BY <1>3, CodecInvHolds, PTL

-----------------------------------------------------------------------------
(* Replies to blocked queries                                              *)

\* The first question, as it stands in the message and as it is in the packet.
AskedOf(m, query, pk) ==
    \/ m[1] = 0 /\ query.questions = <<>> /\ pk.questions = <<>>
    \/ /\ m[1] > 0 /\ query.questions # <<>> /\ pk.questions # <<>>
       /\ Head(query.questions) = QuestionAt(m, 3, 0).says
       /\ Len(WriteName(Head(pk.questions).name)) = QuestionAt(m, 3, 0).end - 2 - 3
       /\ Head(pk.questions) \in Questions
       /\ Head(query.questions) = SaysQuestion(Head(pk.questions))
       /\ NameCarries(Head(pk.questions).name, WriteName(Head(pk.questions).name))

LEMMA AskedIs ==
  ASSUME NEW word \in Nat, NEW m \in Texts, Plain(m)
  PROVE  AskedOf(m, Meaning(m, 0).says, ReadPacket(word, m).value)
<1> DEFINE query == Meaning(m, 0).says
           pk == ReadPacket(word, m).value
           all == AllAt("questions", m, 3, m[1], 0)
           read == ReadAll("questions", m, 3, m[1])
           item == QuestionAt(m, 3, 0)
           first == ReadQuestion(m, 3)
<1>1. /\ ReadPacket(word, m).ok = "ok" /\ Len(m) >= 3
      /\ query.questions = QuestionsAt(m).says /\ QuestionsAt(m).good
  BY PlainIsRead
<1>2. query.questions = all.says /\ all.good
  BY <1>1 DEF QuestionsAt
<1>3. pk.questions = read.value /\ read.ok = "ok" /\ pk \in Packets
  <2>1. pk = PacketOf(word, m) /\ pk \in Packets
    BY <1>1, PacketType
  <2>2. QuestionsRead(m).ok = "ok"
    BY <1>1, PacketIs
  <2> QED BY <2>1, <2>2 DEF PacketOf, QuestionsRead
<1>4. m[1] \in Nat
  BY <1>1, CountsOf
<1>5. /\ m[1] = 0 => all.says = <<>> /\ read.value = <<>>
      /\ m[1] > 0 /\ all.good => item.good /\ all.says # <<>> /\ Head(all.says) = item.says
      /\ m[1] > 0 /\ read.ok = "ok" /\ first.ok = "ok" =>
            read.value # <<>> /\ Head(read.value) = first.value
  BY <1>4, FirstOfSection
<1>6. item.good => /\ first = Ok(first.value, item.end)
                   /\ item.says = SaysQuestion(first.value)
                   /\ NameCarries(first.value.name, WriteName(first.value.name))
                   /\ first.value \in Questions /\ item.end \in Nat
                   /\ Len(WriteQuestion(first.value)) = item.end - 3
  BY QuestionRenders DEF ItemSurvives, WriteItem, Items
<1>7. item.good => first.ok = "ok"
  <2> HIDE DEF first
  <2> QED BY <1>6 DEF Ok
<1>8. CASE m[1] = 0
  <2>1. query.questions = <<>> /\ pk.questions = <<>>
    BY <1>2, <1>3, <1>5, <1>8
  <2> QED BY <1>8, <2>1 DEF AskedOf
<1>9. CASE m[1] > 0
  <2>1. item.good /\ all.says # <<>> /\ Head(all.says) = item.says
    BY <1>2, <1>5, <1>9
  <2>2. first.ok = "ok" /\ read.value # <<>> /\ Head(read.value) = first.value
    BY <1>3, <1>5, <1>7, <1>9, <2>1
  <2>3. pk.questions \in Seq(Questions)
    BY <1>3 DEF Packets
  <2>4. Head(pk.questions) = first.value /\ pk.questions # <<>>
    BY <1>3, <2>2
  <2>5. first.value \in Questions
    BY <2>3, <2>4
  <2>6. query.questions # <<>> /\ Head(query.questions) = item.says
    BY <1>2, <2>1
  <2> HIDE DEF first, item, query, pk
  <2>8. Len(WriteName(first.value.name)) = item.end - 2 - 3
    <3>1. first.value.name \in Labels
      BY <2>5 DEF Questions
    <3>2. Len(WriteName(first.value.name)) \in Nat
      BY <3>1, WriteNameType, LengthOf
    <3>3. Len(WriteQuestion(first.value)) = Len(WriteName(first.value.name)) + 2
      BY <2>5, WriteQuestionType
    <3> QED BY <1>6, <2>1, <3>2, <3>3
  <2>7. AskedOf(m, query, pk)
    BY <1>6, <1>9, <2>1, <2>4, <2>5, <2>6, <2>8 DEF AskedOf, item
  <2> QED BY <2>7 DEF query, pk
<1> QED BY <1>4, <1>8, <1>9

\* What the answers that are added to a reply say.
SaysAdded(query) ==
    IF query.questions # <<>> /\ Head(query.questions)[2][1] = A
    THEN <<SaysAddress(Head(query.questions)[1])>> ELSE <<>>

MayBeAdded(t, u) ==
    /\ t \in Seq(Records) /\ u \in Seq(Statements) /\ Len(t) \in {0, 1}
    /\ SectionCarries("answers", u, WriteItems("answers", t), Len(t))

\* Growth, of a message.
AddedLength(m) ==
    LET q == QuestionAt(m, 3, 0)
    IN  IF m[1] > 0 /\ q.says[2][1] = A THEN (q.end - 2 - 3) + 8 ELSE 0

LEMMA AddedCarries ==
  ASSUME NEW pk \in Packets, NEW query, NEW m, AskedOf(m, query, pk)
  PROVE  /\ MayBeAdded(NoAddress(pk), SaysAdded(query))
         /\ Len(WriteItems("answers", NoAddress(pk))) = AddedLength(m)
<1> DEFINE t == NoAddress(pk)
           u == SaysAdded(query)
           q == Head(pk.questions)
           r == AddressOf(q.name)
           s == SaysAddress(q.name)
           asked == Head(query.questions)
           item == QuestionAt(m, 3, 0)
<1>0. Len(WriteItems("answers", <<>>)) = 0
  BY WriteNoItems
<1>1. CASE m[1] = 0 /\ query.questions = <<>> /\ pk.questions = <<>>
  <2>1. t = <<>> /\ u = <<>>
    BY <1>1 DEF NoAddress, SaysAdded
  <2>2. <<>> \in Seq(Records) /\ <<>> \in Seq(Statements) /\ Len(<<>>) = 0
    OBVIOUS
  <2>3. SectionCarries("answers", <<>>, WriteItems("answers", <<>>), 0)
    BY NothingCarries, WriteNoItems
  <2>4. AddedLength(m) = 0
    BY <1>1 DEF AddedLength
  <2> QED BY <1>0, <2>1, <2>2, <2>3, <2>4 DEF MayBeAdded
<1>2. CASE /\ m[1] > 0 /\ query.questions # <<>> /\ pk.questions # <<>> /\ q \in Questions
           /\ asked = SaysQuestion(q) /\ NameCarries(q.name, WriteName(q.name))
           /\ asked = item.says /\ Len(WriteName(q.name)) = item.end - 2 - 3
  <2>1. asked[1] = q.name /\ asked[2][1] = ToU16(q.qtype)
    <3> HIDE DEF asked, q
    <3> QED BY <1>2 DEF SaysQuestion
  <2>2. CASE ToU16(q.qtype) = A
    <3>1. t = <<r>>
      BY <1>2, <2>2 DEF NoAddress, AddressOf
    <3>2. u = <<s>>
      BY <1>2, <2>1, <2>2 DEF SaysAdded
    <3>3. q.name \in Labels
      BY <1>2 DEF Questions
    <3>4. r \in Records
      BY <3>3, AddressType
    <3>5. /\ SectionCarries("answers", <<s>>, WriteItems("answers", <<r>>), 1)
          /\ Len(WriteItems("answers", <<r>>)) = Len(WriteName(q.name)) + 8
      BY <1>2, <3>3, AddressCarries
    <3>9. AddedLength(m) = (item.end - 2 - 3) + 8
      <4> HIDE DEF item, asked, q
      <4> QED BY <1>2, <2>1, <2>2 DEF AddedLength, item
    <3>6. <<s>> \in Seq(Statements)
      BY <3>5 DEF SectionCarries
    <3> HIDE DEF r, s, t, u
    <3>7. <<r>> \in Seq(Records) /\ Len(<<r>>) = 1
      BY <3>4
    <3>8. /\ t \in Seq(Records) /\ u \in Seq(Statements) /\ Len(t) = 1
          /\ SectionCarries("answers", u, WriteItems("answers", t), Len(t))
      BY <3>1, <3>2, <3>5, <3>6, <3>7
    <3>10. Len(WriteItems("answers", t)) = AddedLength(m)
      BY <1>2, <3>1, <3>5, <3>9
    <3> QED BY <3>8, <3>10 DEF t, u, MayBeAdded
  <2>3. CASE ToU16(q.qtype) # A
    <3>1. t = <<>>
      BY <2>3 DEF NoAddress
    <3>2. u = <<>>
      BY <2>1, <2>3 DEF SaysAdded
    <3>3. <<>> \in Seq(Records) /\ <<>> \in Seq(Statements) /\ Len(<<>>) = 0
      OBVIOUS
    <3>4. SectionCarries("answers", <<>>, WriteItems("answers", <<>>), 0)
      BY NothingCarries, WriteNoItems
    <3>5. AddedLength(m) = 0
      <4> HIDE DEF item, asked, q
      <4> QED BY <1>2, <2>1, <2>3 DEF AddedLength, item
    <3> QED BY <1>0, <3>1, <3>2, <3>3, <3>4, <3>5 DEF MayBeAdded
  <2> QED BY <2>2, <2>3
<1> QED BY <1>1, <1>2 DEF AskedOf

\* A reply that is made of a plain message, with a code and t more answers.
LEMMA ReplyMade ==
  ASSUME CodecInv, Plain(message.octets), packet.ok = "ok", phase # "received",
         NEW rcode \in Codes, NEW t, NEW u, MayBeAdded(t, u)
  PROVE  ReplyTo(message.octets, packet.value, Meaning(message.octets, 0).says,
                 Meaning(message.octets, 0).end, t, u, Response(packet.value, rcode, t))
<1> DEFINE m == message.octets
           query == Meaning(m, 0).says
           stop == Meaning(m, 0).end
           pk == packet.value
           reply == Response(pk, rcode, t)
<1>0. /\ t \in Seq(Records) /\ u \in Seq(Statements)
      /\ SectionCarries("answers", u, WriteItems("answers", t), Len(t))
  BY DEF MayBeAdded
<1>1. /\ m \in Texts /\ Len(m) >= 3 /\ pk \in Packets /\ PlainRead(m, pk, query, stop)
  BY PlainPacket
<1>2. Len(m) < 5 * (Octet - 1) /\ Len(m) \in Nat
  BY MessageIs
<1>4. /\ reply \in Packets
      /\ reply.questions = pk.questions /\ reply.others = pk.others
      /\ reply.answers = pk.answers \o t
  <2> HIDE DEF pk
  <2> QED BY <1>0, <1>1, ResponseIs
<1> HIDE DEF m, query, stop, pk, reply
<1>5. m[2] + Len(t) \in Octets
  <2> DEFINE k == m[2]
             n == Len(t)
  <2>1. k \in Nat /\ 5 * k <= Len(m) /\ n \in {0, 1} /\ Octet \in Nat /\ Octet >= 4
    BY <1>1, CountsOf, CodecAssumption DEF PlainRead, MayBeAdded
  <2> HIDE DEF k, n
  <2>2. k < Octet - 1
    BY <1>2, <2>1
  <2>3. k + n \in 0 .. Octet - 1
    BY <2>1, <2>2
  <2> QED BY <2>3 DEF Octets, k, n
<1>6. ReplyTo(m, pk, query, stop, t, u, reply)
  BY <1>0, <1>1, <1>4, <1>5 DEF ReplyTo
<1> QED BY <1>6 DEF m, query, stop, pk, reply

\* The reply to a blocked query.
RightReply(m, word, reply, u, rcode) ==
    LET query == Meaning(m, 0).says
        says == Meaning(reply.octets, 0)
    IN  /\ says.good
        /\ says.says.questions = query.questions
        /\ says.says.others = query.others
        /\ says.says.answers = query.answers \o u
        /\ Kept(reply.word) = Kept(word) \union {32768}
        /\ reply.word % 16 = rcode

LEMMA BlockedReply ==
  ASSUME CodecInv, Plain(message.octets), packet.ok = "ok", phase # "received",
         NEW rcode \in Codes, NEW t, NEW u, MayBeAdded(t, u)
  PROVE  RightReply(message.octets, message.word, ToBytes(Response(packet.value, rcode, t)),
                    u, rcode)
<1> DEFINE m == message.octets
           word == message.word
           query == Meaning(m, 0).says
           stop == Meaning(m, 0).end
           pk == packet.value
           reply == Response(pk, rcode, t)
           octets == ToBytes(reply).octets
           h == reply.header
           w == ToBytes(reply).word
<1>0. /\ t \in Seq(Records) /\ u \in Seq(Statements)
      /\ SectionCarries("answers", u, WriteItems("answers", t), Len(t))
  BY DEF MayBeAdded
<1>1. pk \in Packets
  BY PlainPacket
<1>2. word \in Nat
  BY MessageIs
<1>3. pk.header = ReadFlags(word)
  BY ParsedIs, Zenon
<1>4. /\ reply \in Packets
      /\ reply.questions = pk.questions /\ reply.others = pk.others
      /\ reply.answers = pk.answers \o t
      /\ h \in Headers /\ h.rcode = rcode
      /\ KeptOf(h) = AsResponse(KeptOf(pk.header))
  <2> HIDE DEF pk
  <2>1. pk \in Packets /\ t \in Seq(Records)
    BY <1>0, <1>1
  <2>2. /\ reply \in Packets /\ reply.questions = pk.questions
        /\ reply.others = pk.others /\ reply.answers = pk.answers \o t
    BY <2>1, ResponseIs
  <2>3. h \in Headers /\ h.rcode = rcode
    BY <2>1, ResponseIs
  <2>4. KeptOf(h) = AsResponse(KeptOf(pk.header))
    BY <2>1, ResponseIs
  <2> QED BY <2>2, <2>3, <2>4
<1>6. ReplyTo(m, pk, query, stop, t, u, reply)
  BY ReplyMade
<1> HIDE DEF m, word, query, stop, pk, reply
<1>7. /\ w = WriteFlags(h)
      /\ Meaning(octets, 0) = Item([questions |-> query.questions,
                                    answers |-> query.answers \o u,
                                    others |-> query.others], Len(octets))
  <2>1. w = WriteFlags(h)
    BY <1>6, ReplyIsWritten
  <2> DEFINE v == query.answers \o u
  <2>2. Meaning(octets, 0) = Item([questions |-> query.questions, answers |-> v,
                                   others |-> query.others], Len(octets))
    BY <1>6, ReplyIsWritten
  <2> QED BY <2>1, <2>2
<1>8. /\ KeptOf(pk.header) = Kept(word) /\ Kept(w) = KeptOf(h) /\ CodeOf(w) = h.rcode
  <2>1. KeptOf(ReadFlags(word)) = Kept(word)
    BY <1>2, FlagsRead
  <2>2. Kept(WriteFlags(h)) = KeptOf(h) /\ CodeOf(WriteFlags(h)) = h.rcode
    BY <1>4, FlagsWritten
  <2> HIDE DEF h, w
  <2> QED BY <1>3, <1>7, <2>1, <2>2
<1>9. Kept(w) = Kept(word) \union {32768} /\ w % 16 = rcode
  BY <1>4, <1>8 DEF CodeOf, AsResponse
<1>10. LET says == Meaning(octets, 0)
       IN  /\ says.good /\ says.says.questions = query.questions
           /\ says.says.others = query.others /\ says.says.answers = query.answers \o u
  <2> DEFINE what == [questions |-> query.questions, answers |-> query.answers \o u,
                      others |-> query.others]
             says == Meaning(octets, 0)
  <2>1. what.questions = query.questions /\ what.others = query.others
        /\ what.answers = query.answers \o u
    OBVIOUS
  <2>2. says = Item(what, Len(octets))
    BY <1>7
  <2> HIDE DEF what, says, octets
  <2>3. says.good /\ says.says = what
    BY <2>2 DEF Item
  <2> QED BY <2>1, <2>3 DEF says
<1>11. RightReply(m, word, ToBytes(reply), u, rcode)
  <2> DEFINE whole == ToBytes(reply)
  <2>1. octets = whole.octets /\ w = whole.word /\ query = Meaning(m, 0).says
    BY DEF octets, w, query
  <2> HIDE DEF whole, octets, w, query
  <2>2. RightReply(m, word, whole, u, rcode)
    BY <1>9, <1>10, <2>1 DEF RightReply
  <2> QED BY <2>2 DEF whole
<1> QED BY <1>11 DEF m, word, pk, reply

\* The reply to a plain message is as long as the message, up to where that
\* ends, and the record of an address if one is added.
LEMMA ReplyLength ==
  ASSUME CodecInv, phase \in Replies, Plain(message.octets)
  PROVE  /\ Len(written.octets) = Meaning(message.octets, 0).end + Growth
         /\ Meaning(message.octets, 0).end \in Nat /\ Growth \in Nat
         /\ Meaning(message.octets, 0).end <= Len(message.octets)
<1> DEFINE m == message.octets
           query == Meaning(m, 0).says
           stop == Meaning(m, 0).end
           pk == packet.value
<1>1. /\ packet.ok = "ok" /\ phase # "received" /\ pk \in Packets
      /\ m \in Texts /\ Len(m) >= 3 /\ PlainRead(m, pk, query, stop)
  BY PlainPacket DEF Replies
<1>2. written = ToBytes(Reply(pk)) /\ stop \in Nat /\ stop <= Len(m)
  BY <1>1 DEF CodecInv, PlainRead
<1>3. \A r : written = ToBytes(r) => written.octets = ToBytes(r).octets
  OBVIOUS
<1>4. CASE phase = "from cache"
  <2>1. written = ToBytes(pk) /\ Growth = 0
    BY <1>2, <1>4 DEF Reply, Growth
  <2> HIDE DEF m, query, stop, pk
  <2>2. SameReply(m, pk, query, stop, pk)
    BY <1>1 DEF SameReply
  <2>3. Len(ToBytes(pk).octets) = stop
    BY <2>2, SameSections
  <2> QED BY <1>2, <1>3, <2>1, <2>3 DEF stop, m
<1>5. ASSUME NEW rcode \in Codes, NEW t, NEW u, MayBeAdded(t, u),
             Reply(pk) = Response(pk, rcode, t), Len(WriteItems("answers", t)) = Growth,
             Growth \in Nat
      PROVE  Len(written.octets) = stop + Growth
  <2> DEFINE reply == Response(pk, rcode, t)
             octets == ToBytes(reply).octets
  <2>1. ReplyTo(m, pk, query, stop, t, u, reply)
    BY <1>1, <1>5, ReplyMade
  <2> HIDE DEF m, query, stop, pk, reply
  <2>6. /\ Meaning(octets, 0) = Item([questions |-> query.questions,
                                      answers |-> query.answers \o u,
                                      others |-> query.others], Len(octets))
        /\ Len(octets) = stop + Len(WriteItems("answers", t))
    BY <2>1, ReplyIsWritten
  <2>2. Len(ToBytes(reply).octets) = stop + Len(WriteItems("answers", t))
    BY <2>6
  <2>4. Reply(pk) = reply
    BY <1>5 DEF reply
  <2>5. written = ToBytes(reply)
    BY <1>2, <2>4
  <2>3. written.octets = ToBytes(reply).octets
    BY <1>3, <2>5
  <2> QED BY <1>5, <2>2, <2>3
<1>6. NXDomain \in Codes /\ NoError \in Codes /\ ServFail \in Codes
  BY DEF NXDomain, NoError, ServFail, Codes
<1>7. CASE phase \in {"nxdomain", "failure"}
  <2> DEFINE none == <<>>
  <2>1. none \in Seq(Records) /\ none \in Seq(Statements) /\ Len(none) = 0
    OBVIOUS
  <2>2. MayBeAdded(none, none)
    BY <2>1, NothingCarries, WriteNoItems DEF MayBeAdded
  <2>3. Growth = 0 /\ Len(WriteItems("answers", none)) = Growth
    <3>1. Growth = 0
      BY <1>7 DEF Growth
    <3>2. Len(WriteItems("answers", none)) = 0
      BY <2>1, WriteNoItems
    <3> QED BY <3>1, <3>2
  <2>4. \E rcode \in Codes : Reply(pk) = Response(pk, rcode, none)
    BY <1>6, <1>7 DEF Reply
  <2> HIDE DEF none, m, stop, pk
  <2>5. Len(written.octets) = stop + Growth
    BY <1>5, <2>2, <2>3, <2>4
  <2> QED BY <1>2, <2>3, <2>5 DEF stop, m
<1>8. CASE phase = "zero_ip"
  <2> DEFINE t == NoAddress(pk)
  <2>1. AskedOf(m, query, pk)
    <3>1. message.word \in Nat /\ packet = ReadPacket(message.word, m)
      BY <1>1, MessageIs DEF CodecInv
    <3>2. AskedOf(m, query, ReadPacket(message.word, m).value)
      BY <1>1, <3>1, AskedIs
    <3> QED BY <3>1, <3>2
  <2>2. MayBeAdded(t, SaysAdded(query)) /\ Len(WriteItems("answers", t)) = AddedLength(m)
    BY <1>1, <2>1, AddedCarries
  <2>3. AddedLength(m) = Growth
    BY <1>8 DEF AddedLength, Growth
  <2>4. Reply(pk) = Response(pk, NoError, t)
    BY <1>8 DEF Reply
  <2>5. Len(WriteItems("answers", t)) \in Nat
    <3>1. WriteItems("answers", t) \in Texts
      BY <2>2 DEF MayBeAdded, SectionCarries
    <3> QED BY <3>1, LengthOf
  <2> HIDE DEF t, m, query, stop, pk
  <2>6. Len(written.octets) = stop + Growth
    BY <1>5, <1>6, <2>2, <2>3, <2>4, <2>5
  <2> QED BY <1>2, <2>2, <2>3, <2>5, <2>6 DEF stop, m
<1> QED BY <1>4, <1>7, <1>8 DEF Replies

\* The length before a reply on a connection is that of the reply, whichever
\* reply it is, if the plain message it is made from has room for the address
\* that may be added.
THEOREM FramesHold == Spec => []FramesAreWhole
<1>1. ASSUME CodecInv, phase \in Replies, Plain(message.octets),
             Len(message.octets) + Growth < Frame
      PROVE  FrameLength(written) = Len(written.octets)
  <2> DEFINE k == Len(written.octets)
             stop == Meaning(message.octets, 0).end
             n == Len(message.octets)
  <2>1. k = stop + Growth /\ stop \in Nat /\ Growth \in Nat /\ stop <= n
    BY <1>1, ReplyLength
  <2>2. n \in Nat /\ Frame \in Nat
    BY <1>1, MessageIs, CodecAssumption
  <2>3. n + Growth < Frame
    BY <1>1
  <2> HIDE DEF k, stop, n
  <2>4. k % Frame = k
    BY <2>1, <2>2, <2>3
  <2> QED BY <2>4 DEF FrameLength, k
<1>2. CodecInv => FramesAreWhole
  BY <1>1 DEF FramesAreWhole
<1> QED BY <1>2, CodecInvHolds, PTL

\* Every plain query that is blocked is answered as the filter's mode says: the
\* question and the other sections are those of the query, the flags are its
\* flags with that of a response, and to who asks for an address the address
\* 0.0.0.0 is added and nothing else.
THEOREM BlockedRepliesHold == Spec => []BlockedRepliesAreRight
<1> DEFINE m == message.octets
           query == Meaning(m, 0).says
           Added == IF phase = "zero_ip" /\ query.questions # <<>>
                       /\ Head(query.questions)[2][1] = A
                    THEN <<<<Head(query.questions)[1], <<A, 1, 10>>, <<0, 0, 0, 0>>>>>> ELSE <<>>
           rcode == IF phase = "nxdomain" THEN NXDomain ELSE NoError
<1>1. ASSUME CodecInv, Plain(m), phase \in {"nxdomain", "zero_ip"}
      PROVE  RightReply(m, message.word, written, Added, rcode)
  <2> DEFINE pk == packet.value
  <2>1. packet.ok = "ok" /\ pk \in Packets /\ phase # "received" /\ phase \in Replies
    BY <1>1, PlainPacket DEF Replies
  <2>2. written = ToBytes(Reply(pk))
    BY <1>1, <2>1 DEF CodecInv
  <2>3. NXDomain \in Codes /\ NoError \in Codes
    BY DEF NXDomain, NoError, Codes
  <2>4. CASE phase = "nxdomain"
    <3> DEFINE none == <<>>
    <3>1. none \in Seq(Records) /\ none \in Seq(Statements) /\ Len(none) \in {0, 1}
          /\ Len(none) = 0
      OBVIOUS
    <3>2. MayBeAdded(none, none)
      BY <3>1, NothingCarries, WriteNoItems DEF MayBeAdded
    <3>3. Reply(pk) = Response(pk, NXDomain, none) /\ rcode = NXDomain /\ Added = none
      BY <2>4 DEF Reply
    <3> HIDE DEF none, rcode, Added
    <3>4. RightReply(m, message.word, ToBytes(Response(pk, NXDomain, none)), none, NXDomain)
      BY <1>1, <2>1, <2>3, <3>2, BlockedReply
    <3> HIDE DEF m, pk
    <3> QED BY <2>2, <3>3, <3>4
  <2>5. CASE phase = "zero_ip"
    <3> DEFINE t == NoAddress(pk)
               u == SaysAdded(query)
    <3>1. AskedOf(m, query, pk)
      <4>1. m \in Texts /\ message.word \in Nat
        BY <1>1, MessageIs
      <4>2. packet = ReadPacket(message.word, m)
        BY <1>1, <2>1 DEF CodecInv
      <4>3. AskedOf(m, query, ReadPacket(message.word, m).value)
        BY <1>1, <4>1, AskedIs
      <4> QED BY <4>2, <4>3
    <3>2. MayBeAdded(t, u)
      BY <2>1, <3>1, AddedCarries
    <3>3. Reply(pk) = Response(pk, NoError, t) /\ rcode = NoError
      BY <2>5 DEF Reply
    <3>4. Added = u
      BY <2>5 DEF SaysAdded, SaysAddress
    <3> HIDE DEF t, u, rcode, Added
    <3>5. RightReply(m, message.word, ToBytes(Response(pk, NoError, t)), u, NoError)
      BY <1>1, <2>1, <2>3, <3>2, BlockedReply
    <3> HIDE DEF m, pk
    <3> QED BY <2>2, <3>3, <3>4, <3>5
  <2> QED BY <1>1, <2>4, <2>5
<1>2. CodecInv => BlockedRepliesAreRight
  <2> SUFFICES ASSUME CodecInv, phase \in {"nxdomain", "zero_ip"}, Plain(m)
               PROVE  RightReply(m, message.word, written, Added, rcode)
    <3> DEFINE Blocked == phase \in {"nxdomain", "zero_ip"}
               Right == RightReply(m, message.word, written, Added, rcode)
    <3>1. BlockedRepliesAreRight <=> (Blocked /\ Plain(m) => Right)
      BY SMTT(30) DEF BlockedRepliesAreRight, RightReply
    <3> HIDE DEF Right
    <3> QED BY <3>1 DEF Right
  <2> QED BY <1>1
<1> QED BY <1>2, CodecInvHolds, PTL
=============================================================================
