------------------------- MODULE DomainFilterProofs -------------------------
(***************************************************************************)
(* What the filter does for every set of lines and names: its verdicts are *)
(* what the lines it has read mean, in whatever order they came.           *)
(***************************************************************************)
EXTENDS DomainFilter, SequenceTheorems, WellFoundedInduction, TLAPS

-----------------------------------------------------------------------------
(* Names that lists and queries have                                       *)

\* What a rule may keep and no name has: stars, and what follows a name.
Leftovers == {"*"} \union (Tails \ {"", "."})

Plain(n) == \A i \in 1 .. Len(n) : n[i] \notin Leftovers

NamesArePlain == \A n \in Names : Plain(n)

\* A name is r or below it.
EndsWith(n, r) ==
    Len(r) <= Len(n) /\ \A i \in 1 .. Len(r) : n[Len(n) - Len(r) + i] = r[i]

\* What rules are made of.
Text == Labels \union Tails

NonEmpty == Seq(Text) \ {<<>>}

-----------------------------------------------------------------------------
(* Lemmas about the operators                                              *)

\* A nonempty set of naturals has a least element.
LEMMA LeastExists ==
  ASSUME NEW S \in SUBSET Nat, S # {}
  PROVE  \E x \in S : \A y \in S : x <= y
<1> DEFINE R == OpToRel(<, Nat)
<1>1. IsWellFoundedOn(R, Nat)
  BY NatLessThanWellFounded, Zenon
<1>2. \A x, y \in Nat : x < y => <<x, y>> \in R
  BY Zenon DEF OpToRel
<1> HIDE DEF R
<1>3. \E x \in S : \A y \in S : ~ (<<y, x>> \in R)
  BY <1>1, WFMin, Zenon
<1>4. PICK x \in S : \A y \in S : ~ (<<y, x>> \in R)
  BY <1>3
<1>5. \A y \in S : ~ (y < x)
  BY <1>2, <1>4
<1>6. \A y \in S : x <= y
  BY <1>5
<1> QED BY <1>6

\* A nonempty set of naturals with a bound has a greatest element.
LEMMA MostExists ==
  ASSUME NEW m \in Nat, NEW S \in SUBSET (0 .. m), S # {}
  PROVE  \E x \in S : \A y \in S : y <= x
<1> DEFINE T == {m - x : x \in S}
<1>1. \A x \in S : m - x \in Nat
  OBVIOUS
<1>2. T \in SUBSET Nat /\ T # {}
  BY <1>1
<1>3. PICK t \in T : \A u \in T : t <= u
  BY <1>2, LeastExists
<1>4. PICK x \in S : t = m - x
  OBVIOUS
<1>5. \A y \in S : m - x <= m - y
  BY <1>3, <1>4
<1> QED BY <1>5

\* Unstarred leaves out stars from the front, as many as there are short of the
\* last label.
LEMMA UnstarredIs ==
  ASSUME NEW n \in Seq(Text)
  PROVE  \E k \in 0 .. Len(n) :
            /\ Unstarred(n) = SubSeq(n, k + 1, Len(n))
            /\ n # <<>> => k < Len(n)
            /\ \A i \in 1 .. k : n[i] = "*"
            /\ k + 1 < Len(n) => n[k + 1] # "*"
<1> DEFINE stars == {0} \union {i \in 1 .. Len(n) - 1 : \A j \in 1 .. i : n[j] = "*"}
           k == CHOOSE i \in stars : \A j \in stars : j <= i
<1>1. Len(n) \in Nat /\ (n # <<>> <=> Len(n) # 0)
  BY EmptySeq
<1>2. stars \in SUBSET (0 .. Len(n)) /\ stars # {}
  BY <1>1
<1>3. Unstarred(n) = SubSeq(n, k + 1, Len(n))
  BY DEF Unstarred
<1>4. k \in stars /\ \A j \in stars : j <= k
  <2> HIDE DEF stars
  <2>1. \E i \in stars : \A j \in stars : j <= i
    BY <1>1, <1>2, MostExists
  <2> QED BY <2>1
<1> HIDE DEF k
<1>5. k \in 0 .. Len(n) /\ (n # <<>> => k < Len(n)) /\ \A i \in 1 .. k : n[i] = "*"
  BY <1>1, <1>4
<1>6. ASSUME k + 1 < Len(n), n[k + 1] = "*"
      PROVE  FALSE
  <2>1. \A j \in 1 .. k + 1 : n[j] = "*"
    <3> TAKE j \in 1 .. k + 1
    <3>1. j = k + 1 \/ j \in 1 .. k
      BY <1>5
    <3> QED BY <1>5, <1>6, <3>1
  <2>2. k + 1 \in 1 .. Len(n) - 1
    BY <1>1, <1>5, <1>6
  <2>3. k + 1 \in stars
    BY <2>1, <2>2
  <2> HIDE DEF stars
  <2> QED BY <1>4, <1>5, <2>3
<1> QED BY <1>3, <1>5, <1>6

\* A trie matches the names that are one of its names or below it.
LEMMA MatchesIs ==
  ASSUME NEW trie \in SUBSET NonEmpty, NEW n \in Seq(Text)
  PROVE  Matches(trie, n) <=> \E r \in trie : EndsWith(n, r)
<1>1. Len(n) \in Nat /\ \A i \in 1 .. Len(n) : n[i] \in Text
  OBVIOUS
<1>2. \A r \in trie : r \in Seq(Text) /\ Len(r) \in Nat /\ Len(r) # 0
  BY EmptySeq DEF NonEmpty
<1>3. ASSUME NEW i \in 1 .. Len(n)
      PROVE  /\ SubSeq(n, i, Len(n)) \in Seq(Text)
             /\ Len(SubSeq(n, i, Len(n))) = Len(n) - i + 1
             /\ \A j \in 1 .. Len(n) - i + 1 : SubSeq(n, i, Len(n))[j] = n[i + j - 1]
  <2>1. i \in Int /\ Len(n) \in Int /\ i <= Len(n) /\ \A j \in i .. Len(n) : n[j] \in Text
    BY <1>1
  <2>2. /\ SubSeq(n, i, Len(n)) \in Seq(Text)
        /\ Len(SubSeq(n, i, Len(n))) = IF i <= Len(n) THEN Len(n) - i + 1 ELSE 0
        /\ \A j \in 1 .. Len(n) - i + 1 : SubSeq(n, i, Len(n))[j] = n[i + j - 1]
    BY <2>1, SubSeqProperties
  <2> QED BY <2>1, <2>2
<1>4. ASSUME NEW i \in 1 .. Len(n), NEW r \in trie
      PROVE  SubSeq(n, i, Len(n)) = r <=> EndsWith(n, r) /\ i = Len(n) - Len(r) + 1
  <2> DEFINE t == SubSeq(n, i, Len(n))
  <2>1. /\ t \in Seq(Text) /\ Len(t) = Len(n) - i + 1
        /\ \A j \in 1 .. Len(n) - i + 1 : t[j] = n[i + j - 1]
    BY <1>3
  <2> HIDE DEF t
  <2>2. ASSUME t = r PROVE EndsWith(n, r) /\ i = Len(n) - Len(r) + 1
    <3>1. i = Len(n) - Len(r) + 1 /\ Len(r) <= Len(n)
      BY <1>1, <1>2, <2>1, <2>2
    <3>2. \A j \in 1 .. Len(r) : n[Len(n) - Len(r) + j] = r[j]
      <4> TAKE j \in 1 .. Len(r)
      <4>1. j \in 1 .. Len(n) - i + 1 /\ i + j - 1 = Len(n) - Len(r) + j
        BY <1>1, <1>2, <3>1
      <4> QED BY <2>1, <2>2, <4>1
    <3> QED BY <3>1, <3>2 DEF EndsWith
  <2>3. ASSUME EndsWith(n, r), i = Len(n) - Len(r) + 1 PROVE t = r
    <3>1. Len(t) = Len(r)
      BY <1>1, <1>2, <2>1, <2>3
    <3>2. ASSUME NEW j \in 1 .. Len(t) PROVE t[j] = r[j]
      <4>1. t[j] = n[i + j - 1] /\ i + j - 1 = Len(n) - Len(r) + j /\ j \in 1 .. Len(r)
        BY <1>1, <1>2, <2>1, <2>3, <3>1
      <4> QED BY <2>3, <4>1 DEF EndsWith
    <3> QED BY <1>2, <2>1, <3>1, <3>2, SeqEqual
  <2> QED BY <2>2, <2>3 DEF t
<1>5. SubSeq(n, 1, Len(n)) = n
  BY SubSeqFull
<1>6. ASSUME Matches(trie, n) PROVE \E r \in trie : EndsWith(n, r)
  <2>1. CASE n \in trie
    <3>1. 1 \in 1 .. Len(n)
      BY <1>2, <2>1
    <3> QED BY <1>4, <1>5, <2>1, <3>1
  <2>2. CASE \E i \in 2 .. Len(n) : SubSeq(n, i, Len(n)) \in trie
    <3>1. PICK i \in 2 .. Len(n) : SubSeq(n, i, Len(n)) \in trie
      BY <2>2
    <3>2. i \in 1 .. Len(n)
      BY <1>1
    <3> QED BY <1>4, <3>1, <3>2
  <2> QED BY <1>6, <2>1, <2>2 DEF Matches
<1>7. ASSUME NEW r \in trie, EndsWith(n, r) PROVE Matches(trie, n)
  <2> DEFINE i == Len(n) - Len(r) + 1
  <2>1. i \in 1 .. Len(n)
    BY <1>1, <1>2, <1>7 DEF EndsWith
  <2>2. SubSeq(n, i, Len(n)) = r
    BY <1>4, <1>7, <2>1
  <2>3. i = 1 \/ i \in 2 .. Len(n)
    BY <2>1
  <2> HIDE DEF i
  <2> QED BY <1>5, <2>2, <2>3 DEF Matches
<1> QED BY <1>6, <1>7

\* The parts of a line.
LEMMA LineParts ==
  ASSUME NEW l \in Lines
  PROVE  /\ l.name \in Seq(Text) /\ l.tail \in Tails /\ l.tail \in Text
         /\ l.marker \in {"||", "address", "none"}
<1>1. l \in [exception : BOOLEAN, comment : BOOLEAN, marker : Markers,
             name : Seq(Labels), tail : Tails]
  BY LinesAssumption
<1>2. l.name \in Seq(Labels) /\ l.tail \in Tails /\ l.marker \in Markers
  BY <1>1
<1>3. l.name \in Seq(Text)
  BY <1>2, SeqMonotonic DEF Text
<1> QED BY <1>2, <1>3 DEF Markers, Text

\* What is read for a rule: a name, and never the empty one.
LEMMA InsertedIs ==
  ASSUME NEW l \in Lines
  PROVE  /\ RuleText(l) \in Seq(Text)
         /\ Inserted(l) \in SUBSET NonEmpty
         /\ Inserted(l) \in SUBSET {RuleText(l)}
<1>1. /\ l.name \in Seq(Text) /\ l.tail \in Text
      /\ l.marker \in {"||", "address", "none"}
  BY LineParts
<1>2. Unstarred(l.name) \in Seq(Text)
  <2>1. PICK k \in 0 .. Len(l.name) :
               Unstarred(l.name) = SubSeq(l.name, k + 1, Len(l.name))
    BY <1>1, UnstarredIs
  <2>2. k + 1 \in Int /\ Len(l.name) \in Int
        /\ \A i \in k + 1 .. Len(l.name) : l.name[i] \in Text
    BY <1>1
  <2> QED BY <2>1, <2>2, SubSeqProperties
<1>3. /\ Append(l.name, l.tail) \in Seq(Text)
      /\ Append(Unstarred(l.name), l.tail) \in Seq(Text)
  BY <1>1, <1>2, AppendProperties
<1>4. RuleText(l) \in Seq(Text)
  BY <1>1, <1>2, <1>3 DEF RuleText
<1> QED BY <1>4 DEF Inserted, NonEmpty

\* The rule of a line in a documented form: its name without the stars.
LEMMA RuleOfWellFormed ==
  ASSUME NEW l \in Lines, WellFormed(l)
  PROVE  /\ Inserted(l) = {RuleText(l)}
         /\ \E k \in Nat : /\ k < Len(l.name)
                           /\ RuleText(l) = SubSeq(l.name, k + 1, Len(l.name))
                           /\ \A i \in 1 .. Len(l.name) : l.name[i] = "*" <=> i <= k
<1> DEFINE n == l.name
           m == Len(n)
<1>1. /\ n \in Seq(Text) /\ m \in Nat /\ m # 0 /\ DOMAIN n = 1 .. m
      /\ l.marker \in {"||", "address", "none"}
      /\ ~ l.comment /\ n[m] # "*" /\ n # <<>>
      /\ \A i, j \in 1 .. m : i < j /\ n[j] = "*" => n[i] = "*"
  BY LineParts, EmptySeq, LenProperties DEF WellFormed, Last
<1>2. l.marker = "none" => l.tail \in {"", "."}
  BY DEF WellFormed
<1>3. l.marker # "none" => n[1] # "*" /\ (l.marker = "address" => l.tail \in {"", ".", " words"})
                           /\ (l.marker = "||" => l.tail \notin {" words", "=text"})
  BY <1>1 DEF WellFormed
<1>4. \E k \in Nat : /\ k < m
                     /\ RuleText(l) = SubSeq(n, k + 1, m)
                     /\ \A i \in 1 .. m : n[i] = "*" <=> i <= k
  <2>1. CASE l.marker = "none"
    <3>1. RuleText(l) = Unstarred(n)
      BY <1>2, <2>1 DEF RuleText
    <3>2. PICK k \in 0 .. m : /\ Unstarred(n) = SubSeq(n, k + 1, m)
                              /\ n # <<>> => k < m
                              /\ \A i \in 1 .. k : n[i] = "*"
                              /\ k + 1 < m => n[k + 1] # "*"
      BY <1>1, UnstarredIs
    <3>3. n[k + 1] # "*" /\ k < m /\ k \in Nat
      BY <1>1, <3>2
    <3>4. ASSUME NEW i \in 1 .. m PROVE n[i] = "*" <=> i <= k
      <4>1. CASE i <= k
        BY <3>2, <4>1
      <4>2. CASE i = k + 1
        BY <3>3, <4>2
      <4>3. CASE i > k + 1
        <5>1. k + 1 \in 1 .. m
          BY <1>1, <3>3
        <5> QED BY <1>1, <3>3, <4>3, <5>1
      <4> QED BY <3>3, <4>1, <4>2, <4>3
    <3> QED BY <3>1, <3>2, <3>3, <3>4
  <2>2. CASE l.marker # "none"
    <3>1. RuleText(l) = n
      BY <1>1, <1>3, <2>2 DEF RuleText
    <3>2. SubSeq(n, 0 + 1, m) = n
      BY <1>1, SubSeqFull
    <3>3. ASSUME NEW i \in 1 .. m PROVE n[i] # "*"
      <4>1. i = 1 \/ 1 < i
        OBVIOUS
      <4>2. 1 \in 1 .. m
        BY <1>1
      <4>3. n[1] # "*"
        BY <1>3, <2>2
      <4>4. 1 < i => n[i] # "*"
        BY <1>1, <4>2, <4>3
      <4> QED BY <4>1, <4>3, <4>4
    <3>4. \A i \in 1 .. m : ~ (i <= 0)
      OBVIOUS
    <3> QED BY <1>1, <3>1, <3>2, <3>3, <3>4
  <2> QED BY <2>1, <2>2
<1>5. RuleText(l) # <<>>
  <2>1. PICK k \in Nat : k < m /\ RuleText(l) = SubSeq(n, k + 1, m)
    BY <1>4
  <2>2. k + 1 \in Int /\ m \in Int /\ \A i \in k + 1 .. m : n[i] \in Text
    BY <1>1
  <2>3. Len(SubSeq(n, k + 1, m)) = m - (k + 1) + 1
    BY <1>1, <2>1, <2>2, SubSeqProperties
  <2> HIDE DEF n, m
  <2> QED BY <1>1, <2>1, <2>3, EmptySeq
<1> QED BY <1>1, <1>2, <1>3, <1>4, <1>5 DEF Inserted, Misshapen

\* A line in a documented form covers the names that are, or are below, its rule.
LEMMA WellFormedCovers ==
  ASSUME NEW l \in Lines, WellFormed(l), NEW n \in Seq(Text)
  PROVE  Covers(l, n) <=> EndsWith(n, RuleText(l))
<1> DEFINE name == l.name
           m == Len(name)
           r == RuleText(l)
<1>1. /\ name \in Seq(Text) /\ m \in Nat /\ DOMAIN name = 1 .. m
      /\ Len(n) \in Nat /\ DOMAIN n = 1 .. Len(n)
  BY LineParts
<1>2. PICK k \in Nat : /\ k < m
                       /\ r = SubSeq(name, k + 1, m)
                       /\ \A i \in 1 .. m : name[i] = "*" <=> i <= k
  BY RuleOfWellFormed
<1>3. Len(r) = m - k /\ \A i \in 1 .. m - k : r[i] = name[k + i]
  <2>1. k + 1 \in Int /\ m \in Int /\ k + 1 <= m /\ \A i \in k + 1 .. m : name[i] \in Text
    BY <1>1, <1>2
  <2>2. /\ Len(SubSeq(name, k + 1, m)) = IF k + 1 <= m THEN m - (k + 1) + 1 ELSE 0
        /\ \A i \in 1 .. m - (k + 1) + 1 : SubSeq(name, k + 1, m)[i] = name[(k + 1) + i - 1]
    BY <2>1, SubSeqProperties
  <2>3. m - (k + 1) + 1 = m - k /\ \A i \in 1 .. m - k : (k + 1) + i - 1 = k + i
    BY <1>1, <1>2
  <2> QED BY <1>2, <2>1, <2>2, <2>3
<1> HIDE DEF name, m, r
<1>4. Covers(l, n) <=>
        \A i \in 1 .. m : name[i] # "*" =>
           Len(n) - m + i \in 1 .. Len(n) /\ n[Len(n) - m + i] = name[i]
  BY <1>1 DEF Covers, name, m
<1>5. ASSUME Covers(l, n) PROVE EndsWith(n, r)
  <2>1. k + 1 \in 1 .. m /\ name[k + 1] # "*"
    BY <1>1, <1>2
  <2>2. Len(n) - m + (k + 1) >= 1
    BY <1>1, <1>4, <1>5, <2>1
  <2>3. ASSUME NEW i \in 1 .. m - k PROVE n[Len(n) - (m - k) + i] = r[i]
    <3>1. k + i \in 1 .. m /\ name[k + i] # "*" /\ Len(n) - m + (k + i) = Len(n) - (m - k) + i
      BY <1>1, <1>2
    <3>2. n[Len(n) - m + (k + i)] = name[k + i]
      BY <1>4, <1>5, <3>1
    <3> QED BY <1>3, <3>1, <3>2
  <2>4. Len(r) <= Len(n)
    BY <1>1, <1>2, <1>3, <2>2
  <2> QED BY <1>3, <2>3, <2>4 DEF EndsWith
<1>6. ASSUME EndsWith(n, r) PROVE Covers(l, n)
  <2> SUFFICES ASSUME NEW i \in 1 .. m, name[i] # "*"
               PROVE  Len(n) - m + i \in 1 .. Len(n) /\ n[Len(n) - m + i] = name[i]
    BY <1>4
  <2>1. i - k \in 1 .. m - k /\ k + (i - k) = i
    BY <1>1, <1>2
  <2>2. m - k <= Len(n) /\ n[Len(n) - (m - k) + (i - k)] = r[i - k]
    BY <1>3, <1>6, <2>1 DEF EndsWith
  <2>3. Len(n) - (m - k) + (i - k) = Len(n) - m + i
    BY <1>1, <1>2
  <2> QED BY <1>1, <1>2, <1>3, <2>1, <2>2, <2>3
<1> QED BY <1>5, <1>6 DEF r

\* What is read from a line in no documented form is the rule of no plain name.
LEMMA IllFormedCoversNothing ==
  ASSUME NEW l \in Lines, ~ WellFormed(l), NEW r \in Inserted(l),
         NEW n \in Seq(Text), Plain(n)
  PROVE  ~ EndsWith(n, r)
<1> DEFINE name == l.name
           m == Len(name)
<1>1. /\ name \in Seq(Text) /\ m \in Nat /\ DOMAIN name = 1 .. m
      /\ l.tail \in Tails /\ l.tail \in Text
      /\ l.marker \in {"||", "address", "none"}
  BY LineParts
<1>2. r = RuleText(l) /\ r \in Seq(Text) /\ r # <<>> /\ ~ l.comment
      /\ l.tail # "=text" /\ ~ (l.tail = " words" /\ l.marker # "address")
  BY InsertedIs DEF Inserted, Misshapen
<1>3. Len(r) \in Nat /\ Len(r) # 0
  BY <1>2, EmptySeq
<1>4. SUFFICES \E i \in 1 .. Len(r) : r[i] \in Leftovers
  <2>1. ASSUME EndsWith(n, r), NEW i \in 1 .. Len(r), r[i] \in Leftovers PROVE FALSE
    <3>1. Len(n) - Len(r) + i \in 1 .. Len(n) /\ n[Len(n) - Len(r) + i] = r[i]
      BY <1>3, <2>1 DEF EndsWith
    <3> QED BY <2>1, <3>1 DEF Plain
  <2> QED BY <2>1
<1>5. ASSUME NEW s \in Seq(Text), r = Append(s, l.tail), l.tail \notin {"", "."}
      PROVE  \E i \in 1 .. Len(r) : r[i] \in Leftovers
  <2>1. /\ Len(Append(s, l.tail)) = Len(s) + 1 /\ Len(s) \in Nat
        /\ Append(s, l.tail)[Len(s) + 1] = l.tail
    BY <1>1, AppendProperties, LenProperties
  <2>2. l.tail \in Leftovers
    BY <1>1, <1>5 DEF Leftovers
  <2>3. Len(r) = Len(s) + 1 /\ r[Len(s) + 1] = l.tail
    BY <1>5, <2>1, Zenon
  <2>4. Len(s) + 1 \in 1 .. Len(r)
    BY <2>1, <2>3
  <2> QED BY <2>2, <2>3, <2>4
<1>6. ASSUME r = name, NEW i \in 1 .. m, name[i] = "*"
      PROVE  \E j \in 1 .. Len(r) : r[j] \in Leftovers
  BY <1>6 DEF Leftovers
<1>7. ASSUME name # <<>>, l.marker \in {"||", "address"}, r = name
      PROVE  \E i \in 1 .. Len(r) : r[i] \in Leftovers
  <2>1. l.marker = "address" => l.tail \in {"", ".", " words"}
    <3>1. ASSUME l.marker = "address", l.tail \notin {"", ".", " words"} PROVE FALSE
      <4>1. r = Append(name, l.tail)
        BY <1>2, <3>1 DEF RuleText
      <4>2. Len(Append(name, l.tail)) = m + 1
        BY <1>1, AppendProperties
      <4> QED BY <1>1, <1>7, <4>1, <4>2
    <3> QED BY <3>1
  <2>2. l.marker = "||" => l.tail \notin {" words", "=text"}
    BY <1>2
  <2>3. m \in 1 .. m /\ 1 \in 1 .. m
    BY <1>1, <1>7, EmptySeq
  <2>4. \/ name[m] = "*"
        \/ \E i, j \in 1 .. m : i < j /\ name[j] = "*"
        \/ name[1] = "*"
    BY <1>1, <1>2, <1>7, <2>1, <2>2 DEF WellFormed, Last
  <2> QED BY <1>6, <1>7, <2>3, <2>4
<1>8. CASE l.marker = "||"
  BY <1>2, <1>7, <1>8 DEF RuleText
<1>9. CASE l.marker = "address"
  <2>1. CASE l.tail \in {"", ".", " words"}
    BY <1>2, <1>7, <1>9, <2>1 DEF RuleText
  <2>2. CASE l.tail \notin {"", ".", " words"}
    BY <1>1, <1>2, <1>5, <1>9, <2>2 DEF RuleText
  <2> QED BY <2>1, <2>2
<1>10. CASE l.marker = "none"
  <2>1. PICK k \in 0 .. m : /\ Unstarred(name) = SubSeq(name, k + 1, m)
                            /\ name # <<>> => k < m
                            /\ \A i \in 1 .. k : name[i] = "*"
                            /\ k + 1 < m => name[k + 1] # "*"
    BY <1>1, UnstarredIs
  <2>2. /\ SubSeq(name, k + 1, m) \in Seq(Text)
        /\ Len(SubSeq(name, k + 1, m)) = IF k + 1 <= m THEN m - (k + 1) + 1 ELSE 0
        /\ \A i \in 1 .. m - (k + 1) + 1 : SubSeq(name, k + 1, m)[i] = name[(k + 1) + i - 1]
    <3>1. k + 1 \in Int /\ m \in Int /\ \A i \in k + 1 .. m : name[i] \in Text
      BY <1>1
    <3> QED BY <3>1, SubSeqProperties
  <2>3. CASE l.tail \notin {"", "."}
    <3>1. r = Append(SubSeq(name, k + 1, m), l.tail)
      BY <1>2, <1>10, <2>1, <2>3 DEF RuleText
    <3> QED BY <1>5, <2>2, <2>3, <3>1
  <2>4. CASE l.tail \in {"", "."}
    <3>1. r = SubSeq(name, k + 1, m)
      BY <1>2, <1>10, <2>1, <2>4 DEF RuleText
    <3>2. k < m /\ name # <<>>
      BY <1>1, <1>3, <2>2, <3>1, EmptySeq
    <3>3. Len(r) = m - k /\ \A i \in k + 1 .. m : r[i - k] = name[i]
      <4>1. \A i \in k + 1 .. m : i - k \in 1 .. m - (k + 1) + 1 /\ (k + 1) + (i - k) - 1 = i
        BY <1>1, <3>2
      <4>2. m - (k + 1) + 1 = m - k
        BY <1>1
      <4> QED BY <1>1, <2>2, <3>1, <3>2, <4>1, <4>2
    <3>4. name[m] = "*" \/ \E i, j \in 1 .. m : i < j /\ name[j] = "*" /\ name[i] # "*"
      BY <1>1, <1>2, <1>10, <2>4, <3>2 DEF WellFormed, Last
    <3>5. PICK j \in k + 1 .. m : name[j] = "*"
      <4>1. CASE name[m] = "*"
        BY <1>1, <3>2, <4>1
      <4>2. CASE \E i, j \in 1 .. m : i < j /\ name[j] = "*" /\ name[i] # "*"
        <5>1. PICK i \in 1 .. m, j \in 1 .. m : i < j /\ name[j] = "*" /\ name[i] # "*"
          BY <4>2
        <5>2. ~ (i <= k)
          BY <2>1, <5>1
        <5>3. j \in k + 1 .. m
          BY <1>1, <5>1, <5>2
        <5> QED BY <5>1, <5>3
      <4> QED BY <3>4, <4>1, <4>2
    <3>6. j - k \in 1 .. Len(r) /\ r[j - k] = "*"
      BY <1>1, <3>2, <3>3, <3>5
    <3> QED BY <3>6 DEF Leftovers
  <2> QED BY <2>3, <2>4
<1> QED BY <1>1, <1>8, <1>9, <1>10

\* So a line is about the plain names that are its rule or below it.
LEMMA RuleMeansLine ==
  ASSUME NEW l \in Lines, NEW n \in Seq(Text), Plain(n)
  PROVE  (\E r \in Inserted(l) : EndsWith(n, r)) <=> Covers(l, n)
<1>1. CASE WellFormed(l)
  BY <1>1, RuleOfWellFormed, WellFormedCovers
<1>2. CASE ~ WellFormed(l)
  BY <1>2, IllFormedCoversNothing DEF Covers
<1> QED BY <1>1, <1>2

\* Whether the rules of some lines match a name.
LEMMA RulesMatch ==
  ASSUME NEW lines \in SUBSET Lines, NEW n \in Seq(Text), Plain(n)
  PROVE  Matches(Rules(lines), n) <=> \E l \in lines : Covers(l, n)
<1>1. Rules(lines) \in SUBSET NonEmpty
  BY InsertedIs DEF Rules
<1>2. Matches(Rules(lines), n) <=> \E r \in Rules(lines) : EndsWith(n, r)
  BY <1>1, MatchesIs
<1>3. (\E r \in Rules(lines) : EndsWith(n, r))
        <=> \E l \in lines : \E r \in Inserted(l) : EndsWith(n, r)
  BY DEF Rules
<1> QED BY <1>2, <1>3, RuleMeansLine

-----------------------------------------------------------------------------
(* The inductive invariant                                                 *)

\* The tries hold the rules of the lines read and nothing else: what came in
\* which file, and when, leaves no trace.
FilterInv ==
    /\ read \in [block : SUBSET Lines, allow : SUBSET Lines]
    /\ blocklist = Rules(Blocks)
    /\ allowlist = Rules(Exceptions)

LEMMA RulesUnion ==
  ASSUME NEW S, NEW T
  PROVE  Rules(S \union T) = Rules(S) \union Rules(T)
BY DEF Rules

LEMMA FilterInvInit == FilterInit => FilterInv
BY DEF FilterInit, FilterInv, Rules, Blocks, Exceptions

LEMMA LoadKeeps ==
  ASSUME FilterInv, NEW content \in SUBSET Lines,
         LoadBlocklistContent(content) \/ LoadAllowlistContent(content)
  PROVE  FilterInv'
<1> DEFINE plain == {l \in content : ~ l.exception}
           marked == {l \in content : l.exception}
<1>1. CASE LoadBlocklistContent(content)
  <2>1. /\ blocklist' = blocklist \union Rules(plain)
        /\ allowlist' = allowlist \union Rules(marked)
        /\ read' = [read EXCEPT !.block = read.block \union content]
    BY <1>1 DEF LoadBlocklistContent
  <2>2. read' \in [block : SUBSET Lines, allow : SUBSET Lines]
        /\ read'.block = read.block \union content /\ read'.allow = read.allow
    BY <2>1 DEF FilterInv
  <2>3. Blocks' = Blocks \union plain /\ Exceptions' = Exceptions \union marked
    BY <2>2 DEF Blocks, Exceptions
  <2> HIDE DEF plain, marked
  <2> QED BY <2>1, <2>2, <2>3, RulesUnion DEF FilterInv
<1>2. CASE LoadAllowlistContent(content)
  <2>1. /\ blocklist' = blocklist
        /\ allowlist' = allowlist \union Rules(content)
        /\ read' = [read EXCEPT !.allow = read.allow \union content]
    BY <1>2 DEF LoadAllowlistContent
  <2>2. read' \in [block : SUBSET Lines, allow : SUBSET Lines]
        /\ read'.block = read.block /\ read'.allow = read.allow \union content
    BY <2>1 DEF FilterInv
  <2>3. Blocks' = Blocks /\ Exceptions' = Exceptions \union content
    BY <2>2 DEF Blocks, Exceptions
  <2> QED BY <2>1, <2>2, <2>3, RulesUnion DEF FilterInv
<1> QED BY <1>1, <1>2

LEMMA FilterInvNext == FilterInv /\ [FilterNext]_filterVars => FilterInv'
<1>1. FilterInv /\ UNCHANGED filterVars => FilterInv'
  BY DEF filterVars, FilterInv, Blocks, Exceptions
<1> QED BY <1>1, LoadKeeps DEF FilterNext

LEMMA FilterInvariant == FilterSpec => []FilterInv
BY FilterInvInit, FilterInvNext, PTL DEF FilterSpec

\* What the invariant gives.
LEMMA FilterInvTypes == FilterInv => FilterTypeOK
BY InsertedIs DEF FilterInv, FilterTypeOK, Rules, Blocks, Exceptions, NonEmpty, Text

LEMMA FilterInvVerdicts ==
  ASSUME NamesArePlain
  PROVE  FilterInv => VerdictsFollowTheLists
<1> SUFFICES ASSUME FilterInv, NEW n \in Names
             PROVE  /\ Evaluate(n) = "AllowListMatched" <=> \E l \in Exceptions : Covers(l, n)
                    /\ Evaluate(n) = "Blocked" <=>
                          /\ \E l \in Blocks : Covers(l, n)
                          /\ ~ \E l \in Exceptions : Covers(l, n)
  BY DEF VerdictsFollowTheLists
<1>1. n \in Seq(Text) /\ Plain(n)
  BY LinesAssumption, SeqMonotonic DEF NamesArePlain, Text
<1>2. Blocks \in SUBSET Lines /\ Exceptions \in SUBSET Lines
  BY DEF FilterInv, Blocks, Exceptions
<1>3. Matches(blocklist, n) <=> \E l \in Blocks : Covers(l, n)
  BY <1>1, <1>2, RulesMatch DEF FilterInv
<1>4. Matches(allowlist, n) <=> \E l \in Exceptions : Covers(l, n)
  BY <1>1, <1>2, RulesMatch DEF FilterInv
<1> QED BY <1>3, <1>4 DEF Evaluate

-----------------------------------------------------------------------------
(* Theorems                                                                *)

\* The tries hold names, never the empty one that would match every query.
THEOREM TriesHoldNames == FilterSpec => []FilterTypeOK
BY FilterInvariant, FilterInvTypes, PTL

\* Whatever lines the lists have and in whatever order they come, the verdict on
\* a name is what the lines read so far mean, exceptions above blocks; lines in
\* no documented form change no verdict.  A name that is asked for has no label
\* that is a star or has a mark of the rule syntax in it.
THEOREM VerdictsAreRight ==
  ASSUME NamesArePlain
  PROVE  FilterSpec => []VerdictsFollowTheLists
BY FilterInvariant, FilterInvVerdicts, PTL

\* An exception that has been read stands, and nothing but an exception unblocks
\* a name.
THEOREM ExceptionsAreKept == FilterSpec => ExceptionsStand
<1> DEFINE Stands == \A n \in Names :
                       /\ Evaluate(n) = "AllowListMatched" => Evaluate(n)' = "AllowListMatched"
                       /\ Evaluate(n) = "Blocked" => Evaluate(n)' # "Allowed"
<1>1. [FilterNext]_filterVars => [Stands]_filterVars
  <2> SUFFICES ASSUME FilterNext PROVE Stands
    OBVIOUS
  <2>1. blocklist \subseteq blocklist' /\ allowlist \subseteq allowlist'
    BY DEF FilterNext, LoadBlocklistContent, LoadAllowlistContent
  <2>2. \A n \in Names : /\ Matches(blocklist, n) => Matches(blocklist', n)
                         /\ Matches(allowlist, n) => Matches(allowlist', n)
    BY <2>1 DEF Matches
  <2> QED BY <2>2 DEF Evaluate
<1> QED BY <1>1, PTL DEF FilterSpec, ExceptionsStand
=============================================================================
