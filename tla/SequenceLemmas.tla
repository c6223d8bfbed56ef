------------------------------ MODULE SequenceLemmas -----------------------------
(***************************************************************************)
(* Taking elements out of a sequence, and sets of numbers as sequences, for *)
(* the proofs about the queue and the pages of a search.                   *)
(***************************************************************************)
EXTENDS Integers, Sequences, SequencesExt, Ascending,
        SequenceTheorems, FiniteSetTheorems, WellFoundedInduction, TLAPS

\* What is left without the i-th element.
LEMMA RemoveAtFacts ==
    ASSUME NEW S, NEW seq \in Seq(S), NEW i \in 1 .. Len(seq)
    PROVE  /\ RemoveAt(seq, i) \in Seq(S)
           /\ Len(RemoveAt(seq, i)) = Len(seq) - 1
           /\ \A j \in 1 .. Len(seq) - 1 :
                 RemoveAt(seq, i)[j] = IF j < i THEN seq[j] ELSE seq[j + 1]
<1> DEFINE a == SubSeq(seq, 1, i - 1)
           b == SubSeq(seq, i + 1, Len(seq))
<1>1. Len(seq) \in Nat /\ i \in Nat
  BY LenProperties
<1>2. /\ a \in Seq(S) /\ Len(a) = i - 1
      /\ \A j \in 1 .. i - 1 : a[j] = seq[j]
  BY <1>1, SubSeqProperties
<1>3. /\ b \in Seq(S) /\ Len(b) = Len(seq) - i
      /\ \A j \in 1 .. Len(seq) - i : b[j] = seq[i + j]
  BY <1>1, SubSeqProperties
<1>4. RemoveAt(seq, i) = a \o b
  BY DEF RemoveAt
<1> HIDE DEF a, b
<1>5. /\ a \o b \in Seq(S) /\ Len(a \o b) = Len(a) + Len(b)
      /\ \A j \in 1 .. Len(a) + Len(b) :
            (a \o b)[j] = IF j <= Len(a) THEN a[j] ELSE b[j - Len(a)]
  <2>1. a \in Seq(S) /\ b \in Seq(S)
    BY <1>2, <1>3
  <2> QED
    BY <2>1
<1>6. Len(a) + Len(b) = Len(seq) - 1
  BY <1>1, <1>2, <1>3
<1>7. ASSUME NEW j \in 1 .. Len(seq) - 1
      PROVE  RemoveAt(seq, i)[j] = IF j < i THEN seq[j] ELSE seq[j + 1]
  <2>1. CASE j < i
    BY <1>1, <1>2, <1>4, <1>5, <1>6, <2>1
  <2>2. CASE ~ (j < i)
    <3>1. j - (i - 1) \in 1 .. Len(seq) - i /\ i + (j - (i - 1)) = j + 1
      BY <1>1, <2>2
    <3>2. RemoveAt(seq, i)[j] = b[j - (i - 1)]
      BY <1>1, <1>2, <1>4, <1>5, <1>6, <2>2
    <3> QED
      BY <1>3, <2>2, <3>1, <3>2
  <2> QED
    BY <2>1, <2>2
<1> QED
  BY <1>4, <1>5, <1>6, <1>7

\* A sequence behind a first element.
LEMMA ConsFacts ==
    ASSUME NEW S, NEW seq \in Seq(S), NEW h \in S
    PROVE  Cons(h, seq) \in Seq(S) /\ Len(Cons(h, seq)) = Len(seq) + 1
<1>1. <<h>> \in Seq(S) /\ Len(<<h>>) = 1
  OBVIOUS
<1> QED
  BY <1>1 DEF Cons

LEMMA ConsElements ==
    ASSUME NEW S, NEW seq \in Seq(S), NEW h \in S
    PROVE  /\ Cons(h, seq)[1] = h
           /\ \A k \in 2 .. Len(seq) + 1 : Cons(h, seq)[k] = seq[k - 1]
<1>1. <<h>> \in Seq(S) /\ Len(<<h>>) = 1
  OBVIOUS
<1> QED
  BY <1>1 DEF Cons

LEMMA ConsRemove ==
    ASSUME NEW S, NEW seq \in Seq(S), NEW h \in S
    PROVE  /\ RemoveAt(Cons(h, seq), 1) = seq
           /\ \A k \in 1 .. Len(seq) : RemoveAt(Cons(h, seq), k + 1) = Cons(h, RemoveAt(seq, k))
<1>1. Len(seq) \in Nat
  BY LenProperties
<1>2. ASSUME NEW s \in Seq(S)
      PROVE  /\ Cons(h, s) \in Seq(S) /\ Len(Cons(h, s)) = Len(s) + 1
             /\ Cons(h, s)[1] = h
             /\ \A k \in 2 .. Len(s) + 1 : Cons(h, s)[k] = s[k - 1]
  BY ConsFacts, ConsElements
<1> DEFINE line == Cons(h, seq)
<1>3. /\ line \in Seq(S) /\ Len(line) = Len(seq) + 1 /\ line[1] = h
      /\ \A k \in 2 .. Len(seq) + 1 : line[k] = seq[k - 1]
  BY <1>2
<1> HIDE DEF line
<1>4. RemoveAt(line, 1) = seq
  <2>1. 1 \in 1 .. Len(line)
    BY <1>1, <1>3
  <2>2. /\ RemoveAt(line, 1) \in Seq(S) /\ Len(RemoveAt(line, 1)) = Len(line) - 1
        /\ \A j \in 1 .. Len(line) - 1 :
              RemoveAt(line, 1)[j] = IF j < 1 THEN line[j] ELSE line[j + 1]
    BY <1>3, <2>1, RemoveAtFacts
  <2>3. Len(RemoveAt(line, 1)) = Len(seq)
    BY <1>1, <1>3, <2>2
  <2>4. ASSUME NEW j \in 1 .. Len(seq)
        PROVE  RemoveAt(line, 1)[j] = seq[j]
    <3>1. j + 1 \in 2 .. Len(seq) + 1 /\ j \in 1 .. Len(line) - 1 /\ ~ (j < 1)
      BY <1>1, <1>3
    <3>2. line[j + 1] = seq[j]
      BY <1>1, <1>3, <3>1
    <3> QED
      BY <2>2, <3>1, <3>2
  <2> QED
    BY <2>2, <2>3, <2>4, SeqEqual
<1>5. ASSUME NEW k \in 1 .. Len(seq)
      PROVE  RemoveAt(line, k + 1) = Cons(h, RemoveAt(seq, k))
  <2> DEFINE rest == RemoveAt(seq, k)
             a == RemoveAt(line, k + 1)
             b == Cons(h, rest)
  <2>1. /\ rest \in Seq(S) /\ Len(rest) = Len(seq) - 1
        /\ \A j \in 1 .. Len(seq) - 1 : rest[j] = IF j < k THEN seq[j] ELSE seq[j + 1]
    BY RemoveAtFacts
  <2>2. k + 1 \in 1 .. Len(line)
    BY <1>1, <1>3
  <2>3. /\ a \in Seq(S) /\ Len(a) = Len(line) - 1
        /\ \A j \in 1 .. Len(line) - 1 : a[j] = IF j < k + 1 THEN line[j] ELSE line[j + 1]
    BY <1>3, <2>2, RemoveAtFacts
  <2> HIDE DEF rest, a
  <2>4. /\ b \in Seq(S) /\ Len(b) = Len(rest) + 1 /\ b[1] = h
        /\ \A j \in 2 .. Len(rest) + 1 : b[j] = rest[j - 1]
    BY <1>2, <2>1
  <2> HIDE DEF b
  <2>5. Len(a) = Len(seq) /\ Len(b) = Len(seq)
    BY <1>1, <1>3, <2>1, <2>3, <2>4
  <2>6. ASSUME NEW j \in 1 .. Len(seq)
        PROVE  a[j] = b[j]
    <3>1. CASE j = 1
      BY <1>1, <1>3, <2>3, <2>4, <3>1
    <3>2. CASE j # 1
      <4>1. j - 1 \in 1 .. Len(seq) - 1 /\ j \in 2 .. Len(seq) /\ j + 1 \in 2 .. Len(seq) + 1
        BY <1>1, <3>2
      <4>2. b[j] = IF j - 1 < k THEN seq[j - 1] ELSE seq[j]
        <5>1. b[j] = rest[j - 1]
          BY <1>1, <2>1, <2>4, <4>1
        <5> QED
          BY <1>1, <2>1, <4>1, <5>1
      <4>3. line[j] = seq[j - 1] /\ line[j + 1] = seq[j]
        BY <1>1, <1>3, <4>1
      <4>4. a[j] = IF j < k + 1 THEN line[j] ELSE line[j + 1]
        BY <1>1, <1>3, <2>3
      <4> QED
        BY <4>2, <4>3, <4>4
    <3> QED
      BY <3>1, <3>2
  <2>7. a = b
    BY <2>3, <2>4, <2>5, <2>6, SeqEqual
  <2> QED
    BY <2>7 DEF a, b, rest
<1> QED
  BY <1>4, <1>5, Zenon DEF line

\* The first of a line stays the first when another one joins its end.
LEMMA ConsAppend ==
    ASSUME NEW S, NEW seq \in Seq(S), NEW h \in S, NEW t \in S
    PROVE  Cons(h, Append(seq, t)) = Append(Cons(h, seq), t)
<1>1. /\ Cons(h, seq) \in Seq(S) /\ Len(Cons(h, seq)) = Len(seq) + 1
      /\ Cons(h, seq)[1] = h
      /\ \A k \in 2 .. Len(seq) + 1 : Cons(h, seq)[k] = seq[k - 1]
  BY ConsFacts, ConsElements
<1>2. /\ Append(seq, t) \in Seq(S) /\ Len(Append(seq, t)) = Len(seq) + 1
      /\ Append(seq, t)[Len(seq) + 1] = t /\ Len(seq) \in Nat
      /\ \A k \in 1 .. Len(seq) : Append(seq, t)[k] = seq[k]
  BY AppendProperties, LenProperties
<1> DEFINE longer == Append(seq, t)
           line == Cons(h, seq)
           a == Cons(h, longer)
           b == Append(line, t)
<1>3. /\ a \in Seq(S) /\ Len(a) = Len(seq) + 2 /\ a[1] = h
      /\ \A k \in 2 .. Len(seq) + 2 : a[k] = longer[k - 1]
  <2> HIDE DEF longer
  <2>1. longer \in Seq(S) /\ Len(longer) = Len(seq) + 1
    BY <1>2 DEF longer
  <2>2. /\ Cons(h, longer) \in Seq(S) /\ Len(Cons(h, longer)) = Len(longer) + 1
    BY <2>1, ConsFacts
  <2>3. /\ Cons(h, longer)[1] = h
        /\ \A k \in 2 .. Len(longer) + 1 : Cons(h, longer)[k] = longer[k - 1]
    BY <2>1, ConsElements
  <2> QED
    BY <1>2, <2>1, <2>2, <2>3
<1>4. /\ b \in Seq(S) /\ Len(b) = Len(seq) + 2 /\ b[Len(seq) + 2] = t
      /\ \A k \in 1 .. Len(seq) + 1 : b[k] = line[k]
  <2> HIDE DEF line
  <2>1. line \in Seq(S) /\ Len(line) = Len(seq) + 1
    BY <1>1 DEF line
  <2>2. /\ Append(line, t) \in Seq(S) /\ Len(Append(line, t)) = Len(line) + 1
        /\ Append(line, t)[Len(line) + 1] = t
        /\ \A k \in 1 .. Len(line) : Append(line, t)[k] = line[k]
    BY <2>1, AppendProperties
  <2> QED
    BY <1>2, <2>1, <2>2
<1>5. ASSUME NEW k \in 1 .. Len(seq) + 2 PROVE a[k] = b[k]
  <2> HIDE DEF a, b
  <2>1. CASE k = 1
    BY <1>1, <1>2, <1>3, <1>4, <2>1
  <2>2. CASE k # 1
    <3>1. k - 1 \in 1 .. Len(seq) + 1 /\ (k - 1) + 1 = k
      BY <1>2, <2>2
    <3>2. a[k] = longer[k - 1]
      BY <1>3, <3>1
    <3>3. CASE k - 1 = Len(seq) + 1
      BY <1>2, <1>4, <3>1, <3>2, <3>3
    <3>4. CASE k - 1 # Len(seq) + 1
      <4>1. k - 1 \in 1 .. Len(seq) /\ k \in 1 .. Len(seq) + 1
        BY <1>2, <3>1, <3>4
      <4>2. longer[k - 1] = seq[k - 1] /\ line[k] = seq[k - 1]
        BY <1>1, <1>2, <3>1, <4>1
      <4> QED
        BY <1>4, <3>2, <4>1, <4>2
    <3> QED
      BY <3>3, <3>4
  <2> QED
    BY <2>1, <2>2
<1>6. a = b
  <2> HIDE DEF a, b
  <2> QED
    BY <1>3, <1>4, <1>5, SeqEqual
<1> QED
  BY <1>6

\* What comes after the i-th element.
LEMMA SuffixFacts ==
    ASSUME NEW S, NEW seq \in Seq(S), NEW i \in 1 .. Len(seq)
    PROVE  /\ SubSeq(seq, i + 1, Len(seq)) \in Seq(S)
           /\ Len(SubSeq(seq, i + 1, Len(seq))) = Len(seq) - i
           /\ \A j \in 1 .. Len(seq) - i :
                 SubSeq(seq, i + 1, Len(seq))[j] = seq[i + j]
<1>1. Len(seq) \in Nat /\ i \in Nat
  BY LenProperties
<1> QED
  BY <1>1, SubSeqProperties

(***************************************************************************)
(* Sets of numbers in ascending order.                                     *)
(***************************************************************************)
\* A set of natural numbers has a least one.  This is the induction that the
\* proofs use: what is false of some number is false of a least one.
LEMMA LeastNumber ==
    ASSUME NEW S, S \subseteq Nat, S # {}
    PROVE  \E m \in S : \A n \in S : m <= n
<1> DEFINE R == OpToRel(<, Nat)
<1>1. IsWellFoundedOn(R, Nat)
  BY NatLessThanWellFounded
<1>2. \A n \in Nat, m \in Nat : <<n, m>> \in R <=> n < m
  BY DEF OpToRel
<1> HIDE DEF R
<1>3. PICK m \in S : \A n \in S : ~ (<<n, m>> \in R)
  BY <1>1, WFMin
<1>4. ASSUME NEW n \in S
      PROVE  m <= n
  <2>1. m \in Nat /\ n \in Nat /\ ~ (n < m)
    BY <1>2, <1>3
  <2> QED
    BY <2>1
<1> QED
  BY <1>4

\* A sequence that increases repeats nothing.
LEMMA ListingIsInjection ==
    ASSUME NEW S, S \subseteq Nat, NEW n \in Nat, NEW s \in [1 .. n -> S], Increasing(s)
    PROVE  s \in Injection(1 .. n, S)
<1>1. ASSUME NEW i \in 1 .. n, NEW j \in 1 .. n, s[i] = s[j]
      PROVE  i = j
  <2>1. s[i] \in Nat /\ ~ (s[i] < s[j]) /\ ~ (s[j] < s[i])
    <3>1. s[i] \in Nat
      OBVIOUS
    <3> QED
      BY <1>1, <3>1
  <2>2. ~ (i < j) /\ ~ (j < i)
    BY <2>1 DEF Increasing
  <2> QED
    BY <2>2
<1> QED
  BY <1>1 DEF Injection, IsInjective

\* It lists the whole of a finite set when it has as many entries.
LEMMA FullListing ==
    ASSUME NEW S, IsFiniteSet(S), NEW n \in Nat, Cardinality(S) = n,
           NEW s \in Injection(1 .. n, S)
    PROVE  \A x \in S : \E i \in 1 .. n : s[i] = x
<1>1. IsFiniteSet(1 .. n) /\ Cardinality(1 .. n) = n
  BY FS_Interval
<1>2. s \in Surjection(1 .. n, S)
  BY <1>1, FS_Injection
<1> QED
  BY <1>2 DEF Surjection

\* And it has as many when it lists the whole set.
LEMMA ListingCounts ==
    ASSUME NEW S, NEW n \in Nat, NEW s \in Injection(1 .. n, S),
           \A x \in S : \E i \in 1 .. n : s[i] = x
    PROVE  IsFiniteSet(S) /\ Cardinality(S) = n
<1>1. IsFiniteSet(1 .. n) /\ Cardinality(1 .. n) = n
  BY FS_Interval
<1>2. s \in [1 .. n -> S]
  BY DEF Injection
<1>3. s \in Surjection(1 .. n, S)
  BY <1>2 DEF Surjection
<1> QED
  BY <1>1, <1>3, FS_Surjection

\* Every finite set of numbers can be put in ascending order: a smallest one
\* that cannot would be its least element followed by one that can.
LEMMA ListingExists ==
    ASSUME NEW S, S \subseteq Nat, IsFiniteSet(S)
    PROVE  \E s \in [1 .. Cardinality(S) -> S] : Increasing(s)
<1> DEFINE Listed(T) == \E s \in [1 .. Cardinality(T) -> T] : Increasing(s)
           N == {n \in Nat : \E T \in SUBSET Nat :
                                IsFiniteSet(T) /\ Cardinality(T) = n /\ ~ Listed(T)}
<1>1. SUFFICES N = {}
  BY FS_CardinalityType
<1>2. SUFFICES ASSUME N # {}
               PROVE  FALSE
  OBVIOUS
<1>3. PICK n \in N : \A k \in N : n <= k
  BY <1>2, LeastNumber
<1>4. PICK T \in SUBSET Nat : IsFiniteSet(T) /\ Cardinality(T) = n /\ ~ Listed(T)
  BY <1>3
<1>5. T # {}
  <2>1. ASSUME T = {}
        PROVE  FALSE
    <3>1. Cardinality(T) = 0
      BY <2>1, FS_EmptySet
    <3>2. [i \in 1 .. 0 |-> i] \in [1 .. 0 -> T] /\ Increasing([i \in 1 .. 0 |-> i])
      BY DEF Increasing
    <3> QED
      BY <1>4, <3>1, <3>2
  <2> QED
    BY <2>1
<1>6. PICK m \in T : \A k \in T : m <= k
  BY <1>5, LeastNumber
<1>7. IsFiniteSet(T \ {m}) /\ Cardinality(T \ {m}) = n - 1 /\ n \in Nat /\ n - 1 \in Nat
  BY <1>4, <1>5, FS_RemoveElement, FS_CardinalityType, FS_EmptySet
<1>8. PICK s \in [1 .. n - 1 -> T \ {m}] : Increasing(s)
  <2>1. n - 1 \notin N
    BY <1>3, <1>7
  <2> QED
    BY <1>7, <2>1
<1> DEFINE t == [i \in 1 .. n |-> IF i = 1 THEN m ELSE s[i - 1]]
<1>9. t \in [1 .. n -> T]
  BY <1>7, <1>8
<1>10. Increasing(t)
  <2>1. ASSUME NEW i \in 1 .. n, NEW j \in 1 .. n, i < j
        PROVE  t[i] < t[j]
    <3>1. j - 1 \in 1 .. n - 1 /\ t[j] = s[j - 1]
      BY <1>7, <2>1
    <3>2. CASE i = 1
      <4>1. s[j - 1] \in T \ {m}
        BY <1>8, <3>1
      <4>2. m \in Nat /\ s[j - 1] \in Nat /\ m <= s[j - 1] /\ m # s[j - 1]
        BY <1>6, <4>1
      <4> QED
        BY <3>1, <3>2, <4>2
    <3>3. CASE i # 1
      <4>1. i - 1 \in 1 .. n - 1 /\ t[i] = s[i - 1] /\ i - 1 < j - 1
        BY <1>7, <2>1, <3>3
      <4> QED
        BY <1>8, <3>1, <4>1 DEF Increasing
    <3> QED
      BY <3>2, <3>3
  <2>2. DOMAIN t = 1 .. n
    OBVIOUS
  <2> QED
    BY <2>1, <2>2 DEF Increasing
<1> QED
  BY <1>4, <1>9, <1>10

\* s lists the set S of numbers, all n of them, in ascending order.
Lists(s, n, S) ==
    /\ n \in Nat /\ s \in [1 .. n -> S] /\ Increasing(s)
    /\ \A x \in S : \E i \in 1 .. n : s[i] = x

\* Ascending(S) lists S.
LEMMA AscendingLists ==
    ASSUME NEW S, S \subseteq Nat, IsFiniteSet(S)
    PROVE  Lists(Ascending(S), Cardinality(S), S)
<1> DEFINE a == Ascending(S)
           n == Cardinality(S)
<1>1. n \in Nat
  BY FS_CardinalityType
<1>2. a \in [1 .. n -> S] /\ Increasing(a)
  BY ListingExists DEF Ascending
<1>3. Cardinality(S) = n
  OBVIOUS
<1> HIDE DEF a, n
<1>4. \A x \in S : \E i \in 1 .. n : a[i] = x
  <2>1. a \in Injection(1 .. n, S)
    BY <1>1, <1>2, ListingIsInjection
  <2> QED
    BY <1>1, <1>3, <2>1, FullListing
<1>5. Lists(a, n, S)
  BY <1>1, <1>2, <1>4 DEF Lists
<1> QED
  BY <1>5 DEF a, n

LEMMA AscendingFacts ==
    ASSUME NEW S, S \subseteq Nat, IsFiniteSet(S)
    PROVE  /\ Cardinality(S) \in Nat
           /\ Ascending(S) \in [1 .. Cardinality(S) -> S]
           /\ Increasing(Ascending(S))
           /\ \A x \in S : \E i \in 1 .. Cardinality(S) : Ascending(S)[i] = x
BY AscendingLists DEF Lists

SameBefore(d, s, t) == \A i \in 1 .. d - 1 : s[i] = t[i]

\* Two sequences that list the same set: neither falls behind.
LEMMA ListingNotBehind ==
    ASSUME NEW S, S \subseteq Nat, NEW n, NEW s, Lists(s, n, S), NEW t, Lists(t, n, S),
           NEW d \in 1 .. n, SameBefore(d, s, t)
    PROVE  ~ (s[d] < t[d])
<1>1. SUFFICES ASSUME s[d] < t[d]
               PROVE  FALSE
  OBVIOUS
<1>2. /\ n \in Nat /\ s \in [1 .. n -> S] /\ Increasing(s)
      /\ t \in [1 .. n -> S] /\ Increasing(t)
  BY DEF Lists
<1>3. PICK i \in 1 .. n : t[i] = s[d]
  BY <1>2 DEF Lists
<1>4. CASE i < d
  <2>1. s[i] = s[d]
    BY <1>2, <1>3, <1>4 DEF SameBefore
  <2>2. s[i] < s[d] /\ s[i] \in Nat
    BY <1>2, <1>4 DEF Increasing
  <2> QED
    BY <2>1, <2>2
<1>5. CASE ~ (i < d)
  <2>1. i = d \/ t[d] < t[i]
    BY <1>2, <1>5 DEF Increasing
  <2>2. s[d] \in Nat /\ t[d] \in Nat /\ t[i] \in Nat
    BY <1>2
  <2> QED
    BY <1>1, <1>3, <2>1, <2>2
<1> QED
  BY <1>4, <1>5

\* There is no other: whatever lists S is Ascending(S).
LEMMA AscendingIs ==
    ASSUME NEW S, S \subseteq Nat, NEW n, NEW s, Lists(s, n, S)
    PROVE  IsFiniteSet(S) /\ Cardinality(S) = n /\ Ascending(S) = s
<1>1. IsFiniteSet(S) /\ Cardinality(S) = n
  <2>1. n \in Nat /\ s \in [1 .. n -> S] /\ Increasing(s)
    BY DEF Lists
  <2>2. s \in Injection(1 .. n, S)
    BY <2>1, ListingIsInjection
  <2>3. \A x \in S : \E i \in 1 .. n : s[i] = x
    BY DEF Lists
  <2> QED
    BY <2>1, <2>2, <2>3, ListingCounts
<1> DEFINE a == Ascending(S)
<1>2. Lists(a, n, S)
  BY <1>1, AscendingLists
<1> HIDE DEF a
<1>3. n \in Nat /\ s \in [1 .. n -> S] /\ a \in [1 .. n -> S]
  BY <1>2 DEF Lists
<1> DEFINE D == {i \in 1 .. n : s[i] # a[i]}
<1>4. SUFFICES ASSUME D # {}
               PROVE  FALSE
  BY <1>1, <1>3 DEF a
<1>5. PICK d \in D : \A i \in D : d <= i
  <2>1. D \subseteq Nat
    OBVIOUS
  <2> HIDE DEF D
  <2> QED
    BY <1>4, <2>1, LeastNumber
<1>6. d \in 1 .. n /\ s[d] # a[d] /\ SameBefore(d, s, a) /\ SameBefore(d, a, s)
  BY <1>3, <1>5 DEF SameBefore
<1> HIDE DEF D
<1>7. ~ (s[d] < a[d])
  BY <1>2, <1>6, ListingNotBehind
<1>8. ~ (a[d] < s[d])
  BY <1>2, <1>6, ListingNotBehind
<1>9. s[d] \in Nat /\ a[d] \in Nat
  BY <1>3, <1>6
<1> QED
  BY <1>6, <1>7, <1>8, <1>9
================================================================================
