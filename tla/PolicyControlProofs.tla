-------------------------- MODULE PolicyControlProofs --------------------------
(***************************************************************************)
(* Theorems about PolicyControl, for any model, records, profiles and      *)
(* changes.                                                                *)
(***************************************************************************)
EXTENDS PolicyControl, SequenceLemmas, FiniteSetTheorems, TLAPS

USE FieldsAssumption, RecordsAssumption

(***************************************************************************)
(* What a policy means: the rules of profile.py against what was granted.  *)
(***************************************************************************)
\* A policy is found exactly for what was granted.
LEMMA PolicyIffGranted ==
    ASSUME NEW c, Allowable(c), NEW op \in Op
    PROVE  op \in Granted(c) <=> ModelPolicy(c, op) # {}
<1>1. ModelPolicy(c, op) # {} <=> Right(op) \in c.rights /\ GetPolicy(c, op) # {}
  BY DEF ModelPolicy
<1>2. CASE Active(c) # {}
  <2>1. GetPolicy(c, op) # {} <=> \E e \in Active(c) : op \in OfExplicit(c, e).allows
    BY <1>2 DEF GetPolicy
  <2>2. \A e \in Active(c) : op \in OfExplicit(c, e).allows
                             <=> op \in e.allows /\ (op = "aggregate" => c.aggregate)
    BY DEF OfExplicit
  <2>3. ~ Ungoverned(c)
    BY <1>2 DEF Ungoverned
  <2> QED
    BY <1>1, <2>1, <2>2, <2>3 DEF Granted
<1>3. CASE Active(c) = {} /\ c.kind \notin CoveredKinds
  <2>1. GetPolicy(c, op) = {} /\ ~ Ungoverned(c)
    BY <1>3 DEF GetPolicy, Ungoverned
  <2> QED
    BY <1>1, <1>3, <2>1 DEF Granted
<1>4. CASE Active(c) = {} /\ c.kind \in CoveredKinds
  <2>1. GetPolicy(c, op) # {} <=> op \in GlobalOps(c)
    <3>1. GetPolicy(c, op) = {p \in {GlobalPolicy(c)} : op \in p.allows}
      BY <1>4 DEF GetPolicy
    <3>2. GlobalPolicy(c).allows = GlobalOps(c)
      BY DEF GlobalPolicy
    <3> QED
      BY <3>1, <3>2
  <2>2. c.default \in {"explicit", "read", "write"}
    BY DEF Allowable
  <2>3. Ungoverned(c)
    BY <1>4 DEF Ungoverned
  <2>4. op \in {"read", "create", "write", "unlink", "aggregate"}
    BY DEF Op
  <2>5. op \in Granted(c) <=>
          /\ Right(op) \in c.rights
          /\ op = "aggregate" => c.aggregate
          /\ \/ op \in {"read", "aggregate"} /\ c.default # "explicit"
             \/ /\ c.kind # "readonly"
                /\ \/ op = "write" /\ c.default = "write"
                   \/ op = "create" /\ c.globalCreate
                   \/ op = "unlink" /\ c.globalUnlink
    BY <1>4, <2>3 DEF Granted
  <2>6. CASE op = "read"
    BY <1>1, <2>1, <2>2, <2>5, <2>6 DEF GlobalOps
  <2>7. CASE op = "create"
    BY <1>1, <2>1, <2>2, <2>5, <2>7 DEF GlobalOps
  <2>8. CASE op = "write"
    BY <1>1, <2>1, <2>2, <2>5, <2>8 DEF GlobalOps
  <2>9. CASE op = "unlink"
    BY <1>1, <2>1, <2>2, <2>5, <2>9 DEF GlobalOps
  <2>10. CASE op = "aggregate"
    BY <1>1, <2>1, <2>2, <2>5, <2>10 DEF GlobalOps
  <2> QED
    BY <2>4, <2>6, <2>7, <2>8, <2>9, <2>10
<1> QED
  BY <1>2, <1>3, <1>4

\* What a policy lets see and write is in the scope, shown and changeable.
LEMMA PolicyWithin ==
    ASSUME NEW c, Allowable(c), NEW op, NEW p \in ModelPolicy(c, op)
    PROVE  /\ p.domain = Scope(c)
           /\ p.readable \subseteq Shown(c)
           /\ p.writable \ (Magic \cup ReadonlyField) = Changeable(c)
<1>1. p \in GetPolicy(c, op)
  BY DEF ModelPolicy
<1>2. CASE Active(c) # {}
  <2>1. PICK e \in Active(c) : p = OfExplicit(c, e)
    BY <1>1, <1>2 DEF GetPolicy
  <2>2. ~ Ungoverned(c)
    BY <1>2 DEF Ungoverned
  <2>3. /\ e.readFields \subseteq Field /\ e.writeFields \subseteq Field
        /\ \A d \in Active(c) : d = e
    BY DEF Active, Allowable, AllowablePolicy
  <2>4. /\ p.domain = e.domain
        /\ p.readable = {f \in e.readFields \cup Always : f \in Binary => e.binaryRead}
        /\ p.writable = {f \in e.writeFields : f \in Binary => e.binaryWrite}
    BY <2>1 DEF OfExplicit
  <2>5. p.domain = Scope(c)
    <3>1. Active(c) = {e}
      BY <2>3
    <3> QED
      BY <2>2, <2>4, <3>1 DEF Scope
  <2>6. p.readable \subseteq Shown(c)
    BY <2>3, <2>4 DEF Shown
  <2>7. p.writable \ (Magic \cup ReadonlyField) = Changeable(c)
    BY <2>2, <2>3, <2>4 DEF Changeable
  <2> QED
    BY <2>5, <2>6, <2>7
<1>3. CASE Active(c) = {}
  <2>1. p = GlobalPolicy(c) /\ Ungoverned(c)
    BY <1>1, <1>3 DEF GetPolicy, Ungoverned
  <2>2. /\ p.domain = Value
        /\ p.readable = Field \ (Sensitive \cup Binary)
        /\ p.writable = Field \ (Sensitive \cup Binary \cup Magic \cup ReadonlyField)
    BY <2>1 DEF GlobalPolicy
  <2> QED
    BY <1>3, <2>1, <2>2 DEF Scope, Shown, Changeable
<1> QED
  BY <1>2, <1>3

(***************************************************************************)
(* What reads reveal.                                                      *)
(***************************************************************************)
\* There is at most one policy for an operation, whatever the operation, and
\* its limit is one record at least and the profile's at most.
LEMMA OnePolicy ==
    ASSUME NEW c, Allowable(c), NEW op, NEW p \in ModelPolicy(c, op)
    PROVE  ModelPolicy(c, op) = {p} /\ p.limit \in 1 .. c.maxRecords /\ c.maxRecords \in Nat
<1>1. p \in GetPolicy(c, op) /\ c.maxRecords \in Nat \ {0}
  BY DEF ModelPolicy, Allowable
<1>2. CASE Active(c) # {}
  <2>1. PICK e : Active(c) = {e} /\ e.maxRecords \in Nat
    BY <1>2 DEF Active, Allowable, AllowablePolicy
  <2>2. GetPolicy(c, op) \subseteq {OfExplicit(c, e)}
    BY <1>2, <2>1 DEF GetPolicy
  <2>3. p.limit = RecordLimit(c, e.maxRecords)
    BY <1>1, <2>2 DEF OfExplicit
  <2> QED
    BY <1>1, <2>1, <2>2, <2>3 DEF ModelPolicy, RecordLimit, Least
<1>3. CASE Active(c) = {}
  <2>1. GetPolicy(c, op) \subseteq {GlobalPolicy(c)}
    BY <1>3 DEF GetPolicy
  <2>2. p.limit = c.maxRecords
    BY <1>1, <2>1 DEF GlobalPolicy
  <2> QED
    BY <1>1, <2>1, <2>2 DEF ModelPolicy
<1> QED
  BY <1>2, <1>3

\* As many numbers as the last.
LEMMA UpTo ==
    ASSUME NEW n \in Nat
    PROVE  IsFiniteSet(1 .. n) /\ Cardinality(1 .. n) = n
BY FS_Interval

\* What a search can find is in the policy, and there are finitely many.
LEMMA MatchingFacts ==
    ASSUME NEW p, NEW rs, NEW d
    PROVE  /\ Matching(p, rs, d) \subseteq Governed(p, rs) /\ Governed(p, rs) \subseteq Record
           /\ IsFiniteSet(Matching(p, rs, d))
           /\ Cardinality(Matching(p, rs, d)) <= Cardinality(Record)
           /\ Cardinality(Matching(p, rs, d)) \in Nat /\ Cardinality(Record) \in Nat
<1>1. /\ Matching(p, rs, d) \subseteq Governed(p, rs) /\ Governed(p, rs) \subseteq Record
      /\ Matching(p, rs, d) \in SUBSET Record
  BY DEF Matching, Governed
<1> QED
  BY <1>1, FS_Subset, FS_CardinalityType

\* An arrangement lists every record once, by keys that do not decrease.
LEMMA ArrangementFacts ==
    ASSUME NEW o, NEW rs, NEW S, IsFiniteSet(S), NEW a \in Arrangements(o, rs, S)
    PROVE  LET total == Cardinality(S) IN
           /\ total \in Nat /\ a \in Injection(1 .. total, S) /\ a \in [1 .. total -> S]
           /\ \A r \in S : \E m \in 1 .. total : a[m] = r
           /\ \A i, j \in 1 .. total : a[i] = a[j] => i = j
           /\ \A i, j \in 1 .. total :
                i < j => o.key[<<a[i], rs[a[i]]>>] <= o.key[<<a[j], rs[a[j]]>>]
<1> DEFINE total == Cardinality(S)
<1>1. total \in Nat
  BY FS_CardinalityType
<1>2. a \in Injection(1 .. total, S)
  BY DEF Arrangements
<1>3. a \in [1 .. total -> S] /\ \A i, j \in 1 .. total : a[i] = a[j] => i = j
  BY <1>2 DEF Injection, IsInjective
<1>4. \A i, j \in 1 .. total : i < j => o.key[<<a[i], rs[a[i]]>>] <= o.key[<<a[j], rs[a[j]]>>]
  BY <1>3 DEF Arrangements
<1>5. Cardinality(S) = total
  OBVIOUS
<1> HIDE DEF total
<1>6. \A r \in S : \E m \in 1 .. total : a[m] = r
  BY <1>1, <1>2, <1>5, FullListing
<1> QED
  BY <1>1, <1>2, <1>3, <1>4, <1>6 DEF total

\* A page has the entries of the list from its offset on, as many as there are or
\* as it holds, and says whether there are more.
IsPage(page, S, total, all, offset, n) ==
    /\ page.ids \in Seq(S)
    /\ Len(page.ids) <= n
    /\ \A j \in 1 .. Len(page.ids) : offset + j <= total /\ page.ids[j] = all[offset + j]
    /\ \A j \in 1 .. n : offset + j <= total => j \in 1 .. Len(page.ids)
    /\ page.more <=> total > offset + n

LEMMA PageFacts ==
    ASSUME NEW S, NEW total \in Nat, NEW all \in [1 .. total -> S],
           NEW offset \in Nat, NEW n \in Nat
    PROVE  IsPage(Page(all, offset, n), S, total, all, offset, n)
<1> DEFINE end == Least(offset + n + 1, Len(all))
           found == SubSeq(all, offset + 1, end)
           last == Least(n, Len(found))
           ids == SubSeq(found, 1, last)
<1>1. all \in Seq(S) /\ Len(all) = total
  OBVIOUS
<1>2. Page(all, offset, n) = [ids |-> ids, more |-> Len(found) > n]
  BY DEF Page
<1>3. end \in Nat /\ end <= total /\ (offset + n + 1 <= total => end = offset + n + 1)
      /\ (~ (offset + n + 1 <= total) => end = total)
  BY <1>1 DEF Least
<1> HIDE DEF end
<1>4. /\ found \in Seq(S)
      /\ Len(found) = IF offset + 1 <= end THEN end - offset ELSE 0
      /\ \A i \in 1 .. Len(found) : found[i] = all[offset + i]
  <2>1. \A i \in offset + 1 .. end : all[i] \in S
    BY <1>3
  <2>2. offset + 1 \in Int /\ end \in Int
    BY <1>3
  <2>3. /\ found \in Seq(S)
        /\ Len(found) = IF offset + 1 <= end THEN end - (offset + 1) + 1 ELSE 0
        /\ \A i \in 1 .. end - (offset + 1) + 1 : found[i] = all[offset + 1 + i - 1]
    BY <2>1, <2>2, SubSeqProperties
  <2> HIDE DEF found
  <2>4. end - (offset + 1) + 1 = end - offset
    BY <1>3
  <2>5. Len(found) = IF offset + 1 <= end THEN end - offset ELSE 0
    BY <2>3, <2>4
  <2>6. ASSUME NEW i \in 1 .. Len(found)
        PROVE  found[i] = all[offset + i]
    <3>1. i \in 1 .. end - (offset + 1) + 1 /\ offset + 1 + i - 1 = offset + i
      BY <1>3, <2>4, <2>5
    <3> QED
      BY <2>3, <3>1
  <2> QED
    BY <2>3, <2>5, <2>6
<1> HIDE DEF found
<1>5. /\ Len(found) \in Nat /\ last \in Nat /\ last <= n /\ last <= Len(found)
      /\ last = n \/ last = Len(found)
  BY <1>4 DEF Least
<1> HIDE DEF last
<1>6. /\ ids \in Seq(S) /\ Len(ids) = last
      /\ \A i \in 1 .. last : ids[i] = all[offset + i]
  <2>1. \A i \in 1 .. last : found[i] \in S
    BY <1>4, <1>5
  <2>2. /\ ids \in Seq(S)
        /\ Len(ids) = IF 1 <= last THEN last - 1 + 1 ELSE 0
        /\ \A i \in 1 .. last - 1 + 1 : ids[i] = found[1 + i - 1]
    BY <1>5, <2>1, SubSeqProperties
  <2> HIDE DEF ids
  <2>3. last - 1 + 1 = last /\ Len(ids) = last
    BY <1>5, <2>2
  <2>4. ASSUME NEW i \in 1 .. last
        PROVE  ids[i] = all[offset + i]
    <3>1. i \in 1 .. Len(found) /\ 1 + i - 1 = i
      BY <1>5
    <3> QED
      BY <1>4, <2>2, <2>3, <3>1
  <2> QED
    BY <2>2, <2>3, <2>4
<1> HIDE DEF ids
<1>7. Len(found) > n <=> total > offset + n
  BY <1>3, <1>4
<1>8. \A j \in 1 .. last : offset + j <= total
  BY <1>3, <1>4, <1>5
<1>9. \A j \in 1 .. n : offset + j <= total => j \in 1 .. last
  BY <1>3, <1>4, <1>5
<1> DEFINE page == Page(all, offset, n)
<1>10. page.ids = ids /\ page.more = (Len(found) > n)
  BY <1>2
<1> HIDE DEF page
<1>11. /\ page.ids \in Seq(S) /\ Len(page.ids) <= n
       /\ \A j \in 1 .. Len(page.ids) : offset + j <= total /\ page.ids[j] = all[offset + j]
       /\ \A j \in 1 .. n : offset + j <= total => j \in 1 .. Len(page.ids)
  BY <1>5, <1>6, <1>8, <1>9, <1>10
<1>12. page.more <=> total > offset + n
  BY <1>7, <1>10
<1> QED
  BY <1>11, <1>12, Zenon DEF page, IsPage

\* Pages of n entries follow one another: no entry is on two of them, and every
\* entry is on one.
LEMMA PagesApart ==
    ASSUME NEW n \in Nat, NEW i \in Nat, NEW j \in Nat, i < j
    PROVE  i * n + n <= j * n
<1>1. PICK d \in Nat : j = i + 1 + d
  <2>1. j - i - 1 \in Nat /\ j = i + 1 + (j - i - 1)
    OBVIOUS
  <2> QED
    BY <2>1
<1>2. j * n = i * n + n + d * n
  BY <1>1
<1>3. {i * n, j * n, d * n} \subseteq Nat
  OBVIOUS
<1> QED
  BY <1>2, <1>3

LEMMA PageOf ==
    ASSUME NEW n \in Nat \ {0}, NEW m \in Nat \ {0}
    PROVE  \E i \in Nat : i * n < m /\ m <= i * n + n /\ i < m
<1> DEFINE S == {i \in Nat : m <= i * n + n}
<1>1. m \in S
  <2>1. m * n >= m /\ m * n \in Nat
    OBVIOUS
  <2> QED
    BY <2>1
<1>2. PICK i \in S : \A j \in S : i <= j
  <2>1. S # {} /\ S \subseteq Nat
    BY <1>1
  <2> HIDE DEF S
  <2> QED
    BY <2>1, LeastNumber
<1>3. i \in Nat /\ m <= i * n + n /\ i * n \in Nat
  BY <1>2
<1>4. i * n < m
  <2>1. CASE i = 0
    BY <2>1
  <2>2. CASE i # 0
    <3>1. i - 1 \in Nat /\ ~ (i <= i - 1)
      BY <1>3, <2>2
    <3>2. i - 1 \notin S
      BY <1>2, <3>1
    <3>3. (i - 1) * n + n < m
      BY <3>1, <3>2
    <3>4. (i - 1) * n + n = i * n
      BY <1>3
    <3> QED
      BY <3>3, <3>4
  <2> QED
    BY <2>1, <2>2
<1>5. i <= i * n
  BY <1>3
<1> QED
  BY <1>3, <1>4, <1>5

\* A record that ties with no other has its place in every arrangement.
LEMMA UntiedPlace ==
    ASSUME NEW o, NEW rs, NEW S, IsFiniteSet(S),
           \A s \in S : o.key[<<s, rs[s]>>] \in Int,
           NEW a \in Arrangements(o, rs, S), NEW m \in 1 .. Cardinality(S),
           \A s \in S \ {a[m]} : o.key[<<s, rs[s]>>] # o.key[<<a[m], rs[a[m]]>>]
    PROVE  m = Cardinality({s \in S : o.key[<<s, rs[s]>>] < o.key[<<a[m], rs[a[m]]>>]}) + 1
<1> DEFINE total == Cardinality(S)
           Key(r) == o.key[<<r, rs[r]>>]
           T == {s \in S : Key(s) < Key(a[m])}
           f == [i \in 1 .. m - 1 |-> a[i]]
<1>1. /\ total \in Nat /\ a \in [1 .. total -> S]
      /\ \A r \in S : \E k \in 1 .. total : a[k] = r
      /\ \A i, j \in 1 .. total : a[i] = a[j] => i = j
      /\ \A i, j \in 1 .. total : i < j => Key(a[i]) <= Key(a[j])
  BY ArrangementFacts
<1>2. \A s \in S : Key(s) \in Int
  OBVIOUS
<1>3. \A s \in S : s # a[m] => Key(s) # Key(a[m])
  OBVIOUS
<1>4. m \in 1 .. total
  OBVIOUS
<1> HIDE DEF total, Key
<1>5. ASSUME NEW i \in 1 .. m - 1
      PROVE  a[i] \in T
  <2>1. i \in 1 .. total /\ i < m /\ i # m
    BY <1>1, <1>4
  <2>2. a[i] \in S /\ a[i] # a[m] /\ Key(a[i]) <= Key(a[m])
    BY <1>1, <1>4, <2>1
  <2> QED
    BY <1>1, <1>2, <1>3, <1>4, <2>2
<1>6. ASSUME NEW s \in T
      PROVE  \E i \in 1 .. m - 1 : a[i] = s
  <2>1. PICK k \in 1 .. total : a[k] = s
    BY <1>1
  <2>2. ~ (m <= k)
    <3>1. CASE m = k
      BY <1>2, <2>1, <3>1
    <3>2. CASE m < k
      <4>1. Key(a[m]) <= Key(s)
        BY <1>1, <1>4, <2>1, <3>2
      <4>2. Key(a[m]) \in Int /\ Key(s) \in Int
        BY <1>1, <1>2, <1>4
      <4> QED
        BY <4>1, <4>2
    <3> QED
      BY <1>1, <1>4, <3>1, <3>2
  <2> QED
    BY <1>1, <1>4, <2>1, <2>2
<1> HIDE DEF T
<1>7. f \in Injection(1 .. m - 1, T)
  <2>1. f \in [1 .. m - 1 -> T]
    BY <1>5
  <2>2. \A i, j \in 1 .. m - 1 : f[i] = f[j] => i = j
    BY <1>1, <1>4
  <2> QED
    BY <2>1, <2>2 DEF Injection, IsInjective
<1>8. \A s \in T : \E i \in 1 .. m - 1 : f[i] = s
  BY <1>6
<1>9. m - 1 \in Nat
  BY <1>1, <1>4
<1> HIDE DEF f
<1>10. Cardinality(T) = m - 1
  BY <1>7, <1>8, <1>9, ListingCounts
<1>11. m = Cardinality(T) + 1
  BY <1>1, <1>4, <1>10
<1> QED
  BY <1>11 DEF T, Key

\* A client that follows pages of n entries, each of some arrangement of S in the
\* order o, is shown what PagesAreComplete says.
LEMMA Following ==
    ASSUME NEW q, NEW o, Sorting(q) = {o}, NEW n \in Nat \ {0}, NEW K \in Nat,
           NEW S, IsFiniteSet(S), Cardinality(S) <= K,
           \A s \in S : o.key[<<s, records[s]>>] \in Int,
           NEW page, DOMAIN page = {i \in 0 .. K : i * n <= MaxOffset},
           \A i \in DOMAIN page :
               \E a \in Arrangements(o, records, S) : page[i] = Page(a, i * n, n)
    PROVE  FollowedWell(q, n, S, page)
<1> DEFINE total == Cardinality(S)
           asked == DOMAIN page
           followed == {i \in DOMAIN page : \A j \in 0 .. i - 1 : page[j].more}
           rows == {x \in followed \X (1 .. n) : x[2] \in DOMAIN page[x[1]].ids}
           Entry(x) == page[x[1]].ids[x[2]]
           Key(r) == o.key[<<r, records[r]>>]
           Tied(r) == \E w \in Sorting(q), s \in S \ {r} :
                         w.key[<<s, records[s]>>] = w.key[<<r, records[r]>>]
           Place(r) == Cardinality({s \in S : Key(s) < Key(r)}) + 1
           At(x) == x[1] * n + x[2]
           ends == \E i \in followed : ~ page[i].more
           A == Arrangements(o, records, S)
           Well == /\ \A i \in followed : Len(page[i].ids) <= n
                   /\ \A x \in rows : Entry(x) \in S
                   /\ \A x, y \in rows :
                        Entry(x) = Entry(y) /\ x # y => x[1] # y[1] /\ Tied(Entry(x))
                   /\ IF ends
                      THEN /\ Cardinality(rows) = total
                           /\ \A r \in S : Tied(r) \/ \E x \in rows : Entry(x) = r
                      ELSE MaxOffset < Cardinality(rows) /\ Cardinality(rows) < total
<1> SUFFICES Well
  BY Zenon DEF FollowedWell
<1>1. total \in Nat /\ total <= K /\ MaxOffset \in Nat
  BY FS_CardinalityType, LimitsAssumption
<1>2. ASSUME NEW a \in A
      PROVE  /\ a \in [1 .. total -> S]
             /\ \A r \in S : \E m \in 1 .. total : a[m] = r
             /\ \A i, j \in 1 .. total : a[i] = a[j] => i = j
             /\ \A m \in 1 .. total : ~ Tied(a[m]) => m = Place(a[m])
  <2>1. /\ a \in [1 .. total -> S]
        /\ \A r \in S : \E m \in 1 .. total : a[m] = r
        /\ \A i, j \in 1 .. total : a[i] = a[j] => i = j
    BY ArrangementFacts
  <2>2. ASSUME NEW m \in 1 .. total, ~ Tied(a[m])
        PROVE  m = Place(a[m])
    <3>1. \A s \in S \ {a[m]} : o.key[<<s, records[s]>>] # o.key[<<a[m], records[a[m]]>>]
      BY <2>2
    <3> QED
      BY <3>1, UntiedPlace
  <2> QED
    BY <2>1, <2>2
<1>3. ASSUME NEW i \in asked
      PROVE  /\ i \in 0 .. K /\ i \in Nat /\ i * n \in Nat /\ i * n <= MaxOffset
             /\ page[i].more <=> total > i * n + n
             /\ Len(page[i].ids) \in Nat /\ Len(page[i].ids) <= n
             /\ DOMAIN page[i].ids = 1 .. Len(page[i].ids)
             /\ \A j \in 1 .. n : j \in 1 .. Len(page[i].ids) <=> i * n + j <= total
             /\ \E a \in A : \A j \in 1 .. Len(page[i].ids) :
                    i * n + j \in 1 .. total /\ page[i].ids[j] = a[i * n + j]
  <2>1. i \in 0 .. K /\ i \in Nat /\ i * n \in Nat /\ i * n <= MaxOffset
    OBVIOUS
  <2>2. PICK a \in A : page[i] = Page(a, i * n, n)
    OBVIOUS
  <2> DEFINE ids == page[i].ids
  <2> HIDE DEF A, total
  <2>3. IsPage(page[i], S, total, a, i * n, n)
    <3>1. n \in Nat /\ a \in [1 .. total -> S]
      BY <1>2
    <3>2. IsPage(Page(a, i * n, n), S, total, a, i * n, n)
      BY <1>1, <2>1, <3>1, PageFacts
    <3> QED
      BY <2>2, <3>2
  <2>4. /\ ids \in Seq(S) /\ Len(ids) <= n
        /\ \A j \in 1 .. Len(ids) : i * n + j <= total /\ ids[j] = a[i * n + j]
        /\ \A j \in 1 .. n : i * n + j <= total => j \in 1 .. Len(ids)
        /\ page[i].more <=> total > i * n + n
    BY <2>3 DEF IsPage
  <2> HIDE DEF ids
  <2>5. Len(ids) \in Nat /\ DOMAIN ids = 1 .. Len(ids)
    BY <2>4
  <2>6. \A j \in 1 .. n : j \in 1 .. Len(ids) <=> i * n + j <= total
    BY <2>4
  <2>7. \A j \in 1 .. Len(ids) : i * n + j \in 1 .. total /\ ids[j] = a[i * n + j]
    BY <1>1, <2>1, <2>4, <2>5
  <2> QED
    BY <2>1, <2>4, <2>5, <2>6, <2>7 DEF ids
<1>4. asked = {i \in 0 .. K : i * n <= MaxOffset} /\ followed \subseteq asked
  OBVIOUS
<1>5. \A i \in followed : \A j \in 0 .. i - 1 : page[j].more
  OBVIOUS
<1>6. \A i \in asked : (\A j \in 0 .. i - 1 : page[j].more) => i \in followed
  OBVIOUS
<1> HIDE DEF total, Tied, Place, A, asked, followed
\* Where an entry is among all.
<1>7. ASSUME NEW x \in rows
      PROVE  /\ x = <<x[1], x[2]>> /\ x[1] \in followed /\ x[1] \in asked /\ x[2] \in 1 .. n
             /\ At(x) \in 1 .. total
             /\ \E a \in A : Entry(x) = a[At(x)]
  <2>1. x = <<x[1], x[2]>> /\ x[1] \in followed /\ x[2] \in 1 .. n /\ x[2] \in DOMAIN page[x[1]].ids
    OBVIOUS
  <2>2. x[1] \in asked
    BY <1>4, <2>1
  <2>3. x[2] \in 1 .. Len(page[x[1]].ids)
    BY <1>3, <2>1, <2>2
  <2>4. PICK a \in A : \A j \in 1 .. Len(page[x[1]].ids) :
                          x[1] * n + j \in 1 .. total /\ page[x[1]].ids[j] = a[x[1] * n + j]
    BY <1>3, <2>2
  <2>5. At(x) \in 1 .. total /\ Entry(x) = a[At(x)]
    BY <2>3, <2>4
  <2> QED
    BY <2>1, <2>2, <2>5
<1>8. ASSUME NEW i \in followed, NEW m \in 1 .. total, i * n < m, m <= i * n + n
      PROVE  \E x \in rows : At(x) = m
  <2>1. i \in asked
    BY <1>4
  <2>2. i * n \in Nat
    BY <1>3, <2>1
  <2> DEFINE j == m - i * n
  <2>3. j \in 1 .. n /\ i * n + j = m /\ i * n + j <= total
    BY <1>1, <1>8, <2>2
  <2> HIDE DEF j
  <2>4. j \in DOMAIN page[i].ids
    BY <1>3, <2>1, <2>3
  <2>5. <<i, j>> \in rows
    BY <2>3, <2>4
  <2>6. At(<<i, j>>) = m
    BY <2>3
  <2> QED
    BY <2>5, <2>6
<1> HIDE DEF rows, Entry
<1>9. ASSUME NEW x \in rows, NEW y \in rows, At(x) = At(y)
      PROVE  x = y
  <2>1. /\ x = <<x[1], x[2]>> /\ x[1] \in asked /\ x[2] \in 1 .. n
        /\ y = <<y[1], y[2]>> /\ y[1] \in asked /\ y[2] \in 1 .. n
    BY <1>7
  <2>2. x[1] \in Nat /\ y[1] \in Nat /\ x[1] * n \in Nat /\ y[1] * n \in Nat
    BY <1>3, <2>1
  <2>3. x[1] * n + x[2] = y[1] * n + y[2]
    BY <1>9
  <2>4. ~ (x[1] < y[1])
    <3>1. x[1] < y[1] => x[1] * n + n <= y[1] * n
      BY <2>2, PagesApart
    <3> QED
      BY <2>1, <2>2, <2>3, <3>1
  <2>5. ~ (y[1] < x[1])
    <3>1. y[1] < x[1] => y[1] * n + n <= x[1] * n
      BY <2>2, PagesApart
    <3> QED
      BY <2>1, <2>2, <2>3, <3>1
  <2>6. x[1] = y[1]
    BY <2>2, <2>4, <2>5
  <2>7. x[2] = y[2]
    BY <2>1, <2>2, <2>3, <2>6
  <2> QED
    BY <2>1, <2>6, <2>7
\* As many rows as places.
<1> DEFINE Places == {At(x) : x \in rows}
<1>10. /\ Places \subseteq 1 .. total /\ IsFiniteSet(Places)
       /\ Cardinality(rows) = Cardinality(Places)
  <2> DEFINE h == [x \in rows |-> At(x)]
  <2>1. Places \in SUBSET (1 .. total)
    BY <1>7
  <2>2. IsFiniteSet(Places)
    <3>1. IsFiniteSet(1 .. total)
      BY <1>1, UpTo
    <3> QED
      BY <2>1, <3>1, FS_Subset
  <2>3. h \in Injection(rows, Places) /\ h \in Surjection(rows, Places)
    <3>1. h \in [rows -> Places]
      OBVIOUS
    <3>2. \A x, y \in rows : h[x] = h[y] => x = y
      BY <1>9
    <3>3. \A m \in Places : \E x \in rows : h[x] = m
      OBVIOUS
    <3> QED
      BY <3>1, <3>2, <3>3 DEF Injection, IsInjective, Surjection
  <2> HIDE DEF h, Places
  <2>4. Cardinality(rows) = Cardinality(Places)
    BY <2>2, <2>3, FS_Injection
  <2> QED
    BY <2>1, <2>2, <2>4
<1>11. \A m \in Places : \E x \in rows : At(x) = m
  OBVIOUS
<1>12. \A x \in rows : At(x) \in Places
  OBVIOUS
<1> HIDE DEF Places
<1>13. \A i \in followed : Len(page[i].ids) <= n
  BY <1>3, <1>4
<1>14. ASSUME NEW x \in rows
       PROVE  Entry(x) \in S
  <2>1. PICK a \in A : Entry(x) = a[At(x)]
    BY <1>7
  <2> HIDE DEF At
  <2>2. At(x) \in 1 .. total
    BY <1>7
  <2>3. a \in [1 .. total -> S]
    BY <1>2
  <2> QED
    BY <2>1, <2>2, <2>3
\* A record with a place of its own is shown there only.
<1>15. ASSUME NEW x \in rows, ~ Tied(Entry(x))
       PROVE  At(x) = Place(Entry(x))
  <2>1. PICK a \in A : Entry(x) = a[At(x)]
    BY <1>7
  <2> HIDE DEF At
  <2>2. At(x) \in 1 .. total
    BY <1>7
  <2> QED
    BY <1>2, <1>15, <2>1, <2>2
<1>16. ASSUME NEW x \in rows, NEW y \in rows, Entry(x) = Entry(y), x # y
       PROVE  x[1] # y[1] /\ Tied(Entry(x))
  <2>1. At(x) # At(y)
    BY <1>9, <1>16
  <2>2. Tied(Entry(x))
    <3> HIDE DEF At
    <3> QED
      BY <1>15, <1>16, <2>1
  <2>3. ASSUME x[1] = y[1]
        PROVE  FALSE
    <3>1. x[1] \in asked /\ x[2] \in DOMAIN page[x[1]].ids /\ y[2] \in DOMAIN page[x[1]].ids
      BY <1>7, <2>3 DEF rows
    <3>2. PICK a \in A : \A j \in 1 .. Len(page[x[1]].ids) :
                            x[1] * n + j \in 1 .. total /\ page[x[1]].ids[j] = a[x[1] * n + j]
      BY <1>3, <3>1
    <3>3. x[2] \in 1 .. Len(page[x[1]].ids) /\ y[2] \in 1 .. Len(page[x[1]].ids)
      BY <1>3, <3>1
    <3>4. a[At(x)] = a[At(y)] /\ At(x) \in 1 .. total /\ At(y) \in 1 .. total
      BY <1>16, <2>3, <3>2, <3>3 DEF Entry
    <3> QED
      BY <1>2, <2>1, <3>4
  <2> QED
    BY <2>2, <2>3
<1>17. CASE ends
  <2>1. PICK e \in followed : ~ page[e].more
    BY <1>17
  <2>2. e \in asked /\ e \in Nat /\ e * n \in Nat /\ e * n <= MaxOffset /\ e \in 0 .. K
        /\ total <= e * n + n
    BY <1>1, <1>3, <1>4, <2>1
  <2>3. ASSUME NEW m \in 1 .. total
        PROVE  m \in Places
    <3>1. PICK i \in Nat : i * n < m /\ m <= i * n + n /\ i < m
      <4>1. m \in Nat \ {0}
        BY <1>1
      <4> QED
        BY <4>1, PageOf
    <3>2. i * n \in Nat
      OBVIOUS
    <3>3. ~ (e < i)
      <4>1. e < i => e * n + n <= i * n
        BY <2>2, PagesApart
      <4> QED
        BY <1>1, <2>2, <3>1, <3>2, <4>1
    <3>4. i * n <= MaxOffset
      <4>1. i < e => i * n + n <= e * n
        BY <2>2, PagesApart
      <4>2. i = e \/ i < e
        BY <2>2, <3>3
      <4> QED
        BY <1>1, <2>2, <3>2, <4>1, <4>2
    <3>5. i \in followed
      <4>1. i \in asked
        BY <1>1, <1>4, <2>2, <3>3, <3>4
      <4>2. \A j \in 0 .. i - 1 : j \in 0 .. e - 1
        BY <2>2, <3>3
      <4>3. \A j \in 0 .. e - 1 : page[j].more
        BY <1>5, <2>1
      <4> QED
        BY <1>6, <4>1, <4>2, <4>3
    <3>6. PICK x \in rows : At(x) = m
      BY <1>8, <3>1, <3>5
    <3> QED
      BY <1>12, <3>6
  <2>4. Places = 1 .. total
    BY <1>10, <2>3
  <2>5. Cardinality(rows) = total
    BY <1>1, <1>10, <2>4, UpTo
  <2>6. ASSUME NEW r \in S, ~ Tied(r)
        PROVE  \E x \in rows : Entry(x) = r
    <3>1. PICK a \in A : TRUE
      <4>1. e \in asked
        BY <2>2
      <4> QED
        BY <1>3, <4>1
    <3>2. PICK m \in 1 .. total : a[m] = r
      BY <1>2
    <3>3. m = Place(r)
      BY <1>2, <2>6, <3>2
    <3>4. PICK x \in rows : At(x) = m
      BY <1>11, <2>4
    <3>5. PICK b \in A : Entry(x) = b[m]
      BY <1>7, <3>4
    <3>6. PICK k \in 1 .. total : b[k] = r
      BY <1>2
    <3>7. k = Place(r)
      BY <1>2, <2>6, <3>6
    <3> QED
      BY <3>3, <3>5, <3>6, <3>7
  <2> QED
    BY <1>13, <1>14, <1>16, <1>17, <2>5, <2>6
<1>18. CASE ~ ends
  <2>1. \A i \in followed : page[i].more
    BY <1>18
  <2>2. ASSUME NEW i \in asked
        PROVE  page[i].more
    <3> DEFINE NoMore == {k \in asked : ~ page[k].more}
    <3>1. SUFFICES ASSUME ~ page[i].more
                   PROVE  FALSE
      OBVIOUS
    <3>2. NoMore \subseteq Nat /\ i \in NoMore
      BY <1>3, <3>1
    <3> HIDE DEF NoMore
    <3>3. PICK k \in NoMore : \A j \in NoMore : k <= j
      BY <3>2, LeastNumber
    <3>4. k \in asked /\ ~ page[k].more
      BY DEF NoMore
    <3>5. ASSUME NEW j \in 0 .. k - 1
          PROVE  page[j].more
      <4>1. k \in Nat /\ k \in 0 .. K /\ k * n \in Nat /\ k * n <= MaxOffset
        BY <1>3, <3>4
      <4>2. j \in Nat /\ j < k /\ j \in 0 .. K /\ j * n \in Nat
        BY <1>1, <4>1
      <4>3. j * n + n <= k * n
        BY <4>1, <4>2, PagesApart
      <4>4. j \in asked
        BY <1>1, <1>4, <4>1, <4>2, <4>3
      <4>5. ~ (k <= j)
        BY <4>1, <4>2
      <4> QED
        BY <3>3, <4>4, <4>5 DEF NoMore
    <3>6. k \in followed
      BY <1>6, <3>4, <3>5
    <3> QED
      BY <2>1, <3>4, <3>6
  <2>3. \A i \in asked : i \in followed
    <3>1. ASSUME NEW i \in asked, NEW j \in 0 .. i - 1
          PROVE  j \in asked
      <4>1. i \in Nat /\ i \in 0 .. K /\ i * n \in Nat /\ i * n <= MaxOffset
        BY <1>3
      <4>2. j \in Nat /\ j < i /\ j \in 0 .. K /\ j * n \in Nat
        BY <4>1
      <4>3. j * n + n <= i * n
        BY <4>1, <4>2, PagesApart
      <4> QED
        BY <1>1, <1>4, <4>1, <4>2, <4>3
    <3> QED
      BY <1>6, <2>2, <3>1
  <2>4. ASSUME NEW m \in 1 .. MaxOffset + 1
        PROVE  m \in Places
    <3>1. PICK i \in Nat : i * n < m /\ m <= i * n + n /\ i < m
      <4>1. m \in Nat \ {0}
        BY <1>1
      <4> QED
        BY <4>1, PageOf
    <3>2. i * n \in Nat /\ i * n <= MaxOffset
      BY <1>1, <3>1
    <3>3. i <= K
      <4>1. SUFFICES ASSUME K < i
                     PROVE  FALSE
        BY <1>1
      <4>2. K * n \in Nat /\ K * n + n <= i * n /\ K <= K * n
        BY <4>1, PagesApart
      <4>3. K \in asked
        BY <1>1, <1>4, <3>2, <4>2
      <4>4. total > K * n + n
        BY <1>3, <2>2, <4>3
      <4> QED
        BY <1>1, <4>2, <4>4
    <3>4. i \in asked
      BY <1>1, <1>4, <3>2, <3>3
    <3>5. total > i * n + n
      BY <1>3, <2>2, <3>4
    <3>6. m \in 1 .. total
      BY <1>1, <3>1, <3>2, <3>5
    <3>7. PICK x \in rows : At(x) = m
      BY <1>8, <2>3, <3>1, <3>4, <3>6
    <3> QED
      BY <1>12, <3>7
  <2>5. MaxOffset < Cardinality(rows)
    <3>1. 1 .. MaxOffset + 1 \in SUBSET Places
      BY <2>4
    <3>2. Cardinality(1 .. MaxOffset + 1) <= Cardinality(Places)
      BY <1>10, <3>1, FS_Subset
    <3>3. MaxOffset + 1 \in Nat /\ Cardinality(1 .. MaxOffset + 1) = MaxOffset + 1
      <4>1. MaxOffset + 1 \in Nat
        BY <1>1
      <4> QED
        BY <4>1, UpTo
    <3>4. Cardinality(Places) \in Nat
      BY <1>10, FS_CardinalityType
    <3> QED
      BY <1>1, <1>10, <3>2, <3>3, <3>4
  <2>6. Cardinality(rows) < total
    <3>1. ASSUME NEW x \in rows
          PROVE  At(x) < total
      <4>1. x[1] \in followed /\ x[1] \in asked /\ x[2] \in 1 .. n
        BY <1>7
      <4>2. x[1] * n \in Nat /\ total > x[1] * n + n
        BY <1>3, <2>2, <4>1
      <4> QED
        BY <1>1, <4>1, <4>2
    <3>2. \A m \in Places : m \in 1 .. total /\ m < total
      <4>1. \A m \in Places : m < total
        BY <1>11, <3>1
      <4> QED
        BY <1>10, <4>1
    <3>3. Places \in SUBSET (1 .. total - 1)
      BY <1>1, <3>2
    <3>4. total >= 1
      <4>1. 1 \in 1 .. MaxOffset + 1
        BY <1>1
      <4>2. 1 \in 1 .. total
        BY <1>10, <2>4, <4>1
      <4> QED
        BY <1>1, <4>2
    <3>5. IsFiniteSet(1 .. total - 1) /\ Cardinality(1 .. total - 1) = total - 1
      <4>1. total - 1 \in Nat
        BY <1>1, <3>4
      <4> QED
        BY <4>1, UpTo
    <3>6. Cardinality(Places) <= Cardinality(1 .. total - 1)
      BY <3>3, <3>5, FS_Subset
    <3>7. Cardinality(Places) \in Nat
      BY <1>10, FS_CardinalityType
    <3> QED
      BY <1>1, <1>10, <3>5, <3>6, <3>7
  <2> QED
    BY <1>13, <1>14, <1>16, <1>18, <2>5, <2>6
<1> QED
  BY <1>17, <1>18

\* One record is listed in one way.
LEMMA ArrangementOfOne ==
    ASSUME NEW o, NEW rs, NEW r
    PROVE  Arrangements(o, rs, {r}) # {}
<1> DEFINE a == [i \in 1 .. 1 |-> r]
<1>1. Cardinality({r}) = 1
  BY FS_Singleton
<1>2. a \in Injection(1 .. 1, {r})
  BY DEF Injection, IsInjective
<1>3. \A i, j \in DOMAIN a : ~ (i < j)
  OBVIOUS
<1> HIDE DEF a
<1> QED
  BY <1>1, <1>2, <1>3 DEF Arrangements

\* What a policy governs is a record that exists.
LEMMA GovernedHolds ==
    ASSUME NEW c, Allowable(c), NEW op, NEW p \in ModelPolicy(c, op), NEW rs
    PROVE  p.domain = Scope(c) /\ Scope(c) \subseteq Value /\ \A r \in Governed(p, rs) : rs[r] \in Value
<1>1. p.domain = Scope(c)
  BY PolicyWithin
<1>2. Scope(c) \subseteq Value
  BY DEF Scope, Active, Allowable, AllowablePolicy
<1> QED
  BY <1>1, <1>2 DEF Governed

\* Who may read was granted to, what is read is shown.
LEMMA ReaderFacts ==
    ASSUME NEW c, Allowable(c), NEW op \in Op, NEW fs, NEW p \in Reader(c, op, fs)
    PROVE  /\ op \in Granted(c) /\ fs \subseteq Shown(c) /\ p.domain = Scope(c)
           /\ p \in ModelPolicy(c, op)
           /\ \A k : k \in 1 .. p.limit => k <= c.maxRecords
<1>1. p \in ModelPolicy(c, op) /\ fs \subseteq p.readable
  BY DEF Reader
<1>2. op \in Granted(c)
  BY <1>1, PolicyIffGranted
<1>3. p.domain = Scope(c) /\ p.readable \subseteq Shown(c)
  BY <1>1, PolicyWithin
<1>4. p.limit \in 1 .. c.maxRecords /\ c.maxRecords \in Nat
  BY <1>1, OnePolicy
<1> QED
  BY <1>1, <1>2, <1>3, <1>4

(***************************************************************************)
(* What answers depend on: two states of the records are alike in the      *)
(* fields fs if the same records are in the scope and agree in those.      *)
(***************************************************************************)
Alike(c, rs, os, fs) ==
    \A r \in Record : /\ rs[r] \in Scope(c) <=> os[r] \in Scope(c)
                      /\ rs[r] \in Scope(c) => Agree(rs[r], os[r], fs)

LEMMA AlikeListings ==
    ASSUME NEW c, Scope(c) \subseteq Value, NEW p, p.domain = Scope(c),
           NEW rs, NEW os, NEW fs, Alike(c, rs, os, fs)
    PROVE  /\ Governed(p, rs) = Governed(p, os)
           /\ \A d : IsCondition(d) /\ d.fields \subseteq fs => Matching(p, rs, d) = Matching(p, os, d)
           /\ \A o, S : IsOrder(o) /\ o.fields \subseteq fs /\ S \subseteq Governed(p, rs)
                        => Arrangements(o, rs, S) = Arrangements(o, os, S)
<1>1. \A r \in Record : r \in Governed(p, rs) <=> r \in Governed(p, os)
  BY DEF Governed, Alike
<1>2. Governed(p, rs) = Governed(p, os) /\ Governed(p, rs) \subseteq Record
  BY <1>1 DEF Governed
<1>3. ASSUME NEW r \in Governed(p, rs)
      PROVE  r \in Record /\ rs[r] \in Value /\ os[r] \in Value /\ Agree(rs[r], os[r], fs)
  BY <1>2 DEF Governed, Alike
<1>4. ASSUME NEW d, IsCondition(d), d.fields \subseteq fs
      PROVE  Matching(p, rs, d) = Matching(p, os, d)
  <2>1. ASSUME NEW r \in Governed(p, rs)
        PROVE  <<r, rs[r]>> \in d.holds <=> <<r, os[r]>> \in d.holds
    <3>1. Agree(rs[r], os[r], d.fields)
      BY <1>3, <1>4 DEF Agree
    <3> QED
      BY <1>3, <1>4, <3>1 DEF IsCondition
  <2> QED
    BY <1>2, <2>1 DEF Matching
<1>5. ASSUME NEW o, NEW S, IsOrder(o), o.fields \subseteq fs, S \subseteq Governed(p, rs)
      PROVE  Arrangements(o, rs, S) = Arrangements(o, os, S)
  <2>1. ASSUME NEW r \in S
        PROVE  o.key[<<r, rs[r]>>] = o.key[<<r, os[r]>>]
    <3>1. Agree(rs[r], os[r], o.fields)
      BY <1>3, <1>5 DEF Agree
    <3>2. r \in Record /\ rs[r] \in Value /\ os[r] \in Value
      BY <1>3, <1>5
    <3> QED
      BY <1>5, <3>1, <3>2 DEF IsOrder
  <2>2. ASSUME NEW a \in Injection(1 .. Cardinality(S), S), NEW i \in DOMAIN a
        PROVE  o.key[<<a[i], rs[a[i]]>>] = o.key[<<a[i], os[a[i]]>>]
    <3>1. a[i] \in S
      BY DEF Injection
    <3> QED
      BY <2>1, <3>1
  <2> QED
    BY <2>2 DEF Arrangements
<1> QED
  BY <1>2, <1>4, <1>5

LEMMA AlikeRows ==
    ASSUME NEW c, NEW p, p.domain = Scope(c), NEW rs, NEW os, NEW fs, Alike(c, rs, os, fs),
           NEW shown, shown \subseteq fs,
           NEW list, \A j \in DOMAIN list : list[j] \in Governed(p, rs)
    PROVE  Rows(shown, rs, list) = Rows(shown, os, list)
<1>1. \A j \in DOMAIN list : Contents(shown, rs[list[j]]) = Contents(shown, os[list[j]])
  BY DEF Governed, Alike, Agree, Contents
<1> QED
  BY <1>1 DEF Rows

\* What a search finds, page by page.
LEMMA PageWithin ==
    ASSUME NEW p, NEW rs, NEW q, q.offset \in Nat, Least(q.limit, p.limit) \in Nat,
           NEW page \in Pages(p, rs, q)
    PROVE  \A j \in DOMAIN page.ids : page.ids[j] \in Governed(p, rs)
<1> DEFINE M == Matching(p, rs, q.condition)
<1>1. PICK o : \E a \in Arrangements(o, rs, M) :
                   page = Page(a, q.offset, Least(q.limit, p.limit))
  <2>1. PICK a \in Found(p, rs, q) : page = Page(a, q.offset, Least(q.limit, p.limit))
    BY DEF Pages
  <2> QED
    BY <2>1 DEF Found
<1>2. PICK a \in Arrangements(o, rs, M) : page = Page(a, q.offset, Least(q.limit, p.limit))
  BY <1>1
<1>3. IsFiniteSet(M) /\ M \subseteq Governed(p, rs)
  BY MatchingFacts
<1> HIDE DEF M
<1>4. Cardinality(M) \in Nat /\ a \in [1 .. Cardinality(M) -> M]
  BY <1>3, ArrangementFacts
<1>5. IsPage(page, M, Cardinality(M), a, q.offset, Least(q.limit, p.limit))
  BY <1>2, <1>4, PageFacts
<1>6. page.ids \in Seq(M)
  BY <1>5 DEF IsPage
<1>7. \A j \in DOMAIN page.ids : page.ids[j] \in M
  BY <1>6
<1> QED
  BY <1>3, <1>7

(***************************************************************************)
(* What an action does when it is carried out.                             *)
(***************************************************************************)
\* It was granted, on records in the scope, and keeps within the limits.
LEMMA PreparedWithin ==
    ASSUME NEW c, Allowable(c), NEW rs, NEW pl, Prepare(c, rs, pl)
    PROVE  /\ Needs(pl) \in Granted(c)
           /\ pl.action # "record.create" => \A r \in pl.ids : rs[r] \in Scope(c)
           /\ pl.action \in {"record.create", "record.update"} => pl.fields \subseteq Changeable(c)
           /\ pl.action = "record.create" => pl.count \in 1 .. c.maxBatch
           /\ pl.action \notin {"record.create", "method.call"} =>
                  Cardinality(pl.ids) <= c.maxBatch
           /\ pl.action \in OnRecord => pl.action \in c.features /\ Cardinality(pl.ids) = 1
           /\ pl.action = "method.call" =>
                  \E m \in c.method : /\ m.active /\ Cardinality(pl.ids) <= m.maxRecords
                                      /\ pl.ids = {} => m.allowModelMethod
<1>1. ASSUME NEW p, NEW ids, InPolicy(p, rs, ids), p.domain = Scope(c)
      PROVE  \A r \in ids : rs[r] \in Scope(c)
  BY <1>1 DEF InPolicy, Governed
<1>2. ASSUME NEW p, NEW fs, WriteValues(p, fs), p.writable \ (Magic \cup ReadonlyField) = Changeable(c)
      PROVE  fs \subseteq Changeable(c)
  BY <1>2 DEF WriteValues
<1>3. c.maxBatch \in Nat /\ c.maxBatch >= 1
  BY DEF Allowable
<1>4. ASSUME NEW op \in Op, NEW p \in ModelPolicy(c, op)
      PROVE  /\ op \in Granted(c) /\ p.domain = Scope(c)
             /\ p.writable \ (Magic \cup ReadonlyField) = Changeable(c)
  BY PolicyIffGranted, PolicyWithin
<1>5. CASE pl.action = "record.create" /\ PrepareCreate(c, pl)
  <2>1. PICK p \in ModelPolicy(c, "create") : pl.count \in 1 .. c.maxBatch /\ WriteValues(p, pl.fields)
    BY <1>5 DEF PrepareCreate
  <2>2. "create" \in Granted(c) /\ p.writable \ (Magic \cup ReadonlyField) = Changeable(c)
    BY <1>4 DEF Op
  <2> QED
    BY <1>2, <1>5, <2>1, <2>2 DEF Needs, OnRecord
<1>6. CASE pl.action = "record.update" /\ PrepareUpdate(c, rs, pl)
  <2>1. PICK p \in ModelPolicy(c, "write") : /\ Cardinality(pl.ids) \in 1 .. c.maxBatch
                                            /\ WriteValues(p, pl.fields) /\ InPolicy(p, rs, pl.ids)
    BY <1>6 DEF PrepareUpdate
  <2>2. /\ "write" \in Granted(c) /\ p.domain = Scope(c)
        /\ p.writable \ (Magic \cup ReadonlyField) = Changeable(c)
    BY <1>4 DEF Op
  <2>3. pl.fields \subseteq Changeable(c) /\ \A r \in pl.ids : rs[r] \in Scope(c)
    BY <1>1, <1>2, <2>1, <2>2
  <2>4. Cardinality(pl.ids) <= c.maxBatch
    BY <1>3, <2>1
  <2> QED
    BY <1>6, <2>2, <2>3, <2>4 DEF Needs, OnRecord
<1>7. CASE pl.action = "record.delete" /\ PrepareDelete(c, rs, pl)
  <2>1. PICK p \in ModelPolicy(c, "unlink") :
            Cardinality(pl.ids) \in 1 .. c.maxBatch /\ InPolicy(p, rs, pl.ids)
    BY <1>7 DEF PrepareDelete
  <2>2. "unlink" \in Granted(c) /\ p.domain = Scope(c)
    BY <1>4 DEF Op
  <2>3. \A r \in pl.ids : rs[r] \in Scope(c)
    BY <1>1, <2>1, <2>2
  <2>4. Cardinality(pl.ids) <= c.maxBatch
    BY <1>3, <2>1
  <2> QED
    BY <1>7, <2>2, <2>3, <2>4 DEF Needs, OnRecord
<1>8. CASE pl.action \in OnRecord /\ PrepareOnRecord(c, rs, pl)
  <2>1. PICK p \in ModelPolicy(c, "write") :
            /\ pl.action \in c.features
            /\ Cardinality(pl.ids) = 1 /\ InPolicy(p, rs, pl.ids)
    BY <1>8 DEF PrepareOnRecord
  <2>2. "write" \in Granted(c) /\ p.domain = Scope(c)
    BY <1>4 DEF Op
  <2>3. \A r \in pl.ids : rs[r] \in Scope(c)
    BY <1>1, <2>1, <2>2
  <2>4. Cardinality(pl.ids) <= c.maxBatch
    BY <1>3, <2>1
  <2> QED
    BY <1>8, <2>1, <2>2, <2>3, <2>4 DEF Needs, OnRecord
<1>9. CASE pl.action = "method.call" /\ PrepareMethod(c, rs, pl)
  <2>1. PICK m \in {x \in c.method : x.active}, p \in ModelPolicy(c, "read") :
            /\ Cardinality(pl.ids) <= m.maxRecords /\ InPolicy(p, rs, pl.ids)
            /\ pl.ids = {} => m.allowModelMethod
    BY <1>9 DEF PrepareMethod
  <2>2. "read" \in Granted(c) /\ p.domain = Scope(c)
    BY <1>4 DEF Op
  <2>3. \A r \in pl.ids : rs[r] \in Scope(c)
    BY <1>1, <2>1, <2>2
  <2> QED
    BY <1>9, <2>1, <2>2, <2>3 DEF Needs, OnRecord
<1> QED
  BY <1>5, <1>6, <1>7, <1>8, <1>9 DEF Prepare

\* What an action sets, and only that, is different afterwards.
LEMMA SettingFacts ==
    ASSUME NEW rs \in States, NEW ids \in SUBSET Record, NEW vs, vs \subseteq Value \cup {Gone},
           NEW new \in [ids -> vs],
           NEW to, to = [records |-> [r \in Record |-> IF r \in ids THEN new[r] ELSE rs[r]], ids |-> ids]
    PROVE  /\ to.records \in States /\ to.ids = ids
           /\ \A r \in ids : to.records[r] \in vs
           /\ \A r \in Record \ ids : to.records[r] = rs[r]
<1> DEFINE made == [r \in Record |-> IF r \in ids THEN new[r] ELSE rs[r]]
<1>1. /\ made \in States
      /\ \A r \in ids : made[r] \in vs
      /\ \A r \in Record \ ids : made[r] = rs[r]
  BY DEF States
<1>2. to.records = made /\ to.ids = ids
  OBVIOUS
<1> HIDE DEF made
<1> QED
  BY <1>1, <1>2

\* An action writes the rows of the records it names, or of free ids, and leaves
\* the others alone; but a business method may write any.
LEMMA OutcomeFacts ==
    ASSUME NEW rs \in States, NEW pl, pl.ids \subseteq Record, NEW new \in Outcomes(rs, pl)
    PROVE  /\ new.records \in States /\ new.ids \subseteq Record
           /\ \A r \in Record \ new.ids : new.records[r] = rs[r]
           /\ pl.action = "record.create" =>
                  Cardinality(new.ids) = pl.count /\ \A r \in new.ids : rs[r] = Gone
           /\ pl.action \in {"record.update", "record.delete"} => new.ids = pl.ids
<1> DEFINE Set(ids, vs) ==
              {[records |-> [r \in Record |-> IF r \in ids THEN w[r] ELSE rs[r]], ids |-> ids] :
                  w \in [ids -> vs]}
           Written == {v \in Value : Agree(v, pl.value, pl.fields)}
           Fact(ids) == /\ new.records \in States /\ new.ids = ids
                        /\ \A r \in Record \ ids : new.records[r] = rs[r]
<1>1. ASSUME NEW ids \in SUBSET Record, NEW vs, vs \subseteq Value \cup {Gone}, new \in Set(ids, vs)
      PROVE  Fact(ids)
  <2>1. PICK w \in [ids -> vs] :
            new = [records |-> [r \in Record |-> IF r \in ids THEN w[r] ELSE rs[r]], ids |-> ids]
    BY <1>1
  <2> QED
    BY <1>1, <2>1, SettingFacts
<1>2. Written \subseteq Value \cup {Gone} /\ {Gone} \subseteq Value \cup {Gone}
  OBVIOUS
<1>3. CASE pl.action = "record.create"
  <2>1. PICK ids \in {x \in SUBSET {r \in Record : rs[r] = Gone} : Cardinality(x) = pl.count} :
            new \in Set(ids, Written)
    <3>1. Outcomes(rs, pl) =
              UNION {Set(ids, Written) :
                         ids \in {x \in SUBSET {r \in Record : rs[r] = Gone} : Cardinality(x) = pl.count}}
      BY <1>3 DEF Outcomes
    <3> HIDE DEF Set, Written
    <3> QED
      BY <3>1
  <2>2. ids \in SUBSET Record /\ Cardinality(ids) = pl.count /\ \A r \in ids : rs[r] = Gone
    OBVIOUS
  <2> HIDE DEF Set, Written, Fact
  <2>3. Fact(ids)
    BY <1>1, <1>2, <2>1, <2>2
  <2> QED
    BY <1>3, <2>2, <2>3 DEF Fact
<1>4. CASE pl.action = "record.update"
  <2>1. Outcomes(rs, pl) = Set(pl.ids, Written)
    BY <1>4 DEF Outcomes
  <2> HIDE DEF Set, Written, Fact
  <2>2. Fact(pl.ids)
    BY <1>1, <1>2, <2>1
  <2> QED
    BY <1>4, <2>2 DEF Fact
<1>5. CASE pl.action = "record.delete"
  <2>1. Outcomes(rs, pl) = Set(pl.ids, {Gone})
    BY <1>5 DEF Outcomes
  <2> HIDE DEF Set, Written, Fact
  <2>2. Fact(pl.ids)
    BY <1>1, <1>2, <2>1
  <2> QED
    BY <1>5, <2>2 DEF Fact
<1>6. CASE pl.action = "method.call"
  <2>1. PICK ids \in SUBSET Record : new \in Set(ids, Value \cup {Gone})
    <3>1. Outcomes(rs, pl) = UNION {Set(ids, Value \cup {Gone}) : ids \in SUBSET Record}
      BY <1>6 DEF Outcomes
    <3> HIDE DEF Set
    <3> QED
      BY <3>1
  <2> HIDE DEF Set, Written, Fact
  <2>2. Fact(ids)
    BY <1>1, <2>1
  <2> QED
    BY <1>6, <2>2 DEF Fact
<1>7. CASE pl.action \notin {"record.create", "record.update", "record.delete", "method.call"}
  <2>1. new = [records |-> rs, ids |-> pl.ids]
    BY <1>7 DEF Outcomes
  <2> QED
    BY <1>7, <2>1
<1> QED
  BY <1>3, <1>4, <1>5, <1>6, <1>7

(***************************************************************************)
(* The invariant.                                                          *)
(***************************************************************************)
Planned ==
    [phase : Phase \ {"none"}, payload : Payloads, by : {"nobody", "profile", "manager"}]

\* A profile approves messages and activities only.
PlanInv ==
    \/ plan = [phase |-> "none", by |-> "nobody"]
    \/ /\ plan \in Planned
       /\ plan.by = "nobody" <=> plan.phase = "pending"
       /\ plan.by = "profile" => plan.payload.action \in {"message.post", "activity.schedule"}

\* An execution sees what nobody else has changed as it is.
ViewInv ==
    IF plan.phase = "executing"
    THEN \E v \in [config : Profiles, records : States] :
            /\ view = {v}
            /\ \A r \in Record \ dirty : v.records[r] = records[r]
    ELSE view = {} /\ dirty = {}

Inv ==
    /\ config \in Profiles /\ records \in States
    /\ dirty \subseteq Record
    /\ PlanInv /\ ViewInv

\* What a change does to the records, and that it is allowed (Commits).
LEMMA CommitFacts ==
    ASSUME Inv, Commits
    PROVE  \E v \in [config : Profiles, records : States] :
              \E new \in Outcomes(v.records, plan.payload) :
                 LET written == Writes(plan.payload, new) IN
                 /\ view = {v} /\ plan \in Planned
                 /\ \A r \in Record \ dirty : v.records[r] = records[r]
                 /\ Allowable(v.config)
                 /\ Prepare(v.config, v.records, plan.payload)
                 /\ Postcondition(v.config, plan.payload, new)
                 /\ written \cap dirty = {}
                 /\ records' = [r \in Record |-> IF r \in written THEN new.records[r] ELSE records[r]]
<1>1. plan.phase = "executing"
  BY DEF Commits
<1>2. PICK v \in [config : Profiles, records : States] :
            view = {v} /\ \A r \in Record \ dirty : v.records[r] = records[r]
  BY <1>1 DEF Inv, ViewInv
<1>3. plan \in Planned /\ Allowable(v.config)
  BY <1>1, ProfilesAssumption DEF Inv, PlanInv
<1>4. PICK new \in Execute(v.config, v.records, plan.payload) :
        /\ Writes(plan.payload, new) \cap dirty = {}
        /\ records' = [r \in Record |-> IF r \in Writes(plan.payload, new)
                                        THEN new.records[r] ELSE records[r]]
  BY <1>2 DEF Commits
<1>5. /\ new \in Outcomes(v.records, plan.payload)
      /\ Prepare(v.config, v.records, plan.payload)
      /\ Postcondition(v.config, plan.payload, new)
  BY DEF Execute
<1> QED
  BY <1>2, <1>3, <1>4, <1>5

\* A transaction ends, whatever becomes of the plan.
LEMMA EndsInv ==
    ASSUME Inv, plan.phase = "executing", NEW phase \in {"approved", "executed"}, Ends(phase),
           records' \in States
    PROVE  Inv'
<1>1. plan \in Planned /\ plan.by # "nobody" /\
      (plan.by = "profile" => plan.payload.action \in {"message.post", "activity.schedule"})
  BY DEF Inv, PlanInv
<1>2. plan' = [plan EXCEPT !.phase = phase] /\ view' = {} /\ dirty' = {} /\ config' = config
  BY DEF Ends
<1>3. plan' \in Planned /\ plan'.phase = phase /\ plan'.by = plan.by /\ plan'.payload = plan.payload
  BY <1>1, <1>2 DEF Planned, Phase
<1>4. PlanInv'
  BY <1>1, <1>3 DEF PlanInv
<1>5. ViewInv'
  BY <1>2, <1>3 DEF ViewInv
<1> QED
  BY <1>2, <1>4, <1>5 DEF Inv

LEMMA InvStep ==
    ASSUME Inv, [Next]_vars
    PROVE  Inv'
<1>1. ASSUME NEW c \in Live, Edits(c)
      PROVE  Inv'
  <2>1. c \in Profiles /\ config' = c /\ UNCHANGED <<records, plan, view, dirty>>
    BY <1>1, ProfilesAssumption DEF Edits
  <2> QED
    BY <2>1 DEF Inv, PlanInv, ViewInv
<1>2. ASSUME NEW r \in Contended, NEW w \in Value \cup {Gone}, OthersChange(r, w)
      PROVE  Inv'
  <2>1. /\ records' = [records EXCEPT ![r] = w] /\ UNCHANGED <<config, plan, view>>
        /\ r \in Record
        /\ dirty' = IF plan.phase = "executing" THEN dirty \cup {r} ELSE dirty
    BY <1>2, ContendedAssumption DEF OthersChange
  <2>2. records' \in States /\ \A s \in Record \ {r} : records'[s] = records[s]
    BY <2>1 DEF Inv, States
  <2>3. ViewInv'
    <3>1. CASE plan.phase = "executing"
      <4>1. PICK v \in [config : Profiles, records : States] :
                view = {v} /\ \A s \in Record \ dirty : v.records[s] = records[s]
        BY <3>1 DEF Inv, ViewInv
      <4>2. \A s \in Record \ dirty' : v.records[s] = records'[s]
        BY <2>1, <2>2, <3>1, <4>1
      <4> QED
        BY <2>1, <3>1, <4>1, <4>2 DEF ViewInv
    <3>2. CASE plan.phase # "executing"
      BY <2>1, <3>2 DEF Inv, ViewInv
    <3> QED
      BY <3>1, <3>2
  <2>4. PlanInv' /\ config' \in Profiles /\ dirty' \subseteq Record
    BY <2>1 DEF Inv, PlanInv
  <2> QED
    BY <2>2, <2>3, <2>4 DEF Inv
<1>3. ASSUME NEW pl \in Payloads, Previews(pl)
      PROVE  Inv'
  <2>1. UNCHANGED <<config, records, view, dirty>> /\ plan.phase = "none"
    BY <1>3 DEF Previews
  <2>2. /\ plan' \in Planned /\ plan'.phase # "executing"
        /\ plan'.by = "nobody" <=> plan'.phase = "pending"
        /\ plan'.by = "profile" => plan'.payload.action \in {"message.post", "activity.schedule"}
    <3>1. CASE AutoApproved(config, pl)
      <4>1. plan' = [phase |-> "approved", payload |-> pl, by |-> "profile"]
        BY <1>3, <3>1 DEF Previews
      <4>2. pl.action \in {"message.post", "activity.schedule"}
        BY <3>1 DEF AutoApproved
      <4> QED
        BY <4>1, <4>2 DEF Planned, Phase
    <3>2. CASE ~ AutoApproved(config, pl)
      <4>1. plan' = [phase |-> "pending", payload |-> pl, by |-> "nobody"]
        BY <1>3, <3>2 DEF Previews
      <4> QED
        BY <4>1 DEF Planned, Phase
    <3> QED
      BY <3>1, <3>2
  <2>3. ViewInv'
    BY <2>1, <2>2 DEF Inv, ViewInv
  <2> QED
    BY <2>1, <2>2, <2>3 DEF Inv, PlanInv
<1>4. CASE Approves
  <2>1. /\ plan.phase = "pending" /\ plan \in Planned
        /\ plan' = [plan EXCEPT !.phase = "approved", !.by = "manager"]
        /\ UNCHANGED <<config, records, view, dirty>>
    BY <1>4 DEF Approves, Inv, PlanInv
  <2>2. plan' \in Planned /\ plan'.phase = "approved" /\ plan'.by = "manager"
    BY <2>1 DEF Planned, Phase
  <2> QED
    BY <2>1, <2>2 DEF Inv, PlanInv, ViewInv
<1>5. CASE Begins
  <2>1. /\ plan.phase = "approved" /\ plan \in Planned /\ plan.by # "nobody"
        /\ plan.by = "profile" => plan.payload.action \in {"message.post", "activity.schedule"}
        /\ plan' = [plan EXCEPT !.phase = "executing"]
        /\ view' = {[config |-> config, records |-> records]}
        /\ UNCHANGED <<config, records, dirty>>
    BY <1>5 DEF Begins, Inv, PlanInv
  <2>2. /\ plan' \in Planned /\ plan'.phase = "executing" /\ plan'.by = plan.by
        /\ plan'.payload = plan.payload
    BY <2>1 DEF Planned, Phase
  <2>3. ViewInv'
    <3> DEFINE v == [config |-> config, records |-> records]
    <3>1. v \in [config : Profiles, records : States] /\ \A r \in Record : v.records[r] = records[r]
      BY DEF Inv
    <3> HIDE DEF v
    <3>2. view' = {v} /\ \A r \in Record \ dirty' : v.records[r] = records'[r]
      BY <2>1, <3>1 DEF v
    <3> QED
      BY <2>2, <3>1, <3>2 DEF ViewInv
  <2>4. PlanInv'
    BY <2>1, <2>2 DEF PlanInv
  <2> QED
    BY <2>1, <2>3, <2>4 DEF Inv
<1>6. CASE Commits
  <2>1. PICK v \in [config : Profiles, records : States] :
            \E new \in Outcomes(v.records, plan.payload) :
                /\ plan \in Planned
                /\ records' = [r \in Record |-> IF r \in Writes(plan.payload, new)
                                                THEN new.records[r] ELSE records[r]]
    BY <1>6, CommitFacts
  <2>2. PICK new \in Outcomes(v.records, plan.payload) :
            /\ plan \in Planned
            /\ records' = [r \in Record |-> IF r \in Writes(plan.payload, new)
                                            THEN new.records[r] ELSE records[r]]
    BY <2>1
  <2>3. new.records \in States
    BY <2>2, PayloadsAssumption, OutcomeFacts DEF Planned
  <2>4. records' \in States
    BY <2>2, <2>3 DEF Inv, States
  <2> QED
    BY <1>6, <2>4, EndsInv DEF Commits
<1>7. CASE Conflicts
  BY <1>7, EndsInv DEF Conflicts, Inv
<1>8. CASE Refuses
  BY <1>8, EndsInv DEF Refuses, Inv
<1>9. CASE UNCHANGED vars
  BY <1>9 DEF vars, Inv, PlanInv, ViewInv
<1> QED
  BY <1>1, <1>2, <1>3, <1>4, <1>5, <1>6, <1>7, <1>8, <1>9 DEF Next

\* A plan becomes executed by the commit of its execution only.
LEMMA ExecutesCommits ==
    ASSUME Inv, [Next]_vars, Executes
    PROVE  Commits
<1>1. plan.phase = "executing" /\ plan'.phase = "executed" /\ plan \in Planned
  BY DEF Executes, Inv, PlanInv
<1>2. plan' # plan
  BY <1>1
<1>3. ~ Conflicts /\ ~ Refuses
  BY <1>1 DEF Conflicts, Refuses, Ends, Planned
<1> QED
  BY <1>1, <1>2, <1>3 DEF Next, Edits, OthersChange, Previews, Approves, Begins, vars

\* The inductive invariant holds in every state, for any model, profiles and
\* changes: a profile approves messages and activities only, and an execution
\* sees what nobody else has changed as it is.
THEOREM Invariance == Spec => []Inv
<1>1. Init => Inv
  BY DEF Init, Inv, PlanInv, ViewInv
<1>2. Inv /\ [Next]_vars => Inv'
  BY InvStep
<1> QED
  BY <1>1, <1>2, PTL DEF Spec

(***************************************************************************)
(* What follows.                                                           *)
(***************************************************************************)
\* Types; a snapshot exists exactly while a plan is executed, and it agrees
\* with what is committed on all that nobody else has changed.
THEOREM TypeCorrect == Spec => []TypeOK
<1>1. ASSUME Inv
      PROVE  TypeOK
  <2>1. /\ plan.phase \in Phase
        /\ plan.phase # "none" => plan.payload \in Payloads
        /\ plan.by \in {"nobody", "profile", "manager"}
        /\ plan.by = "nobody" <=> plan.phase \in {"none", "pending"}
    <3>1. CASE plan = [phase |-> "none", by |-> "nobody"]
      BY <3>1 DEF Phase
    <3>2. CASE plan \in Planned /\ (plan.by = "nobody" <=> plan.phase = "pending")
      BY <3>2 DEF Planned
    <3> QED
      BY <1>1, <3>1, <3>2 DEF Inv, PlanInv
  <2>2. CASE plan.phase = "executing"
    <3>1. PICK v \in [config : Profiles, records : States] :
              view = {v} /\ \A r \in Record \ dirty : v.records[r] = records[r]
      BY <1>1, <2>2 DEF Inv, ViewInv
    <3>2. Cardinality(view) = 1
      BY <3>1, FS_Singleton
    <3> QED
      BY <1>1, <2>1, <2>2, <3>1, <3>2 DEF Inv, TypeOK
  <2>3. CASE plan.phase # "executing"
    <3>1. view = {} /\ dirty = {} /\ Cardinality(view) = 0
      BY <1>1, <2>3, FS_EmptySet DEF Inv, ViewInv
    <3> QED
      BY <1>1, <2>1, <2>3, <3>1 DEF Inv, TypeOK
  <2> QED
    BY <2>2, <2>3
<1> QED
  BY <1>1, Invariance, PTL

\* The listing operations, the policies and the capabilities agree about every
\* profile the tables admit, on every kind of model and for all of a user's
\* rights.
THEOREM AnswersAgreeHolds == Spec => []AnswersAgree
<1>1. ASSUME NEW c, Allowable(c)
      PROVE  /\ Granted(c) = {op \in Op : ModelPolicy(c, op) # {}}
             /\ ModelsList(c) = Granted(c)
  <2>1. \A op \in Op : op \in Granted(c) <=> ModelPolicy(c, op) # {}
    BY <1>1, PolicyIffGranted
  <2>2. Granted(c) = {op \in Op : ModelPolicy(c, op) # {}}
    BY <2>1 DEF Granted
  <2>3. \A op \in Op : ModelPolicy(c, op) # {} <=> GetPolicy(c, op) # {} /\ Right(op) \in c.rights
    BY DEF ModelPolicy
  <2>4. CASE Active(c) # {} \/ (HasGlobalAccess(c) /\ c.kind # "transient")
    BY <2>2, <2>3, <2>4 DEF ModelsList
  <2>5. CASE ~ (Active(c) # {} \/ (HasGlobalAccess(c) /\ c.kind # "transient"))
    <3>1. Granted(c) = {}
      BY <2>5 DEF Granted, Ungoverned, HasGlobalAccess, CoveredKinds
    <3> QED
      BY <2>2, <2>5, <3>1 DEF ModelsList
  <2> QED
    BY <2>2, <2>4, <2>5
<1>2. ASSUME NEW c, Allowable(c)
      PROVE  {op \in Capabilities(c) : Right(op) \in c.rights}
                 = IF Active(c) # {} THEN Granted(c) ELSE {}
  <2>1. CASE Active(c) = {}
    BY <2>1 DEF Capabilities
  <2>2. CASE Active(c) # {}
    <3>1. PICK e : Active(c) = {e} /\ e.allows \subseteq Op
      BY <1>2, <2>2 DEF Active, Allowable, AllowablePolicy
    <3>2. Capabilities(c) = {op \in e.allows : op = "aggregate" => c.aggregate}
      BY <3>1 DEF Capabilities, OfExplicit
    <3>3. Granted(c) = {op \in Op : /\ Right(op) \in c.rights /\ op \in e.allows
                                    /\ op = "aggregate" => c.aggregate}
      BY <2>2, <3>1 DEF Granted, Ungoverned
    <3> QED
      BY <2>2, <3>1, <3>2, <3>3
  <2> QED
    BY <2>1, <2>2
<1>3. ASSUME NEW c, Allowable(c), NEW d \in Describe(c)
      PROVE  /\ {op \in d.operations : Right(op) \in c.rights} = Granted(c)
             /\ "write" \in Granted(c) => Changeable(c) \cap d.fields \subseteq d.writable
  <2>1. PICK p \in ModelPolicy(c, "read") :
            d = [operations |-> p.allows, fields |-> p.readable,
                 writable |-> IF "write" \in p.allows THEN p.writable \cap p.readable ELSE {}]
    BY <1>3 DEF Describe
  <2>2. p.allows \subseteq Op /\ \A op \in Op : op \in p.allows <=> GetPolicy(c, op) # {}
    <3>1. p \in GetPolicy(c, "read")
      BY DEF ModelPolicy
    <3>2. CASE Active(c) # {}
      <4>1. PICK e : Active(c) = {e} /\ e.allows \subseteq Op
        BY <1>3, <3>2 DEF Active, Allowable, AllowablePolicy
      <4>2. \A op : GetPolicy(c, op) = {q \in {OfExplicit(c, e)} : op \in q.allows}
        BY <3>2, <4>1 DEF GetPolicy
      <4>3. p = OfExplicit(c, e) /\ p.allows = {op \in e.allows : op = "aggregate" => c.aggregate}
        BY <3>1, <4>2 DEF OfExplicit
      <4> QED
        BY <4>1, <4>2, <4>3
    <3>3. CASE Active(c) = {}
      <4>1. c.kind \in CoveredKinds
        BY <3>1, <3>3 DEF GetPolicy
      <4>2. \A op : GetPolicy(c, op) = {q \in {GlobalPolicy(c)} : op \in q.allows}
        BY <3>3, <4>1 DEF GetPolicy
      <4>3. p = GlobalPolicy(c)
        BY <3>1, <4>2
      <4>4. p.allows = GlobalOps(c)
        BY <4>3 DEF GlobalPolicy
      <4>5. GlobalOps(c) \subseteq Op
        BY DEF GlobalOps
      <4> QED
        BY <4>2, <4>3, <4>4, <4>5
    <3> QED
      BY <3>2, <3>3
  <2>3. Granted(c) = {op \in Op : op \in p.allows /\ Right(op) \in c.rights}
    <3>1. Granted(c) = {op \in Op : ModelPolicy(c, op) # {}}
      BY <1>1, <1>3
    <3> QED
      BY <2>2, <3>1 DEF ModelPolicy
  <2>4. Changeable(c) \subseteq p.writable
    BY <1>3, PolicyWithin
  <2>5. /\ d.operations = p.allows /\ d.fields = p.readable
        /\ "write" \in p.allows => d.writable = p.writable \cap p.readable
    BY <2>1
  <2>6. {op \in d.operations : Right(op) \in c.rights} = Granted(c)
    BY <2>2, <2>3, <2>5
  <2>7. "write" \in Granted(c) => "write" \in p.allows
    BY <2>3
  <2> QED
    BY <2>4, <2>5, <2>6, <2>7
<1>4. ASSUME Inv
      PROVE  AnswersAgree
  <2>1. Allowable(config)
    BY <1>4, ProfilesAssumption DEF Inv
  <2> QED
    BY <1>1, <1>2, <1>3, <2>1 DEF AnswersAgree
<1> QED
  BY <1>4, Invariance, PTL

\* What follows from a page on is as PagesAreComplete says, for every order,
\* whatever the order of each page among the records that tie.
THEOREM PagesAreCompleteHolds == Spec => []PagesAreComplete
<1>1. ASSUME Inv, NEW q \in Queries, NEW p \in Reader(config, "read", Named(q))
      PROVE  LET n == Least(q.limit, p.limit)
                 S == {r \in Record : /\ Read(config, records, q.fields, {r}) # {}
                                      /\ <<r, records[r]>> \in q.condition.holds}
                 At(i) == Pages(p, records, [q EXCEPT !.offset = i * n])
                 asked == {i \in 0 .. Cardinality(Record) : i * n <= MaxOffset}
             IN /\ n \in 1 .. config.maxRecords
                /\ Count(config, records, q.condition) = {Cardinality(S)}
                /\ \A page \in [asked -> UNION {At(i) : i \in asked}] :
                     (\A i \in asked : page[i] \in At(i)) => FollowedWell(q, n, S, page)
  <2> DEFINE n == Least(q.limit, p.limit)
             d == q.condition
             M == Matching(p, records, d)
             S == {r \in Record : /\ Read(config, records, q.fields, {r}) # {}
                                  /\ <<r, records[r]>> \in d.holds}
             At(i) == Pages(p, records, [q EXCEPT !.offset = i * n])
             asked == {i \in 0 .. Cardinality(Record) : i * n <= MaxOffset}
  <2>1. Allowable(config) /\ records \in States
    BY <1>1, ProfilesAssumption DEF Inv
  <2>2. p \in ModelPolicy(config, "read") /\ Named(q) \subseteq p.readable
    BY DEF Reader
  <2>3. /\ ModelPolicy(config, "read") = {p} /\ p.limit \in 1 .. config.maxRecords
        /\ config.maxRecords \in Nat
    BY <2>1, <2>2, OnePolicy
  <2>4. n \in 1 .. config.maxRecords /\ n \in Nat \ {0}
    BY <2>3, QueriesAssumption DEF Least
  <2>5. Reader(config, "read", q.fields) = {p} /\ Reader(config, "read", {}) = {p}
    BY <2>2, <2>3 DEF Reader, Named
  <2>6. S = M
    <3>1. ASSUME NEW r \in Record
          PROVE  Read(config, records, q.fields, {r}) # {} <=> r \in Governed(p, records)
      <4>1. Arrangements(ModelOrder, records, {r}) # {} /\ Cardinality({r}) = 1
        BY ArrangementOfOne, FS_Singleton
      <4>2. InPolicy(p, records, {r}) <=> r \in Governed(p, records)
        BY DEF InPolicy
      <4>3. Cardinality({r}) \in 1 .. p.limit
        BY <2>3, <4>1
      <4> QED
        BY <2>5, <4>1, <4>2, <4>3 DEF Read
    <3> QED
      BY <3>1 DEF Matching, Governed
  <2>7. Count(config, records, d) = {Cardinality(S)}
    BY <2>5, <2>6 DEF Count
  <2>8. PICK o : Sorting(q) = {o} /\ IsOrder(o)
    BY OrderAssumption, QueriesAssumption DEF Sorting
  <2>9. /\ IsFiniteSet(S) /\ Cardinality(S) <= Cardinality(Record) /\ Cardinality(Record) \in Nat
        /\ \A r \in S : o.key[<<r, records[r]>>] \in Int
    <3>1. \A r \in M : r \in Record /\ records[r] \in Value
      BY <2>1, <2>2, MatchingFacts, GovernedHolds
    <3>2. \A r \in M : o.key[<<r, records[r]>>] \in Int
      BY <2>8, <3>1 DEF IsOrder
    <3>3. IsFiniteSet(M) /\ Cardinality(M) <= Cardinality(Record) /\ Cardinality(Record) \in Nat
      BY MatchingFacts
    <3> HIDE DEF M, S
    <3> QED
      BY <2>6, <3>2, <3>3
  <2>10. ASSUME NEW i \in asked, NEW page \in At(i)
         PROVE  \E a \in Arrangements(o, records, S) : page = Page(a, i * n, n)
    <3> DEFINE next == [q EXCEPT !.offset = i * n]
    <3>1. /\ next.condition = q.condition /\ next.order = q.order
          /\ next.limit = q.limit /\ next.offset = i * n
      BY QueriesAssumption
    <3> HIDE DEF next, n
    <3>2. Sorting(next) = {o} /\ Found(p, records, next) = Arrangements(o, records, S)
      BY <2>6, <2>8, <3>1 DEF Sorting, Found
    <3>3. PICK a \in Found(p, records, next) : page = Page(a, next.offset, Least(next.limit, p.limit))
      BY DEF Pages, next
    <3> QED
      BY <3>1, <3>2, <3>3 DEF n
  <2>11. ASSUME NEW page \in [asked -> UNION {At(i) : i \in asked}],
                \A i \in asked : page[i] \in At(i)
         PROVE  FollowedWell(q, n, S, page)
    <3>1. DOMAIN page = asked
      OBVIOUS
    <3> HIDE DEF At, S, n
    <3>2. \A i \in DOMAIN page :
              \E a \in Arrangements(o, records, S) : page[i] = Page(a, i * n, n)
      BY <2>10, <2>11, <3>1
    <3> QED
      BY <2>4, <2>8, <2>9, <3>1, <3>2, Following
  <2> QED
    BY <2>4, <2>7, <2>11
<1>2. ASSUME Inv
      PROVE  PagesAreComplete
  BY <1>1, <1>2 DEF PagesAreComplete
<1> QED
  BY <1>2, Invariance, PTL

\* Reads are granted: every answer of a read is one that was granted, of fields
\* that are shown, about records in the scope.
LEMMA GrantedReads ==
    ASSUME NEW c, Allowable(c), NEW rs
    PROVE  /\ \A q : /\ Search(c, rs, q) # {} => "read" \in Granted(c) /\ Named(q) \subseteq Shown(c)
                     /\ Count(c, rs, q.condition) # {} => "read" \in Granted(c)
                     /\ Aggregate(c, rs, q.fields, q.condition) # {} =>
                            "aggregate" \in Granted(c) /\ q.fields \subseteq Shown(c)
           /\ \A fs, ids : Read(c, rs, fs, ids) # {} =>
                  /\ "read" \in Granted(c) /\ fs \subseteq Shown(c)
                  /\ Cardinality(ids) <= c.maxRecords /\ \A r \in ids : rs[r] \in Scope(c)
           /\ \A ids : RenderReport(c, rs, ids) # {} =>
                  /\ "read" \in Granted(c) /\ c.reports
                  /\ Cardinality(ids) <= c.maxRecords /\ \A r \in ids : rs[r] \in Scope(c)
           /\ \A r : ReadAttachment(c, rs, r) # {} =>
                  /\ "read" \in Granted(c) /\ c.attachments
                  /\ Cardinality({r}) <= c.maxRecords /\ rs[r] \in Scope(c)
<1>1. ASSUME NEW op \in Op, NEW fs, NEW p \in Reader(c, op, fs)
      PROVE  /\ op \in Granted(c) /\ fs \subseteq Shown(c) /\ p.domain = Scope(c)
             /\ \A k : k \in 1 .. p.limit => k <= c.maxRecords
             /\ p.limit \in Nat /\ p.limit >= 1 /\ c.maxRecords \in Nat /\ p.limit <= c.maxRecords
  <2>1. p.limit \in 1 .. c.maxRecords /\ c.maxRecords \in Nat
    BY OnePolicy DEF Reader
  <2> QED
    BY <2>1, ReaderFacts
<1>2. ASSUME NEW p, NEW ids, InPolicy(p, rs, ids), p.domain = Scope(c)
      PROVE  \A r \in ids : rs[r] \in Scope(c)
  BY <1>2 DEF InPolicy, Governed
<1>3. "read" \in Op /\ "aggregate" \in Op
  BY DEF Op
<1>4. ASSUME NEW q
      PROVE  /\ Search(c, rs, q) # {} => "read" \in Granted(c) /\ Named(q) \subseteq Shown(c)
             /\ Count(c, rs, q.condition) # {} => "read" \in Granted(c)
             /\ Aggregate(c, rs, q.fields, q.condition) # {} =>
                    "aggregate" \in Granted(c) /\ q.fields \subseteq Shown(c)
  <2>1. Search(c, rs, q) # {} => \E p : p \in Reader(c, "read", Named(q))
    BY DEF Search
  <2>2. Count(c, rs, q.condition) # {} => \E p : p \in Reader(c, "read", {})
    BY DEF Count
  <2>3. Aggregate(c, rs, q.fields, q.condition) # {} => \E p : p \in Reader(c, "aggregate", q.fields)
    BY DEF Aggregate
  <2> QED
    BY <1>1, <1>3, <2>1, <2>2, <2>3
<1>5. ASSUME NEW fs, NEW ids, Read(c, rs, fs, ids) # {}
      PROVE  /\ "read" \in Granted(c) /\ fs \subseteq Shown(c)
             /\ Cardinality(ids) <= c.maxRecords /\ \A r \in ids : rs[r] \in Scope(c)
  <2>1. PICK p \in Reader(c, "read", fs) : Cardinality(ids) \in 1 .. p.limit /\ InPolicy(p, rs, ids)
    BY <1>5 DEF Read
  <2> QED
    BY <1>1, <1>2, <1>3, <2>1
<1>6. ASSUME NEW ids, RenderReport(c, rs, ids) # {}
      PROVE  /\ "read" \in Granted(c) /\ c.reports
             /\ Cardinality(ids) <= c.maxRecords /\ \A r \in ids : rs[r] \in Scope(c)
  <2>1. PICK p \in Reader(c, "read", {}) :
            /\ c.reports /\ InPolicy(p, rs, ids)
            /\ Cardinality(ids) \in 1 .. Least(MaxReport, p.limit)
    BY <1>6 DEF RenderReport
  <2>2. p.limit \in Nat /\ c.maxRecords \in Nat /\ p.limit <= c.maxRecords
    BY <1>1, <1>3
  <2>3. Cardinality(ids) <= c.maxRecords
    <3>1. CASE MaxReport < p.limit
      <4>1. Cardinality(ids) \in 1 .. MaxReport
        BY <2>1, <3>1 DEF Least
      <4> QED
        BY <2>2, <3>1, <4>1, LimitsAssumption
    <3>2. CASE ~ (MaxReport < p.limit)
      <4>1. Cardinality(ids) \in 1 .. p.limit
        BY <2>1, <3>2 DEF Least
      <4> QED
        BY <2>2, <4>1
    <3> QED
      BY <3>1, <3>2
  <2> QED
    BY <1>1, <1>2, <1>3, <2>1, <2>3
<1>7. ASSUME NEW r, ReadAttachment(c, rs, r) # {}
      PROVE  /\ "read" \in Granted(c) /\ c.attachments
             /\ Cardinality({r}) <= c.maxRecords /\ rs[r] \in Scope(c)
  <2>1. PICK p \in Reader(c, "read", {}) : c.attachments /\ InPolicy(p, rs, {r})
    BY <1>7 DEF ReadAttachment
  <2>2. Cardinality({r}) = 1
    BY FS_Singleton
  <2>3. p.domain = Scope(c) /\ "read" \in Granted(c) /\ 1 <= c.maxRecords
    BY <1>1, <1>3
  <2>4. rs[r] \in Scope(c)
    BY <1>2, <2>1, <2>3
  <2> QED
    BY <2>1, <2>2, <2>3, <2>4
<1> QED
  BY <1>4, <1>5, <1>6, <1>7

\* Answers depend on what is in the scope and shown, and on what a condition, the
\* model's order and an update look at besides.
LEMMA AlikeAnswers ==
    ASSUME NEW c, Allowable(c), NEW rs, NEW os, NEW fs, Alike(c, rs, os, Shown(c) \cup fs)
    PROVE  /\ \A q \in Queries : /\ q.condition.fields \subseteq fs
                                 /\ q.order = {} => ModelOrder.fields \subseteq fs
                                 => Search(c, os, q) = Search(c, rs, q)
           /\ \A q \in Queries : q.condition.fields \subseteq fs =>
                  /\ Count(c, os, q.condition) = Count(c, rs, q.condition)
                  /\ Aggregate(c, os, q.fields, q.condition) = Aggregate(c, rs, q.fields, q.condition)
           /\ ModelOrder.fields \subseteq fs =>
                  \A shown, ids : Read(c, os, shown, ids) = Read(c, rs, shown, ids)
           /\ \A pl \in Payloads : Seen(pl) \subseteq fs => Diff(c, os, pl) = Diff(c, rs, pl)
<1> DEFINE all == Shown(c) \cup fs
<1>1. Alike(c, rs, os, all) /\ fs \subseteq all /\ Shown(c) \subseteq all
  OBVIOUS
<1> HIDE DEF all
<1>2. ASSUME NEW op, NEW p \in ModelPolicy(c, op)
      PROVE  p.domain = Scope(c) /\ Scope(c) \subseteq Value /\ Governed(p, rs) = Governed(p, os)
  <2>1. p.domain = Scope(c) /\ Scope(c) \subseteq Value
    BY GovernedHolds
  <2> QED
    BY <1>1, <2>1, AlikeListings
<1>3. ASSUME NEW op, NEW p \in ModelPolicy(c, op), NEW d, IsCondition(d), d.fields \subseteq all
      PROVE  Matching(p, rs, d) = Matching(p, os, d)
  BY <1>1, <1>2, <1>3, AlikeListings
<1>4. ASSUME NEW op, NEW p \in ModelPolicy(c, op), NEW o, IsOrder(o), o.fields \subseteq all,
             NEW S, S \subseteq Governed(p, rs)
      PROVE  Arrangements(o, rs, S) = Arrangements(o, os, S)
  BY <1>1, <1>2, <1>4, AlikeListings
<1>5. ASSUME NEW op \in Op, NEW shown, NEW p \in Reader(c, op, shown)
      PROVE  /\ p \in ModelPolicy(c, op) /\ shown \subseteq all
             /\ \A sh : sh \subseteq shown =>
                   /\ \A r \in Governed(p, rs) : Contents(sh, rs[r]) = Contents(sh, os[r])
                   /\ \A list : (\A j \in DOMAIN list : list[j] \in Governed(p, rs))
                                => Rows(sh, rs, list) = Rows(sh, os, list)
  <2>1. p \in ModelPolicy(c, op) /\ shown \subseteq all
    BY <1>1, ReaderFacts
  <2>2. p.domain = Scope(c)
    BY <1>2, <2>1
  <2>3. ASSUME NEW sh, sh \subseteq shown
        PROVE  /\ \A r \in Governed(p, rs) : Contents(sh, rs[r]) = Contents(sh, os[r])
               /\ \A list : (\A j \in DOMAIN list : list[j] \in Governed(p, rs))
                            => Rows(sh, rs, list) = Rows(sh, os, list)
    <3>1. sh \subseteq all
      BY <2>1, <2>3
    <3>2. \A r \in Governed(p, rs) : Contents(sh, rs[r]) = Contents(sh, os[r])
      BY <1>1, <2>2, <3>1 DEF Governed, Alike, Agree, Contents
    <3>3. \A list : (\A j \in DOMAIN list : list[j] \in Governed(p, rs))
                   => Rows(sh, rs, list) = Rows(sh, os, list)
      BY <1>1, <2>2, <3>1, AlikeRows
    <3> QED
      BY <3>2, <3>3
  <2> QED
    BY <2>1, <2>3
<1>6. "read" \in Op /\ "aggregate" \in Op
  BY DEF Op
<1>7. ASSUME NEW q \in Queries, q.condition.fields \subseteq fs,
             q.order = {} => ModelOrder.fields \subseteq fs
      PROVE  Search(c, os, q) = Search(c, rs, q)
  <2>1. ASSUME NEW p \in Reader(c, "read", Named(q))
        PROVE  /\ Pages(p, os, q) = Pages(p, rs, q)
               /\ \A page \in Pages(p, rs, q) : Rows(q.fields, rs, page.ids) = Rows(q.fields, os, page.ids)
    <3>1. p \in ModelPolicy(c, "read") /\ Named(q) \subseteq all
      BY <1>5, <1>6
    <3>2. Matching(p, rs, q.condition) = Matching(p, os, q.condition)
      <4>1. q.condition.fields \subseteq all /\ IsCondition(q.condition)
        BY <1>1, <1>7, QueriesAssumption
      <4> QED
        BY <1>3, <3>1, <4>1
    <3>3. ASSUME NEW o \in Sorting(q)
          PROVE  Arrangements(o, rs, Matching(p, rs, q.condition))
                     = Arrangements(o, os, Matching(p, rs, q.condition))
      <4>1. IsOrder(o) /\ o.fields \subseteq all
        <5>1. CASE q.order = {}
          BY <1>1, <1>7, <5>1, OrderAssumption DEF Sorting
        <5>2. CASE q.order # {}
          BY <3>1, <5>2, QueriesAssumption DEF Sorting, Named
        <5> QED
          BY <5>1, <5>2
      <4>2. Matching(p, rs, q.condition) \subseteq Governed(p, rs)
        BY MatchingFacts
      <4> QED
        BY <1>4, <3>1, <4>1, <4>2
    <3>4. Found(p, rs, q) = Found(p, os, q)
      BY <3>2, <3>3 DEF Found
    <3>5. Pages(p, os, q) = Pages(p, rs, q)
      BY <3>4 DEF Pages
    <3>6. ASSUME NEW page \in Pages(p, rs, q)
          PROVE  Rows(q.fields, rs, page.ids) = Rows(q.fields, os, page.ids)
      <4>1. q.offset \in Nat /\ Least(q.limit, p.limit) \in Nat
        BY <3>1, OnePolicy, QueriesAssumption DEF Least
      <4>2. \A j \in DOMAIN page.ids : page.ids[j] \in Governed(p, rs)
        BY <4>1, PageWithin
      <4>3. q.fields \subseteq Named(q)
        BY DEF Named
      <4> QED
        BY <1>5, <1>6, <4>2, <4>3
    <3> QED
      BY <3>5, <3>6
  <2> QED
    BY <2>1 DEF Search
<1>8. ASSUME NEW q \in Queries, q.condition.fields \subseteq fs
      PROVE  /\ Count(c, os, q.condition) = Count(c, rs, q.condition)
             /\ Aggregate(c, os, q.fields, q.condition) = Aggregate(c, rs, q.fields, q.condition)
  <2> DEFINE d == q.condition
  <2>1. d.fields \subseteq all /\ IsCondition(d)
    BY <1>1, <1>8, QueriesAssumption
  <2> HIDE DEF d
  <2>2. \A p \in Reader(c, "read", {}) : Matching(p, rs, d) = Matching(p, os, d)
    BY <1>3, <1>5, <1>6, <2>1
  <2>3. Count(c, os, d) = Count(c, rs, d)
    BY <2>2 DEF Count
  <2>4. ASSUME NEW p \in Reader(c, "aggregate", q.fields)
        PROVE  [r \in Matching(p, rs, d) |-> Contents(q.fields, rs[r])]
                   = [r \in Matching(p, os, d) |-> Contents(q.fields, os[r])]
    <3>1. Matching(p, rs, d) = Matching(p, os, d) /\ Matching(p, rs, d) \subseteq Governed(p, rs)
      BY <1>3, <1>5, <1>6, <2>1, MatchingFacts
    <3>2. \A r \in Governed(p, rs) : Contents(q.fields, rs[r]) = Contents(q.fields, os[r])
      BY <1>5, <1>6
    <3> QED
      BY <3>1, <3>2
  <2>5. Aggregate(c, os, q.fields, d) = Aggregate(c, rs, q.fields, d)
    BY <2>4 DEF Aggregate
  <2> QED
    BY <2>3, <2>5 DEF d
<1>9. ASSUME ModelOrder.fields \subseteq fs, NEW shown, NEW ids
      PROVE  Read(c, os, shown, ids) = Read(c, rs, shown, ids)
  <2>1. ASSUME NEW p \in Reader(c, "read", shown)
        PROVE  /\ InPolicy(p, rs, ids) <=> InPolicy(p, os, ids)
               /\ InPolicy(p, rs, ids) => Arrangements(ModelOrder, rs, ids) = Arrangements(ModelOrder, os, ids)
               /\ InPolicy(p, rs, ids) => \A list \in Arrangements(ModelOrder, rs, ids) :
                                              Rows(shown, rs, list) = Rows(shown, os, list)
    <3>1. p \in ModelPolicy(c, "read") /\ Governed(p, rs) = Governed(p, os)
      BY <1>2, <1>5, <1>6
    <3>2. ASSUME InPolicy(p, rs, ids)
          PROVE  Arrangements(ModelOrder, rs, ids) = Arrangements(ModelOrder, os, ids)
      BY <1>1, <1>4, <1>9, <3>1, <3>2, OrderAssumption DEF InPolicy
    <3>3. ASSUME InPolicy(p, rs, ids), NEW list \in Arrangements(ModelOrder, rs, ids)
          PROVE  Rows(shown, rs, list) = Rows(shown, os, list)
      <4>1. \A j \in DOMAIN list : list[j] \in Governed(p, rs)
        BY <3>3 DEF Arrangements, Injection, InPolicy
      <4> QED
        BY <1>5, <1>6, <4>1
    <3> QED
      BY <3>1, <3>2, <3>3 DEF InPolicy
  <2>2. ASSUME NEW p \in Reader(c, "read", shown), Cardinality(ids) \in 1 .. p.limit
        PROVE  InPolicy(p, rs, ids) =>
                   {Rows(shown, os, list) : list \in Arrangements(ModelOrder, os, ids)}
                       = {Rows(shown, rs, list) : list \in Arrangements(ModelOrder, rs, ids)}
    BY <2>1
  <2> QED
    BY <2>1 DEF Read
<1>10. ASSUME NEW pl \in Payloads, Seen(pl) \subseteq fs
       PROVE  Diff(c, os, pl) = Diff(c, rs, pl)
  <2>1. \A op : \A p \in ModelPolicy(c, op) : InPolicy(p, rs, pl.ids) <=> InPolicy(p, os, pl.ids)
    BY <1>2 DEF InPolicy
  <2>2. Prepare(c, rs, pl) <=> Prepare(c, os, pl)
    BY <2>1 DEF Prepare, PrepareUpdate, PrepareDelete, PrepareOnRecord, PrepareMethod
  <2>3. ASSUME Prepare(c, rs, pl), NEW r \in pl.ids
        PROVE  Contents(Seen(pl), rs[r]) = Contents(Seen(pl), os[r])
    <3>1. CASE pl.action = "record.create"
      <4>1. Seen(pl) = {}
        BY <3>1 DEF Seen
      <4> QED
        BY <4>1 DEF Contents
    <3>2. CASE pl.action # "record.create"
      <4>1. r \in Record /\ rs[r] \in Scope(c)
        BY <2>3, <3>2, PreparedWithin, PayloadsAssumption
      <4>2. Agree(rs[r], os[r], Seen(pl))
        BY <1>1, <1>10, <4>1 DEF Alike, Agree
      <4> QED
        BY <4>2 DEF Agree, Contents
    <3> QED
      BY <3>1, <3>2
  <2> QED
    BY <2>2, <2>3 DEF Diff
<1> QED
  BY <1>7, <1>8, <1>9, <1>10

\* Every answer is one that was granted, of fields that are shown; and what a
\* record holds that is neither in the scope nor shown makes no difference to any,
\* unless the client's condition, the model's order or the diff of an update look
\* at it: whatever the profile, the records and the request.
THEOREM ReadsStayInPolicyHolds == Spec => []ReadsStayInPolicy
<1>1. ASSUME Inv
      PROVE  ReadsAreGranted
  <2>1. Allowable(config)
    BY <1>1, ProfilesAssumption DEF Inv
  <2>2. \A r : \A s \in {r} : s = r
    OBVIOUS
  <2> QED
    BY <2>1, <2>2, GrantedReads DEF ReadsAreGranted
<1>2. ASSUME Inv, NEW r \in Record, NEW v \in Value \cup {Gone}, NEW fs,
             NEW others, others = [records EXCEPT ![r] = v],
             \/ {records[r], v} \cap Scope(config) = {}
             \/ /\ {records[r], v} \subseteq Scope(config)
                /\ Agree(records[r], v, Shown(config) \cup fs)
      PROVE  Alike(config, records, others, Shown(config) \cup fs)
  <2>1. others[r] = v /\ \A s \in Record \ {r} : others[s] = records[s]
    BY <1>2 DEF Inv, States
  <2> QED
    BY <1>2, <2>1 DEF Alike, Agree
<1>3. ASSUME Inv, NEW r \in Record, NEW v \in Value \cup {Gone},
             NEW others, others = [records EXCEPT ![r] = v]
      PROVE  LET Hidden(fs) ==
                     \/ {records[r], v} \cap Scope(config) = {}
                     \/ /\ {records[r], v} \subseteq Scope(config)
                        /\ Agree(records[r], v, Shown(config) \cup fs)
                 ByModel(q) == IF q.order = {} THEN ModelOrder.fields ELSE {}
             IN /\ \A q \in Queries :
                     LET d == q.condition IN
                     /\ Hidden(d.fields \cup ByModel(q)) =>
                             Search(config, others, q) = Search(config, records, q)
                     /\ Hidden(d.fields) =>
                         /\ Count(config, others, d) = Count(config, records, d)
                         /\ Aggregate(config, others, q.fields, d) = Aggregate(config, records, q.fields, d)
                /\ Hidden(ModelOrder.fields) =>
                     \A fs \in Requested, ids \in SUBSET Record :
                         Read(config, others, fs, ids) = Read(config, records, fs, ids)
                /\ \A pl \in Payloads :
                     Hidden(Seen(pl)) => Diff(config, others, pl) = Diff(config, records, pl)
  <2> DEFINE Hidden(fs) ==
                 \/ {records[r], v} \cap Scope(config) = {}
                 \/ /\ {records[r], v} \subseteq Scope(config)
                    /\ Agree(records[r], v, Shown(config) \cup fs)
             ByModel(q) == IF q.order = {} THEN ModelOrder.fields ELSE {}
  <2>1. Allowable(config)
    BY <1>3, ProfilesAssumption DEF Inv
  <2>2. ASSUME NEW fs, Hidden(fs)
        PROVE  Alike(config, records, others, Shown(config) \cup fs)
    BY <1>2, <1>3, <2>2
  <2> HIDE DEF Hidden
  <2>3. ASSUME NEW q \in Queries, Hidden(q.condition.fields \cup ByModel(q))
        PROVE  Search(config, others, q) = Search(config, records, q)
    <3> DEFINE fs == q.condition.fields \cup ByModel(q)
    <3>1. q.condition.fields \subseteq fs /\ (q.order = {} => ModelOrder.fields \subseteq fs)
      OBVIOUS
    <3>2. Alike(config, records, others, Shown(config) \cup fs)
      BY <2>2, <2>3
    <3> HIDE DEF fs
    <3>3. \A x \in Queries : /\ x.condition.fields \subseteq fs
                             /\ x.order = {} => ModelOrder.fields \subseteq fs
                             => Search(config, others, x) = Search(config, records, x)
      BY <2>1, <3>2, AlikeAnswers
    <3> QED
      BY <3>1, <3>3
  <2>4. ASSUME NEW q \in Queries, Hidden(q.condition.fields)
        PROVE  /\ Count(config, others, q.condition) = Count(config, records, q.condition)
               /\ Aggregate(config, others, q.fields, q.condition)
                      = Aggregate(config, records, q.fields, q.condition)
    <3>1. Alike(config, records, others, Shown(config) \cup q.condition.fields)
      BY <2>2, <2>4
    <3> QED
      BY <2>1, <3>1, AlikeAnswers
  <2>5. ASSUME NEW fs, NEW ids, Hidden(ModelOrder.fields)
        PROVE  Read(config, others, fs, ids) = Read(config, records, fs, ids)
    <3> DEFINE byModel == ModelOrder.fields
    <3>1. ModelOrder.fields \subseteq byModel
      OBVIOUS
    <3>2. Alike(config, records, others, Shown(config) \cup byModel)
      BY <2>2, <2>5
    <3> HIDE DEF byModel
    <3>3. \A shown, named : Read(config, others, shown, named) = Read(config, records, shown, named)
      BY <2>1, <3>1, <3>2, AlikeAnswers
    <3> QED
      BY <3>3
  <2>6. ASSUME NEW pl \in Payloads, Hidden(Seen(pl))
        PROVE  Diff(config, others, pl) = Diff(config, records, pl)
    <3>1. Alike(config, records, others, Shown(config) \cup Seen(pl))
      BY <2>2, <2>6
    <3> QED
      BY <2>1, <3>1, AlikeAnswers
  <2> QED
    BY <2>3, <2>4, <2>5, <2>6 DEF Hidden
<1>4. ASSUME Inv
      PROVE  HiddenStaysHidden
  BY <1>3, <1>4 DEF HiddenStaysHidden
<1>5. ASSUME Inv
      PROVE  ReadsStayInPolicy
  BY <1>1, <1>4, <1>5 DEF ReadsStayInPolicy
<1> QED
  BY <1>5, Invariance, PTL

\* What a profile approves by itself leaves every business record as it is:
\* only a manager's approval lets a plan change one.
THEOREM ManagersDecideHolds == Spec => ManagersDecide
<1>1. ASSUME Inv, [Next]_vars
      PROVE  [Executes /\ records' # records => plan.by = "manager"]_vars
  <2>1. SUFFICES ASSUME Executes, plan.by # "manager"
                 PROVE  records' = records
    OBVIOUS
  <2>2. Commits
    BY <1>1, <2>1, ExecutesCommits
  <2>3. PICK v \in [config : Profiles, records : States] :
            \E new \in Outcomes(v.records, plan.payload) :
                records' = [r \in Record |-> IF r \in Writes(plan.payload, new)
                                             THEN new.records[r] ELSE records[r]]
    BY <1>1, <2>2, CommitFacts
  <2>4. PICK new \in Outcomes(v.records, plan.payload) :
            records' = [r \in Record |-> IF r \in Writes(plan.payload, new)
                                         THEN new.records[r] ELSE records[r]]
    BY <2>3
  <2>5. plan.payload.action \in {"message.post", "activity.schedule"}
    BY <1>1, <2>1 DEF Executes, Inv, PlanInv, Planned
  <2>6. Writes(plan.payload, new) = {}
    BY <2>5 DEF Writes, OnRecord
  <2> QED
    BY <1>1, <2>4, <2>6 DEF Inv, States
<1> QED
  BY <1>1, Invariance, PTL DEF Spec, ManagersDecide

\* However long ago a plan was made and whatever has been edited since, what it
\* does was granted when its execution began, to records in the scope, and what it
\* creates or updates stays there, within the limits of that moment; a method is
\* called only if it was allowed, on records in the scope, whatever it does then.
THEOREM ChangesStayInPolicyHolds == Spec => ChangesStayInPolicy
<1>1. ASSUME Inv, [Next]_vars, Executes, NEW v \in view
      PROVE  StaysInPolicy(v)
  <2> DEFINE c == v.config
             pl == plan.payload
             created == {r \in Record : records[r] = Gone /\ records'[r] # Gone}
  <2>1. PICK new \in Outcomes(v.records, pl) :
            LET written == Writes(pl, new) IN
            /\ v \in [config : Profiles, records : States] /\ plan \in Planned
            /\ \A r \in Record \ dirty : v.records[r] = records[r]
            /\ Allowable(c)
            /\ Prepare(c, v.records, pl)
            /\ Postcondition(c, pl, new)
            /\ written \cap dirty = {}
            /\ records' = [r \in Record |-> IF r \in written THEN new.records[r] ELSE records[r]]
    <3>1. Commits
      BY <1>1, ExecutesCommits
    <3>2. PICK w \in [config : Profiles, records : States] :
              \E new \in Outcomes(w.records, pl) :
                LET written == Writes(pl, new) IN
                /\ view = {w} /\ plan \in Planned
                /\ \A r \in Record \ dirty : w.records[r] = records[r]
                /\ Allowable(w.config)
                /\ Prepare(w.config, w.records, pl)
                /\ Postcondition(w.config, pl, new)
                /\ written \cap dirty = {}
                /\ records' = [r \in Record |-> IF r \in written THEN new.records[r] ELSE records[r]]
      BY <1>1, <3>1, CommitFacts
    <3>3. v = w
      BY <1>1, <3>2
    <3> QED
      BY <3>2, <3>3
  <2>2. /\ Needs(pl) \in Granted(c)
        /\ pl.action # "record.create" => \A r \in pl.ids : v.records[r] \in Scope(c)
        /\ pl.action \in {"record.create", "record.update"} => pl.fields \subseteq Changeable(c)
        /\ pl.action = "record.create" => pl.count \in 1 .. c.maxBatch
        /\ pl.action \notin {"record.create", "method.call"} => Cardinality(pl.ids) <= c.maxBatch
        /\ pl.action \in OnRecord => pl.action \in c.features /\ Cardinality(pl.ids) = 1
        /\ pl.action = "method.call" =>
               \E m \in c.method : /\ m.active /\ Cardinality(pl.ids) <= m.maxRecords
                                   /\ pl.ids = {} => m.allowModelMethod
    BY <2>1, PreparedWithin
  <2>3. /\ new.records \in States /\ new.ids \subseteq Record /\ pl.ids \subseteq Record
        /\ pl.action = "record.create" =>
               Cardinality(new.ids) = pl.count /\ \A r \in new.ids : v.records[r] = Gone
        /\ pl.action \in {"record.update", "record.delete"} => new.ids = pl.ids
    <3>1. pl.ids \subseteq Record /\ v.records \in States
      BY <2>1, PayloadsAssumption DEF Planned
    <3> QED
      BY <3>1, OutcomeFacts
  \* What is written was nobody else's, and is as the action left it.
  <2>4. ASSUME pl.action \notin OnRecord, NEW r \in new.ids
        PROVE  records[r] = v.records[r] /\ records'[r] = new.records[r]
    BY <2>1, <2>3, <2>4 DEF Writes
  <2>5. ASSUME pl.action \in {"record.create", "record.update"}, NEW r \in new.ids
        PROVE  records'[r] \in Scope(c)
    <3> DEFINE op == IF pl.action = "record.create" THEN "create" ELSE "write"
    <3>1. PICK p : p \in ModelPolicy(c, op)
      BY <2>1, <2>5 DEF Prepare, PrepareCreate, PrepareUpdate, OnRecord
    <3>2. InPolicy(p, new.records, new.ids)
      BY <2>1, <2>5, <3>1 DEF Postcondition
    <3>3. p.domain = Scope(c)
      BY <2>1, <3>1, PolicyWithin
    <3>4. new.records[r] \in Scope(c)
      BY <2>5, <3>2, <3>3 DEF InPolicy, Governed
    <3> QED
      BY <2>4, <2>5, <3>4 DEF OnRecord
  <2>6. CASE pl.action = "record.create"
    <3>1. created \subseteq new.ids
      BY <2>1, <2>6 DEF Writes, OnRecord
    <3>2. Cardinality(created) <= c.maxBatch
      <4>1. IsFiniteSet(new.ids)
        BY <2>3, FS_Subset
      <4>2. /\ Cardinality(created) <= Cardinality(new.ids)
            /\ Cardinality(created) \in Nat
        BY <3>1, <4>1, FS_Subset, FS_CardinalityType
      <4>3. Cardinality(new.ids) \in 1 .. c.maxBatch /\ c.maxBatch \in Nat
        BY <2>1, <2>2, <2>3, <2>6 DEF Allowable
      <4> QED
        BY <4>2, <4>3
    <3>3. \A r \in created : records'[r] \in Scope(c)
      BY <2>5, <2>6, <3>1
    <3> QED
      BY <2>2, <2>6, <3>2, <3>3 DEF StaysInPolicy, OnRecord
  <2>7. CASE pl.action \in {"record.update", "record.delete"}
    <3>1. \A r \in pl.ids : records[r] \in Scope(c)
      BY <2>2, <2>3, <2>4, <2>7 DEF OnRecord
    <3>2. pl.action = "record.update" => \A r \in pl.ids : records'[r] \in Scope(c)
      BY <2>3, <2>5, <2>7
    <3> QED
      BY <2>2, <2>7, <3>1, <3>2 DEF StaysInPolicy, OnRecord
  <2>8. CASE pl.action \notin {"record.create", "record.update", "record.delete"}
    BY <2>2, <2>8 DEF StaysInPolicy
  <2> QED
    BY <2>6, <2>7, <2>8
<1>2. ASSUME Inv, [Next]_vars
      PROVE  [Executes => \A v \in view : StaysInPolicy(v)]_vars
  BY <1>1, <1>2
<1> QED
  BY <1>2, Invariance, PTL DEF Spec, ChangesStayInPolicy
================================================================================
