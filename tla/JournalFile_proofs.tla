------------------------- MODULE JournalFile_proofs -------------------------
(***************************************************************************)
(* What the operators of JournalFile return: the lemmas the proofs about   *)
(* the journals rest on.                                                   *)
(***************************************************************************)
EXTENDS JournalFile, Functions, SequenceTheorems, FiniteSetTheorems,
        NaturalsInduction, WellFoundedInduction, TLAPS

\* Retention keeps a sequence of at most n entries of s.
LEMMA NewestType ==
    ASSUME NEW R, NEW s \in Seq(R), NEW n \in Nat
    PROVE  /\ Newest(s, n) \in Seq(R)
           /\ Len(Newest(s, n)) = IF Len(s) <= n THEN Len(s) ELSE n
<1>1. CASE Len(s) <= n
  BY <1>1, LenProperties DEF Newest
<1>2. CASE ~(Len(s) <= n)
  <2>1. /\ Len(s) \in Nat
        /\ Len(s) - n + 1 \in 1..Len(s) + 1
        /\ \A i \in (Len(s) - n + 1)..Len(s) : s[i] \in R
    BY <1>2, LenProperties, ElementOfSeq
  <2>2. /\ SubSeq(s, Len(s) - n + 1, Len(s)) \in Seq(R)
        /\ Len(SubSeq(s, Len(s) - n + 1, Len(s)))
             = IF Len(s) - n + 1 <= Len(s) THEN Len(s) - (Len(s) - n + 1) + 1 ELSE 0
    BY <2>1, SubSeqProperties
  <2>. QED  BY <1>2, <2>1, <2>2 DEF Newest
<1>. QED  BY <1>1, <1>2

\* The entries retention keeps are the last ones, in their order.
LEMMA NewestElement ==
    ASSUME NEW R, NEW s \in Seq(R), NEW n \in Nat, n <= Len(s),
           NEW i \in 1..n
    PROVE  Newest(s, n)[i] = s[Len(s) - n + i]
<1>1. Len(s) \in Nat
  BY LenProperties
<1>2. CASE Len(s) = n
  BY <1>1, <1>2 DEF Newest
<1>3. CASE Len(s) > n
  <2>1. \A j \in (Len(s) - n + 1)..Len(s) : s[j] \in R
    BY <1>1, <1>3, ElementOfSeq
  <2>2. \A j \in 1..(Len(s) - (Len(s) - n + 1) + 1) :
          SubSeq(s, Len(s) - n + 1, Len(s))[j] = s[(Len(s) - n + 1) + j - 1]
    BY <1>1, <2>1, SubSeqProperties
  <2>3. i \in 1..(Len(s) - (Len(s) - n + 1) + 1)
    BY <1>1
  <2>4. SubSeq(s, Len(s) - n + 1, Len(s))[i] = s[(Len(s) - n + 1) + i - 1]
    BY <2>2, <2>3
  <2>5. (Len(s) - n + 1) + i - 1 = Len(s) - n + i
    BY <1>1
  <2>. QED  BY <1>1, <1>3, <2>4, <2>5 DEF Newest
<1>. QED  BY <1>1, <1>2, <1>3

\* All of s is its Len(s) newest entries.
LEMMA NewestAll ==
    ASSUME NEW R, NEW s \in Seq(R)
    PROVE  Newest(s, Len(s)) = s
BY LenProperties DEF Newest

\* Retaining again keeps the newest entries of the first sequence.
LEMMA NewestOfNewest ==
    ASSUME NEW R, NEW s \in Seq(R), NEW n \in Nat, NEW m \in Nat,
           m <= n, n <= Len(s)
    PROVE  Newest(Newest(s, n), m) = Newest(s, m)
<1>1. Len(s) \in Nat
  BY LenProperties
<1>2. /\ Newest(s, n) \in Seq(R)
      /\ Len(Newest(s, n)) = n
  BY <1>1, NewestType
<1>3. /\ Newest(Newest(s, n), m) \in Seq(R)
      /\ Len(Newest(Newest(s, n), m)) = m
  BY <1>2, NewestType
<1>4. /\ Newest(s, m) \in Seq(R)
      /\ Len(Newest(s, m)) = m
  BY <1>1, NewestType
<1>5. ASSUME NEW i \in 1..m
      PROVE  Newest(Newest(s, n), m)[i] = Newest(s, m)[i]
  <2>1. Newest(Newest(s, n), m)[i] = Newest(s, n)[n - m + i]
    BY <1>2, NewestElement
  <2>2. n - m + i \in 1..n
    OBVIOUS
  <2>3. Newest(s, n)[n - m + i] = s[Len(s) - n + (n - m + i)]
    BY <2>2, NewestElement
  <2>4. Newest(s, m)[i] = s[Len(s) - m + i]
    <3>1. m <= Len(s)
      BY <1>1
    <3>. QED  BY <3>1, NewestElement
  <2>5. Len(s) - n + (n - m + i) = Len(s) - m + i
    BY <1>1
  <2>. QED  BY <2>1, <2>3, <2>4, <2>5
<1>. QED  BY <1>3, <1>4, <1>5, SeqEqual

\* Appending extends an unbroken run of the newest entries by one.
LEMMA NewestAppend ==
    ASSUME NEW R, NEW s \in Seq(R), NEW r \in R, NEW n \in Nat, n <= Len(s)
    PROVE  Append(Newest(s, n), r) = Newest(Append(s, r), n + 1)
<1>1. Len(s) \in Nat
  BY LenProperties
<1>2. /\ Newest(s, n) \in Seq(R)
      /\ Len(Newest(s, n)) = n
  BY <1>1, NewestType
<1>3. /\ Append(s, r) \in Seq(R)
      /\ Len(Append(s, r)) = Len(s) + 1
      /\ \A i \in 1..Len(s) : Append(s, r)[i] = s[i]
      /\ Append(s, r)[Len(s) + 1] = r
  BY AppendProperties
<1>4. /\ Append(Newest(s, n), r) \in Seq(R)
      /\ Len(Append(Newest(s, n), r)) = n + 1
      /\ \A i \in 1..n : Append(Newest(s, n), r)[i] = Newest(s, n)[i]
      /\ Append(Newest(s, n), r)[n + 1] = r
  BY <1>2, AppendProperties
<1>7. /\ n + 1 \in Nat
      /\ n + 1 <= Len(Append(s, r))
  BY <1>1, <1>3
<1>5. /\ Newest(Append(s, r), n + 1) \in Seq(R)
      /\ Len(Newest(Append(s, r), n + 1)) = n + 1
  <2>1. /\ Newest(Append(s, r), n + 1) \in Seq(R)
        /\ Len(Newest(Append(s, r), n + 1))
             = IF Len(Append(s, r)) <= n + 1 THEN Len(Append(s, r)) ELSE n + 1
    BY <1>3, <1>7, NewestType
  <2>. QED  BY <1>1, <1>3, <1>7, <2>1
<1>6. ASSUME NEW i \in 1..(n + 1)
      PROVE  Append(Newest(s, n), r)[i] = Newest(Append(s, r), n + 1)[i]
  <2>1. Newest(Append(s, r), n + 1)[i] = Append(s, r)[(Len(s) + 1) - (n + 1) + i]
    <3>1. Newest(Append(s, r), n + 1)[i]
            = Append(s, r)[Len(Append(s, r)) - (n + 1) + i]
      BY <1>3, <1>7, NewestElement
    <3>. QED  BY <1>3, <3>1
  <2>2. (Len(s) + 1) - (n + 1) + i = Len(s) - n + i
    BY <1>1
  <2>3. CASE i = n + 1
    BY <1>1, <1>3, <1>4, <2>1, <2>2, <2>3
  <2>4. CASE i \in 1..n
    <3>1. Newest(s, n)[i] = s[Len(s) - n + i]
      BY <2>4, NewestElement
    <3>2. Len(s) - n + i \in 1..Len(s)
      BY <1>1, <2>4
    <3>. QED  BY <1>3, <1>4, <2>1, <2>2, <2>4, <3>1, <3>2
  <2>5. i = n + 1 \/ i \in 1..n
    OBVIOUS
  <2>. QED  BY <2>3, <2>4, <2>5
<1>. QED  BY <1>4, <1>5, <1>6, SeqEqual

\* The elements of a sequence over R are in R.
LEMMA RangeType ==
    ASSUME NEW R, NEW s \in Seq(R)
    PROVE  Range(s) \subseteq R
<1>1. DOMAIN s = 1..Len(s) /\ \A i \in 1..Len(s) : s[i] \in R
  BY LenProperties, ElementOfSeq
<1>. QED  BY <1>1, Zenon DEF Range

\* Appending an element adds it to the elements of a sequence.
LEMMA RangeAppend ==
    ASSUME NEW R, NEW s \in Seq(R), NEW r \in R
    PROVE  Range(Append(s, r)) = Range(s) \cup {r}
<1>1. /\ Len(s) \in Nat
      /\ DOMAIN s = 1..Len(s)
  BY LenProperties
<1>2. /\ Append(s, r) \in Seq(R)
      /\ Len(Append(s, r)) = Len(s) + 1
      /\ \A i \in 1..Len(s) : Append(s, r)[i] = s[i]
      /\ Append(s, r)[Len(s) + 1] = r
  BY AppendProperties
<1>3. DOMAIN Append(s, r) = 1..(Len(s) + 1)
  BY <1>2, LenProperties
<1>4. /\ \A i \in 1..(Len(s) + 1) : i \in 1..Len(s) \/ i = Len(s) + 1
      /\ \A i \in 1..Len(s) : i \in 1..(Len(s) + 1)
      /\ Len(s) + 1 \in 1..(Len(s) + 1)
  BY <1>1
<1>. QED  BY <1>1, <1>2, <1>3, <1>4, Zenon DEF Range

\* A set of natural numbers has a smallest element: the form in which the proofs
\* below take an induction.
LEMMA SmallestIn ==
    ASSUME NEW T, T \subseteq Nat, T # {}
    PROVE  \E m \in T : \A k \in T : m <= k
<1>. DEFINE Less == {p \in Nat \X Nat : p[1] < p[2]}
<1>1. IsWellFoundedOn(Less, Nat)
  BY NatLessThanWellFounded DEF OpToRel
<1>2. \A x, y \in Nat : x < y => <<x, y>> \in Less
  OBVIOUS
<1>. HIDE DEF Less
<1>3. \E x \in T : \A y \in T : <<y, x>> \notin Less
  BY <1>1, WFMin
<1>4. \A x, y \in Nat : <<x, y>> \notin Less => y <= x
  BY <1>2
<1>. QED  BY <1>3, <1>4

\* How many of the places K there are up to i.
Rank(K, i) == Cardinality({j \in K : j <= i})

\* A set of places is finite.
LEMMA PlacesFinite ==
    ASSUME NEW n \in Nat, NEW K, K \subseteq 1..n
    PROVE  /\ IsFiniteSet(K)
           /\ Cardinality(K) \in Nat
           /\ Cardinality(K) <= n
           /\ Cardinality(K) = n => K = 1..n
<1>1. IsFiniteSet(1..n) /\ Cardinality(1..n) = n
  <2>1. 1 \in Int /\ n \in Int /\ ~(1 > n) => n - 1 + 1 = n
    OBVIOUS
  <2>2. IsFiniteSet(1..n) /\ Cardinality(1..n) = IF 1 > n THEN 0 ELSE n - 1 + 1
    BY FS_Interval
  <2>. QED  BY <2>1, <2>2
<1>2. K \in SUBSET (1..n)
  OBVIOUS
<1>3. /\ IsFiniteSet(K)
      /\ Cardinality(K) <= Cardinality(1..n)
      /\ Cardinality(1..n) = Cardinality(K) => 1..n = K
  BY <1>1, <1>2, FS_Subset
<1>4. Cardinality(K) \in Nat
  BY <1>3, FS_CardinalityType
<1>. QED  BY <1>1, <1>3, <1>4

\* The count of places up to b is the one up to a and what lies between, so that
\* it never grows faster than the places themselves.
LEMMA RankBetween ==
    ASSUME NEW n \in Nat, NEW K, K \subseteq 1..n, NEW a \in 0..n, NEW b \in 0..n, a <= b
    PROVE  /\ Rank(K, a) \in Nat
           /\ Rank(K, a) <= Rank(K, b)
           /\ Rank(K, b) - Rank(K, a) <= b - a
           /\ \A i \in K : a < i /\ i <= b => Rank(K, a) < Rank(K, b)
<1>. DEFINE Up(i) == {j \in K : j <= i}
            Between == {j \in K : a < j /\ j <= b}
<1>0. \A j \in K : j \in Int
  OBVIOUS
<1>1. IsFiniteSet((a + 1)..b) /\ Cardinality((a + 1)..b) = b - a
  <2>1. /\ IsFiniteSet((a + 1)..b)
        /\ Cardinality((a + 1)..b) = IF a + 1 > b THEN 0 ELSE b - (a + 1) + 1
    <3>1. a + 1 \in Int /\ b \in Int
      OBVIOUS
    <3>. QED  BY <3>1, FS_Interval
  <2>. QED  BY <2>1
<1>2. IsFiniteSet(Up(a)) /\ Cardinality(Up(a)) \in Nat
  <2>1. Up(a) \subseteq 1..n
    BY DEF Up
  <2>. HIDE DEF Up
  <2>. QED  BY <2>1, PlacesFinite
<1>3. /\ IsFiniteSet(Between)
      /\ Cardinality(Between) \in Nat
      /\ Cardinality(Between) <= b - a
      /\ Cardinality(Between) = 0 => Between = {}
  <2>1. Between \in SUBSET ((a + 1)..b)
    <3>1. ASSUME NEW j \in Between PROVE j \in (a + 1)..b
      BY <1>0, <3>1
    <3>. HIDE DEF Between
    <3>. QED  BY <3>1
  <2>. HIDE DEF Between
  <2>2. IsFiniteSet(Between) /\ Cardinality(Between) <= Cardinality((a + 1)..b)
    BY <1>1, <2>1, FS_Subset
  <2>3. Cardinality(Between) \in Nat
    BY <2>2, FS_CardinalityType
  <2>4. Cardinality(Between) = 0 => Between = {}
    BY <2>2, FS_EmptySet
  <2>. QED  BY <1>1, <2>2, <2>3, <2>4
<1>4. Cardinality(Up(b)) = Cardinality(Up(a)) + Cardinality(Between)
  <2>1. Up(b) = Up(a) \cup Between
    <3>1. ASSUME NEW j \in K PROVE j <= b <=> j <= a \/ (a < j /\ j <= b)
      BY <1>0
    <3>. QED  BY <3>1, Zenon
  <2>2. Up(a) \cap Between = {}
    <3>1. ASSUME NEW j \in K PROVE ~(j <= a /\ a < j)
      BY <1>0
    <3>. QED  BY <3>1, Zenon
  <2>. HIDE DEF Up, Between
  <2>3. Cardinality(Up(a) \cup Between)
          = Cardinality(Up(a)) + Cardinality(Between) - Cardinality(Up(a) \cap Between)
    BY <1>2, <1>3, FS_Union
  <2>4. Cardinality(Up(a) \cap Between) = 0
    BY <2>2, FS_EmptySet
  <2>. QED  BY <1>2, <1>3, <2>1, <2>3, <2>4
<1>5. \A i \in K : a < i /\ i <= b => i \in Between
  OBVIOUS
<1>. HIDE DEF Between
<1>6. Rank(K, a) = Cardinality(Up(a)) /\ Rank(K, b) = Cardinality(Up(b))
  BY DEF Rank
<1>. HIDE DEF Up
<1>7. Between # {} => Cardinality(Between) > 0
  BY <1>3
<1>8. \A i \in K : a < i /\ i <= b => Cardinality(Between) > 0
  BY <1>5, <1>7
<1>. QED  BY <1>2, <1>3, <1>4, <1>6, <1>8

\* No place is up to 0, and all are up to the last.
LEMMA RankEnds ==
    ASSUME NEW n \in Nat, NEW K, K \subseteq 1..n
    PROVE  Rank(K, n) = Cardinality(K) /\ Rank(K, 0) = 0
<1>1. {j \in K : j <= n} = K
  <2>1. \A j \in K : j <= n
    OBVIOUS
  <2>. QED  BY <2>1, Zenon
<1>2. {j \in K : j <= 0} = {}
  <2>1. \A j \in K : ~(j <= 0)
    OBVIOUS
  <2>. QED  BY <2>1, Zenon
<1>. QED  BY <1>1, <1>2, FS_EmptySet DEF Rank

\* There is a k-th place for every k up to their number.
LEMMA RankReaches ==
    ASSUME NEW n \in Nat, NEW K, K \subseteq 1..n, NEW k \in 1..Cardinality(K)
    PROVE  \E i \in K : Rank(K, i) = k
<1>1. /\ Cardinality(K) \in Nat
      /\ Rank(K, n) = Cardinality(K)
      /\ Rank(K, 0) = 0
  BY PlacesFinite, RankEnds
<1>. DEFINE T == {i \in 0..n : Rank(K, i) >= k}
<1>2. PICK m \in T : \A i \in T : m <= i
  <2>1. n \in T
    BY <1>1
  <2>2. T \subseteq Nat
    OBVIOUS
  <2>. HIDE DEF T
  <2>. QED  BY <2>1, <2>2, SmallestIn
<1>3. m \in 1..n /\ m - 1 \in 0..n
  <2>1. m \in 0..n /\ m # 0
    BY <1>1, <1>2
  <2>. QED  BY <2>1
<1>4. m - 1 \notin T
  <2>. HIDE DEF T
  <2>. QED  BY <1>2, <1>3
<1>5. /\ Rank(K, m - 1) \in Nat
      /\ Rank(K, m - 1) <= Rank(K, m)
      /\ Rank(K, m) - Rank(K, m - 1) <= m - (m - 1)
      /\ Rank(K, m) \in Nat
  <2>1. m - 1 <= m /\ m <= m /\ m \in 0..n
    BY <1>3
  <2>. HIDE DEF T
  <2>2. Rank(K, m) \in Nat
    BY <2>1, RankBetween
  <2>. QED  BY <1>3, <2>1, <2>2, RankBetween
<1>6. Rank(K, m) = k /\ Rank(K, m - 1) # k
  BY <1>1, <1>2, <1>3, <1>4, <1>5
<1>7. m \in K
  <2>1. ASSUME m \notin K PROVE {j \in K : j <= m} = {j \in K : j <= m - 1}
    <3>1. \A j \in K : j <= m <=> j <= m - 1
      BY <1>3, <2>1
    <3>. QED  BY <3>1, Zenon
  <2>. QED  BY <2>1, <1>6 DEF Rank
<1>. QED  BY <1>6, <1>7

\* Select takes its entries from places e[1], e[2], ... in ascending order: no two
\* entries come closer to each other, and none of T is left out.
Embeds(e, s, T) ==
    LET K == Places(s, T)
        n == Cardinality(K)
    IN  /\ e \in [1..n -> K]
        /\ \A k \in 1..n : Select(s, T)[k] = s[e[k]]
        /\ \A k, l \in 1..n : k <= l => l - k <= e[l] - e[k]
        /\ \A i \in K : \E k \in 1..n : e[k] = i

\* Such places exist for every sequence and every choice.
LEMMA SelectEmbeds ==
    ASSUME NEW R, NEW s \in Seq(R), NEW T
    PROVE  \E e : Embeds(e, s, T)
<1>. DEFINE K == Places(s, T)
            n == Len(s)
            N == Cardinality(K)
            e == [k \in 1..N |-> CHOOSE i \in K : Rank(K, i) = k]
<1>1. n \in Nat /\ K \subseteq 1..n
  BY LenProperties DEF Places
<1>2. \A k \in 1..N : Select(s, T)[k] = s[e[k]]
  BY DEF Select, Rank
<1>. HIDE DEF n, K
<1>3. N \in Nat
  BY <1>1, PlacesFinite
<1>. HIDE DEF N
<1>4. ASSUME NEW k \in 1..N
      PROVE  e[k] \in K /\ Rank(K, e[k]) = k /\ e[k] \in 0..n /\ e[k] \in 1..n
  <2>1. \E i \in K : Rank(K, i) = k
    BY <1>1, RankReaches DEF N
  <2>2. e[k] \in K /\ Rank(K, e[k]) = k
    BY <2>1
  <2>3. \A i \in K : i \in 0..n /\ i \in 1..n
    BY <1>1
  <2>. HIDE DEF e
  <2>. QED  BY <2>2, <2>3
<1>5. e \in [1..N -> K]
  BY <1>4
<1>. HIDE DEF e
<1>6. ASSUME NEW a \in K, NEW b \in K, a < b PROVE Rank(K, a) < Rank(K, b)
  <2>1. a \in 0..n /\ b \in 0..n /\ a <= b /\ b <= b
    BY <1>1, <1>6
  <2>. QED  BY <1>1, <1>6, <2>1, RankBetween
<1>7. ASSUME NEW k \in 1..N, NEW l \in 1..N, k <= l PROVE l - k <= e[l] - e[k]
  <2>1. CASE e[k] <= e[l]
    <3>1. e[k] \in 0..n /\ e[l] \in 0..n
      BY <1>4
    <3>2. Rank(K, e[l]) - Rank(K, e[k]) <= e[l] - e[k]
      BY <1>1, <2>1, <3>1, RankBetween
    <3>. QED  BY <1>4, <3>2
  <2>2. CASE e[l] < e[k]
    <3>1. Rank(K, e[l]) < Rank(K, e[k])
      BY <1>4, <1>6, <2>2
    <3>. QED  BY <1>3, <1>4, <1>7, <3>1
  <2>3. e[k] \in Int /\ e[l] \in Int
    BY <1>4
  <2>. QED  BY <2>1, <2>2, <2>3
<1>8. ASSUME NEW i \in K PROVE \E k \in 1..N : e[k] = i
  <2>1. i \in 0..n /\ n \in 0..n /\ 0 \in 0..n /\ 0 < i /\ i <= n /\ i \in 1..n
    BY <1>1
  <2>2. Rank(K, n) = N /\ Rank(K, 0) = 0
    BY <1>1, RankEnds DEF N
  <2>3. Rank(K, i) \in Nat /\ Rank(K, i) <= Rank(K, n)
    BY <1>1, <2>1, RankBetween
  <2>4. Rank(K, 0) < Rank(K, i)
    <3>1. 0 <= i /\ i <= i
      BY <2>1
    <3>. QED  BY <1>1, <2>1, <3>1, RankBetween
  <2>5. Rank(K, i) \in 1..N
    BY <1>3, <2>2, <2>3, <2>4
  <2>. DEFINE j == e[Rank(K, i)]
  <2>6. j \in K /\ Rank(K, j) = Rank(K, i) /\ j \in 1..n
    BY <1>4, <2>5
  <2>. HIDE DEF j
  <2>7. ~(j < i) /\ ~(i < j)
    <3>1. (j < i => Rank(K, j) < Rank(K, i)) /\ (i < j => Rank(K, i) < Rank(K, j))
      BY <1>6, <2>6
    <3>. QED  BY <2>3, <2>6, <3>1
  <2>8. j = i
    BY <2>1, <2>6, <2>7
  <2>. QED  BY <2>5, <2>8 DEF j
<1>9. Embeds(e, s, T)
  BY <1>2, <1>5, <1>7, <1>8 DEF Embeds, N, K
<1>. QED  BY <1>9

\* What is selected from s is a sequence of entries of s, among them all of T, and
\* in it only those.
LEMMA SelectType ==
    ASSUME NEW R, NEW s \in Seq(R), NEW T
    PROVE  /\ Cardinality(Places(s, T)) \in Nat
           /\ Select(s, T) \in Seq(R)
           /\ Len(Select(s, T)) = Cardinality(Places(s, T))
           /\ Len(Select(s, T)) <= Len(s)
           /\ Range(Select(s, T)) = Range(s) \cap T
<1>. DEFINE K == Places(s, T)
            N == Cardinality(K)
<1>1. /\ Len(s) \in Nat
      /\ DOMAIN s = 1..Len(s)
      /\ \A i \in 1..Len(s) : s[i] \in R
      /\ K \subseteq 1..Len(s)
      /\ \A i \in K : s[i] \in T
      /\ \A i \in 1..Len(s) : s[i] \in T => i \in K
  BY LenProperties, ElementOfSeq DEF Places
<1>2. N \in Nat /\ N <= Len(s)
  BY <1>1, PlacesFinite
<1>3. PICK e : Embeds(e, s, T)
  BY SelectEmbeds
<1>4. /\ e \in [1..N -> K]
      /\ \A k \in 1..N : Select(s, T)[k] = s[e[k]]
      /\ \A i \in K : \E k \in 1..N : e[k] = i
  BY <1>3 DEF Embeds
<1>5. DOMAIN Select(s, T) = 1..N /\ Select(s, T) = [k \in 1..N |-> Select(s, T)[k]]
  BY DEF Select
<1>. HIDE DEF K, N
<1>6. \A k \in 1..N : Select(s, T)[k] \in R
  BY <1>1, <1>4
<1>7. Select(s, T) \in Seq(R) /\ Len(Select(s, T)) = N
  <2>1. Select(s, T) \in [1..N -> R]
    BY <1>5, <1>6
  <2>. QED  BY <1>2, <2>1, SeqDef, LenProperties
<1>8. Range(Select(s, T)) = Range(s) \cap T
  <2>1. ASSUME NEW k \in 1..N PROVE Select(s, T)[k] \in Range(s) \cap T
    <3>1. e[k] \in 1..Len(s) /\ Select(s, T)[k] = s[e[k]] /\ s[e[k]] \in T
      BY <1>1, <1>4
    <3>. QED  BY <1>1, <3>1, Zenon DEF Range
  <2>2. ASSUME NEW i \in 1..Len(s), s[i] \in T PROVE \E k \in 1..N : Select(s, T)[k] = s[i]
    <3>1. PICK k \in 1..N : e[k] = i
      BY <1>1, <1>4, <2>2
    <3>. QED  BY <1>4, <3>1
  <2>3. Range(Select(s, T)) = {Select(s, T)[k] : k \in 1..N}
    BY <1>5, Zenon DEF Range
  <2>4. Range(s) = {s[i] : i \in 1..Len(s)}
    BY <1>1, Zenon DEF Range
  <2>. QED  BY <2>1, <2>2, <2>3, <2>4, Zenon
<1>. QED  BY <1>2, <1>7, <1>8 DEF N, K

\* If every entry is chosen, the sequence stays as it is.
LEMMA SelectAll ==
    ASSUME NEW R, NEW s \in Seq(R), NEW T, \A i \in 1..Len(s) : s[i] \in T
    PROVE  Select(s, T) = s
<1>1. /\ Len(s) \in Nat
      /\ Places(s, T) = 1..Len(s)
  BY LenProperties DEF Places
<1>2. Cardinality(Places(s, T)) = Len(s)
  <2>1. 1 \in Int /\ Len(s) \in Int
    BY <1>1
  <2>2. Cardinality(1..Len(s)) = IF 1 > Len(s) THEN 0 ELSE Len(s) - 1 + 1
    BY <2>1, FS_Interval
  <2>. QED  BY <1>1, <2>2
<1>3. Select(s, T) \in Seq(R) /\ Len(Select(s, T)) = Len(s)
  BY <1>2, SelectType
<1>4. PICK e : Embeds(e, s, T)
  BY SelectEmbeds
<1>5. /\ e \in [1..Len(s) -> 1..Len(s)]
      /\ \A k \in 1..Len(s) : Select(s, T)[k] = s[e[k]]
      /\ \A k, l \in 1..Len(s) : k <= l => l - k <= e[l] - e[k]
  BY <1>1, <1>2, <1>4 DEF Embeds
<1>6. ASSUME NEW k \in 1..Len(s) PROVE e[k] = k
  <2>1. 1 \in 1..Len(s) /\ Len(s) \in 1..Len(s) /\ 1 <= k /\ k <= Len(s)
    BY <1>1
  <2>2. k - 1 <= e[k] - e[1] /\ Len(s) - k <= e[Len(s)] - e[k]
    BY <1>5, <2>1
  <2>3. e[k] \in 1..Len(s) /\ e[1] \in 1..Len(s) /\ e[Len(s)] \in 1..Len(s)
    BY <1>5, <2>1
  <2>. QED  BY <1>1, <2>2, <2>3
<1>7. \A k \in 1..Len(s) : Select(s, T)[k] = s[k]
  BY <1>5, <1>6
<1>. QED  BY <1>3, <1>7, SeqEqual

\* The entries of s are entries of t in the same order, and at least as many places
\* of t lie between two of them as lie between them in s.
Spaced(s, t) ==
    \A i, j \in DOMAIN s, a, b \in DOMAIN t :
        i <= j /\ s[i] = t[a] /\ s[j] = t[b] => j - i <= b - a

\* Retention by number keeps the spacing, and entries of s alone; an entry it drops
\* has at least n entries of s behind it.
LEMMA NewestSpaced ==
    ASSUME NEW R, NEW s \in Seq(R), NEW t \in Seq(R), NEW n \in Nat, Spaced(s, t)
    PROVE  /\ Spaced(Newest(s, n), t)
           /\ Range(Newest(s, n)) \subseteq Range(s)
           /\ \A x \in Range(s) \ Range(Newest(s, n)) :
                 \E i \in 1..Len(s) : s[i] = x /\ i <= Len(s) - n
<1>1. /\ Len(s) \in Nat
      /\ DOMAIN s = 1..Len(s)
  BY LenProperties
<1>2. CASE Len(s) <= n
  BY <1>2 DEF Newest
<1>3. CASE n < Len(s)
  <2>1. n <= Len(s) /\ ~(Len(s) <= n)
    BY <1>1, <1>3
  <2>2. Newest(s, n) \in Seq(R) /\ Len(Newest(s, n)) = n
    BY <2>1, NewestType
  <2>3. DOMAIN Newest(s, n) = 1..n
    BY <2>2, LenProperties
  <2>4. \A i \in 1..n : Newest(s, n)[i] = s[Len(s) - n + i] /\ Len(s) - n + i \in 1..Len(s)
    BY <1>1, <2>1, NewestElement
  <2>5. Spaced(Newest(s, n), t)
    <3>1. SUFFICES ASSUME NEW i \in 1..n, NEW j \in 1..n,
                          NEW a \in DOMAIN t, NEW b \in DOMAIN t, i <= j,
                          Newest(s, n)[i] = t[a], Newest(s, n)[j] = t[b]
                   PROVE  j - i <= b - a
      BY <2>3 DEF Spaced
    <3>. DEFINE k == Len(s) - n + i
                l == Len(s) - n + j
    <3>2. k \in 1..Len(s) /\ l \in 1..Len(s) /\ k <= l /\ s[k] = t[a] /\ s[l] = t[b]
      BY <1>1, <2>4, <3>1
    <3>3. l - k = j - i
      BY <1>1
    <3>. HIDE DEF k, l
    <3>4. l - k <= b - a
      BY <1>1, <3>2 DEF Spaced
    <3>. QED  BY <3>3, <3>4
  <2>6. Range(Newest(s, n)) \subseteq Range(s)
    BY <1>1, <2>3, <2>4, Zenon DEF Range
  <2>7. ASSUME NEW x \in Range(s), x \notin Range(Newest(s, n))
        PROVE  \E i \in 1..Len(s) : s[i] = x /\ i <= Len(s) - n
    <3>1. PICK i \in 1..Len(s) : s[i] = x
      BY <1>1, Zenon DEF Range
    <3>2. ASSUME i > Len(s) - n PROVE FALSE
      <4>1. i - (Len(s) - n) \in 1..n /\ Len(s) - n + (i - (Len(s) - n)) = i
        BY <1>1, <2>1, <3>2
      <4>2. Newest(s, n)[i - (Len(s) - n)] = x
        BY <2>4, <3>1, <4>1
      <4>. QED  BY <2>3, <2>7, <4>1, <4>2, Zenon DEF Range
    <3>. QED  BY <1>1, <3>1, <3>2
  <2>. QED  BY <2>5, <2>6, <2>7
<1>. QED  BY <1>1, <1>2, <1>3

\* Choosing among the entries keeps the spacing.
LEMMA SelectSpaced ==
    ASSUME NEW R, NEW s \in Seq(R), NEW t \in Seq(R), NEW T, Spaced(s, t)
    PROVE  Spaced(Select(s, T), t)
<1>. DEFINE n == Cardinality(Places(s, T))
<1>1. PICK e : Embeds(e, s, T)
  BY SelectEmbeds
<1>2. DOMAIN s = 1..Len(s) /\ DOMAIN t = 1..Len(t) /\ Len(s) \in Nat /\ Len(t) \in Nat
  BY LenProperties
<1>3. /\ e \in [1..n -> 1..Len(s)]
      /\ \A k \in 1..n : Select(s, T)[k] = s[e[k]]
      /\ \A k, l \in 1..n : k <= l => l - k <= e[l] - e[k]
      /\ DOMAIN Select(s, T) = 1..n
      /\ n \in Nat
  <2>1. n \in Nat
    BY SelectType
  <2>2. DOMAIN Select(s, T) = 1..n
    BY DEF Select
  <2>3. /\ e \in [1..n -> Places(s, T)]
        /\ \A k \in 1..n : Select(s, T)[k] = s[e[k]]
        /\ \A k, l \in 1..n : k <= l => l - k <= e[l] - e[k]
    BY <1>1 DEF Embeds
  <2>4. Places(s, T) \subseteq 1..Len(s)
    BY DEF Places
  <2>. HIDE DEF n
  <2>. QED  BY <2>1, <2>2, <2>3, <2>4
<1>. HIDE DEF n
<1>4. SUFFICES ASSUME NEW i \in 1..n, NEW j \in 1..n,
                      NEW a \in DOMAIN t, NEW b \in DOMAIN t, i <= j,
                      Select(s, T)[i] = t[a], Select(s, T)[j] = t[b]
               PROVE  j - i <= b - a
  BY <1>3 DEF Spaced
<1>5. e[i] \in 1..Len(s) /\ e[j] \in 1..Len(s) /\ j - i <= e[j] - e[i]
  BY <1>3, <1>4
<1>6. e[i] <= e[j]
  BY <1>3, <1>4, <1>5
<1>7. s[e[i]] = t[a] /\ s[e[j]] = t[b]
  BY <1>3, <1>4
<1>8. e[j] - e[i] <= b - a
  BY <1>2, <1>5, <1>6, <1>7 DEF Spaced
<1>. QED  BY <1>2, <1>3, <1>5, <1>8

\* So does appending an entry to both that t did not have.
LEMMA AppendSpaced ==
    ASSUME NEW R, NEW s \in Seq(R), NEW t \in Seq(R), NEW r \in R, Spaced(s, t),
           r \notin Range(t), Range(s) \subseteq Range(t)
    PROVE  Spaced(Append(s, r), Append(t, r))
<1>1. /\ Len(s) \in Nat /\ DOMAIN s = 1..Len(s)
      /\ Len(t) \in Nat /\ DOMAIN t = 1..Len(t)
  BY LenProperties
<1>2. /\ DOMAIN Append(s, r) = 1..(Len(s) + 1)
      /\ \A i \in 1..Len(s) : Append(s, r)[i] = s[i]
      /\ Append(s, r)[Len(s) + 1] = r
  BY AppendProperties, LenProperties
<1>3. /\ DOMAIN Append(t, r) = 1..(Len(t) + 1)
      /\ \A i \in 1..Len(t) : Append(t, r)[i] = t[i]
      /\ Append(t, r)[Len(t) + 1] = r
  BY AppendProperties, LenProperties
<1>4. /\ \A i \in 1..Len(t) : t[i] # r
      /\ \A i \in 1..Len(s) : \E a \in 1..Len(t) : s[i] = t[a]
  BY <1>1, Zenon DEF Range
<1>5. SUFFICES ASSUME NEW i \in 1..(Len(s) + 1), NEW j \in 1..(Len(s) + 1),
                      NEW a \in 1..(Len(t) + 1), NEW b \in 1..(Len(t) + 1), i <= j,
                      Append(s, r)[i] = Append(t, r)[a], Append(s, r)[j] = Append(t, r)[b]
               PROVE  j - i <= b - a
  BY <1>2, <1>3 DEF Spaced
<1>6. CASE j \in 1..Len(s)
  <2>1. i \in 1..Len(s)
    BY <1>1, <1>5, <1>6
  <2>2. s[i] # r /\ s[j] # r
    BY <1>4, <1>6, <2>1
  <2>3. a \in 1..Len(t) /\ b \in 1..Len(t)
    BY <1>1, <1>2, <1>3, <1>5, <1>6, <2>1, <2>2
  <2>. QED  BY <1>1, <1>2, <1>3, <1>5, <1>6, <2>1, <2>3 DEF Spaced
<1>7. CASE j = Len(s) + 1
  <2>1. b = Len(t) + 1
    BY <1>1, <1>2, <1>3, <1>4, <1>5, <1>7
  <2>2. CASE i = Len(s) + 1
    BY <1>1, <1>2, <1>3, <1>4, <1>5, <1>7, <2>1, <2>2
  <2>3. CASE i \in 1..Len(s)
    <3>1. s[i] = t[a] /\ a \in 1..Len(t)
      <4>1. s[i] # r /\ Append(s, r)[i] = s[i]
        BY <1>2, <1>4, <2>3
      <4>2. a # Len(t) + 1
        BY <1>3, <1>5, <4>1
      <4>3. a \in 1..Len(t)
        BY <1>1, <4>2
      <4>. QED  BY <1>3, <1>5, <4>1, <4>3
    <3>2. Len(s) \in 1..Len(s)
      BY <1>1, <2>3
    <3>3. PICK c \in 1..Len(t) : s[Len(s)] = t[c]
      BY <1>4, <3>2
    <3>4. Len(s) - i <= c - a
      BY <1>1, <2>3, <3>1, <3>2, <3>3 DEF Spaced
    <3>. QED  BY <1>1, <1>7, <2>1, <2>3, <3>1, <3>3, <3>4
  <2>. QED  BY <1>1, <2>2, <2>3
<1>. QED  BY <1>1, <1>6, <1>7

\* Gluing takes away at most the last object.
LEMMA GluedType ==
    ASSUME NEW R, NEW f \in FileOf(R)
    PROVE  Glued(f) \in Seq(R)
<1>1. f.recs \in Seq(R) /\ Len(f.recs) \in Nat
  BY LenProperties DEF FileOf
<1>2. \A i \in 1..(Len(f.recs) - 1) : f.recs[i] \in R
  BY <1>1, ElementOfSeq
<1>3. SubSeq(f.recs, 1, Len(f.recs) - 1) \in Seq(R)
  BY <1>1, <1>2, SubSeqProperties
<1>. QED  BY <1>1, <1>3 DEF Glued

\* Writing to a journal file, whole lines or parts of them, leaves a journal
\* file, and a whole line behind a newline adds its object.
LEMMA AddType ==
    ASSUME NEW R, NEW f \in FileOf(R), NEW r \in R
    PROVE  /\ AddLine(f, r) \in FileOf(R)
           /\ AddCut(f) \in FileOf(R)
           /\ AddOpen(f, r) \in FileOf(R)
           /\ AddLine(f, r).tail = "ended"
           /\ f.tail = "ended" => AddLine(f, r).recs = Append(f.recs, r)
<1>1. /\ f.recs \in Seq(R)
      /\ Append(f.recs, r) \in Seq(R)
      /\ Glued(f) \in Seq(R)
  BY GluedType, AppendProperties DEF FileOf
<1>2. AddLine(f, r) \in FileOf(R) /\ AddLine(f, r).tail = "ended"
  BY <1>1 DEF AddLine, FileOf
<1>3. AddCut(f) \in FileOf(R)
  BY <1>1 DEF AddCut, FileOf
<1>4. AddOpen(f, r) \in FileOf(R)
  BY <1>1, <1>3 DEF AddOpen, FileOf
<1>5. f.tail = "ended" => AddLine(f, r).recs = Append(f.recs, r)
  BY DEF AddLine, FileOf
<1>. QED  BY <1>2, <1>3, <1>4, <1>5

\* Taking the last entry from a sequence undoes an append.
LEMMA DropLast ==
    ASSUME NEW R, NEW s \in Seq(R), NEW r \in R
    PROVE  SubSeq(Append(s, r), 1, Len(Append(s, r)) - 1) = s
<1>1. /\ Len(s) \in Nat
      /\ Append(s, r) \in Seq(R)
      /\ Len(Append(s, r)) = Len(s) + 1
      /\ \A i \in 1..Len(s) : Append(s, r)[i] = s[i]
  BY LenProperties, AppendProperties
<1>2. Len(Append(s, r)) - 1 = Len(s)
  BY <1>1
<1>3. \A i \in 1..Len(s) : Append(s, r)[i] \in R
  BY <1>1, ElementOfSeq
<1>4. /\ SubSeq(Append(s, r), 1, Len(s)) \in Seq(R)
      /\ Len(SubSeq(Append(s, r), 1, Len(s))) = Len(s)
      /\ \A i \in 1..Len(s) : SubSeq(Append(s, r), 1, Len(s))[i] = Append(s, r)[i]
  <2>1. 1 \in 1..Len(s) + 1 /\ 1 \in Int /\ Len(s) \in Int
    BY <1>1
  <2>2. /\ SubSeq(Append(s, r), 1, Len(s)) \in Seq(R)
        /\ Len(SubSeq(Append(s, r), 1, Len(s))) = IF 1 <= Len(s) THEN Len(s) - 1 + 1 ELSE 0
        /\ \A i \in 1..(Len(s) - 1 + 1) :
              SubSeq(Append(s, r), 1, Len(s))[i] = Append(s, r)[1 + i - 1]
    BY <1>3, <2>1, SubSeqProperties
  <2>3. Len(s) - 1 + 1 = Len(s) /\ \A i \in 1..Len(s) : 1 + i - 1 = i
    BY <1>1
  <2>. QED  BY <1>1, <2>2, <2>3
<1>. QED  BY <1>1, <1>2, <1>4, SeqEqual

\* Of the objects of a file only one without its newline is at stake.
LEMMA GluedElements ==
    ASSUME NEW R, NEW f \in FileOf(R)
    PROVE  /\ f.tail # "open" => Glued(f) = f.recs
           /\ Range(Glued(f)) \subseteq Range(f.recs)
           /\ \A x \in Range(f.recs) \ Range(Glued(f)) :
                 f.tail = "open" /\ x = f.recs[Len(f.recs)]
           /\ Len(f.recs) = 0 => Range(Glued(f)) = {}
<1>1. /\ f.recs \in Seq(R) /\ Len(f.recs) \in Nat /\ DOMAIN f.recs = 1..Len(f.recs)
      /\ Range(f.recs) = {f.recs[i] : i \in 1..Len(f.recs)}
  BY LenProperties DEF FileOf, Range
<1>2. CASE f.tail # "open"
  BY <1>1, <1>2 DEF Glued
<1>3. CASE f.tail = "open"
  <2>. DEFINE n == Len(f.recs) - 1
  <2>1. /\ n \in Int /\ 1 \in Int /\ \A i \in 1..n : f.recs[i] \in R
        /\ n - 1 + 1 = n
    BY <1>1, ElementOfSeq
  <2>2. /\ SubSeq(f.recs, 1, n) \in Seq(R)
        /\ Len(SubSeq(f.recs, 1, n)) = IF 1 <= n THEN n - 1 + 1 ELSE 0
        /\ \A i \in 1..(n - 1 + 1) : SubSeq(f.recs, 1, n)[i] = f.recs[1 + i - 1]
    <3>1. \A i \in 1..(Len(f.recs) - 1) : f.recs[i] \in R
      BY <2>1
    <3>. QED  BY <1>1, <3>1, SubSeqProperties
  <2>3. DOMAIN SubSeq(f.recs, 1, n) = 1..n
    <3>1. DOMAIN SubSeq(f.recs, 1, n) = 1..Len(SubSeq(f.recs, 1, n))
      BY <2>2, LenProperties
    <3>2. CASE 1 <= n
      BY <2>1, <2>2, <3>1, <3>2
    <3>3. CASE ~(1 <= n)
      <4>1. Len(SubSeq(f.recs, 1, n)) = 0 /\ 1..0 = {} /\ 1..n = {}
        BY <2>1, <2>2, <3>3
      <4>. QED  BY <3>1, <4>1
    <3>. QED  BY <3>2, <3>3
  <2>4. \A i \in 1..n : SubSeq(f.recs, 1, n)[i] = f.recs[i]
    <3>1. \A i \in 1..n : 1 + i - 1 = i
      BY <2>1
    <3>. QED  BY <2>1, <2>2, <3>1
  <2>5. /\ 1..n \subseteq 1..Len(f.recs)
        /\ \A i \in 1..Len(f.recs) : i \in 1..n \/ i = Len(f.recs)
        /\ Len(f.recs) = 0 => 1..n = {}
    BY <1>1
  <2>6. Glued(f) = SubSeq(f.recs, 1, n)
    BY <1>3 DEF Glued
  <2>. HIDE DEF n
  <2>7. Range(Glued(f)) = {f.recs[i] : i \in 1..n}
    BY <2>3, <2>4, <2>6, Zenon DEF Range
  <2>. QED  BY <1>1, <1>3, <2>5, <2>7
<1>. QED  BY <1>2, <1>3

\* What a write, whole or torn, does to the objects that have their newline.
LEMMA GluedAdd ==
    ASSUME NEW R, NEW f \in FileOf(R), NEW r \in R
    PROVE  /\ AddLine(f, r).tail = "ended"
           /\ f.tail = "ended" =>
                 /\ Glued(AddLine(f, r)) = Append(Glued(f), r)
                 /\ AddLine(f, r).bad = f.bad
           /\ f.tail # "ended" =>
                 /\ Glued(AddLine(f, r)) = Glued(f)
                 /\ AddLine(f, r).bad = f.bad + 1
           /\ AddCut(f).tail # "ended" /\ AddCut(f).bad = f.bad /\ Glued(AddCut(f)) = Glued(f)
           /\ AddOpen(f, r).tail # "ended" /\ AddOpen(f, r).bad = f.bad
           /\ Glued(AddOpen(f, r)) = Glued(f)
<1>1. /\ f.recs \in Seq(R) /\ f.bad \in Nat /\ Glued(f) \in Seq(R)
      /\ f = [recs |-> f.recs, bad |-> f.bad, tail |-> f.tail]
      /\ AddCut(f) \in FileOf(R) /\ AddOpen(f, r) \in FileOf(R)
  BY GluedType, AddType DEF FileOf
<1>2. /\ AddLine(f, r).tail = "ended"
      /\ f.tail = "ended" =>
            AddLine(f, r).recs = Append(f.recs, r) /\ AddLine(f, r).bad = f.bad
      /\ f.tail # "ended" =>
            AddLine(f, r).recs = Glued(f) /\ AddLine(f, r).bad = f.bad + 1
  BY <1>1 DEF AddLine
<1>3. /\ f.tail = "ended" => Glued(AddLine(f, r)) = Append(Glued(f), r)
      /\ f.tail # "ended" => Glued(AddLine(f, r)) = Glued(f)
  <2>1. Glued(AddLine(f, r)) = AddLine(f, r).recs
    BY <1>2 DEF Glued
  <2>2. f.tail = "ended" => Glued(f) = f.recs
    BY DEF Glued
  <2>. QED  BY <1>2, <2>1, <2>2
<1>4. AddCut(f).recs = Glued(f) /\ AddCut(f).tail = "cut" /\ AddCut(f).bad = f.bad
  BY <1>1 DEF AddCut
<1>5. Glued(AddCut(f)) = Glued(f)
  <2>1. Glued(AddCut(f)) = AddCut(f).recs
    BY <1>4 DEF Glued
  <2>. QED  BY <1>4, <2>1
<1>6. AddOpen(f, r).tail # "ended" /\ AddOpen(f, r).bad = f.bad /\ Glued(AddOpen(f, r)) = Glued(f)
  <2>1. CASE f.tail # "ended"
    <3>1. AddOpen(f, r) = AddCut(f)
      BY <2>1 DEF AddOpen
    <3>. QED  BY <1>4, <1>5, <3>1
  <2>2. CASE f.tail = "ended"
    <3>1. /\ AddOpen(f, r).recs = Append(f.recs, r) /\ AddOpen(f, r).tail = "open"
          /\ AddOpen(f, r).bad = f.bad
      BY <1>1, <2>2 DEF AddOpen
    <3>2. Glued(AddOpen(f, r)) = SubSeq(Append(f.recs, r), 1, Len(Append(f.recs, r)) - 1)
      BY <3>1 DEF Glued
    <3>3. Glued(AddOpen(f, r)) = f.recs
      BY <1>1, <3>2, DropLast
    <3>4. Glued(f) = f.recs
      BY <2>2 DEF Glued
    <3>. QED  BY <3>1, <3>3, <3>4
  <2>. QED  BY <2>1, <2>2
<1>. QED  BY <1>1, <1>2, <1>3, <1>4, <1>5, <1>6

\* Damage of complete lines takes away those objects and no other one.
LEMMA DamagedType ==
    ASSUME NEW R, NEW f \in FileOf(R), NEW T, NEW n \in Nat, Range(Glued(f)) # {}
    PROVE  /\ Damaged(f, T, n) \in FileOf(R)
           /\ Damaged(f, T, n).bad = f.bad + n
           /\ Damaged(f, T, n).tail = f.tail
           /\ Glued(Damaged(f, T, n)) = Select(Glued(f), T)
<1>1. /\ f.recs \in Seq(R) /\ f.bad \in Nat /\ Glued(f) \in Seq(R) /\ Len(f.recs) \in Nat
      /\ f = [recs |-> f.recs, bad |-> f.bad, tail |-> f.tail]
      /\ f.tail \in {"ended", "cut", "open"}
  BY GluedType, LenProperties DEF FileOf
<1>2. Select(Glued(f), T) \in Seq(R)
  BY <1>1, SelectType
<1>3. Damaged(f, T, n).bad = f.bad + n /\ Damaged(f, T, n).tail = f.tail
  BY <1>1 DEF Damaged
<1>0. ASSUME NEW a \in Seq(R), NEW b \in Nat
      PROVE  /\ [f EXCEPT !.recs = a, !.bad = b] \in FileOf(R)
             /\ [f EXCEPT !.recs = a, !.bad = b].recs = a
  BY DEF FileOf
<1>4. CASE f.tail # "open"
  <2>1. Glued(f) = f.recs
    BY <1>4 DEF Glued
  <2>2. Damaged(f, T, n).recs = Select(f.recs, T)
    BY <1>1, <1>4 DEF Damaged
  <2>3. Glued(Damaged(f, T, n)) = Select(Glued(f), T)
    <3>1. Glued(Damaged(f, T, n)) = Damaged(f, T, n).recs
      BY <1>3, <1>4 DEF Glued
    <3>. QED  BY <2>1, <2>2, <3>1
  <2>4. Damaged(f, T, n) = [f EXCEPT !.recs = Select(f.recs, T), !.bad = f.bad + n]
    BY <1>4 DEF Damaged
  <2>5. Damaged(f, T, n) \in FileOf(R)
    <3>1. Select(f.recs, T) \in Seq(R) /\ f.bad + n \in Nat
      BY <1>1, <1>2, <2>1
    <3>. QED  BY <1>0, <2>4, <3>1, Zenon
  <2>. QED  BY <1>3, <2>3, <2>5
<1>5. CASE f.tail = "open"
  <2>1. f.recs[Len(f.recs)] \in R
    <3>1. Len(f.recs) # 0
      BY GluedElements
    <3>2. Len(f.recs) \in 1..Len(f.recs)
      BY <1>1, <3>1
    <3>. QED  BY <1>1, <3>2, ElementOfSeq
  <2>. DEFINE s == Select(Glued(f), T)
              x == f.recs[Len(f.recs)]
  <2>2. Damaged(f, T, n) = [f EXCEPT !.recs = Append(s, x), !.bad = f.bad + n]
    BY <1>5 DEF Damaged
  <2>. HIDE DEF s, x
  <2>3. s \in Seq(R) /\ x \in R
    BY <1>2, <2>1 DEF s, x
  <2>4. Append(s, x) \in Seq(R) /\ f.bad + n \in Nat
    BY <1>1, <2>3, AppendProperties
  <2>5. Damaged(f, T, n) \in FileOf(R) /\ Damaged(f, T, n).recs = Append(s, x)
    BY <1>0, <2>2, <2>4
  <2>6. Glued(Damaged(f, T, n)) = SubSeq(Append(s, x), 1, Len(Append(s, x)) - 1)
    BY <1>3, <1>5, <2>5 DEF Glued
  <2>7. Glued(Damaged(f, T, n)) = s
    BY <2>3, <2>6, DropLast
  <2>. QED  BY <1>3, <2>5, <2>7 DEF s
<1>. QED  BY <1>4, <1>5

\* How many objects a file is sure to keep whatever is written behind it, less one for
\* the line that its torn end will spoil.
Weight(f) == Len(f.recs) - (IF f.tail = "ended" THEN 0 ELSE IF f.tail = "cut" THEN 1 ELSE 2)

\* Gluing takes away no more than the object that has no newline.
LEMMA GluedLength ==
    ASSUME NEW R, NEW f \in FileOf(R)
    PROVE  /\ Len(Glued(f)) \in Nat
           /\ Len(Glued(f)) <= Len(f.recs)
           /\ f.tail # "open" => Len(Glued(f)) = Len(f.recs)
           /\ Len(f.recs) - 1 <= Len(Glued(f))
<1>1. f.recs \in Seq(R) /\ Len(f.recs) \in Nat /\ \A i \in 1..(Len(f.recs) - 1) : f.recs[i] \in R
  <2>1. f.recs \in Seq(R) /\ Len(f.recs) \in Nat
    BY LenProperties DEF FileOf
  <2>2. \A i \in 1..(Len(f.recs) - 1) : i \in 1..Len(f.recs)
    BY <2>1
  <2>. QED  BY <2>1, <2>2, ElementOfSeq
<1>2. CASE f.tail = "open"
  <2>. DEFINE n == Len(f.recs) - 1
  <2>1. Len(SubSeq(f.recs, 1, n)) = IF 1 <= n THEN n - 1 + 1 ELSE 0
    BY <1>1, SubSeqProperties
  <2>2. Glued(f) = SubSeq(f.recs, 1, n)
    BY <1>2 DEF Glued
  <2>. QED  BY <1>1, <1>2, <2>1, <2>2
<1>3. CASE f.tail # "open"
  BY <1>1, <1>3 DEF Glued
<1>. QED  BY <1>2, <1>3

\* A whole line adds one to what a file is sure to keep, and a write that failed takes
\* away no more than one.
LEMMA AddWeight ==
    ASSUME NEW R, NEW f \in FileOf(R), NEW r \in R
    PROVE  /\ Len(f.recs) \in Nat /\ Weight(f) \in Int /\ Weight(f) <= Len(f.recs)
           /\ Len(AddLine(f, r).recs) \in Nat /\ Len(AddLine(f, r).recs) <= Len(f.recs) + 1
           /\ Weight(AddLine(f, r)) = Len(AddLine(f, r).recs)
           /\ Weight(AddLine(f, r)) >= Weight(f) + 1
           /\ Len(AddCut(f).recs) \in Nat /\ Len(AddCut(f).recs) <= Len(f.recs) + 1
           /\ Weight(AddCut(f)) \in Int /\ Weight(AddCut(f)) >= Weight(f) - 1
           /\ Len(AddOpen(f, r).recs) \in Nat /\ Len(AddOpen(f, r).recs) <= Len(f.recs) + 1
           /\ Weight(AddOpen(f, r)) \in Int /\ Weight(AddOpen(f, r)) >= Weight(f) - 1
<1>1. /\ f.recs \in Seq(R) /\ Len(f.recs) \in Nat /\ f.tail \in {"ended", "cut", "open"}
      /\ f = [recs |-> f.recs, bad |-> f.bad, tail |-> f.tail]
  BY LenProperties DEF FileOf
<1>2. /\ Len(Glued(f)) \in Nat
      /\ Len(Glued(f)) <= Len(f.recs)
      /\ f.tail # "open" => Len(Glued(f)) = Len(f.recs)
      /\ Len(f.recs) - 1 <= Len(Glued(f))
  BY GluedLength
<1>3. Len(Append(f.recs, r)) = Len(f.recs) + 1
  BY <1>1, AppendProperties
<1>4. Weight(f) \in Int /\ Weight(f) <= Len(f.recs)
  BY <1>1 DEF Weight
<1>5. /\ AddLine(f, r).tail = "ended"
      /\ f.tail = "ended" => AddLine(f, r).recs = Append(f.recs, r)
      /\ f.tail # "ended" => AddLine(f, r).recs = Glued(f)
  BY <1>1 DEF AddLine
<1>6. AddCut(f).recs = Glued(f) /\ AddCut(f).tail = "cut"
  BY <1>1 DEF AddCut
<1>7. /\ f.tail = "ended" =>
           AddOpen(f, r).recs = Append(f.recs, r) /\ AddOpen(f, r).tail = "open"
      /\ f.tail # "ended" => AddOpen(f, r) = AddCut(f)
  BY <1>1 DEF AddOpen
<1>8. /\ Len(AddLine(f, r).recs) \in Nat /\ Len(AddLine(f, r).recs) <= Len(f.recs) + 1
      /\ Weight(AddLine(f, r)) = Len(AddLine(f, r).recs)
      /\ Weight(AddLine(f, r)) >= Weight(f) + 1
  <2>1. Weight(AddLine(f, r)) = Len(AddLine(f, r).recs)
    <3>1. Weight(AddLine(f, r)) = Len(AddLine(f, r).recs) - 0
      BY <1>5 DEF Weight
    <3>2. Len(AddLine(f, r).recs) \in Nat
      BY <1>1, <1>2, <1>3, <1>5
    <3>. QED  BY <3>1, <3>2
  <2>2. CASE f.tail = "ended"
    <3>1. Weight(f) = Len(f.recs) - 0
      BY <2>2 DEF Weight
    <3>2. Len(AddLine(f, r).recs) = Len(f.recs) + 1
      BY <1>3, <1>5, <2>2
    <3>. QED  BY <1>1, <2>1, <3>1, <3>2
  <2>3. CASE f.tail = "cut"
    <3>1. Weight(f) = Len(f.recs) - 1
      BY <2>3 DEF Weight
    <3>2. AddLine(f, r).recs = Glued(f)
      BY <1>5, <2>3
    <3>3. Len(AddLine(f, r).recs) = Len(f.recs)
      BY <1>2, <2>3, <3>2
    <3>. QED  BY <1>1, <2>1, <3>1, <3>3
  <2>4. CASE f.tail = "open"
    <3>1. Weight(f) = Len(f.recs) - 2
      BY <2>4 DEF Weight
    <3>2. AddLine(f, r).recs = Glued(f)
      BY <1>5, <2>4
    <3>3. /\ Len(AddLine(f, r).recs) \in Nat /\ Len(AddLine(f, r).recs) <= Len(f.recs)
          /\ Len(f.recs) - 1 <= Len(AddLine(f, r).recs)
      BY <1>2, <3>2
    <3>. QED  BY <1>1, <2>1, <3>1, <3>3
  <2>. QED  BY <1>1, <2>2, <2>3, <2>4
<1>9. /\ Len(AddCut(f).recs) \in Nat /\ Len(AddCut(f).recs) <= Len(f.recs) + 1
      /\ Weight(AddCut(f)) \in Int /\ Weight(AddCut(f)) >= Weight(f) - 1
  BY <1>1, <1>2, <1>6 DEF Weight
<1>10. CASE f.tail = "ended"
  <2>1. /\ Len(AddOpen(f, r).recs) \in Nat /\ Len(AddOpen(f, r).recs) <= Len(f.recs) + 1
        /\ Weight(AddOpen(f, r)) \in Int /\ Weight(AddOpen(f, r)) >= Weight(f) - 1
    BY <1>1, <1>3, <1>7, <1>10 DEF Weight
  <2>. QED  BY <1>1, <1>4, <1>8, <1>9, <2>1
<1>11. CASE f.tail # "ended"
  <2>1. AddOpen(f, r) = AddCut(f)
    BY <1>7, <1>11
  <2>2. /\ Len(AddOpen(f, r).recs) \in Nat /\ Len(AddOpen(f, r).recs) <= Len(f.recs) + 1
        /\ Weight(AddOpen(f, r)) \in Int /\ Weight(AddOpen(f, r)) >= Weight(f) - 1
    BY <1>9, <2>1, Zenon
  <2>. QED  BY <1>1, <1>4, <1>8, <1>9, <2>2, Zenon
<1>. QED  BY <1>10, <1>11
=============================================================================
