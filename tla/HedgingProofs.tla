----------------------------- MODULE HedgingProofs -----------------------------
(***************************************************************************)
(* The types of the markets commands and of hedging, coherent searches,    *)
(* hedges that hold and an answer that does not depend on the order of the *)
(* tasks, for any markets, rankings, quotes, pages and workers.            *)
(***************************************************************************)
EXTENDS Hedging, FiniteSetTheorems, FunctionTheorems, SequenceTheorems, TLAPS

-----------------------------------------------------------------------------
(* Lists: before[x] are the members of S ahead of x, in a strict total order *)

IsOrder(S, before) ==
    /\ before \in [S -> SUBSET S]
    /\ \A x \in S : x \notin before[x]
    /\ \A x, y \in S : y \in before[x] => before[y] \subseteq before[x]
    /\ \A x, y \in S : x = y \/ x \in before[y] \/ y \in before[x]

LEMMA IntervalSize ==
    ASSUME NEW n \in Nat PROVE IsFiniteSet(1..n) /\ Cardinality(1..n) = n
<1>1. IsFiniteSet(1..n) /\ Cardinality(1..n) = IF 1 > n THEN 0 ELSE n - 1 + 1
  BY FS_Interval
<1> QED BY <1>1

\* The number of those ahead tells the order, and every number occurs.
LEMMA Ranks ==
    ASSUME NEW S, IsFiniteSet(S), NEW before, IsOrder(S, before)
    PROVE  /\ Cardinality(S) \in Nat
           /\ \A x \in S : Cardinality(before[x]) \in 0..(Cardinality(S) - 1)
           /\ \A x, y \in S : y \in before[x] <=> Cardinality(before[y]) < Cardinality(before[x])
           /\ \A n \in 1..Cardinality(S) : \E x \in S : Cardinality(before[x]) = n - 1
<1> DEFINE size == Cardinality(S)
           Rank(x) == Cardinality(before[x])
<1>1. size \in Nat
  BY FS_CardinalityType
<1>2. ASSUME NEW x \in S
      PROVE  IsFiniteSet(before[x]) /\ Rank(x) \in Nat /\ Rank(x) < size
  <2>1. before[x] \in SUBSET S /\ x \notin before[x]
    BY DEF IsOrder
  <2>2. IsFiniteSet(before[x]) /\ Rank(x) <= size /\ (size = Rank(x) => S = before[x])
    BY <2>1, FS_Subset
  <2>3. Rank(x) \in Nat
    BY <2>2, FS_CardinalityType
  <2> QED BY <1>1, <2>1, <2>2, <2>3
<1>3. ASSUME NEW x \in S, NEW y \in S, y \in before[x] PROVE Rank(y) < Rank(x)
  <2>1. before[y] \in SUBSET before[x] /\ before[y] # before[x]
    BY <1>3 DEF IsOrder
  <2>2. Rank(y) <= Rank(x) /\ (Rank(x) = Rank(y) => before[x] = before[y])
    BY <1>2, <2>1, FS_Subset
  <2>3. Rank(x) \in Nat /\ Rank(y) \in Nat
    BY <1>2
  <2> QED BY <2>1, <2>2, <2>3
<1>4. \A x, y \in S : x # y => Rank(x) # Rank(y)
  <2> SUFFICES ASSUME NEW x \in S, NEW y \in S, x # y PROVE Rank(x) # Rank(y)
    OBVIOUS
  <2>1. x \in before[y] \/ y \in before[x]
    BY DEF IsOrder
  <2>2. Rank(x) \in Nat /\ Rank(y) \in Nat
    BY <1>2
  <2>3. Rank(x) < Rank(y) \/ Rank(y) < Rank(x)
    BY <1>3, <2>1
  <2> HIDE DEF Rank
  <2> QED BY <2>2, <2>3
<1>5. \A n \in 1..size : \E x \in S : Rank(x) = n - 1
  <2> DEFINE f == [x \in S |-> Rank(x) + 1]
  <2>1. f \in [S -> 1..size]
    <3>1. ASSUME NEW x \in S PROVE Rank(x) + 1 \in 1..size
      <4> HIDE DEF Rank, size
      <4> QED BY <1>1, <1>2
    <3> QED BY <3>1
  <2>2. \A x, y \in S : f[x] = f[y] => x = y
    <3> SUFFICES ASSUME NEW x \in S, NEW y \in S, f[x] = f[y] PROVE x = y
      OBVIOUS
    <3>1. Rank(x) + 1 = Rank(y) + 1 /\ Rank(x) \in Nat /\ Rank(y) \in Nat
      BY <1>2
    <3>2. Rank(x) = Rank(y)
      <4> HIDE DEF Rank
      <4> QED BY <3>1
    <3> QED BY <1>4, <3>2
  <2>3. f \in Injection(S, 1..size)
    <3> HIDE DEF f, size
    <3> QED BY <2>1, <2>2, Fun_IsInj
  <2>4. IsFiniteSet(1..size) /\ Cardinality(1..size) = size
    BY <1>1, IntervalSize
  <2>5. f \in Surjection(S, 1..size)
    <3> HIDE DEF f
    <3> QED BY <2>3, <2>4, FS_Injection
  <2>6. ASSUME NEW n \in 1..size PROVE \E x \in S : f[x] = n
    <3> HIDE DEF f
    <3> QED BY <2>5 DEF Surjection
  <2>7. ASSUME NEW n \in 1..size PROVE \E x \in S : Rank(x) = n - 1
    <3>1. PICK x \in S : f[x] = n
      BY <2>6
    <3>2. Rank(x) + 1 = n /\ Rank(x) \in Nat
      BY <1>2, <3>1
    <3>3. Rank(x) = n - 1
      <4> HIDE DEF Rank
      <4> QED BY <3>2
    <3> QED BY <3>3
  <2> QED BY <2>7
<1>6. \A x, y \in S : Rank(y) < Rank(x) => y \in before[x]
  <2> SUFFICES ASSUME NEW x \in S, NEW y \in S, Rank(y) < Rank(x) PROVE y \in before[x]
    OBVIOUS
  <2>1. Rank(x) \in Nat /\ Rank(y) \in Nat
    BY <1>2
  <2>2. x = y \/ x \in before[y] \/ y \in before[x]
    BY DEF IsOrder
  <2>3. ~(x \in before[y])
    <3>1. x \in before[y] => Rank(x) < Rank(y)
      BY <1>3
    <3> HIDE DEF Rank
    <3> QED BY <2>1, <3>1
  <2>4. x # y
    <3> HIDE DEF Rank
    <3> QED BY <2>1
  <2> QED BY <2>2, <2>3, <2>4
<1>7. \A x \in S : Rank(x) \in 0..(size - 1)
  <2> HIDE DEF Rank, size
  <2> QED BY <1>1, <1>2
<1> QED BY <1>1, <1>3, <1>5, <1>6, <1>7

\* A list whose n-th element has n - 1 ahead of it.
IsRanked(list, S, before) ==
    /\ list \in [1..Cardinality(S) -> S]
    /\ \A n \in 1..Cardinality(S) : Cardinality(before[list[n]]) = n - 1

\* A list of every member, once and in order.
IsListing(list, S, before) ==
    /\ \A m, n \in 1..Cardinality(S) : m < n <=> list[m] \in before[list[n]]
    /\ \A x \in S : \E n \in 1..Cardinality(S) : list[n] = x

LEMMA RankedList ==
    ASSUME NEW S, IsFiniteSet(S), NEW before, IsOrder(S, before),
           NEW list, IsRanked(list, S, before)
    PROVE  IsListing(list, S, before)
<1> DEFINE size == Cardinality(S)
<1>1. /\ size \in Nat
      /\ \A x \in S : Cardinality(before[x]) \in 0..(size - 1)
      /\ \A x, y \in S : y \in before[x] <=> Cardinality(before[y]) < Cardinality(before[x])
      /\ \A x, y \in S : x # y => x \in before[y] \/ y \in before[x]
  BY Ranks DEF IsOrder
<1>2. ASSUME NEW m \in 1..size, NEW n \in 1..size PROVE m < n <=> list[m] \in before[list[n]]
  <2>1. list[m] \in S /\ list[n] \in S
    BY DEF IsRanked
  <2>2. Cardinality(before[list[m]]) = m - 1 /\ Cardinality(before[list[n]]) = n - 1
    BY DEF IsRanked
  <2>3. list[m] \in before[list[n]] <=> m - 1 < n - 1
    BY <1>1, <2>1, <2>2
  <2> HIDE DEF size
  <2> QED BY <1>1, <2>3
<1>3. ASSUME NEW x \in S PROVE \E n \in 1..size : list[n] = x
  <2> DEFINE n == Cardinality(before[x]) + 1
  <2>1. n \in 1..size
    <3> HIDE DEF size
    <3> QED BY <1>1
  <2>2. Cardinality(before[list[n]]) = n - 1 /\ list[n] \in S
    BY <2>1 DEF IsRanked
  <2>3. Cardinality(before[list[n]]) = Cardinality(before[x]) /\ Cardinality(before[x]) \in Nat
    BY <1>1, <2>2
  <2>4. list[n] \notin before[x] /\ x \notin before[list[n]]
    BY <1>1, <2>2, <2>3
  <2> QED BY <1>1, <2>1, <2>2, <2>4
<1> QED BY <1>2, <1>3 DEF IsListing

\* Ascending lists the numbers of a set, each once, from the least on.
LEMMA AscendingLists ==
    ASSUME NEW numbers \in SUBSET Nat, IsFiniteSet(numbers)
    PROVE  /\ Cardinality(numbers) \in Nat
           /\ Ascending(numbers) \in [1..Cardinality(numbers) -> numbers]
           /\ \A m, n \in 1..Cardinality(numbers) :
                 m < n <=> Ascending(numbers)[m] < Ascending(numbers)[n]
           /\ \A i \in numbers : \E n \in 1..Cardinality(numbers) : Ascending(numbers)[n] = i
<1> DEFINE before == [i \in numbers |-> {j \in numbers : j < i}]
           size == Cardinality(numbers)
           Nth(n) == CHOOSE i \in numbers : Cardinality({j \in numbers : j < i}) = n - 1
           list == Ascending(numbers)
<1>1. IsOrder(numbers, before)
  <2>1. before \in [numbers -> SUBSET numbers]
    OBVIOUS
  <2>2. \A i, j \in numbers : j \in before[i] <=> j < i
    OBVIOUS
  <2>3. ASSUME NEW i \in numbers, NEW j \in numbers, j \in before[i]
        PROVE  before[j] \subseteq before[i]
    <3>1. \A k \in numbers : k < j => k < i
      BY <2>2, <2>3
    <3> QED BY <3>1
  <2> HIDE DEF before
  <2> QED BY <2>1, <2>2, <2>3 DEF IsOrder
<1>2. size \in Nat /\ \A n \in 1..size : \E i \in numbers : Cardinality(before[i]) = n - 1
  <2> HIDE DEF before
  <2> QED BY <1>1, Ranks
<1>3. ASSUME NEW n \in 1..size
      PROVE  Nth(n) \in numbers /\ Cardinality({j \in numbers : j < Nth(n)}) = n - 1
  <2>1. \E i \in numbers : Cardinality({j \in numbers : j < i}) = n - 1
    BY <1>2
  <2> HIDE DEF size
  <2> QED BY <2>1
<1>4. list = [n \in 1..size |-> Nth(n)]
  BY DEF Ascending
<1> HIDE DEF Nth, list
<1>5. list \in [1..size -> numbers]
  BY <1>3, <1>4
<1>6. IsRanked(list, numbers, before)
  BY <1>3, <1>4, <1>5 DEF IsRanked
<1> HIDE DEF before
<1>7. IsListing(list, numbers, before)
  BY <1>1, <1>6, RankedList
<1>8. \A m, n \in 1..size : m < n <=> list[m] < list[n]
  BY <1>5, <1>7 DEF before, IsListing
<1> QED BY <1>2, <1>5, <1>7, <1>8 DEF list, IsListing

\* Picked lists the elements at those places, each once and in their order.
LEMMA PickedLists ==
    ASSUME NEW S, NEW s \in Seq(S), NEW places \in SUBSET (DOMAIN s)
    PROVE  LET place == Ascending(places)
               picked == Picked(s, place) IN
           /\ picked \in Seq(S) /\ DOMAIN picked = 1..Cardinality(places)
           /\ Cardinality(places) \in 0..Len(s)
           /\ \A n \in DOMAIN picked : place[n] \in places /\ picked[n] = s[place[n]]
           /\ \A m, n \in DOMAIN picked : m < n => place[m] < place[n]
           /\ \A i \in places : \E n \in DOMAIN picked : place[n] = i
<1> DEFINE place == Ascending(places)
           picked == Picked(s, place)
           size == Cardinality(places)
<1>1. DOMAIN s = 1..Len(s) /\ Len(s) \in Nat /\ \A i \in DOMAIN s : s[i] \in S
  OBVIOUS
<1>2. places \in SUBSET Nat /\ IsFiniteSet(places) /\ size <= Len(s)
  <2>1. IsFiniteSet(1..Len(s)) /\ Cardinality(1..Len(s)) = Len(s)
    BY <1>1, IntervalSize
  <2>2. places \in SUBSET (1..Len(s))
    BY <1>1
  <2> QED BY <2>1, <2>2, FS_Subset
<1>3. /\ size \in Nat /\ place \in [1..size -> places]
      /\ \A m, n \in 1..size : m < n <=> place[m] < place[n]
      /\ \A i \in places : \E n \in 1..size : place[n] = i
  BY <1>2, AscendingLists
<1> HIDE DEF place, size
<1>4. picked = [n \in 1..size |-> s[place[n]]]
  BY <1>3 DEF Picked
<1>5. \A n \in 1..size : place[n] \in places /\ s[place[n]] \in S
  BY <1>1, <1>3
<1>6. picked \in Seq(S) /\ DOMAIN picked = 1..size
  BY <1>3, <1>4, <1>5
<1>7. size \in 0..Len(s)
  BY <1>1, <1>2, <1>3
<1> HIDE DEF picked
<1>8. \A n \in DOMAIN picked : place[n] \in places /\ picked[n] = s[place[n]]
  BY <1>4, <1>5, <1>6
<1> QED BY <1>3, <1>6, <1>7, <1>8 DEF place, picked, size
-----------------------------------------------------------------------------
(* The types of the markets commands *)

\* A slice of the ranking, and where it lies there.
LEMMA SliceLies ==
    ASSUME ranking \in Seq(Markets), NEW first \in Nat, NEW skip \in Nat
    PROVE  LET slice == Slice(first, skip) IN
           /\ slice \in Seq(Markets) /\ Len(slice) \in Nat
           /\ \A i \in DOMAIN slice : skip + i \in DOMAIN ranking /\ i <= first /\ slice[i] = ranking[skip + i]
           /\ \A i \in DOMAIN ranking : skip < i /\ i <= skip + first =>
                  i - skip \in DOMAIN slice /\ slice[i - skip] = ranking[i]
           /\ slice = << >> /\ first > 0 => Len(ranking) <= skip
<1> DEFINE size == Len(ranking)
           last == IF skip + first < size THEN skip + first ELSE size
           slice == Slice(first, skip)
<1>1. DOMAIN ranking = 1..size /\ size \in Nat /\ \A i \in DOMAIN ranking : ranking[i] \in Markets
  OBVIOUS
<1> HIDE DEF size
<1>2. last \in Nat /\ last <= skip + first /\ last <= size /\ (last = skip + first \/ last = size)
  BY <1>1
<1>3. slice = SubSeq(ranking, skip + 1, last)
  BY DEF Slice, size
<1> HIDE DEF last, slice
<1>4. skip + 1 \in Int /\ last \in Int /\ \A i \in (skip + 1)..last : ranking[i] \in Markets
  BY <1>1, <1>2
<1>5. /\ slice \in Seq(Markets)
      /\ Len(slice) = IF skip + 1 <= last THEN last - (skip + 1) + 1 ELSE 0
      /\ \A i \in 1..(last - (skip + 1) + 1) : slice[i] = ranking[skip + 1 + i - 1]
  BY <1>3, <1>4, SubSeqProperties
<1>6. DOMAIN slice = 1..Len(slice) /\ Len(slice) \in Nat
  BY <1>5
<1>7. ASSUME NEW i \in DOMAIN slice
      PROVE  skip + i \in DOMAIN ranking /\ i <= first /\ slice[i] = ranking[skip + i]
  <2> DEFINE long == Len(slice)
  <2>a. long = IF skip + 1 <= last THEN last - (skip + 1) + 1 ELSE 0
    BY <1>5
  <2>b. i \in 1..long /\ long \in Nat
    BY <1>6
  <2> HIDE DEF long
  <2>c. i \in Nat /\ 1 <= i /\ i <= long
    BY <2>b
  <2>d. i <= last - (skip + 1) + 1
    BY <1>2, <2>a, <2>b, <2>c
  <2>1. i \in Nat /\ i \in 1..(last - (skip + 1) + 1) /\ skip + 1 + i - 1 = skip + i
    BY <1>2, <2>c, <2>d
  <2>2. slice[i] = ranking[skip + i]
    BY <1>5, <2>1
  <2>3. skip + i <= last /\ skip + i \in Nat /\ skip + i >= 1
    BY <1>2, <2>1
  <2>4. skip + i \in 1..size /\ i <= first
    BY <1>1, <1>2, <2>1, <2>3
  <2> QED BY <1>1, <2>2, <2>4
<1>8. ASSUME NEW i \in DOMAIN ranking, skip < i, i <= skip + first
      PROVE  i - skip \in DOMAIN slice /\ slice[i - skip] = ranking[i]
  <2>1. i <= last /\ i \in Nat
    BY <1>1, <1>2, <1>8
  <2>2. i - skip \in 1..(last - (skip + 1) + 1) /\ skip + 1 + (i - skip) - 1 = i
    BY <1>2, <1>8, <2>1
  <2> DEFINE long == Len(slice)
  <2>a. long = (IF skip + 1 <= last THEN last - (skip + 1) + 1 ELSE 0) /\ DOMAIN slice = 1..long
    BY <1>5, <1>6
  <2> HIDE DEF long
  <2>3. i - skip \in DOMAIN slice
    BY <1>2, <1>8, <2>1, <2>2, <2>a
  <2> QED BY <1>5, <2>2, <2>3
<1>9. slice = << >> /\ first > 0 => size <= skip
  <2>1. slice = << >> => Len(slice) = 0
    OBVIOUS
  <2> QED BY <1>1, <1>2, <1>5, <2>1
<1> QED BY <1>5, <1>6, <1>7, <1>8, <1>9 DEF slice, size

\* As many markets are skipped as there are on the pages.
LEMMA Skips ==
    /\ Skip(0) = 0
    /\ \A n \in Nat : Skip(n) \in Nat /\ Skip(n + 1) = Skip(n) + PageSize
<1>1. PageSize \in Nat
  BY MarketsAssumption
<1> QED BY <1>1 DEF Skip

\* A mark is a price.
LEMMA MarksArePrices ==
    ASSUME NEW q \in Quote PROVE Marks(q) \subseteq Price
<1>1. Unit \in Nat \ {0}
  BY MarketsAssumption
<1>2. \A a, b \in Price : (a + b) \div 2 \in Price /\ (a + b + 1) \div 2 \in Price
  <2>1. ASSUME NEW a \in 0..Unit, NEW b \in 0..Unit
        PROVE  (a + b) \div 2 \in 0..Unit /\ (a + b + 1) \div 2 \in 0..Unit
    BY <1>1
  <2> QED BY <2>1 DEF Price
<1>3. Unit \div 2 \in Price
  BY <1>1 DEF Price
<1>4. q.ask \in Price \union {None} /\ q.bid \in Price \union {None} /\ q.last \in Price \union {None}
  BY DEF Quote
<1> QED BY <1>2, <1>3, <1>4 DEF Marks

\* The volume of a market is a number.
LEMMA VolumeType ==
    ASSUME ranking \in Seq(Markets), NEW m PROVE Volume(m) \in Nat
<1> DEFINE ahead == {i \in DOMAIN ranking : \E j \in 1..(i - 1) : ranking[j] = m}
<1>0. Len(ranking) \in Nat /\ DOMAIN ranking = 1..Len(ranking)
  OBVIOUS
<1>1. IsFiniteSet(1..Len(ranking)) /\ ahead \in SUBSET (1..Len(ranking))
  BY <1>0, IntervalSize
<1>2. IsFiniteSet(ahead)
  BY <1>1, FS_Subset
<1>3. Cardinality(ahead) \in Nat
  BY <1>2, FS_CardinalityType
<1> QED BY <1>3 DEF Volume

\* Sorting summaries by their volume gives as many summaries.
LEMMA SortingType ==
    ASSUME NEW s \in Seq(Summary)
    PROVE  SortedByVolume(s) \in Seq(Summary) /\ Len(SortedByVolume(s)) = Len(s)
<1> DEFINE before == [i \in DOMAIN s |->
               {j \in DOMAIN s : s[j].volume > s[i].volume \/ (s[j].volume = s[i].volume /\ j < i)}]
           Nth(n) == CHOOSE i \in DOMAIN s : Cardinality(
               {j \in DOMAIN s : s[j].volume > s[i].volume
                                 \/ (s[j].volume = s[i].volume /\ j < i)}) = n - 1
<1>1. DOMAIN s = 1..Len(s) /\ Len(s) \in Nat /\ \A i \in DOMAIN s : s[i] \in Summary /\ s[i].volume \in Nat
  <2>1. DOMAIN s = 1..Len(s) /\ Len(s) \in Nat /\ \A i \in DOMAIN s : s[i] \in Summary
    OBVIOUS
  <2>2. \A summary \in Summary : summary.volume \in Nat
    BY DEF Summary
  <2> QED BY <2>1, <2>2
<1>2. IsFiniteSet(DOMAIN s) /\ Cardinality(DOMAIN s) = Len(s)
  BY <1>1, IntervalSize
<1>3. IsOrder(DOMAIN s, before)
  <2>1. before \in [DOMAIN s -> SUBSET (DOMAIN s)]
    OBVIOUS
  <2>2. \A i, j \in DOMAIN s : j \in before[i] <=>
            s[j].volume > s[i].volume \/ (s[j].volume = s[i].volume /\ j < i)
    OBVIOUS
  <2>3. \A i \in DOMAIN s : i \in Nat /\ s[i].volume \in Nat
    BY <1>1
  <2> HIDE DEF before
  <2>4. \A i \in DOMAIN s : i \notin before[i]
    BY <2>2, <2>3
  <2>5. ASSUME NEW i \in DOMAIN s, NEW j \in DOMAIN s, j \in before[i]
        PROVE  before[j] \subseteq before[i]
    <3>1. ASSUME NEW k \in DOMAIN s, k \in before[j] PROVE k \in before[i]
      BY <2>2, <2>3, <2>5, <3>1
    <3> QED BY <2>1, <3>1
  <2>6. \A i, j \in DOMAIN s : i = j \/ i \in before[j] \/ j \in before[i]
    BY <2>2, <2>3
  <2> QED BY <2>1, <2>4, <2>5, <2>6 DEF IsOrder
<1>4. SortedByVolume(s) = [n \in DOMAIN s |-> s[Nth(n)]]
  BY DEF SortedByVolume
<1>5. ASSUME NEW n \in DOMAIN s PROVE Nth(n) \in DOMAIN s
  <2>1. \E i \in DOMAIN s : Cardinality(before[i]) = n - 1
    <3> HIDE DEF before
    <3> QED BY <1>1, <1>2, <1>3, Ranks
  <2>2. \E i \in DOMAIN s : Cardinality(
            {j \in DOMAIN s : s[j].volume > s[i].volume
                              \/ (s[j].volume = s[i].volume /\ j < i)}) = n - 1
    BY <2>1
  <2> HIDE DEF before
  <2> QED BY <2>2
<1> HIDE DEF before, Nth
<1>6. \A n \in 1..Len(s) : s[Nth(n)] \in Summary
  BY <1>1, <1>5
<1> QED BY <1>1, <1>4, <1>6

LEMMA ListingType ==
    ASSUME listed \in Seq(Summary) PROVE Listing \in Seq(Summary)
<1> DEFINE s == SortedByVolume(listed)
           last == IF Limit < Len(listed) THEN Limit ELSE Len(listed)
<1>1. s \in Seq(Summary) /\ Len(s) = Len(listed) /\ Len(listed) \in Nat /\ Limit \in Nat
  BY SortingType, MarketsAssumption
<1>2. last \in Int /\ last <= Len(listed)
  BY <1>1
<1> HIDE DEF s, last
<1>3. \A i \in 1..last : s[i] \in Summary
  BY <1>1, <1>2
<1>4. SubSeq(s, 1, last) \in Seq(Summary)
  BY <1>2, <1>3, SubSeqProperties
<1> QED BY <1>4 DEF Listing, s, last

\* The last summary of a market that was listed.
LEMMA SummaryOfType ==
    ASSUME listed \in Seq(Summary), NEW m, \E i \in DOMAIN listed : listed[i].market = m
    PROVE  SummaryOf(m) \in Summary
<1> DEFINE places == {i \in DOMAIN listed : listed[i].market = m}
           size == Cardinality(places)
           place == Ascending(places)
<1>1. DOMAIN listed = 1..Len(listed) /\ Len(listed) \in Nat /\ \A i \in DOMAIN listed : listed[i] \in Summary
  OBVIOUS
<1>2. places \in SUBSET Nat /\ IsFiniteSet(places) /\ places # {}
  <2>1. IsFiniteSet(1..Len(listed)) /\ places \in SUBSET (1..Len(listed))
    BY <1>1, IntervalSize
  <2>2. IsFiniteSet(places)
    BY <2>1, FS_Subset
  <2> QED BY <1>1, <2>2
<1>3. /\ size \in Nat /\ place \in [1..size -> places]
      /\ \A k, n \in 1..size : k < n <=> place[k] < place[n]
      /\ \A i \in places : \E n \in 1..size : place[n] = i
  <2> HIDE DEF places
  <2> QED BY <1>2, AscendingLists
<1>4. \E i \in places : \A j \in places : j <= i
  <2> HIDE DEF size, place
  <2>1. size \in 1..size
    <3>1. \E n : n \in 1..size
      <4> HIDE DEF places
      <4> QED BY <1>2, <1>3
    <3> QED BY <1>3, <3>1
  <2>2. ASSUME NEW j \in places PROVE j <= place[size]
    <3> HIDE DEF places
    <3>1. PICK n \in 1..size : place[n] = j
      BY <1>3
    <3>2. ~(size < n)
      BY <1>3
    <3>4. place[size] \in Nat /\ j \in Nat
      <4>1. place[size] \in places
        BY <1>3, <2>1
      <4> QED BY <1>2, <4>1
    <3>3. ~(place[size] < j)
      BY <1>3, <2>1, <3>1, <3>2
    <3> QED BY <3>3, <3>4
  <2>3. place[size] \in places
    BY <1>3, <2>1
  <2> QED BY <2>2, <2>3
<1>5. \E i \in DOMAIN listed : listed[i].market = m /\ \A j \in DOMAIN listed : listed[j].market = m => j <= i
  BY <1>4
<1> QED BY <1>1, <1>5 DEF SummaryOf

\* A function of few markets is a list.
LEMMA ListsOfMarkets ==
    ASSUME NEW ids \in UNION {[1..n -> Markets] : n \in 0..2} PROVE ids \in Seq(Markets)
<1>1. PICK n \in 0..2 : ids \in [1..n -> Markets]
  OBVIOUS
<1>2. n \in Nat
  OBVIOUS
<1> QED BY <1>1, <1>2

LEMMA ExchangeTypes == ASSUME MarketsTypeOK, Exchange PROVE MarketsTypeOK'
<1>0. /\ ranking \in Seq(Markets) /\ DOMAIN ranking = 1..Len(ranking) /\ Len(ranking) \in Nat
      /\ \A i \in DOMAIN ranking : ranking[i] \in Markets
  BY DEF MarketsTypeOK
<1>1. ASSUME NEW new, NEW up, NEW down, Moves(new, up, down),
             new \in Seq(Markets), up \subseteq Markets, down \subseteq Markets
      PROVE  MarketsTypeOK'
  <2>1. moves' \in 0..MaxMoves
    BY <1>1, MarketsAssumption DEF MarketsTypeOK, Moves
  <2> QED BY <1>1, <2>1 DEF MarketsTypeOK, Moves
<1>2. ASSUME NEW i \in DOMAIN ranking, Overtakes(i) PROVE MarketsTypeOK'
  <2> DEFINE new == [ranking EXCEPT ![i] = ranking[i - 1], ![i - 1] = ranking[i]]
  <2>1. i - 1 \in DOMAIN ranking
    BY <1>0, <1>2 DEF Overtakes
  <2>2. ranking[i] \in Markets /\ ranking[i - 1] \in Markets
    BY <1>0, <2>1
  <2>3. new \in Seq(Markets)
    BY <1>0, <2>1, <2>2
  <2>4. Moves(new, {ranking[i]}, {ranking[i - 1]})
    BY <1>2 DEF Overtakes
  <2> HIDE DEF new
  <2> QED BY <1>1, <2>2, <2>3, <2>4
<1>3. ASSUME NEW i \in DOMAIN ranking, Closes(i) PROVE MarketsTypeOK'
  <2> DEFINE new == [j \in 1..(Len(ranking) - 1) |-> ranking[IF j < i THEN j ELSE j + 1]]
             up == {ranking[j] : j \in (i + 1)..Len(ranking)}
  <2>1. Len(ranking) - 1 \in Nat /\ \A j \in 1..(Len(ranking) - 1) : j \in DOMAIN ranking /\ j + 1 \in DOMAIN ranking
    BY <1>0
  <2>2. \A j \in 1..(Len(ranking) - 1) : ranking[IF j < i THEN j ELSE j + 1] \in Markets
    BY <1>0, <2>1
  <2>3. new \in Seq(Markets)
    BY <2>1, <2>2
  <2>4. up \subseteq Markets
    BY <1>0
  <2>5. Moves(new, up, {})
    BY <1>3 DEF Closes
  <2> HIDE DEF new, up
  <2> QED BY <1>1, <2>3, <2>4, <2>5
<1> QED BY <1>2, <1>3 DEF Exchange

LEMMA StartTypes ==
    ASSUME MarketsTypeOK, NEW k \in Kinds, NEW ids \in Seq(Markets), StartReading(k, ids)
    PROVE  MarketsTypeOK'
<1>1. found' \in Seq(Markets)
  <2>1. found' = found \/ found' = ids \/ found' = << >>
    BY DEF StartReading
  <2>2. found \in Seq(Markets) /\ << >> \in Seq(Markets)
    BY DEF MarketsTypeOK
  <2> QED BY <2>1, <2>2
<1>2. /\ ranking' = ranking /\ risen' = risen /\ fallen' = fallen /\ moves' = moves
      /\ page' = page /\ listed' = listed /\ kind' = k /\ asked' = ids
      /\ stage' \in Stages /\ result' \in Results \union {None}
  BY DEF StartReading, MarketsTypeOK, Refused, Stages, Results
<1> QED BY <1>1, <1>2 DEF MarketsTypeOK

LEMMA ReadingTypes ==
    ASSUME MarketsTypeOK, stage = "pages" /\ Paged => page < Pages, Reading PROVE MarketsTypeOK'
<1>0. /\ ranking \in Seq(Markets) /\ found \in Seq(Markets) /\ listed \in Seq(Summary)
      /\ page \in Nat /\ Pages \in Nat /\ Limit \in Nat /\ Wide \in Nat /\ PageSize \in Nat
  BY MarketsAssumption DEF MarketsTypeOK
<1>1. CASE Trending
  <2>1. found' \in Seq(Markets)
    <3>1. Slice(Wide, 0) \in Seq(Markets) /\ Slice(Limit, 0) \in Seq(Markets)
      BY <1>0, SliceLies
    <3> QED BY <1>1, <3>1 DEF Trending
  <2> QED BY <1>1, <2>1 DEF Trending, MarketsTypeOK, Stages
<1>2. CASE SearchPage
  <2> DEFINE slice == Slice(PageSize, Skip(page))
             picked == Picked(slice, Ascending({i \in DOMAIN slice : slice[i] \in Matching}))
  <2>1. slice \in Seq(Markets)
    BY <1>0, Skips, SliceLies
  <2>2. picked \in Seq(Markets)
    <3> HIDE DEF slice
    <3> QED BY <2>1, PickedLists
  <2>3. found' = found \o picked /\ page' = page + 1 /\ stage' \in {"enrich", "pages"} /\ page < Pages
    BY <1>2 DEF SearchPage
  <2> HIDE DEF picked, slice
  <2>4. found' \in Seq(Markets)
    BY <1>0, <2>2, <2>3
  <2>5. page' \in 0..Pages
    BY <1>0, <2>3
  <2> QED BY <1>2, <2>3, <2>4, <2>5 DEF SearchPage, MarketsTypeOK, Stages
<1>3. CASE Enrich
  <2> DEFINE m == found[Len(listed) + 1]
  <2>1. PICK q \in Quotes[m] : \E yes \in Marks(q) :
           listed' = Append(listed, [market |-> m, yes |-> yes, volume |-> Volume(m)])
    BY <1>3 DEF Enrich
  <2>7. PICK yes \in Marks(q) :
           listed' = Append(listed, [market |-> m, yes |-> yes, volume |-> Volume(m)])
    BY <2>1
  <2>2. m \in Markets
    <3>1. Len(listed) + 1 \in 1..Len(found)
      BY <1>0, <1>3 DEF Enrich
    <3> QED BY <1>0, <3>1
  <2> HIDE DEF m
  <2>3. yes \in Price
    <3>1. q \in Quote
      BY <2>2, MarketsAssumption
    <3> QED BY <3>1, MarksArePrices
  <2>4. Volume(m) \in Nat
    BY <1>0, VolumeType
  <2>5. [market |-> m, yes |-> yes, volume |-> Volume(m)] \in Summary
    BY <2>2, <2>3, <2>4 DEF Summary
  <2>6. listed' \in Seq(Summary)
    BY <1>0, <2>5, <2>7
  <2> QED BY <1>3, <2>6 DEF Enrich, MarketsTypeOK
<1>4. CASE Show
  <2>1. Listing \in Seq(Summary)
    BY <1>0, ListingType
  <2> QED BY <1>4, <2>1 DEF Show, MarketsTypeOK, Stages, Results
<1>5. CASE ReadingFails
  BY <1>5 DEF ReadingFails, MarketsTypeOK, Stages, Results
<1> QED BY <1>1, <1>2, <1>3, <1>4, <1>5 DEF Reading
-----------------------------------------------------------------------------
(* Searches *)

\* What a search has found while it goes through the pages: every matching
\* market within the pages read, but one that has risen, and none twice but one
\* that has fallen; no other market ranked behind these pages.
Gleaned(skip) ==
    /\ \A i \in DOMAIN ranking :
          i <= skip /\ ranking[i] \in Matching \ risen => \E j \in DOMAIN found : found[j] = ranking[i]
    /\ \A j \in DOMAIN found, i \in DOMAIN ranking :
          ranking[i] = found[j] => i <= skip \/ found[j] \in fallen
    /\ \A i, j \in DOMAIN found : found[i] = found[j] /\ i # j => found[i] \in fallen

SearchInv ==
    /\ \A i, j \in DOMAIN ranking : ranking[i] = ranking[j] => i = j
    /\ stage = "idle" => kind = None /\ page = 0 /\ found = << >>
    /\ stage # "idle" /\ kind = "analyze" => Len(asked) = 2
    /\ stage # "done" => result = None
    /\ Paged =>
       /\ stage # "details"
       /\ stage = "pages" => page < Pages
       /\ Gleaned(Skip(page))
       /\ stage \in {"enrich", "pair"} \/ result = "returned" =>
             Len(ranking) <= Skip(page) \/ page = Pages

MarketsInv == MarketsTypeOK /\ SearchInv

\* The number of markets skipped is a number.
LEMMA SkipType == ASSUME NEW n \in Nat PROVE Skip(n) \in Nat
BY Skips

LEMMA InitMarketsInv == MarketsInit => MarketsInv
<1> SUFFICES ASSUME MarketsInit PROVE MarketsInv
  OBVIOUS
<1>1. MarketsTypeOK
  BY MarketsAssumption DEF MarketsInit, MarketsTypeOK, Stages
<1>2. \A i, j \in DOMAIN ranking : ranking[i] = ranking[j] => i = j
  BY MarketsAssumption DEF MarketsInit
<1>3. found = << >> /\ page = 0 /\ result = None /\ kind = None /\ stage = "idle"
  BY DEF MarketsInit
<1>4. Skip(page) = 0 /\ DOMAIN found = {}
  BY <1>3, Skips
<1>5. Gleaned(Skip(page))
  <2>1. \A i \in DOMAIN ranking : ~(i <= 0)
    <3>1. DOMAIN ranking = 1..Len(ranking)
      BY <1>1 DEF MarketsTypeOK
    <3> QED BY <3>1
  <2> QED BY <1>4, <2>1 DEF Gleaned
<1>6. result # "returned"
  BY <1>3, MarketsAssumption DEF Results
<1> QED BY <1>1, <1>2, <1>3, <1>5, <1>6 DEF MarketsInv, SearchInv

\* The swap of two neighbours or the loss of a market spoils nothing.
LEMMA ExchangeKeepsInv == ASSUME MarketsInv, Exchange PROVE MarketsInv'
<1>0. /\ ranking \in Seq(Markets) /\ DOMAIN ranking = 1..Len(ranking) /\ Len(ranking) \in Nat
      /\ page \in Nat
  BY MarketsAssumption DEF MarketsInv, MarketsTypeOK
<1>1. MarketsTypeOK'
  BY ExchangeTypes DEF MarketsInv
<1>2. UNCHANGED <<kind, asked, stage, page, found, result>>
  BY DEF Exchange, Overtakes, Closes, Moves
<1>3. \A i, j \in DOMAIN ranking : ranking[i] = ranking[j] => i = j
  BY DEF MarketsInv, SearchInv
<1>4. ASSUME Len(ranking') <= Len(ranking), Len(ranking') \in Nat,
             \A i, j \in DOMAIN ranking' : ranking'[i] = ranking'[j] => i = j,
             \A skip \in Nat : Gleaned(skip) => Gleaned(skip)'
      PROVE  MarketsInv'
  <2> DEFINE skip == Skip(page)
  <2>1. skip \in Nat /\ Skip(page') = skip
    BY <1>0, <1>2, SkipType
  <2> HIDE DEF skip
  <2>2. Paged => Gleaned(skip)'
    BY <1>4, <2>1 DEF MarketsInv, SearchInv, skip
  <2>3. Paged' = Paged
    BY <1>2 DEF Paged
  <2>4. Len(ranking) <= skip => Len(ranking') <= skip
    BY <1>0, <1>4, <2>1
  <2>5. Paged' =>
       /\ stage' # "details"
       /\ stage' = "pages" => page' < Pages
       /\ Gleaned(skip)'
       /\ stage' \in {"enrich", "pair"} \/ result' = "returned" =>
             Len(ranking') <= skip \/ page' = Pages
    BY <1>2, <2>2, <2>3, <2>4 DEF MarketsInv, SearchInv, skip
  <2>6. SearchInv'
    BY <1>2, <1>4, <2>1, <2>5 DEF MarketsInv, SearchInv, skip
  <2> QED BY <1>1, <2>6 DEF MarketsInv
<1>5. ASSUME NEW i \in DOMAIN ranking, Overtakes(i) PROVE MarketsInv'
  <2>1. /\ i \in 1..Len(ranking) /\ i - 1 \in 1..Len(ranking) /\ i - 1 # i
        /\ ranking' = [ranking EXCEPT ![i] = ranking[i - 1], ![i - 1] = ranking[i]]
        /\ risen' = risen \union {ranking[i]} /\ fallen' = fallen \union {ranking[i - 1]}
    BY <1>0, <1>5 DEF Overtakes, Moves
  <2>2. /\ DOMAIN ranking' = DOMAIN ranking
        /\ ranking'[i] = ranking[i - 1] /\ ranking'[i - 1] = ranking[i]
        /\ \A j \in DOMAIN ranking : j # i /\ j # i - 1 => ranking'[j] = ranking[j]
    BY <1>0, <2>1
  <2>3. Len(ranking') = Len(ranking)
    BY <1>0, <1>1, <2>2 DEF MarketsTypeOK
  <2>4. \A k, l \in DOMAIN ranking' : ranking'[k] = ranking'[l] => k = l
    BY <1>0, <1>3, <2>1, <2>2
  <2>5. ASSUME NEW skip \in Nat, Gleaned(skip) PROVE Gleaned(skip)'
    <3>1. ASSUME NEW k \in DOMAIN ranking', k <= skip, ranking'[k] \in Matching \ risen'
          PROVE  \E j \in DOMAIN found' : found'[j] = ranking'[k]
      <4>1. CASE k = i
        BY <1>0, <1>2, <2>1, <2>2, <2>5, <3>1, <4>1 DEF Gleaned
      <4>2. CASE k = i - 1
        BY <2>1, <2>2, <3>1, <4>2
      <4>3. CASE k # i /\ k # i - 1
        BY <1>2, <2>1, <2>2, <2>5, <3>1, <4>3 DEF Gleaned
      <4> QED BY <4>1, <4>2, <4>3
    <3>2. ASSUME NEW j \in DOMAIN found', NEW k \in DOMAIN ranking', ranking'[k] = found'[j]
          PROVE  k <= skip \/ found'[j] \in fallen'
      <4>1. CASE k = i
        BY <2>1, <2>2, <3>2, <4>1
      <4>2. CASE k = i - 1
        <5>1. i <= skip \/ found[j] \in fallen
          BY <1>0, <1>2, <2>1, <2>2, <2>5, <3>2, <4>2 DEF Gleaned
        <5> QED BY <1>0, <1>2, <2>1, <4>2, <5>1
      <4>3. CASE k # i /\ k # i - 1
        BY <1>2, <2>1, <2>2, <2>5, <3>2, <4>3 DEF Gleaned
      <4> QED BY <4>1, <4>2, <4>3
    <3>3. \A k, j \in DOMAIN found' : found'[k] = found'[j] /\ k # j => found'[k] \in fallen'
      BY <1>2, <2>1, <2>5 DEF Gleaned
    <3> QED BY <3>1, <3>2, <3>3 DEF Gleaned
  <2> QED BY <1>0, <1>4, <2>3, <2>4, <2>5
<1>6. ASSUME NEW i \in DOMAIN ranking, Closes(i) PROVE MarketsInv'
  <2> DEFINE size == Len(ranking)
             From(j) == IF j < i THEN j ELSE j + 1
  <2>1. /\ size \in Nat /\ i \in 1..size /\ size - 1 \in Nat /\ DOMAIN ranking = 1..size
        /\ ranking' = [j \in 1..(size - 1) |-> ranking[From(j)]]
        /\ risen' = risen \union {ranking[j] : j \in (i + 1)..size} /\ fallen' = fallen
    BY <1>0, <1>6 DEF Closes, Moves
  <2> HIDE DEF size
  <2>2. \A j \in 1..(size - 1) : /\ j \in 1..size /\ From(j) \in 1..size /\ From(j) >= j
                                 /\ j >= i => From(j) \in (i + 1)..size
    BY <2>1
  <2>3. \A j, k \in 1..(size - 1) : From(j) = From(k) => j = k
    BY <2>1
  <2> HIDE DEF From
  <2>4. DOMAIN ranking' = 1..(size - 1) /\ \A j \in DOMAIN ranking' : ranking'[j] = ranking[From(j)]
    BY <2>1
  <2>5. Len(ranking') = size - 1 /\ Len(ranking') <= Len(ranking)
    BY <2>1, <2>4 DEF size
  <2>6. \A k, l \in DOMAIN ranking' : ranking'[k] = ranking'[l] => k = l
    BY <1>3, <2>1, <2>2, <2>3, <2>4
  <2>7. ASSUME NEW skip \in Nat, Gleaned(skip) PROVE Gleaned(skip)'
    <3>1. ASSUME NEW k \in DOMAIN ranking', k <= skip, ranking'[k] \in Matching \ risen'
          PROVE  \E j \in DOMAIN found' : found'[j] = ranking'[k]
      <4>1. k < i
        <5>1. k \in 1..(size - 1) /\ ranking'[k] = ranking[From(k)]
          BY <2>4
        <5>2. ranking'[k] \notin {ranking[j] : j \in (i + 1)..size}
          BY <2>1, <3>1
        <5>3. ~(k >= i)
          BY <2>2, <5>1, <5>2
        <5> QED BY <2>1, <5>1, <5>3
      <4>2. From(k) = k
        BY <4>1 DEF From
      <4>3. k \in DOMAIN ranking /\ ranking'[k] = ranking[k] /\ ranking[k] \in Matching \ risen
        BY <2>1, <2>2, <2>4, <3>1, <4>2
      <4> QED BY <1>2, <2>7, <3>1, <4>3 DEF Gleaned
    <3>2. ASSUME NEW j \in DOMAIN found', NEW k \in DOMAIN ranking', ranking'[k] = found'[j]
          PROVE  k <= skip \/ found'[j] \in fallen'
      <4>1. From(k) \in DOMAIN ranking /\ ranking[From(k)] = found[j] /\ j \in DOMAIN found
        BY <1>2, <2>1, <2>2, <2>4, <3>2
      <4>2. From(k) <= skip \/ found[j] \in fallen
        BY <2>7, <4>1 DEF Gleaned
      <4>3. From(k) \in Nat /\ k \in Nat /\ k <= From(k)
        BY <2>1, <2>2, <2>4
      <4> QED BY <1>2, <2>1, <4>2, <4>3
    <3>3. \A k, j \in DOMAIN found' : found'[k] = found'[j] /\ k # j => found'[k] \in fallen'
      BY <1>2, <2>1, <2>7 DEF Gleaned
    <3> QED BY <3>1, <3>2, <3>3 DEF Gleaned
  <2> QED BY <1>4, <2>1, <2>5, <2>6, <2>7
<1> QED BY <1>5, <1>6 DEF Exchange

\* A command begins with nothing read.
LEMMA StartKeepsMarketsInv ==
    ASSUME MarketsInv, NEW k \in Kinds, NEW ids \in Seq(Markets), StartReading(k, ids)
    PROVE  MarketsInv'
<1>1. MarketsTypeOK'
  BY StartTypes DEF MarketsInv
<1>2. /\ ranking' = ranking /\ page' = 0 /\ kind' = k /\ stage' # "idle"
      /\ stage' = "done" \/ result' = result
      /\ stage' = "details" => k = "details"
      /\ k # "details" => found' = << >>
      /\ kind' = "analyze" => Len(asked') = 2
      /\ stage' \notin {"enrich", "pair"} /\ result = None
      /\ result' # "returned"
  BY MarketsAssumption DEF StartReading, MarketsInv, SearchInv, Refused, Results
<1>3. CASE k = "details"
  <2>1. ~Paged'
    BY <1>2, <1>3 DEF Paged
  <2> QED BY <1>1, <1>2, <2>1 DEF MarketsInv, SearchInv
<1>4. CASE k # "details"
  <2>1. Skip(page') = 0 /\ DOMAIN found' = {} /\ DOMAIN ranking' = 1..Len(ranking')
    BY <1>1, <1>2, <1>4, Skips DEF MarketsTypeOK
  <2>2. \A i \in DOMAIN ranking' : ~(i <= 0)
    BY <2>1
  <2>3. Gleaned(Skip(page))'
    BY <2>1, <2>2 DEF Gleaned
  <2>4. page' < Pages
    BY <1>2, MarketsAssumption
  <2> QED BY <1>1, <1>2, <1>4, <2>3, <2>4 DEF MarketsInv, SearchInv
<1> QED BY <1>3, <1>4

\* The next page adds what matches on it, and all of that.
LEMMA PageKeepsInv == ASSUME MarketsInv, SearchPage PROVE MarketsInv'
<1> DEFINE skip == Skip(page)
           slice == Slice(PageSize, skip)
           places == {i \in DOMAIN slice : slice[i] \in Matching}
           place == Ascending(places)
           picked == Picked(slice, place)
<1>0. /\ ranking \in Seq(Markets) /\ found \in Seq(Markets) /\ DOMAIN ranking = 1..Len(ranking)
      /\ Len(ranking) \in Nat /\ DOMAIN found = 1..Len(found) /\ Len(found) \in Nat
      /\ page \in Nat /\ PageSize \in Nat /\ PageSize > 0 /\ Pages \in Nat
  BY MarketsAssumption DEF MarketsInv, MarketsTypeOK
<1>1. /\ stage = "pages" /\ Paged /\ Paged' /\ page < Pages /\ Gleaned(skip)
      /\ UNCHANGED <<ranking, risen, fallen, kind, asked, result>> /\ page' = page + 1
      /\ kind # "analyze"
      /\ found' = found \o picked
      /\ stage' = IF slice = << >> \/ page + 1 = Pages THEN "enrich" ELSE "pages"
      /\ result = None
      /\ \A i, j \in DOMAIN ranking : ranking[i] = ranking[j] => i = j
  BY DEF SearchPage, Paged, MarketsInv, SearchInv
<1>2. MarketsTypeOK'
  BY <1>1, ReadingTypes DEF Reading, MarketsInv
<1>3. skip \in Nat /\ Skip(page') = skip + PageSize
  BY <1>0, <1>1, Skips
<1> HIDE DEF skip
<1>4. /\ slice \in Seq(Markets)
      /\ \A i \in DOMAIN slice : skip + i \in DOMAIN ranking /\ i <= PageSize /\ slice[i] = ranking[skip + i]
      /\ \A i \in DOMAIN ranking : skip < i /\ i <= skip + PageSize =>
             i - skip \in DOMAIN slice /\ slice[i - skip] = ranking[i]
      /\ slice = << >> => Len(ranking) <= skip
  BY <1>0, <1>3, SliceLies
<1> HIDE DEF slice
<1>5. /\ picked \in Seq(Markets)
      /\ \A n \in DOMAIN picked : place[n] \in places /\ picked[n] = slice[place[n]]
      /\ \A m, n \in DOMAIN picked : m < n => place[m] < place[n]
      /\ \A i \in places : \E n \in DOMAIN picked : place[n] = i
  <2>1. places \in SUBSET (DOMAIN slice)
    OBVIOUS
  <2>2. slice \in Seq(Markets)
    BY <1>4
  <2> HIDE DEF places
  <2>3. LET at == Ascending(places)
            matches == Picked(slice, at) IN
        /\ matches \in Seq(Markets)
        /\ \A n \in DOMAIN matches : at[n] \in places /\ matches[n] = slice[at[n]]
        /\ \A m, n \in DOMAIN matches : m < n => at[m] < at[n]
        /\ \A i \in places : \E n \in DOMAIN matches : at[n] = i
    <3> HIDE DEF place, picked
    <3> QED BY ONLY <2>1, <2>2, PickedLists
  <2> QED BY <2>3
<1>6. \A i \in DOMAIN slice : i \in Nat
  BY <1>4
<1> HIDE DEF place, picked
<1>7. /\ DOMAIN picked = 1..Len(picked) /\ Len(picked) \in Nat
      /\ \A j \in DOMAIN found : j \in DOMAIN found' /\ found'[j] = found[j]
      /\ \A n \in DOMAIN picked : Len(found) + n \in DOMAIN found' /\ found'[Len(found) + n] = picked[n]
      /\ \A j \in DOMAIN found' : j \in DOMAIN found \/ \E n \in DOMAIN picked : j = Len(found) + n
  <2>1. /\ Len(found') = Len(found) + Len(picked) /\ DOMAIN found' = 1..Len(found')
        /\ \A i \in 1..Len(found) + Len(picked) :
              found'[i] = IF i <= Len(found) THEN found[i] ELSE picked[i - Len(found)]
    BY <1>0, <1>1, <1>5, ConcatProperties
  <2>2. DOMAIN picked = 1..Len(picked) /\ Len(picked) \in Nat
    BY <1>5
  <2>3. \A j \in DOMAIN found : j \in DOMAIN found' /\ found'[j] = found[j]
    BY <1>0, <2>1, <2>2
  <2>4. ASSUME NEW n \in DOMAIN picked
        PROVE  Len(found) + n \in DOMAIN found' /\ found'[Len(found) + n] = picked[n]
    <3>1. n \in Nat /\ n >= 1 /\ n <= Len(picked)
      BY <2>2
    <3>2. Len(found) + n \in 1..Len(found) + Len(picked) /\ ~(Len(found) + n <= Len(found))
          /\ Len(found) + n - Len(found) = n
      BY <1>0, <2>2, <3>1
    <3> QED BY <2>1, <3>2
  <2>5. ASSUME NEW j \in DOMAIN found', j \notin DOMAIN found
        PROVE  \E n \in DOMAIN picked : j = Len(found) + n
    <3>1. j - Len(found) \in 1..Len(picked) /\ j = Len(found) + (j - Len(found))
      BY <1>0, <2>1, <2>2, <2>5
    <3> QED BY <2>2, <3>1
  <2> QED BY <2>2, <2>3, <2>4, <2>5
<1>8. ASSUME NEW n \in DOMAIN picked
      PROVE  /\ place[n] \in Nat /\ skip + place[n] \in DOMAIN ranking
             /\ skip + place[n] <= skip + PageSize /\ picked[n] = ranking[skip + place[n]]
  <2>1. place[n] \in DOMAIN slice /\ picked[n] = slice[place[n]]
    BY <1>5
  <2>2. place[n] \in Nat /\ place[n] <= PageSize
    BY <1>4, <1>6, <2>1
  <2> QED BY <1>0, <1>3, <1>4, <2>1, <2>2
<1>9. \A read \in Nat : read = skip + PageSize => Gleaned(read)'
  <2>1. ASSUME NEW i \in DOMAIN ranking, i <= skip + PageSize, ranking[i] \in Matching \ risen
        PROVE  \E j \in DOMAIN found' : found'[j] = ranking[i]
    <3>1. CASE i <= skip
      <4>1. PICK j \in DOMAIN found : found[j] = ranking[i]
        BY <1>1, <2>1, <3>1 DEF Gleaned
      <4> QED BY <1>7, <4>1
    <3>2. CASE ~(i <= skip)
      <4>1. skip < i
        BY <1>0, <1>3, <3>2
      <4>2. i - skip \in places
        BY <1>4, <2>1, <4>1
      <4>3. PICK n \in DOMAIN picked : place[n] = i - skip
        BY <1>5, <4>2
      <4>4. picked[n] = ranking[i]
        BY <1>4, <1>5, <2>1, <4>1, <4>3
      <4> QED BY <1>7, <4>4
    <3> QED BY <3>1, <3>2
  <2>2. ASSUME NEW j \in DOMAIN found', NEW i \in DOMAIN ranking, ranking[i] = found'[j]
        PROVE  i <= skip + PageSize \/ found'[j] \in fallen
    <3>1. CASE j \in DOMAIN found
      <4>1. i <= skip \/ found[j] \in fallen
        BY <1>1, <1>7, <2>2, <3>1 DEF Gleaned
      <4>2. i <= skip => i <= skip + PageSize
        BY <1>0, <1>3
      <4> QED BY <1>7, <3>1, <4>1, <4>2
    <3>2. CASE \E n \in DOMAIN picked : j = Len(found) + n
      <4>1. PICK n \in DOMAIN picked : j = Len(found) + n
        BY <3>2
      <4>2. ranking[i] = ranking[skip + place[n]] /\ skip + place[n] \in DOMAIN ranking
        BY <1>7, <1>8, <2>2, <4>1
      <4>3. i = skip + place[n]
        BY <1>1, <4>2
      <4> QED BY <1>8, <4>3
    <3> QED BY <1>7, <3>1, <3>2
  <2>3. ASSUME NEW j \in DOMAIN found, NEW n \in DOMAIN picked, found[j] = picked[n]
        PROVE  found[j] \in fallen
    <3>1. skip + place[n] \in DOMAIN ranking /\ ranking[skip + place[n]] = found[j]
      BY <1>8, <2>3
    <3>2. skip + place[n] <= skip \/ found[j] \in fallen
      BY <1>1, <3>1 DEF Gleaned
    <3>3. place[n] > 0 /\ place[n] \in Nat
      <4>1. place[n] \in DOMAIN slice
        BY <1>5
      <4> QED BY <1>4, <1>8, <4>1
    <3> QED BY <1>3, <3>2, <3>3
  <2>4. ASSUME NEW m \in DOMAIN picked, NEW n \in DOMAIN picked, picked[m] = picked[n]
        PROVE  m = n
    <3>1. skip + place[m] = skip + place[n]
      BY <1>1, <1>8, <2>4
    <3>2. place[m] = place[n] /\ place[m] \in Nat
      BY <1>3, <1>8, <3>1
    <3>3. ~(m < n) /\ ~(n < m)
      BY <1>5, <3>2
    <3> QED BY <1>7, <3>3
  <2>5. ASSUME NEW i \in DOMAIN found', NEW j \in DOMAIN found', found'[i] = found'[j], i # j
        PROVE  found'[i] \in fallen
    <3>1. CASE i \in DOMAIN found /\ j \in DOMAIN found
      BY <1>1, <1>7, <2>5, <3>1 DEF Gleaned
    <3>2. CASE i \in DOMAIN found /\ j \notin DOMAIN found
      <4>1. PICK n \in DOMAIN picked : j = Len(found) + n
        BY <1>7, <3>2
      <4> QED BY <1>7, <2>3, <2>5, <3>2, <4>1
    <3>3. CASE i \notin DOMAIN found /\ j \in DOMAIN found
      <4>1. PICK n \in DOMAIN picked : i = Len(found) + n
        BY <1>7, <3>3
      <4> QED BY <1>7, <2>3, <2>5, <3>3, <4>1
    <3>4. CASE i \notin DOMAIN found /\ j \notin DOMAIN found
      <4>1. PICK m \in DOMAIN picked : i = Len(found) + m
        BY <1>7, <3>4
      <4>2. PICK n \in DOMAIN picked : j = Len(found) + n
        BY <1>7, <3>4
      <4> QED BY <1>7, <2>4, <2>5, <4>1, <4>2
    <3> QED BY <3>1, <3>2, <3>3, <3>4
  <2> SUFFICES ASSUME NEW read \in Nat, read = skip + PageSize PROVE Gleaned(read)'
    OBVIOUS
  <2> QED BY <1>1, <2>1, <2>2, <2>5 DEF Gleaned
<1>10. stage' = "pages" => page' < Pages
  BY <1>0, <1>1
<1>11. stage' = "enrich" => Len(ranking') <= skip + PageSize \/ page' = Pages
  <2>1. slice = << >> => Len(ranking) <= skip + PageSize
    BY <1>0, <1>3, <1>4
  <2> QED BY <1>1, <2>1
<1>12. SearchInv'
  <2>1. stage' # "idle" /\ stage' # "details" /\ stage' # "pair" /\ result' = None /\ result' # "returned"
    BY <1>1, MarketsAssumption DEF Results
  <2>2. Skip(page)' = skip + PageSize /\ skip + PageSize \in Nat
    BY <1>0, <1>3 DEF Skip
  <2>3. Gleaned(Skip(page))'
    BY <1>9, <2>2 DEF Gleaned
  <2>4. Len(ranking)' = Len(ranking')
    OBVIOUS
  <2> QED BY <1>1, <1>10, <1>11, <2>1, <2>2, <2>3, <2>4 DEF SearchInv
<1> QED BY <1>2, <1>12 DEF MarketsInv

\* What goes on behind the pages changes nothing of what was found.
LEMMA LaterKeepsInv ==
    ASSUME MarketsInv, MarketsTypeOK', UNCHANGED <<ranking, risen, fallen, kind, asked, page>>,
           Paged => UNCHANGED found, stage # "idle", stage' # "idle",
           stage' # "done" => result' = result /\ stage # "done" /\ (Paged => stage' \in {"enrich", "pair"}),
           Paged /\ (stage' # "done" \/ result' = "returned") =>
               stage \in {"enrich", "pair"} \/ result = "returned"
    PROVE  MarketsInv'
<1>1. Paged' = Paged
  BY DEF Paged
<1>2. Paged => (Gleaned(Skip(page)) <=> Gleaned(Skip(page))')
  BY DEF Gleaned, Skip
<1>3. Skip(page') = Skip(page) /\ Skip(page)' = Skip(page)
  BY DEF Skip
<1>4. SearchInv'
  <2>1. \A i, j \in DOMAIN ranking' : ranking'[i] = ranking'[j] => i = j
    BY DEF MarketsInv, SearchInv
  <2>2. stage' # "done" => result' = None
    BY DEF MarketsInv, SearchInv
  <2>3. ASSUME Paged
        PROVE  /\ stage' # "details" /\ stage' # "pages" /\ Gleaned(Skip(page))'
               /\ stage' \in {"enrich", "pair"} \/ result' = "returned" =>
                     Len(ranking') <= Skip(page)' \/ page' = Pages
    BY <1>2, <1>3, <2>3 DEF MarketsInv, SearchInv
  <2>4. stage' # "idle"
    OBVIOUS
  <2>5. Paged' =>
           /\ stage' # "details" /\ stage' # "pages" /\ Gleaned(Skip(page))'
           /\ stage' \in {"enrich", "pair"} \/ result' = "returned" =>
                 Len(ranking') <= Skip(page)' \/ page' = Pages
    BY <1>1, <2>3
  <2>6. kind' = "analyze" => Len(asked') = 2
    BY DEF MarketsInv, SearchInv
  <2> QED BY <2>1, <2>2, <2>4, <2>5, <2>6 DEF SearchInv
<1> QED BY <1>4 DEF MarketsInv

LEMMA SameMarketsInv == ASSUME MarketsInv, UNCHANGED market_vars PROVE MarketsInv'
<1>1. MarketsTypeOK'
  BY DEF MarketsInv, market_vars, MarketsTypeOK
<1>2. SearchInv'
  BY DEF MarketsInv, market_vars, SearchInv, Gleaned, Paged, Skip
<1> QED BY <1>1, <1>2 DEF MarketsInv

\* The pair that is analysed, when it has been listed.
LEMMA PairType ==
    ASSUME asked \in Seq(Markets), Len(asked) = 2, \A n \in DOMAIN asked : SummaryOf(asked[n]) \in Summary
    PROVE  [n \in 1..2 |-> SummaryOf(asked[n])] \in Seq(Summary)
<1>1. \A n \in 1..2 : n \in DOMAIN asked
  OBVIOUS
<1>2. \A n \in 1..2 : SummaryOf(asked[n]) \in Summary
  BY <1>1
<1> QED BY <1>2

LEMMA NextKeepsMarketsInv == ASSUME MarketsInv, [HedgingNext]_hedge_vars PROVE MarketsInv'
<1>0. /\ MarketsTypeOK /\ (stage # "done" => result = None) /\ None # "returned"
      /\ Paged => stage # "details" /\ (stage = "pages" => page < Pages)
      /\ stage \in Stages
  BY MarketsAssumption DEF MarketsInv, SearchInv, MarketsTypeOK, Results
<1>1. CASE \E k \in Kinds, ids \in UNION {[1..n -> Markets] : n \in 0..2} : StartCommand(k, ids)
  BY <1>1, ListsOfMarkets, StartKeepsMarketsInv DEF StartCommand
<1>2. CASE Others
  BY <1>2, ExchangeKeepsInv DEF Others
<1>3. CASE Reading
  <2>1. MarketsTypeOK'
    BY <1>0, <1>3, ReadingTypes
  <2>2. CASE Trending
    BY <1>0, <2>1, <2>2, LaterKeepsInv DEF Trending
  <2>3. CASE SearchPage
    BY <2>3, PageKeepsInv
  <2>4. CASE Enrich
    BY <1>0, <2>1, <2>4, LaterKeepsInv DEF Enrich
  <2>5. CASE Show
    BY <1>0, <2>1, <2>5, LaterKeepsInv DEF Show, AllListed
  <2>6. CASE ReadingFails
    BY <1>0, <2>1, <2>6, LaterKeepsInv DEF ReadingFails
  <2> QED BY <1>3, <2>2, <2>3, <2>4, <2>5, <2>6 DEF Reading
<1>4. CASE ReadPair
  <2>1. MarketsTypeOK'
    <3>1. << >> \in Seq(Summary)
      OBVIOUS
    <3> QED BY <1>0, <1>4, <3>1 DEF ReadPair, MarketsTypeOK, Stages
  <2>2. ~Paged
    BY <1>4 DEF ReadPair, Paged
  <2> QED BY <1>0, <1>4, <2>1, <2>2, LaterKeepsInv DEF ReadPair
<1>5. CASE Pair
  <2>1. listed' \in Seq(Summary)
    <3>1. CASE kind = "analyze"
      <4>1. \A n \in DOMAIN asked : SummaryOf(asked[n]) \in Summary
        BY <1>0, <1>5, <3>1, SummaryOfType DEF Pair, MarketsTypeOK
      <4>3. asked \in Seq(Markets) /\ Len(asked) = 2
        BY <1>0, <1>5, <3>1 DEF MarketsInv, SearchInv, MarketsTypeOK, Pair, AllListed
      <4>2. listed' = [n \in 1..2 |-> SummaryOf(asked[n])]
        BY <1>5, <3>1 DEF Pair
      <4> QED BY <4>1, <4>2, <4>3, PairType
    <3>2. CASE kind # "analyze"
      BY <1>0, <1>5, <3>2, ListingType DEF Pair, MarketsTypeOK
    <3> QED BY <3>1, <3>2
  <2>2. MarketsTypeOK'
    BY <1>0, <1>5, <2>1 DEF Pair, MarketsTypeOK, Stages
  <2> QED BY <1>0, <1>5, <2>2, LaterKeepsInv DEF Pair, AllListed
<1>6. CASE Gathered
  <2>1. MarketsTypeOK'
    BY <1>0, <1>6 DEF Gathered, Unmoved, MarketsTypeOK, Stages, Results
  <2> QED BY <1>6, <2>1, LaterKeepsInv DEF Gathered, Unmoved
<1>7. ASSUME NEW i \in DOMAIN tasks, TaskStep(i) PROVE MarketsInv'
  <2>1. UNCHANGED market_vars
    BY <1>7 DEF TaskStep, Begin, Asked, Unmoved, market_vars
  <2> QED BY <2>1, SameMarketsInv
<1>8. ASSUME NEW i \in DOMAIN tasks, Raised(i) PROVE MarketsInv'
  <2>1. MarketsTypeOK'
    BY <1>0, <1>8 DEF Raised, Unmoved, MarketsTypeOK, Stages, Results
  <2> QED BY <1>0, <1>8, <2>1, LaterKeepsInv DEF Raised, Unmoved
<1>9. CASE UNCHANGED hedge_vars
  <2>1. UNCHANGED market_vars
    BY <1>9 DEF hedge_vars
  <2> QED BY <2>1, SameMarketsInv
<1> QED BY <1>1, <1>2, <1>3, <1>4, <1>5, <1>6, <1>7, <1>8, <1>9
        DEF HedgingNext, CommandStep, ReadMarkets

LEMMA AlwaysMarketsInv == HedgingSpec => []MarketsInv
<1>1. HedgingInit => MarketsInv
  BY InitMarketsInv DEF HedgingInit
<1> QED BY <1>1, NextKeepsMarketsInv, PTL DEF HedgingSpec

\* A search is coherent however the ranking moves between its pages, for any
\* ranking, any number and size of pages and any number of moves (search).
THEOREM SearchesAreCoherent == HedgingSpec => []SearchIsCoherent
<1>1. MarketsInv => SearchIsCoherent
  <2> SUFFICES ASSUME MarketsInv, Paged, stage \in {"enrich", "pair"} \/ result = "returned"
               PROVE  /\ \A i \in DOMAIN ranking :
                            i <= Pages * PageSize /\ ranking[i] \in Matching \ risen =>
                                \E j \in DOMAIN found : found[j] = ranking[i]
                      /\ \A i, j \in DOMAIN found : found[i] = found[j] /\ i # j => found[i] \in fallen
    BY DEF SearchIsCoherent
  <2>1. Gleaned(Skip(page)) /\ (Len(ranking) <= Skip(page) \/ page = Pages)
    BY DEF MarketsInv, SearchInv
  <2>2. /\ DOMAIN ranking = 1..Len(ranking) /\ Len(ranking) \in Nat
        /\ page \in Nat /\ Skip(page) \in Nat /\ Skip(Pages) = Pages * PageSize
    BY MarketsAssumption, SkipType DEF MarketsInv, MarketsTypeOK, Skip
  <2>3. ASSUME NEW i \in DOMAIN ranking, i <= Skip(Pages) PROVE i <= Skip(page)
    BY <2>1, <2>2, <2>3
  <2> QED BY <2>1, <2>2, <2>3 DEF Gleaned
<1> QED BY <1>1, AlwaysMarketsInv, PTL
-----------------------------------------------------------------------------
(* The clients of the language model *)

\* A task has its client open while it holds the semaphore, and before it is over
\* it has no result and an attempt left.
Tended(task) ==
    /\ task \in Task
    /\ task.client = "open" <=> task.at = "asking"
    /\ task.at # "over" => task.end = None /\ task.attempts < Attempts

ClientsInv ==
    /\ tasks = [i \in DOMAIN tasks |-> tasks[i]]
    /\ \A i \in DOMAIN tasks : Tended(tasks[i])
    /\ IsFiniteSet(Holders) /\ Cardinality(Holders) <= Workers
    /\ stage # "pair" => Holders = {}

\* How tasks may come to be, begin, go on and end.
LEMMA TaskShapes ==
    /\ \A end \in Relations \union {"failed", "refused", "cancelled"} :
          Tended(Over(end)) /\ Over(end).at = "over"
    /\ \A end \in Relations : LET t == [Over(end) EXCEPT !.client = "none"]
                              IN  Tended(t) /\ t.at = "over"
    /\ Tended([at |-> "queued", client |-> "none", attempts |-> 0, end |-> None])
    /\ \A t : Tended(t) /\ t.at = "queued" =>
          LET u == [t EXCEPT !.at = "asking", !.client = "open"] IN Tended(u) /\ u.at = "asking"
    /\ \A t : Tended(t) /\ t.at = "asking" /\ ~GivesUp(t.attempts + 1) =>
          LET u == [t EXCEPT !.attempts = @ + 1] IN Tended(u) /\ u.at = "asking"
    /\ \A t : Tended(t) => Tended(Cancelled(t)) /\ Cancelled(t).at = "over"
<1>1. \A end \in Relations \union {"failed", "refused", "cancelled"} :
         Tended(Over(end)) /\ Over(end).at = "over"
  BY HedgingAssumption DEF Tended, Over, Task
<1>2. \A end \in Relations : LET t == [Over(end) EXCEPT !.client = "none"]
                             IN  Tended(t) /\ t.at = "over"
  BY HedgingAssumption DEF Tended, Over, Task
<1>3. Tended([at |-> "queued", client |-> "none", attempts |-> 0, end |-> None])
  BY HedgingAssumption DEF Tended, Task
<1>4. \A t : Tended(t) /\ t.at = "queued" =>
         LET u == [t EXCEPT !.at = "asking", !.client = "open"] IN Tended(u) /\ u.at = "asking"
  BY HedgingAssumption DEF Tended, Task
<1>5. \A t : Tended(t) /\ t.at = "asking" /\ ~GivesUp(t.attempts + 1) =>
         LET u == [t EXCEPT !.attempts = @ + 1] IN Tended(u) /\ u.at = "asking"
  BY HedgingAssumption DEF Tended, Task, GivesUp
<1>6. ASSUME NEW t, Tended(t) PROVE Tended(Cancelled(t)) /\ Cancelled(t).at = "over"
  <2>1. CASE t.at = "queued"
    <3>1. Cancelled(t) = [t EXCEPT !.at = "over", !.end = "cancelled"]
      BY <2>1 DEF Cancelled
    <3> QED BY <1>6, <2>1, <3>1 DEF Tended, Task
  <2>2. CASE t.at = "asking"
    BY <1>1, <2>2 DEF Cancelled, Ended
  <2>3. CASE t.at = "over"
    BY <1>6, <2>3 DEF Cancelled
  <2>4. t.at \in {"queued", "asking", "over"}
    BY <1>6 DEF Tended, Task
  <2> QED BY <2>1, <2>2, <2>3, <2>4
<1> QED BY <1>1, <1>2, <1>3, <1>4, <1>5, <1>6

\* One task changes, and asks only if it did or if there is room.
LEMMA OneTaskChanges ==
    ASSUME ClientsInv, stage = "pair", stage' = "pair", NEW i \in DOMAIN tasks, NEW t,
           tasks' = [tasks EXCEPT ![i] = t], Tended(t),
           t.at = "asking" => tasks[i].at = "asking" \/ Cardinality(Holders) < Workers
    PROVE  ClientsInv'
<1>1. /\ DOMAIN tasks' = DOMAIN tasks /\ tasks'[i] = t
      /\ \A j \in DOMAIN tasks : j # i => tasks'[j] = tasks[j]
      /\ tasks' = [j \in DOMAIN tasks' |-> tasks'[j]]
  BY DEF ClientsInv
<1>2. \A j \in DOMAIN tasks' : Tended(tasks'[j])
  BY <1>1 DEF ClientsInv
<1>3. IsFiniteSet(Holders') /\ Cardinality(Holders') <= Workers
  <2>0. IsFiniteSet(Holders) /\ Cardinality(Holders) <= Workers /\ Workers \in Nat
    BY HedgingAssumption DEF ClientsInv
  <2>1. CASE Holders' \subseteq Holders
    <3>1. IsFiniteSet(Holders') /\ Cardinality(Holders') <= Cardinality(Holders)
      BY <2>0, <2>1, FS_Subset
    <3>2. Cardinality(Holders') \in Nat /\ Cardinality(Holders) \in Nat
      BY <2>0, <3>1, FS_CardinalityType
    <3> QED BY <2>0, <3>1, <3>2
  <2>2. CASE ~(Holders' \subseteq Holders)
    <3>1. t.at = "asking" /\ tasks[i].at # "asking" /\ Holders' = Holders \union {i}
      BY <1>1, <2>2 DEF Holders
    <3>2. Cardinality(Holders) < Workers
      BY <3>1
    <3>3. IsFiniteSet(Holders') /\ Cardinality(Holders') <= Cardinality(Holders) + 1
      <4> DEFINE H == Holders
      <4>1. IsFiniteSet(H \union {i})
            /\ (Cardinality(H \union {i}) = Cardinality(H) \/ Cardinality(H \union {i}) = Cardinality(H) + 1)
        <5> HIDE DEF H
        <5>1. IsFiniteSet(H)
          BY <2>0 DEF H
        <5> QED BY <5>1, FS_AddElement
      <4>2. Cardinality(H) \in Nat
        BY <2>0, FS_CardinalityType
      <4> QED BY <3>1, <4>1, <4>2
    <3>4. Cardinality(Holders') \in Nat /\ Cardinality(Holders) \in Nat
      BY <2>0, <3>3, FS_CardinalityType
    <3> QED BY <2>0, <3>2, <3>3, <3>4
  <2> QED BY <2>1, <2>2
<1> QED BY <1>1, <1>2, <1>3 DEF ClientsInv

LEMMA TaskStepKeepsClients ==
    ASSUME ClientsInv, NEW i \in DOMAIN tasks, TaskStep(i) PROVE ClientsInv'
<1>0. Tended(tasks[i])
  BY DEF ClientsInv
<1>1. CASE Begin(i)
  <2>1. stage = "pair" /\ stage' = "pair" /\ tasks[i].at = "queued" /\ Cardinality(Holders) < Workers
    BY <1>1 DEF Begin, MayBegin
  <2> DEFINE t == IF fixture THEN [Over("implies") EXCEPT !.client = "none"]
                  ELSE IF keyed THEN [tasks[i] EXCEPT !.at = "asking", !.client = "open"]
                  ELSE Over("refused")
  <2>2. tasks' = [tasks EXCEPT ![i] = t]
    BY <1>1 DEF Begin
  <2>3. Tended(t)
    BY <1>0, <2>1, TaskShapes DEF Relations
  <2> HIDE DEF t
  <2> QED BY <2>1, <2>2, <2>3, OneTaskChanges
<1>2. CASE Asked(i)
  <2>1. stage = "pair" /\ stage' = "pair" /\ tasks[i].at = "asking"
    BY <1>2 DEF Asked
  <2>2. PICK t \in {Ended(end) : end \in Relations \union {"failed"}} \union {AskedAgain(tasks[i])} :
           tasks' = [tasks EXCEPT ![i] = t]
    BY <1>2 DEF Asked
  <2>3. Tended(t)
    BY <1>0, <2>1, TaskShapes DEF Ended, AskedAgain
  <2> QED BY <2>1, <2>2, <2>3, OneTaskChanges
<1> QED BY <1>1, <1>2 DEF TaskStep

\* No task asks, and so none has its client open.
LEMMA NobodyAsks ==
    ASSUME tasks' = [i \in DOMAIN tasks' |-> tasks'[i]],
           \A i \in DOMAIN tasks' : Tended(tasks'[i]) /\ tasks'[i].at # "asking"
    PROVE  ClientsInv'
<1>1. Holders' = {}
  BY DEF Holders
<1>2. IsFiniteSet(Holders') /\ Cardinality(Holders') = 0 /\ Workers \in Nat
  BY <1>1, FS_EmptySet, HedgingAssumption
<1> QED BY <1>1, <1>2 DEF ClientsInv

LEMMA NextKeepsClients == ASSUME ClientsInv, [HedgingNext]_hedge_vars PROVE ClientsInv'
<1>1. ASSUME tasks' = tasks, stage' = stage \/ (stage # "pair" /\ stage' # "pair") PROVE ClientsInv'
  BY <1>1 DEF ClientsInv, Holders
<1>2. CASE \E k \in Kinds, ids \in UNION {[1..n -> Markets] : n \in 0..2} : StartCommand(k, ids)
  BY <1>1, <1>2 DEF StartCommand, StartReading
<1>3. CASE Others
  BY <1>1, <1>3 DEF Others, Exchange, Overtakes, Closes, Moves
<1>4. CASE ReadMarkets \/ ReadPair
  BY <1>1, <1>4 DEF ReadMarkets, Reading, Trending, SearchPage, Enrich, Show, ReadingFails, AllListed,
     ReadPair
<1>5. CASE Pair
  <2>1. PICK last : tasks' = [i \in 2..last |->
                       [at |-> "queued", client |-> "none", attempts |-> 0, end |-> None]]
    BY <1>5 DEF Pair
  <2> DEFINE q == [at |-> "queued", client |-> "none", attempts |-> 0, end |-> None]
  <2>2. Tended(q) /\ q.at # "asking"
    BY TaskShapes
  <2>3. tasks' = [i \in 2..last |-> q]
    BY <2>1
  <2> HIDE DEF q
  <2>4. /\ DOMAIN tasks' = 2..last
        /\ \A i \in DOMAIN tasks' : tasks'[i] = q
    BY <2>3
  <2>5. tasks' = [i \in DOMAIN tasks' |-> tasks'[i]]
    BY <2>3
  <2> QED BY <2>2, <2>4, <2>5, NobodyAsks
<1>6. CASE Gathered
  <2>1. stage = "pair" /\ tasks' = tasks /\ \A i \in DOMAIN tasks : tasks[i].end \in Relations
    BY <1>6 DEF Gathered
  <2>2. \A i \in DOMAIN tasks : Tended(tasks[i]) /\ tasks[i].at # "asking"
    BY <2>1, HedgingAssumption DEF ClientsInv, Tended
  <2> QED BY <2>1, <2>2, NobodyAsks DEF ClientsInv
<1>7. CASE \E i \in DOMAIN tasks : Raised(i)
  <2>1. tasks' = [j \in DOMAIN tasks |-> Cancelled(tasks[j])]
    BY <1>7 DEF Raised
  <2>2. \A j \in DOMAIN tasks' : Tended(tasks'[j]) /\ tasks'[j].at # "asking"
    BY <2>1, TaskShapes DEF ClientsInv
  <2> QED BY <2>1, <2>2, NobodyAsks
<1>8. CASE \E i \in DOMAIN tasks : TaskStep(i)
  BY <1>8, TaskStepKeepsClients
<1>9. CASE UNCHANGED hedge_vars
  <2>1. tasks' = tasks /\ stage' = stage
    BY <1>9 DEF hedge_vars, market_vars
  <2> QED BY <2>1 DEF ClientsInv, Holders
<1> QED BY <1>2, <1>3, <1>4, <1>5, <1>6, <1>7, <1>8, <1>9 DEF HedgingNext, CommandStep

LEMMA AlwaysClientsInv == HedgingSpec => []ClientsInv
<1>1. HedgingInit => ClientsInv
  <2>1. ASSUME HedgingInit PROVE ClientsInv
    <3>1. DOMAIN tasks = {} /\ tasks = [i \in DOMAIN tasks |-> tasks[i]]
      BY <2>1 DEF HedgingInit, NoTasks
    <3>2. Holders = {}
      BY <3>1 DEF Holders
    <3> QED BY <3>1, <3>2, FS_EmptySet, HedgingAssumption DEF ClientsInv
  <2> QED BY <2>1
<1> QED BY <1>1, NextKeepsClients, PTL DEF HedgingSpec

\* At most as many clients as the semaphore admits are open, and none once the
\* command has ended, for any number of tasks and workers (_pair_portfolios and
\* its finally, gather, asyncio.run).
THEOREM HedgingClosesClients == HedgingSpec => []ClientsAreClosed
<1>1. ClientsInv => ClientsAreClosed
  <2>1. ASSUME ClientsInv PROVE ClientsAreClosed
    <3>1. {i \in DOMAIN tasks : tasks[i].client = "open"} = Holders
      BY <2>1 DEF ClientsInv, Tended, Holders
    <3>2. stage = "done" => Holders = {}
      BY <2>1 DEF ClientsInv
    <3> QED BY <2>1, <3>1, <3>2 DEF ClientsInv, ClientsAreClosed, Tended, Holders
  <2> QED BY <2>1
<1> QED BY <1>1, AlwaysClientsInv, PTL
-----------------------------------------------------------------------------
(* Portfolios *)

\* The numbers of a portfolio are of their types.
LEMMA PortfolioType ==
    ASSUME NEW left \in Summary, NEW right \in Summary, NEW relation
    PROVE  PortfolioOf(left, right, SidesOf(relation)) \in Portfolio
<1> DEFINE sides == SidesOf(relation)
           target == SidePrice(left, sides.target)
           cost == target + SidePrice(right, sides.cover)
<1>1. sides.target \in Sides /\ sides.cover \in Sides
  BY DEF SidesOf, Sides
<1>2. Unit \in Nat /\ CoverPercent \in Nat
  BY MarketsAssumption, HedgingAssumption
<1>3. \A summary \in Summary, side \in Sides : SidePrice(summary, side) \in Price
  <2>1. \A summary \in Summary : summary.yes \in 0..Unit
    BY DEF Summary, Price
  <2>2. \A price \in 0..Unit : Unit - price \in 0..Unit
    BY <1>2
  <2> QED BY <2>1, <2>2 DEF SidePrice, Price
<1>4. target \in Price /\ SidePrice(right, sides.cover) \in Price
  BY <1>1, <1>3
<1>5. target \in Nat /\ Unit - target \in Nat /\ cost \in Nat
  <2>1. target \in 0..Unit /\ SidePrice(right, sides.cover) \in 0..Unit
    BY <1>4 DEF Price
  <2> HIDE DEF target
  <2> QED BY <1>2, <2>1
<1> HIDE DEF target, cost, sides
<1>6. Coverage(target) \in Nat
  <2>1. \A m, n \in Nat : m * n \in Nat
    OBVIOUS
  <2>2. CoverPercent * (Unit - target) \in Nat /\ 100 * target \in Nat
    BY <1>2, <1>5, <2>1
  <2> QED BY <2>2 DEF Coverage
<1>7. Tier(Coverage(target)) \in 1..4
  BY DEF Tier
<1>8. left.market \in Markets /\ right.market \in Markets
  BY DEF Summary
<1>9. PortfolioOf(left, right, sides) =
         [target |-> left.market, targetSide |-> sides.target,
          cover |-> right.market, coverSide |-> sides.cover,
          cost |-> cost, coverage |-> Coverage(target), tier |-> Tier(Coverage(target))]
  BY DEF PortfolioOf, target, cost
<1> QED BY <1>1, <1>5, <1>6, <1>7, <1>8, <1>9 DEF Portfolio, sides

\* A tier is told by the coverage.
LEMMA TiersFollowCoverage ==
    ASSUME NEW c \in Nat, NEW d \in Nat
    PROVE  /\ Tier(c) \in 1..4 /\ Tier(d) \in 1..4
           /\ Tier(c) < Tier(d) => c > d
           /\ c = d => Tier(c) = Tier(d)
<1>1. Unit \in Nat
  BY MarketsAssumption
<1>2. \A limit \in Nat : c >= limit => d >= limit \/ c > d
  OBVIOUS
<1> DEFINE first == 95 * Unit
           second == 90 * Unit
           third == 85 * Unit
<1>3. first \in Nat /\ second \in Nat /\ third \in Nat /\ third <= second /\ second <= first
  BY <1>1
<1> HIDE DEF first, second, third
<1>4. /\ Tier(c) = IF c >= first THEN 1 ELSE IF c >= second THEN 2 ELSE IF c >= third THEN 3 ELSE 4
      /\ Tier(d) = IF d >= first THEN 1 ELSE IF d >= second THEN 2 ELSE IF d >= third THEN 3 ELSE 4
  BY DEF Tier, first, second, third
<1> QED BY <1>3, <1>4

\* The pairs that are compared: the first market and each of the others.
Compared ==
    /\ listed \in Seq(Summary)
    /\ DOMAIN tasks = {} \/ DOMAIN tasks = 2..Len(listed)

LEMMA ComparedPortfolios ==
    ASSUME Compared
    PROVE  /\ Kept \in SUBSET Nat /\ IsFiniteSet(Kept)
           /\ \A i \in DOMAIN tasks : /\ PortfolioFor(i) \in Portfolio
                                      /\ PortfolioFor(i).cover = listed[i].market
<1>1. /\ DOMAIN listed = 1..Len(listed) /\ Len(listed) \in Nat
      /\ \A i \in DOMAIN listed : listed[i] \in Summary
  BY DEF Compared
<1>2. Kept \in SUBSET (DOMAIN tasks)
  BY DEF Kept
<1>3. DOMAIN tasks \in SUBSET (DOMAIN listed) /\ (DOMAIN tasks # {} => 1 \in DOMAIN listed)
  BY <1>1 DEF Compared
<1>4. IsFiniteSet(1..Len(listed)) /\ Kept \in SUBSET (1..Len(listed))
  BY <1>1, <1>2, <1>3, IntervalSize
<1>5. IsFiniteSet(Kept) /\ Kept \in SUBSET Nat
  <2>1. IsFiniteSet(Kept)
    BY <1>4, FS_Subset
  <2>2. \A i \in 1..Len(listed) : i \in Nat
    BY <1>1
  <2> QED BY <1>4, <2>1, <2>2
<1>6. ASSUME NEW i \in DOMAIN tasks
      PROVE  PortfolioFor(i) \in Portfolio /\ PortfolioFor(i).cover = listed[i].market
  <2>1. listed[1] \in Summary /\ listed[i] \in Summary
    BY <1>1, <1>3
  <2>2. PortfolioFor(i) = PortfolioOf(listed[1], listed[i], SidesOf(tasks[i].end))
    BY DEF PortfolioFor
  <2>3. PortfolioFor(i) \in Portfolio
    BY <2>1, <2>2, PortfolioType
  <2> QED BY <2>2, <2>3 DEF PortfolioOf
<1> QED BY <1>5, <1>6

\* The key of sort_portfolios, with the place in the list, is a total order.
LEMMA PortfoliosOrdered ==
    ASSUME Compared PROVE IsOrder(Kept, [i \in Kept |-> Ahead(i)])
<1> DEFINE before == [i \in Kept |-> Ahead(i)]
           Key(i) == PortfolioFor(i)
<1>1. \A i \in Kept : i \in Nat /\ Key(i).tier \in Nat /\ Key(i).coverage \in Nat /\ Key(i).cost \in Nat
  <2>1. \A i \in Kept : i \in DOMAIN tasks
    BY DEF Kept
  <2>2. \A p \in Portfolio : p.tier \in Nat /\ p.coverage \in Nat /\ p.cost \in Nat
    BY DEF Portfolio
  <2> QED BY <2>1, <2>2, ComparedPortfolios
<1>2. before \in [Kept -> SUBSET Kept]
  BY DEF Ahead
<1> HIDE DEF Key
<1>3. \A i, j \in Kept : j \in before[i] <=> Better(Key(j), Key(i)) \/ (~Better(Key(i), Key(j)) /\ j < i)
  BY DEF Ahead, Key
<1> HIDE DEF before
<1>4. \A i \in Kept : i \notin before[i]
  BY <1>1, <1>3 DEF Better
<1>5. ASSUME NEW i \in Kept, NEW j \in Kept, j \in before[i] PROVE before[j] \subseteq before[i]
  <2>1. ASSUME NEW k \in Kept, k \in before[j] PROVE k \in before[i]
    BY <1>1, <1>3, <1>5, <2>1 DEF Better
  <2> QED BY <1>2, <2>1
<1>6. \A i, j \in Kept : i = j \/ i \in before[j] \/ j \in before[i]
  BY <1>1, <1>3 DEF Better
<1> QED BY <1>2, <1>4, <1>5, <1>6 DEF IsOrder, before

\* The answer: a list of the tasks kept, each once and in the order of the key.
LEMMA PortfoliosSorted ==
    ASSUME Compared
    PROVE  /\ SortedPortfolios \in Seq(Portfolio)
           /\ \A n \in DOMAIN SortedPortfolios : \E i \in Kept : SortedPortfolios[n] = PortfolioFor(i)
           /\ \A m, n \in DOMAIN SortedPortfolios : m < n =>
                 \E i, j \in Kept : /\ SortedPortfolios[m] = PortfolioFor(i)
                                    /\ SortedPortfolios[n] = PortfolioFor(j)
                                    /\ i \in Ahead(j)
           /\ \A i \in Kept : \E n \in DOMAIN SortedPortfolios : SortedPortfolios[n] = PortfolioFor(i)
<1> DEFINE before == [i \in Kept |-> Ahead(i)]
           size == Cardinality(Kept)
           Nth(n) == CHOOSE i \in Kept : Cardinality(Ahead(i)) = n - 1
           order == [n \in 1..size |-> Nth(n)]
<1>1. IsOrder(Kept, before) /\ IsFiniteSet(Kept) /\ \A i \in Kept : i \in DOMAIN tasks /\ PortfolioFor(i) \in Portfolio
  BY ComparedPortfolios, PortfoliosOrdered DEF Kept
<1>2. SortedPortfolios = [n \in 1..size |-> PortfolioFor(Nth(n))]
  BY DEF SortedPortfolios
<1>3. \A i \in Kept : before[i] = Ahead(i)
  OBVIOUS
<1> HIDE DEF before
<1>4. size \in Nat /\ \A n \in 1..size : \E i \in Kept : Cardinality(before[i]) = n - 1
  BY <1>1, Ranks
<1>5. ASSUME NEW n \in 1..size PROVE Nth(n) \in Kept /\ Cardinality(before[Nth(n)]) = n - 1
  <2>1. \E i \in Kept : Cardinality(Ahead(i)) = n - 1
    BY <1>3, <1>4
  <2>2. Nth(n) \in Kept /\ Cardinality(Ahead(Nth(n))) = n - 1
    BY <2>1
  <2> QED BY <1>3, <2>2
<1> HIDE DEF Nth
<1>6. IsRanked(order, Kept, before)
  BY <1>5 DEF IsRanked
<1>7. IsListing(order, Kept, before)
  <2> HIDE DEF order
  <2> QED BY <1>1, <1>6, RankedList
<1>8. \A m, n \in 1..size : m < n => Nth(m) \in Ahead(Nth(n))
  BY <1>3, <1>5, <1>7 DEF IsListing
<1>9. \A i \in Kept : \E n \in 1..size : Nth(n) = i
  BY <1>7 DEF IsListing
<1> HIDE DEF order, size
<1>10. SortedPortfolios \in Seq(Portfolio) /\ DOMAIN SortedPortfolios = 1..size
  <2>1. \A n \in 1..size : PortfolioFor(Nth(n)) \in Portfolio
    BY <1>1, <1>5
  <2> QED BY <1>2, <1>4, <2>1
<1>11. \A n \in 1..size : SortedPortfolios[n] = PortfolioFor(Nth(n))
  BY <1>2
<1> QED BY <1>5, <1>8, <1>9, <1>10, <1>11

\* The command answers with the portfolios of the pairs, and with none before.
HedgeInv ==
    /\ fixture \in BOOLEAN /\ keyed \in BOOLEAN
    /\ stage \notin {"pair", "done"} => DOMAIN tasks = {}
    /\ DOMAIN tasks = {} \/ DOMAIN tasks = 2..Len(listed)
    /\ portfolios = IF stage = "done" /\ result = "returned" THEN SortedPortfolios ELSE << >>
    /\ result = "returned" => \A i \in DOMAIN tasks : tasks[i].end \in Relations

LEMMA NothingToSort == ASSUME DOMAIN tasks = {} PROVE SortedPortfolios = << >>
<1>1. Kept = {}
  BY DEF Kept
<1>2. Cardinality(Kept) = 0
  BY <1>1, FS_EmptySet
<1>3. 1..0 = {}
  OBVIOUS
<1> QED BY <1>2, <1>3 DEF SortedPortfolios

\* An answer that is given is not changed.
LEMMA SameHedgeInv == ASSUME HedgeInv, UNCHANGED hedge_vars PROVE HedgeInv'
<1>1. UNCHANGED <<kind, stage, listed, result, fixture, keyed, tasks, portfolios>>
  BY DEF hedge_vars, market_vars
<1>2. SortedPortfolios' = SortedPortfolios
  BY <1>1 DEF SortedPortfolios, Kept, Ahead, PortfolioFor, IsWanted
<1> QED BY <1>1, <1>2 DEF HedgeInv

\* A step on the way to the pairs.
LEMMA BeforePairs ==
    ASSUME MarketsInv, HedgeInv, stage \notin {"pair", "done"}, stage' # "pair",
           UNCHANGED <<tasks, portfolios>>, fixture' \in BOOLEAN, keyed' \in BOOLEAN
    PROVE  HedgeInv'
<1>1. DOMAIN tasks = {} /\ portfolios = << >>
  BY DEF HedgeInv
<1>2. DOMAIN tasks' = {} /\ portfolios' = << >>
  BY <1>1
<1>3. SortedPortfolios' = << >>
  <2>1. Kept' = {}
    BY <1>2 DEF Kept
  <2>2. Cardinality(Kept') = 0
    BY <2>1, FS_EmptySet
  <2>3. 1..0 = {}
    OBVIOUS
  <2> QED BY <2>2, <2>3 DEF SortedPortfolios
<1> HIDE DEF SortedPortfolios
<1> QED BY <1>2, <1>3 DEF HedgeInv

LEMMA NextKeepsHedgeInv ==
    ASSUME MarketsInv, HedgeInv, [HedgingNext]_hedge_vars PROVE HedgeInv'
<1>0. /\ fixture \in BOOLEAN /\ keyed \in BOOLEAN /\ (stage # "done" => result = None)
      /\ None # "returned"
  BY MarketsAssumption DEF MarketsInv, SearchInv, HedgeInv, Results
<1>1. CASE \E k \in Kinds, ids \in UNION {[1..n -> Markets] : n \in 0..2} : StartCommand(k, ids)
  BY <1>0, <1>1, BeforePairs DEF StartCommand, StartReading
<1>2. CASE Others
  BY <1>0, <1>2, BeforePairs DEF Others, Exchange, Overtakes, Closes, Moves
<1>3. CASE ReadMarkets
  BY <1>0, <1>3, BeforePairs
     DEF ReadMarkets, Reading, Trending, SearchPage, Enrich, Show, ReadingFails, AllListed
<1>4. CASE ReadPair
  BY <1>0, <1>4, BeforePairs DEF ReadPair
<1>5. CASE Pair
  <2>1. stage \notin {"pair", "done"} /\ portfolios = << >> /\ result = None
    BY <1>0, <1>5 DEF Pair, AllListed, HedgeInv
  <2>2. /\ stage' = "pair" /\ portfolios' = << >> /\ result' = None
        /\ fixture' = fixture /\ keyed' = keyed
    BY <1>5, <2>1 DEF Pair
  <2>3. DOMAIN tasks' = 2..Len(listed')
    BY <1>5 DEF Pair
  <2> QED BY <1>0, <2>2, <2>3 DEF HedgeInv
<1>6. CASE Gathered
  <2>1. UNCHANGED <<kind, listed, tasks, fixture, keyed>> /\ stage' = "done" /\ result' = "returned"
        /\ portfolios' = SortedPortfolios /\ \A i \in DOMAIN tasks : tasks[i].end \in Relations
    BY <1>6 DEF Gathered, Unmoved
  <2>2. SortedPortfolios' = SortedPortfolios
    <3>1. kind' = kind /\ listed' = listed /\ tasks' = tasks
      BY <2>1
    <3> QED BY <3>1 DEF SortedPortfolios, Kept, Ahead, PortfolioFor, IsWanted
  <2> HIDE DEF SortedPortfolios
  <2> QED BY <2>1, <2>2 DEF HedgeInv
<1>7. ASSUME NEW i \in DOMAIN tasks, TaskStep(i) \/ Raised(i) PROVE HedgeInv'
  <2>1. DOMAIN tasks' = DOMAIN tasks
    BY <1>7 DEF TaskStep, Begin, Asked, Raised
  <2>2. /\ stage = "pair" /\ stage' \in {"pair", "done"} /\ result' # "returned"
        /\ UNCHANGED <<listed, fixture, keyed, portfolios>>
    BY <1>0, <1>7 DEF TaskStep, Begin, MayBegin, Asked, Raised, Unmoved
  <2>3. portfolios = << >>
    BY <1>0, <2>2 DEF HedgeInv
  <2> QED BY <2>1, <2>2, <2>3 DEF HedgeInv
<1>8. CASE UNCHANGED hedge_vars
  BY <1>8, SameHedgeInv
<1> QED BY <1>1, <1>2, <1>3, <1>4, <1>5, <1>6, <1>7, <1>8 DEF HedgingNext, CommandStep

LEMMA AlwaysHedgeInv == HedgingSpec => []HedgeInv
<1>1. HedgingInit => HedgeInv
  <2> SUFFICES ASSUME HedgingInit PROVE HedgeInv
    OBVIOUS
  <2>1. DOMAIN tasks = {} /\ portfolios = << >> /\ stage = "idle" /\ result = None
    BY DEF HedgingInit, MarketsInit, NoTasks
  <2>2. result # "returned"
    BY <2>1, MarketsAssumption DEF Results
  <2> QED BY <2>1, <2>2 DEF HedgeInv, HedgingInit
<1> QED BY <1>1, NextKeepsHedgeInv, AlwaysMarketsInv, PTL DEF HedgingSpec

LEMMA PairsCompared == ASSUME MarketsInv, HedgeInv PROVE Compared
BY DEF MarketsInv, MarketsTypeOK, HedgeInv, Compared

\* The types, for any constants.
THEOREM HedgingTypes == HedgingSpec => []HedgingTypeOK
<1>1. MarketsInv /\ ClientsInv /\ HedgeInv => HedgingTypeOK
  <2> SUFFICES ASSUME MarketsInv, ClientsInv, HedgeInv PROVE HedgingTypeOK
    OBVIOUS
  <2>1. \A i \in DOMAIN tasks : tasks[i] \in Task
    BY DEF ClientsInv, Tended
  <2>2. DOMAIN tasks \subseteq DOMAIN listed
    <3>1. DOMAIN listed = 1..Len(listed) /\ Len(listed) \in Nat
      BY DEF MarketsInv, MarketsTypeOK
    <3> QED BY <3>1 DEF HedgeInv
  <2>3. portfolios \in Seq(Portfolio)
    <3>1. SortedPortfolios \in Seq(Portfolio) /\ << >> \in Seq(Portfolio)
      BY PairsCompared, PortfoliosSorted
    <3> HIDE DEF SortedPortfolios
    <3> QED BY <3>1 DEF HedgeInv
  <2> QED BY <2>1, <2>2, <2>3 DEF HedgingTypeOK, MarketsInv, HedgeInv
<1> QED BY <1>1, AlwaysMarketsInv, AlwaysClientsInv, AlwaysHedgeInv, PTL

\* The two sides of a portfolio cover every world the model allows, whatever it
\* said of the pairs and in whatever order (_relationship_from_payload).
THEOREM HedgesAlwaysHold == HedgingSpec => []HedgesHold
<1>1. MarketsInv /\ HedgeInv => HedgesHold
  <2> SUFFICES ASSUME MarketsInv, HedgeInv, NEW n \in DOMAIN portfolios
               PROVE  LET p == portfolios[n] IN
                      \E i \in DOMAIN tasks :
                        /\ listed[i].market = p.cover /\ tasks[i].end \in {"implied_by", "implies"}
                        /\ \A world \in [Markets -> Sides] :
                              Agrees(world, p.target, p.cover, tasks[i].end) =>
                                  world[p.target] = p.targetSide \/ world[p.cover] = p.coverSide
    BY DEF HedgesHold
  <2> DEFINE p == portfolios[n]
  <2>1. portfolios = SortedPortfolios /\ result = "returned"
    <3>1. portfolios # << >>
      OBVIOUS
    <3> QED BY <3>1 DEF HedgeInv
  <2>2. PICK i \in Kept : p = PortfolioFor(i)
    BY <2>1, PairsCompared, PortfoliosSorted
  <2>3. i \in DOMAIN tasks /\ tasks[i].end # "neither"
    BY DEF Kept
  <2>4. tasks[i].end \in {"implied_by", "implies"}
    BY <2>1, <2>3 DEF HedgeInv, Relations
  <2>5. listed[i].market = p.cover
    BY <2>2, <2>3, PairsCompared, ComparedPortfolios
  <2>6. /\ p.targetSide = SidesOf(tasks[i].end).target
        /\ p.coverSide = SidesOf(tasks[i].end).cover
        /\ p.target \in Markets /\ p.cover \in Markets
    <3>1. PortfolioFor(i) \in Portfolio
      BY <2>3, PairsCompared, ComparedPortfolios
    <3>2. p.target \in Markets /\ p.cover \in Markets
      BY <2>2, <3>1 DEF Portfolio
    <3> QED BY <2>2, <3>2 DEF PortfolioFor, PortfolioOf
  <2> HIDE DEF p
  <2>7. ASSUME NEW world \in [Markets -> Sides], Agrees(world, p.target, p.cover, tasks[i].end)
        PROVE  world[p.target] = p.targetSide \/ world[p.cover] = p.coverSide
    <3>1. world[p.target] \in {"YES", "NO"} /\ world[p.cover] \in {"YES", "NO"}
      BY <2>6 DEF Sides
    <3>2. CASE tasks[i].end = "implies"
      BY <2>6, <2>7, <3>1, <3>2 DEF Agrees, SidesOf
    <3>3. CASE tasks[i].end = "implied_by"
      BY <2>6, <2>7, <3>1, <3>3 DEF Agrees, SidesOf
    <3> QED BY <2>4, <3>2, <3>3
  <2> QED BY <2>3, <2>4, <2>5, <2>7 DEF p
<1> QED BY <1>1, AlwaysMarketsInv, AlwaysHedgeInv, PTL

\* The answer is all that was asked for, the best coverage first, then the lowest
\* cost, then in the order of the listing, for any number of pairs (sort_portfolios).
THEOREM RankingsAreReproducible == HedgingSpec => []RankingIsReproducible
<1>1. MarketsInv /\ HedgeInv => RankingIsReproducible
  <2> SUFFICES ASSUME MarketsInv, HedgeInv, result = "returned" PROVE RankingIsReproducible
    BY DEF RankingIsReproducible
  <2>1. portfolios = SortedPortfolios
    BY MarketsAssumption DEF HedgeInv, MarketsInv, SearchInv, Results
  <2>2. Compared
    BY PairsCompared
  <2>3. ASSUME NEW m \in DOMAIN portfolios, NEW n \in DOMAIN portfolios, m < n
        PROVE  LET p == portfolios[m]  q == portfolios[n] IN
               /\ p.coverage >= q.coverage
               /\ p.coverage = q.coverage => p.cost <= q.cost
               /\ p.coverage = q.coverage /\ p.cost = q.cost =>
                     \E i, j \in DOMAIN tasks :
                         i < j /\ listed[i].market = p.cover /\ listed[j].market = q.cover
    <3> DEFINE p == portfolios[m]
               q == portfolios[n]
    <3>1. PICK i \in Kept, j \in Kept : p = PortfolioFor(i) /\ q = PortfolioFor(j) /\ i \in Ahead(j)
      BY <2>1, <2>2, <2>3, PortfoliosSorted
    <3>2. i \in DOMAIN tasks /\ j \in DOMAIN tasks
      BY DEF Kept
    <3>3. /\ p \in Portfolio /\ q \in Portfolio
          /\ listed[i].market = p.cover /\ listed[j].market = q.cover
      BY <2>2, <3>1, <3>2, ComparedPortfolios
    <3>4. p.tier = Tier(p.coverage) /\ q.tier = Tier(q.coverage)
      BY <3>1 DEF PortfolioFor, PortfolioOf
    <3>5. Better(p, q) \/ (~Better(q, p) /\ i < j)
      BY <3>1 DEF Ahead
    <3> HIDE DEF p, q
    <3>6. p.coverage \in Nat /\ q.coverage \in Nat /\ p.cost \in Nat /\ q.cost \in Nat
      BY <3>3 DEF Portfolio
    <3>7. /\ p.tier \in 1..4 /\ q.tier \in 1..4
          /\ p.tier < q.tier => p.coverage > q.coverage
          /\ q.tier < p.tier => q.coverage > p.coverage
          /\ p.coverage = q.coverage => p.tier = q.tier
      BY <3>4, <3>6, TiersFollowCoverage
    <3>8. /\ p.coverage >= q.coverage
          /\ p.coverage = q.coverage => p.cost <= q.cost
          /\ p.coverage = q.coverage /\ p.cost = q.cost => i < j
      BY <3>5, <3>6, <3>7 DEF Better
    <3> QED BY <3>2, <3>3, <3>8 DEF p, q
  <2>4. ASSUME NEW i \in DOMAIN tasks, tasks[i].end # "neither",
               IsOffered(PortfolioFor(i)), IsWanted(PortfolioFor(i))
        PROVE  \E n \in DOMAIN portfolios : portfolios[n] = PortfolioFor(i)
    <3>1. i \in Kept
      BY <2>4 DEF Kept
    <3> QED BY <2>1, <2>2, <3>1, PortfoliosSorted
  <2> QED BY <2>3, <2>4 DEF RankingIsReproducible
<1> QED BY <1>1, AlwaysMarketsInv, AlwaysHedgeInv, PTL
=============================================================================
