----------------------------- MODULE PriceProofs -----------------------------
(***************************************************************************)
(* Theorems about the price feed: the sort behind the median and the list  *)
(* of reports, one vote for each oracle, and the weight of a majority.     *)
(***************************************************************************)
EXTENDS Price, Sums

-----------------------------------------------------------------------------
\* What the sort does to a list of n numbers.
LEMMA SortedNumbers ==
    ASSUME NEW n \in Nat, NEW p \in [1 .. n -> Nat]
    PROVE  LET f == Ascending(p, 1 .. n)
           IN  /\ f \in [1 .. n -> 1 .. n]
               /\ \A i, j \in 1 .. n : f[i] = f[j] => i = j
               /\ \A k \in 1 .. n : \E i \in 1 .. n : f[i] = k
               /\ \A i, j \in 1 .. n : i <= j => p[f[i]] <= p[f[j]]
<1> DEFINE D == 1 .. n
           f == Ascending(p, D)
<1>1. IsFiniteSet(D) /\ Cardinality(D) = n
  BY FS_Interval
<1>2. IsAscending(f, p, D)
  <2>1. \A x \in D : p[x] \in Nat
    OBVIOUS
  <2> HIDE DEF D
  <2> QED BY <1>1, <2>1, AscendingExists
<1> HIDE DEF f
<1>3. /\ f \in [D -> D] /\ \A i, j \in D : f[i] = f[j] => i = j
      /\ \A k \in D : \E i \in D : f[i] = k
      /\ \A i, j \in D : i < j => p[f[i]] <= p[f[j]]
  BY <1>1, <1>2 DEF IsAscending, Bijection, Injection, Surjection, IsInjective
<1>4. ASSUME NEW i \in D, NEW j \in D, i <= j PROVE p[f[i]] <= p[f[j]]
  <2>1. CASE i = j
    <3>1. p[f[i]] \in Nat
      BY <1>3
    <3> QED BY <2>1, <3>1
  <2>2. CASE i # j
    <3>1. i < j
      BY <1>4, <2>2
    <3> QED BY <1>3, <3>1
  <2> QED BY <2>1, <2>2
<1> QED BY <1>3, <1>4 DEF f

\* A set M of positions is met outside any smaller set K of places in a
\* rearrangement f of them.
LEMMA SomeOutside ==
    ASSUME NEW n \in Nat, NEW f \in [1 .. n -> 1 .. n],
           \A k \in 1 .. n : \E i \in 1 .. n : f[i] = k,
           NEW M \in SUBSET (1 .. n), NEW K, IsFiniteSet(K), Cardinality(K) < Cardinality(M)
    PROVE  \E i \in 1 .. n : i \notin K /\ f[i] \in M
<1> SUFFICES ASSUME \A i \in 1 .. n : f[i] \in M => i \in K PROVE FALSE
  OBVIOUS
<1> DEFINE I == {i \in 1 .. n : f[i] \in M}
           h == [i \in I |-> f[i]]
<1>1. I \subseteq K
  OBVIOUS
<1>2. h \in Surjection(I, M)
  <2>1. h \in [I -> M] /\ \A k \in M : \E i \in I : h[i] = k
    OBVIOUS
  <2> QED BY <2>1 DEF Surjection
<1> HIDE DEF I, h
<1>3. IsFiniteSet(I) /\ Cardinality(I) <= Cardinality(K)
  BY <1>1, FS_Subset
<1>4. IsFiniteSet(M) /\ Cardinality(M) <= Cardinality(I)
  BY <1>2, <1>3, FS_Surjection
<1>5. Cardinality(I) \in Nat /\ Cardinality(K) \in Nat /\ Cardinality(M) \in Nat
  BY <1>3, <1>4, FS_CardinalityType
<1> QED BY <1>3, <1>4, <1>5

\* How many positions there are above the k-th of n.
LEMMA UpperInterval ==
    ASSUME NEW n \in Nat, NEW k \in Nat, k <= n
    PROVE  IsFiniteSet(k + 1 .. n) /\ Cardinality(k + 1 .. n) = n - k
<1>1. PICK a \in Int : a = k + 1
  OBVIOUS
<1>2. IsFiniteSet(a .. n) /\ Cardinality(a .. n) = IF a > n THEN 0 ELSE n - a + 1
  BY FS_Interval
<1>3. (IF a > n THEN 0 ELSE n - a + 1) = n - k
  BY <1>1
<1> QED BY <1>1, <1>2, <1>3

\* The middle of n numbers.
LEMMA Middle ==
    ASSUME NEW n \in Nat \ {0}
    PROVE  /\ n \div 2 \in Nat
           /\ n % 2 = 0 => n = 2 * (n \div 2) /\ n \div 2 \in 1 .. n /\ n \div 2 + 1 \in 1 .. n
           /\ n % 2 # 0 => n = 2 * (n \div 2) + 1 /\ n \div 2 + 1 \in 1 .. n
  OBVIOUS

\* The median of prices, in terms of the sorted list.
LEMMA MedianIs ==
    ASSUME NEW n \in Nat \ {0}, NEW p \in [1 .. n -> Price]
    PROVE  LET f == Ascending(p, 1 .. n)
               mid == n \div 2
           IN  /\ n % 2 = 0 => median(p) = mean(p[f[mid]], p[f[mid + 1]])
               /\ n % 2 # 0 => median(p) = p[f[mid + 1]]
<1>1. DOMAIN p = 1 .. n /\ Len(p) = n
  <2>1. p \in Seq(Price)
    BY SeqDef
  <2> QED BY <2>1, LenProperties
<1>2. n % 2 = 0 => n > 1
  OBVIOUS
<1> QED BY <1>1, <1>2 DEF median

\* The mean of two prices is a price and not above the larger, and lies between
\* them when their sum does not wrap.
LEMMA MeanBetween ==
    ASSUME NEW a \in Price, NEW b \in Price
    PROVE  /\ mean(a, b) \in Price
           /\ a <= b => mean(a, b) <= b
           /\ a <= b /\ a + b <= MaxPrice => a <= mean(a, b)
<1> DEFINE s == (a + b) % (MaxPrice + 1)
<1>1. MaxPrice \in Nat /\ a \in Nat /\ b \in Nat
  BY PriceAssumption DEF Price
<1>2. s \in 0 .. MaxPrice /\ s <= a + b /\ (a + b <= MaxPrice => s = a + b)
  BY <1>1
<1> HIDE DEF s
<1>3. s \div 2 \in 0 .. MaxPrice
  BY <1>1, <1>2
<1>4. /\ a <= b => s \div 2 <= b
      /\ a <= b /\ s = a + b => a <= s \div 2
  BY <1>1, <1>2
<1> QED BY <1>2, <1>3, <1>4 DEF mean, Price, s

\* The median of some prices is a price; any majority of them has one that is no
\* less, and one that is no more unless the middle two of an even number add up
\* to more than MaxPrice.
LEMMA MedianOfMajority ==
    ASSUME NEW n \in Nat \ {0}, NEW p \in [1 .. n -> Price]
    PROVE  LET f == Ascending(p, 1 .. n)
               mid == n \div 2
           IN  /\ median(p) \in Price
               /\ \A M \in SUBSET (1 .. n) : 2 * Cardinality(M) > n =>
                      /\ \E j \in M : median(p) <= p[j]
                      /\ \/ n % 2 = 0 /\ p[f[mid]] + p[f[mid + 1]] > MaxPrice
                         \/ \E i \in M : p[i] <= median(p)
<1> DEFINE D == 1 .. n
           f == Ascending(p, D)
           mid == n \div 2
           q(i) == p[f[i]]
<1>1. n \in Nat /\ p \in [D -> Nat] /\ MaxPrice \in Nat
  BY PriceAssumption DEF Price
<1>2. /\ f \in [D -> D] /\ \A i, j \in D : f[i] = f[j] => i = j
      /\ \A k \in D : \E i \in D : f[i] = k
      /\ \A i, j \in D : i <= j => q(i) <= q(j)
  BY <1>1, SortedNumbers
<1>3. /\ n % 2 = 0 => median(p) = mean(q(mid), q(mid + 1))
      /\ n % 2 # 0 => median(p) = q(mid + 1)
  BY MedianIs
<1> HIDE DEF f
<1>4. /\ mid \in Nat
      /\ n % 2 = 0 => n = 2 * mid /\ mid \in D /\ mid + 1 \in D
      /\ n % 2 # 0 => n = 2 * mid + 1 /\ mid + 1 \in D
  BY Middle
<1> HIDE DEF mid
<1>5. \A i \in D : q(i) \in Price /\ q(i) \in Nat
  BY <1>1, <1>2
<1>6. median(p) \in Price
  <2>1. CASE n % 2 = 0
    BY <1>3, <1>4, <1>5, <2>1, MeanBetween
  <2>2. CASE n % 2 # 0
    BY <1>3, <1>4, <1>5, <2>2
  <2> QED BY <2>1, <2>2
<1> DEFINE Wraps == n % 2 = 0 /\ q(mid) + q(mid + 1) > MaxPrice
<1>7. ASSUME NEW M \in SUBSET D, 2 * Cardinality(M) > n
      PROVE  /\ \E j \in M : median(p) <= p[j]
             /\ Wraps \/ \E i \in M : p[i] <= median(p)
  <2> DEFINE c == median(p)
             lower == IF n % 2 = 0 THEN mid ELSE mid + 1
  <2>1. /\ lower \in D /\ mid + 1 \in D
        /\ Wraps \/ q(lower) <= c
        /\ c <= q(mid + 1) /\ c \in Nat
    <3>1. CASE n % 2 = 0
      <4>1. mid \in D /\ mid + 1 \in D /\ mid # mid + 1 /\ mid <= mid + 1
        BY <1>4, <3>1
      <4>2. q(mid) <= q(mid + 1)
        BY <1>2, <4>1
      <4>3. /\ q(mid) \in Price /\ q(mid + 1) \in Price
            /\ q(mid) \in Nat /\ q(mid + 1) \in Nat
        BY <1>5, <4>1
      <4>5. Wraps \/ q(mid) + q(mid + 1) <= MaxPrice
        BY <1>1, <3>1, <4>3
      <4>4. (Wraps \/ q(mid) <= c) /\ c <= q(mid + 1)
        BY <1>3, <3>1, <4>2, <4>3, <4>5, MeanBetween
      <4> QED BY <1>1, <1>6, <3>1, <4>1, <4>4 DEF Price
    <3>2. CASE n % 2 # 0
      BY <1>3, <1>4, <1>5, <3>2
    <3> QED BY <3>1, <3>2
  <2>2. IsFiniteSet(M) /\ Cardinality(M) \in Nat
    <3>1. IsFiniteSet(D)
      BY <1>1, FS_Interval
    <3>2. IsFiniteSet(M)
      BY <3>1, FS_Subset
    <3> QED BY <3>2, FS_CardinalityType
  <2>a. lower \in Nat /\ lower <= n /\ n - lower <= mid
    BY <1>1, <1>4
  <2> HIDE DEF c, lower
  <2> HIDE DEF Wraps
  <2>3. ASSUME ~ Wraps PROVE \E i \in M : p[i] <= c
    <3> DEFINE K == lower + 1 .. n
    <3>1. IsFiniteSet(K) /\ Cardinality(K) = n - lower
      BY <1>1, <2>a, UpperInterval
    <3>2. Cardinality(K) < Cardinality(M)
      BY <1>1, <1>4, <1>7, <2>a, <2>2, <3>1
    <3> HIDE DEF K
    <3>3. PICK i \in D : i \notin K /\ f[i] \in M
      BY <1>1, <1>2, <3>1, <3>2, SomeOutside
    <3>4. i <= lower
      BY <2>1, <3>3 DEF K
    <3>5. q(i) <= q(lower)
      BY <1>2, <2>1, <3>4
    <3>6. q(i) \in Nat /\ q(lower) \in Nat
      BY <1>5, <2>1
    <3>7. q(i) <= c
      BY <2>1, <2>3, <3>5, <3>6
    <3> QED BY <3>3, <3>7
  <2>4. \E j \in M : c <= p[j]
    <3> DEFINE K == 1 .. mid
    <3>1. IsFiniteSet(K) /\ Cardinality(K) = mid
      BY <1>4, FS_Interval
    <3>2. Cardinality(K) < Cardinality(M)
      BY <1>4, <1>7, <2>2, <3>1
    <3> HIDE DEF K
    <3>3. PICK i \in D : i \notin K /\ f[i] \in M
      BY <1>1, <1>2, <3>1, <3>2, SomeOutside
    <3>4. mid + 1 <= i
      BY <1>4, <3>3 DEF K
    <3>5. q(mid + 1) <= q(i)
      BY <1>2, <2>1, <3>4
    <3>6. q(i) \in Nat /\ q(mid + 1) \in Nat
      BY <1>5, <2>1
    <3>7. c <= q(i)
      BY <2>1, <3>5, <3>6
    <3> QED BY <3>3, <3>7
  <2> QED BY <2>3, <2>4 DEF c
<1> QED BY <1>6, <1>7 DEF f, mid

-----------------------------------------------------------------------------
\* No two reports come from one oracle.
Distinct ==
    \A i, j \in DOMAIN PriceReports :
        PriceReports[i].reporter = PriceReports[j].reporter => i = j

\* What the price feed maintains; inductive.
PriceInv == PriceTypeOK /\ Distinct /\ ReportsAreRecent

\* The prices of the reports, a nonempty list of numbers unless there is none.
LEMMA ReportedPrices ==
    ASSUME PriceTypeOK
    PROVE  LET n == Len(PriceReports)
           IN  /\ n \in Nat /\ DOMAIN PriceReports = 1 .. n
               /\ \A i \in 1 .. n : PriceReports[i] \in PriceReport
               /\ [i \in DOMAIN PriceReports |-> PriceReports[i].price] \in [1 .. n -> Price]
               /\ PriceReports # <<>> => n # 0
<1>1. /\ Len(PriceReports) \in Nat /\ DOMAIN PriceReports = 1 .. Len(PriceReports)
      /\ \A i \in 1 .. Len(PriceReports) : PriceReports[i] \in PriceReport
      /\ PriceReports # <<>> => Len(PriceReports) # 0
  BY DEF PriceTypeOK
<1>2. \A i \in 1 .. Len(PriceReports) : PriceReports[i].price \in Price
  BY <1>1 DEF PriceReport
<1> QED BY <1>1, <1>2

\* retain keeps reports of the list, at different positions of it.
LEMMA RetainedFacts ==
    ASSUME PriceTypeOK, NEW keep \in SUBSET DOMAIN PriceReports
    PROVE  LET r == Kept(PriceReports, keep)
           IN  /\ r \in Seq(PriceReport)
               /\ \A k \in DOMAIN r : \E i \in keep : r[k] = PriceReports[i]
               /\ Distinct => \A k, l \in DOMAIN r : r[k].reporter = r[l].reporter => k = l
<1> DEFINE n == Cardinality(keep)
           r == Kept(PriceReports, keep)
<1>1. PriceReports \in Seq(PriceReport)
  BY DEF PriceTypeOK
<1>2. r \in Seq(PriceReport) /\ DOMAIN r = 1 .. n /\ \E at : KeptAt(PriceReports, keep, at)
  BY <1>1, KeptFacts
<1>3. PICK at \in [1 .. n -> keep] : /\ \A k, l \in 1 .. n : at[k] = at[l] => k = l
                                    /\ \A k \in 1 .. n : r[k] = PriceReports[at[k]]
  BY <1>2 DEF KeptAt
<1> HIDE DEF n, r
<1>4. ASSUME Distinct, NEW k \in 1 .. n, NEW l \in 1 .. n, r[k].reporter = r[l].reporter
      PROVE  k = l
  BY <1>3, <1>4 DEF Distinct
<1>5. \A k \in 1 .. n : \E i \in keep : r[k] = PriceReports[i]
  BY <1>3
<1> QED BY <1>2, <1>4, <1>5 DEF r

\* A report replaces the one its oracle has in the list, or is appended.
LEMMA ReportKeeps ==
    ASSUME PriceInv, NEW who \in AccountId, NEW price \in ReportedPrice, Report(who, price)
    PROVE  PriceInv'
<1> DEFINE s == PriceReports
           n == Len(s)
           new == [reporter |-> who, price |-> price]
<1>1. /\ n \in Nat /\ DOMAIN s = 1 .. n /\ s \in Seq(PriceReport)
      /\ \A i \in 1 .. n : s[i] \in PriceReport
  BY ReportedPrices DEF PriceInv, PriceTypeOK
<1>2. new \in PriceReport
  BY PriceAssumption DEF PriceReport
<1>3. /\ CurrentPrice' \in Price /\ block_number' \in 1 .. MaxBlock /\ members' \subseteq AccountId
      /\ WitnessReport' \in [AccountId -> 0 .. MaxBlock]
      /\ WitnessReport'[who] = block_number
      /\ \A w \in AccountId \ {who} : WitnessReport'[w] = WitnessReport[w]
      /\ block_number' = block_number /\ block_number \in Nat /\ block_number >= 1
  BY PriceAssumption DEF PriceInv, PriceTypeOK, Report
<1>4. /\ ReportInteval \in Nat
      /\ \A w \in Reporters : /\ WitnessReport[w] >= 1
                              /\ WitnessReport[w] + ReportInteval + 1 >= block_number
  BY PriceAssumption DEF PriceInv, ReportsAreRecent
<1>5. CASE who \in Reporters
  <2> DEFINE r == [i \in 1 .. n |-> IF s[i].reporter = who THEN new ELSE s[i]]
  <2>1. PriceReports' = r
    BY <1>1, <1>5 DEF Report, ReportsWith
  <2>2. r \in [1 .. n -> PriceReport] /\ \A i \in 1 .. n : r[i].reporter = s[i].reporter
    BY <1>1, <1>2
  <2> HIDE DEF r
  <2>3. r \in Seq(PriceReport) /\ DOMAIN r = 1 .. n
    BY <1>1, <2>2, SeqDef
  <2>4. Distinct'
    BY <1>1, <2>1, <2>2, <2>3 DEF Distinct, PriceInv
  <2>5. Reporters' = Reporters
    BY <1>1, <2>1, <2>2, <2>3 DEF Reporters
  <2>6. PriceTypeOK'
    BY <1>3, <2>1, <2>3 DEF PriceTypeOK
  <2>7. ReportsAreRecent'
    <3> SUFFICES ASSUME NEW w \in Reporters
                 PROVE  /\ WitnessReport'[w] >= 1
                        /\ WitnessReport'[w] + ReportInteval + 1 >= block_number
      BY <1>3, <2>5 DEF ReportsAreRecent
    <3>1. w \in AccountId
      BY <1>1 DEF Reporters, PriceReport
    <3> QED BY <1>3, <1>4, <3>1
  <2> QED BY <2>4, <2>6, <2>7 DEF PriceInv
<1>6. CASE who \notin Reporters
  <2> DEFINE r == Append(s, new)
  <2>1. PriceReports' = r
    BY <1>6 DEF Report, ReportsWith
  <2>2. /\ r \in Seq(PriceReport) /\ DOMAIN r = 1 .. n + 1 /\ r[n + 1] = new
        /\ \A i \in 1 .. n : r[i] = s[i]
    BY <1>1, <1>2
  <2> HIDE DEF r
  <2>3. \A i \in 1 .. n : s[i].reporter # who
    BY <1>1, <1>6 DEF Reporters
  <2>4. ASSUME NEW i \in 1 .. n + 1, NEW j \in 1 .. n + 1, r[i].reporter = r[j].reporter
        PROVE  i = j
    <3>1. (i \in 1 .. n \/ i = n + 1) /\ (j \in 1 .. n \/ j = n + 1)
      BY <1>1
    <3> QED BY <1>1, <2>2, <2>3, <2>4, <3>1 DEF Distinct, PriceInv
  <2>5. Distinct'
    BY <2>1, <2>2, <2>4 DEF Distinct
  <2>6. \A w \in Reporters' : w \in Reporters \/ w = who
    <3> SUFFICES ASSUME NEW i \in 1 .. n + 1 PROVE r[i].reporter \in Reporters \/ r[i].reporter = who
      BY <2>1, <2>2 DEF Reporters
    <3>1. i \in 1 .. n \/ i = n + 1
      BY <1>1
    <3> QED BY <1>1, <2>2, <3>1 DEF Reporters
  <2>7. PriceTypeOK'
    BY <1>3, <2>1, <2>2 DEF PriceTypeOK
  <2>8. ReportsAreRecent'
    <3> SUFFICES ASSUME NEW w \in Reporters'
                 PROVE  /\ WitnessReport'[w] >= 1
                        /\ WitnessReport'[w] + ReportInteval + 1 >= block_number
      BY <1>3 DEF ReportsAreRecent
    <3>1. w \in AccountId
      BY <1>1, <2>6 DEF Reporters, PriceReport
    <3> QED BY <1>3, <1>4, <2>6, <3>1
  <2> QED BY <2>5, <2>7, <2>8 DEF PriceInv
<1> QED BY <1>5, <1>6

\* The end of a block keeps the reports that are still valid.
LEMMA FinalizeKeeps ==
    ASSUME PriceInv, OnFinalize
    PROVE  PriceInv'
<1> DEFINE keep == {i \in DOMAIN PriceReports : is_valid(PriceReports[i].reporter)}
           numbers == [i \in DOMAIN PriceReports |-> PriceReports[i].price]
           r == Kept(PriceReports, keep)
<1>1. PriceTypeOK /\ Distinct /\ ReportsAreRecent
  BY DEF PriceInv
<1>2. CurrentPrice' \in Price
  <2>1. CASE PriceReports = <<>>
    BY <1>1, <2>1 DEF OnFinalize, PriceTypeOK
  <2>2. CASE PriceReports # <<>>
    <3>1. CurrentPrice' = median(numbers)
      BY <2>2 DEF OnFinalize
    <3>2. Len(PriceReports) \in Nat \ {0} /\ numbers \in [1 .. Len(PriceReports) -> Price]
      BY <1>1, <2>2, ReportedPrices
    <3> HIDE DEF numbers
    <3>3. median(numbers) \in Price
      BY <3>2, MedianOfMajority
    <3> QED BY <3>1, <3>3
  <2> QED BY <2>1, <2>2
<1>3. /\ r \in Seq(PriceReport)
      /\ \A k \in DOMAIN r : \E i \in keep : r[k] = PriceReports[i]
      /\ \A k, l \in DOMAIN r : r[k].reporter = r[l].reporter => k = l
  BY <1>1, RetainedFacts
<1>4. PriceReports' = r /\ block_number' = block_number + 1 /\ block_number < MaxBlock
      /\ UNCHANGED <<WitnessReport, members>>
  BY DEF OnFinalize
<1> HIDE DEF r
<1>5. PriceTypeOK'
  BY <1>1, <1>2, <1>3, <1>4, PriceAssumption DEF PriceTypeOK
<1>6. Distinct'
  BY <1>3, <1>4 DEF Distinct
<1>7. ReportsAreRecent'
  <2> SUFFICES ASSUME NEW k \in DOMAIN r
               PROVE  /\ WitnessReport[r[k].reporter] >= 1
                      /\ WitnessReport[r[k].reporter] + ReportInteval + 1 >= block_number + 1
    BY <1>4 DEF ReportsAreRecent, Reporters
  <2>1. PICK i \in keep : r[k] = PriceReports[i]
    BY <1>3
  <2>2. /\ PriceReports[i].reporter \in Reporters
        /\ WitnessReport[PriceReports[i].reporter] + ReportInteval >= block_number
    BY DEF is_valid, Reporters
  <2>3. r[k].reporter \in AccountId
    BY <1>1, <2>1, ReportedPrices DEF PriceReport
  <2>4. WitnessReport[r[k].reporter] \in Nat /\ block_number \in Nat /\ ReportInteval \in Nat
    BY <1>1, <2>3, PriceAssumption DEF PriceTypeOK
  <2> QED BY <1>1, <2>1, <2>2, <2>4 DEF ReportsAreRecent
<1> QED BY <1>5, <1>6, <1>7 DEF PriceInv

\* PriceInv holds in every reachable state.
LEMMA PriceInvHolds == Spec => []PriceInv
<1>1. Init => PriceInv
  <2> SUFFICES ASSUME Init PROVE PriceInv
    OBVIOUS
  <2>1. PriceTypeOK
    BY PriceAssumption DEF Init, PriceTypeOK, Price
  <2>2. DOMAIN PriceReports = {}
    BY DEF Init
  <2> QED BY <2>1, <2>2 DEF PriceInv, Distinct, ReportsAreRecent, Reporters
<1>2. PriceInv /\ [Next]_vars => PriceInv'
  <2> SUFFICES ASSUME PriceInv, [Next]_vars PROVE PriceInv'
    OBVIOUS
  <2>1. CASE \E who \in AccountId, p \in ReportedPrice : Report(who, p)
    BY <2>1, ReportKeeps
  <2>2. CASE OnFinalize
    BY <2>2, FinalizeKeeps
  <2>3. CASE (\E new \in SUBSET AccountId : ChangeMembers(new)) \/ UNCHANGED vars
    BY <2>3 DEF ChangeMembers, vars, PriceInv, PriceTypeOK, Distinct, ReportsAreRecent, Reporters
  <2> QED BY <2>1, <2>2, <2>3 DEF Next
<1> QED BY <1>1, <1>2, PTL DEF Spec

\* The storage of the price feed is well typed; in particular the median of any
\* number of reports, the wrapping mean of the middle two included, is a price.
THEOREM PriceTypeCorrect == Spec => []PriceTypeOK
<1>1. PriceInv => PriceTypeOK
  BY DEF PriceInv
<1> QED BY <1>1, PriceInvHolds, PTL

\* add_price gives every oracle one vote in the median, however often it
\* reports, expires and comes back.
THEOREM AlwaysOneVoteEach == Spec => []OneVoteEach
<1>1. PriceInv => OneVoteEach
  <2> SUFFICES ASSUME PriceInv PROVE OneVoteEach
    OBVIOUS
  <2> DEFINE D == 1 .. Len(PriceReports)
             f == [i \in D |-> PriceReports[i].reporter]
  <2>1. Len(PriceReports) \in Nat /\ DOMAIN PriceReports = D
    BY ReportedPrices DEF PriceInv
  <2>2. IsFiniteSet(D) /\ Cardinality(D) = Len(PriceReports)
    <3>1. \A m \in Nat : IsFiniteSet(1 .. m) /\ Cardinality(1 .. m) = m
      BY FS_Interval
    <3> QED BY <2>1, <3>1
  <2>3. /\ f \in [D -> Reporters] /\ \A i, j \in D : f[i] = f[j] => i = j
        /\ \A w \in Reporters : \E i \in D : f[i] = w
    BY <2>1 DEF Reporters, PriceInv, Distinct
  <2> HIDE DEF f, D
  <2>4. f \in Surjection(D, Reporters) /\ f \in Injection(D, Reporters)
    BY <2>3 DEF Surjection, Injection, IsInjective
  <2>5. Cardinality(Reporters) = Cardinality(D)
    BY <2>2, <2>4, FS_Surjection
  <2> QED BY <2>2, <2>5 DEF OneVoteEach
<1> QED BY <1>1, PriceInvHolds, PTL

\* on_finalize drops reports in time: the median of a block never uses a report
\* that had expired before it.
THEOREM ReportsAlwaysRecent == Spec => []ReportsAreRecent
<1>1. PriceInv => ReportsAreRecent
  BY DEF PriceInv
<1> QED BY <1>1, PriceInvHolds, PTL

\* Whatever a minority of the oracles reports, any majority of the reports has
\* one that the new price does not exceed, and one that it does not fall below
\* unless the mean of the middle two of an even number of reports wraps.
THEOREM MajorityAlwaysBounds == Spec => MajorityBoundsPrice
<1> DEFINE Bounded ==
        CurrentPrice' # CurrentPrice =>
          \A M \in SUBSET DOMAIN PriceReports : 2 * Cardinality(M) > Len(PriceReports) =>
              /\ \E j \in M : CurrentPrice' <= PriceReports[j].price
              /\ MeanWraps \/ \E i \in M : PriceReports[i].price <= CurrentPrice'
<1>1. PriceTypeOK /\ [Next]_vars => [Bounded]_vars
  <2> SUFFICES ASSUME PriceTypeOK, Next, CurrentPrice' # CurrentPrice,
                      NEW M \in SUBSET DOMAIN PriceReports, 2 * Cardinality(M) > Len(PriceReports)
               PROVE  /\ \E j \in M : CurrentPrice' <= PriceReports[j].price
                      /\ MeanWraps \/ \E i \in M : PriceReports[i].price <= CurrentPrice'
    OBVIOUS
  <2> DEFINE n == Len(PriceReports)
             p == [i \in DOMAIN PriceReports |-> PriceReports[i].price]
  <2>1. CurrentPrice' = median(p) /\ PriceReports # <<>>
    BY DEF Next, Report, OnFinalize, ChangeMembers
  <2>2. /\ n \in Nat \ {0} /\ DOMAIN PriceReports = 1 .. n /\ p \in [1 .. n -> Price]
        /\ \A i \in 1 .. n : p[i] = PriceReports[i].price
    BY <2>1, ReportedPrices
  <2> DEFINE f == Ascending(p, 1 .. n)
             mid == n \div 2
  <2>3. n % 2 = 0 /\ p[f[mid]] + p[f[mid + 1]] > MaxPrice => MeanWraps
    <3>1. DOMAIN p = 1 .. n
      BY <2>2
    <3> QED BY <2>1, <3>1 DEF MeanWraps
  <2>4. M \in SUBSET (1 .. n) /\ 2 * Cardinality(M) > n
    BY <2>2
  <2> HIDE DEF p, n
  <2>5. /\ \E j \in M : median(p) <= p[j]
        /\ \/ n % 2 = 0 /\ p[f[mid]] + p[f[mid + 1]] > MaxPrice
           \/ \E i \in M : p[i] <= median(p)
    BY <2>2, <2>4, MedianOfMajority
  <2> HIDE DEF f, mid
  <2> QED BY <2>1, <2>2, <2>3, <2>4, <2>5
<1> QED BY <1>1, PriceTypeCorrect, PTL DEF Spec, MajorityBoundsPrice
=============================================================================
