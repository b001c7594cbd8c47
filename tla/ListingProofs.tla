---------------------------- MODULE ListingProofs ----------------------------
(***************************************************************************)
(* For any customers, page sizes and sort orders: the meta of an           *)
(* undisturbed reply agrees with its items, an undisturbed walk lists each *)
(* match once, and a walk among creations to its short page misses no one. *)
(***************************************************************************)
EXTENDS Listing, TLAPS, FiniteSetTheorems, FunctionTheorems, SequenceTheorems

-----------------------------------------------------------------------------
(* Facts about numbers and finite sets.                                    *)

\* Induction, as a least element: the intervals 1 .. n are well-founded.
LEMMA LeastOf ==
  ASSUME NEW B \in SUBSET Nat, B # {}
  PROVE  \E n \in B : \A m \in B : n <= m
<1> DEFINE T == {1 .. n : n \in B}
           R == StrictSubsetOrdering(Nat)
<1>1. T \subseteq FiniteSubsetsOf(Nat) /\ T # {}
  <2>1. \A n \in B : IsFiniteSet(1 .. n) /\ 1 .. n \in SUBSET Nat
    BY FS_Interval
  <2>2. QED BY <2>1 DEF FiniteSubsetsOf
<1>2. PICK x \in T : \A y \in T : ~(<<y, x>> \in R)
  <2>1. IsWellFoundedOn(R, FiniteSubsetsOf(Nat))
    BY FS_StrictSubsetOrderingWellFounded
  <2> HIDE DEF T, R
  <2>2. QED BY <1>1, <2>1, WFMin
<1>3. PICK n \in B : x = 1 .. n
  OBVIOUS
<1>4. ASSUME NEW m \in B, m < n PROVE FALSE
  <2>1. 1 .. m \subseteq 1 .. n /\ n \in 1 .. n /\ n \notin 1 .. m
    BY <1>4
  <2>2. <<1 .. m, 1 .. n>> \in R
    BY <2>1 DEF StrictSubsetOrdering
  <2>3. QED BY <1>2, <1>3, <2>2
<1>5. QED BY <1>4

LEMMA Products ==
  ASSUME NEW a \in Nat, NEW b \in Nat, NEW c \in Nat, a <= b
  PROVE  a * c <= b * c
<1>1. PICK d \in Nat : b = a + d
  <2>1. b - a \in Nat /\ b = a + (b - a)
    OBVIOUS
  <2>2. QED BY <2>1
<1>2. b * c = a * c + d * c
  BY <1>1
<1>3. a * c \in Nat /\ d * c \in Nat
  OBVIOUS
<1>4. QED BY <1>2, <1>3

\* Math.ceil: so many pages hold n customers, and one page less does not.
LEMMA PagesHold ==
  ASSUME NEW n \in Nat, NEW size \in Nat \ {0}
  PROVE  LET pages == TotalPages(n, size) IN
         /\ pages \in Nat
         /\ n <= pages * size
         /\ pages * size < n + size
<1> DEFINE m == n + size - 1
           q == m \div size
<1>1. m \in Nat
  OBVIOUS
<1>2. q \in Int /\ m = q * size + (m % size) /\ m % size \in 0 .. size - 1
  BY <1>1
<1>3. q \in Nat
  BY <1>1
<1>4. q * size \in Nat
  BY <1>3
<1>5. n <= q * size /\ q * size < n + size
  <2> DEFINE x == q * size
             y == m % size
  <2>1. m = x + y /\ y \in 0 .. size - 1 /\ x \in Nat
    BY <1>2, <1>4
  <2> HIDE DEF x, y, q
  <2>2. QED BY <2>1 DEF x
<1>6. QED BY <1>3, <1>5 DEF TotalPages

\* A page before the last is full of customers, the last one is not empty, and
\* those after it are.
LEMMA PagesOf ==
  ASSUME NEW n \in Nat, NEW size \in Nat \ {0}, NEW page \in Nat \ {0}
  PROVE  LET pages == TotalPages(n, size) IN
         /\ (page - 1) * size \in Nat
         /\ page * size = (page - 1) * size + size
         /\ page < pages => page * size <= n
         /\ page >= pages => n <= page * size
         /\ page > pages => n <= (page - 1) * size
         /\ page <= pages => (page - 1) * size < n
<1> DEFINE pages == TotalPages(n, size)
           before == (page - 1) * size
<1>1. pages \in Nat /\ n <= pages * size /\ pages * size < n + size
      /\ pages * size \in Nat
  BY PagesHold
<1>2. before \in Nat /\ page * size = before + size
  <2>1. page - 1 \in Nat
    OBVIOUS
  <2>2. QED BY <2>1
<1> HIDE DEF pages
<1>3. ASSUME page < pages PROVE page * size <= n
  <2>1. (page + 1) * size <= pages * size
    BY <1>1, <1>3, Products
  <2>2. (page + 1) * size = page * size + size /\ page * size \in Nat
    OBVIOUS
  <2>3. QED BY <1>1, <2>1, <2>2
<1>4. ASSUME page >= pages PROVE n <= page * size
  <2>1. pages * size <= page * size /\ page * size \in Nat
    BY <1>1, <1>4, Products
  <2>2. QED BY <1>1, <2>1
<1>5. ASSUME page > pages PROVE n <= before
  <2>1. pages * size <= before
    BY <1>1, <1>5, Products
  <2>2. QED BY <1>1, <1>2, <2>1
<1>6. ASSUME page <= pages PROVE before < n
  <2>1. page * size <= pages * size
    BY <1>1, <1>6, Products
  <2>2. QED BY <1>1, <1>2, <2>1
<1>7. QED BY <1>2, <1>3, <1>4, <1>5, <1>6 DEF pages

LEMMA MatchingFinite ==
  /\ IsFiniteSet(Matching)
  /\ Cardinality(Matching) \in Nat
  /\ Cardinality(Matching) <= Cardinality(Customers)
  /\ Cardinality(Customers) \in Nat
<1>1. Matching \in SUBSET Customers
  BY DEF Matching
<1>2. QED BY <1>1, CustomersAssumption, FS_Subset, FS_CardinalityType

-----------------------------------------------------------------------------
(* The order the database finds the matches in, and the pages of it.       *)

NotAfter(D, desc, c, d) == IF desc THEN D[c].value >= D[d].value
                                   ELSE D[c].value <= D[d].value

LEMMA ValuesAreNumbers ==
  ASSUME TypeOK, NEW c \in Matching PROVE docs[c].value \in Int
BY BoundsAssumption DEF Matching, TypeOK, Doc

LEMMA SortedIsAnOrder ==
  ASSUME TypeOK, NEW desc \in BOOLEAN, NEW s \in Sorted(desc)
  PROVE  /\ s \in Seq(Matching)
         /\ Len(s) = Cardinality(Matching)
         /\ \A i, j \in 1 .. Len(s) : i # j => s[i] # s[j]
         /\ \A c \in Matching : \E i \in 1 .. Len(s) : s[i] = c
         /\ \A i \in 1 .. Len(s), j \in 1 .. Len(s) :
              i <= j => NotAfter(docs, desc, s[i], s[j])
<1> DEFINE n == Cardinality(Matching)
<1>0. n \in Nat
  BY MatchingFinite
<1>1. s \in [1 .. n -> Matching] /\ \A i, j \in 1 .. n : i # j => s[i] # s[j]
  BY DEF Sorted, SetToSeqs
<1>2. s \in Seq(Matching) /\ Len(s) = n
  BY <1>0, <1>1
<1>3. \A c \in Matching : \E i \in 1 .. n : s[i] = c
  <2>1. s \in Injection(1 .. n, Matching)
    BY <1>1, Fun_IsInj
  <2>2. IsFiniteSet(1 .. n) /\ Cardinality(1 .. n) = n
    BY <1>0, FS_Interval
  <2>3. s \in Surjection(1 .. n, Matching)
    BY <2>1, <2>2, MatchingFinite, FS_Injection
  <2>4. QED BY <2>3 DEF Surjection
<1>4. ASSUME NEW i \in 1 .. n, NEW j \in 1 .. n, i <= j
      PROVE  NotAfter(docs, desc, s[i], s[j])
  <2> DEFINE B == {k \in 1 .. n : i <= k /\ ~NotAfter(docs, desc, s[i], s[k])}
  <2>0. \A k \in 1 .. n : docs[s[k]].value \in Int
    BY <1>1, ValuesAreNumbers
  <2> SUFFICES ASSUME B # {} PROVE FALSE
    BY <1>4
  <2>1. PICK k \in B : \A m \in B : k <= m
    <3>1. B \in SUBSET Nat
      OBVIOUS
    <3> HIDE DEF B
    <3>2. QED BY <3>1, LeastOf
  <2>2. k # i /\ k \in 1 .. n /\ i <= k /\ ~NotAfter(docs, desc, s[i], s[k])
    BY <2>0 DEF NotAfter
  <2>3. k - 1 \in 1 .. n /\ k - 1 \notin B /\ i <= k - 1
    <3>1. ~(k <= k - 1)
      BY <2>2
    <3> HIDE DEF B
    <3>2. k - 1 \notin B
      BY <2>1, <3>1
    <3>3. QED BY <1>0, <2>2, <3>2
  <2>4. NotAfter(docs, desc, s[i], s[k - 1])
    BY <2>3
  <2>5. NotAfter(docs, desc, s[k - 1], s[k])
    <3>1. k - 1 \in 1 .. Len(s) - 1 /\ (k - 1) + 1 = k
      BY <1>0, <1>2, <2>2, <2>3
    <3>2. QED BY <3>1 DEF Sorted, NotAfter
  <2>6. NotAfter(docs, desc, s[i], s[k])
    BY <2>0, <2>2, <2>3, <2>4, <2>5 DEF NotAfter
  <2>7. QED BY <2>2, <2>6
<1>5. QED BY <1>1, <1>2, <1>3, <1>4

\* The place of a customer in that order, which no ties make unique.
MatchingIn(D) == {c \in Customers : D[c] # None /\ D[c].matches}
UpTo(D, desc, c) == {d \in MatchingIn(D) : NotAfter(D, desc, d, c)}
Place(D, desc, c) == Cardinality(UpTo(D, desc, c))

LEMMA PlaceType ==
  ASSUME NEW D, NEW desc, NEW c
  PROVE  /\ IsFiniteSet(UpTo(D, desc, c)) /\ Place(D, desc, c) \in Nat
         /\ Place(D, desc, c) <= Cardinality(MatchingIn(D))
<1>1. MatchingIn(D) \in SUBSET Customers
  BY DEF MatchingIn
<1>2. IsFiniteSet(MatchingIn(D))
  BY <1>1, CustomersAssumption, FS_Subset
<1>3. UpTo(D, desc, c) \in SUBSET MatchingIn(D)
  BY DEF UpTo
<1>4. QED BY <1>2, <1>3, FS_Subset, FS_CardinalityType DEF Place

LEMMA MatchingNow == Matching = MatchingIn(docs)
BY DEF Matching, MatchingIn

LEMMA MatchingThen == Matching' = MatchingIn(docs')
BY DEF Matching, MatchingIn

LEMMA PlaceInOrder ==
  ASSUME TypeOK, NoTies(Matching), NEW desc \in BOOLEAN, NEW s \in Sorted(desc),
         NEW i \in 1 .. Len(s)
  PROVE  Place(docs, desc, s[i]) = i
<1>1. /\ s \in Seq(Matching)
      /\ \A j, k \in 1 .. Len(s) : j # k => s[j] # s[k]
      /\ \A c \in Matching : \E k \in 1 .. Len(s) : s[k] = c
      /\ \A j \in 1 .. Len(s), k \in 1 .. Len(s) :
           j <= k => NotAfter(docs, desc, s[j], s[k])
  BY SortedIsAnOrder
<1>0. \A k \in 1 .. Len(s) : s[k] \in Matching /\ docs[s[k]].value \in Int
  <2>1. \A k \in 1 .. Len(s) : s[k] \in Matching
    BY <1>1
  <2>2. QED BY <2>1, ValuesAreNumbers
<1>2. \A k \in 1 .. Len(s) : NotAfter(docs, desc, s[k], s[i]) => k <= i
  <2> SUFFICES ASSUME NEW k \in 1 .. Len(s), NotAfter(docs, desc, s[k], s[i]), k > i
               PROVE  FALSE
    OBVIOUS
  <2>1. NotAfter(docs, desc, s[i], s[k]) /\ s[i] # s[k]
    BY <1>1
  <2>2. QED BY <1>0, <2>1 DEF NotAfter, NoTies
<1> DEFINE f == [k \in 1 .. i |-> s[k]]
<1>3. f \in Bijection(1 .. i, UpTo(docs, desc, s[i]))
  <2>1. f \in [1 .. i -> UpTo(docs, desc, s[i])]
    <3>1. Len(s) \in Nat /\ 1 .. i \subseteq 1 .. Len(s)
      BY <1>1
    <3>2. \A k \in 1 .. i : s[k] \in Matching /\ NotAfter(docs, desc, s[k], s[i])
      BY <1>0, <1>1, <3>1
    <3>3. QED BY <3>2 DEF UpTo, Matching, MatchingIn
  <2>2. \A a, b \in 1 .. i : f[a] = f[b] => a = b
    <3>1. \A a \in 1 .. i : a \in 1 .. Len(s) /\ f[a] = s[a]
      BY <1>1
    <3> HIDE DEF f
    <3>2. QED BY <1>1, <3>1
  <2>3. \A t \in UpTo(docs, desc, s[i]) : \E k \in 1 .. i : f[k] = t
    <3> SUFFICES ASSUME NEW t \in UpTo(docs, desc, s[i])
                 PROVE  \E k \in 1 .. i : f[k] = t
      OBVIOUS
    <3>1. PICK k \in 1 .. Len(s) : s[k] = t
      BY <1>1 DEF UpTo, Matching, MatchingIn
    <3>2. k \in 1 .. i
      BY <1>2, <3>1 DEF UpTo, Matching, MatchingIn
    <3>3. QED BY <3>1, <3>2
  <2>4. QED BY <2>1, <2>2, <2>3, Fun_IsBij
<1>4. IsFiniteSet(1 .. i) /\ Cardinality(1 .. i) = i
  BY FS_Interval
<1>5. ExistsBijection(1 .. i, UpTo(docs, desc, s[i]))
  BY <1>3 DEF ExistsBijection
<1>6. QED BY <1>4, <1>5, FS_Bijection DEF Place

\* What a page holds.
LEMMA PageIs ==
  ASSUME TypeOK, NEW desc \in BOOLEAN, NEW s \in Sorted(desc),
         NEW page \in Nat \ {0}, NEW size \in 1 .. MAX_PAGE_SIZE
  PROVE  LET p == Page(s, clampPagination(page, size))
             skip == (page - 1) * size
             n == Cardinality(Matching)
         IN  /\ skip \in Nat
             /\ p \in Seq(Matching)
             /\ Len(p) = IF skip + size <= n THEN size
                         ELSE IF skip <= n THEN n - skip ELSE 0
             /\ \A i \in 1 .. Len(p) : skip + i \in 1 .. Len(s)
                                       /\ p[i] = s[skip + i]
<1> DEFINE skip == (page - 1) * size
           n == Cardinality(Matching)
           at == clampPagination(page, size)
           last == AtMost(skip + size, n)
           p == SubSeq(s, skip + 1, last)
<1>0. n \in Nat /\ size \in Nat /\ size >= 1 /\ s \in Seq(Matching) /\ Len(s) = n
  BY MatchingFinite, PagesAssumption, SortedIsAnOrder
<1>1. skip \in Nat
  <2>1. page - 1 \in Nat
    OBVIOUS
  <2>2. QED BY <1>0, <2>1
<1>2. at.pageSize = size /\ at.skip = skip
  BY PagesAssumption DEF clampPagination, AtMost, AtLeast
<1>3. Page(s, at) = p
  BY <1>0, <1>2 DEF Page
<1> HIDE DEF skip, at
<1>4. last \in Int /\ last <= n /\ last = IF skip + size < n THEN skip + size ELSE n
  BY <1>0, <1>1 DEF AtMost
<1> HIDE DEF last, n
<1>5. \A i \in skip + 1 .. last : s[i] \in Matching
  BY <1>0, <1>1, <1>4
<1>6. /\ p \in Seq(Matching)
      /\ Len(p) = IF skip + 1 <= last THEN last - (skip + 1) + 1 ELSE 0
      /\ \A i \in 1 .. last - (skip + 1) + 1 : p[i] = s[skip + 1 + i - 1]
  BY <1>1, <1>4, <1>5, SubSeqProperties
<1> HIDE DEF p
<1>7. Len(p) = IF skip + size <= n THEN size
               ELSE IF skip <= n THEN n - skip ELSE 0
  BY <1>0, <1>1, <1>4, <1>6
<1>8. ASSUME NEW i \in 1 .. Len(p)
      PROVE  skip + i \in 1 .. Len(s) /\ p[i] = s[skip + i]
  <2>1. i \in 1 .. last - skip /\ skip + 1 + i - 1 = skip + i
    BY <1>0, <1>1, <1>4, <1>6
  <2>2. QED BY <1>0, <1>1, <1>4, <1>6, <2>1
<1>9. QED BY <1>1, <1>3, <1>6, <1>7, <1>8 DEF skip, at, n

\* How often a page lists a customer.
Occurs(p, c) == Cardinality({i \in 1 .. Len(p) : p[i] = c})

LEMMA OccursType ==
  ASSUME NEW p, Len(p) \in Nat, NEW c
  PROVE  /\ Occurs(p, c) \in Nat
         /\ (\E i \in 1 .. Len(p) : p[i] = c) => Occurs(p, c) >= 1
         /\ ~(\E i \in 1 .. Len(p) : p[i] = c) => Occurs(p, c) = 0
<1> DEFINE O == {i \in 1 .. Len(p) : p[i] = c}
<1>1. IsFiniteSet(1 .. Len(p)) /\ O \in SUBSET (1 .. Len(p))
  BY FS_Interval
<1>2. IsFiniteSet(O) /\ Cardinality(O) \in Nat
  BY <1>1, FS_Subset, FS_CardinalityType
<1>3. Cardinality(O) = 0 <=> O = {}
  BY <1>2, FS_EmptySet
<1>4. (\E i \in 1 .. Len(p) : p[i] = c) <=> O # {}
  OBVIOUS
<1> HIDE DEF O
<1>5. QED BY <1>2, <1>3, <1>4 DEF Occurs, O

LEMMA PageListsItsPlaces ==
  ASSUME TypeOK, NoTies(Matching), NEW desc \in BOOLEAN, NEW s \in Sorted(desc),
         NEW page \in Nat \ {0}, NEW size \in 1 .. MAX_PAGE_SIZE,
         NEW c \in Customers
  PROVE  LET p == Page(s, clampPagination(page, size))
             skip == (page - 1) * size
         IN  Occurs(p, c) = IF /\ c \in Matching
                               /\ skip < Place(docs, desc, c)
                               /\ Place(docs, desc, c) <= skip + size
                            THEN 1 ELSE 0
<1> DEFINE p == Page(s, clampPagination(page, size))
           skip == (page - 1) * size
           n == Cardinality(Matching)
<1>1. /\ skip \in Nat /\ p \in Seq(Matching) /\ Len(p) \in Nat
      /\ Len(p) = IF skip + size <= n THEN size
                  ELSE IF skip <= n THEN n - skip ELSE 0
      /\ \A i \in 1 .. Len(p) : skip + i \in 1 .. Len(s) /\ p[i] = s[skip + i]
      /\ n \in Nat /\ size \in Nat
  <2>1. n \in Nat /\ size \in Nat
    BY MatchingFinite, PagesAssumption
  <2>2. /\ skip \in Nat /\ p \in Seq(Matching)
        /\ Len(p) = IF skip + size <= n THEN size
                    ELSE IF skip <= n THEN n - skip ELSE 0
        /\ \A i \in 1 .. Len(p) : skip + i \in 1 .. Len(s) /\ p[i] = s[skip + i]
    BY PageIs
  <2> HIDE DEF p
  <2>3. Len(p) \in Nat
    BY <2>2
  <2>4. QED BY <2>1, <2>2, <2>3
<1>2. \A i \in 1 .. Len(s) : Place(docs, desc, s[i]) = i
  BY PlaceInOrder
<1>3. \A x \in Matching : \E i \in 1 .. Len(s) : s[i] = x
  BY SortedIsAnOrder
<1>4. Len(s) = n
  BY SortedIsAnOrder
<1> HIDE DEF p, skip, n
<1>5. CASE c \notin Matching
  <2>1. ~\E i \in 1 .. Len(p) : p[i] = c
    BY <1>1, <1>5
  <2>2. QED BY <1>1, <1>5, <2>1, OccursType DEF p
<1>6. CASE c \in Matching
  <2>1. PICK k \in 1 .. Len(s) : s[k] = c /\ Place(docs, desc, c) = k
    BY <1>2, <1>3, <1>6
  <2>2. \A i \in 1 .. Len(p) : p[i] = c => skip + i = k
    BY <1>1, <1>2, <2>1
  <2>3. CASE skip < k /\ k <= skip + size
    <3>1. k - skip \in 1 .. Len(p) /\ skip + (k - skip) = k
      BY <1>1, <1>4, <2>1, <2>3
    <3>2. p[k - skip] = c
      BY <1>1, <2>1, <3>1
    <3>3. {i \in 1 .. Len(p) : p[i] = c} = {k - skip}
      BY <1>1, <2>2, <3>1, <3>2
    <3>4. QED BY <1>6, <2>1, <2>3, <3>3, FS_Singleton DEF Occurs, p, skip
  <2>4. CASE ~(skip < k /\ k <= skip + size)
    <3>1. ~\E i \in 1 .. Len(p) : p[i] = c
      BY <1>1, <2>2, <2>4
    <3>2. Occurs(p, c) = 0
      BY <1>1, <3>1, OccursType
    <3>3. QED BY <2>1, <2>4, <3>2 DEF p, skip
  <2>5. QED BY <2>3, <2>4
<1>7. QED BY <1>5, <1>6

-----------------------------------------------------------------------------
(* The inductive invariant.                                                *)

NoTiesIn(D) == \A c, d \in MatchingIn(D) : c # d => D[c].value # D[d].value
SortedIn(D, desc) ==
  {s \in SetToSeqs(MatchingIn(D)) :
     \A i \in 1 .. Len(s) - 1 :
       LET v == D[s[i]].value
           w == D[s[i + 1]].value
       IN  IF desc THEN v >= w ELSE v <= w}

\* How many matches the pages before this one hold, and those with this one.
Skipped == (query.page - 1) * query.pageSize
Through == query.page * query.pageSize
PlaceOf(c) == Place(docs, query.descending, c)
OnThePage(c) == \E i \in 1 .. Len(items) : items[i] = c

IdleHasNoReply == query = None => items = None /\ total = None
WalkEnds == end # None => query = None
NothingListed == query = None /\ end = None => \A c \in Customers : listed[c] = 0
QuietRequests == calm.walk = "quiet" => calm.request = "quiet"

\* As long as nothing was written, a reply is of the documents as they are.
ItemsFound ==
  items # None /\ calm.request = "quiet" =>
    \E s \in SortedIn(docs, query.descending) :
      items = Page(s, clampPagination(query.page, query.pageSize))
TotalCounted ==
  total # None /\ calm.request = "quiet" => total = Cardinality(MatchingIn(docs))

\* A quiet walk has listed the matches of the pages before this one.
ListedOnce ==
  query # None /\ calm.walk = "quiet" /\ NoTiesIn(docs) =>
    \A c \in Customers :
      listed[c] = IF c \in MatchingIn(docs) /\ PlaceOf(c) <= Skipped THEN 1 ELSE 0

\* A walk among creations has listed at least these, of those who stayed.
ListedAtLeast ==
  query # None /\ calm.walk # "stormy" /\ NoTiesIn(docs) =>
    \A c \in stayed :
      /\ PlaceOf(c) <= Skipped => listed[c] >= 1
      /\ items # None /\ (PlaceOf(c) <= Through \/ Short) =>
           listed[c] >= 1 \/ OnThePage(c)

LInv ==
  /\ TypeOK
  /\ IdleHasNoReply /\ WalkEnds /\ NothingListed /\ QuietRequests
  /\ ItemsFound /\ TotalCounted
  /\ ListedOnce /\ ListedAtLeast
  /\ QuietWalkIsExact /\ CreationsHideNothing

LEMMA Views ==
  /\ Matching = MatchingIn(docs)
  /\ NoTies(Matching) <=> NoTiesIn(docs)
  /\ \A desc \in BOOLEAN : Sorted(desc) = SortedIn(docs, desc)
<1>1. Matching = MatchingIn(docs)
  BY MatchingNow
<1>2. NoTies(Matching) <=> NoTiesIn(docs)
  BY <1>1 DEF NoTies, NoTiesIn
<1>3. \A desc \in BOOLEAN : Sorted(desc) = SortedIn(docs, desc)
  BY <1>1 DEF Sorted, SortedIn
<1>4. QED BY <1>1, <1>2, <1>3

LEMMA ViewsThen ==
  /\ Matching' = MatchingIn(docs')
  /\ NoTies(Matching)' <=> NoTiesIn(docs')
<1>1. Matching' = MatchingIn(docs')
  BY MatchingThen
<1>2. QED BY <1>1 DEF NoTies, NoTiesIn

\* A new customer moves the others to later places, if at all.
LEMMA CreationsPush ==
  ASSUME NEW D \in [Customers -> Doc \cup {None}], NEW k \in Customers,
         D[k] = None, NEW d, NEW desc \in BOOLEAN
  PROVE  LET E == [D EXCEPT ![k] = d] IN
         /\ MatchingIn(D) \subseteq MatchingIn(E)
         /\ NoTiesIn(E) => NoTiesIn(D)
         /\ \A c \in MatchingIn(D) : Place(D, desc, c) <= Place(E, desc, c)
<1> DEFINE E == [D EXCEPT ![k] = d]
<1>1. \A c \in MatchingIn(D) : c \in Customers /\ c # k /\ E[c] = D[c]
  BY DEF MatchingIn
<1>2. \A c \in MatchingIn(D) : c \in MatchingIn(E)
  BY <1>1 DEF MatchingIn
<1> HIDE DEF E
<1>3. NoTiesIn(E) => NoTiesIn(D)
  BY <1>1, <1>2 DEF NoTiesIn
<1>4. ASSUME NEW c \in MatchingIn(D)
      PROVE  Place(D, desc, c) <= Place(E, desc, c)
  <2>1. UpTo(D, desc, c) \in SUBSET UpTo(E, desc, c)
    BY <1>1, <1>2, <1>4 DEF UpTo, NotAfter
  <2>2. QED BY <2>1, PlaceType, FS_Subset DEF Place
<1>5. QED BY <1>2, <1>3, <1>4 DEF E

LEMMA InitLInv == Init => LInv
<1> SUFFICES ASSUME Init PROVE LInv
  OBVIOUS
<1>1. TypeOK
  <2>1. 0 \in 0 .. MaxWrites
    BY BoundsAssumption
  <2>2. QED BY <2>1 DEF Init, TypeOK, Calm
<1>2. IdleHasNoReply /\ WalkEnds /\ NothingListed /\ QuietRequests
  BY DEF Init, IdleHasNoReply, WalkEnds, NothingListed, QuietRequests
<1>3. ItemsFound /\ TotalCounted /\ ListedOnce /\ ListedAtLeast
      /\ QuietWalkIsExact /\ CreationsHideNothing
  BY DEF Init, ItemsFound, TotalCounted, ListedOnce, ListedAtLeast,
         QuietWalkIsExact, CreationsHideNothing
<1>4. QED BY <1>1, <1>2, <1>3 DEF LInv

-----------------------------------------------------------------------------
(* The steps of the walk.                                                  *)

LEMMA Numbers ==
  ASSUME TypeOK, query # None
  PROVE  /\ query \in Query /\ query.page \in Nat \ {0}
         /\ query.pageSize \in 1 .. MAX_PAGE_SIZE /\ query.pageSize \in Nat \ {0}
         /\ query.descending \in BOOLEAN
         /\ Skipped \in Nat /\ Through = Skipped + query.pageSize
<1>1. query \in Query
  BY DEF TypeOK
<1>2. /\ query.page \in Nat \ {0} /\ query.pageSize \in 1 .. MAX_PAGE_SIZE
      /\ query.pageSize \in Nat \ {0} /\ query.descending \in BOOLEAN
  BY <1>1, PagesAssumption DEF Query
<1>3. Skipped \in Nat /\ Through = Skipped + query.pageSize
  <2>1. query.page - 1 \in Nat
    BY <1>2
  <2>2. QED BY <1>2, <2>1 DEF Skipped, Through
<1>4. QED BY <1>1, <1>2, <1>3

LEMMA PlacesFromOne ==
  ASSUME TypeOK, NEW desc \in BOOLEAN, NEW c \in MatchingIn(docs)
  PROVE  Place(docs, desc, c) \in Nat /\ Place(docs, desc, c) >= 1
<1>1. docs[c].value \in Int
  BY Views, ValuesAreNumbers
<1>2. c \in UpTo(docs, desc, c)
  BY <1>1 DEF UpTo, NotAfter
<1>3. IsFiniteSet(UpTo(docs, desc, c)) /\ Place(docs, desc, c) \in Nat
  BY PlaceType
<1>4. Place(docs, desc, c) # 0
  BY <1>2, <1>3, FS_EmptySet DEF Place
<1>5. QED BY <1>3, <1>4

LEMMA AskFirstStep == LInv /\ AskFirst => LInv'
<1> SUFFICES ASSUME LInv, AskFirst PROVE LInv'
  OBVIOUS
<1> USE DEF LInv
<1>1. PICK size \in 1 .. MAX_PAGE_SIZE, descending \in BOOLEAN :
        query' = [page |-> 1, pageSize |-> size, descending |-> descending]
  BY DEF AskFirst
<1>2. query' \in Query /\ query' # None /\ query'.page = 1
      /\ query'.pageSize = size /\ query'.descending \in BOOLEAN
  BY <1>1, NoneAssumption DEF Query
<1>3. /\ query = None /\ end = None /\ items' = None /\ total' = None /\ end' = None
      /\ \A c \in Customers : listed'[c] = 0
      /\ calm' = [request |-> "quiet", walk |-> "quiet"]
      /\ docs' = docs /\ writes' = writes /\ listed' = listed
      /\ stayed' = MatchingIn(docs)
  BY Views DEF AskFirst, IdleHasNoReply, NothingListed
<1>4. size \in Nat /\ Skipped' = 0
  BY <1>2, PagesAssumption DEF Skipped
<1>5. TypeOK'
  <2>1. calm' \in [{"request", "walk"} -> Calm]
    BY <1>3 DEF Calm
  <2>2. stayed' \subseteq Matching'
    BY <1>3, ViewsThen
  <2>3. QED BY <1>2, <1>3, <2>1, <2>2 DEF TypeOK
<1>6. \A c \in MatchingIn(docs) : PlaceOf(c)' \in Nat /\ PlaceOf(c)' >= 1
  BY <1>2, <1>3, PlacesFromOne DEF PlaceOf
<1>7. ListedOnce'
  BY <1>3, <1>4, <1>6 DEF ListedOnce
<1>8. ListedAtLeast'
  BY <1>3, <1>4, <1>6 DEF ListedAtLeast
<1>9. (IdleHasNoReply /\ WalkEnds /\ NothingListed /\ QuietRequests)'
  BY <1>2, <1>3 DEF IdleHasNoReply, WalkEnds, NothingListed, QuietRequests
<1>10. (ItemsFound /\ TotalCounted /\ QuietWalkIsExact /\ CreationsHideNothing)'
  BY <1>3 DEF ItemsFound, TotalCounted, QuietWalkIsExact, CreationsHideNothing
<1>11. QED BY <1>5, <1>7, <1>8, <1>9, <1>10

\* What the find of a page gives: its length, and who of the matches is on it.
LEMMA Found ==
  ASSUME TypeOK, query # None,
         NEW s \in SortedIn(docs, query.descending),
         NEW p, p = Page(s, clampPagination(query.page, query.pageSize))
  PROVE  /\ p \in Seq(Customers) /\ Len(p) \in Nat
         /\ Len(p) = LET n == Cardinality(MatchingIn(docs)) IN
                     IF Through <= n THEN query.pageSize
                     ELSE IF Skipped <= n THEN n - Skipped ELSE 0
         /\ NoTiesIn(docs) =>
              \A c \in Customers :
                Occurs(p, c) = IF /\ c \in MatchingIn(docs)
                                  /\ Skipped < PlaceOf(c)
                                  /\ PlaceOf(c) <= Through
                               THEN 1 ELSE 0
<1> DEFINE desc == query.descending
<1>1. query.page \in Nat \ {0} /\ query.pageSize \in 1 .. MAX_PAGE_SIZE
      /\ desc \in BOOLEAN /\ Through = Skipped + query.pageSize
  BY Numbers
<1>2. s \in Sorted(desc) /\ Matching = MatchingIn(docs)
      /\ (NoTies(Matching) <=> NoTiesIn(docs))
  BY <1>1, Views
<1> HIDE DEF desc
<1>3. /\ p \in Seq(Matching)
      /\ Len(p) = LET n == Cardinality(Matching) IN
                  IF Skipped + query.pageSize <= n THEN query.pageSize
                  ELSE IF Skipped <= n THEN n - Skipped ELSE 0
  <2>1. PICK page \in Nat \ {0}, size \in 1 .. MAX_PAGE_SIZE :
          page = query.page /\ size = query.pageSize
    BY <1>1
  <2> DEFINE q == Page(s, clampPagination(page, size))
             skip == (page - 1) * size
             n == Cardinality(Matching)
  <2>2. /\ q \in Seq(Matching)
        /\ Len(q) = IF skip + size <= n THEN size
                    ELSE IF skip <= n THEN n - skip ELSE 0
    BY <1>1, <1>2, PageIs
  <2>3. p = q /\ Skipped = skip
    BY <2>1 DEF Skipped
  <2> HIDE DEF q, skip
  <2>4. QED BY <2>1, <2>2, <2>3
<1>4. p \in Seq(Customers) /\ Len(p) \in Nat
  <2>1. Matching \subseteq Customers
    BY DEF Matching
  <2>2. QED BY <1>3, <2>1
<1>5. ASSUME NoTiesIn(docs), NEW c \in Customers
      PROVE  Occurs(p, c) = IF /\ c \in Matching
                               /\ Skipped < Place(docs, desc, c)
                               /\ Place(docs, desc, c) <= Skipped + query.pageSize
                            THEN 1 ELSE 0
  BY <1>1, <1>2, <1>5, PageListsItsPlaces DEF Skipped
<1>6. QED BY <1>1, <1>2, <1>3, <1>4, <1>5 DEF PlaceOf, desc

LEMMA FindStep == LInv /\ Find => LInv'
<1> SUFFICES ASSUME LInv, Find PROVE LInv'
  OBVIOUS
<1> USE DEF LInv
<1>0. TypeOK /\ query # None /\ query.descending \in BOOLEAN
  BY Numbers DEF Find
<1>1. PICK s \in SortedIn(docs, query.descending) :
        items' = Page(s, clampPagination(query.page, query.pageSize))
  BY <1>0, Views DEF Find
<1>2. /\ docs' = docs /\ query' = query /\ total' = total /\ end' = end
      /\ writes' = writes /\ listed' = listed /\ stayed' = stayed /\ calm' = calm
  BY DEF Find, history
<1> DEFINE n == Cardinality(MatchingIn(docs))
<1>3. /\ items' \in Seq(Customers) /\ Len(items') \in Nat
      /\ Len(items') = IF Through <= n THEN query.pageSize
                       ELSE IF Skipped <= n THEN n - Skipped ELSE 0
      /\ NoTiesIn(docs) =>
           \A c \in Customers :
             Occurs(items', c) = IF /\ c \in MatchingIn(docs)
                                    /\ Skipped < PlaceOf(c)
                                    /\ PlaceOf(c) <= Through
                                 THEN 1 ELSE 0
  BY <1>0, <1>1, Found
<1>4. n \in Nat /\ query.pageSize \in Nat \ {0} /\ Skipped \in Nat
      /\ Through = Skipped + query.pageSize
  BY <1>0, MatchingFinite, Views, Numbers
<1>5. TypeOK'
  <2>1. Len(items') <= query.pageSize
    BY <1>3, <1>4
  <2>2. stayed' \subseteq Matching'
    BY <1>2, Views, ViewsThen DEF TypeOK
  <2>3. QED BY <1>2, <1>3, <2>1, <2>2 DEF TypeOK
<1>6. ItemsFound'
  <2>1. s \in SortedIn(docs', query'.descending)
        /\ items' = Page(s, clampPagination(query'.page, query'.pageSize))
    BY <1>1, <1>2
  <2>2. QED BY <2>1 DEF ItemsFound
<1>7. ListedAtLeast'
  <2> SUFFICES ASSUME calm.walk # "stormy", NoTiesIn(docs), NEW c \in stayed
               PROVE  /\ PlaceOf(c) <= Skipped => listed[c] >= 1
                      /\ PlaceOf(c) <= Through \/ Short' =>
                           listed[c] >= 1 \/ OnThePage(c)'
    BY <1>2 DEF ListedAtLeast, PlaceOf, Skipped, Through, OnThePage
  <2>1. c \in MatchingIn(docs) /\ c \in Customers /\ PlaceOf(c) \in Nat
        /\ PlaceOf(c) <= n
    BY PlaceType, Views DEF TypeOK, PlaceOf, Matching
  <2>2. PlaceOf(c) <= Skipped => listed[c] >= 1
    BY <1>0 DEF ListedAtLeast
  <2>3. ASSUME Skipped < PlaceOf(c), PlaceOf(c) <= Through \/ Short'
        PROVE  OnThePage(c)'
    <3>1. Short' => n < Through
      BY <1>2, <1>3, <1>4 DEF Short
    <3> HIDE DEF n
    <3>2. PlaceOf(c) <= Through
      BY <1>4, <2>1, <2>3, <3>1
    <3>3. Occurs(items', c) = 1
      BY <1>3, <2>1, <2>3, <3>2
    <3>4. QED BY <1>3, <3>3, OccursType DEF OnThePage
  <2>4. PlaceOf(c) <= Skipped \/ Skipped < PlaceOf(c)
    BY <1>4, <2>1
  <2>5. QED BY <2>2, <2>3, <2>4
<1>8. ListedOnce'
  BY <1>2 DEF ListedOnce, PlaceOf, Skipped
<1>9. (IdleHasNoReply /\ WalkEnds /\ NothingListed /\ QuietRequests)'
  BY <1>0, <1>2 DEF IdleHasNoReply, WalkEnds, NothingListed, QuietRequests
<1>10. (TotalCounted /\ QuietWalkIsExact /\ CreationsHideNothing)'
  BY <1>0, <1>2 DEF TotalCounted, QuietWalkIsExact, CreationsHideNothing, WalkEnds
<1>11. QED BY <1>5, <1>6, <1>7, <1>8, <1>9, <1>10

LEMMA CountStep == LInv /\ Count => LInv'
<1> SUFFICES ASSUME LInv, Count PROVE LInv'
  OBVIOUS
<1> USE DEF LInv
<1>1. /\ query # None /\ total' = Cardinality(MatchingIn(docs))
      /\ docs' = docs /\ query' = query /\ items' = items /\ end' = end
      /\ writes' = writes /\ listed' = listed /\ stayed' = stayed /\ calm' = calm
  BY Views DEF Count, history
<1>2. TypeOK'
  <2>1. total' \in 0 .. Cardinality(Customers)
    BY <1>1, MatchingFinite, Views
  <2>2. stayed' \subseteq Matching'
    BY <1>1, Views, ViewsThen DEF TypeOK
  <2>3. QED BY <1>1, <2>1, <2>2 DEF TypeOK
<1>3. ItemsFound' /\ TotalCounted'
  BY <1>1 DEF ItemsFound, TotalCounted
<1>4. ListedOnce'
  BY <1>1 DEF ListedOnce, PlaceOf, Skipped
<1>5. ListedAtLeast'
  BY <1>1 DEF ListedAtLeast, PlaceOf, Skipped, Through, Short, OnThePage
<1>6. (IdleHasNoReply /\ WalkEnds /\ NothingListed /\ QuietRequests)'
  BY <1>1 DEF IdleHasNoReply, WalkEnds, NothingListed, QuietRequests
<1>7. (QuietWalkIsExact /\ CreationsHideNothing)'
  BY <1>1 DEF QuietWalkIsExact, CreationsHideNothing, WalkEnds
<1>8. QED BY <1>2, <1>3, <1>4, <1>5, <1>6, <1>7

\* What a complete reply adds to the list.
LEMMA AnsweredAdds ==
  ASSUME LInv, Answered
  PROVE  /\ TypeOK /\ query # None /\ items # None /\ total # None
         /\ Len(items) \in Nat
         /\ listed' \in [Customers -> Nat]
         /\ \A c \in Customers : /\ Occurs(items, c) \in Nat
                                 /\ listed[c] \in Nat
                                 /\ listed'[c] = listed[c] + Occurs(items, c)
                                 /\ OnThePage(c) => Occurs(items, c) >= 1
         /\ docs' = docs /\ writes' = writes /\ stayed' = stayed
         /\ items' = None /\ total' = None
<1>1. /\ TypeOK /\ query # None /\ items # None /\ total # None
      /\ docs' = docs /\ writes' = writes /\ stayed' = stayed
      /\ items' = None /\ total' = None
      /\ listed' = [c \in Customers |-> listed[c] + Occurs(items, c)]
  BY DEF LInv, Answered, Complete, Occurs
<1>2. items \in Seq(Customers) /\ Len(items) \in Nat /\ listed \in [Customers -> Nat]
  BY <1>1 DEF TypeOK
<1>3. \A c \in Customers : /\ Occurs(items, c) \in Nat
                           /\ OnThePage(c) => Occurs(items, c) >= 1
  BY <1>2, OccursType DEF OnThePage
<1>4. QED BY <1>1, <1>2, <1>3

\* A quiet walk that has had this reply too has listed its matches as well.
LEMMA QuietReply ==
  ASSUME LInv, Answered, calm.walk = "quiet", NoTiesIn(docs)
  PROVE  /\ \A c \in Customers :
              listed'[c] = IF c \in MatchingIn(docs) /\ PlaceOf(c) <= Through
                           THEN 1 ELSE 0
         /\ Short \/ LastPage => \A c \in MatchingIn(docs) : PlaceOf(c) <= Through
<1> DEFINE n == Cardinality(MatchingIn(docs))
<1>1. /\ TypeOK /\ query # None /\ items # None /\ total # None
      /\ \A c \in Customers : listed'[c] = listed[c] + Occurs(items, c)
  BY AnsweredAdds
<1>2. /\ n \in Nat /\ query.pageSize \in Nat \ {0} /\ query.page \in Nat \ {0}
      /\ Skipped \in Nat /\ Through = Skipped + query.pageSize
  BY <1>1, MatchingFinite, Views, Numbers
<1>3. calm.request = "quiet"
  BY DEF LInv, QuietRequests
<1>4. /\ Len(items) = IF Through <= n THEN query.pageSize
                      ELSE IF Skipped <= n THEN n - Skipped ELSE 0
      /\ \A c \in Customers :
           Occurs(items, c) = IF /\ c \in MatchingIn(docs)
                                 /\ Skipped < PlaceOf(c)
                                 /\ PlaceOf(c) <= Through
                              THEN 1 ELSE 0
  <2>1. PICK s \in SortedIn(docs, query.descending) :
          items = Page(s, clampPagination(query.page, query.pageSize))
    BY <1>1, <1>3 DEF LInv, ItemsFound
  <2>2. QED BY <1>1, <2>1, Found
<1>5. total = n
  BY <1>1, <1>3 DEF LInv, TotalCounted
<1>6. \A c \in MatchingIn(docs) : PlaceOf(c) \in Nat /\ PlaceOf(c) <= n
  BY PlaceType DEF PlaceOf
<1> HIDE DEF n
<1>7. \A c \in Customers :
        listed[c] = IF c \in MatchingIn(docs) /\ PlaceOf(c) <= Skipped THEN 1 ELSE 0
  BY <1>1 DEF LInv, ListedOnce
<1>8. \A c \in Customers :
        listed'[c] = IF c \in MatchingIn(docs) /\ PlaceOf(c) <= Through
                     THEN 1 ELSE 0
  BY <1>1, <1>2, <1>4, <1>6, <1>7
<1>9. Short => n <= Through
  BY <1>2, <1>4 DEF Short
<1>10. LastPage => n <= Through
  <2>1. TotalPages(n, query.pageSize) \in Nat
    BY <1>2, PagesHold
  <2>2. query.page >= TotalPages(n, query.pageSize) =>
          n <= query.page * query.pageSize
    BY <1>2, PagesOf
  <2>3. QED BY <1>5, <2>2 DEF LastPage, Through
<1>11. QED BY <1>2, <1>6, <1>8, <1>9, <1>10

LEMMA AskNextStep == LInv /\ AskNext => LInv'
<1> SUFFICES ASSUME LInv, AskNext PROVE LInv'
  OBVIOUS
<1>0. Answered
  BY DEF AskNext
<1>1. /\ TypeOK /\ query # None /\ items # None /\ total # None
      /\ listed' \in [Customers -> Nat]
      /\ \A c \in Customers : /\ Occurs(items, c) \in Nat
                              /\ listed[c] \in Nat
                              /\ listed'[c] = listed[c] + Occurs(items, c)
                              /\ OnThePage(c) => Occurs(items, c) >= 1
      /\ docs' = docs /\ writes' = writes /\ stayed' = stayed
      /\ items' = None /\ total' = None
  BY <1>0, AnsweredAdds
<1>2. /\ query \in Query /\ query.page \in Nat \ {0} /\ query.pageSize \in Nat \ {0}
  BY <1>1, Numbers
<1>3. /\ query' \in Query /\ query' # None
      /\ query'.page = query.page + 1 /\ query'.pageSize = query.pageSize
      /\ query'.descending = query.descending
  <2>1. query' = [query EXCEPT !.page = @ + 1]
    BY DEF AskNext
  <2>2. query.page + 1 \in Nat \ {0}
    BY <1>2
  <2>3. query' \in Query
    BY <1>2, <2>1, <2>2 DEF Query
  <2>4. QED BY <1>2, <2>1, <2>3, NoneAssumption DEF Query
<1>4. Skipped' = Through /\ \A c : PlaceOf(c)' = PlaceOf(c)
  <2>1. (query.page + 1) - 1 = query.page
    BY <1>2
  <2>2. QED BY <1>1, <1>3, <2>1 DEF Skipped, Through, PlaceOf
<1>5. end' = end /\ end = None /\ calm' = [calm EXCEPT !.request = "quiet"]
  BY <1>1 DEF AskNext, LInv, WalkEnds
<1>6. calm' \in [{"request", "walk"} -> Calm] /\ calm'.walk = calm.walk
      /\ calm'.request = "quiet"
  BY <1>1, <1>5 DEF TypeOK, Calm
<1>7. TypeOK'
  <2>1. stayed' \subseteq Matching'
    BY <1>1, Views, ViewsThen DEF TypeOK
  <2>2. QED BY <1>1, <1>3, <1>5, <1>6, <2>1 DEF TypeOK
<1>8. ListedOnce'
  <2> SUFFICES ASSUME calm.walk = "quiet", NoTiesIn(docs), NEW c \in Customers
               PROVE  listed'[c] = IF c \in MatchingIn(docs) /\ PlaceOf(c) <= Through
                                   THEN 1 ELSE 0
    BY <1>1, <1>4, <1>6 DEF ListedOnce
  <2>1. QED BY <1>0, QuietReply
<1>9. ListedAtLeast'
  <2> SUFFICES ASSUME calm.walk # "stormy", NoTiesIn(docs), NEW c \in stayed,
                      PlaceOf(c) <= Through
               PROVE  listed'[c] >= 1
    BY <1>1, <1>4, <1>6 DEF ListedAtLeast
  <2>1. listed[c] >= 1 \/ OnThePage(c)
    BY <1>1 DEF LInv, ListedAtLeast
  <2>2. c \in Customers
    BY <1>1 DEF TypeOK, Matching
  <2>3. QED BY <1>1, <2>1, <2>2
<1>10. (IdleHasNoReply /\ WalkEnds /\ NothingListed /\ QuietRequests)'
  BY <1>1, <1>3, <1>5, <1>6
  DEF IdleHasNoReply, WalkEnds, NothingListed, QuietRequests
<1>11. (ItemsFound /\ TotalCounted /\ QuietWalkIsExact /\ CreationsHideNothing)'
  BY <1>1, <1>5 DEF ItemsFound, TotalCounted, QuietWalkIsExact, CreationsHideNothing
<1>12. QED BY <1>7, <1>8, <1>9, <1>10, <1>11 DEF LInv

LEMMA StopStep == LInv /\ Stop => LInv'
<1> SUFFICES ASSUME LInv, Stop PROVE LInv'
  OBVIOUS
<1>0. Answered
  BY DEF Stop
<1>1. /\ TypeOK /\ query # None /\ items # None /\ total # None
      /\ listed' \in [Customers -> Nat]
      /\ \A c \in Customers : /\ Occurs(items, c) \in Nat
                              /\ listed[c] \in Nat
                              /\ listed'[c] = listed[c] + Occurs(items, c)
                              /\ OnThePage(c) => Occurs(items, c) >= 1
      /\ docs' = docs /\ writes' = writes /\ stayed' = stayed
      /\ items' = None /\ total' = None
  BY <1>0, AnsweredAdds
<1>2. query' = None /\ calm' = calm
  BY DEF Stop
<1>3. end' \in End /\ end' # None /\ (end'.short => Short)
  <2>1. PICK short \in BOOLEAN, lastPage \in BOOLEAN :
          end' = [short |-> short, lastPage |-> lastPage] /\ (short => Short)
    <3>1. Short \in BOOLEAN /\ LastPage \in BOOLEAN
      BY DEF Short, LastPage
    <3>2. end' = [short |-> Short, lastPage |-> LastPage]
      BY DEF Stop
    <3>3. Short => Short
      OBVIOUS
    <3>4. QED BY <3>1, <3>2, <3>3, Zenon
  <2>2. end' \in End /\ end'.short = short
    BY <2>1 DEF End
  <2>3. QED BY <2>1, <2>2, NoneAssumption
<1>4. TypeOK'
  <2>1. stayed' \subseteq Matching'
    BY <1>1, Views, ViewsThen DEF TypeOK
  <2>2. QED BY <1>1, <1>2, <1>3, <2>1 DEF TypeOK
<1>5. QuietWalkIsExact'
  <2> SUFFICES ASSUME calm.walk = "quiet", NoTiesIn(docs), NEW c \in Customers
               PROVE  listed'[c] = IF c \in MatchingIn(docs) THEN 1 ELSE 0
    BY <1>1, <1>2, ViewsThen DEF QuietWalkIsExact
  <2>1. Short \/ LastPage
    BY DEF Stop
  <2>2. QED BY <1>0, <2>1, QuietReply
<1>6. CreationsHideNothing'
  <2> SUFFICES ASSUME calm.walk # "stormy", NoTiesIn(docs), NEW c \in stayed, Short
               PROVE  listed'[c] >= 1
    BY <1>1, <1>2, <1>3, ViewsThen DEF CreationsHideNothing
  <2>1. listed[c] >= 1 \/ OnThePage(c)
    BY <1>1 DEF LInv, ListedAtLeast
  <2>2. c \in Customers
    BY <1>1 DEF TypeOK, Matching
  <2>3. QED BY <1>1, <2>1, <2>2
<1>7. (IdleHasNoReply /\ WalkEnds /\ NothingListed /\ QuietRequests)'
  BY <1>1, <1>2, <1>3
  DEF LInv, IdleHasNoReply, WalkEnds, NothingListed, QuietRequests
<1>8. (ItemsFound /\ TotalCounted /\ ListedOnce /\ ListedAtLeast)'
  BY <1>1, <1>2 DEF ItemsFound, TotalCounted, ListedOnce, ListedAtLeast
<1>9. QED BY <1>4, <1>5, <1>6, <1>7, <1>8 DEF LInv

LEMMA AskAgainStep == LInv /\ AskAgain => LInv'
<1> SUFFICES ASSUME LInv, AskAgain PROVE LInv'
  OBVIOUS
<1> USE DEF LInv
<1>1. /\ query # None /\ items' = None /\ total' = None
      /\ calm' = [calm EXCEPT !.request = "quiet"]
      /\ docs' = docs /\ query' = query /\ end' = end
      /\ writes' = writes /\ listed' = listed /\ stayed' = stayed
  BY DEF AskAgain
<1>2. calm' \in [{"request", "walk"} -> Calm] /\ calm'.walk = calm.walk
      /\ calm'.request = "quiet"
  BY <1>1 DEF TypeOK, Calm
<1>3. TypeOK'
  <2>1. stayed' \subseteq Matching'
    BY <1>1, Views, ViewsThen DEF TypeOK
  <2>2. QED BY <1>1, <1>2, <2>1 DEF TypeOK
<1>4. ListedOnce' /\ ListedAtLeast'
  BY <1>1, <1>2 DEF ListedOnce, ListedAtLeast, PlaceOf, Skipped
<1>5. (IdleHasNoReply /\ WalkEnds /\ NothingListed /\ QuietRequests)'
  BY <1>1, <1>2 DEF IdleHasNoReply, WalkEnds, NothingListed, QuietRequests
<1>6. (ItemsFound /\ TotalCounted /\ QuietWalkIsExact /\ CreationsHideNothing)'
  BY <1>1 DEF ItemsFound, TotalCounted, QuietWalkIsExact, CreationsHideNothing,
              WalkEnds
<1>7. QED BY <1>3, <1>4, <1>5, <1>6

-----------------------------------------------------------------------------
(* The writes of others.                                                   *)

LEMMA WriteMoves ==
  ASSUME LInv, NEW c \in Customers, NEW d \in Doc \cup {None},
         NEW weather \in {"growing", "stormy"}, Write(c, d, weather)
  PROVE  /\ query # None /\ end = None
         /\ docs' = [docs EXCEPT ![c] = d] /\ docs' \in [Customers -> Doc \cup {None}]
         /\ writes' \in 0 .. MaxWrites
         /\ calm' \in [{"request", "walk"} -> Calm]
         /\ calm'.request # "quiet" /\ calm'.walk # "quiet"
         /\ calm'.walk # "stormy" => calm.walk # "stormy" /\ weather # "stormy"
         /\ query' = query /\ items' = items /\ total' = total
         /\ end' = end /\ listed' = listed
<1>1. TypeOK /\ query # None /\ end = None
  BY DEF LInv, WalkEnds, Write
<1>2. docs' = [docs EXCEPT ![c] = d] /\ docs' \in [Customers -> Doc \cup {None}]
  BY <1>1 DEF Write, TypeOK
<1>3. writes' \in 0 .. MaxWrites
  BY <1>1, BoundsAssumption DEF Write, TypeOK
<1>4. /\ calm' \in [{"request", "walk"} -> Calm]
      /\ calm'.request # "quiet" /\ calm'.walk # "quiet"
      /\ calm'.walk # "stormy" => calm.walk # "stormy" /\ weather # "stormy"
  BY DEF Write, Calm
<1>5. /\ query' = query /\ items' = items /\ total' = total
      /\ end' = end /\ listed' = listed
  BY DEF Write
<1>6. QED BY <1>1, <1>2, <1>3, <1>4, <1>5

\* What any write leaves true, whoever it leaves in place.
LEMMA WriteKeeps ==
  ASSUME LInv, NEW c \in Customers, NEW d \in Doc \cup {None},
         NEW weather \in {"growing", "stormy"}, Write(c, d, weather),
         stayed' \subseteq Matching', ListedAtLeast'
  PROVE  LInv'
<1>1. /\ query # None /\ end = None /\ docs' \in [Customers -> Doc \cup {None}]
      /\ writes' \in 0 .. MaxWrites
      /\ calm' \in [{"request", "walk"} -> Calm]
      /\ calm'.request # "quiet" /\ calm'.walk # "quiet"
      /\ query' = query /\ items' = items /\ total' = total
      /\ end' = end /\ listed' = listed
  BY WriteMoves
<1>2. TypeOK'
  BY <1>1 DEF LInv, TypeOK
<1>3. (IdleHasNoReply /\ WalkEnds /\ NothingListed /\ QuietRequests)'
  BY <1>1 DEF LInv, IdleHasNoReply, WalkEnds, NothingListed, QuietRequests
<1>4. (ItemsFound /\ TotalCounted /\ ListedOnce)'
  BY <1>1 DEF ItemsFound, TotalCounted, ListedOnce
<1>5. (QuietWalkIsExact /\ CreationsHideNothing)'
  BY <1>1 DEF QuietWalkIsExact, CreationsHideNothing
<1>6. QED BY <1>2, <1>3, <1>4, <1>5 DEF LInv

LEMMA CreateStep ==
  ASSUME LInv, NEW c \in Customers, NEW d \in Doc, Create(c, d)
  PROVE  LInv'
<1>0. Write(c, d, "growing") /\ d \in Doc \cup {None}
  BY DEF Create
<1>1. /\ TypeOK /\ docs[c] = None /\ stayed' = stayed
      /\ query # None
      /\ docs' = [docs EXCEPT ![c] = d]
      /\ calm'.walk # "stormy" => calm.walk # "stormy"
      /\ query' = query /\ items' = items /\ listed' = listed
  BY <1>0, WriteMoves DEF Create, LInv
<1>2. query.descending \in BOOLEAN /\ Skipped \in Nat /\ Through \in Nat
  <2>1. Through = Skipped + query.pageSize /\ query.pageSize \in Nat
    BY <1>1, Numbers
  <2>2. QED BY <1>1, <2>1, Numbers
<1>3. /\ MatchingIn(docs) \subseteq MatchingIn(docs')
      /\ NoTiesIn(docs') => NoTiesIn(docs)
      /\ \A x \in MatchingIn(docs) :
           Place(docs, query.descending, x) <= Place(docs', query.descending, x)
  BY <1>1, <1>2, CreationsPush DEF TypeOK
<1>4. stayed' \subseteq Matching'
  BY <1>1, <1>3, Views, ViewsThen DEF TypeOK
<1>5. ListedAtLeast'
  <2> SUFFICES ASSUME calm.walk # "stormy", NoTiesIn(docs), NEW x \in stayed
               PROVE  /\ PlaceOf(x)' <= Skipped => listed[x] >= 1
                      /\ items # None /\ (PlaceOf(x)' <= Through \/ Short) =>
                           listed[x] >= 1 \/ OnThePage(x)
    BY <1>1, <1>3 DEF ListedAtLeast, Skipped, Through, Short, OnThePage
  <2>1. x \in MatchingIn(docs)
    BY <1>1, Views DEF TypeOK
  <2>2. /\ PlaceOf(x) \in Nat /\ PlaceOf(x)' \in Nat
        /\ PlaceOf(x) <= PlaceOf(x)'
    BY <1>1, <1>3, <2>1, PlaceType DEF PlaceOf
  <2>3. /\ PlaceOf(x) <= Skipped => listed[x] >= 1
        /\ items # None /\ (PlaceOf(x) <= Through \/ Short) =>
             listed[x] >= 1 \/ OnThePage(x)
    BY <1>1 DEF LInv, ListedAtLeast
  <2>4. /\ PlaceOf(x)' <= Skipped => PlaceOf(x) <= Skipped
        /\ PlaceOf(x)' <= Through => PlaceOf(x) <= Through
    BY <1>2, <2>2
  <2>5. QED BY <2>3, <2>4
<1>6. QED BY <1>0, <1>4, <1>5, WriteKeeps

\* An update or a deletion ends what is known of a walk, but for who stayed.
LEMMA StormStep ==
  ASSUME LInv, NEW c \in Customers, NEW d \in Doc \cup {None},
         Write(c, d, "stormy"), stayed' = stayed \ {c}
  PROVE  LInv'
<1>1. /\ docs' = [docs EXCEPT ![c] = d] /\ docs \in [Customers -> Doc \cup {None}]
      /\ calm'.walk = "stormy"
  BY WriteMoves DEF LInv, TypeOK
<1>2. stayed' \subseteq Matching'
  <2>1. stayed \subseteq MatchingIn(docs)
    BY Views DEF LInv, TypeOK
  <2>2. \A x \in stayed' : x \in Customers /\ docs'[x] = docs[x]
                           /\ x \in MatchingIn(docs)
    BY <1>1, <2>1 DEF MatchingIn
  <2>3. QED BY <2>2, ViewsThen DEF MatchingIn
<1>3. ListedAtLeast'
  BY <1>1 DEF ListedAtLeast
<1>4. QED BY <1>2, <1>3, WriteKeeps

LEMMA StutterStep == LInv /\ UNCHANGED vars => LInv'
<1> SUFFICES ASSUME LInv, UNCHANGED vars PROVE LInv'
  OBVIOUS
<1> USE DEF LInv
<1>1. /\ docs' = docs /\ query' = query /\ items' = items /\ total' = total
      /\ end' = end /\ writes' = writes /\ listed' = listed
      /\ stayed' = stayed /\ calm' = calm
  BY DEF vars
<1>2. TypeOK'
  <2>1. stayed' \subseteq Matching'
    BY <1>1, Views, ViewsThen DEF TypeOK
  <2>2. QED BY <1>1, <2>1 DEF TypeOK
<1>3. (IdleHasNoReply /\ WalkEnds /\ NothingListed /\ QuietRequests)'
  BY <1>1 DEF IdleHasNoReply, WalkEnds, NothingListed, QuietRequests
<1>4. ItemsFound' /\ TotalCounted'
  BY <1>1 DEF ItemsFound, TotalCounted
<1>5. ListedOnce'
  BY <1>1 DEF ListedOnce, PlaceOf, Skipped
<1>6. ListedAtLeast'
  BY <1>1 DEF ListedAtLeast, PlaceOf, Skipped, Through, Short, OnThePage
<1>7. QuietWalkIsExact' /\ CreationsHideNothing'
  BY <1>1, Views, ViewsThen DEF QuietWalkIsExact, CreationsHideNothing
<1>8. QED BY <1>2, <1>3, <1>4, <1>5, <1>6, <1>7

LEMMA LInvInductive == LInv /\ [Next]_vars => LInv'
<1> SUFFICES ASSUME LInv, [Next]_vars PROVE LInv'
  OBVIOUS
<1>1. CASE AskFirst
  BY <1>1, AskFirstStep
<1>2. CASE Find
  BY <1>2, FindStep
<1>3. CASE Count
  BY <1>3, CountStep
<1>4. CASE AskNext
  BY <1>4, AskNextStep
<1>5. CASE Stop
  BY <1>5, StopStep
<1>6. CASE AskAgain
  BY <1>6, AskAgainStep
<1>7. ASSUME NEW c \in Customers, NEW d \in Doc, Create(c, d) PROVE LInv'
  BY <1>7, CreateStep
<1>8. ASSUME NEW c \in Customers, NEW d \in Doc, Update(c, d) PROVE LInv'
  BY <1>8, StormStep DEF Update
<1>9. ASSUME NEW c \in Customers, Delete(c) PROVE LInv'
  BY <1>9, StormStep DEF Delete
<1>10. CASE UNCHANGED vars
  BY <1>10, StutterStep
<1>11. QED
  BY <1>1, <1>2, <1>3, <1>4, <1>5, <1>6, <1>7, <1>8, <1>9, <1>10 DEF Next

LEMMA LInvAlways == Spec => []LInv
<1>1. QED BY InitLInv, LInvInductive, PTL DEF Spec

-----------------------------------------------------------------------------
(* What follows.                                                           *)

\* Every variable keeps its type, and who is said to have stayed still matches.
THEOREM TypeCorrect == Spec => []TypeOK
<1>1. LInv => TypeOK
  BY DEF LInv
<1>2. QED BY <1>1, LInvAlways, PTL

\* The pages of a walk nobody disturbed hold each match exactly once and
\* nothing else: skip and limit cut one order, and the meta and the length of a
\* page stop the client at its end.
THEOREM WalksAreExact == Spec => []QuietWalkIsExact
<1>1. LInv => QuietWalkIsExact
  BY DEF LInv
<1>2. QED BY <1>1, LInvAlways, PTL

\* New customers only move the others to later pages, so that a walk that goes
\* on to a page that is not full has listed all that were there from the start.
THEOREM WalksMissNoOne == Spec => []CreationsHideNothing
<1>1. LInv => CreationsHideNothing
  BY DEF LInv
<1>2. QED BY <1>1, LInvAlways, PTL

\* The totalPages of an undisturbed reply, Math.ceil(total / pageSize), agrees
\* with the items skip and limit leave it.
THEOREM MetaIsOfItsPage == Spec => []MetaAgrees
<1>1. LInv => MetaAgrees
  <2> SUFFICES ASSUME LInv, Complete, calm.request = "quiet"
               PROVE  LET pages == TotalPages(total, query.pageSize) IN
                      /\ query.page < pages => Len(items) = query.pageSize
                      /\ query.page > pages <=> items = <<>>
    BY DEF MetaAgrees
  <2> DEFINE n == Cardinality(MatchingIn(docs))
             pages == TotalPages(n, query.pageSize)
  <2>1. TypeOK /\ query # None /\ items # None /\ total # None
    BY DEF LInv, Complete
  <2>2. /\ n \in Nat /\ query.pageSize \in Nat \ {0} /\ query.page \in Nat \ {0}
        /\ Skipped \in Nat /\ Through = Skipped + query.pageSize
    BY <2>1, MatchingFinite, Views, Numbers
  <2>3. total = n
    BY <2>1 DEF LInv, TotalCounted
  <2>4. /\ items \in Seq(Customers) /\ Len(items) \in Nat
        /\ Len(items) = IF Through <= n THEN query.pageSize
                        ELSE IF Skipped <= n THEN n - Skipped ELSE 0
    <3>1. PICK s \in SortedIn(docs, query.descending) :
            items = Page(s, clampPagination(query.page, query.pageSize))
      BY <2>1 DEF LInv, ItemsFound
    <3>2. QED BY <2>1, <3>1, Found
  <2>5. /\ pages \in Nat
        /\ query.page < pages => Through <= n
        /\ query.page > pages => n <= Skipped
        /\ query.page <= pages => Skipped < n
    <3>1. pages \in Nat
      BY <2>2, PagesHold
    <3>2. PICK page \in Nat \ {0}, size \in Nat \ {0} :
            page = query.page /\ size = query.pageSize
      BY <2>2
    <3>3. LET p == TotalPages(n, size) IN
          /\ page < p => page * size <= n
          /\ page > p => n <= (page - 1) * size
          /\ page <= p => (page - 1) * size < n
      BY <2>2, PagesOf
    <3>4. Skipped = (page - 1) * size /\ Through = page * size
      BY <3>2 DEF Skipped, Through
    <3>5. QED BY <3>1, <3>2, <3>3, <3>4
  <2> HIDE DEF n, pages
  <2>6. query.page < pages => Len(items) = query.pageSize
    BY <2>4, <2>5
  <2>7. items = <<>> <=> Len(items) = 0
    BY <2>4
  <2>8. query.page > pages <=> Len(items) = 0
    BY <2>2, <2>4, <2>5
  <2>9. QED BY <2>3, <2>6, <2>7, <2>8 DEF pages
<1>2. QED BY <1>1, LInvAlways, PTL

=============================================================================
