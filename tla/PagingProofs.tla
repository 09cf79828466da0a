---------------------------- MODULE PagingProofs ----------------------------
(***************************************************************************)
(* What reading page by page finds of a collection that others change, for *)
(* any rows, any size of pages and any number of changes.                  *)
(***************************************************************************)
EXTENDS Paging, FiniteSetTheorems, TLAPS

-----------------------------------------------------------------------------
(* Finite sets of numbers.                                                 *)

LEMMA LeastOf ==
  ASSUME NEW S, S \subseteq Nat, S # {}
  PROVE  \E i \in S : \A j \in S : i <= j
<1> DEFINE Less == {ss \in Nat \X Nat : ss[1] < ss[2]}
<1>1. IsWellFoundedOn(Less, Nat)
  BY NatLessThanWellFounded DEF OpToRel
<1>2. PICK i \in S : \A j \in S : <<j, i>> \notin Less
  <2> HIDE DEF Less
  <2> QED
    BY <1>1, WFMin
<1>3. ASSUME NEW j \in S, j < i PROVE FALSE
  <2>1. <<j, i>> \in Nat \X Nat /\ <<j, i>>[1] = j /\ <<j, i>>[2] = i
    BY <1>2
  <2>2. <<j, i>> \in Less
    BY <1>3, <2>1
  <2>3. QED
    BY <1>2, <2>2
<1>4. QED
  BY <1>2, <1>3

\* How many elements of S are not above k.
UpTo(S, k) == {other \in S : other <= k}

LEMMA UpToGrows ==
  ASSUME NEW S, S \subseteq Nat, IsFiniteSet(S), NEW k \in S, NEW o \in S, k < o
  PROVE  /\ Cardinality(UpTo(S, k)) \in Nat /\ Cardinality(UpTo(S, o)) \in Nat
         /\ Cardinality(UpTo(S, k)) < Cardinality(UpTo(S, o))
<1>1. UpTo(S, k) \subseteq S /\ UpTo(S, o) \subseteq S
  BY DEF UpTo
<1>2. IsFiniteSet(UpTo(S, k)) /\ IsFiniteSet(UpTo(S, o))
  BY <1>1, FS_Subset
<1>3. Cardinality(UpTo(S, k)) \in Nat /\ Cardinality(UpTo(S, o)) \in Nat
  BY <1>2, FS_CardinalityType
<1>4. UpTo(S, k) \subseteq UpTo(S, o) /\ UpTo(S, k) # UpTo(S, o)
  <2>1. \A e \in S : e \in Nat
    OBVIOUS
  <2>2. \A e \in S : e <= k => e <= o
    BY <2>1
  <2>3. o \in UpTo(S, o) /\ o \notin UpTo(S, k)
    BY <2>1 DEF UpTo
  <2>4. QED
    BY <2>2, <2>3 DEF UpTo
<1>5. QED
  BY <1>2, <1>3, <1>4, FS_Subset

LEMMA GreatestOf ==
  ASSUME NEW S, S \subseteq Nat, IsFiniteSet(S), S # {}
  PROVE  \E i \in S : \A j \in S : j <= i
<1> DEFINE n == Cardinality(S)
           f(k) == Cardinality(UpTo(S, k))
           T == {n - f(k) : k \in S}
<1>1. n \in Nat
  BY FS_CardinalityType
<1>2. \A k \in S : f(k) \in Nat /\ f(k) <= n
  <2> SUFFICES ASSUME NEW k \in S PROVE f(k) \in Nat /\ f(k) <= n
    OBVIOUS
  <2>1. UpTo(S, k) \subseteq S
    BY DEF UpTo
  <2>2. QED
    BY <2>1, FS_Subset, FS_CardinalityType
<1>3. T \subseteq Nat /\ T # {}
  <2> HIDE DEF f, n
  <2> QED
    BY <1>1, <1>2
<1>4. PICK d \in T : \A e \in T : d <= e
  <2> HIDE DEF T
  <2> QED
    BY <1>3, LeastOf
<1>5. PICK i \in S : d = n - f(i)
  <2> HIDE DEF f, n
  <2> QED
    BY <1>4
<1>6. ASSUME NEW j \in S, i < j PROVE FALSE
  <2>1. f(i) < f(j)
    BY <1>5, <1>6, UpToGrows
  <2>2. n - f(j) \in T
    OBVIOUS
  <2>3. n - f(i) <= n - f(j)
    BY <1>4, <1>5, <2>2
  <2> HIDE DEF f, n, T
  <2>4. QED
    BY <1>1, <1>2, <1>5, <2>1, <2>3
<1>7. QED
  BY <1>5, <1>6

-----------------------------------------------------------------------------
(* Pages by offset.                                                        *)

Below(L, k) == {other \in L : other < k}
Slice(L, offset, size) == {k \in L : Cardinality(Below(L, k)) \in offset..(offset + size - 1)}

\* A row stands behind those below it, and every row has a place of its own.
LEMMA PlacesDiffer ==
  ASSUME NEW L, L \subseteq Nat, IsFiniteSet(L), NEW k \in L
  PROVE  /\ Cardinality(L) \in Nat
         /\ Cardinality(Below(L, k)) \in Nat
         /\ Cardinality(Below(L, k)) < Cardinality(L)
         /\ \A o \in L : k < o => Cardinality(Below(L, k)) < Cardinality(Below(L, o))
<1>1. Below(L, k) \subseteq L /\ Below(L, k) # L
  BY DEF Below
<1>2. IsFiniteSet(Below(L, k)) /\ Cardinality(Below(L, k)) \in Nat /\ Cardinality(L) \in Nat
  BY <1>1, FS_Subset, FS_CardinalityType
<1>3. Cardinality(Below(L, k)) < Cardinality(L)
  BY <1>1, <1>2, FS_Subset
<1>4. ASSUME NEW o \in L, k < o PROVE Cardinality(Below(L, k)) < Cardinality(Below(L, o))
  <2>1. Below(L, o) \subseteq L
    BY DEF Below
  <2>2. IsFiniteSet(Below(L, o)) /\ Cardinality(Below(L, o)) \in Nat
    BY <2>1, FS_Subset, FS_CardinalityType
  <2>3. Below(L, k) \subseteq Below(L, o) /\ Below(L, k) # Below(L, o)
    <3>1. \A e \in L : e \in Nat
      OBVIOUS
    <3>2. \A e \in L : e < k => e < o
      BY <1>4, <3>1
    <3>3. k \in Below(L, o) /\ k \notin Below(L, k)
      BY <1>4, <3>1 DEF Below
    <3>4. QED
      BY <3>2, <3>3 DEF Below
  <2>4. QED
    BY <1>2, <2>2, <2>3, FS_Subset
<1>5. QED
  BY <1>2, <1>3, <1>4

\* A page has at most the rows that were asked for.
LEMMA PageFits ==
  ASSUME NEW L, L \subseteq Nat, IsFiniteSet(L), NEW offset \in Nat, NEW size \in Nat
  PROVE  /\ Cardinality(Slice(L, offset, size)) \in Nat
         /\ Cardinality(Slice(L, offset, size)) <= size
<1> DEFINE keys == Slice(L, offset, size)
           places == offset..(offset + size - 1)
           f == [k \in keys |-> Cardinality(Below(L, k))]
<1>1. keys \subseteq L /\ \A k \in keys : Cardinality(Below(L, k)) \in places
  BY DEF Slice
<1>2. IsFiniteSet(keys) /\ Cardinality(keys) \in Nat
  <2> HIDE DEF keys
  <2> QED
    BY <1>1, FS_Subset, FS_CardinalityType
<1>3. IsFiniteSet(places) /\ Cardinality(places) = size
  BY FS_Interval
<1>4. \A k, o \in keys : Cardinality(Below(L, k)) = Cardinality(Below(L, o)) => k = o
  <2> SUFFICES ASSUME NEW k \in keys, NEW o \in keys, k # o
               PROVE  Cardinality(Below(L, k)) # Cardinality(Below(L, o))
    OBVIOUS
  <2>1. k \in L /\ o \in L /\ k \in Nat /\ o \in Nat
    BY <1>1
  <2>2. Cardinality(Below(L, k)) \in Nat /\ Cardinality(Below(L, o)) \in Nat
    BY <2>1, PlacesDiffer
  <2>3. CASE k < o
    <3>1. Cardinality(Below(L, k)) < Cardinality(Below(L, o))
      BY <2>1, <2>3, PlacesDiffer
    <3>2. QED
      BY <2>2, <3>1
  <2>4. CASE o < k
    <3>1. Cardinality(Below(L, o)) < Cardinality(Below(L, k))
      BY <2>1, <2>4, PlacesDiffer
    <3>2. QED
      BY <2>2, <3>1
  <2>5. QED
    BY <2>1, <2>3, <2>4
<1>5. f \in Injection(keys, places)
  <2> HIDE DEF keys, places
  <2> QED
    BY <1>1, <1>4 DEF Injection, IsInjective
<1>6. Cardinality(keys) <= Cardinality(places)
  <2> HIDE DEF keys, places, f
  <2> QED
    BY <1>3, <1>5, FS_Injection
<1>7. QED
  BY <1>2, <1>3, <1>6

\* After a page, the rows counted are the first ones of the list.
LEMMA PageCovers ==
  ASSUME NEW L, L \subseteq Nat, IsFiniteSet(L), NEW offset \in Nat, NEW size \in Nat,
         NEW k \in L, Cardinality(Below(L, k)) < offset + Cardinality(Slice(L, offset, size))
  PROVE  Cardinality(Below(L, k)) < offset \/ k \in Slice(L, offset, size)
<1>1. Cardinality(Below(L, k)) \in Nat
  BY PlacesDiffer
<1>2. /\ Cardinality(Slice(L, offset, size)) \in Nat
      /\ Cardinality(Slice(L, offset, size)) <= size
  BY PageFits
<1>3. Cardinality(Below(L, k)) < offset + size
  BY <1>1, <1>2
<1>4. Cardinality(Below(L, k)) >= offset => Cardinality(Below(L, k)) \in offset..(offset + size - 1)
  BY <1>1, <1>3
<1>5. QED
  BY <1>1, <1>4 DEF Slice

-----------------------------------------------------------------------------
(* Pages by link.                                                          *)

FirstRows(ahead, size) == {k \in ahead : Cardinality(UpTo(ahead, k)) <= size}

\* A page behind a link has the first of the rows there: the greatest of them is
\* a link behind which all the others are.
LEMMA FirstOnes ==
  ASSUME NEW ahead, ahead \subseteq Nat, IsFiniteSet(ahead), ahead # {}, NEW size \in Nat \ {0},
         NEW keys, keys = FirstRows(ahead, size)
  PROVE  \E m \in keys : /\ \A k \in keys : m >= k
                         /\ \A k \in ahead : k <= m => k \in keys
<1>1. PICK i \in ahead : \A j \in ahead : i <= j
  BY LeastOf
<1>2. UpTo(ahead, i) = {i}
  <2>1. \A e \in ahead : e \in Nat /\ (e <= i => e = i)
    BY <1>1
  <2>2. i <= i
    BY <1>1
  <2>3. QED
    BY <1>1, <2>1, <2>2 DEF UpTo
<1>3. Cardinality(UpTo(ahead, i)) = 1
  BY <1>2, FS_Singleton
<1>4. i \in keys /\ keys \subseteq ahead
  BY <1>1, <1>3 DEF FirstRows
<1>5. IsFiniteSet(keys) /\ keys \subseteq Nat /\ keys # {}
  BY <1>4, FS_Subset
<1>6. PICK m \in keys : \A k \in keys : k <= m
  BY <1>5, GreatestOf
<1>7. ASSUME NEW k \in ahead, k < m PROVE k \in keys
  <2>1. Cardinality(UpTo(ahead, m)) <= size /\ m \in ahead
    BY <1>6 DEF FirstRows
  <2>2. /\ Cardinality(UpTo(ahead, k)) \in Nat /\ Cardinality(UpTo(ahead, m)) \in Nat
        /\ Cardinality(UpTo(ahead, k)) < Cardinality(UpTo(ahead, m))
    BY <1>7, <2>1, UpToGrows
  <2>3. QED
    BY <2>1, <2>2 DEF FirstRows
<1>8. QED
  BY <1>4, <1>5, <1>6, <1>7

-----------------------------------------------------------------------------
(* The invariant.                                                          *)

Got == BagToSet(got)

\* The parts a list of listings names.
PartsIn(list) == {list[i] : i \in DOMAIN list}

\* What may be left to list.
Remaining(from) ==
  CASE from = "jamf"  -> {<<"computers", "mobile">>, <<"mobile">>}
    [] from = "snipe" -> {<<"in_use", "archive_a", "archive_b">>, <<"in_use", "archive_b", "archive_a">>,
                          <<"archive_a", "archive_b">>, <<"archive_b", "archive_a">>,
                          <<"archive_a">>, <<"archive_b">>}
    [] from = "graph" -> {<<"managed">>}

ServerShape ==
  /\ provider \in {"jamf", "snipe", "graph"}
  /\ IsFiniteSet(DOMAIN rows) /\ DOMAIN rows \subseteq ever /\ ever \subseteq Keys
  /\ steady \subseteq DOMAIN rows

ReaderShape ==
  /\ pc = "reading" => listings \in Remaining(provider)
  /\ total \in Nat \cup {Unknown} /\ count \in Nat /\ next \in Keys \cup {NoLink}
  /\ provider # "graph" => seen = {}
  /\ Got \subseteq ever

HistoryShape == came \in BOOLEAN /\ went \in BOOLEAN /\ mixed \in BOOLEAN

\* A listing by offset has the first rows of the list as long as it has not
\* changed.  Once rows only came, or only went, the total tells, and no page is
\* accepted any more.
ByOffset ==
  pc = "reading" /\ provider # "graph" /\ ~mixed =>
    /\ total = Unknown => count = 0 /\ ~came /\ ~went
    /\ total # Unknown =>
         /\ ~came /\ ~went => /\ total = Total
                              /\ \A key \in InListing :
                                   Cardinality(Below(InListing, key)) < count => key \in Got
         /\ came => ~went /\ Total > total
         /\ went => ~came /\ Total < total

\* A listing by link has all rows up to the link.
ByLink ==
  pc = "reading" /\ provider = "graph" =>
    \A key \in steady : key <= next => key \in Got

\* A row that stays is in a part that is still to be listed, or has been read.
Covered ==
  pc = "reading" /\ (provider = "graph" \/ ~mixed) =>
    \A key \in steady : rows[key] \in PartsIn(listings) \/ key \in Got

Outcome ==
  /\ NothingMissed
  /\ pc = "done" /\ provider = "snipe" => ~Clash(Got)
  /\ pc = "duplicated" => Clash(Got)

Shapes == ServerShape /\ ReaderShape /\ HistoryShape

IInv == Shapes /\ ByOffset /\ ByLink /\ Covered /\ Outcome

LEMMA ListIsFinite ==
  ASSUME ServerShape
  PROVE  InListing \subseteq Nat /\ IsFiniteSet(InListing) /\ Total \in Nat
<1>1. InListing \subseteq DOMAIN rows /\ DOMAIN rows \subseteq Nat
  BY RowAssumption DEF ServerShape, InListing
<1>2. IsFiniteSet(InListing)
  BY <1>1, FS_Subset DEF ServerShape
<1>3. QED
  BY <1>1, <1>2, FS_CardinalityType DEF Total

\* What is listed first, and what is left when that listing has ended.
Order(list, first, rest) ==
  /\ Head(list) = first /\ Tail(list) = rest
  /\ PartsIn(list) = {first} \cup PartsIn(rest)

LEMMA NoParts == PartsIn(<<>>) = {}
BY DEF PartsIn

LEMMA OnePart ==
  ASSUME NEW a
  PROVE  PartsIn(<<a>>) = {a} /\ Order(<<a>>, a, <<>>) /\ <<a>> # <<>>
<1>1. DOMAIN <<a>> = {1} /\ <<a>>[1] = a
  OBVIOUS
<1>2. PartsIn(<<a>>) = {a}
  BY <1>1 DEF PartsIn
<1>3. Head(<<a>>) = a /\ Tail(<<a>>) = <<>>
  OBVIOUS
<1>4. QED
  BY <1>2, <1>3, NoParts DEF Order

LEMMA TwoParts ==
  ASSUME NEW a, NEW b
  PROVE  PartsIn(<<a, b>>) = {a, b} /\ Order(<<a, b>>, a, <<b>>) /\ <<a, b>> # <<>>
<1>1. DOMAIN <<a, b>> = {1, 2} /\ <<a, b>>[1] = a /\ <<a, b>>[2] = b
  OBVIOUS
<1>2. PartsIn(<<a, b>>) = {a, b}
  BY <1>1 DEF PartsIn
<1>3. Head(<<a, b>>) = a /\ Tail(<<a, b>>) = <<b>>
  OBVIOUS
<1>4. PartsIn(<<b>>) = {b}
  BY OnePart
<1>5. QED
  BY <1>2, <1>3, <1>4 DEF Order

LEMMA ThreeParts ==
  ASSUME NEW a, NEW b, NEW c
  PROVE  PartsIn(<<a, b, c>>) = {a, b, c} /\ Order(<<a, b, c>>, a, <<b, c>>)
<1>1. DOMAIN <<a, b, c>> = {1, 2, 3} /\ <<a, b, c>>[1] = a /\ <<a, b, c>>[2] = b /\ <<a, b, c>>[3] = c
  OBVIOUS
<1>2. PartsIn(<<a, b, c>>) = {a, b, c}
  BY <1>1 DEF PartsIn
<1>3. Head(<<a, b, c>>) = a /\ Tail(<<a, b, c>>) = <<b, c>>
  OBVIOUS
<1>4. PartsIn(<<b, c>>) = {b, c}
  BY TwoParts
<1>5. QED
  BY <1>2, <1>3, <1>4 DEF Order

\* With one listing ended, the others are left; Snipe's assets in use are listed
\* before the archived ones.
LEMMA OneListingLess ==
  ASSUME pc = "reading", ReaderShape, provider \in {"jamf", "snipe", "graph"}
  PROVE  /\ PartsIn(listings) = {Here} \cup PartsIn(Tail(listings))
         /\ Tail(listings) # <<>> => Tail(listings) \in Remaining(provider)
         /\ Tail(listings) = <<>> => PartsIn(listings) = {Here}
         /\ provider = "snipe" /\ "in_use" \in PartsIn(listings) => Archives \subseteq PartsIn(listings)
         /\ provider = "graph" => listings = <<"managed">> /\ Here = "managed" /\ Tail(listings) = <<>>
<1>1. listings \in Remaining(provider) /\ PartsIn(<<>>) = {}
  BY NoParts DEF ReaderShape
<1>2. CASE provider = "jamf"
  <2>1. \/ Order(listings, "computers", <<"mobile">>)
        \/ Order(listings, "mobile", <<>>)
    BY <1>1, <1>2, OnePart, TwoParts DEF Remaining
  <2>2. <<"mobile">> \in Remaining(provider) /\ <<"mobile">> # <<>>
    BY <1>2, OnePart DEF Remaining
  <2>3. provider # "snipe" /\ provider # "graph"
    BY <1>2
  <2>4. CASE Order(listings, "computers", <<"mobile">>)
    BY <2>2, <2>3, <2>4 DEF Order, Here
  <2>5. CASE Order(listings, "mobile", <<>>)
    BY <1>1, <2>3, <2>5 DEF Order, Here
  <2>6. QED
    BY <2>1, <2>4, <2>5
<1>3. CASE provider = "snipe"
  <2> DEFINE ab == <<"archive_a", "archive_b">>
             ba == <<"archive_b", "archive_a">>
             as == <<"archive_a">>
             bs == <<"archive_b">>
  <2>1. /\ Order(<<"in_use", "archive_a", "archive_b">>, "in_use", ab)
        /\ Order(<<"in_use", "archive_b", "archive_a">>, "in_use", ba)
        /\ Order(ab, "archive_a", bs) /\ Order(ba, "archive_b", as)
        /\ Order(as, "archive_a", <<>>) /\ Order(bs, "archive_b", <<>>)
    BY OnePart, TwoParts, ThreeParts
  <2>2. /\ PartsIn(ab) = Archives /\ PartsIn(ba) = Archives
        /\ PartsIn(as) = {"archive_a"} /\ PartsIn(bs) = {"archive_b"}
    BY OnePart, TwoParts DEF Archives
  <2>3. ab # <<>> /\ ba # <<>> /\ as # <<>> /\ bs # <<>>
    BY OnePart, TwoParts
  <2>4. ab \in Remaining("snipe") /\ ba \in Remaining("snipe") /\ as \in Remaining("snipe") /\ bs \in Remaining("snipe")
    BY DEF Remaining
  <2>5. \/ Order(listings, "in_use", ab) \/ Order(listings, "in_use", ba)
        \/ Order(listings, "archive_a", bs) \/ Order(listings, "archive_b", as)
        \/ Order(listings, "archive_a", <<>>) \/ Order(listings, "archive_b", <<>>)
    BY <1>1, <1>3, <2>1 DEF Remaining
  <2> HIDE DEF ab, ba, as, bs
  <2>6. QED
    BY <1>1, <1>3, <2>2, <2>3, <2>4, <2>5 DEF Order, Here
<1>4. CASE provider = "graph"
  <2>1. listings = <<"managed">>
    BY <1>1, <1>4 DEF Remaining
  <2>2. Order(listings, "managed", <<>>)
    BY <2>1, OnePart
  <2>3. QED
    BY <1>1, <1>4, <2>1, <2>2 DEF Order, Here
<1>5. QED
  BY <1>2, <1>3, <1>4

-----------------------------------------------------------------------------
(* The collection changes.                                                 *)

Joins(key)  == key \notin InListing /\ InListing' = InListing \cup {key}
Leaves(key) == key \in InListing /\ InListing' = InListing \ {key}

\* The total tells that rows came, or that rows went.
LEMMA TotalTells ==
  ASSUME Shapes, ByOffset, pc = "reading",
         UNCHANGED <<provider, pc, listings, total, count, seen, got>>,
         NEW in \in BOOLEAN, NEW out \in BOOLEAN, NEW key, Noted(in, out),
         in => ~out, in => Joins(key), out => Leaves(key), ~in /\ ~out => InListing' = InListing
  PROVE  ByOffset'
<1> SUFFICES ASSUME provider # "graph", ~mixed'
             PROVE  /\ total = Unknown => count = 0 /\ ~came' /\ ~went'
                    /\ total # Unknown =>
                       /\ ~came' /\ ~went' => /\ total = Total'
                                              /\ \A k \in InListing' :
                                                   Cardinality(Below(InListing', k)) < count => k \in Got
                       /\ came' => ~went' /\ Total' > total
                       /\ went' => ~came' /\ Total' < total
  BY DEF ByOffset, Got, Below
<1>1. /\ came \in BOOLEAN /\ went \in BOOLEAN /\ mixed \in BOOLEAN /\ seen = {}
      /\ total \in Nat \cup {Unknown} /\ Total \in Nat /\ IsFiniteSet(InListing)
  BY ListIsFinite DEF Shapes, HistoryShape, ReaderShape
<1> DEFINE begun == total # Unknown
<1>2. /\ came' = (came \/ (begun /\ in)) /\ went' = (went \/ (begun /\ out))
      /\ mixed' = (mixed \/ (came' /\ went'))
  BY <1>1 DEF Noted
<1>3. ~mixed /\ ~(came' /\ went')
  BY <1>2
<1>4. CASE total = Unknown
  BY <1>2, <1>3, <1>4 DEF ByOffset
<1>5. CASE total # Unknown
  <2>1. /\ came' = (came \/ in) /\ went' = (went \/ out)
        /\ ~came /\ ~went => /\ total = Total
                             /\ \A k \in InListing : Cardinality(Below(InListing, k)) < count => k \in Got
        /\ came => ~went /\ Total > total
        /\ went => ~came /\ Total < total
    BY <1>2, <1>3, <1>5 DEF ByOffset
  <2>2. total \in Nat
    BY <1>1, <1>5
  <2>3. CASE in
    <3>1. Total' = Total + 1
      BY <1>1, <2>3, FS_AddElement DEF Joins, Total
    <3>2. came' /\ ~went' /\ ~went
      BY <1>3, <2>1, <2>3
    <3>3. Total >= total
      BY <1>1, <2>1, <2>2, <3>2
    <3>4. QED
      BY <1>1, <1>5, <2>2, <3>1, <3>2, <3>3
  <2>4. CASE out
    <3>1. Total' = Total - 1
      BY <1>1, <2>4, FS_RemoveElement DEF Leaves, Total
    <3>2. went' /\ ~came' /\ ~came
      BY <1>3, <2>1, <2>4
    <3>3. Total <= total
      BY <1>1, <2>1, <2>2, <3>2
    <3>4. QED
      BY <1>1, <1>5, <2>2, <3>1, <3>2, <3>3
  <2>5. CASE ~in /\ ~out
    <3>1. InListing' = InListing /\ Total' = Total
      BY <2>5 DEF Total
    <3>2. came' = came /\ went' = went
      BY <1>1, <2>1, <2>5
    <3>3. QED
      BY <1>5, <2>1, <3>1, <3>2
  <2>6. QED
    BY <2>3, <2>4, <2>5
<1>6. QED
  BY <1>4, <1>5

LEMMA NotedShape ==
  ASSUME HistoryShape, NEW in \in BOOLEAN, NEW out \in BOOLEAN, Noted(in, out)
  PROVE  HistoryShape' /\ (mixed => mixed')
BY DEF HistoryShape, Noted

LEMMA AddKeeps ==
  ASSUME IInv, NEW key \in Keys, NEW part, Add(key, part)
  PROVE  IInv'
<1>1. /\ pc = "reading" /\ key \notin ever /\ ever' = ever \cup {key}
      /\ rows' = [other \in DOMAIN rows \cup {key} |-> IF other = key THEN part ELSE rows[other]]
      /\ UNCHANGED <<provider, serial, pc, listings, total, count, next, seen, got, remained, steady>>
      /\ Noted(part = Here, FALSE)
  BY DEF Add, Changing, reader, listing
<1>2. Shapes /\ ByOffset /\ ByLink /\ Covered
  BY DEF IInv
<1>3. DOMAIN rows' = DOMAIN rows \cup {key} /\ key \notin DOMAIN rows /\ steady \subseteq DOMAIN rows
  BY <1>1, <1>2 DEF Shapes, ServerShape
<1>4. \A other \in DOMAIN rows : rows'[other] = rows[other]
  BY <1>1, <1>3
<1>5. rows'[key] = part /\ Here' = Here
  BY <1>1 DEF Here
<1>6. ServerShape'
  <2>1. IsFiniteSet(DOMAIN rows')
    BY <1>2, <1>3, FS_AddElement DEF Shapes, ServerShape
  <2>2. QED
    BY <1>1, <1>2, <1>3, <2>1 DEF Shapes, ServerShape
<1>7. HistoryShape' /\ (mixed => mixed')
  BY <1>1, <1>2, NotedShape DEF Shapes
<1>8. ReaderShape'
  BY <1>1, <1>2 DEF Shapes, ReaderShape, Got
<1>9. ByOffset'
  <2>1. part = Here => Joins(key)
    BY <1>3, <1>4, <1>5 DEF Joins, InListing
  <2>2. part # Here => InListing' = InListing
    BY <1>3, <1>4, <1>5 DEF InListing
  <2>3. QED
    BY <1>1, <1>2, <2>1, <2>2, TotalTells
<1>10. ByLink'
  BY <1>1, <1>2 DEF ByLink, Got
<1>11. Covered'
  BY <1>1, <1>2, <1>3, <1>4, <1>7 DEF Covered, Got
<1>12. Outcome'
  BY <1>1 DEF Outcome, NothingMissed
<1>13. QED
  BY <1>6, <1>7, <1>8, <1>9, <1>10, <1>11, <1>12 DEF IInv, Shapes

LEMMA RemoveKeeps ==
  ASSUME IInv, NEW key, Remove(key)
  PROVE  IInv'
<1>1. /\ pc = "reading" /\ key \in DOMAIN rows
      /\ rows' = [other \in DOMAIN rows \ {key} |-> rows[other]] /\ steady' = steady \ {key}
      /\ UNCHANGED <<provider, serial, pc, listings, total, count, next, seen, got, ever>>
      /\ Noted(FALSE, rows[key] = Here)
  BY DEF Remove, Changing, reader, listing, Restrict
<1>2. Shapes /\ ByOffset /\ ByLink /\ Covered
  BY DEF IInv
<1>3. DOMAIN rows' = DOMAIN rows \ {key}
  BY <1>1
<1>4. \A other \in DOMAIN rows' : rows'[other] = rows[other]
  BY <1>1
<1>5. Here' = Here
  BY <1>1 DEF Here
<1>6. ServerShape'
  <2>1. IsFiniteSet(DOMAIN rows')
    BY <1>2, <1>3, FS_RemoveElement DEF Shapes, ServerShape
  <2>2. QED
    BY <1>1, <1>2, <1>3, <2>1 DEF Shapes, ServerShape
<1>7. HistoryShape' /\ (mixed => mixed')
  BY <1>1, <1>2, NotedShape DEF Shapes
<1>8. ReaderShape'
  BY <1>1, <1>2 DEF Shapes, ReaderShape, Got
<1>9. ByOffset'
  <2>1. rows[key] = Here => Leaves(key)
    BY <1>1, <1>3, <1>4, <1>5 DEF Leaves, InListing
  <2>2. rows[key] # Here => InListing' = InListing
    BY <1>3, <1>4, <1>5 DEF InListing
  <2>3. QED
    BY <1>1, <1>2, <2>1, <2>2, TotalTells
<1>10. ByLink'
  BY <1>1, <1>2 DEF ByLink, Got
<1>11. Covered'
  <2>1. steady' \subseteq DOMAIN rows'
    BY <1>6 DEF ServerShape
  <2>2. QED
    BY <1>1, <1>2, <1>4, <1>7, <2>1 DEF Covered, Got
<1>12. Outcome'
  BY <1>1 DEF Outcome, NothingMissed
<1>13. QED
  BY <1>6, <1>7, <1>8, <1>9, <1>10, <1>11, <1>12 DEF IInv, Shapes

\* An asset only leaves the parts still to be listed with a move from one of them
\* to an archive, and the archives are listed last.
LEMMA MoveKeeps ==
  ASSUME IInv, NEW key, NEW part, Move(key, part)
  PROVE  IInv'
<1>1. /\ pc = "reading" /\ provider = "snipe" /\ key \in DOMAIN rows /\ rows[key] # part
      /\ rows' = [rows EXCEPT ![key] = part]
      /\ steady' = IF rows[key] = "in_use" /\ part \in Archives THEN steady ELSE steady \ {key}
      /\ UNCHANGED <<provider, serial, pc, listings, total, count, next, seen, got, ever>>
      /\ Noted(part = Here, rows[key] = Here)
  BY DEF Move, Changing, reader, listing
<1>2. Shapes /\ ByOffset /\ ByLink /\ Covered
  BY DEF IInv
<1>3. DOMAIN rows' = DOMAIN rows /\ rows'[key] = part
  BY <1>1
<1>4. \A other \in DOMAIN rows : other # key => rows'[other] = rows[other]
  BY <1>1
<1>5. Here' = Here
  BY <1>1 DEF Here
<1>6. steady' \subseteq steady /\ (key \in steady' => rows[key] = "in_use" /\ part \in Archives)
  BY <1>1
<1>7. ServerShape'
  BY <1>1, <1>2, <1>3, <1>6 DEF Shapes, ServerShape
<1>8. HistoryShape' /\ (mixed => mixed')
  BY <1>1, <1>2, NotedShape DEF Shapes
<1>9. ReaderShape'
  BY <1>1, <1>2 DEF Shapes, ReaderShape, Got
<1>10. ByOffset'
  <2>1. part = Here => Joins(key)
    BY <1>1, <1>3, <1>4, <1>5 DEF Joins, InListing
  <2>2. rows[key] = Here => Leaves(key)
    BY <1>1, <1>3, <1>4, <1>5 DEF Leaves, InListing
  <2>3. part # Here /\ rows[key] # Here => InListing' = InListing
    BY <1>1, <1>3, <1>4, <1>5 DEF InListing
  <2>4. part = Here => rows[key] # Here
    BY <1>1
  <2>5. QED
    BY <1>1, <1>2, <2>1, <2>2, <2>3, <2>4, TotalTells
<1>11. ByLink'
  BY <1>1 DEF ByLink
<1>12. Covered'
  <2> SUFFICES ASSUME ~mixed', NEW other \in steady'
               PROVE  rows'[other] \in PartsIn(listings) \/ other \in Got
    BY <1>1 DEF Covered, Got, PartsIn
  <2>1. rows[other] \in PartsIn(listings) \/ other \in Got
    BY <1>1, <1>2, <1>6, <1>8 DEF Covered
  <2>2. CASE other = key
    <3>1. "in_use" \in PartsIn(listings) => Archives \subseteq PartsIn(listings)
      BY <1>1, <1>2, OneListingLess DEF Shapes
    <3>2. QED
      BY <1>3, <1>6, <2>1, <2>2, <3>1
  <2>3. CASE other # key
    <3>1. other \in DOMAIN rows
      BY <1>2, <1>6 DEF Shapes, ServerShape
    <3>2. QED
      BY <1>4, <2>1, <2>3, <3>1
  <2>4. QED
    BY <2>2, <2>3
<1>13. Outcome'
  BY <1>1 DEF Outcome, NothingMissed
<1>14. QED
  BY <1>7, <1>8, <1>9, <1>10, <1>11, <1>12, <1>13 DEF IInv, Shapes

-----------------------------------------------------------------------------
(* Pages arrive.                                                           *)

LEMMA PageAdds ==
  ASSUME NEW keys, got' = got (+) SetToBag(keys)
  PROVE  Got' = Got \cup keys
BY DEF Got, BagToSet, SetToBag, (+)

\* The last of the listing: what follows goes through the other listings, or
\* holds of what was read.
LEMMA EndKeeps ==
  ASSUME IInv, pc = "reading", provider # "graph" /\ ~mixed => InListing \subseteq Got',
         provider = "graph" => steady \subseteq Got',
         Got \subseteq Got', Got' \subseteq ever, EndListing(got'),
         UNCHANGED <<server, mixed, steady, ever>>
  PROVE  IInv'
<1>1. /\ listings' = Tail(listings) /\ total' = Unknown /\ count' = 0 /\ next' = NoLink /\ seen' = {}
      /\ came' = FALSE /\ went' = FALSE
      /\ pc' = IF Tail(listings) # <<>> THEN "reading"
               ELSE IF Duplicated(got') THEN "duplicated" ELSE "done"
      /\ UNCHANGED <<provider, serial, rows, mixed, steady, ever>>
  BY DEF EndListing, server
<1>2. Shapes /\ Covered
  BY DEF IInv
<1>3. /\ PartsIn(listings) = {Here} \cup PartsIn(Tail(listings))
      /\ Tail(listings) # <<>> => Tail(listings) \in Remaining(provider)
      /\ Tail(listings) = <<>> => PartsIn(listings) = {Here}
      /\ provider = "graph" => Tail(listings) = <<>>
  BY <1>2, OneListingLess DEF Shapes, ServerShape
<1>4. ServerShape' /\ HistoryShape'
  BY <1>1, <1>2 DEF Shapes, ServerShape, HistoryShape
<1>5. ReaderShape'
  BY <1>1, <1>3 DEF ReaderShape
<1>6. ByOffset'
  BY <1>1 DEF ByOffset
<1>7. ByLink'
  BY <1>1, <1>3 DEF ByLink
<1>8. ASSUME provider = "graph" \/ ~mixed, NEW key \in steady
      PROVE  rows[key] \in PartsIn(Tail(listings)) \/ key \in Got'
  <2>1. CASE provider = "graph"
    BY <2>1
  <2>2. CASE provider # "graph"
    <3>1. rows[key] \in PartsIn(listings) \/ key \in Got
      BY <1>2, <1>8 DEF Covered
    <3>2. rows[key] = Here => key \in InListing
      BY <1>2 DEF Shapes, ServerShape, InListing
    <3>3. QED
      BY <1>3, <1>8, <2>2, <3>1, <3>2
  <2>3. QED
    BY <2>1, <2>2
<1>9. Covered'
  BY <1>1, <1>8 DEF Covered, PartsIn
<1>10. Outcome'
  <2>1. PartsIn(<<>>) = {}
    BY NoParts
  <2>2. ASSUME pc' = "done", provider = "graph" \/ ~mixed PROVE steady \subseteq Got'
    <3>1. Tail(listings) = <<>>
      BY <1>1, <2>2
    <3>2. QED
      BY <1>8, <2>1, <2>2, <3>1
  <2>3. Duplicated(got') <=> provider = "snipe" /\ Clash(Got)'
    BY <1>1 DEF Duplicated, Clash, Got
  <2>4. NothingMissed'
    BY <1>1, <2>2 DEF NothingMissed, Got
  <2>5. QED
    BY <1>1, <2>3, <2>4 DEF Outcome
<1>11. QED
  BY <1>4, <1>5, <1>6, <1>7, <1>9, <1>10 DEF IInv, Shapes

LEMMA ReadPageKeeps ==
  ASSUME IInv, pc = "reading", provider # "graph", NEW keys \in PagesAt(Offset), ReadPage(keys)
  PROVE  IInv'
<1>1. Shapes /\ ByOffset /\ ByLink /\ Covered
  BY DEF IInv
<1>2. InListing \subseteq Nat /\ IsFiniteSet(InListing) /\ Total \in Nat
  BY <1>1, ListIsFinite DEF Shapes
<1>3. /\ got' = got (+) SetToBag(keys)
      /\ Valid(keys)
      /\ IF Complete(keys)
         THEN EndListing(got')
         ELSE /\ total' = Total /\ count' = count + Cardinality(keys)
              /\ UNCHANGED <<pc, listings, next, seen, came, went>>
      /\ UNCHANGED <<server, mixed, remained, steady, ever>>
  BY DEF ReadPage
<1>4. PICK size \in 0..PageSize : keys = Slice(InListing, count, size)
  <2>1. 0 \in 0..PageSize /\ PageSize \in 0..PageSize
    BY SizeAssumption
  <2>2. QED
    BY <2>1 DEF PagesAt, Offset, Position, Slice, Below
<1>5. count \in Nat /\ size \in Nat
  BY <1>1, <1>4, SizeAssumption DEF Shapes, ReaderShape
<1>6. Cardinality(keys) \in Nat /\ keys \subseteq InListing
  <2>1. Cardinality(Slice(InListing, count, size)) \in Nat
    BY <1>2, <1>5, PageFits
  <2>2. Slice(InListing, count, size) \subseteq InListing
    BY DEF Slice
  <2>3. QED
    BY <1>4, <2>1, <2>2
<1>7. Got' = Got \cup keys
  BY <1>3, PageAdds
<1>8. keys \subseteq ever /\ Got' \subseteq ever
  BY <1>1, <1>6, <1>7 DEF Shapes, ServerShape, ReaderShape, InListing
<1>9. ASSUME ~mixed
      PROVE  /\ ~came /\ ~went
             /\ \A key \in InListing :
                  Cardinality(Below(InListing, key)) < count + Cardinality(keys) => key \in Got'
  <2>1. /\ ~came /\ ~went
        /\ \A key \in InListing : Cardinality(Below(InListing, key)) < count => key \in Got
    <3>1. CASE total = Unknown
      <4>1. count = 0 /\ ~came /\ ~went
        BY <1>1, <1>9, <3>1 DEF ByOffset
      <4>2. \A key \in InListing : Cardinality(Below(InListing, key)) \in Nat
        BY <1>2, PlacesDiffer
      <4>3. QED
        BY <4>1, <4>2
    <3>2. CASE total # Unknown
      <4>1. total = Total
        BY <1>3, <3>2 DEF Valid
      <4>2. ~came /\ ~went
        BY <1>1, <1>2, <1>9, <3>2, <4>1 DEF ByOffset, Shapes, HistoryShape
      <4>3. QED
        BY <1>1, <1>9, <3>2, <4>2 DEF ByOffset
    <3>3. QED
      BY <3>1, <3>2
  <2>2. \A key \in InListing : Cardinality(Below(InListing, key)) < count + Cardinality(keys) =>
          Cardinality(Below(InListing, key)) < count \/ key \in keys
    BY <1>2, <1>4, <1>5, PageCovers
  <2>3. QED
    BY <1>7, <2>1, <2>2
<1>10. CASE Complete(keys)
  <2>1. ~mixed => InListing \subseteq Got'
    <3> SUFFICES ASSUME ~mixed, NEW key \in InListing PROVE key \in Got'
      OBVIOUS
    <3>1. Cardinality(Below(InListing, key)) < Total
      BY <1>2, PlacesDiffer DEF Total
    <3>2. count + Cardinality(keys) = Total
      BY <1>10 DEF Complete
    <3>3. QED
      BY <1>9, <3>1, <3>2
  <2>2. EndListing(got')
    BY <1>3, <1>10
  <2>3. Got \subseteq Got'
    BY <1>7
  <2>4. QED
    BY <1>3, <1>8, <2>1, <2>2, <2>3, EndKeeps
<1>11. CASE ~Complete(keys)
  <2>1. /\ total' = Total /\ count' = count + Cardinality(keys)
        /\ UNCHANGED <<pc, listings, next, seen, came, went, provider, serial, rows, mixed, steady, ever>>
    BY <1>3, <1>11 DEF server
  <2>2. ServerShape' /\ HistoryShape'
    BY <1>1, <2>1 DEF Shapes, ServerShape, HistoryShape
  <2>3. ReaderShape'
    BY <1>1, <1>2, <1>5, <1>6, <1>8, <2>1 DEF Shapes, ReaderShape
  <2>4. InListing' = InListing /\ Total' = Total
    BY <2>1 DEF InListing, Here, Total
  <2>5. ByOffset'
    <3> SUFFICES ASSUME ~mixed
                 PROVE  /\ Total # Unknown /\ ~came /\ ~went
                        /\ \A key \in InListing :
                             Cardinality(Below(InListing, key)) < count' => key \in Got'
      BY <2>1, <2>4 DEF ByOffset, Below
    <3>1. QED
      BY <1>2, <1>9, <2>1 DEF Unknown
  <2>6. ByLink'
    BY <2>1 DEF ByLink
  <2>7. Covered'
    BY <1>1, <1>7, <2>1 DEF Covered, PartsIn
  <2>8. Outcome'
    BY <2>1 DEF Outcome, NothingMissed
  <2>9. QED
    BY <2>2, <2>3, <2>5, <2>6, <2>7, <2>8 DEF IInv, Shapes
<1>12. QED
  BY <1>10, <1>11

LEMMA FollowLinkKeeps ==
  ASSUME IInv, pc = "reading", provider = "graph",
         NEW keys \in PagesBehind(next), NEW link \in LinksAfter(keys), FollowLink(keys, link)
  PROVE  IInv'
<1>1. Shapes /\ ByOffset /\ ByLink /\ Covered
  BY DEF IInv
<1>2. InListing \subseteq Nat /\ IsFiniteSet(InListing)
  BY <1>1, ListIsFinite DEF Shapes
<1>3. /\ link \notin seen /\ got' = got (+) SetToBag(keys)
      /\ IF link = NoLink
         THEN EndListing(got')
         ELSE /\ next' = link /\ seen' = seen \cup {link}
              /\ UNCHANGED <<pc, listings, total, count, came, went>>
      /\ UNCHANGED <<server, mixed, remained, steady, ever>>
  BY DEF FollowLink, Repeated
<1> DEFINE ahead == {key \in InListing : key > next}
<1>4. PICK size \in 1..PageSize : keys = FirstRows(ahead, size)
  BY DEF PagesBehind, UpTo, FirstRows
<1>5. size \in Nat \ {0} /\ keys \subseteq ahead /\ ahead \subseteq InListing
  BY <1>4, SizeAssumption DEF FirstRows
<1>6. Got' = Got \cup keys
  BY <1>3, PageAdds
<1>7. keys \subseteq ever /\ Got' \subseteq ever
  BY <1>1, <1>5, <1>6 DEF Shapes, ServerShape, ReaderShape, InListing
<1>8. steady \subseteq InListing \cup Got
  <2>1. PartsIn(listings) = {Here}
    BY <1>1, OneListingLess DEF Shapes
  <2>2. QED
    BY <1>1, <2>1 DEF Covered, Shapes, ServerShape, InListing
<1>9. next \in Int /\ \A key \in steady : key <= next => key \in Got
  BY <1>1, RowAssumption DEF ByLink, Shapes, ReaderShape, NoLink
<1>10. \/ ahead \subseteq keys /\ link = NoLink
       \/ link \in keys /\ \A key \in ahead : key <= link => key \in keys
  <2> DEFINE rest == ahead \ keys
  <2>1. link \in IF rest = {} THEN {NoLink}
                 ELSE {CHOOSE key \in keys : \A other \in keys : key >= other}
    BY <1>3 DEF LinksAfter
  <2>2. CASE rest = {}
    BY <2>1, <2>2
  <2>3. CASE rest # {}
    <3>1. ahead # {} /\ ahead \subseteq Nat /\ IsFiniteSet(ahead)
      BY <1>2, <1>5, <2>3, FS_Subset
    <3> HIDE DEF ahead
    <3>2. PICK m \in keys : /\ \A key \in keys : m >= key
                            /\ \A key \in ahead : key <= m => key \in keys
      BY <1>4, <1>5, <3>1, FirstOnes
    <3>3. link \in keys /\ \A other \in keys : link >= other
      BY <2>1, <2>3, <3>2
    <3>4. link = m
      BY <1>5, <3>1, <3>2, <3>3
    <3>5. QED
      BY <3>2, <3>4
  <2>4. QED
    BY <2>2, <2>3
<1>11. CASE link = NoLink
  <2>1. ahead \subseteq keys
    <3>1. NoLink \notin keys
      BY <1>2, <1>5 DEF NoLink
    <3>2. QED
      BY <1>10, <1>11, <3>1
  <2>2. steady \subseteq Got'
    <3> SUFFICES ASSUME NEW key \in steady, key \notin Got PROVE key \in keys
      BY <1>6
    <3>1. key \in InListing /\ ~(key <= next)
      BY <1>8, <1>9
    <3>2. key > next
      BY <1>2, <1>9, <3>1
    <3>3. QED
      BY <2>1, <3>1, <3>2
  <2>3. EndListing(got') /\ Got \subseteq Got'
    BY <1>3, <1>6, <1>11
  <2>4. QED
    BY <1>3, <1>7, <2>2, <2>3, EndKeeps
<1>12. CASE link # NoLink
  <2>1. /\ next' = link /\ seen' = seen \cup {link}
        /\ UNCHANGED <<pc, listings, total, count, came, went, provider, serial, rows, mixed, steady, ever>>
    BY <1>3, <1>12 DEF server
  <2>2. link \in keys /\ \A key \in ahead : key <= link => key \in keys
    BY <1>10, <1>12
  <2>3. ServerShape' /\ HistoryShape'
    BY <1>1, <2>1 DEF Shapes, ServerShape, HistoryShape
  <2>4. ReaderShape'
    <3>1. link \in Keys
      BY <1>1, <1>7, <2>2 DEF Shapes, ServerShape
    <3>2. QED
      BY <1>1, <1>7, <2>1, <3>1 DEF Shapes, ReaderShape
  <2>5. ByOffset'
    BY <2>1 DEF ByOffset
  <2>6. ByLink'
    <3> SUFFICES ASSUME NEW key \in steady, key <= link PROVE key \in Got'
      BY <2>1 DEF ByLink
    <3>1. CASE key \in Got
      BY <1>6, <3>1
    <3>2. CASE key \notin Got
      <4>1. key \in InListing /\ ~(key <= next)
        BY <1>8, <1>9, <3>2
      <4>2. key \in ahead
        BY <1>2, <1>9, <4>1
      <4>3. QED
        BY <1>6, <2>2, <4>2
    <3>3. QED
      BY <3>1, <3>2
  <2>7. Covered'
    BY <1>1, <1>6, <2>1 DEF Covered, PartsIn
  <2>8. Outcome'
    BY <2>1 DEF Outcome, NothingMissed
  <2>9. QED
    BY <2>3, <2>4, <2>5, <2>6, <2>7, <2>8 DEF IInv, Shapes
<1>13. QED
  BY <1>11, <1>12

\* A failed reading yields nothing.
LEMMA FailureKeeps ==
  ASSUME IInv, pc' = "failed", UNCHANGED <<server, listing, got, history>>
  PROVE  IInv'
<1>1. Shapes'
  BY DEF IInv, Shapes, ServerShape, ReaderShape, HistoryShape, Got, server, listing, history, change
<1>2. ByOffset' /\ ByLink' /\ Covered' /\ Outcome'
  BY DEF ByOffset, ByLink, Covered, Outcome, NothingMissed
<1>3. QED
  BY <1>1, <1>2 DEF IInv

LEMMA StutterKeeps ==
  ASSUME IInv, UNCHANGED vars
  PROVE  IInv'
BY DEF IInv, Shapes, ServerShape, ReaderShape, HistoryShape, ByOffset, ByLink, Covered, Outcome,
       NothingMissed, Clash, Got, InListing, Here, Total, PartsIn, Below,
       vars, server, reader, listing, history, change

LEMMA PagingStep == IInv /\ [Next]_vars => IInv'
<1> SUFFICES ASSUME IInv, [Next]_vars PROVE IInv'
  OBVIOUS
<1>1. CASE Answered
  <2>1. ASSUME pc = "reading", provider # "graph", NEW keys \in PagesAt(Offset), ReadPage(keys) \/ Reject(keys)
        PROVE  IInv'
    BY <2>1, ReadPageKeeps, FailureKeeps DEF Reject
  <2>2. ASSUME pc = "reading", provider = "graph", NEW keys \in PagesBehind(next), NEW link \in LinksAfter(keys),
               FollowLink(keys, link) \/ RejectLink(keys, link)
        PROVE  IInv'
    BY <2>2, FollowLinkKeeps, FailureKeeps DEF RejectLink
  <2>3. QED
    BY <1>1, <2>1, <2>2 DEF Answered
<1>2. CASE Fail
  BY <1>2, FailureKeeps DEF Fail
<1>3. CASE Over \/ UNCHANGED vars
  BY <1>3, StutterKeeps DEF Over
<1>4. CASE Change
  BY <1>4, AddKeeps, RemoveKeeps, MoveKeeps DEF Change
<1>5. QED
  BY <1>1, <1>2, <1>3, <1>4 DEF Next

LEMMA PagingInit == Init => IInv
<1> SUFFICES ASSUME Init PROVE IInv
  OBVIOUS
<1>1. /\ provider \in {"jamf", "snipe", "graph"} /\ rows \in [InitRows -> PartsOf(provider) \ {"unlisted"}]
      /\ listings \in Plans(provider) /\ pc = "reading"
      /\ total = Unknown /\ count = 0 /\ next = NoLink /\ seen = {} /\ got = EmptyBag
      /\ came = FALSE /\ went = FALSE /\ mixed = FALSE
      /\ steady = InitRows /\ ever = InitRows
  BY DEF Init
<1>2. Got = {}
  BY <1>1 DEF Got, EmptyBag, BagToSet, SetToBag
<1>3. ServerShape /\ HistoryShape
  BY <1>1, RowAssumption DEF ServerShape, HistoryShape
<1>4. ReaderShape
  <2>1. listings \in Remaining(provider)
    BY <1>1 DEF Plans, Remaining
  <2>2. QED
    BY <1>1, <1>2, <2>1 DEF ReaderShape
<1>5. ByOffset /\ ByLink /\ Outcome
  <2>1. \A key \in steady : ~(key <= next)
    BY <1>1, RowAssumption DEF NoLink
  <2>2. QED
    BY <1>1, <2>1 DEF ByOffset, ByLink, Outcome, NothingMissed
<1>6. Covered
  <2>1. PartsOf(provider) \ {"unlisted"} \subseteq PartsIn(listings)
    <3>1. CASE provider = "jamf"
      <4>1. listings = <<"computers", "mobile">>
        BY <1>1, <3>1 DEF Plans
      <4>2. PartsIn(listings) = {"computers", "mobile"}
        BY <4>1, TwoParts
      <4>3. QED
        BY <3>1, <4>2 DEF PartsOf
    <3>2. CASE provider = "snipe"
      <4>1. \/ listings = <<"in_use", "archive_a", "archive_b">>
            \/ listings = <<"in_use", "archive_b", "archive_a">>
        BY <1>1, <3>2 DEF Plans
      <4>2. /\ PartsIn(<<"in_use", "archive_a", "archive_b">>) = {"in_use", "archive_a", "archive_b"}
            /\ PartsIn(<<"in_use", "archive_b", "archive_a">>) = {"in_use", "archive_b", "archive_a"}
        BY ThreeParts
      <4>3. QED
        BY <3>2, <4>1, <4>2 DEF PartsOf, Archives
    <3>3. CASE provider = "graph"
      <4>1. listings = <<"managed">>
        BY <1>1, <3>3 DEF Plans
      <4>2. PartsIn(listings) = {"managed"}
        BY <4>1, OnePart
      <4>3. QED
        BY <3>3, <4>2 DEF PartsOf
    <3>4. QED
      BY <1>1, <3>1, <3>2, <3>3
  <2>2. QED
    BY <1>1, <2>1 DEF Covered
<1>7. QED
  BY <1>3, <1>4, <1>5, <1>6 DEF IInv, Shapes

-----------------------------------------------------------------------------
(* The theorems.                                                           *)

\* However large the collection, the pages and the changes: a result lacks no row
\* that stayed, unless rows came as well as went while one listing was read.
THEOREM NoRowIsMissed == Spec => []NothingMissed
<1>1. IInv => NothingMissed
  BY DEF IInv, Outcome
<1>2. QED
  BY PagingInit, PagingStep, <1>1, PTL DEF Spec

\* A serial number is only refused when two of the rows there were have it, and
\* two assets that stayed do not pass with the same one.
THEOREM SerialsAreResolved == Spec => []SerialsResolved
<1>1. IInv => SerialsResolved
  <2> SUFFICES ASSUME IInv PROVE SerialsResolved
    OBVIOUS
  <2>1. NothingMissed /\ (pc = "done" /\ provider = "snipe" => ~Clash(Got)) /\ (pc = "duplicated" => Clash(Got))
    BY DEF IInv, Outcome
  <2>2. Got \subseteq ever
    BY DEF IInv, Shapes, ReaderShape
  <2>3. pc = "duplicated" => Clash(ever)
    BY <2>1, <2>2 DEF Clash
  <2>4. ASSUME pc = "done", provider = "snipe", ~mixed PROVE ~Clash(steady)
    <3>1. steady \subseteq Got
      BY <2>1, <2>4 DEF NothingMissed, Got
    <3>2. QED
      BY <2>1, <2>4, <3>1 DEF Clash
  <2>5. QED
    BY <2>3, <2>4 DEF SerialsResolved
<1>2. QED
  BY PagingInit, PagingStep, <1>1, PTL DEF Spec
=============================================================================
