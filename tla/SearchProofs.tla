----------------------------- MODULE SearchProofs -----------------------------
(***************************************************************************)
(* What TLAPS proves of the search box and its two routes, for any rows,    *)
(* mails, queries and page sizes.                                          *)
(***************************************************************************)
EXTENDS Search, FiniteSetTheorems, SequenceTheorems, WellFoundedInduction, TLAPS

-----------------------------------------------------------------------------
(* Pages *)

LEMMA MaxOfOne ==
  ASSUME NEW x \in Int
  PROVE  Max({1, x}) = IF x >= 1 THEN x ELSE 1
<1> DEFINE m == IF x >= 1 THEN x ELSE 1
<1>1. m \in {1, x} /\ \A y \in {1, x} : m >= y
  OBVIOUS
<1>2. \A z \in {1, x} : (\A y \in {1, x} : z >= y) => z = m
  OBVIOUS
<1> QED
  BY <1>1, <1>2 DEF Max

LEMMA MinOfTwo ==
  ASSUME NEW x \in Int, NEW y \in Int
  PROVE  Min({x, y}) = IF x <= y THEN x ELSE y
<1> DEFINE m == IF x <= y THEN x ELSE y
<1>1. m \in {x, y} /\ \A z \in {x, y} : m <= z
  OBVIOUS
<1>2. \A z \in {x, y} : (\A u \in {x, y} : z =< u) => z = m
  OBVIOUS
<1> QED
  BY <1>1, <1>2 DEF Min

\* More rows have no fewer pages.
LEMMA Ceiling ==
  ASSUME NEW n \in Nat \ {0}, NEW a \in Nat, NEW b \in Nat, a <= b
  PROVE  /\ (a + n - 1) \div n \in Nat /\ (b + n - 1) \div n \in Nat
         /\ (a + n - 1) \div n <= (b + n - 1) \div n
<1> DEFINE lo == (a + n - 1) \div n
           hi == (b + n - 1) \div n
<1>1. lo \in Int /\ n * lo <= a + n - 1 /\ a + n - 1 < n * lo + n
  OBVIOUS
<1>2. hi \in Int /\ n * hi <= b + n - 1 /\ b + n - 1 < n * hi + n
  OBVIOUS
<1> HIDE DEF lo, hi
<1>3. ASSUME lo > hi PROVE FALSE
  <2>1. lo - hi - 1 \in Nat
    BY <1>1, <1>2, <1>3
  <2>2. n * (lo - hi - 1) >= 0
    BY <2>1
  <2>3. n * (lo - hi - 1) = n * lo - n * hi - n
    BY <1>1, <1>2
  <2> QED
    BY <1>1, <1>2, <2>2, <2>3
<1>4. ASSUME NEW z \in Int, n * z + n > 0 PROVE z >= 0
  <2>1. CASE z < 0
    <3>1. - 1 - z \in Nat
      BY <2>1
    <3>2. n * (- 1 - z) >= 0
      BY <3>1
    <3>3. n * (- 1 - z) = - n - n * z
      OBVIOUS
    <3>4. n * z \in Int
      OBVIOUS
    <3> QED
      BY <1>4, <3>2, <3>3, <3>4
  <2> QED
    BY <2>1
<1>5. lo >= 0 /\ hi >= 0
  BY <1>1, <1>2, <1>4
<1> QED
  BY <1>1, <1>2, <1>3, <1>5 DEF lo, hi

LEMMA MineSize ==
  ASSUME NEW S \in SUBSET Mine
  PROVE  /\ IsFiniteSet(S) /\ Cardinality(S) \in 0 .. Cardinality(Mine)
         /\ Cardinality(Mine) \in 0 .. Cardinality(Rows) /\ Cardinality(Rows) \in Nat
<1>1. IsFiniteSet(Rows) /\ Mine \subseteq Rows
  BY SearchAssumption DEF Mine
<1>2. IsFiniteSet(Mine) /\ Cardinality(Mine) <= Cardinality(Rows)
  BY <1>1, FS_Subset
<1>3. IsFiniteSet(S) /\ Cardinality(S) <= Cardinality(Mine)
  BY <1>2, FS_Subset
<1>4. /\ Cardinality(S) \in Nat /\ Cardinality(Mine) \in Nat
      /\ Cardinality(Rows) \in Nat
  BY <1>1, <1>2, <1>3, FS_CardinalityType
<1> QED
  BY <1>2, <1>3, <1>4

LEMMA PageCounts ==
  ASSUME NEW a \in Nat
  PROVE  /\ PageCount(a) \in Nat \ {0}
         /\ \A b \in Nat : a <= b => PageCount(a) <= PageCount(b)
<1>1. PageSize \in Nat \ {0}
  BY SearchAssumption
<1>2. ASSUME NEW b \in Nat, a <= b
      PROVE  PageCount(a) \in Nat \ {0} /\ PageCount(a) <= PageCount(b)
  <2> DEFINE lo == (a + PageSize - 1) \div PageSize
             hi == (b + PageSize - 1) \div PageSize
  <2>1. lo \in Nat /\ hi \in Nat /\ lo <= hi
    BY <1>1, <1>2, Ceiling
  <2>2. PageCount(a) = Max({1, lo}) /\ PageCount(b) = Max({1, hi})
    BY DEF PageCount
  <2> HIDE DEF lo, hi
  <2>3. Max({1, lo}) = (IF lo >= 1 THEN lo ELSE 1) /\ Max({1, hi}) = (IF hi >= 1 THEN hi ELSE 1)
    BY <2>1, MaxOfOne
  <2> QED
    BY <2>1, <2>2, <2>3
<1> QED
  BY <1>2

PageNumbers == 1 .. PageCount(Cardinality(Mine))

LEMMA PageNumber ==
  /\ 1 \in PageNumbers /\ PageNumbers \subseteq Nat \ {0}
  /\ Keys = Queries \X PageNumbers
  /\ \A n \in 0 .. Cardinality(Mine) : 1 .. PageCount(n) \subseteq PageNumbers
<1>1. Cardinality(Mine) \in Nat
  BY MineSize
<1>2. PageCount(Cardinality(Mine)) \in Nat \ {0}
  BY <1>1, PageCounts
<1>3. ASSUME NEW n \in 0 .. Cardinality(Mine) PROVE 1 .. PageCount(n) \subseteq PageNumbers
  <2>1. n \in Nat /\ n <= Cardinality(Mine)
    BY <1>1
  <2>2. PageCount(n) \in Nat \ {0} /\ PageCount(n) <= PageCount(Cardinality(Mine))
    BY <1>1, <2>1, PageCounts
  <2> QED
    BY <1>2, <2>2 DEF PageNumbers
<1> QED
  BY <1>2, <1>3 DEF PageNumbers, Keys

\* Prev and Next stay among them.
LEMMA PageBefore ==
  ASSUME NEW p \in PageNumbers, p > 1
  PROVE  p - 1 \in PageNumbers
<1>1. PageCount(Cardinality(Mine)) \in Nat
  BY MineSize, PageCounts
<1> QED
  BY <1>1 DEF PageNumbers

LEMMA PageAfter ==
  ASSUME NEW n \in 0 .. Cardinality(Mine), NEW p \in PageNumbers, p < PageCount(n)
  PROVE  p + 1 \in PageNumbers
<1>1. PageCount(n) \in Nat
  BY MineSize, PageCounts
<1>2. p \in Nat
  BY PageNumber
<1>3. p + 1 \in 1 .. PageCount(n)
  BY <1>1, <1>2
<1> QED
  BY <1>3, PageNumber

\* A page asked for by the dashboard is cut by its page size.
LEMMA ClampIs ==
  ASSUME NEW p \in Nat \ {0}
  PROVE  /\ Clamp(p, PageSize) = [offset |-> (p - 1) * PageSize, limit |-> PageSize]
         /\ (p - 1) * PageSize \in Nat
<1>1. PageSize \in Nat \ {0} /\ MaxPageSize \in Nat /\ PageSize <= MaxPageSize
  BY SearchAssumption
<1>2. Max({1, PageSize}) = PageSize /\ Max({1, p}) = p
  BY <1>1, MaxOfOne
<1>3. Min({MaxPageSize, PageSize}) = PageSize
  BY <1>1, MinOfTwo
<1>4. (p - 1) * PageSize \in Nat
  BY <1>1
<1> QED
  BY <1>2, <1>3, <1>4 DEF Clamp

\* A page of an order of some of the user's rows holds some of them, and no more than
\* fit a page.
LEMMA PageRows ==
  ASSUME NEW S \in SUBSET Mine, NEW s \in SetToSeqs(S), NEW p \in PageNumbers
  PROVE  /\ PageOf(s, p) \in Seq(Rows) /\ Len(PageOf(s, p)) <= PageSize
         /\ ToSet(PageOf(s, p)) \subseteq Mine
         /\ Len(s) = Cardinality(S)
<1> DEFINE n == Cardinality(S)
<1>1. n \in Nat /\ s \in [1 .. n -> S] /\ Mine \subseteq Rows
  <2>1. n \in Nat
    BY MineSize
  <2>2. s \in [1 .. n -> S]
    BY DEF SetToSeqs
  <2>3. Mine \subseteq Rows
    BY DEF Mine
  <2> QED
    BY <2>1, <2>2, <2>3
<1>2. s \in Seq(S) /\ Len(s) = n
  <2> HIDE DEF n
  <2> QED
    BY <1>1
<1>3. p \in Nat \ {0} /\ PageSize \in Nat \ {0}
  BY PageNumber, SearchAssumption
<1> DEFINE m == (p - 1) * PageSize
           l == Min({m + PageSize, Len(s)})
<1>4. m \in Nat /\ PageOf(s, p) = SubSeq(s, m + 1, l)
  <2>1. m \in Nat /\ Clamp(p, PageSize) = [offset |-> m, limit |-> PageSize]
    BY <1>3, ClampIs
  <2> HIDE DEF m
  <2>2. Clamp(p, PageSize).offset = m /\ Clamp(p, PageSize).limit = PageSize
    BY <2>1
  <2> QED
    BY <2>1, <2>2 DEF PageOf
<1> HIDE DEF m
<1>5. l \in Int /\ l <= m + PageSize /\ l <= n
  <2> DEFINE x == m + PageSize
             y == Len(s)
  <2>1. x \in Int /\ y \in Int
    BY <1>1, <1>2, <1>3, <1>4
  <2> HIDE DEF x, y
  <2>2. Min({x, y}) = IF x <= y THEN x ELSE y
    BY <2>1, MinOfTwo
  <2>3. l = Min({x, y})
    BY DEF x, y
  <2>4. l \in Int /\ l <= x /\ l <= y
    BY <2>1, <2>2, <2>3
  <2> QED
    BY <1>2, <2>4 DEF x, y
<1> HIDE DEF l, n
<1>6. \A i \in m + 1 .. l : s[i] \in S
  BY <1>1, <1>2, <1>4, <1>5, ElementOfSeq
<1>7. /\ SubSeq(s, m + 1, l) \in Seq(S)
      /\ Len(SubSeq(s, m + 1, l)) = IF m + 1 <= l THEN l - (m + 1) + 1 ELSE 0
  BY <1>4, <1>5, <1>6, SubSeqProperties
<1> DEFINE t == PageOf(s, p)
<1>8. t \in Seq(S) /\ Len(t) <= PageSize
  BY <1>3, <1>4, <1>5, <1>7
<1> HIDE DEF t
<1>9. DOMAIN t = 1 .. Len(t) /\ \A i \in 1 .. Len(t) : t[i] \in S
  BY <1>8, LenProperties, ElementOfSeq
<1>10. ToSet(t) \subseteq Mine
  BY <1>9 DEF ToSet
<1>11. t \in Seq(Rows)
  BY <1>1, <1>8, <1>9
<1> QED
  BY <1>2, <1>8, <1>10, <1>11 DEF t, n

-----------------------------------------------------------------------------
(* Answers *)

\* What either path can answer for a page.
OwnAnswer(d) == ToSet(d.rows) \subseteq Mine /\ d.total <= Cardinality(Mine)

LEMMA NoAnswer ==
  /\ NoData \in Answers /\ Len(NoData.rows) = 0 /\ OwnAnswer(NoData)
  /\ Idle \in Fetches /\ Idle.data = NoData
  /\ \A k \in Keys : Ask(k) \in Fetches /\ Ask(k).data = NoData
<1>1. 0 \in 0 .. Cardinality(Rows) /\ << >> \in Seq(Rows) /\ Len(<< >>) = 0
      /\ 0 <= Cardinality(Mine)
  BY MineSize, EmptySeq
<1>2. ToSet(<< >>) = {}
  BY DEF ToSet
<1>3. NoData \in Answers /\ Len(NoData.rows) = 0 /\ OwnAnswer(NoData)
  BY <1>1, <1>2 DEF NoData, Answers, OwnAnswer
<1>4. Idle \in Fetches /\ Idle.data = NoData
  BY <1>3 DEF Idle, Fetches
<1>5. ASSUME NEW k \in Keys PROVE Ask(k) \in Fetches /\ Ask(k).data = NoData
  BY <1>4 DEF Ask, Fetches
<1> QED
  BY <1>3, <1>4, <1>5

LEMMA PathRows ==
  ASSUME NEW query
  PROVE  /\ PgRows(query) \subseteq Mine /\ EsHits(query) \subseteq Mine
         /\ PgOrders(query) \subseteq SetToSeqs(PgRows(query))
         /\ EsOrders(query) \subseteq SetToSeqs(EsHits(query))
<1>1. PgRows(query) \subseteq Mine /\ EsHits(query) \subseteq Mine
  BY DEF PgRows, EsHits
<1>2. PgOrders(query) \subseteq SetToSeqs(PgRows(query))
  BY DEF PgOrders, Orders
<1>3. EsOrders(query) \subseteq SetToSeqs(EsHits(query))
  BY DEF EsOrders, Orders
<1> QED
  BY <1>1, <1>2, <1>3

\* An answer that is well-typed, fits a page and is the user's own.
Proper(d) == d \in Answers /\ Len(d.rows) <= PageSize /\ OwnAnswer(d)

\* What a route does to the request it answers; the other requests are left alone.
LEMMA RouteFields ==
  ASSUME TypeOK, NEW k \in Keys, Proper(asked[k].data), Route(k)
  PROVE  \E f \in Fetches : asked' = [asked EXCEPT ![k] = f] /\ Proper(f.data)
<1>1. /\ asked[k] \in Fetches /\ asked[k].data \in Answers /\ k[2] \in PageNumbers
      /\ asked \in [Keys -> Fetches]
  BY PageNumber DEF TypeOK, Fetches
<1>2. CASE SearchEmails(k)
  <2>1. PICK s \in EsOrders(k[1]) :
          asked' = [asked EXCEPT ![k] =
                     [asked[k] EXCEPT !.got = {"rows", "total"},
                                      !.data = [asked[k].data EXCEPT
                                                  !.rows = PageOf(s, k[2]),
                                                  !.total = Min({Len(s), MaxHits})]]]
    BY <1>1, <1>2 DEF SearchEmails
  <2> DEFINE rs == PageOf(s, k[2])
             c == Min({Len(s), MaxHits})
             d == [asked[k].data EXCEPT !.rows = rs, !.total = c]
             f == [asked[k] EXCEPT !.got = {"rows", "total"}, !.data = d]
  <2>2. s \in SetToSeqs(EsHits(k[1])) /\ EsHits(k[1]) \in SUBSET Mine
    BY PathRows
  <2>3. /\ rs \in Seq(Rows) /\ Len(rs) <= PageSize /\ ToSet(rs) \subseteq Mine
        /\ Len(s) = Cardinality(EsHits(k[1]))
    BY <1>1, <2>2, PageRows
  <2>4. c \in 0 .. Cardinality(Mine) /\ c \in 0 .. Cardinality(Rows)
    <3>1. Cardinality(EsHits(k[1])) \in 0 .. Cardinality(Mine)
          /\ Cardinality(Mine) \in 0 .. Cardinality(Rows) /\ Cardinality(Rows) \in Nat
      BY <2>2, MineSize
    <3>2. MaxHits \in Nat \ {0}
      BY SearchAssumption
    <3> DEFINE x == Len(s)
    <3>3. x \in 0 .. Cardinality(Mine) /\ x \in Nat
      BY <2>3, <3>1
    <3> HIDE DEF x
    <3>4. Min({x, MaxHits}) = IF x <= MaxHits THEN x ELSE MaxHits
      BY <3>2, <3>3, MinOfTwo
    <3>5. c = Min({x, MaxHits})
      BY DEF x
    <3> HIDE DEF c
    <3> QED
      BY <3>1, <3>2, <3>3, <3>4, <3>5
  <2>5. asked' = [asked EXCEPT ![k] = f]
    BY <2>1
  <2> HIDE DEF rs, c
  <2>6. d \in Answers /\ d.rows = rs /\ d.total = c
    BY <1>1, <2>3, <2>4 DEF Answers
  <2>7. Proper(d)
    BY <2>3, <2>4, <2>6 DEF Proper, OwnAnswer
  <2> HIDE DEF d
  <2>8. f \in Fetches /\ f.data = d
    BY <1>1, <2>6 DEF Fetches
  <2> HIDE DEF f
  <2> QED
    BY <2>5, <2>7, <2>8
<1>3. CASE FallBack(k)
  <2> DEFINE f == [asked[k] EXCEPT !.path = "pg"]
  <2>1. asked' = [asked EXCEPT ![k] = f]
    BY <1>1, <1>3 DEF FallBack
  <2>2. f \in Fetches /\ f.data = asked[k].data
    BY <1>1 DEF Fetches
  <2> HIDE DEF f
  <2> QED
    BY <2>1, <2>2
<1>4. CASE SelectRows(k)
  <2>1. PICK s \in PgOrders(k[1]) :
          asked' = [asked EXCEPT ![k] =
                     [asked[k] EXCEPT !.got = asked[k].got \cup {"rows"},
                                      !.data = [asked[k].data EXCEPT
                                                  !.rows = PageOf(s, k[2])]]]
    BY <1>1, <1>4 DEF SelectRows
  <2> DEFINE rs == PageOf(s, k[2])
             g == asked[k].got \cup {"rows"}
             d == [asked[k].data EXCEPT !.rows = rs]
             f == [asked[k] EXCEPT !.got = g, !.data = d]
  <2>2. s \in SetToSeqs(PgRows(k[1])) /\ PgRows(k[1]) \in SUBSET Mine
    BY PathRows
  <2>3. rs \in Seq(Rows) /\ Len(rs) <= PageSize /\ ToSet(rs) \subseteq Mine
    BY <1>1, <2>2, PageRows
  <2>4. g \in SUBSET {"rows", "total"}
    BY <1>1 DEF Fetches
  <2>5. asked' = [asked EXCEPT ![k] = f]
    BY <2>1
  <2> HIDE DEF rs, g
  <2>6. d \in Answers /\ d.rows = rs /\ d.total = asked[k].data.total
    BY <1>1, <2>3 DEF Answers
  <2>7. Proper(d)
    BY <2>3, <2>6 DEF Proper, OwnAnswer
  <2> HIDE DEF d
  <2>8. f \in Fetches /\ f.data = d
    BY <1>1, <2>4, <2>6 DEF Fetches
  <2> HIDE DEF f
  <2> QED
    BY <2>5, <2>7, <2>8
<1>5. CASE SelectCount(k)
  <2> DEFINE c == Cardinality(PgRows(k[1]))
             g == asked[k].got \cup {"total"}
             d == [asked[k].data EXCEPT !.total = c]
             f == [asked[k] EXCEPT !.got = g, !.data = d]
  <2>1. asked' = [asked EXCEPT ![k] = f]
    BY <1>1, <1>5 DEF SelectCount
  <2>2. g \in SUBSET {"rows", "total"}
    BY <1>1 DEF Fetches
  <2>3. c \in 0 .. Cardinality(Mine) /\ c \in 0 .. Cardinality(Rows)
    <3>1. PgRows(k[1]) \in SUBSET Mine
      BY PathRows
    <3>2. c \in 0 .. Cardinality(Mine)
      BY <3>1, MineSize
    <3>3. Cardinality(Mine) \in 0 .. Cardinality(Rows) /\ Cardinality(Rows) \in Nat
      BY <3>1, MineSize
    <3> HIDE DEF c
    <3> QED
      BY <3>2, <3>3
  <2> HIDE DEF c, g
  <2>4. d \in Answers /\ d.rows = asked[k].data.rows /\ d.total = c
    BY <1>1, <2>3 DEF Answers
  <2>5. Proper(d)
    BY <2>3, <2>4 DEF Proper, OwnAnswer
  <2> HIDE DEF d
  <2>6. f \in Fetches /\ f.data = d
    BY <1>1, <2>2, <2>4 DEF Fetches
  <2> HIDE DEF f
  <2> QED
    BY <2>1, <2>5, <2>6
<1> QED
  BY <1>2, <1>3, <1>4, <1>5 DEF Route

-----------------------------------------------------------------------------
(* Type correctness, and whose rows are shown *)

\* The answers, those on their way included, are the user's.
OwnInv == \A k \in Keys : OwnAnswer(cache[k]) /\ OwnAnswer(asked[k].data)

IInv == TypeOK /\ OwnInv

LEMMA FetchFields ==
  ASSUME TypeOK, NEW S, Fetch(S)
  PROVE  /\ asked' \in [Keys -> Fetches]
         /\ \A k \in Keys : asked'[k].data = asked[k].data \/ asked'[k].data = NoData
<1>1. \A k \in Keys : asked'[k] = IF k \in S /\ ~asked[k].busy THEN Ask(k) ELSE asked[k]
  BY DEF Fetch
<1>2. asked' \in [Keys -> Fetches]
  BY NoAnswer DEF Fetch, TypeOK
<1> QED
  BY <1>1, <1>2, NoAnswer

LEMMA InvInit == Init => IInv
<1> SUFFICES ASSUME Init PROVE IInv
  OBVIOUS
<1> USE SearchAssumption
<1>1. Key \in Keys /\ q \in Queries
  BY PageNumber DEF Init, Key
<1>2. cache \in [Keys -> Answers] /\ asked \in [Keys -> Fetches]
  BY <1>1, NoAnswer DEF Init
<1>3. \A k \in Keys : cache[k] = NoData /\ asked[k].data = NoData
  BY <1>1, NoAnswer DEF Init
<1>4. \A k \in Keys : Len(cache[k].rows) <= PageSize /\ Len(asked[k].data.rows) <= PageSize
  BY <1>3, NoAnswer
<1>5. docs \in [Rows -> [place : Tabs \cup {"none"}, at : Times \cup {0}]]
  BY DEF Init, NoDoc
<1>6. OwnInv
  BY <1>3, NoAnswer DEF OwnInv
<1> QED
  BY <1>1, <1>2, <1>4, <1>5, <1>6 DEF Init, IInv, TypeOK

LEMMA InvStep == IInv /\ [Next]_vars => IInv'
<1> SUFFICES ASSUME IInv, [Next]_vars PROVE IInv'
  OBVIOUS
<1> USE DEF dbVars, uiVars, IInv
<1> DEFINE Short == \A k \in Keys : Len(cache[k].rows) <= PageSize
                                    /\ Len(asked[k].data.rows) <= PageSize
           Rest == /\ place \in [Rows -> Tabs \cup {"none"}] /\ at \in [Rows -> Times]
                   /\ docs \in [Rows -> [place : Tabs \cup {"none"}, at : Times \cup {0}]]
                   /\ jobs \subseteq Rows /\ esUp \in BOOLEAN
                   /\ left \in [BoundedKinds -> Nat]
           Ui == typed \in Queries /\ Key \in Keys /\ lastKey \in Keys
           Data == /\ cache \in [Keys -> Answers] /\ asked \in [Keys -> Fetches] /\ Short
                   /\ fresh \subseteq Keys /\ OwnInv
<1>1. Rest /\ Ui /\ Data
  BY DEF TypeOK
<1>2. ASSUME Rest', Ui', Data' PROVE IInv'
  BY <1>2 DEF TypeOK
<1>3. ASSUME NEW kind \in BoundedKinds, Once(kind) PROVE left' \in [BoundedKinds -> Nat]
  <2>1. left[kind] - 1 \in Nat
    BY <1>1, <1>3 DEF Once
  <2> QED
    BY <1>1, <1>3, <2>1 DEF Once
<1>4. {"user", "repark", "outage", "move"} \subseteq BoundedKinds
  BY DEF BoundedKinds
<1>5. \A k \in Keys : asked[k].data \in Answers /\ Proper(asked[k].data)
  BY <1>1 DEF Proper, OwnInv, Fetches
<1>6. ASSUME asked' \in [Keys -> Fetches], UNCHANGED cache, fresh' \subseteq Keys,
             \A k \in Keys : asked'[k].data = asked[k].data \/ Proper(asked'[k].data)
      PROVE  Data'
  BY <1>1, <1>6 DEF OwnInv, Proper
<1>7. Proper(NoData)
  <2>1. PageSize \in Nat
    BY SearchAssumption
  <2> QED
    BY <2>1, NoAnswer DEF Proper
<1>8. ASSUME Changed, UNCHANGED cache PROVE Data'
  <2>1. \A k \in Keys : asked'[k] = [asked[k] EXCEPT !.fresh = FALSE]
    BY <1>8 DEF Changed
  <2>2. ASSUME NEW k \in Keys
        PROVE  asked'[k] \in Fetches /\ asked'[k].data = asked[k].data
    <3> DEFINE f == [asked[k] EXCEPT !.fresh = FALSE]
    <3>1. asked[k] \in Fetches
      BY <1>1
    <3>2. f \in Fetches /\ f.data = asked[k].data
      BY <3>1 DEF Fetches
    <3>3. asked'[k] = f
      BY <2>1
    <3> HIDE DEF f
    <3> QED
      BY <3>2, <3>3
  <2>3. asked' \in [Keys -> Fetches]
    BY <1>8, <2>2 DEF Changed
  <2> QED
    BY <1>6, <1>8, <2>2, <2>3 DEF Changed
<1>9. ASSUME NEW S, Fetch(S), UNCHANGED <<cache, fresh>> PROVE Data'
  <2>1. /\ asked' \in [Keys -> Fetches]
        /\ \A k \in Keys : asked'[k].data = asked[k].data \/ asked'[k].data = NoData
    BY <1>1, <1>9, FetchFields
  <2> QED
    BY <1>1, <1>6, <1>7, <1>9, <2>1
<1>10. ASSUME NEW via \in Keys, NEW key \in Keys, Mount(via, key), typed' \in Queries,
              left' \in [BoundedKinds -> Nat]
       PROVE  IInv'
  <2>1. \E T : Fetch(T)
    BY <1>10 DEF Mount
  <2>2. Data'
    BY <1>9, <1>10, <2>1 DEF Mount
  <2>3. Key' \in Keys
    BY <1>10 DEF Mount, Key, Keys
  <2>4. lastKey' \in Keys
    BY <1>1, <1>10 DEF Mount
  <2>5. Rest'
    BY <1>1, <1>10 DEF Mount
  <2> QED
    BY <1>2, <1>10, <2>2, <2>3, <2>4, <2>5
<1>11. ASSUME NEW e \in Rows, Pipeline(e) PROVE IInv'
  <2>1. CASE Transition(e)
    <3>1. Rest'
      <4>1. place' \in [Rows -> Tabs \cup {"none"}]
        BY <1>1, <2>1 DEF Transition, Tabs
      <4> QED
        BY <1>1, <1>3, <1>4, <2>1, <4>1 DEF Transition
    <3>2. Data'
      BY <1>8, <2>1 DEF Transition
    <3>3. Ui'
      BY <1>1, <2>1 DEF Transition, Key
    <3> QED
      BY <1>2, <3>1, <3>2, <3>3
  <2>2. CASE ReparkRow(e)
    <3>1. Rest'
      BY <1>1, <1>3, <1>4, <2>2 DEF ReparkRow
    <3>2. Data'
      BY <1>8, <2>2 DEF ReparkRow
    <3>3. Ui'
      BY <1>1, <2>2 DEF ReparkRow, Key
    <3> QED
      BY <1>2, <3>1, <3>2, <3>3
  <2>3. CASE IndexRow(e)
    <3>1. Rest'
      BY <1>1, <2>3 DEF IndexRow
    <3>2. Data'
      BY <1>8, <2>3 DEF IndexRow
    <3>3. Ui'
      BY <1>1, <2>3 DEF IndexRow, Key
    <3> QED
      BY <1>2, <3>1, <3>2, <3>3
  <2> QED
    BY <1>11, <2>1, <2>2, <2>3 DEF Pipeline
<1>12. ASSUME NEW k \in Keys, Route(k) PROVE IInv'
  <2>1. PICK f \in Fetches : asked' = [asked EXCEPT ![k] = f] /\ Proper(f.data)
    BY <1>1, <1>5, <1>12, RouteFields
  <2>2. UNCHANGED <<place, at, docs, jobs, esUp, typed, q, page, lastKey, cache, fresh, left>>
    BY <1>12 DEF Route, SearchEmails, FallBack, SelectRows, SelectCount
  <2>3. Data'
    BY <1>1, <1>6, <2>1, <2>2
  <2> QED
    BY <1>1, <1>2, <2>2, <2>3 DEF Key
<1>13. ASSUME NEW k \in Keys, Receive(k) PROVE IInv'
  <2> DEFINE d == [asked[k].data EXCEPT !.has = TRUE]
  <2>1. d \in Answers /\ d.rows = asked[k].data.rows /\ d.total = asked[k].data.total
    BY <1>5 DEF Answers
  <2>2. Proper(d)
    BY <1>5, <2>1 DEF Proper, OwnAnswer
  <2>3. cache' = [cache EXCEPT ![k] = d] /\ asked' = [asked EXCEPT ![k] = Idle]
    BY <1>13 DEF Receive
  <2> HIDE DEF d
  <2>4. \A l \in Keys : /\ cache'[l] = cache[l] \/ Proper(cache'[l])
                        /\ asked'[l].data = asked[l].data \/ Proper(asked'[l].data)
    BY <1>1, <1>7, <2>2, <2>3, NoAnswer
  <2>5. cache' \in [Keys -> Answers] /\ asked' \in [Keys -> Fetches]
    BY <1>1, <2>1, <2>3, NoAnswer
  <2>6. Data'
    <3>1. \A l \in Keys : /\ Len(cache'[l].rows) <= PageSize /\ OwnAnswer(cache'[l])
                          /\ Len(asked'[l].data.rows) <= PageSize /\ OwnAnswer(asked'[l].data)
      BY <1>1, <2>4 DEF OwnInv, Proper
    <3>2. OwnInv'
      BY <3>1 DEF OwnInv, OwnAnswer
    <3>3. fresh' \subseteq Keys
      BY <1>1, <1>13 DEF Receive
    <3> QED
      BY <2>5, <3>1, <3>2, <3>3
  <2>7. Ui'
    BY <1>1, <1>13 DEF Receive, Key
  <2>8. Rest'
    BY <1>1, <1>13 DEF Receive
  <2> QED
    BY <1>2, <2>6, <2>7, <2>8
<1>14. CASE Outage
  BY <1>1, <1>2, <1>3, <1>4, <1>14 DEF Outage, Key, OwnInv
<1>15. CASE Poll
  <2>1. Data'
    BY <1>9, <1>15 DEF Poll
  <2> QED
    BY <1>1, <1>2, <1>15, <2>1 DEF Poll, Key
<1>16. CASE Debounce
  <2>1. <<typed, page>> \in Keys /\ <<typed, 1>> \in Keys
    BY <1>1, PageNumber DEF Key
  <2>2. Mount(<<typed, page>>, <<typed, 1>>) /\ UNCHANGED <<typed, left>>
    BY <1>16 DEF Debounce
  <2> QED
    BY <1>1, <1>10, <2>1, <2>2
<1>17. CASE TurnPage
  <2>1. page \in PageNumbers /\ q \in Queries
    BY <1>1, PageNumber DEF Key
  <2>2. Shown \in Answers /\ OwnAnswer(Shown)
    BY <1>1 DEF Shown, OwnInv
  <2>3. Shown.total \in 0 .. Cardinality(Mine)
    <3>1. Cardinality(Mine) \in Nat
      BY MineSize
    <3> QED
      BY <2>2, <3>1 DEF Answers, OwnAnswer
  <2>4. PICK p \in PageNumbers : Mount(<<q, p>>, <<q, p>>)
    <3>1. CASE page > 1 /\ Mount(<<q, page - 1>>, <<q, page - 1>>)
      BY <2>1, <3>1, PageBefore
    <3>2. CASE page < PageCount(Shown.total) /\ Mount(<<q, page + 1>>, <<q, page + 1>>)
      BY <2>1, <2>3, <3>2, PageAfter
    <3> QED
      BY <1>17, <3>1, <3>2 DEF TurnPage
  <2>5. <<q, p>> \in Keys /\ Once("user") /\ typed' = typed
    BY <1>17, <2>1, PageNumber DEF TurnPage, Idling
  <2> QED
    BY <1>1, <1>3, <1>4, <1>10, <2>4, <2>5
<1>18. ASSUME NEW text \in Queries, Type(text) PROVE IInv'
  <2>1. Once("user")
    BY <1>18 DEF Type, Idling
  <2> QED
    BY <1>1, <1>2, <1>3, <1>4, <1>18, <2>1 DEF Type, Key, OwnInv
<1>19. CASE UNCHANGED vars
  BY <1>1, <1>2, <1>19 DEF vars, Key, OwnInv
<1> QED
  BY <1>11, <1>12, <1>13, <1>14, <1>15, <1>16, <1>17, <1>18, <1>19 DEF Next, User

\* Every reachable state is well-typed: no answer holds more rows than a page, and the
\* user is on a page that their own rows can fill.
THEOREM TypeCorrect == Spec => []TypeOK
<1>1. IInv => TypeOK
  BY DEF IInv
<1> QED
  BY <1>1, InvInit, InvStep, PTL DEF Spec

\* Nobody's rows but the user's are shown or counted, by either path, from documents
\* however old, and whenever Elasticsearch fails.
THEOREM RowsAreOwn == Spec => []OwnRowsOnly
<1>1. IInv => OwnRowsOnly
  BY DEF IInv, OwnInv, OwnAnswer, OwnRowsOnly
<1> QED
  BY <1>1, InvInit, InvStep, PTL DEF Spec

-----------------------------------------------------------------------------
(* The pages of a sequence, one after the other *)

\* A set of natural numbers that is not empty has a least element.
LEMMA LeastElement ==
  ASSUME NEW T \in SUBSET Nat, \A x \in T : \E y \in T : y < x
  PROVE  T = {}
<1>1. IsWellFoundedOn(OpToRel(<, Nat), Nat)
  BY NatLessThanWellFounded
<1>2. SUFFICES ASSUME T # {} PROVE FALSE
  OBVIOUS
<1>3. PICK x \in T : \A y \in T : ~(<<y, x>> \in OpToRel(<, Nat))
  BY <1>1, <1>2, WFMin
<1>4. PICK y \in T : y < x
  OBVIOUS
<1>5. <<y, x>> \in OpToRel(<, Nat)
  BY <1>4 DEF OpToRel
<1> QED
  BY <1>3, <1>5

\* All pages but the last are full, and the last one ends the sequence.
LEMMA PageBounds ==
  ASSUME NEW n \in Nat, NEW p \in 1 .. PageCount(n)
  PROVE  /\ (p - 1) * PageSize \in 0 .. n
         /\ p * PageSize \in Nat /\ p * PageSize = (p - 1) * PageSize + PageSize
         /\ p < PageCount(n) => p * PageSize <= n
         /\ p = PageCount(n) => n <= p * PageSize
<1> DEFINE P == PageSize
           c == (n + P - 1) \div P
<1>1. P \in Nat \ {0}
  BY SearchAssumption
<1>2. PageCount(n) \in Nat \ {0}
  BY PageCounts
<1>3. c \in Nat /\ P * c <= n + P - 1 /\ n + P - 1 < P * c + P
  <2>1. c \in Int /\ P * c <= n + P - 1 /\ n + P - 1 < P * c + P
    BY <1>1
  <2>2. c \in Nat
    BY <1>1, Ceiling
  <2> QED
    BY <2>1, <2>2
<1>4. PageCount(n) = IF c >= 1 THEN c ELSE 1
  <2>1. PageCount(n) = Max({1, c})
    BY DEF PageCount
  <2> HIDE DEF c
  <2> QED
    BY <1>3, <2>1, MaxOfOne
<1> HIDE DEF P, c
<1>5. p \in Nat /\ p >= 1 /\ p <= PageCount(n)
  BY <1>2
<1>6. p * P \in Nat /\ (p - 1) * P \in Nat /\ p * P = (p - 1) * P + P
  BY <1>1, <1>5
<1>7. CASE c = 0
  <2>1. n = 0 /\ p = 1
    BY <1>1, <1>3, <1>4, <1>5, <1>7
  <2> QED
    BY <1>1, <1>2, <1>4, <1>6, <1>7, <2>1 DEF P
<1>8. CASE c # 0
  <2>1. PageCount(n) = c
    BY <1>3, <1>4, <1>8
  <2>2. P * (c - p) >= 0 /\ P * (c - p) = P * c - p * P /\ P * c \in Nat
    BY <1>1, <1>3, <1>5, <2>1
  <2>3. (p - 1) * P <= n
    BY <1>1, <1>3, <1>6, <2>2
  <2>4. ASSUME p < c PROVE p * P <= n
    <3>1. P * (c - p - 1) >= 0 /\ P * (c - p - 1) = P * c - p * P - P
      BY <1>1, <1>3, <1>5, <2>4
    <3> QED
      BY <1>1, <1>3, <1>6, <2>2, <3>1
  <2>5. ASSUME p = c PROVE n <= p * P
    BY <1>1, <1>3, <1>6, <2>2, <2>5
  <2> QED
    BY <1>6, <2>1, <2>3, <2>4, <2>5 DEF P
<1> QED
  BY <1>3, <1>7, <1>8

PageEnd(n, p) == IF p = PageCount(n) THEN n ELSE p * PageSize

LEMMA PageCut ==
  ASSUME NEW S, NEW s \in Seq(S), NEW p \in 1 .. PageCount(Len(s))
  PROVE  PageOf(s, p) = SubSeq(s, (p - 1) * PageSize + 1, PageEnd(Len(s), p))
<1> DEFINE n == Len(s)
           m == (p - 1) * PageSize
           l == m + PageSize
<1>1. n \in Nat /\ PageCount(n) \in Nat \ {0} /\ PageSize \in Nat \ {0}
  BY LenProperties, PageCounts, SearchAssumption
<1>2. /\ m \in 0 .. n /\ p * PageSize \in Nat /\ p * PageSize = l
      /\ p < PageCount(n) => p * PageSize <= n
      /\ p = PageCount(n) => n <= p * PageSize
  <2> HIDE DEF n
  <2> QED
    BY <1>1, PageBounds DEF n
<1>3. p \in Nat \ {0} /\ p <= PageCount(n)
  BY <1>1
<1>4. PageOf(s, p) = SubSeq(s, m + 1, Min({l, n}))
  <2>1. Clamp(p, PageSize) = [offset |-> m, limit |-> PageSize]
    BY <1>3, ClampIs
  <2> HIDE DEF m
  <2>2. Clamp(p, PageSize).offset = m /\ Clamp(p, PageSize).limit = PageSize
    BY <2>1
  <2> QED
    BY <2>2 DEF PageOf
<1> HIDE DEF n, l, m
<1>5. l \in Nat /\ n \in Nat
  BY <1>1, <1>2
<1>6. Min({l, n}) = IF l <= n THEN l ELSE n
  BY <1>5, MinOfTwo
<1>7. Min({l, n}) = PageEnd(n, p)
  BY <1>1, <1>2, <1>3, <1>5, <1>6 DEF PageEnd
<1> QED
  BY <1>4, <1>7 DEF m, n

\* The pages of a sequence, one after the other, are the sequence.
LEMMA PagesJoined ==
  ASSUME NEW S, NEW s \in Seq(S)
  PROVE  FlattenSeq([p \in 1 .. PageCount(Len(s)) |-> PageOf(s, p)]) = s
<1> DEFINE n == Len(s)
           m == PageCount(n)
           pages == [p \in 1 .. m |-> PageOf(s, p)]
           whole == [i \in 1 .. m |-> SubSeq(s, 1, PageEnd(n, i))]
<1>1. n \in Nat /\ m \in Nat \ {0} /\ PageSize \in Nat \ {0}
  BY LenProperties, PageCounts, SearchAssumption
<1>2. Len(pages) = m
  <2> HIDE DEF m
  <2> QED
    BY <1>1
<1>3. ASSUME NEW i \in 1 .. m
      PROVE  whole[i] = IF i = 1 THEN pages[i] ELSE whole[i - 1] \o pages[i]
  <2> DEFINE k == (i - 1) * PageSize
             l == PageEnd(n, i)
  <2>1. pages[i] = SubSeq(s, k + 1, l) /\ whole[i] = SubSeq(s, 1, l)
    BY PageCut
  <2>2. k \in 0 .. n /\ l \in k .. n
    <3>1. /\ k \in 0 .. n /\ i * PageSize \in Nat /\ i * PageSize = k + PageSize
          /\ i < m => i * PageSize <= n
      <4> HIDE DEF n
      <4> QED
        BY <1>1, PageBounds
    <3>2. i <= m /\ i \in Nat
      BY <1>1
    <3> HIDE DEF n, m, k
    <3> QED
      BY <1>1, <3>1, <3>2 DEF PageEnd, m
  <2>3. CASE i = 1
    <3>1. k = 0
      BY <1>1, <2>3
    <3> QED
      BY <2>1, <2>3, <3>1
  <2>4. CASE i # 1
    <3>1. i - 1 \in 1 .. m /\ i - 1 # m
      BY <1>1, <2>4
    <3>2. whole[i - 1] = SubSeq(s, 1, k)
      BY <3>1 DEF PageEnd
    <3> HIDE DEF whole, pages, k, l
    <3>3. SubSeq(s, 1, k) \o SubSeq(s, k + 1, l) = SubSeq(s, 1, l)
      BY <1>1, <2>2, ConcatAdjacentSubSeq
    <3> QED
      BY <2>1, <2>4, <3>2, <3>3
  <2> QED
    BY <2>3, <2>4
<1>4. whole[m] = s
  <2>1. whole[m] = SubSeq(s, 1, n)
    BY <1>1 DEF PageEnd
  <2> QED
    BY <2>1, SubSeqFull
<1>5. \E f : f = [i \in 1 .. Len(pages) |-> IF i = 1 THEN pages[i] ELSE f[i - 1] \o pages[i]]
  <2>1. whole = [i \in 1 .. m |-> IF i = 1 THEN pages[i] ELSE whole[i - 1] \o pages[i]]
    <3> HIDE DEF pages, m
    <3> QED
      BY <1>3
  <2> HIDE DEF pages, m, whole
  <2> QED
    BY <1>2, <2>1
<1>6. Len(pages) # 0
  BY <1>1, <1>2
<1> HIDE DEF pages, m, whole
<1>7. PICK f : /\ f = [i \in 1 .. Len(pages) |-> IF i = 1 THEN pages[i]
                                                        ELSE f[i - 1] \o pages[i]]
               /\ FlattenSeq(pages) = f[Len(pages)]
  BY <1>5, <1>6, Zenon DEF FlattenSeq
<1>8. \A i \in 1 .. m : f[i] = IF i = 1 THEN pages[i] ELSE f[i - 1] \o pages[i]
  BY <1>2, <1>7
<1> DEFINE D == {i \in 1 .. m : f[i] # whole[i]}
<1>9. ASSUME NEW i \in D PROVE \E j \in D : j < i
  <2>1. i # 1 /\ i \in 1 .. m
    BY <1>3, <1>8
  <2>2. i - 1 \in 1 .. m /\ i - 1 < i
    BY <1>1, <2>1
  <2>3. i - 1 \in D
    BY <1>3, <1>8, <2>1, <2>2
  <2> QED
    BY <2>2, <2>3
<1>10. D = {}
  <2>1. D \in SUBSET Nat
    OBVIOUS
  <2> HIDE DEF D
  <2> QED
    BY <1>9, <2>1, LeastElement
<1>11. f[m] = whole[m]
  BY <1>1, <1>10
<1> QED
  BY <1>2, <1>4, <1>7, <1>11 DEF pages, m

-----------------------------------------------------------------------------
(* Orders without ties *)

\* An enumeration of a finite set reaches each element.
LEMMA Reached ==
  ASSUME NEW S, IsFiniteSet(S), NEW s \in SetToSeqs(S)
  PROVE  /\ Cardinality(S) \in Nat
         /\ s \in [1 .. Cardinality(S) -> S]
         /\ \A i, j \in 1 .. Cardinality(S) : i # j => s[i] # s[j]
         /\ \A x \in S : \E i \in 1 .. Cardinality(S) : s[i] = x
<1> DEFINE n == Cardinality(S)
<1>1. n \in Nat
  BY FS_CardinalityType
<1>2. s \in [1 .. n -> S] /\ \A i, j \in 1 .. n : i # j => s[i] # s[j]
  BY DEF SetToSeqs
<1> HIDE DEF n
<1>3. s \in Injection(1 .. n, S)
  BY <1>2 DEF Injection, IsInjective
<1>4. Cardinality(1 .. n) = n
  BY <1>1, FS_Interval
<1>5. s \in Surjection(1 .. n, S)
  BY <1>3, <1>4, FS_Injection DEF n
<1> QED
  BY <1>1, <1>2, <1>5 DEF Surjection, n

Along(R, s, n) == \A i, j \in 1 .. n : i < j => <<s[i], s[j]>> \in R

\* A finite set has at most one enumeration along an order without ties.
LEMMA OneOrder ==
  ASSUME NEW S, IsFiniteSet(S), NEW R,
         \A a, b \in S : a # b => <<a, b>> \in R \/ <<b, a>> \in R,
         \A a, b \in S : ~(<<a, b>> \in R /\ <<b, a>> \in R),
         NEW s \in SetToSeqs(S), Along(R, s, Cardinality(S)),
         NEW t \in SetToSeqs(S), Along(R, t, Cardinality(S))
  PROVE  s = t
<1>1. ASSUME NEW u \in SetToSeqs(S)
      PROVE  /\ Cardinality(S) \in Nat
             /\ u \in [1 .. Cardinality(S) -> S]
             /\ \A i, j \in 1 .. Cardinality(S) : i # j => u[i] # u[j]
             /\ \A x \in S : \E i \in 1 .. Cardinality(S) : u[i] = x
  BY Reached, Zenon
<1> DEFINE n == Cardinality(S)
           D == {i \in 1 .. n : s[i] # t[i]}
<1>2. /\ Along(R, s, n) /\ Along(R, t, n)
      /\ n \in Nat /\ s \in [1 .. n -> S] /\ t \in [1 .. n -> S]
  BY <1>1
<1>3. /\ \A i, j \in 1 .. n : i # j => s[i] # s[j]
      /\ \A x \in S : \E i \in 1 .. n : s[i] = x
  BY <1>1
<1>4. /\ \A i, j \in 1 .. n : i # j => t[i] # t[j]
      /\ \A x \in S : \E i \in 1 .. n : t[i] = x
  BY <1>1
<1> HIDE DEF n
<1>5. ASSUME NEW i \in D PROVE \E j \in D : j < i
  <2>1. i \in 1 .. n /\ s[i] \in S /\ t[i] \in S /\ s[i] # t[i]
    BY <1>2
  <2>2. CASE <<s[i], t[i]>> \in R
    <3>1. PICK j \in 1 .. n : t[j] = s[i]
      BY <1>2, <1>3, <1>4, <2>1
    <3>2. j # i
      BY <2>1, <3>1
    <3>3. ~(i < j)
      BY <1>2, <2>1, <2>2, <3>1 DEF Along
    <3>4. s[j] # t[j] /\ j < i
      BY <1>2, <1>3, <1>4, <2>1, <3>1, <3>2, <3>3
    <3> QED
      BY <3>1, <3>4
  <2>3. CASE <<t[i], s[i]>> \in R
    <3>1. PICK j \in 1 .. n : s[j] = t[i]
      BY <1>2, <1>3, <1>4, <2>1
    <3>2. j # i
      BY <2>1, <3>1
    <3>3. ~(i < j)
      BY <1>2, <2>1, <2>3, <3>1 DEF Along
    <3>4. s[j] # t[j] /\ j < i
      BY <1>2, <1>3, <1>4, <2>1, <3>1, <3>2, <3>3
    <3> QED
      BY <3>1, <3>4
  <2> QED
    BY <2>1, <2>2, <2>3
<1>6. D \in SUBSET Nat
  OBVIOUS
<1> HIDE DEF D
<1>7. D = {}
  BY <1>5, <1>6, LeastElement
<1>8. \A i \in 1 .. n : s[i] = t[i]
  BY <1>7 DEF D
<1> QED
  BY <1>2, <1>8

\* The pages and the number that a path answers with.
PathOrders(query, path) == IF path = "es" THEN EsOrders(query) ELSE PgOrders(query)

PagesOf(k, path) == {PageOf(s, k[2]) : s \in PathOrders(k[1], path)}

TotalOf(k, path) ==
  IF path = "es" THEN Min({Cardinality(EsHits(k[1])), MaxHits}) ELSE Cardinality(PgRows(k[1]))

Untied(query) == \A a, b \in PgRows(query) : at[a] = at[b] => a = b

Ascending  == {r \in Rows \X Rows : at[r[1]] < at[r[2]]}
Descending == {r \in Rows \X Rows : at[r[1]] > at[r[2]]}

\* Up-to-date documents of a query both paths match alike are the rows.
LEMMA AgreedHits ==
  ASSUME NEW query, Agreed(query)
  PROVE  /\ EsHits(query) = PgRows(query) \/ query = << >>
         /\ \A e \in EsHits(query) : docs[e].at = at[e]
<1>1. ASSUME NEW e \in Mine
      PROVE  /\ docs[e].place = place[e]
             /\ place[e] # "none" => docs[e].at = at[e]
             /\ EsMatches(query, e) = PgMatches(query, e)
  <2>1. docs[e] = IF place[e] = "none" THEN NoDoc ELSE [place |-> place[e], at |-> at[e]]
    BY DEF Agreed
  <2>2. docs[e].place = place[e] /\ (place[e] # "none" => docs[e].at = at[e])
    BY <2>1 DEF NoDoc
  <2>3. EsMatches(query, e) = PgMatches(query, e)
    BY Zenon DEF Agreed
  <2> QED
    BY <2>2, <2>3, Zenon
<1>2. Tab # "none"
  BY SearchAssumption
<1>3. (\A e \in Mine : EsMatches(query, e) <=> PgMatches(query, e))
  BY <1>1 DEF EsMatches, PgMatches
<1>4. query # << >> => EsHits(query) = PgRows(query)
  BY <1>1, <1>3 DEF EsHits, PgRows
<1>5. \A e \in EsHits(query) : e \in Mine /\ docs[e].place = Tab
  BY DEF EsHits
<1>6. \A e \in EsHits(query) : docs[e].at = at[e]
  BY <1>1, <1>2, <1>5
<1> QED
  BY <1>4, <1>6

\* Rows that are due at different times have one order per path, and the same on both.
LEMMA PathsAlike ==
  ASSUME TypeOK, NEW query, Untied(query),
         query = << >> \/ Agreed(query),
         NEW p1 \in {"es", "pg"}, NEW p2 \in {"es", "pg"},
         query = << >> => p1 = "pg" /\ p2 = "pg",
         NEW s \in PathOrders(query, p1), NEW t \in PathOrders(query, p2)
  PROVE  s = t /\ s \in SetToSeqs(PgRows(query))
<1> DEFINE S == PgRows(query)
           n == Cardinality(S)
           R == IF query = << >> THEN Ascending ELSE Descending
<1>1. /\ S \subseteq Rows /\ IsFiniteSet(S)
      /\ \A e \in S : at[e] \in Nat
      /\ \A a, b \in S : at[a] = at[b] => a = b
  <2>1. S \subseteq Mine /\ Mine \subseteq Rows
    BY DEF PgRows, Mine
  <2>2. \A e \in Rows : at[e] \in Nat
    BY SearchAssumption DEF TypeOK
  <2>3. IsFiniteSet(S)
    BY <2>1, MineSize
  <2> QED
    BY <2>1, <2>2, <2>3 DEF Untied
<1>2. ASSUME NEW path \in {"es", "pg"}, query = << >> => path = "pg",
             NEW u \in PathOrders(query, path)
      PROVE  u \in SetToSeqs(S) /\ Along(R, u, n)
  <2>1. CASE query = << >>
    <3>1. u \in SetToSeqs(S) /\ \A i, j \in 1 .. Len(u) : i < j => ~Earlier(u[j], u[i])
      BY <1>2, <2>1 DEF PathOrders, PgOrders, Orders
    <3> QED
      <4>1. u \in [1 .. n -> S] /\ n \in Nat /\ \A i, j \in 1 .. n : i # j => u[i] # u[j]
        BY <1>1, <3>1, Reached
      <4> HIDE DEF n, S
      <4>2. Len(u) = n
        BY <4>1
      <4>3. \A i, j \in 1 .. n : i < j => ~(at[u[j]] < at[u[i]])
        BY <3>1, <4>2 DEF Earlier
      <4>4. \A i, j \in 1 .. n : i < j => at[u[i]] < at[u[j]]
        BY <1>1, <4>1, <4>3
      <4>5. Along(Ascending, u, n)
        BY <1>1, <4>1, <4>4 DEF Along, Ascending
      <4> QED
        BY <2>1, <3>1, <4>5
  <2>2. CASE query # << >>
    <3>1. /\ u \in SetToSeqs(S)
          /\ \A i, j \in 1 .. Len(u) : i < j => ~(at[u[j]] > at[u[i]])
      <4>1. CASE path = "pg"
        BY <1>2, <2>2, <4>1 DEF PathOrders, PgOrders, Orders, Later
      <4>2. CASE path = "es"
        <5>1. EsHits(query) = S /\ \A e \in S : docs[e].at = at[e]
          BY <2>2, AgreedHits
        <5>2. /\ u \in SetToSeqs(EsHits(query))
              /\ \A i, j \in 1 .. Len(u) : i < j => ~(docs[u[j]].at > docs[u[i]].at)
          BY <1>2, <4>2 DEF PathOrders, EsOrders, Orders
        <5>3. u \in [1 .. n -> S] /\ n \in Nat
          BY <1>1, <5>1, <5>2, Reached
        <5>4. u \in SetToSeqs(S)
          BY <5>1, <5>2
        <5> HIDE DEF n, S
        <5>5. Len(u) = n
          BY <5>3
        <5>6. \A i \in 1 .. n : docs[u[i]].at = at[u[i]]
          BY <5>1, <5>3
        <5> QED
          BY <5>2, <5>4, <5>5, <5>6
      <4> QED
        BY <4>1, <4>2
    <3> QED
      <4>1. u \in [1 .. n -> S] /\ n \in Nat /\ \A i, j \in 1 .. n : i # j => u[i] # u[j]
        BY <1>1, <3>1, Reached
      <4> HIDE DEF n, S
      <4>2. Len(u) = n
        BY <4>1
      <4>3. \A i, j \in 1 .. n : i < j => at[u[i]] > at[u[j]]
        BY <1>1, <3>1, <4>1, <4>2
      <4>4. Along(Descending, u, n)
        BY <1>1, <4>1, <4>3 DEF Along, Descending
      <4> QED
        BY <2>2, <3>1, <4>4
  <2> QED
    BY <2>1, <2>2
<1>3. s \in SetToSeqs(S) /\ Along(R, s, n) /\ t \in SetToSeqs(S) /\ Along(R, t, n)
  BY <1>2
<1>4. /\ \A a, b \in S : a # b => <<a, b>> \in R \/ <<b, a>> \in R
      /\ \A a, b \in S : ~(<<a, b>> \in R /\ <<b, a>> \in R)
  <2> HIDE DEF S
  <2>1. ASSUME NEW a \in S, NEW b \in S
        PROVE  /\ a # b => <<a, b>> \in R \/ <<b, a>> \in R
               /\ ~(<<a, b>> \in R /\ <<b, a>> \in R)
    <3>1. a \in Rows /\ b \in Rows /\ at[a] \in Nat /\ at[b] \in Nat /\ (at[a] = at[b] => a = b)
      BY <1>1
    <3>2. CASE query = << >>
      BY <3>1, <3>2 DEF Ascending
    <3>3. CASE query # << >>
      BY <3>1, <3>3 DEF Descending
    <3> QED
      BY <3>2, <3>3
  <2> QED
    BY <2>1
<1> HIDE DEF S, R
<1>5. s = t
  BY <1>1, <1>3, <1>4, OneOrder
<1> QED
  BY <1>3, <1>5 DEF S

-----------------------------------------------------------------------------
(* Fresh answers *)

\* What has been got by a request, or is cached, since rows and documents are as they
\* are is what the path the request has taken answers now.
AskedFresh(k) ==
  /\ asked[k].path = "es" => k[1] # << >>
  /\ asked[k].got # {} => asked[k].path # "none"
  /\ \A path \in {"es", "pg"} :
       asked[k].fresh /\ asked[k].path = path =>
         /\ "rows" \in asked[k].got => asked[k].data.rows \in PagesOf(k, path)
         /\ "total" \in asked[k].got => asked[k].data.total = TotalOf(k, path)

CachedFresh(k) ==
  k \in fresh =>
    \E path \in {"es", "pg"} :
      /\ path = "es" => k[1] # << >>
      /\ cache[k].rows \in PagesOf(k, path) /\ cache[k].total = TotalOf(k, path)

FreshInv == \A k \in Keys : AskedFresh(k) /\ CachedFresh(k)

\* A path's answers depend on the rows and the documents only.
LEMMA SameAnswers ==
  ASSUME UNCHANGED <<place, at, docs>>, NEW k, NEW path
  PROVE  PagesOf(k, path)' = PagesOf(k, path) /\ TotalOf(k, path)' = TotalOf(k, path)
<1>1. PgRows(k[1])' = PgRows(k[1]) /\ EsHits(k[1])' = EsHits(k[1])
  BY DEF PgRows, EsHits, Mine, PgMatches, EsMatches
<1>2. PgOrders(k[1])' = PgOrders(k[1])
  BY <1>1 DEF PgOrders, Orders, Earlier, Later
<1>3. EsOrders(k[1])' = EsOrders(k[1])
  BY <1>1 DEF EsOrders, Orders
<1>4. PagesOf(k, path)' = PagesOf(k, path)
  BY <1>2, <1>3 DEF PagesOf, PathOrders
<1>5. TotalOf(k, path)' = TotalOf(k, path)
  BY <1>1 DEF TotalOf
<1> QED
  BY <1>4, <1>5

\* A request that keeps what it has got, or has got nothing, is as fresh as before.
LEMMA AskedKept ==
  ASSUME NEW k \in Keys, AskedFresh(k), UNCHANGED <<place, at, docs>>,
         \/ asked'[k] = asked[k]
         \/ asked'[k] = Ask(k)
         \/ asked'[k] = Idle
  PROVE  AskedFresh(k)'
<1>1. ASSUME NEW path
      PROVE  PagesOf(k, path)' = PagesOf(k, path) /\ TotalOf(k, path)' = TotalOf(k, path)
  BY SameAnswers
<1> HIDE DEF Keys
<1>2. CASE asked'[k] = asked[k]
  BY <1>1, <1>2 DEF AskedFresh
<1>3. CASE asked'[k] = Ask(k)
  <2>1. asked'[k].got = {} /\ (asked'[k].path = "es" => k[1] # << >>)
    BY <1>3 DEF Ask, Idle
  <2> QED
    BY <2>1 DEF AskedFresh
<1>4. CASE asked'[k] = Idle
  <2>1. asked'[k].got = {} /\ asked'[k].path = "none"
    BY <1>4 DEF Idle
  <2> QED
    BY <2>1 DEF AskedFresh
<1> QED
  BY <1>2, <1>3, <1>4

LEMMA CachedKept ==
  ASSUME NEW k \in Keys, CachedFresh(k), UNCHANGED <<place, at, docs>>,
         cache'[k] = cache[k], k \in fresh' => k \in fresh
  PROVE  CachedFresh(k)'
<1>1. ASSUME NEW path
      PROVE  PagesOf(k, path)' = PagesOf(k, path) /\ TotalOf(k, path)' = TotalOf(k, path)
  BY SameAnswers
<1> QED
  BY <1>1 DEF CachedFresh

\* A route answers from the rows and documents as they are.
LEMMA RouteFresh ==
  ASSUME TypeOK, NEW k \in Keys, AskedFresh(k), Route(k)
  PROVE  AskedFresh(k)' /\ \A l \in Keys : l # k => asked'[l] = asked[l]
<1>1. /\ asked[k] \in Fetches /\ asked[k].data \in Answers /\ k[2] \in PageNumbers
      /\ asked \in [Keys -> Fetches]
  BY PageNumber DEF TypeOK, Fetches
<1>2. UNCHANGED <<place, at, docs>>
  BY DEF Route, SearchEmails, FallBack, SelectRows, SelectCount, dbVars
<1>3. ASSUME NEW path
      PROVE  PagesOf(k, path)' = PagesOf(k, path) /\ TotalOf(k, path)' = TotalOf(k, path)
  BY <1>2, SameAnswers
<1>4. ASSUME NEW f, asked' = [asked EXCEPT ![k] = f]
      PROVE  asked'[k] = f /\ \A l \in Keys : l # k => asked'[l] = asked[l]
  BY <1>1, <1>4
<1>5. CASE SearchEmails(k)
  <2>1. PICK s \in EsOrders(k[1]) :
          asked' = [asked EXCEPT ![k] =
                     [asked[k] EXCEPT !.got = {"rows", "total"},
                                      !.data = [asked[k].data EXCEPT
                                                  !.rows = PageOf(s, k[2]),
                                                  !.total = Min({Len(s), MaxHits})]]]
    BY <1>1, <1>5 DEF SearchEmails
  <2> DEFINE rs == PageOf(s, k[2])
             c == Min({Len(s), MaxHits})
             d == [asked[k].data EXCEPT !.rows = rs, !.total = c]
             f == [asked[k] EXCEPT !.got = {"rows", "total"}, !.data = d]
  <2>2. rs \in PagesOf(k, "es")
    BY DEF PagesOf, PathOrders
  <2>3. c = TotalOf(k, "es")
    <3>1. s \in SetToSeqs(EsHits(k[1])) /\ EsHits(k[1]) \in SUBSET Mine
      BY PathRows
    <3>2. Len(s) = Cardinality(EsHits(k[1]))
      BY <1>1, <3>1, PageRows
    <3> QED
      BY <3>2 DEF TotalOf
  <2>4. asked' = [asked EXCEPT ![k] = f]
    BY <2>1
  <2> HIDE DEF rs, c
  <2>5. d.rows = rs /\ d.total = c
    BY <1>1 DEF Answers
  <2> HIDE DEF d
  <2>6. f.path = "es" /\ f.data = d
    BY <1>1, <1>5 DEF Fetches, SearchEmails
  <2> HIDE DEF f
  <2>7. asked'[k] = f /\ \A l \in Keys : l # k => asked'[l] = asked[l]
    BY <1>4, <2>4
  <2>8. asked'[k].path = "es" /\ asked[k].path = "es"
        /\ asked'[k].data.rows = rs /\ asked'[k].data.total = c
    BY <1>5, <2>5, <2>6, <2>7 DEF SearchEmails
  <2> QED
    BY <1>3, <2>2, <2>3, <2>7, <2>8 DEF AskedFresh
<1>6. CASE FallBack(k)
  <2> DEFINE f == [asked[k] EXCEPT !.path = "pg"]
  <2>1. asked' = [asked EXCEPT ![k] = f]
    BY <1>1, <1>6 DEF FallBack
  <2>2. f.path = "pg" /\ f.got = {}
    BY <1>1, <1>6 DEF Fetches, FallBack
  <2> HIDE DEF f
  <2>3. asked'[k] = f /\ \A l \in Keys : l # k => asked'[l] = asked[l]
    BY <1>4, <2>1
  <2> QED
    BY <2>2, <2>3 DEF AskedFresh
<1>7. CASE SelectRows(k)
  <2>1. PICK s \in PgOrders(k[1]) :
          asked' = [asked EXCEPT ![k] =
                     [asked[k] EXCEPT !.got = asked[k].got \cup {"rows"},
                                      !.data = [asked[k].data EXCEPT
                                                  !.rows = PageOf(s, k[2])]]]
    BY <1>1, <1>7 DEF SelectRows
  <2> DEFINE rs == PageOf(s, k[2])
             g == asked[k].got \cup {"rows"}
             d == [asked[k].data EXCEPT !.rows = rs]
             f == [asked[k] EXCEPT !.got = g, !.data = d]
  <2>2. rs \in PagesOf(k, "pg")
    BY DEF PagesOf, PathOrders
  <2>3. asked' = [asked EXCEPT ![k] = f] /\ ("total" \in g => "total" \in asked[k].got)
    BY <2>1
  <2> HIDE DEF rs, g
  <2>4. d.rows = rs /\ d.total = asked[k].data.total
    BY <1>1 DEF Answers
  <2> HIDE DEF d
  <2>5. f.path = "pg" /\ f.data = d /\ f.got = g /\ f.fresh = asked[k].fresh
    BY <1>1, <1>7 DEF Fetches, SelectRows
  <2> HIDE DEF f
  <2>6. asked'[k] = f /\ \A l \in Keys : l # k => asked'[l] = asked[l]
    BY <1>4, <2>3
  <2>7. /\ asked'[k].path = "pg" /\ asked[k].path = "pg"
        /\ asked'[k].fresh = asked[k].fresh
        /\ asked'[k].data.rows = rs /\ asked'[k].data.total = asked[k].data.total
        /\ "total" \in asked'[k].got => "total" \in asked[k].got
    BY <1>7, <2>3, <2>4, <2>5, <2>6 DEF SelectRows
  <2> QED
    BY <1>3, <2>2, <2>6, <2>7 DEF AskedFresh
<1>8. CASE SelectCount(k)
  <2> DEFINE c == Cardinality(PgRows(k[1]))
             g == asked[k].got \cup {"total"}
             d == [asked[k].data EXCEPT !.total = c]
             f == [asked[k] EXCEPT !.got = g, !.data = d]
  <2>1. asked' = [asked EXCEPT ![k] = f] /\ ("rows" \in g => "rows" \in asked[k].got)
    BY <1>1, <1>8 DEF SelectCount
  <2>2. c = TotalOf(k, "pg")
    BY DEF TotalOf
  <2> HIDE DEF c, g
  <2>3. d.rows = asked[k].data.rows /\ d.total = c
    BY <1>1 DEF Answers
  <2> HIDE DEF d
  <2>4. f.path = "pg" /\ f.data = d /\ f.got = g /\ f.fresh = asked[k].fresh
    BY <1>1, <1>8 DEF Fetches, SelectCount
  <2> HIDE DEF f
  <2>5. asked'[k] = f /\ \A l \in Keys : l # k => asked'[l] = asked[l]
    BY <1>4, <2>1
  <2>6. /\ asked'[k].path = "pg" /\ asked[k].path = "pg"
        /\ asked'[k].fresh = asked[k].fresh
        /\ asked'[k].data.total = c /\ asked'[k].data.rows = asked[k].data.rows
        /\ "rows" \in asked'[k].got => "rows" \in asked[k].got
    BY <1>8, <2>1, <2>3, <2>4, <2>5 DEF SelectCount
  <2> QED
    BY <1>3, <2>2, <2>5, <2>6 DEF AskedFresh
<1> QED
  BY <1>5, <1>6, <1>7, <1>8 DEF Route

LEMMA FreshInit == Init => FreshInv
<1> SUFFICES ASSUME Init, NEW k \in Keys PROVE AskedFresh(k) /\ CachedFresh(k)
  BY DEF FreshInv
<1>1. asked[k] = Idle \/ asked[k] = Ask(k)
  BY DEF Init
<1>2. asked[k].got = {} /\ (asked[k].path = "es" => k[1] # << >>)
  <2>1. CASE asked[k] = Idle
    BY <2>1 DEF Idle
  <2>2. CASE asked[k] = Ask(k)
    BY <2>2 DEF Ask, Idle
  <2> QED
    BY <1>1, <2>1, <2>2
<1>3. AskedFresh(k)
  BY <1>2 DEF AskedFresh
<1> QED
  BY <1>3 DEF Init, CachedFresh

LEMMA FreshStep == IInv /\ FreshInv /\ [Next]_vars => FreshInv'
<1> SUFFICES ASSUME IInv, FreshInv, [Next]_vars PROVE FreshInv'
  OBVIOUS
<1> USE DEF dbVars, uiVars
<1>1. /\ asked \in [Keys -> Fetches] /\ cache \in [Keys -> Answers]
      /\ \A k \in Keys : AskedFresh(k) /\ CachedFresh(k)
  BY DEF IInv, TypeOK, FreshInv
<1>2. ASSUME \A k \in Keys : AskedFresh(k)' /\ CachedFresh(k)' PROVE FreshInv'
  BY <1>2 DEF FreshInv, Keys, Mine
<1>3. ASSUME UNCHANGED <<place, at, docs, cache, fresh>>,
             \A k \in Keys : asked'[k] = asked[k] \/ asked'[k] = Ask(k)
      PROVE  FreshInv'
  BY <1>1, <1>2, <1>3, AskedKept, CachedKept
<1>4. ASSUME Changed, NEW k \in Keys PROVE AskedFresh(k)' /\ CachedFresh(k)'
  <2> DEFINE f == [asked[k] EXCEPT !.fresh = FALSE]
  <2>1. f.fresh = FALSE /\ f.path = asked[k].path /\ f.got = asked[k].got
    BY <1>1 DEF Fetches
  <2>2. asked'[k] = f /\ fresh' = {}
    BY <1>4 DEF Changed
  <2> HIDE DEF f
  <2> QED
    BY <1>1, <2>1, <2>2 DEF AskedFresh, CachedFresh
<1>5. ASSUME NEW e \in Rows, Pipeline(e) PROVE FreshInv'
  <2>1. Changed
    BY <1>5 DEF Pipeline, Transition, ReparkRow, IndexRow
  <2> QED
    BY <1>2, <1>4, <2>1
<1>6. ASSUME NEW S, Fetch(S), UNCHANGED <<place, at, docs, cache, fresh>> PROVE FreshInv'
  <2>1. \A k \in Keys : asked'[k] = asked[k] \/ asked'[k] = Ask(k)
    BY <1>6 DEF Fetch
  <2> QED
    BY <1>3, <1>6, <2>1
<1>7. ASSUME NEW k \in Keys, Route(k) PROVE FreshInv'
  <2>1. UNCHANGED <<place, at, docs, cache, fresh>>
    BY <1>7 DEF Route, SearchEmails, FallBack, SelectRows, SelectCount
  <2>2. AskedFresh(k)' /\ \A l \in Keys : l # k => asked'[l] = asked[l]
    BY <1>1, <1>7, RouteFresh DEF IInv
  <2>3. ASSUME NEW l \in Keys PROVE AskedFresh(l)' /\ CachedFresh(l)'
    <3>1. CachedFresh(l)'
      BY <1>1, <2>1, CachedKept
    <3>2. CASE l = k
      BY <2>2, <3>1, <3>2
    <3>3. CASE l # k
      BY <1>1, <2>1, <2>2, <3>1, <3>3, AskedKept
    <3> QED
      BY <3>2, <3>3
  <2> QED
    BY <1>2, <2>3
<1>8. ASSUME NEW k \in Keys, Receive(k) PROVE FreshInv'
  <2> DEFINE d == [asked[k].data EXCEPT !.has = TRUE]
  <2>1. d.rows = asked[k].data.rows /\ d.total = asked[k].data.total
    BY <1>1 DEF Fetches, Answers
  <2>2. /\ cache' = [cache EXCEPT ![k] = d] /\ asked' = [asked EXCEPT ![k] = Idle]
        /\ UNCHANGED <<place, at, docs>> /\ asked[k].got = {"rows", "total"}
        /\ fresh' = IF asked[k].fresh THEN fresh \cup {k} ELSE fresh \ {k}
    BY <1>8 DEF Receive
  <2> HIDE DEF d
  <2>3. cache'[k] = d /\ asked'[k] = Idle
    BY <1>1, <2>2
  <2>4. ASSUME NEW l \in Keys, l # k PROVE AskedFresh(l)' /\ CachedFresh(l)'
    <3>1. cache'[l] = cache[l] /\ asked'[l] = asked[l] /\ (l \in fresh' => l \in fresh)
      BY <1>1, <2>2, <2>4
    <3> QED
      BY <1>1, <2>2, <3>1, AskedKept, CachedKept
  <2>5. AskedFresh(k)'
    BY <1>1, <2>2, <2>3, AskedKept
  <2>6. CachedFresh(k)'
    <3>1. asked[k].path \in {"es", "pg"} /\ (asked[k].path = "es" => k[1] # << >>)
      <4>1. asked[k].path \in {"none", "es", "pg"}
        BY <1>1 DEF Fetches
      <4> QED
        BY <1>1, <2>2, <4>1 DEF AskedFresh
    <3>2. /\ \A p \in {"es", "pg"} : PagesOf(k, p)' = PagesOf(k, p)
          /\ \A p \in {"es", "pg"} : TotalOf(k, p)' = TotalOf(k, p)
      BY <2>2, SameAnswers
    <3>3. CASE asked[k].fresh
      <4>1. PICK p \in {"es", "pg"} : p = asked[k].path
        BY <3>1
      <4>2. p = "es" => k[1] # << >>
        BY <3>1, <4>1
      <4>3. asked[k].data.rows \in PagesOf(k, p) /\ asked[k].data.total = TotalOf(k, p)
        BY <1>1, <2>2, <3>3, <4>1 DEF AskedFresh
      <4>4. cache'[k].rows \in PagesOf(k, p)' /\ cache'[k].total = TotalOf(k, p)'
        BY <2>1, <2>3, <3>2, <4>3
      <4> QED
        BY <4>2, <4>4 DEF CachedFresh
    <3>4. CASE ~asked[k].fresh
      BY <2>2, <3>4 DEF CachedFresh
    <3> QED
      BY <3>3, <3>4
  <2> QED
    BY <1>2, <2>4, <2>5, <2>6
<1>9. CASE Outage
  BY <1>3, <1>9 DEF Outage
<1>10. CASE Poll
  BY <1>6, <1>10 DEF Poll
<1>11. ASSUME NEW via, NEW key, Mount(via, key) PROVE FreshInv'
  <2>1. \E T : Fetch(T)
    BY <1>11 DEF Mount
  <2>2. UNCHANGED <<place, at, docs, cache, fresh>>
    BY <1>11 DEF Mount
  <2> QED
    BY <1>6, <2>1, <2>2
<1>12. CASE Debounce
  BY <1>11, <1>12 DEF Debounce
<1>13. CASE TurnPage
  BY <1>11, <1>13 DEF TurnPage
<1>14. ASSUME NEW text \in Queries, Type(text) PROVE FreshInv'
  BY <1>3, <1>14 DEF Type
<1>15. CASE UNCHANGED vars
  BY <1>3, <1>15 DEF vars
<1> QED
  BY <1>5, <1>7, <1>8, <1>9, <1>10, <1>12, <1>13, <1>14, <1>15 DEF Next, User

\* Fresh pages of a query whose matches are not tied, and which both paths match alike,
\* are the pages of one sequence of the matches.
LEMMA FreshPages ==
  ASSUME TypeOK, FreshInv, NEW query \in Queries, Untied(query),
         query = << >> \/ (Agreed(query) /\ Cardinality(PgRows(query)) <= MaxHits),
         \A p \in 1 .. PageCount(Cardinality(PgRows(query))) : <<query, p>> \in fresh
  PROVE  \E s \in SetToSeqs(PgRows(query)) :
           \A p \in 1 .. PageCount(Cardinality(PgRows(query))) :
             /\ cache[<<query, p>>].rows = PageOf(s, p)
             /\ cache[<<query, p>>].total = Cardinality(PgRows(query))
<1> DEFINE S == PgRows(query)
           n == Cardinality(S)
           pages == 1 .. PageCount(n)
<1>1. /\ IsFiniteSet(S) /\ n \in 0 .. Cardinality(Mine) /\ n \in Nat
      /\ pages \subseteq PageNumbers /\ 1 \in pages
  <2>1. S \in SUBSET Mine
    BY PathRows
  <2>2. IsFiniteSet(S) /\ n \in 0 .. Cardinality(Mine)
    BY <2>1, MineSize
  <2> HIDE DEF n
  <2>3. n \in Nat /\ pages \subseteq PageNumbers
    BY <2>2, PageNumber
  <2>4. PageCount(n) \in Nat \ {0}
    BY <2>3, PageCounts
  <2> QED
    BY <2>2, <2>3, <2>4
<1>2. ASSUME NEW p \in pages
      PROVE  \E path \in {"es", "pg"} :
               /\ query = << >> => path = "pg"
               /\ \E s \in PathOrders(query, path) : cache[<<query, p>>].rows = PageOf(s, p)
               /\ cache[<<query, p>>].total = n
  <2> DEFINE k == <<query, p>>
  <2>1. k \in Keys /\ k \in fresh /\ k[1] = query /\ k[2] = p
    BY <1>1, PageNumber
  <2> HIDE DEF k
  <2>2. PICK path \in {"es", "pg"} :
          /\ path = "es" => k[1] # << >>
          /\ cache[k].rows \in PagesOf(k, path) /\ cache[k].total = TotalOf(k, path)
    BY <2>1 DEF FreshInv, CachedFresh
  <2>3. query = << >> => path = "pg"
    BY <2>1, <2>2
  <2>4. PICK s \in PathOrders(query, path) : cache[k].rows = PageOf(s, p)
    BY <2>1, <2>2 DEF PagesOf
  <2>5. cache[k].total = n
    <3>1. CASE path = "pg"
      BY <2>1, <2>2, <3>1 DEF TotalOf
    <3>2. CASE path = "es"
      <4>1. query # << >> /\ Agreed(query) /\ n <= MaxHits
        BY <2>3, <3>2
      <4>2. EsHits(query) = S
        BY <4>1, AgreedHits
      <4>3. cache[k].total = Min({n, MaxHits})
        BY <2>1, <2>2, <3>2, <4>2 DEF TotalOf
      <4> HIDE DEF n
      <4>4. Min({n, MaxHits}) = n
        BY <1>1, <4>1, MinOfTwo, SearchAssumption
      <4> QED
        BY <4>3, <4>4
    <3> QED
      BY <3>1, <3>2
  <2> QED
    BY <2>3, <2>4, <2>5 DEF k
<1> HIDE DEF pages, n, S
<1>3. PICK path \in {"es", "pg"} :
        (query = << >> => path = "pg") /\ PathOrders(query, path) # {}
  BY <1>1, <1>2
<1>4. PICK s \in PathOrders(query, path) : TRUE
  BY <1>3
<1>5. s \in SetToSeqs(PgRows(query))
  BY <1>3, PathsAlike
<1>6. ASSUME NEW p \in pages
      PROVE  cache[<<query, p>>].rows = PageOf(s, p) /\ cache[<<query, p>>].total = n
  <2>1. PICK other \in {"es", "pg"} :
          /\ query = << >> => other = "pg"
          /\ \E t \in PathOrders(query, other) : cache[<<query, p>>].rows = PageOf(t, p)
          /\ cache[<<query, p>>].total = n
    BY <1>2
  <2>2. PICK t \in PathOrders(query, other) : cache[<<query, p>>].rows = PageOf(t, p)
    BY <2>1
  <2>3. s = t
    BY <1>3, <2>1, PathsAlike
  <2> QED
    BY <2>1, <2>2, <2>3
<1> QED
  BY <1>5, <1>6 DEF pages, n, S

\* A walk over the pages of a list or a search, whichever path answers which page,
\* shows each match once, if the documents are up to date, both paths match the same
\* rows and no two matches are due at the same time.
THEOREM PagesAreWalked == Spec => []PagesPartition
<1>1. IInv /\ FreshInv => PagesPartition
  <2> SUFFICES ASSUME TypeOK, FreshInv, NEW query \in Queries,
                      query = << >> \/ (Agreed(query) /\ Cardinality(PgRows(query)) <= MaxHits),
                      \A a, b \in PgRows(query) : at[a] = at[b] => a = b
               PROVE  Walked(query)
    BY DEF PagesPartition, IInv
  <2> DEFINE S == PgRows(query)
             n == Cardinality(S)
             pages == 1 .. PageCount(n)
             shown == FlattenSeq([p \in pages |-> cache[<<query, p>>].rows])
  <2> SUFFICES ASSUME \A p \in pages : <<query, p>> \in fresh
               PROVE  /\ Len(shown) = n /\ ToSet(shown) = S
                      /\ \A p \in pages : cache[<<query, p>>].total = Len(shown)
    BY DEF Walked
  <2>1. PICK s \in SetToSeqs(S) :
          \A p \in pages : cache[<<query, p>>].rows = PageOf(s, p)
                           /\ cache[<<query, p>>].total = n
    BY FreshPages DEF Untied
  <2>2. IsFiniteSet(S)
    BY PathRows, MineSize
  <2>3. n \in Nat /\ s \in [1 .. n -> S] /\ \A x \in S : \E i \in 1 .. n : s[i] = x
    BY <2>2, Reached
  <2>4. s \in Seq(S) /\ Len(s) = n /\ DOMAIN s = 1 .. n
    <3> HIDE DEF n, S
    <3> QED
      BY <2>3
  <2>5. shown = FlattenSeq([p \in pages |-> PageOf(s, p)])
    <3> HIDE DEF pages
    <3> QED
      BY <2>1
  <2>6. shown = s
    BY <2>4, <2>5, PagesJoined
  <2>7. ToSet(s) = S
    <3> HIDE DEF n, S
    <3> QED
      BY <2>3, <2>4 DEF ToSet
  <2> HIDE DEF shown, n, S
  <2> QED
    BY <2>1, <2>4, <2>6, <2>7
<1> QED
  BY <1>1, InvInit, InvStep, FreshInit, FreshStep, PTL DEF Spec

===============================================================================
