---------------------------- MODULE DashboardProofs ----------------------------
(***************************************************************************)
(* What TLAPS proves of the dashboard's table, for any number of rows and   *)
(* any page size.                                                          *)
(***************************************************************************)
EXTENDS Dashboard, FiniteSetTheorems, SequenceTheorems, TLAPS

-----------------------------------------------------------------------------
(* Pages *)

LEMMA MaxOfOne ==
  ASSUME NEW x \in Int
  PROVE  Max({1, x}) = IF x >= 1 THEN x ELSE 1
<1> DEFINE m == IF x >= 1 THEN x ELSE 1
<1>1. m \in {1, x} /\ \A y \in {1, x} : m >= y
  OBVIOUS
<1>2. \A z \in {1, x} : (\A y \in {1, x} : z >= y) => z = m
  OBVIOUS
<1> QED
  BY <1>1, <1>2 DEF Max

LEMMA MinOfTwo ==
  ASSUME NEW x \in Int, NEW y \in Int
  PROVE  Min({x, y}) = IF x <= y THEN x ELSE y
<1> DEFINE m == IF x <= y THEN x ELSE y
<1>1. m \in {x, y} /\ \A z \in {x, y} : m <= z
  OBVIOUS
<1>2. \A z \in {x, y} : (\A u \in {x, y} : z =< u) => z = m
  OBVIOUS
<1> QED
  BY <1>1, <1>2 DEF Min

\* More rows have no fewer pages.
LEMMA Ceiling ==
  ASSUME NEW n \in Nat \ {0}, NEW a \in Nat, NEW b \in Nat, a <= b
  PROVE  /\ (a + n - 1) \div n \in Nat /\ (b + n - 1) \div n \in Nat
         /\ (a + n - 1) \div n <= (b + n - 1) \div n
<1> DEFINE q == (a + n - 1) \div n
           u == (b + n - 1) \div n
<1>1. q \in Int /\ n * q <= a + n - 1 /\ a + n - 1 < n * q + n
  OBVIOUS
<1>2. u \in Int /\ n * u <= b + n - 1 /\ b + n - 1 < n * u + n
  OBVIOUS
<1> HIDE DEF q, u
<1>3. ASSUME q > u PROVE FALSE
  <2>1. q - u - 1 \in Nat
    BY <1>1, <1>2, <1>3
  <2>2. n * (q - u - 1) >= 0
    BY <2>1
  <2>3. n * (q - u - 1) = n * q - n * u - n
    BY <1>1, <1>2
  <2> QED
    BY <1>1, <1>2, <2>2, <2>3
<1>4. ASSUME NEW z \in Int, n * z + n > 0 PROVE z >= 0
  <2>1. CASE z < 0
    <3>1. - 1 - z \in Nat
      BY <2>1
    <3>2. n * (- 1 - z) >= 0
      BY <3>1
    <3>3. n * (- 1 - z) = - n - n * z
      OBVIOUS
    <3>4. n * z \in Int
      OBVIOUS
    <3> QED
      BY <1>4, <3>2, <3>3, <3>4
  <2> QED
    BY <2>1
<1>5. q >= 0 /\ u >= 0
  BY <1>1, <1>2, <1>4
<1> QED
  BY <1>1, <1>2, <1>3, <1>5 DEF q, u

LEMMA SubsetSize ==
  ASSUME NEW S \in SUBSET Rows
  PROVE  IsFiniteSet(S) /\ Cardinality(S) \in 0 .. Cardinality(Rows)
<1>1. IsFiniteSet(Rows)
  BY DashboardAssumption
<1>2. IsFiniteSet(S) /\ Cardinality(S) <= Cardinality(Rows)
  BY <1>1, FS_Subset
<1>3. Cardinality(S) \in Nat /\ Cardinality(Rows) \in Nat
  BY <1>1, <1>2, FS_CardinalityType
<1> QED
  BY <1>2, <1>3

\* The pages of an answer are pages of the table.
LEMMA PageInRange ==
  ASSUME NEW total \in 0 .. Cardinality(Rows),
         NEW p \in 1 .. Max({1, (total + PageSize - 1) \div PageSize})
  PROVE  p \in Pages
<1>1. Cardinality(Rows) \in Nat /\ PageSize \in Nat \ {0}
  BY SubsetSize, DashboardAssumption
<1> DEFINE q == (total + PageSize - 1) \div PageSize
           u == (Cardinality(Rows) + PageSize - 1) \div PageSize
<1>2. q \in Nat /\ u \in Nat /\ q <= u
  BY <1>1, Ceiling
<1>3. Max({1, q}) = (IF q >= 1 THEN q ELSE 1) /\ Max({1, u}) = (IF u >= 1 THEN u ELSE 1)
  <2> HIDE DEF q, u
  <2> QED
    BY <1>2, MaxOfOne
<1>4. Pages = 1 .. Max({1, u}) /\ p \in 1 .. Max({1, q})
  BY DEF Pages
<1> HIDE DEF q, u
<1> QED
  BY <1>2, <1>3, <1>4

LEMMA FirstPage == 1 \in Pages /\ \E n \in Nat : Pages = 1 .. n
<1>1. 0 \in 0 .. Cardinality(Rows) /\ PageSize \in Nat \ {0}
  BY SubsetSize, DashboardAssumption
<1>2. (0 + PageSize - 1) \div PageSize \in Nat
  BY <1>1, Ceiling
<1>3. 1 \in 1 .. Max({1, (0 + PageSize - 1) \div PageSize})
  <2> DEFINE q == (0 + PageSize - 1) \div PageSize
  <2> HIDE DEF q
  <2>1. q \in Nat
    BY <1>2 DEF q
  <2>2. 1 \in 1 .. Max({1, q})
    BY <2>1, MaxOfOne
  <2> QED
    BY <2>2 DEF q
<1>4. 1 \in Pages
  BY <1>1, <1>3, PageInRange
<1>5. \E n \in Nat : Pages = 1 .. n
  <2> DEFINE u == (Cardinality(Rows) + PageSize - 1) \div PageSize
  <2>1. u \in Nat
    BY <1>1, SubsetSize, Ceiling
  <2>2. Pages = 1 .. Max({1, u})
    BY DEF Pages
  <2> HIDE DEF u
  <2>3. Max({1, u}) \in Nat
    BY <2>1, MaxOfOne
  <2> QED
    BY <2>2, <2>3
<1> QED
  BY <1>4, <1>5

\* A page of a listing holds rows of the table, and no more than fit a page.
LEMMA PageRows ==
  ASSUME NEW t, NEW s \in Listings(t), NEW p \in Pages
  PROVE  PageOf(s, p) \in Seq(Rows) /\ Len(PageOf(s, p)) <= PageSize
<1> DEFINE n == Cardinality(In(t))
<1>1. n \in Nat /\ s \in [1 .. n -> In(t)]
  BY SubsetSize DEF Listings, SetToSeqs, In
<1>2. s \in Seq(Rows) /\ Len(s) = n
  <2> HIDE DEF n
  <2>1. In(t) \subseteq Rows
    BY DEF In
  <2> QED
    BY <1>1, <2>1
<1>3. p \in Nat \ {0} /\ PageSize \in Nat \ {0}
  BY FirstPage, DashboardAssumption
<1> DEFINE m == (p - 1) * PageSize
           l == Min({p * PageSize, Len(s)})
<1>4. m \in Nat /\ p * PageSize = m + PageSize
  BY <1>3
<1>5. l \in Int /\ l <= m + PageSize /\ l <= n
  <2>1. l = IF p * PageSize <= Len(s) THEN p * PageSize ELSE Len(s)
    <3> DEFINE x == p * PageSize
               y == Len(s)
    <3>1. x \in Int /\ y \in Int
      BY <1>1, <1>2, <1>3
    <3> HIDE DEF x, y
    <3>2. Min({x, y}) = IF x <= y THEN x ELSE y
      BY <3>1, MinOfTwo
    <3> QED
      BY <3>2 DEF x, y
  <2> QED
    BY <1>1, <1>2, <1>3, <1>4, <2>1
<1> HIDE DEF m, l, n
<1>6. \A i \in m + 1 .. l : s[i] \in Rows
  BY <1>1, <1>2, <1>4, <1>5, ElementOfSeq
<1>7. /\ SubSeq(s, m + 1, l) \in Seq(Rows)
      /\ Len(SubSeq(s, m + 1, l)) = IF m + 1 <= l THEN l - (m + 1) + 1 ELSE 0
  BY <1>4, <1>5, <1>6, SubSeqProperties
<1>8. Len(SubSeq(s, m + 1, l)) <= PageSize
  BY <1>3, <1>4, <1>5, <1>7
<1>9. PageOf(s, p) = SubSeq(s, m + 1, l)
  BY DEF PageOf, m, l
<1> QED
  BY <1>7, <1>8, <1>9

-----------------------------------------------------------------------------
(* Requests *)

LEMMA NoAnswer ==
  /\ NoData \in Answers /\ Len(NoData.rows) = 0
  /\ Idle \in Fetches /\ Asked \in Fetches /\ Idle.data = NoData /\ Asked.data = NoData
  /\ Idle.got = {} /\ Asked.got = {} /\ Idle.busy = FALSE /\ Asked.busy = TRUE
<1>1. 0 \in 0 .. Cardinality(Rows) /\ << >> \in Seq(Rows) /\ Len(<< >>) = 0
  BY SubsetSize, EmptySeq
<1>2. NoData \in Answers /\ Len(NoData.rows) = 0
  BY <1>1 DEF NoData, Answers
<1> QED
  BY <1>2 DEF Idle, Asked, Fetches

\* A fetch starts the requests of some keys, and forgets a failure only where one is
\* under way.
LEMMA FetchFields ==
  ASSUME TypeOK, NEW S \in SUBSET Keys, Fetch(S)
  PROVE  /\ asked' \in [Keys -> Fetches]
         /\ \A k \in Keys : asked'[k] = asked[k] \/ asked'[k] = Asked
         /\ \A k \in Keys : asked'[k] # asked[k] => ~asked[k].busy
         /\ failed' \subseteq failed
         /\ \A k \in failed : k \notin failed' => asked'[k].busy
<1>1. \A k \in Keys : asked'[k] = IF k \in S /\ ~asked[k].busy THEN Asked ELSE asked[k]
  BY DEF Fetch
<1>2. asked \in [Keys -> Fetches] /\ Asked \in Fetches
  BY NoAnswer DEF TypeOK
<1>3. asked' \in [Keys -> Fetches]
  BY <1>2 DEF Fetch
<1>4. failed' = failed \ {k \in S : ~cache[k].has}
  BY DEF Fetch
<1>5. \A k \in S : asked'[k].busy
  BY <1>1, NoAnswer
<1> QED
  BY <1>1, <1>3, <1>4, <1>5

\* What the user does: no answer and no row changes.
LEMMA MountFields ==
  ASSUME TypeOK, NEW via \in Keys, NEW key \in Keys, Mount(via, key)
  PROVE  /\ tab' \in Tabs /\ page' \in Pages /\ lastKey' \in Keys
         /\ UNCHANGED <<place, at, announced, cache, stale, owed>>
         /\ left' \in [BoundedKinds -> Nat]
         /\ \E T \in SUBSET Keys : Fetch(T)
<1>1. key[1] \in Tabs /\ key[2] \in Pages
  BY DEF Keys
<1>2. lastKey' \in Keys
  BY DEF Mount, TypeOK
<1>3. \E T \in SUBSET Keys : Fetch(T)
  <2>1. PICK old \in SUBSET {k \in {via, key} : cache[k].has} :
          Fetch({k \in {via, key} : ~cache[k].has \/ k \in stale} \cup old)
    BY DEF Mount
  <2>2. {k \in {via, key} : ~cache[k].has \/ k \in stale} \cup old \subseteq Keys
    OBVIOUS
  <2> QED
    BY <2>1, <2>2
<1>4. left' \in [BoundedKinds -> Nat]
  <2>1. left \in [BoundedKinds -> Nat] /\ left["navigate"] - 1 \in Nat
    BY DEF TypeOK, Mount, Once, BoundedKinds
  <2> QED
    BY <2>1 DEF Mount, Once
<1> QED
  BY <1>1, <1>2, <1>3, <1>4 DEF Mount, dbVars

LEMMA UserMounts ==
  ASSUME TypeOK, User
  PROVE  \E via, key \in Keys : Mount(via, key)
<1>1. /\ page \in Pages /\ tab \in Tabs /\ 1 \in Pages /\ \E n \in Nat : Pages = 1 .. n
      /\ \A t \in Tabs, p \in Pages : <<t, p>> \in Keys
  BY FirstPage DEF TypeOK, Keys
<1>2. CASE PrevPage
  <2>1. page - 1 \in Pages
    <3>1. page > 1
      BY <1>2 DEF PrevPage
    <3> QED
      BY <1>1, <3>1
  <2>2. Mount(<<tab, page - 1>>, <<tab, page - 1>>)
    BY <1>2 DEF PrevPage
  <2> QED
    BY <1>1, <2>1, <2>2
<1>3. CASE NextPage
  <2>1. Shown \in Answers
    BY DEF Shown, Key, TypeOK, Keys
  <2>2. Shown.total \in 0 .. Cardinality(Rows)
    BY <2>1 DEF Answers
  <2>3. page + 1 \in 1 .. TotalPages
    <3> DEFINE q == (Shown.total + PageSize - 1) \div PageSize
    <3>1. q \in Nat
      BY <2>2, SubsetSize, Ceiling, DashboardAssumption
    <3>2. TotalPages = Max({1, q}) /\ page < TotalPages
      BY <1>3 DEF TotalPages, NextPage
    <3> HIDE DEF q
    <3>3. TotalPages \in Nat
      BY <3>1, <3>2, MaxOfOne
    <3> QED
      BY <1>1, <3>2, <3>3
  <2>4. page + 1 \in Pages
    BY <2>2, <2>3, PageInRange DEF TotalPages
  <2>5. Mount(<<tab, page + 1>>, <<tab, page + 1>>)
    BY <1>3 DEF NextPage
  <2> QED
    BY <1>1, <2>4, <2>5
<1>4. ASSUME NEW t \in Tabs, SwitchTab(t)
      PROVE  \E via, key \in Keys : Mount(via, key)
  <2>1. Mount(<<t, page>>, <<t, 1>>)
    BY <1>4 DEF SwitchTab
  <2> QED
    BY <1>1, <2>1
<1> QED
  BY <1>2, <1>3, <1>4 DEF User

-----------------------------------------------------------------------------
(* Type correctness *)

\* The first of the two SELECTs, and the second.
LEMMA SelectRowsFields ==
  ASSUME TypeOK, NEW k \in Keys, SelectRows(k)
  PROVE  /\ asked' \in [Keys -> Fetches] /\ \A l \in Keys \ {k} : asked'[l] = asked[l]
         /\ Len(asked'[k].data.rows) <= PageSize
         /\ asked'[k].busy = TRUE /\ asked'[k].got = asked[k].got \cup {"rows"}
         /\ asked'[k].seen = Rows \ In("none")
<1>1. PICK s \in Listings(k[1]) :
        asked' = [asked EXCEPT ![k] =
                   [asked[k] EXCEPT !.got = asked[k].got \cup {"rows"},
                                    !.data = [asked[k].data EXCEPT !.rows = PageOf(s, k[2])],
                                    !.seen = Rows \ In("none")]]
  BY DEF SelectRows, TypeOK
<1>2. PageOf(s, k[2]) \in Seq(Rows) /\ Len(PageOf(s, k[2])) <= PageSize
  BY PageRows DEF Keys
<1>3. asked[k] \in Fetches /\ asked[k].data \in Answers /\ asked[k].busy = TRUE
  BY DEF TypeOK, SelectRows, Fetches
<1> DEFINE g == asked[k].got \cup {"rows"}
           d == [asked[k].data EXCEPT !.rows = PageOf(s, k[2])]
           n == Rows \ In("none")
           f == [asked[k] EXCEPT !.got = g, !.data = d, !.seen = n]
<1>4. d \in Answers /\ d.rows = PageOf(s, k[2])
  BY <1>2, <1>3 DEF Answers
<1>5. g \in SUBSET {"rows", "total"} /\ n \in SUBSET Rows
  BY <1>3 DEF Fetches
<1>6. asked' = [asked EXCEPT ![k] = f] /\ asked \in [Keys -> Fetches]
  BY <1>1 DEF TypeOK
<1> HIDE DEF g, d, n
<1>7. f.busy = TRUE /\ f.got = g /\ f.data = d /\ f.seen = n
  BY <1>3 DEF Fetches
<1>8. f \in Fetches
  BY <1>3, <1>4, <1>5 DEF Fetches
<1>9. asked'[k] = f
  BY <1>6
<1> HIDE DEF f
<1> QED
  BY <1>2, <1>4, <1>6, <1>7, <1>8, <1>9 DEF g, n

LEMMA SelectCountFields ==
  ASSUME TypeOK, NEW k \in Keys, SelectCount(k)
  PROVE  /\ asked' \in [Keys -> Fetches] /\ \A l \in Keys \ {k} : asked'[l] = asked[l]
         /\ asked'[k].data.rows = asked[k].data.rows
         /\ asked'[k].busy = TRUE /\ asked'[k].got = asked[k].got \cup {"total"}
         /\ asked'[k].seen = asked[k].seen
<1>1. asked[k] \in Fetches /\ asked[k].data \in Answers /\ asked[k].busy = TRUE
  BY DEF TypeOK, SelectCount, Fetches
<1>2. Cardinality(In(k[1])) \in 0 .. Cardinality(Rows)
  BY SubsetSize DEF In
<1> DEFINE g == asked[k].got \cup {"total"}
           d == [asked[k].data EXCEPT !.total = Cardinality(In(k[1]))]
           f == [asked[k] EXCEPT !.got = g, !.data = d]
<1>3. d \in Answers /\ d.rows = asked[k].data.rows
  BY <1>1, <1>2 DEF Answers
<1>4. g \in SUBSET {"rows", "total"}
  BY <1>1 DEF Fetches
<1>5. asked' = [asked EXCEPT ![k] = f] /\ asked \in [Keys -> Fetches]
  BY DEF TypeOK, SelectCount
<1> HIDE DEF g, d
<1>6. f.busy = TRUE /\ f.got = g /\ f.data = d /\ f.seen = asked[k].seen
  BY <1>1 DEF Fetches
<1>7. f \in Fetches
  BY <1>1, <1>3, <1>4 DEF Fetches
<1>8. asked'[k] = f
  BY <1>5
<1> HIDE DEF f
<1> QED
  BY <1>3, <1>5, <1>6, <1>7, <1>8 DEF g

LEMMA ReceiveFields ==
  ASSUME TypeOK, NEW k \in Keys, Receive(k)
  PROVE  /\ cache' \in [Keys -> Answers] /\ \A l \in Keys \ {k} : cache'[l] = cache[l]
         /\ cache'[k].rows = asked[k].data.rows /\ cache'[k].total = asked[k].data.total
<1>1. asked[k].data \in Answers /\ cache \in [Keys -> Answers]
  BY DEF TypeOK, Fetches
<1> DEFINE d == [asked[k].data EXCEPT !.has = TRUE]
<1>2. d \in Answers /\ d.rows = asked[k].data.rows /\ d.total = asked[k].data.total
  BY <1>1 DEF Answers
<1>3. cache' = [cache EXCEPT ![k] = d]
  BY DEF Receive
<1> HIDE DEF d
<1> QED
  BY <1>1, <1>2, <1>3

LEMMA TypeInit == Init => TypeOK
<1> SUFFICES ASSUME Init PROVE TypeOK
  OBVIOUS
<1>1. PageSize \in Nat \ {0} /\ Budget \in [BoundedKinds -> Nat]
  BY DashboardAssumption
<1>2. 1 \in Pages /\ <<"scheduled", 1>> \in Keys
  BY FirstPage DEF Keys, Tabs
<1>3. cache \in [Keys -> Answers] /\ \A k \in Keys : Len(cache[k].rows) <= PageSize
  BY <1>1, NoAnswer DEF Init
<1>4. \A k \in Keys : asked[k] = Idle \/ asked[k] = Asked
  BY <1>2 DEF Init
<1>5. asked \in [Keys -> Fetches]
  BY <1>2, NoAnswer DEF Init
<1>6. \A k \in Keys : Len(asked[k].data.rows) <= PageSize
  BY <1>1, <1>4, NoAnswer
<1> QED
  BY <1>1, <1>2, <1>3, <1>5, <1>6 DEF Init, TypeOK, Tabs

LEMMA TypeStep == TypeOK /\ [Next]_vars => TypeOK'
<1> SUFFICES ASSUME TypeOK, [Next]_vars PROVE TypeOK'
  OBVIOUS
<1> USE DEF dbVars, uiVars
<1> DEFINE Short == \A k \in Keys : Len(cache[k].rows) <= PageSize
                                    /\ Len(asked[k].data.rows) <= PageSize
<1>1. /\ place \in [Rows -> Tabs \cup {"none"}] /\ at \in [Rows -> Times]
      /\ cache \in [Keys -> Answers] /\ asked \in [Keys -> Fetches] /\ Short
      /\ owed \in [Keys -> SUBSET announced] /\ left \in [BoundedKinds -> Nat]
      /\ failed \subseteq Keys /\ stale \subseteq Keys /\ Key \in Keys
      /\ PageSize \in Nat \ {0}
  BY DashboardAssumption DEF TypeOK, Key, Keys
<1>2. ASSUME NEW kind \in BoundedKinds, Once(kind) PROVE left' \in [BoundedKinds -> Nat]
  <2>1. left[kind] - 1 \in Nat
    BY <1>1, <1>2 DEF Once
  <2> QED
    BY <1>1, <1>2, <2>1 DEF Once
<1>3. {"fetch", "repark", "submit", "navigate"} \subseteq BoundedKinds
  BY DEF BoundedKinds
<1>4. ASSUME NEW S \in SUBSET Keys, Fetch(S)
      PROVE  /\ asked' \in [Keys -> Fetches] /\ failed' \subseteq Keys
             /\ \A k \in Keys : Len(asked'[k].data.rows) <= PageSize
  BY <1>1, <1>4, FetchFields, NoAnswer
<1>5. ASSUME NEW e \in Rows, Database(e) PROVE TypeOK'
  <2>1. CASE AddRow(e)
    BY <1>1, <2>1 DEF AddRow, TypeOK, Tabs
  <2>2. CASE FinishRow(e)
    BY <1>1, <2>2 DEF FinishRow, TypeOK, Tabs
  <2>3. CASE ReparkRow(e)
    BY <1>1, <1>2, <1>3, <2>3 DEF ReparkRow, TypeOK
  <2> QED
    BY <1>5, <2>1, <2>2, <2>3 DEF Database
<1>6. ASSUME NEW k \in Keys, Api(k) PROVE TypeOK'
  <2>2. CASE SelectRows(k)
    <3>1. /\ asked' \in [Keys -> Fetches]
          /\ \A l \in Keys : Len(asked'[l].data.rows) <= PageSize
      BY <1>1, <2>2, SelectRowsFields
    <3> QED
      BY <1>1, <2>2, <3>1 DEF SelectRows, TypeOK
  <2>3. CASE SelectCount(k)
    <3>1. /\ asked' \in [Keys -> Fetches]
          /\ \A l \in Keys : Len(asked'[l].data.rows) <= PageSize
      BY <1>1, <2>3, SelectCountFields
    <3> QED
      BY <1>1, <2>3, <3>1 DEF SelectCount, TypeOK
  <2>4. CASE Receive(k)
    <3>1. asked' = [asked EXCEPT ![k] = Idle]
      BY <2>4 DEF Receive
    <3>2. cache' \in [Keys -> Answers] /\ asked' \in [Keys -> Fetches]
      BY <1>1, <2>4, <3>1, NoAnswer, ReceiveFields
    <3>3. \A l \in Keys : Len(cache'[l].rows) <= PageSize
      BY <1>1, <2>4, ReceiveFields
    <3>4. \A l \in Keys : Len(asked'[l].data.rows) <= PageSize
      BY <1>1, <3>1, NoAnswer
    <3>5. owed' \in [Keys -> SUBSET announced] /\ lastKey' \in Keys
      BY <1>1, <2>4 DEF Receive, TypeOK
    <3> QED
      BY <1>1, <2>4, <3>2, <3>3, <3>4, <3>5 DEF Receive, TypeOK
  <2> QED
    BY <1>6, <2>2, <2>3, <2>4 DEF Api
<1>7. ASSUME NEW k \in Keys, FetchFails(k) PROVE TypeOK'
  <2>1. asked' \in [Keys -> Fetches] /\ \A l \in Keys : Len(asked'[l].data.rows) <= PageSize
    BY <1>1, <1>7, NoAnswer DEF FetchFails
  <2> QED
    BY <1>1, <1>2, <1>3, <1>7, <2>1 DEF FetchFails, TypeOK
<1>8. ASSUME NEW S \in SUBSET Rows, Announce(S) PROVE TypeOK'
  <2>1. Invalidate(S) /\ Once("submit")
    BY <1>8 DEF Announce
  <2>2. announced' \subseteq Rows /\ announced \subseteq announced'
    BY <2>1 DEF Invalidate, TypeOK
  <2>3. owed' \in [Keys -> SUBSET announced']
    BY <1>1, <2>1, <2>2 DEF Invalidate
  <2>4. \A k \in Keys : asked'[k] = asked[k] \/ asked'[k] = Asked
    BY <1>1, <2>1 DEF Invalidate
  <2>5. asked' \in [Keys -> Fetches]
    BY <1>1, <2>1, NoAnswer DEF Invalidate
  <2>6. \A k \in Keys : Len(asked'[k].data.rows) <= PageSize
    BY <1>1, <2>4, NoAnswer
  <2>7. failed' \subseteq Keys /\ stale' \subseteq Keys
    BY <1>1, <2>1 DEF Invalidate
  <2> QED
    BY <1>1, <1>2, <1>3, <2>1, <2>2, <2>3, <2>5, <2>6, <2>7 DEF Invalidate, TypeOK
<1>9. CASE Poll
  BY <1>1, <1>4, <1>9 DEF Poll, TypeOK
<1>10. CASE User
  <2>1. PICK via, key \in Keys : Mount(via, key)
    BY <1>10, UserMounts
  <2>2. /\ tab' \in Tabs /\ page' \in Pages /\ lastKey' \in Keys
        /\ UNCHANGED <<place, at, announced, cache, stale, owed>>
        /\ left' \in [BoundedKinds -> Nat]
        /\ \E T \in SUBSET Keys : Fetch(T)
    BY <2>1, MountFields
  <2>3. /\ asked' \in [Keys -> Fetches] /\ failed' \subseteq Keys
        /\ \A k \in Keys : Len(asked'[k].data.rows) <= PageSize
    BY <1>4, <2>2
  <2> QED
    BY <1>1, <2>2, <2>3 DEF TypeOK
<1>11. CASE UNCHANGED vars
  BY <1>11 DEF vars, TypeOK
<1> QED
  BY <1>5, <1>6, <1>7, <1>8, <1>9, <1>10, <1>11 DEF Next

\* Every reachable state is well-typed: no answer holds more rows than a page, none
\* counts more than the table has, and the user is on one of the table's pages.
THEOREM TypeCorrect == Spec => []TypeOK
<1> QED
  BY TypeInit, TypeStep, PTL DEF Spec

-----------------------------------------------------------------------------
(* The rows of a campaign that has been announced *)

\* Announced rows are in the table, and stay in it.  Nothing has been got for a request
\* that is not under way; one that has read the rows has seen those its answer is owed,
\* as an announcement while its data are shown starts it afresh.
ReadInv ==
  /\ announced \cap In("none") = {}
  /\ \A k \in Keys :
       /\ asked[k].got # {} => asked[k].busy
       /\ "rows" \in asked[k].got => owed[k] \subseteq asked[k].seen
  /\ NewRowsRead

LEMMA ReadInit == Init => ReadInv
<1> SUFFICES ASSUME Init PROVE ReadInv
  OBVIOUS
<1>1. <<"scheduled", 1>> \in Keys
  BY FirstPage DEF Keys, Tabs
<1>2. \A k \in Keys : asked[k] = Idle \/ asked[k] = Asked
  BY <1>1 DEF Init
<1>3. \A k \in Keys : asked[k].got = {} /\ owed[k] = {}
  BY <1>2, NoAnswer DEF Init
<1> QED
  BY <1>3 DEF Init, ReadInv, NewRowsRead

LEMMA ReadStep == TypeOK /\ ReadInv /\ [Next]_vars => ReadInv'
<1> SUFFICES ASSUME TypeOK, ReadInv, [Next]_vars PROVE ReadInv'
  OBVIOUS
<1> USE DEF dbVars, uiVars
<1> DEFINE Got(k) == asked[k].got # {} => asked[k].busy
           Seen(k) == "rows" \in asked[k].got => owed[k] \subseteq asked[k].seen
           Paid(k) == k \notin failed /\ ~asked[k].busy => owed[k] = {}
           Known == announced \cap {e \in Rows : place[e] = "none"} = {}
<1>1. Known /\ \A k \in Keys : Got(k) /\ Seen(k) /\ Paid(k)
  BY DEF ReadInv, NewRowsRead, In
<1>2. ASSUME Known', \A k \in Keys : Got(k)' /\ Seen(k)' /\ Paid(k)' PROVE ReadInv'
  BY <1>2 DEF ReadInv, NewRowsRead, In
<1>3. /\ asked \in [Keys -> Fetches] /\ place \in [Rows -> Tabs \cup {"none"}]
      /\ announced \subseteq Rows /\ owed \in [Keys -> SUBSET announced] /\ Key \in Keys
  BY DEF TypeOK, Key, Keys
<1>4. ASSUME NEW S \in SUBSET Keys, Fetch(S), UNCHANGED <<place, announced, owed>>
      PROVE  ReadInv'
  <2>1. /\ \A k \in Keys : asked'[k] = asked[k] \/ asked'[k] = Asked
        /\ failed' \subseteq failed
        /\ \A k \in failed : k \notin failed' => asked'[k].busy
    BY <1>4, FetchFields
  <2>2. ASSUME NEW k \in Keys PROVE Got(k)' /\ Seen(k)' /\ Paid(k)'
    <3>1. CASE asked'[k] = Asked
      BY <3>1, NoAnswer
    <3>2. CASE asked'[k] = asked[k]
      BY <1>1, <1>4, <2>1, <3>2
    <3> QED
      BY <2>1, <3>1, <3>2
  <2> QED
    BY <1>1, <1>2, <1>4, <2>2
<1>5. ASSUME NEW e \in Rows, Database(e) PROVE ReadInv'
  <2>1. UNCHANGED <<announced, failed, asked, owed>>
    BY <1>5 DEF Database, AddRow, FinishRow, ReparkRow
  <2>2. \A x \in Rows : place'[x] = "none" => place[x] = "none"
    BY <1>3, <1>5 DEF Database, AddRow, FinishRow, ReparkRow
  <2> QED
    BY <1>1, <1>2, <2>1, <2>2
<1>6. ASSUME NEW k \in Keys, SelectRows(k) PROVE ReadInv'
  <2>1. UNCHANGED <<place, announced, owed, failed>>
    BY <1>6 DEF SelectRows
  <2>2. /\ \A l \in Keys \ {k} : asked'[l] = asked[l]
        /\ asked'[k].busy = TRUE /\ asked'[k].seen = Rows \ In("none")
    BY <1>6, SelectRowsFields
  <2>3. owed[k] \subseteq Rows \ In("none")
    BY <1>1, <1>3 DEF In
  <2>4. ASSUME NEW l \in Keys PROVE Got(l)' /\ Seen(l)' /\ Paid(l)'
    <3>1. CASE l = k
      BY <2>1, <2>2, <2>3, <3>1
    <3>2. CASE l # k
      BY <1>1, <2>1, <2>2, <3>2
    <3> QED
      BY <3>1, <3>2
  <2> QED
    BY <1>1, <1>2, <2>1, <2>4
<1>7. ASSUME NEW k \in Keys, SelectCount(k) PROVE ReadInv'
  <2>1. UNCHANGED <<place, announced, owed, failed>>
    BY <1>7 DEF SelectCount
  <2>2. /\ \A l \in Keys \ {k} : asked'[l] = asked[l]
        /\ asked'[k].busy = TRUE /\ asked'[k].got = asked[k].got \cup {"total"}
        /\ asked'[k].seen = asked[k].seen
    BY <1>7, SelectCountFields
  <2>3. ASSUME NEW l \in Keys PROVE Got(l)' /\ Seen(l)' /\ Paid(l)'
    <3>1. CASE l = k
      BY <1>1, <2>1, <2>2, <3>1
    <3>2. CASE l # k
      BY <1>1, <2>1, <2>2, <3>2
    <3> QED
      BY <3>1, <3>2
  <2> QED
    BY <1>1, <1>2, <2>1, <2>3
<1>8. ASSUME NEW k \in Keys, Receive(k) PROVE ReadInv'
  <2>1. /\ UNCHANGED <<place, announced>> /\ failed' = failed \ {k}
        /\ asked' = [asked EXCEPT ![k] = Idle]
        /\ owed' = [owed EXCEPT ![k] = owed[k] \ asked[k].seen]
        /\ asked[k].got = {"rows", "total"}
    BY <1>8 DEF Receive
  <2>2. owed'[k] = {}
    BY <1>1, <1>3, <2>1
  <2>3. ASSUME NEW l \in Keys PROVE Got(l)' /\ Seen(l)' /\ Paid(l)'
    <3>1. CASE l = k
      BY <1>3, <2>1, <2>2, <3>1, NoAnswer
    <3>2. CASE l # k
      <4>1. asked'[l] = asked[l] /\ owed'[l] = owed[l] /\ (l \in failed' <=> l \in failed)
        BY <1>3, <2>1, <3>2
      <4> QED
        BY <1>1, <4>1
    <3> QED
      BY <3>1, <3>2
  <2> QED
    BY <1>1, <1>2, <2>1, <2>3
<1>9. ASSUME NEW k \in Keys, FetchFails(k) PROVE ReadInv'
  <2>1. /\ UNCHANGED <<place, announced, owed>> /\ failed' = failed \cup {k}
        /\ asked' = [asked EXCEPT ![k] = Idle]
    BY <1>9 DEF FetchFails
  <2>2. ASSUME NEW l \in Keys PROVE Got(l)' /\ Seen(l)' /\ Paid(l)'
    <3>1. CASE l = k
      BY <1>3, <2>1, <3>1, NoAnswer
    <3>2. CASE l # k
      BY <1>1, <1>3, <2>1, <3>2
    <3> QED
      BY <3>1, <3>2
  <2> QED
    BY <1>1, <1>2, <2>1, <2>2
<1>10. ASSUME NEW S \in SUBSET Rows, Announce(S) PROVE ReadInv'
  <2>1. /\ announced' = announced \cup S /\ place' = place
        /\ owed' = [owed EXCEPT ![Key] = IF cache[Key].has THEN announced' ELSE owed[Key]]
        /\ asked' = [asked EXCEPT ![Key] = IF asked[Key].busy /\ ~cache[Key].has
                                          THEN asked[Key] ELSE Asked]
        /\ failed' = IF cache[Key].has THEN failed ELSE failed \ {Key}
        /\ S \subseteq Rows \ In("none")
    BY <1>10 DEF Announce, Invalidate
  <2>2. Known'
    BY <1>1, <2>1 DEF In
  <2>3. ASSUME NEW l \in Keys PROVE Got(l)' /\ Seen(l)' /\ Paid(l)'
    <3>1. CASE l = Key /\ asked'[l] = Asked
      BY <3>1, NoAnswer
    <3>2. CASE l = Key /\ asked'[l] = asked[Key] /\ asked[Key].busy /\ ~cache[Key].has
      BY <1>1, <1>3, <2>1, <3>2
    <3>3. CASE l # Key
      <4>1. asked'[l] = asked[l] /\ owed'[l] = owed[l] /\ (l \in failed' <=> l \in failed)
        BY <1>3, <2>1, <3>3
      <4> QED
        BY <1>1, <4>1
    <3>4. l = Key => asked'[l] = Asked
                     \/ (asked'[l] = asked[Key] /\ asked[Key].busy /\ ~cache[Key].has)
      BY <1>3, <2>1
    <3> QED
      BY <3>1, <3>2, <3>3, <3>4
  <2> QED
    BY <1>2, <2>2, <2>3
<1>11. CASE Poll
  BY <1>3, <1>4, <1>11 DEF Poll
<1>12. CASE User
  <2>1. PICK via, key \in Keys : Mount(via, key)
    BY <1>12, UserMounts
  <2>2. UNCHANGED <<place, announced, owed>> /\ \E T \in SUBSET Keys : Fetch(T)
    BY <2>1, MountFields
  <2> QED
    BY <1>4, <2>2
<1>13. CASE UNCHANGED vars
  BY <1>1, <1>2, <1>13 DEF vars
<1> QED
  BY <1>5, <1>6, <1>7, <1>8, <1>9, <1>10, <1>11, <1>12, <1>13 DEF Next, Api

\* Once the query that was shown when a campaign was announced is not being fetched any
\* more, its answer was read with the campaign's rows in the table.
THEOREM NewRowsAreRead == Spec => []NewRowsRead
<1>1. ReadInv => NewRowsRead
  BY DEF ReadInv
<1> QED
  BY <1>1, TypeInit, TypeStep, ReadInit, ReadStep, PTL DEF Spec

===============================================================================
