---------------------------- MODULE RateLimitProofs ----------------------------
(* Proofs about RateLimit, for every value of its constants. *)
EXTENDS RateLimit, WellFoundedInduction, TLAPS

-----------------------------------------------------------------------------
(* Arithmetic: least elements, windows, sums *)

\* A set of natural numbers that is not empty has a least element.
LEMMA LeastElement ==
  ASSUME NEW T \in SUBSET Nat, T # {}
  PROVE  \E x \in T : \A y \in T : x <= y
<1> DEFINE R == {p \in Nat \X Nat : p[1] < p[2]}
<1>1. IsWellFoundedOn(R, Nat)
  BY NatLessThanWellFounded, Zenon DEF OpToRel
<1>2. PICK x \in T : \A y \in T : ~(<<y, x>> \in R)
  BY <1>1, WFMin, Zenon
<1>3. \A y \in T : <<y, x>> \in R <=> y < x
  OBVIOUS
<1>4. \A y \in T : ~(y < x)
  BY <1>2, <1>3, Zenon
<1> HIDE DEF R
<1>5. \A y \in T : x <= y
  BY <1>4
<1> QED
  BY <1>5

\* Induction over an initial segment of the natural numbers, stated with a set.
LEMMA SegmentInduction ==
  ASSUME NEW n \in Nat, NEW G, 0 \in G, \A k \in 0 .. n - 1 : k \in G => k + 1 \in G
  PROVE  n \in G
<1> DEFINE T == {k \in 0 .. n : k \notin G}
<1>1. ASSUME NEW x \in T, \A y \in T : x <= y PROVE FALSE
  <2>1. x \in 1 .. n
    OBVIOUS
  <2>2. x - 1 \in 0 .. n - 1 /\ x - 1 \notin T
    BY <1>1, <2>1
  <2>3. x - 1 \in G
    BY <2>2
  <2>4. (x - 1) + 1 \in G
    BY <2>2, <2>3
  <2> QED
    BY <2>1, <2>4
<1>2. T \in SUBSET Nat
  OBVIOUS
<1> HIDE DEF T
<1>3. T = {}
  BY <1>1, <1>2, LeastElement
<1> QED
  BY <1>3 DEF T

\* A time lies in its window, which is W long.
LEMMA WindowBounds ==
  ASSUME NEW t \in Nat
  PROVE  /\ Window(t) \in Nat
         /\ W * Window(t) <= t
         /\ t < W * Window(t) + W
  BY RateAssumption DEF Window

\* Windows are numbered no higher than the times in them.
LEMMA WindowOfTime ==
  ASSUME NEW t \in 0 .. MaxTime
  PROVE  Window(t) \in Windows
<1>1. Window(t) \in Nat /\ W * Window(t) <= t
  BY WindowBounds
<1>2. Window(t) <= W * Window(t)
  BY <1>1, RateAssumption
<1> QED
  BY <1>1, <1>2, RateAssumption DEF Windows

\* Senders are numbered from 1, and each has a limit.
LEMMA SenderFacts ==
  /\ Len(HourlyLimit) \in Nat \ {0}
  /\ Senders = 1 .. Len(HourlyLimit)
  /\ \A s \in Senders : Limit(s) \in Nat
  BY RateAssumption DEF Senders, Limit

\* The recursion that sums g has a solution on every initial segment.
LEMMA SumExists ==
  ASSUME NEW n \in Nat, NEW g
  PROVE  \E f : f = [k \in 0 .. n |-> IF k = 0 THEN 0 ELSE f[k - 1] + g[k]]
<1> DEFINE Sum(f, m) == f = [k \in 0 .. m |-> IF k = 0 THEN 0 ELSE f[k - 1] + g[k]]
           G == {m \in Nat : \E f : Sum(f, m)}
<1>1. 0 \in G
  <2>1. Sum([k \in 0 .. 0 |-> 0], 0)
    OBVIOUS
  <2> QED
    BY <2>1
<1>2. ASSUME NEW m \in 0 .. n - 1, m \in G PROVE m + 1 \in G
  <2>1. PICK f : Sum(f, m)
    BY <1>2
  <2> DEFINE h == [k \in 0 .. m + 1 |-> IF k = m + 1 THEN f[m] + g[m + 1] ELSE f[k]]
  <2>2. \A k \in 0 .. m : f[k] = IF k = 0 THEN 0 ELSE f[k - 1] + g[k]
    BY <2>1
  <2>3. \A k \in 0 .. m + 1 : h[k] = IF k = 0 THEN 0 ELSE h[k - 1] + g[k]
    BY <2>2
  <2>4. Sum(h, m + 1)
    BY <2>3
  <2> HIDE DEF Sum, h
  <2> QED
    BY <2>4
<1> HIDE DEF G
<1>3. n \in G
  BY <1>1, <1>2, SegmentInduction
<1> QED
  BY <1>3 DEF G

\* SumOver is the last value of that solution.
LEMMA SumDef ==
  ASSUME NEW n \in Nat, NEW g
  PROVE  \E f : /\ f = [k \in 0 .. n |-> IF k = 0 THEN 0 ELSE f[k - 1] + g[k]]
                /\ SumOver(n, g) = f[n]
  BY SumExists, Zenon DEF SumOver

\* A sum of natural numbers is one.
LEMMA SumType ==
  ASSUME NEW n \in Nat, NEW g \in [1 .. n -> Nat]
  PROVE  SumOver(n, g) \in Nat
<1>1. PICK f : /\ f = [k \in 0 .. n |-> IF k = 0 THEN 0 ELSE f[k - 1] + g[k]]
               /\ SumOver(n, g) = f[n]
  BY SumDef
<1>2. \A k \in 0 .. n : f[k] = IF k = 0 THEN 0 ELSE f[k - 1] + g[k]
  BY <1>1
<1> DEFINE G == {k \in Nat : f[k] \in Nat}
<1>3. 0 \in G
  BY <1>2
<1>4. ASSUME NEW k \in 0 .. n - 1, k \in G PROVE k + 1 \in G
  <2>1. g[k + 1] \in Nat /\ f[k + 1] = f[k] + g[k + 1]
    BY <1>2
  <2> QED
    BY <1>4, <2>1
<1> HIDE DEF G
<1>5. n \in G
  BY <1>3, <1>4, SegmentInduction
<1> QED
  BY <1>1, <1>5 DEF G

\* A sum of zeros is zero.
LEMMA SumZero ==
  ASSUME NEW n \in Nat, NEW g, \A k \in 1 .. n : g[k] = 0
  PROVE  SumOver(n, g) = 0
<1>1. PICK f : /\ f = [k \in 0 .. n |-> IF k = 0 THEN 0 ELSE f[k - 1] + g[k]]
               /\ SumOver(n, g) = f[n]
  BY SumDef
<1>2. \A k \in 0 .. n : f[k] = IF k = 0 THEN 0 ELSE f[k - 1] + g[k]
  BY <1>1
<1> DEFINE G == {k \in Nat : f[k] = 0}
<1>3. 0 \in G
  BY <1>2
<1>4. ASSUME NEW k \in 0 .. n - 1, k \in G PROVE k + 1 \in G
  <2>1. g[k + 1] = 0 /\ f[k + 1] = f[k] + g[k + 1]
    BY <1>2
  <2> QED
    BY <1>4, <2>1
<1> HIDE DEF G
<1>5. n \in G
  BY <1>3, <1>4, SegmentInduction
<1> QED
  BY <1>1, <1>5 DEF G

\* Adding one to one summand adds one to the sum.
LEMMA SumIncrement ==
  ASSUME NEW n \in Nat, NEW g \in [1 .. n -> Nat], NEW s \in 1 .. n,
         NEW h, \A k \in 1 .. n : h[k] = IF k = s THEN g[k] + 1 ELSE g[k]
  PROVE  SumOver(n, h) = SumOver(n, g) + 1
<1>1. PICK f : /\ f = [k \in 0 .. n |-> IF k = 0 THEN 0 ELSE f[k - 1] + g[k]]
               /\ SumOver(n, g) = f[n]
  BY SumDef
<1>2. PICK e : /\ e = [k \in 0 .. n |-> IF k = 0 THEN 0 ELSE e[k - 1] + h[k]]
               /\ SumOver(n, h) = e[n]
  BY SumDef
<1>3. \A k \in 0 .. n : f[k] = IF k = 0 THEN 0 ELSE f[k - 1] + g[k]
  BY <1>1
<1>4. \A k \in 0 .. n : e[k] = IF k = 0 THEN 0 ELSE e[k - 1] + h[k]
  BY <1>2
<1> DEFINE G == {k \in Nat : f[k] \in Nat /\ e[k] = IF k < s THEN f[k] ELSE f[k] + 1}
<1>5. 0 \in G
  BY <1>3, <1>4
<1>6. ASSUME NEW k \in 0 .. n - 1, k \in G PROVE k + 1 \in G
  <2>1. f[k + 1] = f[k] + g[k + 1] /\ e[k + 1] = e[k] + h[k + 1]
    BY <1>3, <1>4
  <2>2. g[k + 1] \in Nat /\ h[k + 1] = IF k + 1 = s THEN g[k + 1] + 1 ELSE g[k + 1]
    OBVIOUS
  <2> QED
    BY <1>6, <2>1, <2>2
<1> HIDE DEF G
<1>7. n \in G
  BY <1>5, <1>6, SegmentInduction
<1> QED
  BY <1>1, <1>2, <1>7 DEF G

\* Among finitely many numbers there is a greatest, and a first of the greatest.
LEMMA FirstGreatest ==
  ASSUME NEW n \in Nat \ {0}, NEW r \in [1 .. n -> Int]
  PROVE  \E s \in 1 .. n : \A t \in 1 .. n : r[s] > r[t] \/ (r[s] = r[t] /\ s <= t)
<1> DEFINE Best(s, m) == \A t \in 1 .. m : r[s] > r[t] \/ (r[s] = r[t] /\ s <= t)
           G == {m \in Nat : m = 0 \/ \E s \in 1 .. m : Best(s, m)}
<1>1. 0 \in G
  OBVIOUS
<1>2. ASSUME NEW m \in 0 .. n - 1, m \in G PROVE m + 1 \in G
  <2>1. CASE m = 0
    <3>1. Best(1, 1)
      OBVIOUS
    <3> QED
      BY <2>1, <3>1
  <2>2. ASSUME NEW s \in 1 .. m, Best(s, m) PROVE m + 1 \in G
    <3>1. CASE r[s] >= r[m + 1]
      <4>1. Best(s, m + 1)
        BY <2>2, <3>1
      <4> QED
        BY <4>1
    <3>2. CASE r[s] < r[m + 1]
      <4>1. \A t \in 1 .. m : r[m + 1] > r[t]
        BY <2>2, <3>2
      <4>2. Best(m + 1, m + 1)
        BY <4>1
      <4> QED
        BY <4>2
    <3> QED
      BY <3>1, <3>2
  <2> QED
    BY <1>2, <2>1, <2>2
<1> HIDE DEF G
<1>3. n \in G
  BY <1>1, <1>2, SegmentInduction
<1> QED
  BY <1>3 DEF G

\* pickMostQuota chooses a sender of the deployment, whatever the counters hold.
LEMMA PickIsSender ==
  ASSUME NEW used \in [Senders -> Nat]
  PROVE  PickMostQuota(used) \in Senders
<1> DEFINE r == [s \in Senders |-> Limit(s) - used[s]]
<1>1. r \in [1 .. Len(HourlyLimit) -> Int]
  BY SenderFacts
<1>2. \E s \in Senders : \A t \in Senders : r[s] > r[t] \/ (r[s] = r[t] /\ s <= t)
  <2> HIDE DEF r
  <2> QED
    BY <1>1, SenderFacts, FirstGreatest
<1>3. \E s \in Senders : \A t \in Senders :
        \/ Limit(s) - used[s] > Limit(t) - used[t]
        \/ Limit(s) - used[s] = Limit(t) - used[t] /\ s <= t
  BY <1>2
<1> QED
  BY <1>3, Zenon DEF PickMostQuota
-----------------------------------------------------------------------------
(* Type correctness *)

\* A run's clock reading is past, and while the run may still use it to reserve,
\* at most MaxLag old.
RunInv ==
  \A e \in Emails :
    /\ at[e] <= now
    /\ phase[e] \in {"picking", "reserving"} => now <= at[e] + MaxLag

TypeInv == TypeOK /\ RunInv

\* Reading a counter and writing it keep it a counter.
LEMMA CounterType ==
  ASSUME NEW c \in Counter, now \in Nat
  PROVE  Value(c) \in Nat /\ Increment(c) \in Counter
  BY RateAssumption DEF Counter, Value, Increment, Ttl

\* The window of a run's clock reading is one of the model's.
LEMMA RunWindow ==
  ASSUME TypeInv, NEW e \in Emails
  PROVE  /\ at[e] \in 0 .. MaxTime
         /\ Window(at[e]) \in Windows
<1>1. at[e] \in 0 .. MaxTime
  BY RateAssumption DEF TypeInv, TypeOK, RunInv
<1> QED
  BY <1>1, WindowOfTime

LEMMA TypeInit == Init => TypeInv
<1> SUFFICES ASSUME Init PROVE TypeInv
  OBVIOUS
<1>1. \A e \in Emails : ScheduledAtFor(e) \in Nat
  BY RateAssumption DEF ScheduledAtFor
<1>2. TypeOK
  BY <1>1, RateAssumption, SenderFacts DEF Init, TypeOK, Phases, Counter
<1>3. RunInv
  BY RateAssumption DEF Init, RunInv
<1> QED
  BY <1>2, <1>3 DEF TypeInv

LEMMA TypeStep == TypeInv /\ [Next]_vars => TypeInv'
<1> SUFFICES ASSUME TypeInv, [Next]_vars PROVE TypeInv'
  OBVIOUS
<1>1. \A e \in Emails : Window(at[e]) \in Windows /\ Window(at[e]) \in Nat
  BY RunWindow DEF Windows
<1>2. MinDelay \in Nat /\ MaxLag \in Nat /\ W \in Nat /\ MaxTime \in Nat /\ Emails \subseteq Nat
  BY RateAssumption
<1>3. 1 \in Senders
  BY SenderFacts
<1> USE DEF TypeInv, TypeOK, RunInv, Phases, limiter
<1>4. CASE Tick
  BY <1>2, <1>4 DEF Tick
<1>5. ASSUME NEW e \in Emails, StartRun(e) PROVE TypeInv'
  <2>1. phase' \in [Emails -> Phases] /\ at' \in [Emails -> Nat]
    BY <1>5 DEF StartRun
  <2>2. RunInv'
    BY <1>2, <1>5 DEF StartRun
  <2> QED
    BY <1>5, <2>1, <2>2 DEF StartRun
<1>6. ASSUME NEW e \in Emails, PickSender(e) PROVE TypeInv'
  <2>1. \A s \in Senders : quota[s][Window(at[e])] \in Counter
    BY <1>1
  <2>2. \A s \in Senders : Value(quota[s][Window(at[e])]) \in Nat
    BY <2>1, CounterType
  <2>3. PickMostQuota([s \in Senders |-> Value(quota[s][Window(at[e])])]) \in Senders
    BY <2>2, PickIsSender
  <2>4. phase' \in [Emails -> Phases] /\ pick' \in [Emails -> Senders]
    BY <1>6, <2>3 DEF PickSender
  <2> QED
    BY <1>6, <2>4 DEF PickSender
<1>7. ASSUME NEW e \in Emails, EndRun(e), due' \in [Emails -> Nat],
             UNCHANGED <<now, limiter, sentAt>>
      PROVE  TypeInv'
  <2>1. phase' \in [Emails -> Phases] /\ at' \in [Emails -> Nat] /\ pick' \in [Emails -> Senders]
    BY <1>3, <1>7 DEF EndRun
  <2>2. RunInv'
    BY <1>7 DEF EndRun
  <2> QED
    BY <1>7, <2>1, <2>2
<1>8. ASSUME NEW e \in Emails, ReserveQuota(e) PROVE TypeInv'
  <2>1. /\ (Window(at[e]) + 1) * W \in Nat
        /\ e * MinDelay \in Nat
    BY <1>1, <1>2
  <2>2. (Window(at[e]) + 1) * W + e * MinDelay \in Nat
    BY <2>1
  <2>3. due' \in [Emails -> Nat]
    BY <1>8, <2>2 DEF ReserveQuota
  <2> QED
    BY <1>7, <1>8, <2>3 DEF ReserveQuota
<1>9. ASSUME NEW e \in Emails, ReserveThrottle(e) PROVE TypeInv'
  <2>1. now + (throttle[pick[e]] + MinDelay - at[e]) \in Nat
    BY <1>2, <1>9 DEF ReserveThrottle, TooSoon
  <2>2. due' \in [Emails -> Nat]
    BY <1>9, <2>1 DEF ReserveThrottle
  <2> QED
    BY <1>7, <1>9, <2>2 DEF ReserveThrottle
<1>10. ASSUME NEW e \in Emails, ReserveOk(e) PROVE TypeInv'
  <2>1. Window(at[e]) \in Windows /\ pick[e] \in Senders
    BY <1>1
  <2>2. Increment(quota[pick[e]][Window(at[e])]) \in Counter
    BY <2>1, CounterType
  <2>3. Increment(global[Window(at[e])]) \in Counter
    BY <2>1, CounterType
  <2>4. /\ throttle' \in [Senders -> Nat] /\ lastAt' \in [Senders -> Nat]
        /\ granted' \in [Senders -> [Windows -> Nat]]
    BY <1>10, <2>1 DEF ReserveOk, Grant
  <2>5. quota' \in [Senders -> [Windows -> Counter]]
    BY <1>10, <2>1, <2>2 DEF ReserveOk, Grant
  <2>6. global' \in [Windows -> Counter]
    BY <1>10, <2>1, <2>3 DEF ReserveOk, Grant
  <2>7. RunInv' /\ phase' \in [Emails -> Phases]
    BY <1>10 DEF ReserveOk
  <2> QED
    BY <1>10, <2>4, <2>5, <2>6, <2>7 DEF ReserveOk
<1>11. ASSUME NEW e \in Emails, Deliver(e) PROVE TypeInv'
  <2>1. phase' \in [Emails -> Phases] /\ sentAt' \in [Emails -> Nat]
    BY <1>11 DEF Deliver
  <2> QED
    BY <1>11, <2>1 DEF Deliver
<1>12. ASSUME NEW e \in Emails, Retry(e) PROVE TypeInv'
  BY <1>7, <1>12 DEF Retry
<1>13. CASE UNCHANGED vars
  BY <1>13 DEF vars
<1> QED
  BY <1>4, <1>5, <1>6, <1>8, <1>9, <1>10, <1>11, <1>12, <1>13 DEF Next

\* Well-typed states; a clock reading is never older than MaxLag when its run
\* reserves with it.
THEOREM TypeCorrect == Spec => [](TypeOK /\ RunInv)
<1>1. TypeInv <=> TypeOK /\ RunInv
  BY DEF TypeInv
<1> QED
  BY <1>1, TypeInit, TypeStep, PTL DEF Spec
-----------------------------------------------------------------------------
(* Spacing *)

\* The throttle key of a sender holds the clock reading of its last reservation.
ThrottleInv == throttle = lastAt

LEMMA ThrottleStep == ThrottleInv /\ [Next]_vars => ThrottleInv'
<1> SUFFICES ASSUME ThrottleInv, [Next]_vars PROVE ThrottleInv'
  OBVIOUS
<1> USE DEF ThrottleInv, limiter
<1>1. CASE UNCHANGED limiter
  BY <1>1
<1>2. ASSUME NEW e \in Emails, ReserveOk(e) PROVE ThrottleInv'
  BY <1>2 DEF ReserveOk, Grant
<1> QED
  BY <1>1, <1>2 DEF Next, vars, Tick, StartRun, PickSender, ReserveQuota, ReserveThrottle,
     Deliver, Retry

\* Reservations of one sender are MinDelay apart by the clocks of the runs that
\* made them, for any number of emails, senders and workers, although a clock
\* reading may be old and out of order when its run reserves.
THEOREM SpacingKept == Spec => GrantsSpaced
<1> DEFINE Spaced == \A s \in Senders :
                       granted'[s] # granted[s] => lastAt'[s] >= lastAt[s] + MinDelay
<1>1. TypeInv /\ ThrottleInv /\ [Next]_vars => [Spaced]_vars
  <2> SUFFICES ASSUME TypeInv, ThrottleInv, [Next]_vars, ~UNCHANGED vars,
                      NEW s \in Senders, granted'[s] # granted[s]
               PROVE  lastAt'[s] >= lastAt[s] + MinDelay
    OBVIOUS
  <2>1. PICK e \in Emails : ReserveOk(e)
    BY DEF Next, Tick, StartRun, PickSender, ReserveQuota, ReserveThrottle, Deliver, Retry,
       limiter
  <2>2. s = pick[e]
    BY <2>1 DEF ReserveOk, Grant, TypeInv, TypeOK
  <2>3. lastAt'[s] = at[e] /\ ~(at[e] < throttle[s] + MinDelay)
    BY <2>1, <2>2 DEF ReserveOk, Grant, TooSoon, TypeInv, TypeOK
  <2> QED
    BY <2>3, RateAssumption DEF ThrottleInv, TypeInv, TypeOK
<1>2. Init => ThrottleInv
  BY DEF Init, ThrottleInv
<1> QED
  BY <1>1, <1>2, TypeInit, TypeStep, ThrottleStep, PTL DEF Spec, GrantsSpaced

-----------------------------------------------------------------------------
(* Quotas *)

\* No run whose clock reading lies in window w reserves this late.
Deadline(w) == W * w + 2 * W

\* The key of window w counts the n reservations made in it, and outlives the
\* last run that may read it.
Counts(c, n, w) == c.count = n /\ (n > 0 => Deadline(w) <= c.expires)

QuotaInv ==
  \A s \in Senders, w \in Windows :
    /\ granted[s][w] <= Limit(s)
    /\ Counts(quota[s][w], granted[s][w], w)

GlobalInv ==
  GlobalLimit > 0 =>
    \A w \in Windows :
      /\ GrantedIn(w) <= GlobalLimit
      /\ Counts(global[w], GrantedIn(w), w)

\* A run that reserves does so before its window's deadline.
LEMMA BeforeDeadline ==
  ASSUME TypeInv, NEW e \in Emails, phase[e] = "reserving"
  PROVE  /\ now < Deadline(Window(at[e]))
         /\ W * Window(at[e]) <= now
<1>1. /\ at[e] \in Nat /\ now \in Nat /\ at[e] <= now /\ now <= at[e] + MaxLag
      /\ MaxLag \in Nat /\ MaxLag <= W /\ W \in Nat
  BY RateAssumption DEF TypeInv, TypeOK, RunInv
<1>2. /\ Window(at[e]) \in Nat
      /\ W * Window(at[e]) <= at[e]
      /\ at[e] < W * Window(at[e]) + W
  BY <1>1, WindowBounds
<1>3. W * Window(at[e]) \in Nat
  BY <1>1, <1>2
<1> QED
  BY <1>1, <1>2, <1>3 DEF Deadline

\* Until the deadline a counter reads as what it counts, and the write of one
\* more reservation keeps it so.
LEMMA CounterExact ==
  ASSUME now \in Nat, NEW w \in Nat, NEW c \in Counter, NEW n \in Nat, Counts(c, n, w),
         now < Deadline(w), W * w <= now
  PROVE  Value(c) = n /\ Counts(Increment(c), n + 1, w)
<1>1. W \in Nat /\ W * w \in Nat
  BY RateAssumption
<1>2. c.count = n /\ c.expires \in Nat /\ (n > 0 => now < c.expires)
  BY <1>1 DEF Counts, Deadline, Counter
<1>3. Value(c) = n
  BY <1>2 DEF Value
<1>4. Deadline(w) <= now + 2 * W
  BY <1>1 DEF Deadline
<1> QED
  BY <1>3, <1>4 DEF Increment, Counts, Ttl

\* Only a granted reservation changes what the limiter keeps.
LEMMA OnlyGrants ==
  ASSUME [Next]_vars, ~(\E e \in Emails : ReserveOk(e))
  PROVE  UNCHANGED limiter
  BY DEF Next, vars, Tick, StartRun, PickSender, ReserveQuota, ReserveThrottle, Deliver, Retry,
     limiter

LEMMA QuotaStep == TypeInv /\ QuotaInv /\ [Next]_vars => QuotaInv'
<1> SUFFICES ASSUME TypeInv, QuotaInv, [Next]_vars PROVE QuotaInv'
  OBVIOUS
<1>1. CASE UNCHANGED limiter
  BY <1>1 DEF QuotaInv, limiter
<1>2. ASSUME NEW e \in Emails, ReserveOk(e) PROVE QuotaInv'
  <2> DEFINE p == pick[e]
             v == Window(at[e])
  <2>1. p \in Senders /\ v \in Windows /\ v \in Nat
    BY RunWindow DEF TypeInv, TypeOK, Windows
  <2>2. /\ now \in Nat /\ quota[p][v] \in Counter /\ granted[p][v] \in Nat
        /\ Counts(quota[p][v], granted[p][v], v)
    BY <2>1 DEF TypeInv, TypeOK, QuotaInv
  <2>3. now < Deadline(v) /\ W * v <= now
    BY <1>2, BeforeDeadline DEF ReserveOk
  <2>4. /\ Value(quota[p][v]) = granted[p][v]
        /\ Counts(Increment(quota[p][v]), granted[p][v] + 1, v)
    BY <2>1, <2>2, <2>3, CounterExact
  <2>5. ~(Value(quota[p][v]) >= Limit(p))
    BY <1>2 DEF ReserveOk, QuotaSpent
  <2>6. granted[p][v] + 1 <= Limit(p)
    BY <2>1, <2>2, <2>4, <2>5, SenderFacts
  <2>7. ASSUME NEW s \in Senders, NEW w \in Windows
        PROVE  /\ granted'[s][w] = IF s = p /\ w = v THEN granted[s][w] + 1 ELSE granted[s][w]
               /\ quota'[s][w] = IF s = p /\ w = v THEN Increment(quota[s][w]) ELSE quota[s][w]
    BY <1>2, <2>1 DEF ReserveOk, Grant, TypeInv, TypeOK
  <2> HIDE DEF p, v
  <2> QED
    BY <2>4, <2>6, <2>7 DEF QuotaInv
<1> QED
  BY <1>1, <1>2, OnlyGrants
\* What the senders were granted together is a number.
LEMMA GrantedType ==
  ASSUME TypeOK, NEW w \in Windows
  PROVE  GrantedIn(w) \in Nat
<1> DEFINE g == [s \in Senders |-> granted[s][w]]
<1>1. g \in [1 .. Len(HourlyLimit) -> Nat]
  BY SenderFacts DEF TypeOK
<1> HIDE DEF g
<1>2. SumOver(Len(HourlyLimit), g) \in Nat
  BY <1>1, SenderFacts, SumType
<1> QED
  BY <1>2 DEF GrantedIn, g

\* A reservation adds one to the grants of its window and to no other.
LEMMA GrantedGrows ==
  ASSUME TypeInv, NEW e \in Emails, ReserveOk(e), NEW w \in Windows
  PROVE  GrantedIn(w)' = IF w = Window(at[e]) THEN GrantedIn(w) + 1 ELSE GrantedIn(w)
<1> DEFINE g == [s \in Senders |-> granted[s][w]]
           h == [s \in Senders |-> granted'[s][w]]
           n == Len(HourlyLimit)
<1>1. /\ n \in Nat /\ Senders = 1 .. n /\ pick[e] \in Senders
      /\ Window(at[e]) \in Windows
  BY SenderFacts, RunWindow DEF TypeInv, TypeOK
<1>2. g \in [Senders -> Nat]
  BY DEF TypeInv, TypeOK
<1>3. \A s \in Senders : h[s] = IF s = pick[e] /\ w = Window(at[e]) THEN g[s] + 1 ELSE g[s]
  BY <1>1 DEF ReserveOk, Grant, TypeInv, TypeOK
<1>4. GrantedIn(w) = SumOver(n, g) /\ GrantedIn(w)' = SumOver(n, h)
  BY DEF GrantedIn
<1>5. CASE w = Window(at[e])
  <2>1. \A s \in Senders : h[s] = IF s = pick[e] THEN g[s] + 1 ELSE g[s]
    BY <1>3, <1>5
  <2> HIDE DEF g, h, n
  <2>2. SumOver(n, h) = SumOver(n, g) + 1
    BY <1>1, <1>2, <2>1, SumIncrement
  <2> QED
    BY <1>4, <1>5, <2>2
<1>6. CASE w # Window(at[e])
  <2>1. g = h
    BY <1>3, <1>6
  <2> HIDE DEF g, h, n
  <2> QED
    BY <1>4, <1>6, <2>1
<1> QED
  BY <1>5, <1>6

LEMMA GlobalStep == TypeInv /\ GlobalInv /\ [Next]_vars => GlobalInv'
<1> SUFFICES ASSUME TypeInv, GlobalInv, [Next]_vars, GlobalLimit > 0, NEW w \in Windows
             PROVE  /\ GrantedIn(w)' <= GlobalLimit
                    /\ Counts(global'[w], GrantedIn(w)', w)
  BY DEF GlobalInv, Counts
<1>0. GrantedIn(w) <= GlobalLimit /\ Counts(global[w], GrantedIn(w), w)
  BY DEF GlobalInv
<1>1. CASE UNCHANGED limiter
  <2>1. GrantedIn(w)' = GrantedIn(w) /\ global' = global
    BY <1>1 DEF GrantedIn, limiter
  <2> QED
    BY <1>0, <2>1
<1>2. ASSUME NEW e \in Emails, ReserveOk(e)
      PROVE  /\ GrantedIn(w)' <= GlobalLimit
             /\ Counts(global'[w], GrantedIn(w)', w)
  <2> DEFINE v == Window(at[e])
  <2>1. v \in Windows /\ v \in Nat
    BY RunWindow DEF Windows
  <2>2. global' = [global EXCEPT ![v] = Increment(global[v])]
    BY <1>2 DEF ReserveOk, Grant
  <2>3. CASE w # v
    <3>1. GrantedIn(w)' = GrantedIn(w)
      BY <1>2, <2>3, GrantedGrows
    <3>2. global'[w] = global[w]
      BY <2>1, <2>2, <2>3 DEF TypeInv, TypeOK
    <3> QED
      BY <1>0, <3>1, <3>2
  <2>4. CASE w = v
    <3>1. now \in Nat /\ global[w] \in Counter
      BY DEF TypeInv, TypeOK
    <3>2. GrantedIn(w) \in Nat
      BY GrantedType DEF TypeInv
    <3>3. now < Deadline(w) /\ W * w <= now
      BY <1>2, <2>4, BeforeDeadline DEF ReserveOk
    <3>4. Value(global[w]) = GrantedIn(w) /\ Counts(Increment(global[w]), GrantedIn(w) + 1, w)
      BY <1>0, <2>1, <2>4, <3>1, <3>2, <3>3, CounterExact
    <3>5. ~(Value(global[w]) >= GlobalLimit)
      BY <1>2, <2>4 DEF ReserveOk, QuotaSpent
    <3>6. GrantedIn(w) + 1 <= GlobalLimit
      BY <3>2, <3>4, <3>5, RateAssumption
    <3>7. GrantedIn(w)' = GrantedIn(w) + 1
      BY <1>2, <2>4, GrantedGrows
    <3>8. global'[w] = Increment(global[w])
      BY <2>2, <2>4 DEF TypeInv, TypeOK
    <3> QED
      BY <3>4, <3>6, <3>7, <3>8
  <2> QED
    BY <2>3, <2>4
<1> QED
  BY <1>1, <1>2, OnlyGrants

LEMMA QuotaInit == Init => QuotaInv /\ GlobalInv
<1> SUFFICES ASSUME Init PROVE QuotaInv /\ GlobalInv
  OBVIOUS
<1>1. QuotaInv
  BY SenderFacts DEF Init, QuotaInv, Counts
<1>2. ASSUME NEW w \in Windows PROVE GrantedIn(w) = 0
  <2> DEFINE g == [s \in Senders |-> granted[s][w]]
  <2>1. \A s \in 1 .. Len(HourlyLimit) : g[s] = 0
    BY SenderFacts DEF Init
  <2> HIDE DEF g
  <2>2. SumOver(Len(HourlyLimit), g) = 0
    BY <2>1, SenderFacts, SumZero
  <2> QED
    BY <2>2 DEF GrantedIn, g
<1>3. GlobalInv
  BY <1>2, RateAssumption DEF Init, GlobalInv, Counts
<1> QED
  BY <1>1, <1>3

\* No sender is granted more than its limit of reservations in a window, for any
\* number of emails, senders and runs in flight: a counter never expires while
\* a run may still read it, as no run lags a whole window behind its clock.
THEOREM SenderQuota == Spec => []SenderQuotaKept
<1>1. QuotaInv => SenderQuotaKept
  BY DEF QuotaInv, SenderQuotaKept
<1> QED
  BY <1>1, TypeInit, TypeStep, QuotaInit, QuotaStep, PTL DEF Spec

\* Nor are all senders together granted more than the global cap.
THEOREM GlobalQuota == Spec => []GlobalQuotaKept
<1>1. GlobalInv => GlobalQuotaKept
  BY DEF GlobalInv, GlobalQuotaKept
<1> QED
  BY <1>1, TypeInit, TypeStep, QuotaInit, GlobalStep, PTL DEF Spec
===============================================================================
