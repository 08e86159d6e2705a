--------------------------- MODULE SlackNotifyProofs ---------------------------
(* Proofs about SlackNotify, for every value of its constants. *)
EXTENDS SlackNotify, FiniteSetTheorems, TLAPS

-----------------------------------------------------------------------------
(* Type correctness *)

\* A time lies in its window, which is W long and has a key of its own.
LEMMA WindowBounds ==
  ASSUME NEW t \in 0 .. MaxTime
  PROVE  /\ Window(t) \in Windows /\ Window(t) \in Nat
         /\ W * Window(t) <= t
         /\ t < W * Window(t) + W
<1>1. Window(t) \in Nat /\ W * Window(t) <= t /\ t < W * Window(t) + W
  BY SlackAssumption DEF Window
<1>2. Window(t) <= W * Window(t)
  BY <1>1, SlackAssumption
<1> QED
  BY <1>1, <1>2, SlackAssumption DEF Windows

LEMMA TypeInit == Init => TypeOK
  BY SlackAssumption DEF Init, TypeOK

LEMMA FaultType ==
  ASSUME TypeOK, NEW k \in FaultKinds, Fault(k)
  PROVE  left' \in [FaultKinds -> Nat] /\ left'[k] < left[k]
<1>1. left \in [FaultKinds -> Nat] /\ left[k] > 0
  BY DEF TypeOK, Fault
<1>2. left[k] - 1 \in Nat
  BY <1>1
<1> QED
  BY <1>1, <1>2 DEF Fault

LEMMA TypeStep == TypeOK /\ [Next]_vars => TypeOK'
<1> SUFFICES ASSUME TypeOK, [Next]_vars PROVE TypeOK'
  OBVIOUS
<1> USE SlackAssumption DEF TypeOK, oauthVars, runVars, history
<1>1. CASE Tick
  BY <1>1 DEF Tick
<1>2. CASE DeleteSlackIntegration
  BY <1>2, FaultType DEF DeleteSlackIntegration, FaultKinds
<1>3. ASSUME NEW f \in Flows, Oauth(f) PROVE TypeOK'
  BY <1>3
     DEF Oauth, AuthorizeUrl, CallbackRefused, CallbackAccepted, ExchangeFails,
         UpsertSlackIntegration
<1>4. ASSUME NEW r \in Runs, HitQuota(r) PROVE TypeOK'
  <2>1. Window(now) \in Windows
    BY WindowBounds
  <2> QED
    BY <1>4, <2>1 DEF HitQuota
<1>5. ASSUME NEW r \in Runs, GetIntegration(r) PROVE TypeOK'
  BY <1>5 DEF GetIntegration, EndNotify
<1>11. ASSUME NEW r \in Runs, UpdateScheduledAt(r) PROVE TypeOK'
  <2>1. Window(at[r]) \in Windows
    BY WindowBounds
  <2>2. CASE Fault("store") /\ Abandon(r)
    BY <1>11, <2>1, <2>2, FaultType DEF UpdateScheduledAt, Abandon, EndNotify, FaultKinds
  <2>3. CASE pc' = [pc EXCEPT ![r] = "get"] /\ UNCHANGED <<at, hook, lost, left>>
    BY <1>11, <2>3 DEF UpdateScheduledAt
  <2> QED
    BY <1>11, <2>2, <2>3 DEF UpdateScheduledAt
<1>6. ASSUME NEW r \in Runs, ReadClock(r) PROVE TypeOK'
  BY <1>6 DEF ReadClock
<1>7. ASSUME NEW r \in Runs, ClaimKey(r) PROVE TypeOK'
  <2>1. Window(at[r]) \in Windows /\ now + W \in Nat
    BY WindowBounds
  <2> QED
    BY <1>7, <2>1 DEF ClaimKey, SetKey, EndNotify
<1>12. ASSUME NEW r \in Runs, ClaimKeyFails(r) PROVE TypeOK'
  <2>1. Window(at[r]) \in Windows /\ now + W \in Nat
    BY WindowBounds
  <2>2. keys' \in [Windows -> Nat]
    BY <1>12, <2>1 DEF ClaimKeyFails
  <2> QED
    BY <1>12, <2>1, <2>2, FaultType DEF ClaimKeyFails, Abandon, EndNotify, FaultKinds
<1>8. ASSUME NEW r \in Runs, Post(r) PROVE TypeOK'
  <2>1. Window(at[r]) \in Windows
    BY WindowBounds
  <2>2. posts' \in [Windows -> Nat]
    BY <1>8, <2>1 DEF Post
  <2> QED
    BY <1>8, <2>2 DEF Post, EndNotify
<1>9. ASSUME NEW r \in Runs, GetIntegrationFails(r) \/ PostFails(r) \/ CrashRun(r)
      PROVE  TypeOK'
  <2>1. Window(at[r]) \in Windows
    BY WindowBounds
  <2> QED
    BY <1>9, <2>1, FaultType
       DEF GetIntegrationFails, PostFails, CrashRun, Abandon, EndNotify, FaultKinds
<1>10. CASE UNCHANGED vars
  BY <1>10 DEF vars
<1> QED
  BY <1>1, <1>2, <1>3, <1>4, <1>5, <1>6, <1>7, <1>8, <1>9, <1>10, <1>11, <1>12
     DEF Next, Notify

\* Every reachable state is well-typed: a run past getSlackIntegration has an
\* integration to post to, whatever connects and disconnects meanwhile.
THEOREM TypeCorrect == Spec => []TypeOK
<1>1. Init => TypeOK
  BY TypeInit
<1>2. TypeOK /\ [Next]_vars => TypeOK'
  BY TypeStep
<1> QED
  BY <1>1, <1>2, PTL DEF Spec

-----------------------------------------------------------------------------
(* The clock and the runs *)

\* A run that has yet to use its clock reading has a recent one.
LagInv ==
  \A r \in Runs :
    pc[r] \in {"park", "get", "clock", "set"} => at[r] <= now /\ now <= at[r] + MaxLag

\* A run that a fault ends before its post.
Abandoned(r) ==
  \/ UpdateScheduledAt(r) /\ Abandon(r)
  \/ GetIntegrationFails(r) \/ ClaimKeyFails(r) \/ PostFails(r) \/ CrashRun(r)

LEMMA AbandonedStep ==
  ASSUME NEW r \in Runs, Abandoned(r)
  PROVE  /\ pc[r] # "idle"
         /\ pc' = [pc EXCEPT ![r] = "idle"] /\ at' = [at EXCEPT ![r] = 0]
         /\ lost' = lost \cup {Window(at[r])}
         /\ now' = now /\ hits' = hits /\ posts' = posts
         /\ \/ keys' = keys
            \/ /\ pc[r] = "set" /\ keys[Window(at[r])] <= now
               /\ keys' = [keys EXCEPT ![Window(at[r])] = now + W]
BY DEF Abandoned, UpdateScheduledAt, GetIntegrationFails, ClaimKeyFails, PostFails, CrashRun,
       Abandon, EndNotify

LEMMA LagInit == Init => LagInv
  BY DEF Init, LagInv

LEMMA LagStep == TypeOK /\ LagInv /\ [Next]_vars => LagInv'
<1> SUFFICES ASSUME TypeOK, LagInv, [Next]_vars PROVE LagInv'
  OBVIOUS
<1> USE SlackAssumption DEF TypeOK, LagInv, oauthVars, runVars, history
<1>1. CASE Tick
  <2> SUFFICES ASSUME NEW r \in Runs, pc[r] \in {"park", "get", "clock", "set"}
               PROVE  at[r] <= now + 1 /\ now + 1 <= at[r] + MaxLag
    BY <1>1 DEF Tick
  <2>1. at[r] \in Nat /\ now \in Nat /\ now < at[r] + MaxLag /\ at[r] <= now
    BY <1>1 DEF Tick
  <2> QED
    BY <2>1
<1>2. CASE UNCHANGED <<now, pc, at>>
  BY <1>2
<1>3. ASSUME NEW r \in Runs, HitQuota(r) \/ ReadClock(r) PROVE LagInv'
  BY <1>3 DEF HitQuota, ReadClock
<1>4. ASSUME NEW r \in Runs, GetIntegration(r) \/ ClaimKey(r) \/ Post(r) PROVE LagInv'
  BY <1>4 DEF GetIntegration, ClaimKey, SetKey, Post, EndNotify
<1>6. ASSUME NEW r \in Runs, Abandoned(r) PROVE LagInv'
  BY <1>6, AbandonedStep
<1>7. ASSUME NEW r \in Runs, UpdateScheduledAt(r) PROVE LagInv'
  <2>1. CASE pc' = [pc EXCEPT ![r] = "get"] /\ UNCHANGED at
    BY <1>7, <2>1 DEF UpdateScheduledAt
  <2> QED
    BY <1>6, <1>7, <2>1 DEF UpdateScheduledAt, Abandoned
<1>5. ASSUME NEW f \in Flows, Oauth(f) PROVE LagInv'
  BY <1>5, <1>2
     DEF Oauth, AuthorizeUrl, CallbackRefused, CallbackAccepted, ExchangeFails,
         UpsertSlackIntegration
<1> QED
  BY <1>1, <1>2, <1>3, <1>4, <1>5, <1>6, <1>7
     DEF Next, Notify, Abandoned, DeleteSlackIntegration, vars

\* While the claim is made the clock is at most MaxLag past the window read.
LEMMA ClaimTime ==
  ASSUME TypeOK, LagInv, NEW r \in Runs, pc[r] = "set"
  PROVE  /\ Window(at[r]) \in Windows
         /\ W * Window(at[r]) <= now
         /\ now < W * Window(at[r]) + W + MaxLag
<1>1. at[r] \in 0 .. MaxTime /\ now \in Nat /\ at[r] <= now /\ now <= at[r] + MaxLag
  BY DEF TypeOK, LagInv
<1>2. /\ Window(at[r]) \in Windows /\ Window(at[r]) \in Nat
      /\ W * Window(at[r]) <= at[r] /\ at[r] < W * Window(at[r]) + W
  BY <1>1, WindowBounds
<1> DEFINE x == W * Window(at[r])
<1>3. x \in Nat
  BY <1>2, SlackAssumption
<1>4. x <= at[r] /\ at[r] < x + W
  BY <1>2
<1> HIDE DEF x
<1>5. x <= now /\ now < x + W + MaxLag
  BY <1>1, <1>3, <1>4, SlackAssumption
<1> QED
  BY <1>2, <1>5 DEF x

-----------------------------------------------------------------------------
(* How many messages a window can get *)

\* Runs about to post under window w, and messages posted or about to be.
Posters(w)  == {r \in Runs : pc[r] = "post" /\ Window(at[r]) = w}
Messages(w) == posts[w] + Cardinality(Posters(w))

\* Each message kept the key set for a window of time, and the key is never
\* claimed later than MaxLag after its window, nor for longer than a window.
KeyInv ==
  \A w \in Windows :
    /\ IsFiniteSet(Posters(w))
    /\ Messages(w) # 0 => W * w + W * Messages(w) <= keys[w]
    /\ keys[w] < W * w + W + MaxLag + W
    /\ keys[w] <= now + W

LEMMA ClaimAgain ==
  ASSUME NEW w \in Nat, NEW m \in Nat
  PROVE  /\ W * w \in Nat /\ W * m \in Nat
         /\ W * (m + 1) = W * m + W
         /\ W <= W * w + W /\ W * 0 = 0
  BY SlackAssumption

LEMMA KeyInit == Init => KeyInv
<1> SUFFICES ASSUME Init, NEW w \in Windows
             PROVE  /\ IsFiniteSet(Posters(w)) /\ Messages(w) = 0
                    /\ keys[w] < W * w + W + MaxLag + W
                    /\ keys[w] <= now + W
  BY DEF KeyInv
<1>1. Posters(w) = {}
  BY DEF Init, Posters
<1>2. keys[w] = 0 /\ posts[w] = 0 /\ now = 0
  BY DEF Init
<1>3. w \in Nat /\ W * w \in Nat
  BY SlackAssumption DEF Windows
<1>4. 0 < W * w + W + MaxLag + W
  BY <1>3, SlackAssumption
<1> QED
  BY <1>1, <1>2, <1>4, FS_EmptySet, SlackAssumption DEF Messages

LEMMA MessagesType ==
  ASSUME TypeOK, KeyInv, NEW w \in Windows
  PROVE  /\ Messages(w) \in Nat /\ Cardinality(Posters(w)) \in Nat /\ posts[w] \in Nat
         /\ keys[w] \in Nat /\ w \in Nat /\ W * w \in Nat /\ W * Messages(w) \in Nat
<1>1. Cardinality(Posters(w)) \in Nat /\ posts[w] \in Nat /\ keys[w] \in Nat /\ w \in Nat
  <2>1. IsFiniteSet(Posters(w))
    BY DEF KeyInv
  <2>2. posts[w] \in Nat /\ keys[w] \in Nat /\ w \in Nat
    BY SlackAssumption DEF TypeOK, Windows
  <2> QED
    BY <2>1, <2>2, FS_CardinalityType
<1>2. Messages(w) \in Nat
  BY <1>1 DEF Messages
<1> QED
  BY <1>1, <1>2, ClaimAgain

LEMMA KeyStep ==
  ASSUME TypeOK, TypeOK', LagInv, KeyInv, [Next]_vars PROVE KeyInv'
<1> SUFFICES ASSUME NEW w \in Windows
             PROVE  /\ IsFiniteSet(Posters(w)')
                    /\ Messages(w)' # 0 => W * w + W * Messages(w)' <= keys'[w]
                    /\ keys'[w] < W * w + W + MaxLag + W
                    /\ keys'[w] <= now' + W
  BY DEF KeyInv, Windows
<1> DEFINE Goal == /\ IsFiniteSet(Posters(w)')
                   /\ Messages(w)' # 0 => W * w + W * Messages(w)' <= keys'[w]
                   /\ keys'[w] < W * w + W + MaxLag + W
                   /\ keys'[w] <= now' + W
<1>1. /\ IsFiniteSet(Posters(w))
      /\ Messages(w) # 0 => W * w + W * Messages(w) <= keys[w]
      /\ keys[w] < W * w + W + MaxLag + W
      /\ keys[w] <= now + W
  BY DEF KeyInv
<1>10. /\ now \in Nat /\ now' \in Nat /\ now <= now'
       /\ (keys'[w] = keys[w] => keys'[w] <= now' + W)
  <2>1. now \in Nat /\ keys[w] \in Nat
    BY SlackAssumption DEF TypeOK
  <2>2. now' = now \/ now' = now + 1
    BY DEF Next, Tick, DeleteSlackIntegration, Oauth, AuthorizeUrl, CallbackRefused,
       CallbackAccepted, ExchangeFails, UpsertSlackIntegration, Notify, HitQuota,
       UpdateScheduledAt, GetIntegration, GetIntegrationFails, ReadClock, ClaimKey, SetKey,
       ClaimKeyFails, Post, PostFails, CrashRun, vars
  <2> QED
    BY <1>1, <2>1, <2>2, SlackAssumption
<1>12. now + W \in Nat /\ now' + W \in Nat /\ now + W <= now' + W
  <2> DEFINE a == now
             b == now'
  <2>1. W \in Nat /\ a \in Nat /\ b \in Nat /\ a <= b
    BY <1>10, SlackAssumption
  <2> HIDE DEF a, b
  <2>2. a + W \in Nat /\ b + W \in Nat /\ a + W <= b + W
    BY <2>1
  <2> QED
    BY <2>2 DEF a, b
<1>2. CASE Posters(w)' = Posters(w) /\ posts'[w] = posts[w] /\ keys'[w] = keys[w]
  <2>1. Messages(w)' = Messages(w)
    BY <1>2 DEF Messages
  <2> QED
    BY <1>1, <1>2, <1>10, <2>1
<1>3. ASSUME Messages(w)' \in Nat, Messages(w)' <= Messages(w), IsFiniteSet(Posters(w)'),
             keys'[w] = keys[w]
      PROVE  Goal
  <2>1. /\ Messages(w) \in Nat /\ keys[w] \in Nat /\ w \in Nat /\ W * w \in Nat
        /\ W * Messages(w) \in Nat
    BY MessagesType
  <2>2. W * Messages(w)' <= W * Messages(w) /\ W * Messages(w)' \in Nat
    <3> DEFINE x == Messages(w)
               y == Messages(w)'
    <3>1. x \in Nat /\ y \in Nat /\ y <= x
      BY <1>3, <2>1
    <3> HIDE DEF x, y
    <3>2. \A d \in Nat : W * (y + d) = W * y + W * d /\ W * d \in Nat /\ W * y \in Nat
      BY <3>1, SlackAssumption
    <3>3. x - y \in Nat /\ x = y + (x - y)
      BY <3>1
    <3>4. W * x = W * y + W * (x - y) /\ W * (x - y) \in Nat /\ W * y \in Nat
      BY <3>2, <3>3
    <3> DEFINE z == W * (x - y)
               u == W * x
               v == W * y
    <3>5. u = v + z /\ z \in Nat /\ v \in Nat
      BY <3>4
    <3> HIDE DEF z, u, v
    <3>6. v <= u /\ v \in Nat
      BY <3>5
    <3> QED
      BY <3>6 DEF u, v, x, y
  <2>3. Messages(w)' # 0 => Messages(w) # 0
    BY <1>3, <2>1
  <2> DEFINE a == W * Messages(w)
             b == W * Messages(w)'
             c == W * w
             k == keys[w]
  <2>4. a \in Nat /\ b \in Nat /\ c \in Nat /\ k \in Nat /\ b <= a
    BY <2>1, <2>2
  <2>5. Messages(w)' # 0 => c + a <= k
    BY <1>1, <2>3
  <2> HIDE DEF a, b, c, k
  <2>6. Messages(w)' # 0 => c + b <= k
    BY <2>4, <2>5
  <2> QED
    BY <1>1, <1>3, <1>10, <2>6 DEF b, c, k
<1>4. ASSUME NEW r \in Runs, ClaimKey(r) PROVE Goal
  <2> DEFINE v == Window(at[r])
  <2>1. /\ pc[r] = "set" /\ v \in Windows /\ posts' = posts
        /\ W * v <= now /\ now < W * v + W + MaxLag
    BY <1>4, ClaimTime DEF ClaimKey, SetKey, history
  <2>2. CASE now < keys[v]
    <3>1. Posters(w)' = Posters(w) /\ keys' = keys
      <4>1. ~(keys[v] <= now)
        BY <2>1, <2>2, SlackAssumption DEF TypeOK
      <4> QED
        BY <1>4, <2>1, <4>1 DEF ClaimKey, SetKey, EndNotify, Posters, TypeOK
    <3> QED
      BY <1>2, <2>1, <3>1
  <2>3. CASE ~(now < keys[v])
    <3>1. /\ keys' = [keys EXCEPT ![v] = now + W]
          /\ pc' = [pc EXCEPT ![r] = "post"] /\ at' = at
      <4>1. keys[v] <= now
        BY <2>1, <2>3, SlackAssumption DEF TypeOK
      <4> QED
        BY <1>4, <4>1 DEF ClaimKey, SetKey
    <3>2. CASE v # w
      <4>1. Posters(w)' = Posters(w)
        BY <2>1, <3>1, <3>2 DEF Posters, TypeOK
      <4>2. keys'[w] = keys[w]
        BY <3>1, <3>2 DEF TypeOK
      <4> QED
        BY <1>2, <2>1, <4>1, <4>2
    <3>3. CASE v = w
      <4>1. Posters(w)' = Posters(w) \cup {r} /\ r \notin Posters(w)
        BY <2>1, <3>1, <3>3 DEF Posters, TypeOK
      <4>2. /\ IsFiniteSet(Posters(w)')
            /\ Cardinality(Posters(w)') = Cardinality(Posters(w)) + 1
        BY <1>1, <4>1, FS_AddElement
      <4>3. keys'[w] = now + W
        BY <3>1, <3>3 DEF TypeOK
      <4>4. /\ Messages(w) \in Nat /\ posts[w] \in Nat /\ Cardinality(Posters(w)) \in Nat
            /\ keys[w] \in Nat /\ w \in Nat /\ W * w \in Nat /\ W * Messages(w) \in Nat
        BY MessagesType
      <4>5. Messages(w)' = Messages(w) + 1
        BY <2>1, <4>2, <4>4 DEF Messages
      <4>6. W * Messages(w)' = W * Messages(w) + W
        BY <4>4, <4>5, ClaimAgain
      <4>7. keys[w] <= now /\ W * w <= now /\ now < W * w + W + MaxLag /\ now \in Nat
        BY <2>1, <2>3, <3>3, <4>4 DEF TypeOK
      <4>8. Messages(w) = 0 => W * Messages(w) = 0
        BY SlackAssumption
      <4> DEFINE a == W * Messages(w)
                 c == W * w
                 k == keys[w]
                 m == Messages(w)
      <4>9. /\ a \in Nat /\ c \in Nat /\ k \in Nat /\ m \in Nat
            /\ k <= now /\ c <= now /\ now < c + W + MaxLag /\ now \in Nat
            /\ m = 0 => a = 0
            /\ m # 0 => c + a <= k
        BY <1>1, <4>4, <4>7, <4>8
      <4> HIDE DEF a, c, k, m
      <4>10. c + (a + W) <= now + W /\ now + W < c + W + MaxLag + W
        BY <4>9, SlackAssumption
      <4>11. keys'[w] <= now' + W
        BY <1>12, <4>3
      <4> QED
        BY <4>2, <4>3, <4>6, <4>10, <4>11 DEF a, c
    <3> QED
      BY <3>2, <3>3
  <2> QED
    BY <2>2, <2>3
<1>5. ASSUME NEW r \in Runs, Post(r) PROVE Goal
  <2> DEFINE v == Window(at[r])
  <2>1. /\ pc[r] = "post" /\ keys' = keys
        /\ pc' = [pc EXCEPT ![r] = "idle"] /\ at' = [at EXCEPT ![r] = 0]
        /\ posts' = [posts EXCEPT ![v] = posts[v] + 1]
    BY <1>5 DEF Post, EndNotify
  <2>2. CASE v # w
    <3>1. Posters(w)' = Posters(w) /\ posts'[w] = posts[w]
      BY <2>1, <2>2 DEF Posters, TypeOK
    <3> QED
      BY <1>2, <2>1, <3>1
  <2>3. CASE v = w
    <3>1. Posters(w)' = Posters(w) \ {r} /\ r \in Posters(w)
      BY <2>1, <2>3 DEF Posters, TypeOK
    <3>2. /\ IsFiniteSet(Posters(w)')
          /\ Cardinality(Posters(w)') = Cardinality(Posters(w)) - 1
      BY <1>1, <3>1, FS_RemoveElement
    <3>3. posts'[w] = posts[w] + 1
      BY <2>1, <2>3 DEF TypeOK
    <3>4. Messages(w) \in Nat /\ posts[w] \in Nat /\ Cardinality(Posters(w)) \in Nat
      BY MessagesType
    <3>5. Messages(w)' = Messages(w)
      BY <3>2, <3>3, <3>4 DEF Messages
    <3> QED
      BY <1>3, <2>1, <3>2, <3>4, <3>5
  <2> QED
    BY <2>2, <2>3
<1>6. ASSUME NEW r \in Runs, Abandoned(r) PROVE Goal
  <2> DEFINE v == Window(at[r])
  <2>1. /\ posts' = posts /\ pc[r] # "idle"
        /\ pc' = [pc EXCEPT ![r] = "idle"] /\ at' = [at EXCEPT ![r] = 0]
        /\ \/ keys' = keys
           \/ pc[r] = "set" /\ keys[v] <= now /\ keys' = [keys EXCEPT ![v] = now + W]
    BY <1>6, AbandonedStep
  <2>2. Posters(w)' \in SUBSET Posters(w)
    BY <2>1 DEF Posters, TypeOK
  <2>3. /\ IsFiniteSet(Posters(w)') /\ Cardinality(Posters(w)') \in Nat
        /\ Cardinality(Posters(w)') <= Cardinality(Posters(w))
    BY <1>1, <2>2, FS_Subset, FS_CardinalityType
  <2>4. Messages(w) \in Nat /\ posts[w] \in Nat /\ Cardinality(Posters(w)) \in Nat
    BY MessagesType
  <2>5. Messages(w)' \in Nat /\ Messages(w)' <= Messages(w)
    BY <2>1, <2>3, <2>4 DEF Messages
  <2>6. CASE keys'[w] = keys[w]
    BY <1>3, <2>3, <2>5, <2>6
  <2>7. CASE keys'[w] # keys[w]
    <3>1. /\ v = w /\ pc[r] = "set" /\ keys[w] <= now
          /\ keys' = [keys EXCEPT ![w] = now + W]
      BY <2>1, <2>7 DEF TypeOK
    <3>2. keys'[w] = now + W /\ now \in Nat
      BY <3>1 DEF TypeOK
    <3>3. now < W * w + W + MaxLag
      BY <3>1, ClaimTime
    <3>4. Posters(w)' = Posters(w)
      BY <2>1, <3>1 DEF Posters, TypeOK
    <3>5. Messages(w)' = Messages(w)
      BY <2>1, <3>4 DEF Messages
    <3> DEFINE a == W * Messages(w)
               c == W * w
               k == keys[w]
    <3>6. /\ a \in Nat /\ c \in Nat /\ k \in Nat /\ k <= now /\ now < c + W + MaxLag
          /\ Messages(w) # 0 => c + a <= k
      BY <1>1, <3>1, <3>3, MessagesType
    <3> HIDE DEF a, c, k
    <3>7. (Messages(w) # 0 => c + a <= now + W) /\ now + W < c + W + MaxLag + W
      BY <3>2, <3>6, SlackAssumption
    <3> QED
      BY <1>12, <2>3, <3>2, <3>5, <3>7 DEF a, c
  <2> QED
    BY <2>6, <2>7
<1>7. CASE UNCHANGED <<pc, at, posts, keys>>
  BY <1>2, <1>7 DEF Posters
<1>8. ASSUME NEW r \in Runs, HitQuota(r) \/ GetIntegration(r) \/ ReadClock(r) PROVE Goal
  <2>1. Posters(w)' = Posters(w) /\ posts' = posts /\ keys' = keys
    BY <1>8 DEF HitQuota, GetIntegration, ReadClock, EndNotify, Posters, TypeOK, history
  <2> QED
    BY <1>2, <2>1
<1>9. ASSUME NEW f \in Flows, Oauth(f) PROVE Goal
  BY <1>9, <1>7
     DEF Oauth, AuthorizeUrl, CallbackRefused, CallbackAccepted, ExchangeFails,
         UpsertSlackIntegration, runVars, history
<1>11. ASSUME NEW r \in Runs, UpdateScheduledAt(r) PROVE Goal
  <2>1. CASE pc[r] = "park" /\ pc' = [pc EXCEPT ![r] = "get"] /\ UNCHANGED at
    <3>1. Posters(w)' = Posters(w) /\ posts' = posts /\ keys' = keys
      BY <1>11, <2>1 DEF UpdateScheduledAt, Posters, TypeOK
    <3> QED
      BY <1>2, <3>1
  <2> QED
    BY <1>6, <1>11, <2>1 DEF UpdateScheduledAt, Abandoned
<1> QED
  BY <1>4, <1>5, <1>6, <1>7, <1>8, <1>9, <1>11
     DEF Next, Notify, Abandoned, Tick, DeleteSlackIntegration, vars, runVars, history

KeyAll == TypeOK /\ LagInv /\ KeyInv

LEMMA KeyAllInductive == (Init => KeyAll) /\ (KeyAll /\ [Next]_vars => KeyAll')
  BY TypeInit, LagInit, KeyInit, TypeStep, LagStep, KeyStep DEF KeyAll

\* What the key's life allows: n messages of a window need n lives of the key,
\* and the last of them was claimed no later than MaxLag after the window.
LEMMA MessageBound ==
  ASSUME KeyAll, NEW w \in Windows PROVE W * posts[w] < 2 * W + MaxLag
<1>1. /\ Messages(w) \in Nat /\ posts[w] \in Nat /\ Cardinality(Posters(w)) \in Nat
      /\ keys[w] \in Nat /\ W * w \in Nat /\ W * Messages(w) \in Nat
  BY MessagesType DEF KeyAll
<1>2. CASE posts[w] = 0
  BY <1>2, SlackAssumption
<1>3. CASE posts[w] # 0
  <2>1. Messages(w) # 0 /\ posts[w] <= Messages(w)
    BY <1>1, <1>3 DEF Messages
  <2>2. W * w + W * Messages(w) <= keys[w] /\ keys[w] < W * w + W + MaxLag + W
    BY <2>1 DEF KeyAll, KeyInv
  <2>3. W * Messages(w) = W * posts[w] + W * Cardinality(Posters(w))
        /\ W * posts[w] \in Nat /\ W * Cardinality(Posters(w)) \in Nat
    <3> DEFINE p == posts[w]
               q == Cardinality(Posters(w))
    <3>1. p \in Nat /\ q \in Nat /\ Messages(w) = p + q
      BY <1>1 DEF Messages
    <3> HIDE DEF p, q
    <3>2. W * (p + q) = W * p + W * q /\ W * p \in Nat /\ W * q \in Nat
      BY <3>1, SlackAssumption
    <3> QED
      BY <3>1, <3>2 DEF p, q
  <2> DEFINE a == W * Messages(w)
             b == W * posts[w]
             d == W * Cardinality(Posters(w))
             c == W * w
             k == keys[w]
  <2>4. /\ a \in Nat /\ b \in Nat /\ c \in Nat /\ d \in Nat /\ k \in Nat
        /\ a = b + d /\ c + a <= k /\ k < c + W + MaxLag + W
    BY <1>1, <2>2, <2>3
  <2> HIDE DEF a, b, c, d, k
  <2>5. b < W + MaxLag + W
    BY <2>4, SlackAssumption
  <2> QED
    BY <2>5, SlackAssumption DEF b
<1> QED
  BY <1>2, <1>3

LEMMA LastingWindow ==
  ASSUME KeyAll, NEW w \in Windows, posts[w] > 1 PROVE W * w + W <= now
<1>1. /\ Messages(w) \in Nat /\ posts[w] \in Nat /\ Cardinality(Posters(w)) \in Nat
      /\ keys[w] \in Nat /\ W * w \in Nat
  BY MessagesType DEF KeyAll
<1>2. Messages(w) # 0 /\ 2 <= Messages(w)
  BY <1>1 DEF Messages
<1>3. W * w + W * Messages(w) <= keys[w] /\ keys[w] <= now + W
  BY <1>2 DEF KeyAll, KeyInv
<1> DEFINE m == Messages(w)
           a == W * Messages(w)
           c == W * w
           k == keys[w]
<1>4. 2 * W <= a /\ a \in Nat
  <2>1. m \in Nat /\ 2 <= m /\ a = W * m
    BY <1>1, <1>2
  <2> HIDE DEF m, a
  <2>2. m - 2 \in Nat /\ m = 2 + (m - 2)
    BY <2>1
  <2>3. \A d \in Nat : W * (2 + d) = 2 * W + W * d /\ W * d \in Nat
    BY SlackAssumption
  <2>4. a = 2 * W + W * (m - 2) /\ W * (m - 2) \in Nat
    BY <2>1, <2>2, <2>3
  <2> QED
    BY <2>4, SlackAssumption
<1>5. c \in Nat /\ k \in Nat /\ now \in Nat /\ c + a <= k /\ k <= now + W
  BY <1>1, <1>3 DEF KeyAll, TypeOK
<1> HIDE DEF a, c, k
<1>6. c + W <= now
  BY <1>4, <1>5, SlackAssumption
<1> QED
  BY <1>6 DEF c

\* However many runs are re-parked in a window, however late they are, and
\* wherever calls throw or workers die: while the window lasts it has one message.
THEOREM OneMessage == Spec => []OneMessageWhileItLasts
<1>1. Init => KeyAll
  BY KeyAllInductive
<1>2. KeyAll /\ [Next]_vars => KeyAll'
  BY KeyAllInductive
<1>3. KeyAll => OneMessageWhileItLasts
  BY LastingWindow DEF OneMessageWhileItLasts
<1> QED
  BY <1>1, <1>2, <1>3, PTL DEF Spec

\* With a lag the key may expire under a late reader of the window, and yet the
\* messages of a window fit into two lives of the key and the lag.
THEOREM FewMessages == Spec => []MessagesBounded
<1>1. Init => KeyAll
  BY KeyAllInductive
<1>2. KeyAll /\ [Next]_vars => KeyAll'
  BY KeyAllInductive
<1>3. KeyAll => MessagesBounded
  BY MessageBound DEF MessagesBounded
<1> QED
  BY <1>1, <1>2, <1>3, PTL DEF Spec

-----------------------------------------------------------------------------
(* Every hit is notified *)

\* Runs that have hit the limit in window v and not yet read the clock again.
Bound(v) == {r \in Runs : pc[r] \in {"park", "get", "clock"} /\ Window(at[r]) = v}

\* Runs about to claim the key of window w, or to post under it.
Heading(w) == {r \in Runs : pc[r] \in {"set", "post"} /\ Window(at[r]) = w}

\* Windows whose message is posted, or lost.
Served(w) == posts[w] # 0 \/ w \in lost

\* A key was set for a message that is posted, about to be, or lost; and a hit
\* has a run that is bound for the key, heading for a key it can reach, or there
\* is a message, or a lost one, under such a key.
HitInv ==
  /\ \A w \in Windows : keys[w] # 0 => Served(w) \/ Posters(w) # {}
  /\ \A v \in hits :
       \/ Bound(v) # {}
       \/ \E w \in Windows : Reaches(v, w) /\ (Served(w) \/ Heading(w) # {})

LEMMA HitInit == Init => HitInv
  BY DEF Init, HitInv

\* A run is at its own window, and comes at most MaxLag later to the next key.
LEMMA ReachesLater ==
  ASSUME TypeOK, LagInv, NEW r \in Runs, pc[r] \in {"park", "get", "clock"}
  PROVE  /\ Window(now) \in Windows
         /\ Reaches(Window(at[r]), Window(at[r])) /\ Reaches(Window(at[r]), Window(now))
<1> DEFINE v == Window(at[r])
           w == Window(now)
<1>1. at[r] \in 0 .. MaxTime /\ now \in 0 .. MaxTime /\ at[r] <= now /\ now <= at[r] + MaxLag
  BY DEF TypeOK, LagInv
<1>2. /\ v \in Windows /\ v \in Nat /\ W * v <= at[r] /\ at[r] < W * v + W
      /\ w \in Windows /\ w \in Nat /\ W * w <= now
  BY <1>1, WindowBounds
<1>3. now < W * w + W
  BY <1>1, WindowBounds
<1>4. v <= w
  <2>1. ASSUME w < v PROVE FALSE
    <3> HIDE DEF v, w
    <3>1. v - w - 1 \in Nat /\ v = w + 1 + (v - w - 1)
      BY <1>2, <2>1
    <3>2. \A d \in Nat : W * (w + 1 + d) = W * w + W + W * d /\ W * d \in Nat /\ W * w \in Nat
      BY <1>2, SlackAssumption
    <3>3. W * v = W * w + W + W * (v - w - 1) /\ W * (v - w - 1) \in Nat /\ W * w \in Nat
      BY <3>1, <3>2
    <3>4. W * w + W <= W * v /\ W * v \in Nat
      BY <3>3, SlackAssumption
    <3> QED
      BY <1>1, <1>2, <1>3, <3>3, <3>4, SlackAssumption
  <2> QED
    BY <1>2, <2>1
<1>5. W * w < W * v + W + MaxLag /\ W * v < W * v + W + MaxLag
  <2> DEFINE x == W * v
             y == W * w
  <2>1. x \in Nat /\ y \in Nat /\ x <= at[r] /\ at[r] < x + W /\ y <= now
    BY <1>2, SlackAssumption
  <2> HIDE DEF x, y
  <2>2. y < x + W + MaxLag /\ x < x + W + MaxLag
    BY <1>1, <2>1, SlackAssumption
  <2> QED
    BY <2>2 DEF x, y
<1> QED
  BY <1>2, <1>4, <1>5 DEF Reaches

\* What a step of one run does to the hits that rest on other runs.
LEMMA OtherRuns ==
  ASSUME TypeOK, NEW r \in Runs,
         \A q \in Runs : q # r => pc'[q] = pc[q] /\ at'[q] = at[q],
         NEW w \in Windows
  PROVE  /\ Posters(w) # {} => Posters(w)' # {} \/ (pc[r] = "post" /\ Window(at[r]) = w)
         /\ Bound(w) # {} =>
              \/ Bound(w)' # {}
              \/ pc[r] \in {"park", "get", "clock"} /\ Window(at[r]) = w
         /\ Heading(w) # {} =>
              Heading(w)' # {} \/ (pc[r] \in {"set", "post"} /\ Window(at[r]) = w)
<1>1. \A q \in Runs : q # r => (Window(at[q]))' = Window(at[q])
  BY DEF Window
<1> QED
  BY <1>1 DEF Posters, Bound, Heading

\* The hits that rest on run r itself: where the step leaves its window u.
Leaves(r, u) ==
  /\ pc[r] = "post" => Served(u)'
  /\ pc[r] = "set" => Served(u)' \/ Heading(u)' # {}
  /\ pc[r] \in {"park", "get", "clock"} /\ u \in hits =>
       \/ Bound(u)' # {}
       \/ \E w \in Windows : Reaches(u, w) /\ (Served(w)' \/ Heading(w)' # {})

\* A step of a run that leaves its window to a message, a loss or another run.
LEMMA RunStep ==
  ASSUME TypeOK, HitInv, NEW r \in Runs, NEW u \in Windows, u = Window(at[r]),
         \A q \in Runs : q # r => pc'[q] = pc[q] /\ at'[q] = at[q],
         \A w \in Windows : Served(w) => Served(w)',
         \A w \in Windows : keys'[w] # 0 => keys[w] # 0 \/ Served(w)' \/ Posters(w)' # {},
         hits' \subseteq Windows,
         \A v \in hits' : v \in hits \/ Bound(v)' # {},
         Leaves(r, u)
  PROVE  HitInv'
<1>1. /\ \A w \in Windows : keys[w] # 0 => Served(w) \/ Posters(w) # {}
      /\ \A v \in hits :
           Bound(v) # {} \/ \E w \in Windows : Reaches(v, w) /\ (Served(w) \/ Heading(w) # {})
      /\ hits \subseteq Windows
  BY DEF HitInv, TypeOK
<1>2. \A w \in Windows :
        /\ Posters(w) # {} => Posters(w)' # {} \/ (pc[r] = "post" /\ u = w)
        /\ Bound(w) # {} => Bound(w)' # {} \/ (pc[r] \in {"park", "get", "clock"} /\ u = w)
        /\ Heading(w) # {} => Heading(w)' # {} \/ (pc[r] \in {"set", "post"} /\ u = w)
  BY OtherRuns
<1>3. ASSUME NEW w \in Windows, keys'[w] # 0 PROVE Served(w)' \/ Posters(w)' # {}
  BY <1>1, <1>2, <1>3 DEF Leaves
<1>4. ASSUME NEW w \in Windows, Heading(w) # {} PROVE Served(w)' \/ Heading(w)' # {}
  BY <1>2, <1>4 DEF Leaves
<1>5. ASSUME NEW v \in hits'
      PROVE  Bound(v)' # {}
             \/ \E w \in Windows : Reaches(v, w) /\ (Served(w)' \/ Heading(w)' # {})
  <2>1. CASE v \in hits /\ Bound(v) # {}
    BY <1>1, <1>2, <2>1 DEF Leaves
  <2>2. CASE v \in hits /\ Bound(v) = {}
    <3>1. PICK w \in Windows : Reaches(v, w) /\ (Served(w) \/ Heading(w) # {})
      BY <1>1, <2>2
    <3>2. Served(w)' \/ Heading(w)' # {}
      BY <1>4, <3>1
    <3> QED
      BY <3>1, <3>2
  <2> QED
    BY <2>1, <2>2
<1>6. \A v \in hits' : \A w \in Windows : Reaches(v, w)' = Reaches(v, w)
  BY DEF Reaches
<1>7. /\ \A w \in Windows : keys'[w] # 0 => Served(w)' \/ Posters(w)' # {}
      /\ \A v \in hits' :
           \/ Bound(v)' # {}
           \/ \E w \in Windows : Reaches(v, w) /\ (Served(w)' \/ Heading(w)' # {})
  BY <1>3, <1>5
<1> QED
  BY <1>7 DEF HitInv, Reaches, Windows

LEMMA HitStep ==
  ASSUME TypeOK, TypeOK', LagInv, HitInv, [Next]_vars PROVE HitInv'
<1>1. CASE UNCHANGED <<keys, history, pc, at>>
  BY <1>1 DEF HitInv, history, Served, Posters, Bound, Heading, Reaches, Windows, Window
<1>2. ASSUME NEW f \in Flows, Oauth(f) PROVE HitInv'
  BY <1>1, <1>2
     DEF Oauth, AuthorizeUrl, CallbackRefused, CallbackAccepted, ExchangeFails,
         UpsertSlackIntegration, runVars
<1>3. ASSUME NEW r \in Runs, Notify(r) PROVE HitInv'
  <2> DEFINE a == Window(at[r])
  <2>1. a \in Windows
    BY WindowBounds DEF TypeOK
  <2>2. PICK u \in Windows : u = Window(at[r])
    BY <2>1
  <2> HIDE DEF a
  <2>3. \A q \in Runs : q # r => pc'[q] = pc[q] /\ at'[q] = at[q]
    <3>1. \E p \in {"idle", "park", "get", "clock", "set", "post"} :
            pc' = [pc EXCEPT ![r] = p]
      BY <1>3, AbandonedStep
         DEF Notify, HitQuota, UpdateScheduledAt, GetIntegration, ReadClock, ClaimKey, SetKey,
             Post, EndNotify, Abandoned
    <3>2. at' = at \/ at' = [at EXCEPT ![r] = 0] \/ at' = [at EXCEPT ![r] = now]
      BY <1>3, AbandonedStep
         DEF Notify, HitQuota, UpdateScheduledAt, GetIntegration, ReadClock, ClaimKey, SetKey,
             Post, EndNotify, Abandoned
    <3> QED
      BY <3>1, <3>2 DEF TypeOK
  <2>4. hits' \subseteq Windows /\ hits \subseteq Windows
    BY DEF TypeOK, Windows
  <2>5. CASE HitQuota(r)
    <3>1. /\ pc[r] = "idle" /\ pc' = [pc EXCEPT ![r] = "park"] /\ at' = [at EXCEPT ![r] = now]
          /\ hits' \subseteq hits \cup {Window(now)}
          /\ keys' = keys /\ posts' = posts /\ lost' = lost
      BY <2>5 DEF HitQuota
    <3>3. \A v \in hits' : v \in hits \/ Bound(v)' # {}
      <4>1. PICK x \in Nat : x = Window(now)
        BY WindowBounds DEF TypeOK
      <4>2. pc'[r] = "park" /\ at'[r] = now
        BY <3>1 DEF TypeOK
      <4>3. r \in Bound(x)'
        BY <4>1, <4>2 DEF Bound, Window
      <4> QED
        BY <3>1, <4>1, <4>3
    <3>4. Leaves(r, u) /\ \A w \in Windows : Served(w) => Served(w)'
      BY <3>1 DEF Leaves, Served
    <3> QED
      BY <2>2, <2>3, <2>4, <3>1, <3>3, <3>4, RunStep
  <2>6. CASE UpdateScheduledAt(r) /\ ~Abandon(r)
    <3>1. /\ pc[r] = "park" /\ pc' = [pc EXCEPT ![r] = "get"] /\ at' = at
          /\ hits' = hits /\ keys' = keys /\ posts' = posts /\ lost' = lost
      BY <2>6 DEF UpdateScheduledAt
    <3>2. r \in Bound(u)'
      BY <2>2, <3>1 DEF Bound, TypeOK, Window
    <3>3. Leaves(r, u) /\ \A w \in Windows : Served(w) => Served(w)'
      BY <3>1, <3>2 DEF Leaves, Served
    <3> QED
      BY <2>2, <2>3, <2>4, <3>1, <3>3, RunStep
  <2>7. CASE GetIntegration(r)
    <3>1. /\ pc[r] = "get" /\ hits' = hits /\ keys' = keys /\ posts' = posts
          /\ lost \subseteq lost'
      BY <2>7 DEF GetIntegration
    <3>2. u \in hits => Bound(u)' # {} \/ u \in lost'
      <4>1. CASE integration = None
        BY <2>2, <2>7, <4>1 DEF GetIntegration
      <4>2. CASE integration # None
        <5>1. pc' = [pc EXCEPT ![r] = "clock"] /\ at' = at
          BY <2>7, <4>2 DEF GetIntegration
        <5>2. r \in Bound(u)'
          BY <2>2, <5>1 DEF Bound, TypeOK, Window
        <5> QED
          BY <5>2
      <4> QED
        BY <4>1, <4>2
    <3>3. Reaches(u, u)
      BY <2>2, <3>1, ReachesLater
    <3>4. Leaves(r, u) /\ \A w \in Windows : Served(w) => Served(w)'
      BY <3>1, <3>2, <3>3 DEF Leaves, Served
    <3> QED
      BY <2>2, <2>3, <2>4, <3>1, <3>4, RunStep
  <2>8. CASE ReadClock(r)
    <3>1. /\ pc[r] = "clock" /\ pc' = [pc EXCEPT ![r] = "set"] /\ at' = [at EXCEPT ![r] = now]
          /\ hits' = hits /\ keys' = keys /\ posts' = posts /\ lost' = lost
      BY <2>8 DEF ReadClock, history
    <3>2. Window(now) \in Windows /\ Reaches(u, Window(now))
      BY <2>2, <3>1, ReachesLater
    <3>3. PICK x \in Windows : x = Window(now)
      BY <3>2
    <3>4. Reaches(u, x) /\ r \in Heading(x)'
      BY <3>1, <3>2, <3>3 DEF Heading, TypeOK, Window
    <3>5. Leaves(r, u) /\ \A w \in Windows : Served(w) => Served(w)'
      BY <3>1, <3>4 DEF Leaves, Served
    <3> QED
      BY <2>2, <2>3, <2>4, <3>1, <3>5, RunStep
  <2>9. CASE ClaimKey(r)
    <3>1. pc[r] = "set" /\ hits' = hits /\ posts' = posts /\ lost' = lost
      BY <2>9 DEF ClaimKey, SetKey, history
    <3>2. \A w \in Windows : Served(w) => Served(w)'
      BY <3>1 DEF Served
    <3>3. CASE keys[u] <= now
      <4>1. /\ keys' = [keys EXCEPT ![u] = now + W]
            /\ pc' = [pc EXCEPT ![r] = "post"] /\ at' = at
        BY <2>2, <2>9, <3>3 DEF ClaimKey, SetKey
      <4>2. r \in Posters(u)' /\ r \in Heading(u)'
        BY <2>2, <4>1 DEF Posters, Heading, TypeOK, Window
      <4>3. \A w \in Windows : keys'[w] # 0 => keys[w] # 0 \/ Posters(w)' # {}
        BY <4>1, <4>2 DEF TypeOK
      <4> QED
        BY <2>2, <2>3, <2>4, <3>1, <3>2, <4>2, <4>3, RunStep DEF Leaves
    <3>4. CASE ~(keys[u] <= now)
      <4>1. keys' = keys
        BY <2>2, <2>9, <3>4 DEF ClaimKey, SetKey
      <4>2. keys[u] # 0
        BY <3>4, SlackAssumption DEF TypeOK
      <4>3. Served(u) \/ Posters(u) # {}
        BY <4>2 DEF HitInv
      <4>4. Posters(u) # {} => Posters(u)' # {}
        BY <2>3, <3>1, OtherRuns
      <4>5. Posters(u)' # {} => Heading(u)' # {}
        BY DEF Posters, Heading
      <4> QED
        BY <2>2, <2>3, <2>4, <3>1, <3>2, <4>1, <4>3, <4>4, <4>5, RunStep DEF Leaves
    <3> QED
      BY <3>3, <3>4
  <2>10. CASE Post(r)
    <3>1. /\ pc[r] = "post" /\ hits' = hits /\ keys' = keys /\ lost' = lost
          /\ posts' = [posts EXCEPT ![u] = posts[u] + 1]
      BY <2>2, <2>10 DEF Post
    <3>2. posts'[u] # 0 /\ \A w \in Windows : posts[w] # 0 => posts'[w] # 0
      BY <3>1 DEF TypeOK
    <3>3. Leaves(r, u) /\ \A w \in Windows : Served(w) => Served(w)'
      BY <3>1, <3>2 DEF Leaves, Served
    <3> QED
      BY <2>2, <2>3, <2>4, <3>1, <3>3, RunStep
  <2>11. CASE Abandoned(r)
    <3>1. /\ hits' = hits /\ posts' = posts /\ lost' = lost \cup {u}
          /\ keys' = keys \/ keys' = [keys EXCEPT ![u] = now + W]
      BY <2>2, <2>11, AbandonedStep
    <3>2. Served(u)' /\ \A w \in Windows : Served(w) => Served(w)'
      BY <3>1 DEF Served
    <3>3. \A w \in Windows : keys'[w] # 0 => keys[w] # 0 \/ Served(w)'
      BY <3>1, <3>2 DEF TypeOK
    <3>4. pc[r] \in {"park", "get", "clock"} => Reaches(u, u)
      BY <2>2, ReachesLater
    <3>5. Leaves(r, u)
      BY <3>2, <3>4 DEF Leaves
    <3> QED
      BY <2>2, <2>3, <2>4, <3>1, <3>2, <3>3, <3>5, RunStep
  <2> QED
    BY <1>3, <2>5, <2>6, <2>7, <2>8, <2>9, <2>10, <2>11 DEF Notify, Abandoned
<1> QED
  BY <1>1, <1>2, <1>3
     DEF Next, Tick, DeleteSlackIntegration, runVars, vars

\* A window in which a connected user hit the limit gets its message, under its
\* own key or that of a window its run was late into, unless a fault struck in
\* that window: who finds the key set gives up rightly, whatever the lag.
THEOREM EveryHit == Spec => []HitNotified
<1> DEFINE Inv == TypeOK /\ LagInv /\ HitInv
<1>1. Init => Inv
  BY TypeInit, LagInit, HitInit
<1>2. Inv /\ [Next]_vars => Inv'
  BY TypeStep, LagStep, HitStep
<1>3. Inv => HitNotified
  <2> SUFFICES ASSUME TypeOK, HitInv, NEW v \in hits, \A r \in Runs : pc[r] = "idle"
               PROVE  \E w \in Windows : Reaches(v, w) /\ (posts[w] >= 1 \/ w \in lost)
    BY DEF HitNotified
  <2>1. Bound(v) = {} /\ \A w \in Windows : Heading(w) = {}
    BY DEF Bound, Heading
  <2>2. PICK w \in Windows : Reaches(v, w) /\ (posts[w] # 0 \/ w \in lost)
    BY <2>1 DEF HitInv, Served
  <2>3. posts[w] \in Nat
    BY DEF TypeOK
  <2> QED
    BY <2>2, <2>3
<1> HIDE DEF Inv
<1> QED
  BY <1>1, <1>2, <1>3, PTL DEF Spec

===============================================================================
