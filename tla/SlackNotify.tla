------------------------------ MODULE SlackNotify ------------------------------
(***************************************************************************)
(* Slack: the user's integration (OAuth connect, callback, disconnect) and *)
(* notifyRateLimit, which the worker awaits on every QUOTA answer, for one *)
(* user and one sender.  One unit of time is one second.                   *)
(*                                                                         *)
(* A run reads the clock for the rate limiter, is told QUOTA, moves the    *)
(* row's time, and then reads the integration, the clock again, claims the *)
(* deduplication key and posts: each is a step, with at most MaxLag        *)
(* between a clock reading and its use.  The post itself may take any      *)
(* time, and every call may throw.                                         *)
(***************************************************************************)
EXTENDS Naturals

CONSTANTS
  Runs,     \* runs of send() that can be under way at once
  Flows,    \* OAuth flows the user starts; each yields a webhook of its own
  None,     \* no integration
  W,        \* RATE_LIMIT_WINDOW_MS
  StateTtl, \* STATE_TTL_SECONDS
  MaxLag,   \* longest time between reading the clock and using what was read
  MaxTime,  \* bound of the clock
  Budget    \* how many faults of each kind a behaviour may contain

(* The kinds of fault: a call to Postgres or to Redis throws, the webhook   *)
(* answers with an error or not at all, a worker is killed, the user        *)
(* disconnects.                                                             *)
FaultKinds == {"store", "redis", "post", "crash", "disconnect"}

ASSUME SlackAssumption ==
  /\ None \notin Flows
  /\ W \in Nat \ {0} /\ StateTtl \in Nat /\ MaxLag \in Nat /\ MaxTime \in Nat
  /\ Budget \in [FaultKinds -> Nat]

VARIABLES
  now,         \* the clock
  integration, \* row of slack_integrations: the flow whose webhook it holds
  flow,        \* where each OAuth flow is
  expires,     \* exp of the flow's signed state, until the callback has used it
  pc,          \* where each run is
  at,          \* the clock as the run last read it
  hook,        \* the integration a run has read
  keys,        \* slack:notified:{user}:{sender}:{window}: when the key expires
  hits,        \* bookkeeping: windows in which QUOTA met a connected user
  posts,       \* bookkeeping: messages posted per window of the key
  lost,        \* bookkeeping: windows of runs that a fault ended before the post
  left         \* faults still allowed

oauthVars == <<integration, flow, expires>>
runVars == <<pc, at, hook>>
history == <<hits, posts, lost>>
vars == <<now, oauthVars, runVars, keys, history, left>>

Windows == 0 .. MaxTime

TypeOK ==
  /\ now \in 0 .. MaxTime
  /\ integration \in Flows \cup {None}
  /\ flow \in [Flows -> {"none", "issued", "exchanging", "done"}]
  /\ expires \in [Flows -> Nat]
  /\ pc \in [Runs -> {"idle", "park", "get", "clock", "set", "post"}]
  /\ at \in [Runs -> 0 .. MaxTime]
  /\ hook \in [Runs -> Flows \cup {None}]
  /\ \A r \in Runs : pc[r] \in {"clock", "set", "post"} => hook[r] # None
  /\ keys \in [Windows -> Nat]
  /\ hits \subseteq Windows
  /\ posts \in [Windows -> Nat]
  /\ lost \subseteq Windows
  /\ left \in [FaultKinds -> Nat]

Init ==
  /\ now = 0
  /\ integration = None
  /\ flow = [f \in Flows |-> "none"]
  /\ expires = [f \in Flows |-> 0]
  /\ pc = [r \in Runs |-> "idle"]
  /\ at = [r \in Runs |-> 0]
  /\ hook = [r \in Runs |-> None]
  /\ keys = [w \in Windows |-> 0]
  /\ hits = {}
  /\ posts = [w \in Windows |-> 0]
  /\ lost = {}
  /\ left = Budget

\* windowFor.
Window(t) == t \div W

Fault(k) == left[k] > 0 /\ left' = [left EXCEPT ![k] = @ - 1]

\* The run of notifyRateLimit is over, and send() goes on to moveToDelayed.
EndNotify(r) == /\ pc' = [pc EXCEPT ![r] = "idle"]
                /\ hook' = [hook EXCEPT ![r] = None]
                /\ at' = [at EXCEPT ![r] = 0]

-----------------------------------------------------------------------------
(* The API: connect, callback, disconnect *)

\* GET /slack/connect signs a state that carries the user and an expiry.
AuthorizeUrl(f) ==
  /\ flow[f] = "none"
  /\ flow' = [flow EXCEPT ![f] = "issued"]
  /\ expires' = [expires EXCEPT ![f] = now + StateTtl]
  /\ UNCHANGED <<now, integration, runVars, keys, history, left>>

\* GET /slack/callback: denied by the user, or the state has expired.
CallbackRefused(f) ==
  /\ flow[f] = "issued"
  /\ flow' = [flow EXCEPT ![f] = "done"]
  /\ expires' = [expires EXCEPT ![f] = 0]
  /\ UNCHANGED <<now, integration, runVars, keys, history, left>>

\* The state is valid and exchangeCode starts.
CallbackAccepted(f) ==
  /\ flow[f] = "issued" /\ now <= expires[f]
  /\ flow' = [flow EXCEPT ![f] = "exchanging"]
  /\ expires' = [expires EXCEPT ![f] = 0]
  /\ UNCHANGED <<now, integration, runVars, keys, history, left>>

\* exchangeCode fails; or it succeeds and upsertSlackIntegration replaces the row.
ExchangeFails(f) ==
  /\ flow[f] = "exchanging"
  /\ flow' = [flow EXCEPT ![f] = "done"]
  /\ UNCHANGED <<now, integration, expires, runVars, keys, history, left>>

UpsertSlackIntegration(f) ==
  /\ flow[f] = "exchanging"
  /\ flow' = [flow EXCEPT ![f] = "done"]
  /\ integration' = f
  /\ UNCHANGED <<now, expires, runVars, keys, history, left>>

\* POST /slack/disconnect.
DeleteSlackIntegration ==
  /\ Fault("disconnect")
  /\ integration' = None
  /\ UNCHANGED <<now, flow, expires, runVars, keys, history>>

-----------------------------------------------------------------------------
(* notifyRateLimit, from the QUOTA branch of send() *)

\* A fault ends the run before its message is posted.
Abandon(r) == EndNotify(r) /\ lost' = lost \cup {Window(at[r])}

\* send() reads the clock and the limiter answers QUOTA for its window.
HitQuota(r) ==
  /\ pc[r] = "idle"
  /\ pc' = [pc EXCEPT ![r] = "park"]
  /\ at' = [at EXCEPT ![r] = now]
  /\ hits' = IF integration = None THEN hits ELSE hits \cup {Window(now)}
  /\ UNCHANGED <<now, oauthVars, hook, keys, posts, lost, left>>

\* updateScheduledAt, before the notification: if it throws there is none.
UpdateScheduledAt(r) ==
  /\ pc[r] = "park"
  /\ \/ /\ pc' = [pc EXCEPT ![r] = "get"]
        /\ UNCHANGED <<at, hook, lost, left>>
     \/ Fault("store") /\ Abandon(r)
  /\ UNCHANGED <<now, oauthVars, keys, hits, posts>>

\* Variant: a missing integration is not noticed.
GetIntegrationUnchecked(r) ==
  /\ pc[r] = "get"
  /\ pc' = [pc EXCEPT ![r] = "clock"]
  /\ hook' = [hook EXCEPT ![r] = integration]
  /\ UNCHANGED <<now, oauthVars, at, keys, history, left>>

\* getSlackIntegration, on every call; without one there is nothing to do.  If
\* the user was connected at a hit of this window, they have left since.
GetIntegration(r) ==
  /\ pc[r] = "get"
  /\ IF integration = None
       THEN EndNotify(r) /\ lost' = lost \cup (hits \cap {Window(at[r])})
       ELSE /\ pc' = [pc EXCEPT ![r] = "clock"]
            /\ hook' = [hook EXCEPT ![r] = integration]
            /\ UNCHANGED <<at, lost>>
  /\ UNCHANGED <<now, oauthVars, keys, hits, posts, left>>

\* getSlackIntegration throws: caught, a warning is logged.
GetIntegrationFails(r) ==
  /\ pc[r] = "get"
  /\ Fault("store")
  /\ Abandon(r)
  /\ UNCHANGED <<now, oauthVars, keys, hits, posts>>

\* now(): the window of the key is the window of this moment.
ReadClock(r) ==
  /\ pc[r] = "clock"
  /\ pc' = [pc EXCEPT ![r] = "set"]
  /\ at' = [at EXCEPT ![r] = now]
  /\ UNCHANGED <<now, oauthVars, hook, keys, history, left>>

\* SET EX, by a run whose SET came through: the key lives for one window from now.
SetKey(r, free, ttl) ==
  /\ pc[r] = "set"
  /\ IF free
       THEN /\ keys' = [keys EXCEPT ![Window(at[r])] = now + ttl]
            /\ pc' = [pc EXCEPT ![r] = "post"]
            /\ UNCHANGED <<at, hook>>
       ELSE EndNotify(r) /\ UNCHANGED keys
  /\ UNCHANGED <<now, oauthVars, history, left>>

\* Variants: SET without NX; a time to live that is one second short; a key
\* without the window in its name.
ClaimKeyAlways(r)   == SetKey(r, TRUE, W)
ClaimKeyShort(r)    == SetKey(r, keys[Window(at[r])] <= now, W - 1)
ClaimKeyUnscoped(r) == SetKey(r, \A w \in Windows : keys[w] <= now, W)

\* SET NX EX: who finds the key set is done.
ClaimKey(r) == SetKey(r, keys[Window(at[r])] <= now, W)

\* The SET throws, or its reply is lost with the connection after the key was
\* set (the client sends it again and is told that the key exists): no message.
ClaimKeyFails(r) ==
  /\ pc[r] = "set"
  /\ Fault("redis")
  /\ \/ UNCHANGED keys
     \/ /\ keys[Window(at[r])] <= now
        /\ keys' = [keys EXCEPT ![Window(at[r])] = now + W]
  /\ Abandon(r)
  /\ UNCHANGED <<now, oauthVars, hits, posts>>

\* The webhook takes the message.
Post(r) ==
  /\ pc[r] = "post"
  /\ posts' = [posts EXCEPT ![Window(at[r])] = @ + 1]
  /\ EndNotify(r)
  /\ UNCHANGED <<now, oauthVars, keys, hits, lost, left>>

\* The webhook fails: a warning is logged, the key stays set.
PostFails(r) ==
  /\ pc[r] = "post"
  /\ Fault("post")
  /\ Abandon(r)
  /\ UNCHANGED <<now, oauthVars, keys, hits, posts>>

\* The worker of the run is killed.
CrashRun(r) ==
  /\ pc[r] # "idle"
  /\ Fault("crash")
  /\ Abandon(r)
  /\ UNCHANGED <<now, oauthVars, keys, hits, posts>>

Tick ==
  /\ now < MaxTime
  /\ \A r \in Runs : pc[r] \in {"park", "get", "clock", "set"} => now < at[r] + MaxLag
  /\ now' = now + 1
  /\ UNCHANGED <<oauthVars, runVars, keys, history, left>>

Oauth(f) ==
  \/ AuthorizeUrl(f) \/ CallbackRefused(f) \/ CallbackAccepted(f)
  \/ ExchangeFails(f) \/ UpsertSlackIntegration(f)

Notify(r) ==
  \/ HitQuota(r) \/ UpdateScheduledAt(r)
  \/ GetIntegration(r) \/ GetIntegrationFails(r) \/ ReadClock(r)
  \/ ClaimKey(r) \/ ClaimKeyFails(r)
  \/ Post(r) \/ PostFails(r) \/ CrashRun(r)

Next ==
  \/ Tick \/ DeleteSlackIntegration
  \/ \E f \in Flows : Oauth(f)
  \/ \E r \in Runs : Notify(r)

Spec == Init /\ [][Next]_vars

-----------------------------------------------------------------------------
(* Properties *)

\* "One message per user+sender+window", however many runs are re-parked in it.
OneMessagePerWindow == \A w \in Windows : posts[w] <= 1

\* What is left of it when a run may be late with the SET.  While a window
\* lasts it has one message: a second one comes from a run that has read the
\* clock in the window and found the key expired after the window's end.
OneMessageWhileItLasts ==
  \A w \in Windows : posts[w] > 1 => W * w + W <= now

\* And late runs cannot repeat it at will: every further message of a window
\* needs a life of the key that begins before the window's end plus the lag.
MessagesBounded == \A w \in Windows : W * posts[w] < 2 * W + MaxLag

\* "400 re-parked jobs ... produce exactly one Block Kit message": once a window
\* in which a connected user hit the limit is over and no run is under way, its
\* message has been posted.
EveryHitNotified ==
  \A w \in hits :
    w < Window(now) /\ (\A r \in Runs : pc[r] = "idle") => posts[w] >= 1

\* A run that hits the limit in window v can come to the key in window w.
Reaches(v, w) == v <= w /\ W * w < W * v + W + MaxLag

\* A window in which a connected user hit the limit has its message, under its
\* own key or that of a window the run was late into.  Only a fault takes the
\* message away, and only from the window it struck in: a call that threw, a
\* kill, a webhook that failed, a user who left between the hit and the reading
\* of the integration.
HitNotified ==
  (\A r \in Runs : pc[r] = "idle") =>
    \A v \in hits : \E w \in Windows : Reaches(v, w) /\ (posts[w] >= 1 \/ w \in lost)

\* "Notification windows line up with quota windows by construction": a message
\* is posted under a window only if the limit was hit in that window.
WindowsLineUp == \A w \in Windows : posts[w] > 0 => w \in hits

===============================================================================
