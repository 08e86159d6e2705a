------------------------------- MODULE RateLimit -------------------------------
(***************************************************************************)
(* The rate limiter: rate-limit.lua, the choice of a sender, and what      *)
(* send() does with the answer, for the emails of one campaign and with a  *)
(* clock.  One unit of time is one second, the granularity of EXPIRE.      *)
(*                                                                         *)
(* A run of send() reads the clock once, then reads the counters, then     *)
(* runs the script with the time it read: the three are separate steps and *)
(* the clock may advance between them, by at most MaxLag.                  *)
(***************************************************************************)
EXTENDS Integers, Sequences, FiniteSets

CONSTANTS
  Emails,        \* the rows of a campaign, each named by its seq
  HourlyLimit,   \* per active sender, in order of creation, its hourly_limit
  NULL,          \* the hourly_limit of a sender that has none
  EnvLimit,      \* MAX_EMAILS_PER_HOUR_PER_SENDER
  GlobalLimit,   \* MAX_EMAILS_PER_HOUR_GLOBAL; 0 disables it
  CampaignLimit, \* hourly_limit of the campaign
  MinDelay,      \* MIN_DELAY_BETWEEN_EMAILS_MS
  W,             \* RATE_LIMIT_WINDOW_MS
  MaxLag,        \* longest time from Date.now() to the script's execution
  Start,         \* start_at of the campaign
  DelayMs,       \* delay_ms of the campaign
  MaxTime        \* bound of the clock

Senders == DOMAIN HourlyLimit

ASSUME RateAssumption ==
  /\ Emails \subseteq Nat
  /\ HourlyLimit \in Seq(Nat \cup {NULL}) /\ HourlyLimit # << >>
  /\ EnvLimit \in Nat /\ GlobalLimit \in Nat
  /\ MinDelay \in Nat /\ DelayMs \in Nat /\ W \in Nat \ {0}
  \* An absent throttle key reads as time 0, long before any real clock.
  /\ MaxTime \in Nat /\ Start \in MinDelay .. MaxTime
  \* A run does not sleep a whole window between two of its calls.
  /\ MaxLag \in 0 .. W

VARIABLES
  now,       \* the clock
  phase,     \* per email: where its job or run is
  due,       \* the fire time of its job
  at,        \* Date.now() as its run read it, 0 before
  pick,      \* the sender its run chose, 1 before
  throttle,  \* throttle:{sender}: time of its last reservation, 0 if absent
  quota,     \* quota:{sender}:{window}: count and expiry time of the key
  global,    \* quota:global:{window}
  granted,   \* bookkeeping: reservations granted per sender and window
  lastAt,    \* bookkeeping: clock reading of each sender's last reservation
  sentAt     \* when each email reached the SMTP server

limiter == <<throttle, quota, global, granted, lastAt>>
vars == <<now, phase, due, at, pick, limiter, sentAt>>

Windows == 0 .. MaxTime
Counter == [count : Nat, expires : Nat]
Phases  == {"queued", "picking", "reserving", "reserved", "sent"}

TypeOK ==
  /\ now \in 0 .. MaxTime
  /\ phase \in [Emails -> Phases]
  /\ due \in [Emails -> Nat] /\ at \in [Emails -> Nat] /\ sentAt \in [Emails -> Nat]
  /\ pick \in [Emails -> Senders]
  /\ throttle \in [Senders -> Nat]
  /\ quota \in [Senders -> [Windows -> Counter]]
  /\ global \in [Windows -> Counter]
  /\ granted \in [Senders -> [Windows -> Nat]]
  /\ lastAt \in [Senders -> Nat]

-----------------------------------------------------------------------------
(* Pure parts.  A definition named as another one with a word added is that
   one with a plausible bug; no action uses it. *)

\* scheduledAtFor: start_at + seq * delay_ms.
ScheduledAtFor(e) == Start + e * DelayMs

\* windowFor.
Window(t) == t \div W

Limit(s) == IF HourlyLimit[s] = NULL THEN EnvLimit ELSE HourlyLimit[s]

\* Variant: a counter lives for one window only, from its last write.
TtlOneWindow == W

\* The time to live of a counter: twice the window.
Ttl == 2 * W

\* GET of a counter: a key that is absent or expired reads as 0.
Value(c) == IF now < c.expires THEN c.count ELSE 0

\* INCR and EXPIRE of a counter.
Increment(c) == [count |-> Value(c) + 1, expires |-> now + Ttl]

\* pickMostQuota: the most remaining quota, the first sender among equals.
PickMostQuota(used) ==
  LET remaining(s) == Limit(s) - used[s] IN
  CHOOSE s \in Senders :
    \A t \in Senders : \/ remaining(s) > remaining(t)
                       \/ remaining(s) = remaining(t) /\ s <= t

Init ==
  /\ now = Start
  /\ phase = [e \in Emails |-> "queued"]
  /\ due = [e \in Emails |-> ScheduledAtFor(e)]
  /\ at = [e \in Emails |-> 0]
  /\ pick = [e \in Emails |-> 1]
  /\ throttle = [s \in Senders |-> 0]
  /\ quota = [s \in Senders |-> [w \in Windows |-> [count |-> 0, expires |-> 0]]]
  /\ global = [w \in Windows |-> [count |-> 0, expires |-> 0]]
  /\ granted = [s \in Senders |-> [w \in Windows |-> 0]]
  /\ lastAt = [s \in Senders |-> 0]
  /\ sentAt = [e \in Emails |-> 0]

-----------------------------------------------------------------------------
(* send(), up to the SMTP server *)

\* A worker takes the job when it is due and reads the clock.
StartRun(e) ==
  /\ phase[e] = "queued" /\ due[e] <= now
  /\ phase' = [phase EXCEPT ![e] = "picking"]
  /\ at' = [at EXCEPT ![e] = now]
  /\ UNCHANGED <<now, due, pick, limiter, sentAt>>

\* readUsed for the window of the clock read, and pickMostQuota.
PickSender(e) ==
  /\ phase[e] = "picking"
  /\ pick' = [pick EXCEPT ![e] =
                PickMostQuota([s \in Senders |-> Value(quota[s][Window(at[e])])])]
  /\ phase' = [phase EXCEPT ![e] = "reserving"]
  /\ UNCHANGED <<now, due, at, limiter, sentAt>>

\* Variant: the global counter is not looked at.
QuotaSpentSenderOnly(s, w) == Value(quota[s][w]) >= Limit(s)

\* The script's two quota gates.
QuotaSpent(s, w) ==
  \/ Value(quota[s][w]) >= Limit(s)
  \/ GlobalLimit > 0 /\ Value(global[w]) >= GlobalLimit

\* The script's throttle gate.
TooSoon(s, t) == t < throttle[s] + MinDelay

\* A run that ends takes its local variables with it.
EndRun(e) == /\ phase' = [phase EXCEPT ![e] = "queued"]
             /\ at' = [at EXCEPT ![e] = 0]
             /\ pick' = [pick EXCEPT ![e] = 1]

\* QUOTA: the job is re-parked into the next window, offset by its seq.
ReserveQuota(e) ==
  LET w == Window(at[e]) IN
  /\ phase[e] = "reserving"
  /\ QuotaSpent(pick[e], w)
  /\ due' = [due EXCEPT ![e] = (w + 1) * W + e * MinDelay]
  /\ EndRun(e)
  /\ UNCHANGED <<now, limiter, sentAt>>

\* THROTTLE: the job is re-parked by the wait the script returned.
ReserveThrottle(e) ==
  LET s == pick[e] IN
  /\ phase[e] = "reserving"
  /\ ~QuotaSpent(s, Window(at[e]))
  /\ TooSoon(s, at[e])
  /\ due' = [due EXCEPT ![e] = now + (throttle[s] + MinDelay - at[e])]
  /\ EndRun(e)
  /\ UNCHANGED <<now, limiter, sentAt>>

\* What a granted reservation writes for sender s at clock reading t.
Grant(s, t, stamp) ==
  LET w == Window(t) IN
  /\ throttle' = [throttle EXCEPT ![s] = stamp]
  /\ quota' = [quota EXCEPT ![s][w] = Increment(@)]
  /\ global' = IF GlobalLimit > 0 THEN [global EXCEPT ![w] = Increment(@)] ELSE global
  /\ granted' = [granted EXCEPT ![s][w] = @ + 1]
  /\ lastAt' = [lastAt EXCEPT ![s] = t]

\* Variant: the last-send stamp is the start of the window.
ReserveOkCoarseStamp(e) ==
  /\ phase[e] = "reserving"
  /\ ~QuotaSpent(pick[e], Window(at[e]))
  /\ ~TooSoon(pick[e], at[e])
  /\ Grant(pick[e], at[e], Window(at[e]) * W)
  /\ phase' = [phase EXCEPT ![e] = "reserved"]
  /\ UNCHANGED <<now, due, at, pick, sentAt>>

\* OK: check and reservation are one script, one step.
ReserveOk(e) ==
  /\ phase[e] = "reserving"
  /\ ~QuotaSpent(pick[e], Window(at[e]))
  /\ ~TooSoon(pick[e], at[e])
  /\ Grant(pick[e], at[e], at[e])
  /\ phase' = [phase EXCEPT ![e] = "reserved"]
  /\ UNCHANGED <<now, due, at, pick, sentAt>>

\* The row is claimed and the mail handed over, whenever that is.
Deliver(e) ==
  /\ phase[e] = "reserved"
  /\ phase' = [phase EXCEPT ![e] = "sent"]
  /\ sentAt' = [sentAt EXCEPT ![e] = now]
  /\ UNCHANGED <<now, due, at, pick, limiter>>

\* Variant: the slot is given back, in the window of the present time.
RetryReleasesSlot(e) ==
  /\ phase[e] = "reserved"
  /\ due' = [due EXCEPT ![e] = now + 1]
  /\ quota' = [quota EXCEPT ![pick[e]][Window(now)].count = @ - 1]
  /\ EndRun(e)
  /\ UNCHANGED <<now, throttle, global, granted, lastAt, sentAt>>

\* The claim is lost or the mail rejected: the slot stays counted, and a retry
\* comes back to the limiter.
Retry(e) ==
  /\ phase[e] = "reserved"
  /\ due' = [due EXCEPT ![e] = now + 1]
  /\ EndRun(e)
  /\ UNCHANGED <<now, limiter, sentAt>>

\* Time passes; no run lags behind its clock reading by more than MaxLag.
Tick ==
  /\ now < MaxTime
  /\ \A e \in Emails : phase[e] \in {"picking", "reserving"} => now < at[e] + MaxLag
  /\ now' = now + 1
  /\ UNCHANGED <<phase, due, at, pick, limiter, sentAt>>

Next ==
  \/ Tick
  \/ \E e \in Emails :
       \/ StartRun(e) \/ PickSender(e)
       \/ ReserveQuota(e) \/ ReserveThrottle(e) \/ ReserveOk(e)
       \/ Deliver(e) \/ Retry(e)

Spec == Init /\ [][Next]_vars

-----------------------------------------------------------------------------
(* Properties *)

\* However the runs of several workers interleave, and although the counters
\* are keys that expire, a sender is never granted more than its limit of
\* reservations in a window.
SenderQuotaKept == \A s \in Senders, w \in Windows : granted[s][w] <= Limit(s)

\* The sum of g over 1 .. n.
SumOver(n, g) ==
  LET sum[k \in 0 .. n] == IF k = 0 THEN 0 ELSE sum[k - 1] + g[k]
  IN  sum[n]

\* The reservations all senders together were granted in window w.
GrantedIn(w) == SumOver(Len(HourlyLimit), [s \in Senders |-> granted[s][w]])

\* Nor are all senders together granted more than the global cap.
GlobalQuotaKept ==
  GlobalLimit > 0 => \A w \in Windows : GrantedIn(w) <= GlobalLimit

\* Reservations of one sender are MinDelay apart by the clocks of the runs that
\* made them, although a run's clock reading may be old when it reserves.
GrantsSpaced ==
  [][\A s \in Senders :
       granted'[s] # granted[s] => lastAt'[s] >= lastAt[s] + MinDelay]_vars

-----------------------------------------------------------------------------
(* What the documents promise of the sends themselves *)

SentBy(s) == {e \in Emails : phase[e] = "sent" /\ pick[e] = s}

\* "Minimum spacing between sends from one sender".
SendsSpaced ==
  \A s \in Senders : \A e, f \in SentBy(s) :
    e # f => sentAt[e] >= sentAt[f] + MinDelay \/ sentAt[f] >= sentAt[e] + MinDelay

\* "accounting is approximate, never over-permissive": the sends of a window
\* are within the sender's limit.
SendsWithinQuota ==
  \A s \in Senders, w \in Windows :
    Cardinality({e \in SentBy(s) : Window(sentAt[e]) = w}) <= Limit(s)

\* "QUOTA re-parks to the next window".
ReparkedToNextWindow ==
  [][\A e \in Emails : ReserveQuota(e) => Window(due'[e]) = Window(at[e]) + 1]_vars

\* "NULL = fall back to sender/env limit": a campaign with an hourly limit of
\* its own is not granted more than that in a window.
CampaignQuotaKept ==
  \A w \in Windows :
    Cardinality({e \in Emails : phase[e] \in {"reserved", "sent"} /\ Window(at[e]) = w})
      <= CampaignLimit

===============================================================================
