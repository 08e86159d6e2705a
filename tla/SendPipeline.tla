----------------------------- MODULE SendPipeline -----------------------------
(***************************************************************************)
(* The path of an email row from POST /campaigns to a terminal status:     *)
(* the API commits rows and enqueues one BullMQ job per row, worker        *)
(* processes run send() on the jobs, and a worker that boots reconciles    *)
(* the queue with Postgres.  Every statement that reads or writes Postgres *)
(* or Redis is a step of its own, so the awaits of the code interleave.    *)
(*                                                                         *)
(* Time is abstract: a queued job may be fetched at any moment (its delay  *)
(* and back-off are not counted), and a row in 'sending' may become        *)
(* "overdue", i.e. claimed longer than STALLED_SEND_THRESHOLD_MS ago, at   *)
(* any moment.  The rate limiter is an environment that answers OK,        *)
(* THROTTLE or QUOTA; module RateLimit says which.                         *)
(***************************************************************************)
EXTENDS Naturals, FiniteSets

CONSTANTS
  Emails,        \* row ids of table emails
  Procs,         \* worker processes
  Concurrency,   \* WORKER_CONCURRENCY: jobs one process runs in parallel
  MaxAttempts,   \* attempts of emailJobOptions: runs of a job that may throw
  SweepAttempts, \* the literal 3 of resetStalledSends
  Chunk,         \* CHUNK: jobs added by one addBulk
  Budget,        \* how many faults of each kind a behaviour may contain
  None           \* no slot (owner of an unlocked job), no email (of an idle slot)

(* The kinds of fault: a worker killed, a worker stopped by SIGTERM, the   *)
(* API failing between commit and enqueue, a Postgres or Redis call that   *)
(* throws, an SMTP error after the server took the mail, a job lock that   *)
(* expires under a live worker, Redis data lost, finished jobs aged out.   *)
FaultKinds == {"crash", "restart", "api", "store", "smtp", "lock", "wipe", "evict"}

ASSUME EmailsAssumption == IsFiniteSet(Emails)
ASSUME NumbersAssumption ==
  /\ Concurrency \in Nat \ {0}
  /\ MaxAttempts \in Nat \ {0}
  /\ SweepAttempts \in Nat
  /\ Chunk \in Nat \ {0}
ASSUME BudgetAssumption == Budget \in [FaultKinds -> Nat]

\* The k-th concurrent run of send() in process p.
Slots == Procs \X (1 .. Concurrency)
ASSUME NoneAssumption == None \notin Slots \cup Emails

VARIABLES
  \* table emails (Postgres)
  status,     \* the status column; "absent" before the insert commits
  attempts,   \* the attempts column
  messageId,  \* whether message_id is not null
  overdue,    \* whether updated_at lies before the stall threshold
  \* queue email-send (Redis)
  job,        \* state of job email-{id}; "waiting" covers delayed and waiting
  made,       \* attemptsMade of the job
  owner,      \* the slot holding the lock of an active job
  \* worker processes
  proc,       \* "up", "draining" (SIGTERM received) or "down"
  pc,         \* where each slot is in send()
  cur,        \* the email of the job a slot runs
  finalizing, \* per process, emails whose 'failed' handler is at markFailed
  boot,       \* where reconcileOnBoot() is
  bootTodo,   \* rows reconcileOnBoot() has yet to enqueue
  \* API process and provisioning
  apiTodo,    \* committed rows POST /campaigns has yet to enqueue
  haveSenders,\* whether an active sender exists
  \* bookkeeping
  delivered,  \* how often the SMTP server accepted the email
  left        \* faults still allowed

rowVars  == <<status, attempts, messageId, overdue>>
jobVars  == <<job, made, owner>>
slotVars == <<pc, cur>>
procVars == <<proc, finalizing, boot, bootTodo>>
vars == <<rowVars, jobVars, slotVars, procVars, apiTodo, haveSenders, delivered, left>>

Statuses  == {"absent", "scheduled", "queued", "sending", "sent", "failed"}
JobStates == {"none", "waiting", "active", "completed", "failed"}
Points    == {"idle", "read", "senders", "reserve", "quota", "park", "claim",
              "send", "mark", "reset", "return", "throw"}
BootSteps == {"off", "sweep", "select", "enqueue"}

TypeOK ==
  /\ status \in [Emails -> Statuses]
  /\ attempts \in [Emails -> Nat]
  /\ messageId \in [Emails -> BOOLEAN]
  /\ overdue \in [Emails -> BOOLEAN]
  /\ job \in [Emails -> JobStates]
  /\ made \in [Emails -> 0 .. MaxAttempts]
  /\ owner \in [Emails -> Slots \cup {None}]
  /\ proc \in [Procs -> {"up", "draining", "down"}]
  /\ pc \in [Slots -> Points]
  /\ cur \in [Slots -> Emails \cup {None}]
  /\ finalizing \in [Procs -> SUBSET Emails]
  /\ boot \in [Procs -> BootSteps]
  /\ bootTodo \in [Procs -> SUBSET Emails]
  /\ apiTodo \in SUBSET Emails
  /\ haveSenders \in BOOLEAN
  /\ delivered \in [Emails -> Nat]
  /\ left \in [FaultKinds -> Nat]
  /\ \A k \in FaultKinds : left[k] <= Budget[k]

Pending(e)  == status[e] \in {"scheduled", "queued"}
Finished(e) == status[e] \in {"sent", "failed"}
SlotsOf(p)  == {s \in Slots : s[1] = p}

Init ==
  /\ status = [e \in Emails |-> "absent"]
  /\ attempts = [e \in Emails |-> 0]
  /\ messageId = [e \in Emails |-> FALSE]
  /\ overdue = [e \in Emails |-> FALSE]
  /\ job = [e \in Emails |-> "none"]
  /\ made = [e \in Emails |-> 0]
  /\ owner = [e \in Emails |-> None]
  /\ proc = [p \in Procs |-> "down"]
  /\ pc = [s \in Slots |-> "idle"]
  /\ cur = [s \in Slots |-> None]
  /\ finalizing = [p \in Procs |-> {}]
  /\ boot = [p \in Procs |-> "off"]
  /\ bootTodo = [p \in Procs |-> {}]
  /\ apiTodo = {}
  /\ haveSenders \in BOOLEAN
  /\ delivered = [e \in Emails |-> 0]
  /\ left = Budget

-----------------------------------------------------------------------------
(* Helpers.  Here and below, a definition named as another one with a word
   added (AddBulkAnyId, ResetForRetryOmitted ...) is that definition with a
   plausible bug.  No action uses it; it serves to test the properties. *)

\* A fault of kind k happens: the behaviour's budget allows it.
Fault(k) == left[k] > 0 /\ left' = [left EXCEPT ![k] = @ - 1]

\* Slot s moves on to point l of send().
Goto(s, l) == pc' = [pc EXCEPT ![s] = l]

\* Slot s has ended its run of send().
Free(s) == Goto(s, "idle") /\ cur' = [cur EXCEPT ![s] = None]

\* Every UPDATE stamps updated_at with the present time.
Touch(e) == overdue' = [overdue EXCEPT ![e] = FALSE]

\* Variant: job ids that do not refuse a second add.
AddBulkAnyId(rows) ==
  /\ job' = [e \in Emails |-> IF e \in rows THEN "waiting" ELSE job[e]]
  /\ UNCHANGED <<made, owner>>

\* addBulk under deterministic job ids: an id that Redis still knows, be it
\* of a finished job kept as history, is left as it is.
AddBulk(rows) ==
  /\ job' = [e \in Emails |-> IF e \in rows /\ job[e] = "none" THEN "waiting" ELSE job[e]]
  /\ UNCHANGED <<made, owner>>

\* The chunks enqueueEmailSends may add next.
Chunks(rows) == {c \in SUBSET rows : c # {} /\ Cardinality(c) <= Chunk}

-----------------------------------------------------------------------------
(* The API: POST /campaigns, and the operator's bootstrap script *)

\* createCampaignWithEmails commits a campaign's rows in one transaction.
CreateCampaign ==
  \E rows \in SUBSET {e \in Emails : status[e] = "absent"} :
    /\ rows # {}
    /\ status' = [e \in Emails |-> IF e \in rows THEN "scheduled" ELSE status[e]]
    /\ apiTodo' = apiTodo \cup rows
    /\ UNCHANGED <<attempts, messageId, overdue, jobVars, slotVars, procVars,
                   haveSenders, delivered, left>>

\* enqueueEmailSends, called after the commit, adds the next chunk of jobs.
EnqueueCampaign ==
  \E rows \in Chunks(apiTodo) :
    /\ AddBulk(rows)
    /\ apiTodo' = apiTodo \ rows
    /\ UNCHANGED <<rowVars, slotVars, procVars, haveSenders, delivered, left>>

\* The API dies, or an addBulk throws, with rows committed and not enqueued.
LoseEnqueue ==
  /\ apiTodo # {}
  /\ Fault("api")
  /\ apiTodo' = {}
  /\ UNCHANGED <<rowVars, jobVars, slotVars, procVars, haveSenders, delivered>>

\* scripts/bootstrap.ts inserts the senders if there are none.
ProvisionSenders ==
  /\ ~haveSenders
  /\ haveSenders' = TRUE
  /\ UNCHANGED <<rowVars, jobVars, slotVars, procVars, apiTodo, delivered, left>>

-----------------------------------------------------------------------------
(* send(): one run of a job in slot s *)

\* BullMQ hands job e to an idle slot of a running worker and locks it.
FetchJob(s, e) ==
  /\ proc[s[1]] = "up" /\ pc[s] = "idle"
  /\ job[e] = "waiting"
  /\ job' = [job EXCEPT ![e] = "active"]
  /\ owner' = [owner EXCEPT ![e] = s]
  /\ Goto(s, "read")
  /\ cur' = [cur EXCEPT ![s] = e]
  /\ UNCHANGED <<rowVars, made, procVars, apiTodo, haveSenders, delivered, left>>

\* A step of slot s inside send() that changes the program counter only.
Advance(s, from, to) ==
  /\ pc[s] = from
  /\ Goto(s, to)
  /\ UNCHANGED <<rowVars, jobVars, cur, procVars, apiTodo, haveSenders, delivered, left>>

\* getEmailForSchedule: a row that is not pending ends the run successfully.
ReadRow(s) == Advance(s, "read", IF Pending(cur[s]) THEN "senders" ELSE "return")

\* getActiveSenders and pickMostQuota: with no sender the row is reset and
\* the run throws.
PickSender(s) == Advance(s, "senders", IF haveSenders THEN "reserve" ELSE "reset")

\* reserveSlot answers OK, THROTTLE or QUOTA.
ReserveOk(s) == Advance(s, "reserve", "claim")
ReserveThrottle(s) == Advance(s, "reserve", "park")
ReserveQuota(s) == Advance(s, "reserve", "quota")

\* updateScheduledAt persists the next window's fire time, if the row is still
\* pending.  scheduled_at itself is not modelled: a job may run at any time.
UpdateScheduledAt(s) ==
  /\ pc[s] = "quota"
  /\ Goto(s, "park")
  /\ overdue' = [overdue EXCEPT ![cur[s]] = @ /\ ~Pending(cur[s])]
  /\ UNCHANGED <<status, attempts, messageId, jobVars, cur, procVars, apiTodo,
                 haveSenders, delivered, left>>

\* Variant: a rate-limited run returns, so that its job completes.
MoveToDelayedCompletes(s) ==
  /\ pc[s] = "park"
  /\ job' = [job EXCEPT ![cur[s]] = "completed"]
  /\ owner' = [owner EXCEPT ![cur[s]] = None]
  /\ Free(s)
  /\ UNCHANGED <<rowVars, made, procVars, apiTodo, haveSenders, delivered, left>>

\* moveToDelayed and DelayedError: the job is re-parked and no attempt is used.
\* With the lock lost moveToDelayed throws, and the failure finds no lock either.
MoveToDelayed(s) ==
  /\ pc[s] = "park"
  /\ IF owner[cur[s]] = s
       THEN /\ job' = [job EXCEPT ![cur[s]] = "waiting"]
            /\ owner' = [owner EXCEPT ![cur[s]] = None]
       ELSE UNCHANGED <<job, owner>>
  /\ Free(s)
  /\ UNCHANGED <<rowVars, made, procVars, apiTodo, haveSenders, delivered, left>>

\* The guarded UPDATE of claimForSending changes row e.
Claim(e) ==
  /\ Pending(e)
  /\ status' = [status EXCEPT ![e] = "sending"]
  /\ attempts' = [attempts EXCEPT ![e] = @ + 1]
  /\ Touch(e)
  /\ UNCHANGED messageId

\* claimForSending, won or lost; the loser returns successfully.
ClaimForSending(s) ==
  /\ pc[s] = "claim"
  /\ \/ Claim(cur[s]) /\ Goto(s, "send")
     \/ ~Pending(cur[s]) /\ Goto(s, "return") /\ UNCHANGED rowVars
  /\ UNCHANGED <<jobVars, cur, procVars, apiTodo, haveSenders, delivered, left>>

\* sendMail resolves: the SMTP server took the mail.
MailAccepted(s) ==
  /\ pc[s] = "send"
  /\ delivered' = [delivered EXCEPT ![cur[s]] = @ + 1]
  /\ Goto(s, "mark")
  /\ UNCHANGED <<rowVars, jobVars, cur, procVars, apiTodo, haveSenders, left>>

\* Variant: a rejected mail is recorded as sent.
MailRejectedIgnored(s) == Advance(s, "send", "mark")

\* sendMail rejects, and the server has not taken the mail.
MailRejected(s) == Advance(s, "send", "reset")

\* sendMail rejects although the server has taken the mail (the connection
\* broke before the reply).
MailReplyLost(s) ==
  /\ pc[s] = "send"
  /\ Fault("smtp")
  /\ delivered' = [delivered EXCEPT ![cur[s]] = @ + 1]
  /\ Goto(s, "reset")
  /\ UNCHANGED <<rowVars, jobVars, cur, procVars, apiTodo, haveSenders>>

\* Variant: markSent guarded as resetForRetry is.
SetSentGuarded(e) ==
  /\ IF status[e] = "sending"
       THEN /\ status' = [status EXCEPT ![e] = "sent"]
            /\ messageId' = [messageId EXCEPT ![e] = TRUE]
       ELSE UNCHANGED <<status, messageId>>
  /\ Touch(e)
  /\ UNCHANGED attempts

\* The UPDATE of markSent: it has no guard on the status.
SetSent(e) ==
  /\ status' = [status EXCEPT ![e] = "sent"]
  /\ messageId' = [messageId EXCEPT ![e] = TRUE]
  /\ Touch(e)
  /\ UNCHANGED attempts

MarkSent(s) ==
  /\ pc[s] = "mark"
  /\ SetSent(cur[s])
  /\ Goto(s, "return")
  /\ UNCHANGED <<jobVars, cur, procVars, apiTodo, haveSenders, delivered, left>>

\* Variant: the catch branch only rethrows.
ResetForRetryOmitted(s) == Advance(s, "reset", "throw")

\* resetForRetry releases the row if it is in 'sending', then send() throws.
ResetForRetry(s) ==
  LET e == cur[s] IN
  /\ pc[s] = "reset"
  /\ IF status[e] = "sending"
       THEN status' = [status EXCEPT ![e] = "queued"] /\ Touch(e)
       ELSE UNCHANGED <<status, overdue>>
  /\ Goto(s, "throw")
  /\ UNCHANGED <<attempts, messageId, jobVars, cur, procVars, apiTodo,
                 haveSenders, delivered, left>>

\* send() returned: BullMQ completes the job if the slot still holds its lock.
CompleteJob(s) ==
  /\ pc[s] = "return"
  /\ IF owner[cur[s]] = s
       THEN /\ job' = [job EXCEPT ![cur[s]] = "completed"]
            /\ owner' = [owner EXCEPT ![cur[s]] = None]
       ELSE UNCHANGED <<job, owner>>
  /\ Free(s)
  /\ UNCHANGED <<rowVars, made, procVars, apiTodo, haveSenders, delivered, left>>

\* How BullMQ ends a run that threw, if the slot still holds the lock: the
\* attempt is counted, and the job retried or, the last time, failed for good.
SettleFailure(s, final, counted, handled) ==
  LET e == cur[s] IN
  /\ pc[s] = "throw"
  /\ IF owner[e] = s
       THEN /\ job' = [job EXCEPT ![e] = IF final THEN "failed" ELSE "waiting"]
            /\ made' = [made EXCEPT ![e] = @ + counted]
            /\ owner' = [owner EXCEPT ![e] = None]
            /\ finalizing' = [finalizing EXCEPT ![s[1]] = IF handled THEN @ \cup {e} ELSE @]
       ELSE UNCHANGED <<job, made, owner, finalizing>>
  /\ Free(s)
  /\ UNCHANGED <<rowVars, proc, boot, bootTodo, apiTodo, haveSenders, delivered, left>>

LastAttempt(e) == made[e] + 1 >= MaxAttempts

\* Variants: attempts without an end; a retry that is not counted; a 'failed'
\* handler that does not ask whether attempts are left.
FailJobEndless(s) == SettleFailure(s, FALSE, 1, FALSE)
FailJobUncounted(s) == SettleFailure(s, LastAttempt(cur[s]), 0, LastAttempt(cur[s]))
FailJobAlwaysHandled(s) == SettleFailure(s, LastAttempt(cur[s]), 1, TRUE)

\* send() threw.  'failed' is emitted each time; its handler goes on to
\* markFailed once the attempts are exhausted.
FailJob(s) == SettleFailure(s, LastAttempt(cur[s]), 1, LastAttempt(cur[s]))

\* The 'failed' handler's markFailed: no guard on the status either.
MarkFailed(p, e) ==
  /\ e \in finalizing[p]
  /\ status' = [status EXCEPT ![e] = "failed"]
  /\ Touch(e)
  /\ finalizing' = [finalizing EXCEPT ![p] = @ \ {e}]
  /\ UNCHANGED <<attempts, messageId, jobVars, slotVars, proc, boot, bootTodo,
                 apiTodo, haveSenders, delivered, left>>

-----------------------------------------------------------------------------
(* Postgres or Redis calls that throw *)

\* A call outside the try block throws and was not applied.
StoreError(s) ==
  /\ pc[s] \in {"read", "senders", "reserve", "quota", "park", "claim", "reset"}
  /\ Fault("store")
  /\ Goto(s, "throw")
  /\ UNCHANGED <<rowVars, jobVars, cur, procVars, apiTodo, haveSenders, delivered>>

\* claimForSending commits and its reply is lost: send() throws with the row
\* left in 'sending'.
ClaimReplyLost(s) ==
  /\ pc[s] = "claim"
  /\ Fault("store")
  /\ Claim(cur[s])
  /\ Goto(s, "throw")
  /\ UNCHANGED <<jobVars, cur, procVars, apiTodo, haveSenders, delivered>>

\* markSent throws, applied or not, inside the try block: the catch branch runs.
MarkSentError(s) ==
  /\ pc[s] = "mark"
  /\ Fault("store")
  /\ SetSent(cur[s]) \/ UNCHANGED rowVars
  /\ Goto(s, "reset")
  /\ UNCHANGED <<jobVars, cur, procVars, apiTodo, haveSenders, delivered>>

\* markFailed throws; the handler logs it and nothing tries again.
MarkFailedError(p, e) ==
  /\ e \in finalizing[p]
  /\ Fault("store")
  /\ finalizing' = [finalizing EXCEPT ![p] = @ \ {e}]
  /\ UNCHANGED <<rowVars, jobVars, slotVars, proc, boot, bootTodo, apiTodo,
                 haveSenders, delivered>>

-----------------------------------------------------------------------------
(* Worker processes: boot, reconcileOnBoot, SIGTERM, kill *)

\* A worker starts: the BullMQ worker consumes while reconcileOnBoot runs.
BootWorker(p) ==
  /\ proc[p] = "down"
  /\ proc' = [proc EXCEPT ![p] = "up"]
  /\ boot' = [boot EXCEPT ![p] = "sweep"]
  /\ UNCHANGED <<rowVars, jobVars, slotVars, finalizing, bootTodo, apiTodo,
                 haveSenders, delivered, left>>

Stalled(e) ==
  status[e] = "sending" /\ ~messageId[e] /\ overdue[e] /\ attempts[e] < SweepAttempts

\* resetStalledSends: one UPDATE over every stalled row.
ResetStalledSends(p) ==
  /\ boot[p] = "sweep"
  /\ status' = [e \in Emails |-> IF Stalled(e) THEN "scheduled" ELSE status[e]]
  /\ overdue' = [e \in Emails |-> overdue[e] /\ ~Stalled(e)]
  /\ boot' = [boot EXCEPT ![p] = "select"]
  /\ UNCHANGED <<attempts, messageId, jobVars, slotVars, proc, finalizing, bootTodo,
                 apiTodo, haveSenders, delivered, left>>

\* getReconcilable: the pending rows, as of now.
GetReconcilable(p) ==
  /\ boot[p] = "select"
  /\ bootTodo' = [bootTodo EXCEPT ![p] = {e \in Emails : Pending(e)}]
  /\ boot' = [boot EXCEPT ![p] = "enqueue"]
  /\ UNCHANGED <<rowVars, jobVars, slotVars, proc, finalizing, apiTodo, haveSenders,
                 delivered, left>>

\* Variant: what does not fit into the first chunk is dropped.
ReconcileOneChunk(p) ==
  /\ boot[p] = "enqueue"
  /\ IF bootTodo[p] = {} THEN UNCHANGED jobVars
     ELSE \E rows \in Chunks(bootTodo[p]) : AddBulk(rows)
  /\ bootTodo' = [bootTodo EXCEPT ![p] = {}]
  /\ boot' = [boot EXCEPT ![p] = "off"]
  /\ UNCHANGED <<rowVars, slotVars, proc, finalizing, apiTodo, haveSenders,
                 delivered, left>>

\* enqueueEmailSends of the rows selected, chunk by chunk.
Reconcile(p) ==
  /\ boot[p] = "enqueue"
  /\ \/ \E rows \in Chunks(bootTodo[p]) :
          /\ AddBulk(rows)
          /\ bootTodo' = [bootTodo EXCEPT ![p] = @ \ rows]
          /\ UNCHANGED boot
     \/ /\ bootTodo[p] = {}
        /\ boot' = [boot EXCEPT ![p] = "off"]
        /\ UNCHANGED <<jobVars, bootTodo>>
  /\ UNCHANGED <<rowVars, slotVars, proc, finalizing, apiTodo, haveSenders,
                 delivered, left>>

\* A call of reconcileOnBoot throws; it is logged and not repeated.
ReconcileError(p) ==
  /\ boot[p] # "off"
  /\ Fault("store")
  /\ boot' = [boot EXCEPT ![p] = "off"]
  /\ bootTodo' = [bootTodo EXCEPT ![p] = {}]
  /\ UNCHANGED <<rowVars, jobVars, slotVars, proc, finalizing, apiTodo, haveSenders,
                 delivered>>

\* SIGTERM: worker.close() stops fetching and waits for the running jobs.
Sigterm(p) ==
  /\ proc[p] = "up"
  /\ Fault("restart")
  /\ proc' = [proc EXCEPT ![p] = "draining"]
  /\ UNCHANGED <<rowVars, jobVars, slotVars, finalizing, boot, bootTodo, apiTodo,
                 haveSenders, delivered>>

\* What is lost when process p ends: its runs, its handlers, its reconciliation.
\* The locks of its jobs are no longer renewed by anyone.
EndProcess(p) ==
  /\ proc' = [proc EXCEPT ![p] = "down"]
  /\ pc' = [s \in Slots |-> IF s[1] = p THEN "idle" ELSE pc[s]]
  /\ cur' = [s \in Slots |-> IF s[1] = p THEN None ELSE cur[s]]
  /\ owner' = [e \in Emails |-> IF owner[e] \in SlotsOf(p) THEN None ELSE owner[e]]
  /\ finalizing' = [finalizing EXCEPT ![p] = {}]
  /\ boot' = [boot EXCEPT ![p] = "off"]
  /\ bootTodo' = [bootTodo EXCEPT ![p] = {}]
  /\ UNCHANGED <<rowVars, job, made, apiTodo, haveSenders, delivered>>

\* process.exit(0) once no run is left.  worker.close() does not wait for the
\* 'failed' handlers or for reconcileOnBoot.
Exit(p) ==
  /\ proc[p] = "draining"
  /\ \A s \in SlotsOf(p) : pc[s] = "idle"
  /\ EndProcess(p)
  /\ UNCHANGED left

Crash(p) ==
  /\ proc[p] # "down"
  /\ Fault("crash")
  /\ EndProcess(p)

-----------------------------------------------------------------------------
(* BullMQ, Redis and the clock *)

\* The stalled-job check of a running worker puts a job whose lock has
\* expired back in the queue.
RecoverStalledJob(e) ==
  /\ job[e] = "active" /\ owner[e] = None
  /\ \E p \in Procs : proc[p] = "up"
  /\ job' = [job EXCEPT ![e] = "waiting"]
  /\ UNCHANGED <<rowVars, made, owner, slotVars, procVars, apiTodo, haveSenders,
                 delivered, left>>

\* The lock of a job expires while its slot still runs.
LoseLock(e) ==
  /\ owner[e] # None
  /\ Fault("lock")
  /\ owner' = [owner EXCEPT ![e] = None]
  /\ UNCHANGED <<rowVars, job, made, slotVars, procVars, apiTodo, haveSenders, delivered>>

\* Redis loses all its data.
WipeRedis ==
  /\ Fault("wipe")
  /\ job' = [e \in Emails |-> "none"]
  /\ made' = [e \in Emails |-> 0]
  /\ owner' = [e \in Emails |-> None]
  /\ UNCHANGED <<rowVars, slotVars, procVars, apiTodo, haveSenders, delivered>>

\* removeOnComplete and removeOnFail drop a finished job a day or a week later,
\* when no run and no handler of the email is still under way.
EvictJob(e) ==
  /\ job[e] \in {"completed", "failed"}
  /\ \A s \in Slots : cur[s] # e
  /\ \A p \in Procs : e \notin finalizing[p]
  /\ Fault("evict")
  /\ job' = [job EXCEPT ![e] = "none"]
  /\ made' = [made EXCEPT ![e] = 0]
  /\ UNCHANGED <<rowVars, owner, slotVars, procVars, apiTodo, haveSenders, delivered>>

\* More than STALLED_SEND_THRESHOLD_MS has passed since row e was claimed.
Age(e) ==
  /\ status[e] = "sending" /\ ~overdue[e]
  /\ overdue' = [overdue EXCEPT ![e] = TRUE]
  /\ UNCHANGED <<status, attempts, messageId, jobVars, slotVars, procVars, apiTodo,
                 haveSenders, delivered, left>>

-----------------------------------------------------------------------------
(* The specification *)

Api == CreateCampaign \/ EnqueueCampaign \/ LoseEnqueue \/ ProvisionSenders

\* The steps of send() that need no fault.
Send(s) ==
  \/ ReadRow(s) \/ PickSender(s)
  \/ ReserveOk(s) \/ ReserveThrottle(s) \/ ReserveQuota(s)
  \/ UpdateScheduledAt(s) \/ MoveToDelayed(s) \/ ClaimForSending(s)
  \/ MailAccepted(s) \/ MailRejected(s) \/ MarkSent(s) \/ ResetForRetry(s)
  \/ CompleteJob(s) \/ FailJob(s)

Slot(s) ==
  \/ \E e \in Emails : FetchJob(s, e)
  \/ Send(s)
  \/ MailReplyLost(s) \/ StoreError(s) \/ ClaimReplyLost(s) \/ MarkSentError(s)

ReconcileOnBoot(p) == ResetStalledSends(p) \/ GetReconcilable(p) \/ Reconcile(p)

Worker(p) ==
  \/ BootWorker(p) \/ ReconcileOnBoot(p) \/ ReconcileError(p)
  \/ Sigterm(p) \/ Exit(p) \/ Crash(p)
  \/ \E e \in Emails : MarkFailed(p, e) \/ MarkFailedError(p, e)

Environment ==
  \/ WipeRedis
  \/ \E e \in Emails : RecoverStalledJob(e) \/ LoseLock(e) \/ EvictJob(e) \/ Age(e)

Next ==
  \/ Api
  \/ \E s \in Slots : Slot(s)
  \/ \E p \in Procs : Worker(p)
  \/ Environment

Spec == Init /\ [][Next]_vars

\* Running processes take their steps.  BullMQ serves its jobs in order, so a
\* job that can be fetched again and again is; the rate limiter's window ends,
\* so a slot that asks again and again is admitted.
Fairness ==
  /\ WF_vars(EnqueueCampaign)
  /\ \A s \in Slots : WF_vars(Send(s)) /\ SF_vars(ReserveOk(s))
  /\ \A e \in Emails : SF_vars(\E s \in Slots : FetchJob(s, e))
  /\ \A e \in Emails : WF_vars(RecoverStalledJob(e))
  /\ \A p \in Procs :
       /\ WF_vars(BootWorker(p))
       /\ WF_vars(ReconcileOnBoot(p))
       /\ WF_vars(Exit(p))
       /\ \A e \in Emails : WF_vars(MarkFailed(p, e))

FairSpec == Spec /\ Fairness

-----------------------------------------------------------------------------
(* Properties *)

Used(kinds) == \E k \in kinds : left[k] < Budget[k]
Count(k)    == Budget[k] - left[k]

\* A run that holds the claim of e: between the won claim and the statement
\* that gives it back.
Holds(s, e) == cur[s] = e /\ pc[s] \in {"send", "mark", "reset"}

\* One run per job: two slots run send() for the same email only after a job
\* lock expired under a live worker or Redis lost its data.
ExclusiveRuns ==
  \A s, t \in Slots :
    s # t /\ cur[s] # None /\ cur[s] = cur[t] => Used({"lock", "wipe"})

\* A row is in 'sending' only while some run holds it; only a killed worker or
\* a Postgres call that throws leaves it there for the boot sweep.
SendingHasRun ==
  \A e \in Emails :
    status[e] = "sending" =>
      (\E s \in Slots : Holds(s, e)) \/ Used({"crash", "store"})

\* Every delivery beyond the first is paid for by a fault of its own: a kill, a
\* call that throws after its effect, a lost lock, a lost Redis.  Retries,
\* sweeps of slow sends, reconciliations and SIGTERM never cause one.
DuplicatesCharged ==
  \A e \in Emails :
    delivered[e] <= 1 + Count("crash") + Count("store") + Count("smtp")
                      + Count("lock") + Count("wipe")

\* Retries are bounded: a row is claimed MaxAttempts times per life of its job,
\* and once more for each kill or lost lock.
ClaimsBounded ==
  \A e \in Emails :
    attempts[e] <= MaxAttempts * (1 + Count("wipe") + Count("evict"))
                   + Count("crash") + Count("lock")

\* 'sent' is only ever written for a mail the SMTP server took.
SentWasDelivered == \A e \in Emails : status[e] = "sent" => delivered[e] > 0

\* 'failed' is only written for a mail the SMTP server never took, unless a
\* fault hid the delivery from the worker.
FailedWasNotDelivered ==
  \A e \in Emails :
    status[e] = "failed" =>
      delivered[e] = 0 \/ Used({"crash", "store", "smtp", "lock", "wipe"})

\* message_id is set on finished rows only, so the sweep's message_id IS NULL
\* never holds a row back: what keeps a delivered mail from being swept is the
\* status alone.
MessageIdOnlyWhenFinished == \A e \in Emails : messageId[e] => Finished(e)

\* A pending row has a job that will run, or somebody is about to give it one
\* or to close it.  Postgres and Redis drift apart only through a fault.
NoStrandedRow ==
  \A e \in Emails :
    Pending(e) =>
      \/ job[e] \in {"waiting", "active"}
      \/ e \in apiTodo
      \/ \E p \in Procs : e \in finalizing[p]
      \/ Used({"api", "restart", "crash", "store", "lock", "wipe"})

\* A finished row keeps its status, whatever late run or handler is still
\* under way.
FinishedIsFinal ==
  [][\A e \in Emails :
       Finished(e) => status'[e] = status[e] \/ Used({"store", "lock", "wipe"})]_vars

\* Every committed row is eventually sent or failed: retries, re-parks and
\* sweeps never leave one behind as long as no fault happens.
EveryRowFinishes == \A e \in Emails : status[e] # "absent" ~> Finished(e)

\* A row that is pending when reconcileOnBoot selects is finished in the end,
\* even if the API died before it enqueued the row.
BootRecoversPending ==
  \A e \in Emails : (Pending(e) /\ \E p \in Procs : boot[p] = "select") ~> Finished(e)

\* The rows as EmailDelivery sees them.
DeliveryState ==
  [e \in Emails |->
     IF status[e] \in {"scheduled", "queued", "sending"} THEN "pending" ELSE status[e]]

Delivery == INSTANCE EmailDelivery WITH state <- DeliveryState

\* Safety half of the promise: each row is handed to SMTP at most once and its
\* final status tells whether it was.
ImplementsDelivery == Delivery!Spec

\* Its liveness half: unless the API loses an enqueue, throttling, re-parks, retries
\* and a reconciliation beside the worker never leave a committed row unresolved.
ImplementsFairness == [](~Used({"api"})) => Delivery!Fairness

-----------------------------------------------------------------------------
(* What the documents promise of the failure cases *)

\* "Worker killed mid-send | Row recovered, not duplicated".
DeliveredAtMostOnce == \A e \in Emails : delivered[e] <= 1

\* "so a worker killed mid-send doesn't strand the row": a row the sweep finds
\* stalled is finished in the end.
StalledRowRecovered ==
  \A e \in Emails : (Stalled(e) /\ \E p \in Procs : boot[p] = "sweep") ~> Finished(e)

\* 'sent' is a terminal state.
SentIsTerminal == [][\A e \in Emails : status[e] = "sent" => status'[e] = "sent"]_vars

\* "Redis data lost entirely | Fully recovered": every row committed when a
\* worker boots after the loss is finished in the end.
WipeRecovered ==
  \A e \in Emails :
    (left["wipe"] < Budget["wipe"] /\ status[e] # "absent" /\ \E p \in Procs : boot[p] = "sweep")
       ~> Finished(e)

===============================================================================
