# Email Scheduler: TLA+ specifications and proofs

This directory models the Email Scheduler in TLA+: nine specification modules
translated from the code under `src/`, TLC configurations that check them on
small instances, and machine-checked proofs about every one of them.

`PROJECT.json` is the index: `map` gives for every definition the lines it
translates, `hazards` the places where this code can go wrong, `runs` what TLC
checks, `mutants` a plausible bug that each property detects, `findings` where
code and documents disagree, `theorems` what is proved.

Source paths below are relative to `src/`.

- [1 The system](#1-the-system)
- [2 The modules](#2-the-modules)
- [3 The runs](#3-the-runs)
- [4 Bounds](#4-bounds)
- [5 Fairness](#5-fairness)
- [6 Proofs](#6-proofs)
- [7 Where code and documents disagree](#7-where-code-and-documents-disagree)
- [8 Not modelled](#8-not-modelled)
- [9 Plan](#9-plan)
- [10 Running it](#10-running-it)

## 1 The system

A user drops a list of addresses on a form; the API stores a campaign with one
row per recipient in Postgres and enqueues one delayed BullMQ job per row in
Redis; worker processes run `send()` on the jobs, ask a Lua rate limiter for a
slot, hand the mail to SMTP and record the result. Every transition of a row
enqueues an index job that copies the row to Elasticsearch; a spent quota
posts an alert to Slack. A dashboard polls the rows. Postgres is the truth,
everything in Redis and Elasticsearch is meant to be rebuildable from it.

```
 ComposeModal ──POST /campaigns──> API ──transaction──> Postgres (emails)
      │ parseLeads                  │                    ^   ^      ^
      │                             └─addBulk─> email-send   │      │ claim, markSent,
 dashboard page ─GET /emails────────────────────────────┘    │      │ markFailed, ...
                                                  │          │      │
 boot: reconcileOnBoot ─sweep, select─────────────┼──────────┘      │
                       └addBulk──────────────> email-send ──job──> send() ──> SMTP
                                                                    │ │ └─> Lua limiter (Redis)
                                              email-index <─reindex()┘ └─> notifyRateLimit ─> Slack
                                                  └─> index worker: read row, ensure index, upsert
```

### Components

Each entry: the state kept, the operations, with whom it interacts, what is
hard about it, and what it means for it to be correct.

**Email rows** (`packages/db/src/emails.ts`, `schema.ts`; modelled).
State: table `emails` with `status` scheduled → queued → sending → sent/failed,
`attempts`, `message_id`, `scheduled_at`, `updated_at`. Operations:
`createCampaignWithEmails`, `claimForSending` (a guarded UPDATE), `markSent`,
`markFailed`, `resetForRetry`, `updateScheduledAt`, `resetStalledSends`,
`getReconcilable`, and the read models. Used by API, worker and scripts. Hard:
each statement is atomic but a run of `send()` is six of them; `markFailed` has
no guard; a statement may commit and its reply be lost. Correct: a finished row
stays finished, 'sent' means delivered, a row in 'sending' has a run.

**Send queue** (`packages/queue/src/index.ts`; modelled). State: job
`email-{id}` per row with its attempts. Operations: `enqueueEmailSends` in
chunks, `emailJobOptions`. Hard: a job kept as history still owns its id, so an
add under the same id is a no-op; a job can complete as a no-op. Correct: a
pending row has a job that will run.

**Send worker** (`apps/worker/src/index.ts`; modelled). State: per slot where
`send()` is, the process's life, 'failed' handlers under way. Operations:
`send()`, the 'failed' handler, boot, SIGTERM. Hard: an await between any two
statements; kills; lost replies; job locks that expire; a handler `close()`
does not wait for. Correct: at most one delivery, bounded claims, no stranded
row.

**Boot reconciliation** (`apps/worker/src/reconcile.ts`; modelled). State: the
rows selected and not yet enqueued. Operations: sweep, select, chunked
re-enqueue, while the workers of this and other processes run. Hard: three
statements with workers in between. Correct: whatever was pending ends.

**Rate limiter** (`packages/queue/rate-limit.lua`, `rate-limit.ts`, the two
re-parks in the worker; modelled). State: last-send stamp per sender, counters
per sender and window and per window, all expiring. Operations:
`pickMostQuota`, the script, re-park on THROTTLE and QUOTA. Hard: the clock is
read once, used later; keys expire; check-and-reserve by many workers. Correct:
no window is granted more than its limits, reservations are spaced.

**Search index** (`apps/worker/src/index-worker.ts`, `packages/search`,
`scripts/reindex.ts`; modelled). State: queue `email-index`, the
memoised promise of `ensureIndexOnce`, the index and its documents. Operations:
`reindex()` after each transition, the index job, bootstrap, rebuild, search.
Hard: jobs of a row run in parallel; exists/create is a race; the memo outlives
the index. Correct: a settled row's document shows its status, the mapping is
the explicit one.

**Slack integration** (`apps/worker/src/notify.ts`, `apps/api/src/slack.ts`,
`packages/db/src/slack.ts`; modelled). State: the user's webhook, signed OAuth
states, the dedupe key. Operations: connect, callback, disconnect,
`notifyRateLimit`. Hard: two clock readings, a key claimed before the post, calls that
throw on the way. Correct: one message while a window lasts, every hit announced unless
a fault took its message.

**Campaign submission** (`ComposeModal.tsx`, `parse-leads.ts`,
`apps/api/src/routes.ts`; modelled). State: files being read, leads, the
pending request, committed rows, enqueued jobs. Operations: drop, read, submit,
validate, commit, enqueue, answer, reload. Hard: reads that finish out of order,
answers that get lost, a commit without its enqueue. Correct: one row per
recipient, a success message that is true.

**Read models and search API** (`packages/db/src/emails.ts` from line 334,
`packages/search`, `apps/api/src/routes.ts`; modelled). State: none of
its own. Operations: `listEmails` (two SELECTs), `searchEmails` and its Postgres
fallback `searchEmailsPg`. Hard: two SELECTs see two states; ORDER BY leaves ties;
Elasticsearch may go away between two pages of one search, and the two stores match
and sort differently. Correct: an answer is a page of the user's rows, a walk over
pages shows each row once.

**Dashboard** (`apps/web/app/dashboard/page.tsx`, `lib/queries.ts`;
modelled). State: tab, page, search box, one cached answer per tab, query and page,
requests under way. Operations: poll, change of tab, page or query, invalidate after
a submit. Hard: answers that were asked for earlier arrive later; the debounced query
is rendered with the old page number first; the placeholder shows another query's
rows. Correct: the table converges to the rows of what was asked for last, new rows
appear.

**Authentication** (`apps/api/src/auth.ts`, `jwt.ts`, `users.ts`,
`apps/web/middleware.ts`, `AppHeader.tsx`; modelled). State: session and state
cookies, user rows, each tab's query client. Operations: start a flow, the callback
with and without a code, the gate, `/me`, logging out. Hard: two login flows
share one state cookie; the cookie's presence and the token's validity differ; the
cookie is the browser's, the cache each tab's. Correct: an accepted login ends on a
page that works, an error is said with a cause, nothing is shown of a session left.

**Bootstrap and migrations** (`scripts/bootstrap.ts`, `packages/db/src/migrate.ts`;
partly: sender provisioning is in `SendPipeline`, index creation in
`SearchIndex`). **API server and health**, **Configuration**, **UI
components**, **Demonstration scripts**: not modelled, see section 8.

## 2 The modules

| module | what it is | composed with |
|---|---|---|
| `EmailDelivery` | abstract: what the system promises of a row | implemented by `SendPipeline` |
| `SendPipeline` | rows, queue, workers, reconciliation, API enqueue | `Delivery == INSTANCE EmailDelivery` |
| `RateLimit` | the limiter with clock and expiring keys | says when the limiter gives the answers that `SendPipeline` leaves open |
| `SearchIndex` | index queue, index workers, Elasticsearch | moves of a row are an environment |
| `SlackNotify` | OAuth connection and alert | QUOTA answers are an environment |
| `Submission` | form, parsing, POST /campaigns | ends where `SendPipeline` begins |
| `Dashboard` | cached queries, polling, paging | rows are an environment |
| `Search` | search box, the two search paths, paging over both | rows and documents are an environment |
| `Session` | OAuth flow, cookies, gate, `/me`, logging out | rows are what a token was answered with |
| `SendPipelineProofs`, `RateLimitProofs`, `SearchIndexProofs`, `SlackNotifyProofs`, `SubmissionProofs`, `DashboardProofs`, `SearchProofs`, `SessionProofs` | theorems about the module each is named after, see section 6 | EXTENDS it |
| `MC*` | instances of the modules for TLC | |

Each statement that reads or writes Postgres, Redis, Elasticsearch or a socket
is an action of its own, and so is each await between two of them: what runs
without an await is one action. A definition named as another with a word
added (`AddBulkAnyId`, `FailJobEndless`, ...) is that definition with a
plausible bug. No action uses one; they are what `mutants` puts in place of the
original to show that a property would notice.

### EmailDelivery

A row is absent, pending, sent or failed, and `delivered` counts how often SMTP
took it. Each row is handed over at most once, 'sent' only afterwards; its
`Fairness` says that each committed row is finally sent or failed. It is what a user would be told.

### SendPipeline

| code | model |
|---|---|
| columns `status`, `attempts`, `message_id`, age of `updated_at` | `status`, `attempts`, `messageId`, `overdue` |
| job `email-{id}`, attemptsMade, its lock | `job`, `made`, `owner` |
| the concurrent runs of `send()`, by their next statement | `pc`, `cur` on `Slots` |
| process; 'failed' handlers; `reconcileOnBoot` | `proc`, `finalizing`, `boot`, `bootTodo` |
| rows POST /campaigns has yet to enqueue | `apiTodo` |
| `createCampaignWithEmails`, `enqueueEmailSends` | `CreateCampaign`, `EnqueueCampaign`, `LoseEnqueue` |
| `send()` in the order of its awaits | `ReadRow`, `PickSender`, `ReserveOk/Throttle/Quota`, `UpdateScheduledAt`, `MoveToDelayed`, `ClaimForSending`, `MailAccepted/Rejected`, `MarkSent`, `ResetForRetry`, `CompleteJob`, `FailJob` |
| calls that throw, replies that get lost | `StoreError`, `ClaimReplyLost`, `MarkSentError`, `MarkFailedError`, `MailReplyLost`, `ReconcileError` |
| the 'failed' handler | `MarkFailed` |
| boot, SIGTERM, `worker.close()`, kill | `BootWorker`, `ResetStalledSends`, `GetReconcilable`, `Reconcile`, `Sigterm`, `Exit`, `Crash` |
| BullMQ and Redis | `FetchJob`, `RecoverStalledJob`, `LoseLock`, `WipeRedis`, `EvictJob` |

Abstractions. Delays and back-off are not counted: a waiting job may be fetched
at any moment, which includes every real order. The limiter answers anything at
any time. A row in 'sending' may become overdue at any moment, so the sweep may
catch a send that is merely slow.

BullMQ is external and taken to be as the code uses it: an add whose id exists
in any state, kept history included, does nothing; a job runs under a lock, a
job whose lock is gone is put back without using an attempt; `moveToDelayed` and
DelayedError use no attempt; a throw uses one, and the last one fails the job.
BullMQ's limit on how often a job may stall (`maxStalledCount`, left at its
default of 1) is not modelled: a job that stalls a second time is run again here,
where BullMQ would fail it.

### RateLimit

`StartRun` reads the clock, `PickSender` reads the counters and chooses,
`ReserveOk`, `ReserveThrottle` and `ReserveQuota` are the script and what
`send()` does with its answer, `Deliver` the claim and the send whenever they
come, `Retry` a failed send. Counters are keys with a count and an expiry. Time
is in units of EXPIRE's granularity, and `MaxLag` bounds the time between
reading the clock and running the script with it. `granted` and `lastAt` record
what was granted, independently of the keys, for the properties.

### SearchIndex

`status` moves along `Moves`, the transitions that the code follows with a
`reindex()`: a slow run may finish a row that was swept and claimed again, so
'sent' and 'failed' are reached from anywhere, and a call that changed nothing
is followed by a `reindex()` too. `adding` counts enqueues under way (they are not
awaited), `queue` the waiting index jobs by attempts used and stalls (`Tries`). The
slots read the row, ensure the index (through the process's memoised promise,
`ensuring`), and write the document. `CrashProcess` kills a process and starts it
again: BullMQ puts its jobs back, or fails those that have stalled `MaxStalled` times
before (its default of 1), which `stalledOut` records. The rebuild script reads all rows
and writes them one by one. The index is missing, explicitly mapped, or mapped by
Elasticsearch's guess.

### SlackNotify

One user and one sender. A run that met QUOTA (`HitQuota`) moves the row's time
(`UpdateScheduledAt`), reads the integration, reads the clock again, sets the key if
absent with a time to live of one window, and posts; at most `MaxLag` passes between
either clock reading and the last step that uses it. Each call may throw: the first one
outside the try block of `notifyRateLimit`, the others inside it, and either way there
is no message (`Abandon`). A SET may throw after it has set the key. `lost` records in
which windows a fault ended a run before its post, by the clock as the run last read it.
OAuth flows carry a signed state with an expiry; a later callback replaces the webhook.

### Submission

A file is a sequence of tokens; a token is its address, whether it is written
in capitals, and what the client's regular expression and the server's Zod
schema make of it. `DropFile` sets the name at once, `FileRead` the leads when
the file has been read. `Submit` is possible once per request under way (the
button is disabled); the answer does to the form what the mutation's callbacks do. The server validates, commits one transaction, enqueues, answers.
Scripts post bodies directly: those of the repository post distinct recipients, the API
takes any, and so do the runs (`ScriptBodies`). The other fields of the form are
taken as filled in, and whether the modal is open is left out.

### Dashboard

One query per tab and page. The query client is react-query 5, external, and
taken to work as the page uses it: one request per key at a time; a success
stores the answer and clears the key's invalidation; `invalidateQueries`
refetches the active query, cancelling a request under way, and marks the
inactive ones; a mounted key refetches if it has no data or is stale; the
placeholder is the last data shown. A change of tab renders the new tab with the old
page before its effect sets page 1, so `Mount` gets the key in between as well (`via`),
whose cached data become the placeholder if there are any. A request runs `SelectRows` and
`SelectCount` as two steps in either order, and `Listings` allows every order
among rows with the same `scheduled_at`.

### Search

One tab with a search box. `Mail` gives each row its owner and its text, a set of
fields that are sequences of words; `Within` says which words are parts of others.
That is what the two paths tell apart: `PgMatches` (ILIKE: the words one after the
other, the outer ones perhaps parts of words) and `EsMatches` (multi_match: any word
is a word of a field). `PgOrders` and `EsOrders` are the orders the two stores may
return: the list ascending by time and seq, the fallback descending by time and
ascending by seq, the search descending by time alone. `Clamp` is `clampPagination`.
`SearchEmails` answers from the documents if Elasticsearch answers and the page
lies within its window (`MaxHits`); otherwise `FallBack` turns the request to the
two SELECTs. A transition is followed by `IndexRow`, a re-park is not; how an index
job can fail is `SearchIndex`. `Type` is a keystroke, `Debounce` the timer, which
mounts the query with the old page and then with page 1. `TurnPage` is the pager: back
from any page but the first, forward within the total shown. Failing requests, submits and
the change of tabs are in `Dashboard` and left out here. `fresh` records which cached
answers were read from the rows and documents as they are, for the properties.

### Session

One browser with two cookies, its tabs, and the API. A cookie the server sets or
clears changes in one step with its answer, so `SignIn` is the whole rest of the
callback after the check of the nonce: exchange, profile, `EnsureUser`, `SignJwt`, and
the answer with both cookies. Between `Callback` and it other tabs go on. `Land` is the
middleware: whatever page is asked for, the browser gets the dashboard if it has a
session cookie and the login page otherwise. A user's id is the account and the
generation of the database, since ids are random and the row of an account is found
again by `google_sub`. `AskMe`, `PollRows` and `Answer` are a tab's requests, with the
cookie as it was when they were sent and the secret and rows as they are when they are
answered. A `/me` that answers 404 or 500, or does not arrive, is asked again `Retries`
times, each time with the cookie of then, and then given up; a 401 is final (`MeFails`,
`Answer`, `AnswerFails`). `LoggedOut` clears the cookie and
the tab's cache with its requests; what the page still draws until `Leave` has left it
is not modelled. `Back` is the browser's back button, which the router serves without
asking the middleware. `disturbed` records which flows another one or the clock has
interfered with.

## 3 The runs

| run | checks | shows |
|---|---|---|
| `pipeline_faults` | `TypeOK` and seven properties | one email, two workers, each pair but one of eight kinds of fault |
| `pipeline_promise` | `DeliveredAtMostOnce`, `ImplementsDelivery`, `ImplementsFairness`, `BootRecoversPending` | two emails on one worker with two slots, and a lost enqueue: the abstract promise is kept; it is live unless the API lost an enqueue, and even then whatever a reconciliation selects is finished |
| `rate_limit` | `SenderQuotaKept`, `GlobalQuotaKept`, `GrantsSpaced` | stale clock readings and expiring keys never over-grant |
| `index_faults` | `EveryRowSearchable`, `StaleHasCause`, `MappingKept` | two index workers, killed until BullMQ gives a job up, the rebuild script, every pair of faults: what must have happened before a document is missing or stale, or the mapping guessed |
| `slack_faults` | `OneMessageWhileItLasts`, `MessagesBounded`, `HitNotified` | two runs that come late to the key, while calls throw, workers die and the user connects, reconnects, leaves |
| `submit_faults` | `LeadsCorrect`, `OneRowPerRecipient`, `SuccessMeansScheduled`, `ResubmittedOnlyAfterError` | two files, two requests, one fault of each kind |
| `view_new_rows` | `NewRowsRead` | an invalidation against fetches under way, polls, failures, changes of tab |
| `view_live` | `ViewConverges` | rows that move and are re-parked while the user pages |
| `search_walk` | `OwnRowsOnly`, `PagesPartition`, `SearchConverges` | two rows of the user and one of another, pages of one, Elasticsearch going away and coming back, a re-park, a move |
| `session` | `StateErrorHasCause`, `LoggedOutShowsNothing`, `SignedInServed` | two tabs that sign in over each other, log out, go back, while tokens expire, the server's secret or rows change, Google or `/me` fails |
| `killed_stranded` | `StalledRowRecovered`: violated | a worker killed mid-send leaves a row that is never sent |
| `mark_sent_duplicate` | `DeliveredAtMostOnce`: violated | a failing `markSent` makes the retry deliver again |

The last two each check one sentence of the documents or comments that the code
does not keep; section 7 explains them and lists further ones.

The properties of `pipeline_faults`, because they say the most. `ExclusiveRuns`:
two runs of one email only after a lost lock or a lost Redis. `SendingHasRun`: a
row stays in 'sending' without a run only after a kill or a throwing call.
`DuplicatesCharged`: each delivery beyond the first is paid for by a fault of its
own, of five kinds; slow sends that are swept, reconciliations, retries and
SIGTERM never cause one. `ClaimsBounded`: claims are bounded by the attempts of
the jobs and the number of kills. `SentWasDelivered`,
`FinishedIsFinal`: what the final status is worth. `NoStrandedRow`: Postgres and
Redis drift apart only after a fault.

Of `search_walk` and `session`. `PagesPartition` relates the two search paths: whichever
of them answers which page, a walk over the pages shows each match once, if the
documents are up to date, both paths match the same rows, and no two matches are due
at the same time; `search_ties` and `search_paths` show that these conditions are
needed. `SignedInServed` says that the flows of several tabs, which share both cookies,
do not leave a browser between the login page and the dashboard as long as its token
is good. `StateErrorHasCause` is the converse of an error message: "Your sign-in session
expired" appears only after the ten minutes or another tab's login.

Of `slack_faults`. The documents promise one message per user, sender and window, which
the code does not keep: the key lives for one window from the moment it was set, so a
run that read the clock at the window's end and is late finds it expired (`slack_twice`).
What it does keep: `OneMessageWhileItLasts`, a second message comes after the window's
end only; `MessagesBounded`, and not at will, since each takes a life of the key;
`HitNotified`, each window in which a connected user hit the limit has its message, under
its own key or that of a window its run was late into, unless a fault struck in that very
window.

Several properties name the faults they exempt. The exemptions are part of the
statement: each fault that is not named is allowed in the run and does no harm,
and section 7 has counterexamples for what the exemptions let pass.

## 4 Bounds

All cuts are constants in the guards or a CONSTRAINT named in the cfg.

- **SendPipeline.** A fault budget of 1 per kind, and in `pipeline_faults`
  at most two kinds in a behaviour (`TwoFaults`): every pair, in every
  order, at every step, except a lost lock together with a lost Redis, whose
  states are as many as those of all other pairs. One email with two processes, or two emails with two
  slots of one process: rows interact only through `addBulk`'s chunks, the
  slots and the reconciliation. `MaxAttempts` is 2 (the code: 3): first and
  last attempt are the cases the code distinguishes. `SweepAttempts` is 3 as in
  the code, so the sweep's bound lies above the job's and both are met. `Chunk`
  is 1, so a process can die between chunks. `attempts` and `delivered` need no
  bound; the budget bounds them.
- **RateLimit.** Three emails, two senders with limits 2 and the environment's
  1, a global cap below their sum; a window of 3, a lag up to 2, and a clock
  that runs over two boundaries. The assumption `MaxLag <= W` is needed: a
  counter lives for two windows, and a run that sleeps longer meets an expired
  one.
- **SearchIndex.** One row (jobs of different rows share only the index and
  the memo), two processes, at most two of its index jobs not done
  (`MaxPending`), two attempts (the code: 5); Elasticsearch may fail twice,
  i.e. as often as a job has attempts, and processes may be killed twice, once more
  than a job may stall. At most two kinds of fault in a behaviour (`TwoFaults`).
- **SlackNotify.** Windows of 2, two of them; two runs, two flows, a lag of 1: a run
  may read the clock in one window and come to the key in the next, or after the key of
  its window has expired. One fault of each kind, at most two kinds in a behaviour
  (`TwoFaults`).
- **Submission.** Two drops and two requests: a second file, a second
  submission. The four files name an address twice, in capitals first or last,
  and hold each outcome of the two validations; the scripts' bodies repeat an
  address and exceed the body limit (`MaxBody`).
- **Dashboard.** Two rows on pages of one (or of two), two requests under way,
  two navigations, one of each other event.

- **Search.** Two rows of the user, so that a walk has two pages of one, and one
  of somebody else; one word to search for. `MaxHits` is 2, so no search exceeds it
  (Elasticsearch's limit is 10 000; beyond it `Search` sends the request to the fallback
  and caps the total, and `PagesPartition` promises nothing). One word typed and one page turned, one disturbance of one kind
  (`OneDisturbance`); after a move the user does one thing more. Two requests under
  way before the user acts again.
- **Session.** Two tabs and two login flows: enough for a flow to overtake another and
  for a second login after a logout. One account (`session_mixed` has two): a token
  carries its flow. The nonce lives for one unit of time, the token for two, the
  clock runs to two. `Retries` is 1 (the code: 2). One poll of the rows, and one kind of
  disturbance in a behaviour (`OneDisturbance`), at most once, but `/me` may fail once
  more often than it is asked again. The exemption of a token that expires under way
  matters only with a clock that runs on after the token's end (a token of three
  units, a clock that runs to four).

Where symmetry is used, Emails/Procs, Runs/Flows or Rows are symmetric in the
module, and the run checks no liveness.

CHECK_DEADLOCK is off everywhere: each model may stop, when its emails are
finished and its budget is spent, or when its clock ends.

## 5 Fairness

- `SendPipeline`: weak fairness on what a running process does next (a promise
  that resolves is resumed), on boot and on stalled-job recovery (BullMQ's
  timer). Strong fairness on `FetchJob` per email, since BullMQ serves jobs in
  order and a job that is re-parked keeps becoming available; and on
  `ReserveOk`, since windows end and quotas are positive, so a run that keeps
  asking is admitted. `RateLimit` does not prove the latter: whether one email
  could lose each race forever depends on arrivals, and the code's seq-ordered
  offsets are what makes it unlikely. No fairness on faults, on SIGTERM, on the
  user, or on SMTP accepting.
- `Dashboard`: weak fairness on the poll's timer and on the server's answers.
- `Search`: weak fairness on the poll's and the debounce's timers, on the routes'
  answers and on index jobs (BullMQ runs what is queued). Nothing makes Elasticsearch
  come back.
- `Session`: weak fairness on the API's answers and the navigation that follows them,
  on `/me` being asked and answered. The user, the clock and the operator owe nothing.
- The other modules are checked for safety only.

## 6 Proofs

One module of proofs per component, named after it. Every theorem holds for all
values of the constants (any number of rows, workers, slots, tabs, requests, any
budget of faults), where TLC has checked a small instance.

| module | theorem | states | and needs |
|---|---|---|---|
| `SendPipelineProofs` | `TypeCorrect` | `TypeOK`; a job that can still run has attempts left; only the slot that runs a job locks it | |
| | `RunsExclusive` | `ExclusiveRuns` | |
| | `FinishedStays` | `FinishedIsFinal` | |
| | `SentIsTrue` | `SentWasDelivered`, `MessageIdOnlyWhenFinished` | |
| | `SendingIsHeld` | `SendingHasRun` | |
| | `FailedIsTrue` | `FailedWasNotDelivered` | |
| | `NothingStranded` | `NoStrandedRow` | |
| | `DuplicatesPaid` | `DuplicatesCharged` | |
| | `ClaimsAreBounded` | `ClaimsBounded` | |
| | `AtMostOnce` | `DeliveredAtMostOnce` | `NoHidingFault` |
| | `Implementation` | `ImplementsDelivery` | `NoHidingFault` |
| `RateLimitProofs` | `TypeCorrect` | `TypeOK`; no run acts on a clock reading older than `MaxLag` | |
| | `SpacingKept` | `GrantsSpaced` | |
| | `SenderQuota` | `SenderQuotaKept` | `MaxLag <= W` |
| | `GlobalQuota` | `GlobalQuotaKept` | `MaxLag <= W` |
| `SearchIndexProofs` | `TypeCorrect` | `TypeOK` | |
| | `MappingIsKept` | `MappingKept` | |
| | `RowsAreSearchable` | `EveryRowSearchable` | |
| | `StaleRowsHaveCause` | `StaleHasCause` | |
| `SlackNotifyProofs` | `TypeCorrect` | `TypeOK` | |
| | `OneMessage` | `OneMessageWhileItLasts` | |
| | `FewMessages` | `MessagesBounded` | |
| | `EveryHit` | `HitNotified` | |
| `SubmissionProofs` | `TypeCorrect` | `TypeOK` | |
| | `LeadsAreCorrect` | `LeadsCorrect` | |
| | `RowsAreDistinct` | `OneRowPerRecipient` | |
| | `SuccessIsTrue` | `SuccessMeansScheduled` | |
| | `SubmittedOnce` | `ResubmittedOnlyAfterError` | |
| `DashboardProofs` | `TypeCorrect` | `TypeOK` | |
| | `NewRowsAreRead` | `NewRowsRead` | |
| `SearchProofs` | `TypeCorrect` | `TypeOK` | |
| | `RowsAreOwn` | `OwnRowsOnly` | |
| | `PagesAreWalked` | `PagesPartition` | |
| `SessionProofs` | `TypeCorrect` | `TypeOK`; who signs in has a nonce that was given out | |
| | `StateErrors` | `StateErrorHasCause` | |
| | `LoggedOutEmpty` | `LoggedOutShowsNothing` | |

### Assumptions

The named ASSUME of each module: finite sets, positive numbers, budgets of
naturals, `None` distinct. Three say more.

- `NoHidingFault`, in `AtMostOnce` and `Implementation` only: no kill, no throwing
  store call, no lost SMTP reply, no lost lock, no lost Redis. Restarts, API failures
  and evictions are unrestricted. `killed_duplicate.cfg` and `mark_sent_duplicate` show
  that it cannot simply be dropped; `DuplicatesCharged` says what remains without it.
- `MaxLag <= W`, in `RateLimit`: a run does not sleep longer than a window between
  reading the clock and running the script. The script gives a counter two windows to
  live, so a later reader would find it expired. `MinDelay <= Start`: the clock begins
  well after 0, which is what an absent throttle key reads as.
- Files and bodies are sequences of tokens (`Submission`), and `MaxPageSize` is a
  natural (`Search`).

### The invariants

**SendPipeline.**

1. `TypeInv` adds to `TypeOK` that a slot is idle exactly when it has no email
   (`SlotInv`), that a job that may still run has attempts left, and that only an
   active job is locked, by a slot that runs it (`JobInv`).
2. `LockInv`: as long as no lock was lost and Redis not wiped, each busy slot owns
   the lock of its job. A lock has one owner, hence `RunsExclusive`. The property
   alone is not inductive: what keeps a second slot out is the job's state.
3. `FinalInv`, as long as no store call threw, no lock was lost and Redis not
   wiped: a busy slot owns its lock and, past its first read and up to its return,
   its row is unfinished (`RunInv`); a 'failed' handler works on an unfinished row
   whose job has failed, and no other process has one for it (`HandlerInv`). So
   nobody who is about to write a final status meets a row that has one.
4. `LedgerInv`: a row was delivered at most once, exactly the runs at 'mark' and
   the rows in 'sent' have been, rows in 'failed' and in a 'failed' handler have
   not. `OnceInv` is `TypeInv`, `FinalInv` and `LedgerInv`: the ledger needs to
   know that runs are exclusive. `HiddenInv` is the ledger as long as none of the
   hiding faults has happened, whatever the budget, and gives `FailedIsTrue`.
5. `RowInv`, under all faults: `SentWasDelivered`, `SendingHasRun` and
   `MessageIdOnlyWhenFinished` with `MarkInv`, that whoever is at 'mark' has been
   accepted at least once. `MessageIdOnlyWhenFinished` says that the sweep's condition
   `message_id IS NULL` never excludes a row in 'sending', so it is no protection
   against a second delivery.
6. `CommittedInv` and `DriftInv`, for `NothingStranded`: jobs and lists are of
   committed rows; until a fault parts them, an unfinished row has a job to come,
   somebody to enqueue it or a handler to close it, and a run returns only from a
   finished row. It rests on `FinalInv` and `RowInv`, since a job that completes as a
   no-op would part them.
7. `DeliveryInv` and `ClaimInv`, for the two counting properties, under all faults. A
   run without its job's lock is a stray; there are as many as locks were lost. Deliveries
   made, those that strays may still make, and the one the run with the lock may make
   stay within one plus the faults so far; claims made, those of strays, and those the
   job's attempts still allow stay within the allowance of the job's lives. What was
   counted is not enough: a fault must be charged when it makes a delivery possible,
   before that is made.

`Implementation` maps initial states to initial states and each action to a step of
`EmailDelivery` or a stutter, from `OnceInv`.

**RateLimit.** `RunInv` bounds the age of a clock reading. `ThrottleInv`: the throttle
key is the stamp of the last grant. `QuotaInv` and `GlobalInv`: while anything was
granted in window w, the key of w counts just that and expires no earlier than the end of
window w + 1 (`Deadline`). A run that reserves in w does so before then
(`BeforeDeadline`), so it never reads 0 for a window that has grants. The global counter
counts what all senders were granted, by lemmas that a fold over one function changed
in one place changes by the difference.

**SearchIndex.** `MappingInv`: without a wipe, whoever has ensured the index, and the
rebuild once it has read, finds it there, so that no document is written to a missing one,
which would make Elasticsearch guess. `MadeInv`: an attempt of a job was a failure of
Elasticsearch, so a job that ran out of attempts took as many (`Exhausted`). `DocInv`: a
row has a document, or an enqueue under way, a waiting job or a slot that runs one, or
one of its jobs stalled too often. `FreshInv`: of a row whose runs have not overlapped
and none of whose jobs stalled too often, at most one slot has a job, and if the document
or what that slot has read differs from the row, another job is to come. That a kill
keeps both is `Stalled`: each of the dead process's jobs is put back or in `stalledOut`.

**SlackNotify.** `LagInv` bounds the age of both clock readings. `KeyInv` gives each
message of a window a full life of the key: with the runs that are about to post, m
messages have held the key until W * w + W * m at least, and it is never set beyond the
window's end, the lag and a window (hence `FewMessages`), nor beyond one window from now
(hence `OneMessage`: a second claim came when the first one's life was over). `HitInv`: a
key that was set has a message, a poster or a loss; and a hit has a run that has yet to
read the clock again, a run at a key that it can reach, or a message or a loss under such
a key.

**Submission.** `StageInv`: requests are numbered in order, and have neither rows nor
jobs before they are handled. `LeadsInv`: the leads in the form are what their file
parses to. `CampaignInv`: the rows of a request are its recipients without repetition,
all of them from the commit on, with a job each from the enqueue on, and 'success' is told
of a created campaign only. `AttemptInv`: the leads of an attempt whose failure
the user was not told are in the form only while the form waits for that attempt, and
cannot come back.

**Dashboard.** `ReadInv`: announced rows are in the table and stay in it, and a request
that has read the rows has seen those its query owes. The property speaks of queries at
rest; what makes it inductive is that an announcement starts the request of the shown
query afresh, so that nothing it has read before counts.

**Search.** `OwnInv`: the answers cached and those under way hold rows of the user only,
on both paths, and also when a request is turned to the fallback between them.
`FreshInv`: what a request has got, or a key has cached, since rows and documents are as
they are, is what the path that the request has taken answers now; the property speaks
of cached answers only, and of neither path. From it, `PathsAlike`: rows due at
different times have one order, and the same on both paths if these match alike;
`FreshPages`: so the pages are pages of one sequence; `PagesJoined`: those of a
sequence, one after the other, are the sequence.

**Session.** `FlowInv`: nonces were given out, and an accepted callback has an account.
`CauseInv`: the nonce of a flow at Google that nothing has disturbed is in the state
cookie, which has not expired. `EndedInv`: the logins that a tab's data, requests or
cookie come from are none that it has ended, and none that is still signing in; so an
answer that is late, or a login completed after a logout, cannot revive an ended one.
`ReplyStep` says what all outcomes of a request have in common: they write the token that
was asked with or leave the data alone.

### Lemmas

Dedupe and parsing are folds over sequences, and `FlattenSeq` is a recursive function.
The library's induction theorems take an operator as a parameter and cannot be used here,
so `LeastElement` and `SegmentInduction` state induction with sets: the positions where a
claim fails, were there any, would have a least one. From them follow what a prefix of the
fold has collected, `DedupeCorrect` and the correctness of the parser, `OneOrder` (a finite
set has one enumeration along an order without ties) and `PagesJoined`.
`Ceiling` bounds page numbers, `MaxOfOne` and `MinOfTwo` evaluate the library's
definitions, and each record that an action updates field by field has a lemma on the
fields it leaves alone.

### Only model-checked

Every safety property of a passing run is stated by a theorem; `FailedIsTrue` adds one
that is in no run, since most faults are exempt in it. The properties left to TLC
are liveness: `ImplementsFairness`, `BootRecoversPending`, `ViewConverges`,
`SearchConverges`, `SignedInServed`. Fairness and ENABLED are out of the prover's reach.

## 7 Where code and documents disagree

Two disagreements are runs; `findings` quotes the lines.

- `mark_sent_duplicate`. `markSent` is awaited inside the try block around
  `sendMail`. If it throws, the catch branch written for a failed send releases the
  delivered row, and the retry sends it again.
- `killed_stranded`. After a kill BullMQ runs the job again; it finds 'sending' and
  completes as a no-op. Its id is kept in the history, so the re-enqueue that
  follows the sweep is ignored.

One comment contradicts its own lines: `packages/db/src/emails.ts:387` calls the order of
the list "newest-scheduled", and `Earlier` is what the code sorts by.

The other configurations end in a counterexample too. They are not part of the
regular runs: each documents why a property above carries its exemption, or what
the code does not promise.

| configuration | property | what happens | the text it contradicts |
|---|---|---|---|
| `killed_duplicate` | `DeliveredAtMostOnce` | killed between the SMTP reply and `markSent`; the row is swept and sent again | `docs/ARCHITECTURE.md:120` |
| `sent_overwritten` | `SentIsTerminal` | `markSent` commits and throws on the last attempt; the unguarded `markFailed` overwrites it | `apps/web/app/dashboard/page.tsx:16` |
| `restart_unmarked` | `EveryRowFinishes` | SIGTERM does not wait for the 'failed' handler; the row stays 'queued' behind a retained failed job | `docs/ARCHITECTURE.md:117` |
| `wipe_stranded` | `WipeRecovered` | Redis is lost during a run, which ends after the reconciliation has selected | `docs/ARCHITECTURE.md:119` |
| `sends_spacing` | `SendsSpaced` | reservations are spaced, the sends follow whenever | `docs/ARCHITECTURE.md:175` |
| `sends_quota` | `SendsWithinQuota` | a slot of one window is used in the next | `docs/ARCHITECTURE.md:208` |
| `repark_window` | `ReparkedToNextWindow` | the seq offset passes the next window's end | `docs/ARCHITECTURE.md:197` |
| `campaign_quota` | `CampaignQuotaKept` | the campaign's own limit is never read | `packages/db/src/schema.ts:80` |
| `index_overlap` | `IndexReflectsRow` | the row is read, then two calls are awaited; of two jobs of one row in parallel the older read may be written last | `docs/DECISIONS/0008-search-indexing.md:32` |
| `index_wipe` | `MappingExplicit` | the memoised promise outlives the index | `docs/ARCHITECTURE.md:256` |
| `slack_post_fails` | `EveryHitNotified` | the key is claimed before the post and kept when it fails | `docs/ARCHITECTURE.md:302` |
| `slack_windows` | `WindowsLineUp` | the alert reads the clock again | `docs/DECISIONS/0007-slack.md:66` |
| `slack_twice` | `OneMessagePerWindow` | the key lives one window from its claim: with the first claim at the window's very start, a run that read the clock at its end finds it expired | `docs/ARCHITECTURE.md:300` |
| `submit_count` | `CountMatchesFile` | `onFiles` sets the name at once and the leads when the read ends: of two drops, one's name beside the other's leads | `apps/web/lib/parse-leads.ts:5` |
| `submit_again` | `ResubmissionAddsNoRow` | a resubmission is a new campaign, the unique index is per campaign | `docs/ARCHITECTURE.md:158` |
| `view_empty` | `EmptyMeansNone` | a page past the end says 'No scheduled emails', without a pager | `apps/web/app/dashboard/page.tsx:165` |
| `view_later` | `NewRowsCounted` | an older answer clears the invalidation of a hidden tab | `apps/web/lib/queries.ts:41` |
| `search_ties` | `TiedPagesPartition` | the search sorts by time only, the fallback also by seq: rows due at the same time are repeated and skipped over pages | `packages/db/src/emails.ts:336` |
| `search_paths` | `PathsAgree` | the search matches words, the fallback parts of them | `packages/search/src/index.ts:24` |
| `session_rejected` | `RejectedGoesToLogin` | nothing in the web app acts on a 401: the header keeps its spinner, without a button to log out, and the gate leads from `/login` back to the dashboard as long as there is a cookie | `apps/web/middleware.ts:8` |
| `session_mixed` | `OneUserShown` | another tab logs in with another account: the header is the first user's, the rows the second's | none |

## 8 Not modelled

- **API server and health, Bull Board**: wiring and stateless probes.
- **Configuration**: parsing of the environment; its values are constants.
- **UI components**: presentation.
- **Parameters no client sends**: `from` and `to` of the search, page numbers beyond
  the last page's, the Bearer header of scripts in `Session`; `GET /senders`, which
  the web app never calls.
- **What a query client does besides**: in `Session` a poll of the rows that fails counts
  as none, and `/me` is not asked again when the network comes back.
- **Locks of index jobs that expire while their run is alive**, in `SearchIndex`: two runs
  of one job, which its properties would count as an overlap.
- **A deployment without Google credentials** (503), a callback whose answer is lost or
  that the user reloads.
- **Demonstration scripts**: drivers from outside; what `demo` scripts post to
  the API is `ScriptBodies` in `Submission`.
- **Migrations**: run by the library, once, before the processes start.
- **Message contents**: templates, subjects, HTML, Ethereal preview URLs.
- **`pickRoundRobin`**: exported and called only by its tests.

## 9 Plan

Done: every component that keeps state, with its runs, and theorems for all their safety
properties. What could still be added:

1. Proofs: the exempted faults one by one, e.g. `AtMostOnce` for a budget that hides no
   delivery of the rows concerned instead of any; the abstract specification of the
   index, with a refinement as for the pipeline; the step that the liveness properties
   rest on (what an enabled action keeps enabled), as action properties.
2. Modelling: the composition of `SearchIndex` with the pipeline's transitions and the
   rebuild script's relation to it; BullMQ's limit on stalls in `SendPipeline`; the two
   accounts of `session_mixed` in the regular run.

## 10 Running it

```
tlc -workers 2 -config pipeline_faults.cfg MCSendPipeline
tlapm SendPipelineProofs.tla      # likewise the other *Proofs modules
```

Each run's configuration has its name, and `PROJECT.json` names its module; the
configurations of section 7 belong to `MCSendPipeline` (first four),
`MCRateLimit` (next four), `MCSearchIndex` (two), `MCSlackNotify` (three),
`MCSubmission` (two), `MCDashboard`, `MCSearch` and `MCSession` (two each). The longest
runs take three minutes with two workers, the proofs of all modules about six.
