------------------------------ MODULE SearchIndex ------------------------------
(***************************************************************************)
(* The second queue, email-index: every status transition of a row enqueues *)
(* an index job, and the index workers read the row and upsert it into     *)
(* Elasticsearch.  Postgres read, ensureIndexOnce and es.index are separate *)
(* steps, so jobs of the same email that run in parallel interleave.       *)
(*                                                                         *)
(* The send pipeline is an environment that moves rows along Moves (module *)
(* SendPipeline says when); a document is its row's status.                *)
(***************************************************************************)
EXTENDS Naturals, FiniteSets, FiniteSetsExt

CONSTANTS
  Emails,      \* row ids of table emails
  Procs,       \* worker processes
  Concurrency, \* WORKER_CONCURRENCY: index jobs one process runs in parallel
  Attempts,    \* attempts of indexJobOptions
  MaxStalled,  \* maxStalledCount of the Worker: BullMQ's default, 1
  MaxPending,  \* bound: index jobs of one row not yet done
  Budget,      \* how many faults of each kind a behaviour may contain
  None         \* no email

(* The kinds of fault: a call to Elasticsearch fails, an enqueue of an index *)
(* job is lost, a worker process is killed, Elasticsearch loses its data, a  *)
(* stalled row is swept at boot, pnpm reindex is run.                        *)
FaultKinds == {"es", "enqueue", "crash", "wipe", "sweep", "reindex"}

ASSUME IndexAssumption ==
  /\ IsFiniteSet(Emails) /\ None \notin Emails
  /\ Concurrency \in Nat \ {0} /\ Attempts \in Nat \ {0}
  /\ MaxStalled \in Nat /\ MaxPending \in Nat \ {0}
  /\ Budget \in [FaultKinds -> Nat]

Slots == Procs \X (1 .. Concurrency)

\* What BullMQ counts for a job: attempts made, and how often it has stalled.
Tries == (0 .. Attempts - 1) \X (0 .. MaxStalled)

VARIABLES
  status,   \* the row's status in Postgres
  adding,   \* per row: reindex() calls whose queue.add is still under way
  queue,    \* per row and tries: index jobs waiting in Redis
  pc,       \* where each index slot is
  job,      \* the job a slot runs: its email and its tries
  row,      \* the status a slot has read
  ensuring, \* per process: the memoised promise of ensureIndexOnce
  index,    \* the emails index: "missing", "mapped" or "guessed"
  docs,     \* per row: the status its document shows, "none" without one
  script,   \* rows reindex.ts has read and not yet written
  overlapped, \* bookkeeping: rows that two runs have indexed at the same time
  stalledOut, \* bookkeeping: rows a job of which stalled once too often
  left      \* faults still allowed

esVars == <<index, docs>>
slotVars == <<pc, job, row>>
history == <<overlapped, stalledOut>>
vars == <<status, adding, queue, slotVars, ensuring, esVars, script, history, left>>

Statuses == {"absent", "scheduled", "queued", "sending", "sent", "failed"}
NoJob == [email |-> None, tries |-> <<0, 0>>]

TypeOK ==
  /\ status \in [Emails -> Statuses]
  /\ adding \in [Emails -> Nat]
  /\ queue \in [Emails -> [Tries -> Nat]]
  /\ pc \in [Slots -> {"idle", "read", "ensure", "write", "throw"}]
  /\ job \in [Slots -> [email : Emails \cup {None}, tries : Tries]]
  /\ row \in [Slots -> Statuses]
  /\ ensuring \in [Procs -> {"none", "asking", "creating", "done"}]
  /\ index \in {"missing", "mapped", "guessed"}
  /\ docs \in [Emails -> Statuses \cup {"none"}]
  /\ script \in UNION {[S -> Statuses] : S \in SUBSET Emails}
  /\ overlapped \subseteq Emails /\ stalledOut \subseteq Emails
  /\ left \in [FaultKinds -> Nat]

Init ==
  /\ status = [e \in Emails |-> "absent"]
  /\ adding = [e \in Emails |-> 0]
  /\ queue = [e \in Emails |-> [k \in Tries |-> 0]]
  /\ pc = [s \in Slots |-> "idle"]
  /\ job = [s \in Slots |-> NoJob]
  /\ row = [s \in Slots |-> "absent"]
  /\ ensuring = [p \in Procs |-> "none"]
  /\ index \in {"missing", "mapped"}  \* bootstrap.ts may have found it down
  /\ docs = [e \in Emails |-> "none"]
  /\ script = << >>
  /\ overlapped = {} /\ stalledOut = {}
  /\ left = Budget

Fault(k) == left[k] > 0 /\ left' = [left EXCEPT ![k] = @ - 1]

Waiting(e) == {k \in Tries : queue[e][k] > 0}

\* Bound: the rows move only while there is room for another index job.
Room(e) ==
  adding[e] + MapThenSumSet(LAMBDA k : queue[e][k], Tries)
            + Cardinality({s \in Slots : job[s].email = e}) < MaxPending

-----------------------------------------------------------------------------
(* The producers *)

\* What POST /campaigns and the worker do to a row and follow by an enqueue: the
\* claim is guarded by the status and so is resetForRetry, which may also find
\* nothing to reset; markSent and markFailed are not, and a slow run may come to
\* them after the row was swept, claimed again or finished.
Rows == Statuses \ {"absent"}

Moves ==
  {<<"absent", "scheduled">>, <<"sending", "queued">>}
    \cup {"scheduled", "queued"} \X {"sending"}
    \cup Rows \X {"sent", "failed"}
    \cup {<<s, s>> : s \in Rows}

\* The row changes and reindex() starts an add it does not wait for.
Transition(e) ==
  /\ Room(e)
  /\ \E m \in Moves : m[1] = status[e] /\ status' = [status EXCEPT ![e] = m[2]]
  /\ adding' = [adding EXCEPT ![e] = @ + 1]
  /\ UNCHANGED <<history, queue, slotVars, ensuring, esVars, script, left>>

\* resetStalledSends moves a row back and enqueues nothing.
SweepRow(e) ==
  /\ status[e] = "sending"
  /\ Fault("sweep")
  /\ status' = [status EXCEPT ![e] = "scheduled"]
  /\ UNCHANGED <<history, adding, queue, slotVars, ensuring, esVars, script>>

\* enqueueIndex: no job id, each call is a job of its own.
EnqueueIndex(e) ==
  /\ adding[e] > 0
  /\ adding' = [adding EXCEPT ![e] = @ - 1]
  /\ queue' = [queue EXCEPT ![e][<<0, 0>>] = @ + 1]
  /\ UNCHANGED <<status, history, slotVars, ensuring, esVars, script, left>>

\* The add fails, or its process dies: it is logged and not repeated.
LoseEnqueue(e) ==
  /\ adding[e] > 0
  /\ Fault("enqueue")
  /\ adding' = [adding EXCEPT ![e] = @ - 1]
  /\ UNCHANGED <<status, history, queue, slotVars, ensuring, esVars, script>>

-----------------------------------------------------------------------------
(* index(): one run of an index job in slot s *)

FetchIndexJob(s, e, k) ==
  /\ pc[s] = "idle" /\ queue[e][k] > 0
  /\ queue' = [queue EXCEPT ![e][k] = @ - 1]
  /\ job' = [job EXCEPT ![s] = [email |-> e, tries |-> k]]
  /\ pc' = [pc EXCEPT ![s] = "read"]
  /\ overlapped' = overlapped \cup {f \in {e} : \E t \in Slots : job[t].email = f}
  /\ UNCHANGED <<status, stalledOut, adding, row, ensuring, esVars, script, left>>

\* getEmailForIndex reads the row; the run then awaits the process's one promise
\* of ensureEmailsIndex, which the first to come creates.
GetEmailForIndex(s) ==
  /\ pc[s] = "read"
  /\ row' = [row EXCEPT ![s] = status[job[s].email]]
  /\ pc' = [pc EXCEPT ![s] = "ensure"]
  /\ ensuring' = [ensuring EXCEPT ![s[1]] = IF @ = "none" THEN "asking" ELSE @]
  /\ UNCHANGED <<status, history, adding, queue, job, esVars, script, left>>

\* ensureEmailsIndex: indices.exists, then indices.create if it was missing; an
\* index that somebody else created in between is as good.
EnsureExists(p) ==
  /\ ensuring[p] = "asking"
  /\ ensuring' = [ensuring EXCEPT ![p] = IF index = "missing" THEN "creating" ELSE "done"]
  /\ UNCHANGED <<status, history, adding, queue, slotVars, esVars, script, left>>

EnsureCreate(p) ==
  /\ ensuring[p] = "creating"
  /\ ensuring' = [ensuring EXCEPT ![p] = "done"]
  /\ index' = IF index = "missing" THEN "mapped" ELSE index
  /\ UNCHANGED <<status, history, adding, queue, slotVars, docs, script, left>>

Ensured(s) ==
  /\ pc[s] = "ensure" /\ ensuring[s[1]] = "done"
  /\ pc' = [pc EXCEPT ![s] = "write"]
  /\ UNCHANGED <<status, history, adding, queue, job, row, ensuring, esVars, script, left>>

\* Variant: the rejected promise stays memoised as if it had been fulfilled.
EnsureFailsSticky(p) ==
  /\ ensuring[p] \in {"asking", "creating"}
  /\ Fault("es")
  /\ ensuring' = [ensuring EXCEPT ![p] = "done"]
  /\ pc' = [s \in Slots |-> IF s[1] = p /\ pc[s] = "ensure" THEN "throw" ELSE pc[s]]
  /\ UNCHANGED <<status, history, adding, queue, job, row, esVars, script>>

\* A call of ensureEmailsIndex fails: the promise is forgotten, and every run
\* that awaits it throws.
EnsureFails(p) ==
  /\ ensuring[p] \in {"asking", "creating"}
  /\ Fault("es")
  /\ ensuring' = [ensuring EXCEPT ![p] = "none"]
  /\ pc' = [s \in Slots |-> IF s[1] = p /\ pc[s] = "ensure" THEN "throw" ELSE pc[s]]
  /\ UNCHANGED <<status, history, adding, queue, job, row, esVars, script>>

\* Variant: op_type create, which leaves a document that is there.
UpsertCreateOnly(written) ==
  /\ index' = IF index = "missing" THEN "guessed" ELSE index
  /\ docs' = [e \in Emails |-> IF e \in DOMAIN written /\ docs[e] = "none"
                               THEN written[e] ELSE docs[e]]

\* An upsert: Elasticsearch creates a missing index with a guessed mapping.
Upsert(written) ==
  /\ index' = IF index = "missing" THEN "guessed" ELSE index
  /\ docs' = [e \in Emails |-> IF e \in DOMAIN written THEN written[e] ELSE docs[e]]

Release(s) == /\ pc' = [pc EXCEPT ![s] = "idle"]
              /\ job' = [job EXCEPT ![s] = NoJob]
              /\ row' = [row EXCEPT ![s] = "absent"]

\* indexEmail, and the job completes.
IndexEmail(s) ==
  /\ pc[s] = "write"
  /\ Upsert([e \in {job[s].email} |-> row[s]])
  /\ Release(s)
  /\ UNCHANGED <<status, history, adding, queue, ensuring, script, left>>

\* es.index fails, whether or not the document was written.
IndexEmailFails(s) ==
  /\ pc[s] = "write"
  /\ Fault("es")
  /\ Upsert([e \in {job[s].email} |-> row[s]]) \/ UNCHANGED esVars
  /\ pc' = [pc EXCEPT ![s] = "throw"]
  /\ UNCHANGED <<status, history, adding, queue, job, row, ensuring, script>>

\* Variant: no attempts option, so that a job that threw is not tried again.
RetryJobNever(s) ==
  /\ pc[s] = "throw"
  /\ Release(s)
  /\ UNCHANGED <<status, history, adding, queue, ensuring, esVars, script, left>>

\* Variant: a run that threw starts over in its slot, without an end.
RetryJobEndless(s) ==
  /\ pc[s] = "throw"
  /\ pc' = [pc EXCEPT ![s] = "read"]
  /\ job' = [job EXCEPT ![s].tries[1] = @ + 1]
  /\ UNCHANGED <<status, history, adding, queue, row, ensuring, esVars, script, left>>

\* BullMQ retries the job until its attempts are used up, then drops it.
RetryJob(s) ==
  LET e == job[s].email
      again == [job[s].tries EXCEPT ![1] = @ + 1]
  IN /\ pc[s] = "throw"
     /\ queue' = IF again \in Tries THEN [queue EXCEPT ![e][again] = @ + 1] ELSE queue
     /\ Release(s)
     /\ UNCHANGED <<status, history, adding, ensuring, esVars, script, left>>

\* The jobs of email e that a kill of process p leaves with tries k.
Stalling(p, e, k) ==
  {s \in Slots : s[1] = p /\ job[s].email = e /\ [job[s].tries EXCEPT ![2] = @ + 1] = k}

\* A worker process dies and is started again: its jobs stall and are put back,
\* or failed if they have stalled too often, and the new process has ensured
\* nothing yet.
CrashProcess(p) ==
  /\ Fault("crash")
  /\ queue' = [e \in Emails |-> [k \in Tries |->
                 queue[e][k] + Cardinality(Stalling(p, e, k))]]
  /\ stalledOut' = stalledOut \cup
       {e \in Emails : \E s \in Slots : /\ s[1] = p /\ job[s].email = e
                                        /\ job[s].tries[2] = MaxStalled}
  /\ pc' = [s \in Slots |-> IF s[1] = p THEN "idle" ELSE pc[s]]
  /\ job' = [s \in Slots |-> IF s[1] = p THEN NoJob ELSE job[s]]
  /\ row' = [s \in Slots |-> IF s[1] = p THEN "absent" ELSE row[s]]
  /\ ensuring' = [ensuring EXCEPT ![p] = "none"]
  /\ UNCHANGED <<status, overlapped, adding, esVars, script>>

-----------------------------------------------------------------------------
(* scripts/reindex.ts, and the loss it is there for *)

\* It ensures the index and reads every row at once ...
ReindexRead ==
  LET rows == {e \in Emails : status[e] # "absent"} IN
  /\ script = << >> /\ rows # {}
  /\ Fault("reindex")
  /\ index' = IF index = "missing" THEN "mapped" ELSE index
  /\ script' = [e \in rows |-> status[e]]
  /\ UNCHANGED <<status, history, adding, queue, slotVars, ensuring, docs>>

\* ... and writes them in bulks, here row by row.
ReindexWrite(e) ==
  /\ e \in DOMAIN script
  /\ Upsert([f \in {e} |-> script[e]])
  /\ script' = [f \in DOMAIN script \ {e} |-> script[f]]
  /\ UNCHANGED <<status, history, adding, queue, slotVars, ensuring, left>>

\* A bulk fails, and the script ends.
ReindexFails ==
  /\ script # << >>
  /\ Fault("es")
  /\ script' = << >>
  /\ UNCHANGED <<status, history, adding, queue, slotVars, ensuring, esVars>>

\* Elasticsearch loses its data.
WipeElasticsearch ==
  /\ Fault("wipe")
  /\ index' = "missing"
  /\ docs' = [e \in Emails |-> "none"]
  /\ UNCHANGED <<status, history, adding, queue, slotVars, ensuring, script>>

-----------------------------------------------------------------------------

Producer(e) == Transition(e) \/ SweepRow(e) \/ EnqueueIndex(e) \/ LoseEnqueue(e)

IndexSlot(s) ==
  \/ \E e \in Emails, k \in Tries : FetchIndexJob(s, e, k)
  \/ GetEmailForIndex(s) \/ Ensured(s)
  \/ IndexEmail(s) \/ IndexEmailFails(s) \/ RetryJob(s)

IndexProcess(p) == EnsureExists(p) \/ EnsureCreate(p) \/ EnsureFails(p) \/ CrashProcess(p)

Next ==
  \/ \E e \in Emails : Producer(e) \/ ReindexWrite(e)
  \/ \E s \in Slots : IndexSlot(s)
  \/ \E p \in Procs : IndexProcess(p)
  \/ ReindexRead \/ ReindexFails \/ WipeElasticsearch

Spec == Init /\ [][Next]_vars

-----------------------------------------------------------------------------
(* Properties *)

Used(kinds) == \E k \in kinds : left[k] < Budget[k]

\* Nothing more is going to be written for row e.
Settled(e) ==
  /\ adding[e] = 0 /\ Waiting(e) = {} /\ e \notin DOMAIN script
  /\ \A s \in Slots : job[s].email # e

\* Elasticsearch failed as often as a job has attempts.
Exhausted == Budget["es"] - left["es"] >= Attempts

\* At-least-once indexing: a row whose jobs are done has a document, although
\* Elasticsearch failed fewer times than a job has attempts and workers died; but
\* a job that was killed more than maxStalledCount times is not run again.
EveryRowSearchable ==
  \A e \in Emails :
    Settled(e) /\ status[e] # "absent" =>
      docs[e] # "none" \/ e \in stalledOut \/ Used({"enqueue", "wipe"}) \/ Exhausted

\* A row whose index jobs are all done, however often they were retried, has a
\* document that shows its status, unless two of its jobs ran at the same time, one
\* was killed too often, the sweep or the rebuild script had a hand in it, or
\* something was lost.  Retries, kills and jobs that run in any order one after
\* another do no harm.
StaleHasCause ==
  \A e \in Emails :
    Settled(e) /\ status[e] # "absent" =>
      \/ docs[e] = status[e]
      \/ e \in overlapped \cup stalledOut
      \/ Used({"enqueue", "wipe", "sweep", "reindex"}) \/ Exhausted

\* Workers, bootstrap and the rebuild script race to create the index, and it
\* gets its explicit mapping, unless Elasticsearch loses its data under them.
MappingKept == index = "guessed" => Used({"wipe"})

-----------------------------------------------------------------------------
(* What the documents promise *)

\* "The index worker always reads current state from Postgres, so whichever
\* transition fired, the doc reflects the row as it stands".
IndexReflectsRow == \A e \in Emails : Settled(e) /\ status[e] # "absent" => docs[e] = status[e]

\* "A missing index is never auto-created with a guessed mapping".
MappingExplicit == index # "guessed"

===============================================================================
