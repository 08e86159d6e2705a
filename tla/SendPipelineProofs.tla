-------------------------- MODULE SendPipelineProofs --------------------------
(* Proofs about SendPipeline, for every value of its constants. *)
EXTENDS SendPipeline, FiniteSetTheorems, TLAPS

-----------------------------------------------------------------------------
(* Type correctness *)

\* A slot has an email exactly while it runs send().
SlotInv == \A s \in Slots : pc[s] = "idle" <=> cur[s] = None

\* A job that may still run has attempts left; only active jobs are locked, by
\* a slot that runs them.
JobInv ==
  \A e \in Emails :
    /\ job[e] \in {"none", "waiting", "active"} => made[e] < MaxAttempts
    /\ owner[e] # None => job[e] = "active" /\ cur[owner[e]] = e

TypeInv == TypeOK /\ SlotInv /\ JobInv

\* The process of a slot is a worker process.
LEMMA SlotProc == \A s \in Slots : s[1] \in Procs
  BY DEF Slots

\* Spending a fault keeps the budget well-formed.
LEMMA FaultType ==
  ASSUME NEW k \in FaultKinds, TypeOK, Fault(k)
  PROVE  /\ left' \in [FaultKinds -> Nat]
         /\ \A j \in FaultKinds : left'[j] <= left[j]
         /\ \A j \in FaultKinds : left'[j] <= Budget[j]
<1>1. left \in [FaultKinds -> Nat] /\ Budget \in [FaultKinds -> Nat]
      /\ \A j \in FaultKinds : left[j] <= Budget[j]
  BY BudgetAssumption DEF TypeOK
<1>2. left[k] \in Nat /\ left[k] > 0 /\ left' = [left EXCEPT ![k] = left[k] - 1]
  BY <1>1 DEF Fault
<1>3. left[k] - 1 \in Nat /\ left[k] - 1 <= left[k]
  BY <1>2
<1>4. left' \in [FaultKinds -> Nat]
  BY <1>1, <1>2, <1>3
<1>5. \A j \in FaultKinds : left'[j] <= left[j]
  BY <1>1, <1>2, <1>3
<1> QED
  BY <1>1, <1>4, <1>5

LEMMA Kinds == \A k \in {"crash", "restart", "api", "store", "smtp", "lock", "wipe", "evict"} :
                 k \in FaultKinds
  BY DEF FaultKinds

LEMMA TypeInit == Init => TypeInv
<1> SUFFICES ASSUME Init PROVE TypeInv
  OBVIOUS
<1> USE NumbersAssumption, BudgetAssumption, NoneAssumption
<1>1. TypeOK
  BY DEF Init, TypeOK, Statuses, JobStates, Points, BootSteps
<1>2. SlotInv
  BY DEF Init, SlotInv
<1>3. JobInv
  BY DEF Init, JobInv
<1> QED
  BY <1>1, <1>2, <1>3 DEF TypeInv

LEMMA TypeStep == TypeInv /\ [Next]_vars => TypeInv'
<1> SUFFICES ASSUME TypeInv, [Next]_vars PROVE TypeInv'
  OBVIOUS
<1> USE NumbersAssumption, BudgetAssumption, NoneAssumption, SlotProc
    DEF TypeInv, TypeOK, SlotInv, JobInv, Statuses, JobStates, Points, BootSteps,
        rowVars, jobVars, slotVars, procVars
<1>1. CASE CreateCampaign
  BY <1>1 DEF CreateCampaign
<1>2. CASE EnqueueCampaign
  BY <1>2 DEF EnqueueCampaign, AddBulk, Chunks
<1>3. CASE LoseEnqueue
  BY <1>3, FaultType, Kinds DEF LoseEnqueue
<1>4. CASE ProvisionSenders
  BY <1>4 DEF ProvisionSenders
<1>5. ASSUME NEW s \in Slots, NEW e \in Emails, FetchJob(s, e) PROVE TypeInv'
  BY <1>5 DEF FetchJob, Goto
<1>6. ASSUME NEW s \in Slots, NEW f \in Points, NEW t \in Points \ {"idle"},
             f # "idle", Advance(s, f, t) PROVE TypeInv'
  BY <1>6 DEF Advance, Goto
<1>7. ASSUME NEW s \in Slots, UpdateScheduledAt(s) PROVE TypeInv'
  BY <1>7 DEF UpdateScheduledAt, Goto
<1>8. ASSUME NEW s \in Slots, MoveToDelayed(s) PROVE TypeInv'
  BY <1>8 DEF MoveToDelayed, Free, Goto
<1>9. ASSUME NEW s \in Slots, ClaimForSending(s) PROVE TypeInv'
  <2>1. cur[s] \in Emails /\ s[1] \in Procs
    BY <1>9 DEF ClaimForSending
  <2>2. TypeOK'
    <3>1. CASE Claim(cur[s]) /\ Goto(s, "send")
      <4>1. attempts[cur[s]] + 1 \in Nat
        BY <2>1
      <4> QED
        BY <1>9, <2>1, <3>1, <4>1 DEF ClaimForSending, Claim, Touch, Goto
    <3>2. CASE Goto(s, "return") /\ UNCHANGED rowVars
      BY <1>9, <2>1, <3>2 DEF ClaimForSending, Goto
    <3> QED
      BY <1>9, <3>1, <3>2 DEF ClaimForSending
  <2>8. SlotInv'
    BY <1>9, <2>1 DEF ClaimForSending, Goto
  <2>9. JobInv'
    BY <1>9, <2>1 DEF ClaimForSending
  <2> QED
    BY <2>2, <2>8, <2>9
<1>10. ASSUME NEW s \in Slots, MailAccepted(s) PROVE TypeInv'
  BY <1>10 DEF MailAccepted, Goto
<1>11. ASSUME NEW s \in Slots, MarkSent(s) PROVE TypeInv'
  BY <1>11 DEF MarkSent, SetSent, Touch, Goto
<1>12. ASSUME NEW s \in Slots, ResetForRetry(s) PROVE TypeInv'
  <2>1. cur[s] \in Emails /\ s[1] \in Procs
    BY <1>12 DEF ResetForRetry
  <2>2. TypeOK'
    <3>1. CASE status[cur[s]] = "sending"
      <4>1. /\ status' = [status EXCEPT ![cur[s]] = "queued"]
            /\ overdue' = [overdue EXCEPT ![cur[s]] = FALSE]
            /\ pc' = [pc EXCEPT ![s] = "throw"]
            /\ UNCHANGED <<attempts, messageId, jobVars, cur, procVars, apiTodo,
                           haveSenders, delivered, left>>
        BY <1>12, <3>1 DEF ResetForRetry, Touch, Goto
      <4> QED
        BY <2>1, <4>1
    <3>2. CASE status[cur[s]] # "sending"
      BY <1>12, <2>1, <3>2 DEF ResetForRetry, Goto
    <3> QED
      BY <3>1, <3>2
  <2>8. SlotInv'
    BY <1>12, <2>1 DEF ResetForRetry, Goto
  <2>9. JobInv'
    BY <1>12, <2>1 DEF ResetForRetry
  <2> QED
    BY <2>2, <2>8, <2>9
<1>13. ASSUME NEW s \in Slots, CompleteJob(s) PROVE TypeInv'
  BY <1>13 DEF CompleteJob, Free, Goto
<1>14. ASSUME NEW s \in Slots, FailJob(s) PROVE TypeInv'
  <2> DEFINE e == cur[s]
             last == LastAttempt(e)
  <2>1. e \in Emails /\ s[1] \in Procs /\ pc[s] = "throw"
    BY <1>14 DEF FailJob, SettleFailure
  <2>2. CASE owner[e] # s
    BY <1>14, <2>1, <2>2 DEF FailJob, SettleFailure, Free, Goto
  <2>3. CASE owner[e] = s
    <3>1. made[e] < MaxAttempts /\ made[e] \in Nat
      BY <2>1, <2>3
    <3>2. made' = [made EXCEPT ![e] = made[e] + 1]
      BY <1>14, <2>1, <2>3 DEF FailJob, SettleFailure
    <3>3. made[e] + 1 \in 0 .. MaxAttempts /\ (~last => made[e] + 1 < MaxAttempts)
      BY <3>1 DEF LastAttempt
    <3>4. made' \in [Emails -> 0 .. MaxAttempts]
      BY <2>1, <3>2, <3>3
    <3>5. /\ job' = [job EXCEPT ![e] = IF last THEN "failed" ELSE "waiting"]
          /\ owner' = [owner EXCEPT ![e] = None]
          /\ finalizing' = [finalizing EXCEPT ![s[1]] = IF last THEN @ \cup {e} ELSE @]
          /\ pc' = [pc EXCEPT ![s] = "idle"] /\ cur' = [cur EXCEPT ![s] = None]
          /\ UNCHANGED <<rowVars, proc, boot, bootTodo, apiTodo, haveSenders, delivered, left>>
      BY <1>14, <2>1, <2>3 DEF FailJob, SettleFailure, Free, Goto
    <3>6. TypeOK'
      BY <2>1, <3>4, <3>5
    <3>7. SlotInv'
      BY <2>1, <3>5
    <3>8. JobInv'
      BY <2>1, <2>3, <3>2, <3>3, <3>5
    <3> QED
      BY <3>6, <3>7, <3>8
  <2> QED
    BY <2>2, <2>3
<1>15. ASSUME NEW p \in Procs, NEW e \in Emails, MarkFailed(p, e) PROVE TypeInv'
  BY <1>15 DEF MarkFailed, Touch
<1>16. ASSUME NEW s \in Slots, StoreError(s) PROVE TypeInv'
  BY <1>16, FaultType, Kinds DEF StoreError, Goto
<1>17. ASSUME NEW s \in Slots, ClaimReplyLost(s) PROVE TypeInv'
  BY <1>17, FaultType, Kinds DEF ClaimReplyLost, Claim, Touch, Goto
<1>18. ASSUME NEW s \in Slots, MarkSentError(s) PROVE TypeInv'
  <2>1. cur[s] \in Emails /\ s[1] \in Procs
    BY <1>18 DEF MarkSentError
  <2>2. TypeOK'
    <3>1. CASE SetSent(cur[s])
      BY <1>18, <2>1, <3>1, FaultType, Kinds DEF MarkSentError, SetSent, Touch, Goto
    <3>2. CASE UNCHANGED rowVars
      BY <1>18, <2>1, <3>2, FaultType, Kinds DEF MarkSentError, Goto
    <3> QED
      BY <1>18, <3>1, <3>2 DEF MarkSentError
  <2>8. SlotInv'
    BY <1>18, <2>1 DEF MarkSentError, Goto
  <2>9. JobInv'
    BY <1>18, <2>1 DEF MarkSentError
  <2> QED
    BY <2>2, <2>8, <2>9
<1>19. ASSUME NEW p \in Procs, NEW e \in Emails, MarkFailedError(p, e) PROVE TypeInv'
  BY <1>19, FaultType, Kinds DEF MarkFailedError
<1>20. ASSUME NEW p \in Procs, BootWorker(p) PROVE TypeInv'
  BY <1>20 DEF BootWorker
<1>21. ASSUME NEW p \in Procs, ResetStalledSends(p) PROVE TypeInv'
  BY <1>21 DEF ResetStalledSends
<1>22. ASSUME NEW p \in Procs, GetReconcilable(p) PROVE TypeInv'
  BY <1>22 DEF GetReconcilable
<1>23. ASSUME NEW p \in Procs, Reconcile(p) PROVE TypeInv'
  BY <1>23 DEF Reconcile, AddBulk, Chunks
<1>24. ASSUME NEW p \in Procs, ReconcileError(p) PROVE TypeInv'
  BY <1>24, FaultType, Kinds DEF ReconcileError
<1>25. ASSUME NEW p \in Procs, Sigterm(p) PROVE TypeInv'
  BY <1>25, FaultType, Kinds DEF Sigterm
<1>26. ASSUME NEW p \in Procs, Exit(p) PROVE TypeInv'
  BY <1>26 DEF Exit, EndProcess, SlotsOf
<1>27. ASSUME NEW p \in Procs, Crash(p) PROVE TypeInv'
  BY <1>27, FaultType, Kinds DEF Crash, EndProcess, SlotsOf
<1>28. CASE WipeRedis
  BY <1>28, FaultType, Kinds DEF WipeRedis
<1>29. ASSUME NEW e \in Emails, RecoverStalledJob(e) PROVE TypeInv'
  BY <1>29 DEF RecoverStalledJob
<1>30. ASSUME NEW e \in Emails, LoseLock(e) PROVE TypeInv'
  BY <1>30, FaultType, Kinds DEF LoseLock
<1>31. ASSUME NEW e \in Emails, EvictJob(e) PROVE TypeInv'
  BY <1>31, FaultType, Kinds DEF EvictJob
<1>32. ASSUME NEW e \in Emails, Age(e) PROVE TypeInv'
  BY <1>32 DEF Age
<1>33. ASSUME NEW s \in Slots, MailReplyLost(s) PROVE TypeInv'
  BY <1>33, FaultType, Kinds DEF MailReplyLost, Goto
<1>34. CASE UNCHANGED vars
  BY <1>34 DEF vars
<1>35. ASSUME NEW s \in Slots, Send(s) PROVE TypeInv'
  <2>1. CASE ReadRow(s)
    BY <2>1, <1>6 DEF ReadRow
  <2>2. CASE PickSender(s)
    BY <2>2, <1>6 DEF PickSender
  <2>3. CASE ReserveOk(s) \/ ReserveThrottle(s) \/ ReserveQuota(s) \/ MailRejected(s)
    BY <2>3, <1>6 DEF ReserveOk, ReserveThrottle, ReserveQuota, MailRejected
  <2> QED
    BY <1>35, <2>1, <2>2, <2>3, <1>7, <1>8, <1>9, <1>10, <1>11, <1>12, <1>13, <1>14 DEF Send
<1>36. ASSUME NEW s \in Slots, Slot(s) PROVE TypeInv'
  BY <1>36, <1>5, <1>16, <1>17, <1>18, <1>33, <1>35 DEF Slot
<1>37. ASSUME NEW p \in Procs, Worker(p) PROVE TypeInv'
  BY <1>37, <1>15, <1>19, <1>20, <1>21, <1>22, <1>23, <1>24, <1>25, <1>26, <1>27
     DEF Worker, ReconcileOnBoot
<1>38. CASE Environment
  BY <1>38, <1>28, <1>29, <1>30, <1>31, <1>32 DEF Environment
<1> QED
  BY <1>1, <1>2, <1>3, <1>4, <1>34, <1>36, <1>37, <1>38 DEF Next, Api

\* Every state the pipeline reaches is well-typed, a running job always has
\* attempts left and is locked only by the slot that runs it.
THEOREM TypeCorrect == Spec => [](TypeOK /\ SlotInv /\ JobInv)
<1>1. Init => TypeInv
  BY TypeInit
<1>2. TypeInv /\ [Next]_vars => TypeInv'
  BY TypeStep
<1>3. TypeInv => TypeOK /\ SlotInv /\ JobInv
  BY DEF TypeInv
<1> QED
  BY <1>1, <1>2, <1>3, PTL DEF Spec

-----------------------------------------------------------------------------
(* Faults are only ever spent *)

LEMMA FaultsOnlySpent ==
  ASSUME TypeInv, [Next]_vars PROVE \A k \in FaultKinds : left'[k] <= left[k]
<1>0. TypeOK /\ \A k \in FaultKinds : left[k] <= left[k]
  BY DEF TypeInv, TypeOK
<1>1. CASE left' = left
  BY <1>0, <1>1
<1>2. CASE \E k \in FaultKinds : Fault(k)
  BY <1>0, <1>2, FaultType
<1>3. Api => left' = left \/ \E k \in FaultKinds : Fault(k)
  BY Kinds DEF Api, CreateCampaign, EnqueueCampaign, LoseEnqueue, ProvisionSenders
<1>4. ASSUME NEW s \in Slots, Slot(s)
      PROVE left' = left \/ \E k \in FaultKinds : Fault(k)
  BY <1>4, Kinds
     DEF Slot, FetchJob, Send, ReadRow, PickSender, ReserveOk, ReserveThrottle, ReserveQuota,
         Advance, UpdateScheduledAt, MoveToDelayed, ClaimForSending, MailAccepted,
         MailRejected, MarkSent, ResetForRetry, CompleteJob, FailJob, SettleFailure,
         MailReplyLost, StoreError, ClaimReplyLost, MarkSentError
<1>5. ASSUME NEW p \in Procs, Worker(p)
      PROVE left' = left \/ \E k \in FaultKinds : Fault(k)
  BY <1>5, Kinds
     DEF Worker, BootWorker, ReconcileOnBoot, ResetStalledSends, GetReconcilable, Reconcile,
         ReconcileError, Sigterm, Exit, Crash, MarkFailed, MarkFailedError
<1>6. Environment => left' = left \/ \E k \in FaultKinds : Fault(k)
  BY Kinds DEF Environment, WipeRedis, RecoverStalledJob, LoseLock, EvictJob, Age
<1> QED
  BY <1>1, <1>2, <1>3, <1>4, <1>5, <1>6 DEF Next, vars

\* A fault that happened has happened for good.
LEMMA UsedStays ==
  ASSUME NEW K \in SUBSET FaultKinds, TypeInv, TypeInv', [Next]_vars, Used(K)
  PROVE  Used(K)'
<1>1. PICK k \in K : left[k] < Budget[k]
  BY DEF Used
<1>2. left'[k] <= left[k]
  BY FaultsOnlySpent
<1>3. left[k] \in Nat /\ left'[k] \in Nat /\ Budget[k] \in Nat
  BY BudgetAssumption DEF TypeInv, TypeOK
<1> QED
  BY <1>1, <1>2, <1>3 DEF Used

LEMMA FaultIsUsed ==
  ASSUME NEW K \in SUBSET FaultKinds, NEW k \in K, TypeInv, Fault(k)
  PROVE  Used(K)'
<1>1. left[k] \in Nat /\ left[k] <= Budget[k] /\ Budget[k] \in Nat
  BY BudgetAssumption DEF TypeInv, TypeOK
<1>2. left'[k] = left[k] - 1
  BY DEF Fault, TypeInv, TypeOK
<1> QED
  BY <1>1, <1>2 DEF Used

-----------------------------------------------------------------------------
(* One run per email *)

\* A run holds the lock of its job unless locks were lost.
LockInv ==
  Used({"lock", "wipe"}) \/ \A s \in Slots : cur[s] # None => owner[cur[s]] = s

LEMMA LockInit == Init => LockInv
  BY DEF Init, LockInv

LEMMA LockStep ==
  ASSUME TypeInv, TypeInv', LockInv, [Next]_vars PROVE LockInv'
<1> DEFINE K == {"lock", "wipe"}
           Held == \A s \in Slots : cur[s] # None => owner[cur[s]] = s
<1>0. K \in SUBSET FaultKinds
  BY DEF FaultKinds
<1>1. CASE Used(K)
  BY <1>0, <1>1, UsedStays DEF LockInv
<1>2. CASE Held
  <2> USE <1>2, NoneAssumption, SlotProc
      DEF TypeInv, TypeOK, SlotInv, JobInv, rowVars, jobVars, slotVars, procVars
  <2>1. CASE owner' = owner /\ cur' = cur
    BY <2>1 DEF LockInv
  <2>2. ASSUME NEW s \in Slots, NEW e \in Emails, FetchJob(s, e) PROVE Held'
    BY <2>2 DEF FetchJob
  <2>3. ASSUME NEW s \in Slots, MoveToDelayed(s) \/ CompleteJob(s) \/ FailJob(s) PROVE Held'
    BY <2>3 DEF MoveToDelayed, CompleteJob, FailJob, SettleFailure, Free
  <2>4. ASSUME NEW p \in Procs, EndProcess(p) PROVE Held'
    BY <2>4 DEF EndProcess, SlotsOf
  <2>5. ASSUME NEW e \in Emails, LoseLock(e) PROVE LockInv'
    BY <2>5, <1>0, FaultIsUsed DEF LoseLock, LockInv
  <2>6. CASE WipeRedis
    BY <2>6, <1>0, FaultIsUsed DEF WipeRedis, LockInv
  <2>7. CASE Api
    BY <2>7, <2>1 DEF Api, CreateCampaign, EnqueueCampaign, LoseEnqueue, ProvisionSenders, AddBulk
  <2>8. ASSUME NEW s \in Slots, Slot(s) PROVE LockInv'
    BY <2>8, <2>1, <2>2, <2>3
       DEF LockInv, Slot, Send, ReadRow, PickSender, ReserveOk, ReserveThrottle, ReserveQuota,
           Advance, UpdateScheduledAt, ClaimForSending, MailAccepted, MailRejected, MarkSent,
           ResetForRetry, MailReplyLost, StoreError, ClaimReplyLost, MarkSentError
  <2>9. ASSUME NEW p \in Procs, Worker(p) PROVE LockInv'
    BY <2>9, <2>1, <2>4
       DEF LockInv, Worker, BootWorker, ReconcileOnBoot, ResetStalledSends, GetReconcilable,
           Reconcile, AddBulk, ReconcileError, Sigterm, Exit, Crash, MarkFailed, MarkFailedError
  <2>10. CASE Environment
    BY <2>10, <2>1, <2>5, <2>6 DEF Environment, RecoverStalledJob, EvictJob, Age
  <2>11. CASE UNCHANGED vars
    BY <2>11, <2>1 DEF vars
  <2> QED
    BY <2>7, <2>8, <2>9, <2>10, <2>11 DEF Next
<1> QED
  BY <1>1, <1>2 DEF LockInv

\* Two runs for one email need a lost lock or a lost Redis.
THEOREM RunsExclusive == Spec => []ExclusiveRuns
<1>1. Init => TypeInv /\ LockInv
  BY TypeInit, LockInit
<1>2. TypeInv /\ LockInv /\ [Next]_vars => (TypeInv /\ LockInv)'
  BY TypeStep, LockStep
<1>3. TypeInv /\ LockInv => ExclusiveRuns
  BY DEF LockInv, ExclusiveRuns
<1> QED
  BY <1>1, <1>2, <1>3, PTL DEF Spec

-----------------------------------------------------------------------------
(* Finished rows are final *)

Unfinished(e) == status[e] \in {"scheduled", "queued", "sending"}

\* A run holds its job's lock, and past its first read and up to its return
\* its row is unfinished.
RunInv ==
  \A s \in Slots :
    cur[s] # None =>
      /\ owner[cur[s]] = s
      /\ pc[s] \notin {"read", "return"} => Unfinished(cur[s])

\* A 'failed' handler works on an unfinished row whose job has failed, and is
\* the only one that does.
HandlerInv ==
  /\ \A p \in Procs : \A e \in finalizing[p] : job[e] = "failed" /\ Unfinished(e)
  /\ \A p, q \in Procs : p # q => finalizing[p] \cap finalizing[q] = {}

FinalInv == Used({"store", "lock", "wipe"}) \/ (RunInv /\ HandlerInv)

LEMMA FinalInit == Init => FinalInv
  BY DEF Init, FinalInv, RunInv, HandlerInv

LEMMA FinalStep ==
  ASSUME TypeInv, TypeInv', FinalInv, [Next]_vars PROVE FinalInv'
<1> DEFINE K == {"store", "lock", "wipe"}
           Inv == RunInv /\ HandlerInv
<1>0. K \in SUBSET FaultKinds
  BY DEF FaultKinds
<1>1. CASE Used(K)
  BY <1>0, <1>1, UsedStays DEF FinalInv
<1>2. CASE Inv
  <2>1. \A k \in K : Fault(k) => FinalInv'
    BY <1>0, FaultIsUsed DEF FinalInv
  <2> USE <1>2, NoneAssumption, SlotProc
      DEF TypeInv, TypeOK, SlotInv, JobInv, RunInv, HandlerInv, Unfinished, Statuses, JobStates,
          Points, rowVars, jobVars, slotVars, procVars
  <2>2. CASE Api
    BY <2>2 DEF Api, CreateCampaign, EnqueueCampaign, LoseEnqueue, ProvisionSenders, AddBulk,
                FinalInv
  <2>3. ASSUME NEW s \in Slots, NEW e \in Emails, FetchJob(s, e) PROVE Inv'
    BY <2>3 DEF FetchJob, Goto
  <2>4. ASSUME NEW s \in Slots, Send(s) PROVE Inv'
    <3> USE <2>4
    <3>1. CASE ReadRow(s)
      BY <3>1 DEF ReadRow, Advance, Goto, Pending
    <3>2. CASE PickSender(s)
      BY <3>2 DEF PickSender, Advance, Goto
    <3>3. CASE ReserveOk(s) \/ ReserveThrottle(s) \/ ReserveQuota(s) \/ MailRejected(s)
      <4>1. /\ pc[s] \in {"reserve", "send"}
            /\ \E t \in {"claim", "park", "quota", "reset"} : pc' = [pc EXCEPT ![s] = t]
            /\ UNCHANGED <<rowVars, jobVars, cur, procVars>>
        BY <3>3 DEF ReserveOk, ReserveThrottle, ReserveQuota, MailRejected, Advance, Goto
      <4> QED
        BY <4>1
    <3>4. CASE UpdateScheduledAt(s) \/ MailAccepted(s)
      BY <3>4 DEF UpdateScheduledAt, MailAccepted, Goto
    <3>5. CASE MoveToDelayed(s) \/ CompleteJob(s)
      BY <3>5 DEF MoveToDelayed, CompleteJob, Free, Goto
    <3>6. CASE ClaimForSending(s)
      <4>1. cur[s] \in Emails /\ pc[s] = "claim"
        BY <3>6 DEF ClaimForSending
      <4>2. cur' = cur /\ owner' = owner /\ job' = job /\ finalizing' = finalizing
        BY <3>6 DEF ClaimForSending
      <4>3. CASE status' = [status EXCEPT ![cur[s]] = "sending"] /\ pc' = [pc EXCEPT ![s] = "send"]
        BY <4>1, <4>2, <4>3
      <4>4. CASE status' = status /\ pc' = [pc EXCEPT ![s] = "return"]
        BY <4>1, <4>2, <4>4
      <4> QED
        BY <3>6, <4>3, <4>4 DEF ClaimForSending, Claim, Goto
    <3>7. CASE MarkSent(s)
      BY <3>7 DEF MarkSent, SetSent, Goto
    <3>8. CASE ResetForRetry(s)
      <4>1. cur[s] \in Emails /\ pc[s] = "reset"
        BY <3>8 DEF ResetForRetry
      <4>2. /\ cur' = cur /\ owner' = owner /\ job' = job /\ finalizing' = finalizing
            /\ pc' = [pc EXCEPT ![s] = "throw"]
        BY <3>8 DEF ResetForRetry, Goto
      <4>3. CASE status' = [status EXCEPT ![cur[s]] = "queued"]
        BY <4>1, <4>2, <4>3
      <4>4. CASE status' = status
        BY <4>1, <4>2, <4>4
      <4> QED
        BY <3>8, <4>3, <4>4 DEF ResetForRetry
    <3>9. CASE FailJob(s)
      <4> DEFINE e == cur[s]
      <4>1. e \in Emails /\ s[1] \in Procs /\ pc[s] = "throw"
        BY <3>9 DEF FailJob, SettleFailure
      <4>2. owner[e] = s /\ job[e] = "active" /\ Unfinished(e)
        BY <4>1
      <4>3. \A p \in Procs : e \notin finalizing[p]
        BY <4>2
      <4>4. /\ job' = [job EXCEPT ![e] = IF LastAttempt(e) THEN "failed" ELSE "waiting"]
            /\ owner' = [owner EXCEPT ![e] = None]
            /\ finalizing' = [finalizing EXCEPT ![s[1]] =
                                IF LastAttempt(e) THEN @ \cup {e} ELSE @]
            /\ pc' = [pc EXCEPT ![s] = "idle"] /\ cur' = [cur EXCEPT ![s] = None]
            /\ status' = status
        BY <3>9, <4>2 DEF FailJob, SettleFailure, Free, Goto
      <4>5. RunInv'
        BY <4>1, <4>2, <4>4
      <4>6. HandlerInv'
        BY <4>1, <4>2, <4>3, <4>4
      <4> QED
        BY <4>5, <4>6
    <3> QED
      BY <3>1, <3>2, <3>3, <3>4, <3>5, <3>6, <3>7, <3>8, <3>9 DEF Send
  <2>5. ASSUME NEW s \in Slots, Slot(s) PROVE FinalInv'
    <3>1. CASE MailReplyLost(s)
      BY <3>1 DEF MailReplyLost, Goto, FinalInv
    <3> QED
      BY <2>5, <2>1, <2>3, <2>4, <3>1 DEF Slot, StoreError, ClaimReplyLost, MarkSentError, FinalInv
  <2>6. ASSUME NEW p \in Procs, NEW e \in Emails, MarkFailed(p, e) PROVE Inv'
    BY <2>6 DEF MarkFailed
  <2>7. ASSUME NEW p \in Procs, BootWorker(p) \/ Sigterm(p) \/ GetReconcilable(p) PROVE Inv'
    BY <2>7 DEF BootWorker, Sigterm, GetReconcilable
  <2>8. ASSUME NEW p \in Procs, ResetStalledSends(p) PROVE Inv'
    BY <2>8 DEF ResetStalledSends, Stalled
  <2>9. ASSUME NEW p \in Procs, Reconcile(p) PROVE Inv'
    BY <2>9 DEF Reconcile, AddBulk
  <2>10. ASSUME NEW p \in Procs, EndProcess(p) PROVE Inv'
    BY <2>10 DEF EndProcess, SlotsOf
  <2>11. ASSUME NEW p \in Procs, Worker(p) PROVE FinalInv'
    BY <2>11, <2>1, <2>6, <2>7, <2>8, <2>9, <2>10
       DEF Worker, ReconcileOnBoot, ReconcileError, MarkFailedError, Exit, Crash, FinalInv
  <2>12. ASSUME NEW e \in Emails, RecoverStalledJob(e) \/ EvictJob(e) \/ Age(e) PROVE Inv'
    BY <2>12 DEF RecoverStalledJob, EvictJob, Age
  <2>13. CASE Environment
    BY <2>13, <2>1, <2>12 DEF Environment, WipeRedis, LoseLock, FinalInv
  <2>14. CASE UNCHANGED vars
    BY <2>14 DEF vars, FinalInv
  <2> QED
    BY <2>2, <2>5, <2>11, <2>13, <2>14 DEF Next
<1> QED
  BY <1>1, <1>2 DEF FinalInv

\* What a step that is not a fault of the set may do to a finished row.
Kept == \A e \in Emails : Finished(e) => status'[e] = status[e] \/ Used({"store", "lock", "wipe"})

LEMMA KeptStep ==
  ASSUME TypeInv, FinalInv, [Next]_vars PROVE Kept
<1>1. CASE Used({"store", "lock", "wipe"})
  BY <1>1 DEF Kept
<1>2. CASE RunInv /\ HandlerInv
  <2>1. CASE status' = status
    BY <2>1 DEF Kept
  <2>2. ASSUME NEW e \in Emails \cup {None}, ~Finished(e), \E v : status' = [status EXCEPT ![e] = v]
        PROVE Kept
    BY <2>2 DEF Kept, TypeInv, TypeOK
  <2>3. CASE CreateCampaign
    BY <2>3 DEF CreateCampaign, Kept, Finished
  <2>4. ASSUME NEW s \in Slots, Slot(s) PROVE Kept
    <3> cur[s] \in Emails \cup {None}
      BY DEF TypeInv, TypeOK
    <3>1. ASSUME Claim(cur[s]) PROVE Kept
      BY <3>1, <2>2 DEF Claim, Pending, Finished
    <3>2. ASSUME pc[s] = "mark", SetSent(cur[s]) PROVE Kept
      <4>1. ~Finished(cur[s])
        <5>1. cur[s] # None
          BY <3>2 DEF TypeInv, SlotInv
        <5>2. Unfinished(cur[s])
          BY <1>2, <3>2, <5>1 DEF RunInv
        <5> QED
          BY <5>2 DEF Unfinished, Finished
      <4> QED
        BY <3>2, <4>1, <2>2 DEF SetSent
    <3>3. CASE ResetForRetry(s)
      BY <3>3, <2>1, <2>2 DEF ResetForRetry, Finished
    <3>4. CASE ClaimForSending(s) \/ ClaimReplyLost(s)
      BY <3>4, <3>1, <2>1 DEF ClaimForSending, ClaimReplyLost, rowVars
    <3>5. CASE MarkSent(s) \/ MarkSentError(s)
      BY <3>5, <3>2, <2>1 DEF MarkSent, MarkSentError, rowVars
    <3> QED
      BY <2>4, <2>1, <3>3, <3>4, <3>5
         DEF Slot, FetchJob, Send, ReadRow, PickSender, ReserveOk, ReserveThrottle, ReserveQuota,
             Advance, UpdateScheduledAt, MoveToDelayed, MailAccepted, MailRejected, CompleteJob,
             FailJob, SettleFailure, MailReplyLost, StoreError, rowVars
  <2>5. ASSUME NEW p \in Procs, NEW e \in Emails, MarkFailed(p, e) PROVE Kept
    <3>1. ~Finished(e)
      BY <1>2, <2>5 DEF MarkFailed, HandlerInv, Unfinished, Finished
    <3> QED
      BY <2>5, <3>1, <2>2 DEF MarkFailed
  <2>6. ASSUME NEW p \in Procs, ResetStalledSends(p) PROVE Kept
    BY <2>6 DEF ResetStalledSends, Stalled, Kept, Finished
  <2>7. ASSUME NEW p \in Procs, Worker(p) PROVE Kept
    BY <2>7, <2>1, <2>5, <2>6
       DEF Worker, BootWorker, ReconcileOnBoot, GetReconcilable, Reconcile, ReconcileError,
           Sigterm, Exit, Crash, EndProcess, MarkFailedError, rowVars
  <2>8. CASE Environment
    BY <2>8, <2>1 DEF Environment, WipeRedis, RecoverStalledJob, LoseLock, EvictJob, Age, rowVars
  <2>9. CASE EnqueueCampaign \/ LoseEnqueue \/ ProvisionSenders \/ UNCHANGED vars
    BY <2>9, <2>1 DEF EnqueueCampaign, LoseEnqueue, ProvisionSenders, vars, rowVars
  <2> QED
    BY <2>3, <2>4, <2>7, <2>8, <2>9 DEF Next, Api
<1> QED
  BY <1>1, <1>2 DEF FinalInv

\* A finished row keeps its status through crashes, restarts, late SMTP replies
\* and sweeps: only a store call that throws, a lost lock or a lost Redis can
\* let a late markSent or markFailed overwrite it.
THEOREM FinishedStays == Spec => FinishedIsFinal
<1>1. Init => TypeInv /\ FinalInv
  BY TypeInit, FinalInit
<1>2. TypeInv /\ FinalInv /\ [Next]_vars => (TypeInv /\ FinalInv)'
  BY TypeStep, FinalStep
<1>3. TypeInv /\ FinalInv /\ [Next]_vars
        => [\A e \in Emails :
              Finished(e) => status'[e] = status[e] \/ Used({"store", "lock", "wipe"})]_vars
  BY KeptStep DEF Kept
<1> QED
  BY <1>1, <1>2, <1>3, PTL DEF Spec, FinishedIsFinal

-----------------------------------------------------------------------------
(* At most one delivery, when no fault hides a delivery from the worker *)

\* No kill, no store call that throws, no SMTP reply lost, no lock lost under a
\* live worker, no Redis loss.  SIGTERM, lost enqueues, evicted jobs, SMTP
\* errors, slow sends and their sweeps remain.
HidingKinds   == {"crash", "store", "smtp", "lock", "wipe"}
NoHidingFault == \A k \in HidingKinds : Budget[k] = 0

\* A row is delivered once the SMTP server took its mail: while the run is at
\* markSent, and from then on as 'sent'.
LedgerInv ==
  /\ \A e \in Emails :
       /\ delivered[e] \in {0, 1}
       /\ status[e] = "sent" => delivered[e] = 1
       /\ status[e] \in {"absent", "failed"} => delivered[e] = 0
       /\ Unfinished(e) /\ delivered[e] = 1 => \E s \in Slots : cur[s] = e /\ pc[s] = "mark"
  /\ \A s \in Slots :
       cur[s] # None /\ pc[s] \notin {"read", "return"} =>
         delivered[cur[s]] = IF pc[s] = "mark" THEN 1 ELSE 0
  /\ \A p \in Procs : \A e \in finalizing[p] : delivered[e] = 0

LEMMA LedgerInit == Init => LedgerInv
  BY NoneAssumption DEF Init, LedgerInv, Unfinished

LEMMA NoFaultLeft ==
  ASSUME NoHidingFault, TypeInv
  PROVE  \A k \in HidingKinds : ~Fault(k)
<1>1. \A k \in HidingKinds : k \in FaultKinds /\ left[k] \in Nat /\ left[k] <= 0
  BY DEF TypeInv, TypeOK, NoHidingFault, HidingKinds, FaultKinds
<1> QED
  BY <1>1 DEF Fault

LEMMA NothingHidden ==
  ASSUME NoHidingFault, TypeInv, FinalInv PROVE RunInv /\ HandlerInv
<1>1. \A k \in {"store", "lock", "wipe"} : k \in FaultKinds /\ Budget[k] = 0 /\ left[k] \in Nat
  BY DEF TypeInv, TypeOK, NoHidingFault, HidingKinds, FaultKinds
<1> QED
  BY <1>1 DEF FinalInv, Used

LEMMA LedgerStep ==
  ASSUME \A k \in HidingKinds : ~Fault(k), TypeInv, TypeInv', RunInv, HandlerInv, LedgerInv, [Next]_vars
  PROVE  LedgerInv'
<1>20. ~Fault("crash") /\ ~Fault("store") /\ ~Fault("smtp") /\ ~Fault("lock") /\ ~Fault("wipe")
  BY DEF HidingKinds
<1>0. \A t \in Slots : cur[t] # None /\ pc[t] = "throw" => delivered[cur[t]] = 0
  BY DEF LedgerInv
<1> USE NumbersAssumption, NoneAssumption, SlotProc
    DEF TypeInv, TypeOK, SlotInv, JobInv, RunInv, LedgerInv, HandlerInv,
        Unfinished, Statuses, JobStates, Points,
        rowVars, jobVars, slotVars, procVars
<1>1. CASE CreateCampaign
  BY <1>1 DEF CreateCampaign
<1>2. CASE EnqueueCampaign
  BY <1>2 DEF EnqueueCampaign, AddBulk
<1>3. CASE LoseEnqueue
  BY <1>3 DEF LoseEnqueue
<1>4. CASE ProvisionSenders
  BY <1>4 DEF ProvisionSenders
<1>5. ASSUME NEW s \in Slots, NEW e \in Emails, FetchJob(s, e) PROVE LedgerInv'
  BY <1>5 DEF FetchJob, Goto
<1>6. ASSUME NEW s \in Slots, Send(s) PROVE LedgerInv'
  <2> USE <1>6
  <2>1. CASE ReadRow(s)
    BY <2>1 DEF ReadRow, Advance, Goto, Pending
  <2>2. CASE PickSender(s)
    BY <2>2 DEF PickSender, Advance, Goto
  <2>3. CASE ReserveOk(s) \/ ReserveThrottle(s) \/ ReserveQuota(s) \/ MailRejected(s)
    BY <2>3 DEF ReserveOk, ReserveThrottle, ReserveQuota, MailRejected, Advance, Goto
  <2>4. CASE UpdateScheduledAt(s)
    BY <2>4 DEF UpdateScheduledAt, Goto
  <2>5. CASE MoveToDelayed(s)
    BY <2>5 DEF MoveToDelayed, Free, Goto
  <2>6. CASE ClaimForSending(s)
    <3>1. cur[s] \in Emails /\ pc[s] = "claim"
      BY <2>6 DEF ClaimForSending
    <3>2. /\ cur' = cur /\ owner' = owner /\ job' = job
          /\ finalizing' = finalizing /\ delivered' = delivered
      BY <2>6 DEF ClaimForSending
    <3>3. CASE status' = [status EXCEPT ![cur[s]] = "sending"] /\ pc' = [pc EXCEPT ![s] = "send"]
      BY <3>1, <3>2, <3>3
    <3>4. CASE status' = status /\ pc' = [pc EXCEPT ![s] = "return"]
      BY <3>1, <3>2, <3>4
    <3> QED
      BY <2>6, <3>3, <3>4 DEF ClaimForSending, Claim, Goto
  <2>7. CASE MailAccepted(s)
    BY <2>7 DEF MailAccepted, Goto
  <2>8. CASE MarkSent(s)
    BY <2>8 DEF MarkSent, SetSent, Goto
  <2>9. CASE ResetForRetry(s)
    <3>1. cur[s] \in Emails /\ pc[s] = "reset"
      BY <2>9 DEF ResetForRetry
    <3>2. /\ cur' = cur /\ owner' = owner /\ job' = job
          /\ finalizing' = finalizing /\ delivered' = delivered
          /\ pc' = [pc EXCEPT ![s] = "throw"]
      BY <2>9 DEF ResetForRetry, Goto
    <3>3. CASE status' = [status EXCEPT ![cur[s]] = "queued"]
      BY <3>1, <3>2, <3>3
    <3>4. CASE status' = status
      BY <3>1, <3>2, <3>4
    <3> QED
      BY <2>9, <3>3, <3>4 DEF ResetForRetry
  <2>10. CASE CompleteJob(s)
    BY <2>10 DEF CompleteJob, Free, Goto
  <2>11. CASE FailJob(s)
    <3> DEFINE e == cur[s]
    <3>1. e \in Emails /\ s \in Slots /\ s[1] \in Procs /\ pc[s] = "throw"
      BY <2>11 DEF FailJob, SettleFailure
    <3>2. owner[e] = s /\ job[e] = "active" /\ Unfinished(e) /\ delivered[e] = 0
      <4>1. e # None
        BY <3>1
      <4>2. owner[e] = s /\ Unfinished(e)
        BY <3>1, <4>1
      <4>3. job[e] = "active"
        BY <3>1, <4>2
      <4>4. delivered[e] = 0
        BY <3>1, <4>1, <1>0
      <4> QED
        BY <4>2, <4>3, <4>4
    <3>3. \A p \in Procs : e \notin finalizing[p]
      BY <3>2
    <3>4. /\ job' = [job EXCEPT ![e] = IF LastAttempt(e) THEN "failed" ELSE "waiting"]
          /\ owner' = [owner EXCEPT ![e] = None]
          /\ finalizing' = [finalizing EXCEPT ![s[1]] =
                              IF LastAttempt(e) THEN @ \cup {e} ELSE @]
          /\ pc' = [pc EXCEPT ![s] = "idle"] /\ cur' = [cur EXCEPT ![s] = None]
          /\ status' = status /\ delivered' = delivered
      BY <2>11, <3>2 DEF FailJob, SettleFailure, Free, Goto
    <3> QED
      BY <3>1, <3>2, <3>3, <3>4
  <2> QED
    BY <2>1, <2>2, <2>3, <2>4, <2>5, <2>6, <2>7, <2>8, <2>9, <2>10, <2>11 DEF Send
<1>7. ASSUME NEW s \in Slots, Slot(s) PROVE LedgerInv'
  BY <1>7, <1>5, <1>6, <1>20
     DEF Slot, MailReplyLost, StoreError, ClaimReplyLost, MarkSentError
<1>8. ASSUME NEW p \in Procs, NEW e \in Emails, MarkFailed(p, e) PROVE LedgerInv'
  BY <1>8 DEF MarkFailed
<1>9. ASSUME NEW p \in Procs, BootWorker(p) \/ Sigterm(p) PROVE LedgerInv'
  BY <1>9 DEF BootWorker, Sigterm
<1>10. ASSUME NEW p \in Procs, ResetStalledSends(p) PROVE LedgerInv'
  BY <1>10 DEF ResetStalledSends, Stalled
<1>11. ASSUME NEW p \in Procs, GetReconcilable(p) PROVE LedgerInv'
  BY <1>11 DEF GetReconcilable
<1>12. ASSUME NEW p \in Procs, Reconcile(p) PROVE LedgerInv'
  BY <1>12 DEF Reconcile, AddBulk
<1>13. ASSUME NEW p \in Procs, Exit(p) PROVE LedgerInv'
  BY <1>13 DEF Exit, EndProcess, SlotsOf
<1>14. ASSUME NEW p \in Procs, Worker(p) PROVE LedgerInv'
  BY <1>14, <1>8, <1>9, <1>10, <1>11, <1>12, <1>13, <1>20
     DEF Worker, ReconcileOnBoot, ReconcileError, Crash, MarkFailedError
<1>15. ASSUME NEW e \in Emails, RecoverStalledJob(e) PROVE LedgerInv'
  BY <1>15 DEF RecoverStalledJob
<1>16. ASSUME NEW e \in Emails, EvictJob(e) PROVE LedgerInv'
  BY <1>16 DEF EvictJob
<1>17. ASSUME NEW e \in Emails, Age(e) PROVE LedgerInv'
  BY <1>17 DEF Age
<1>18. CASE Environment
  BY <1>18, <1>15, <1>16, <1>17, <1>20 DEF Environment, WipeRedis, LoseLock
<1>19. CASE UNCHANGED vars
  BY <1>19 DEF vars
<1> QED
  BY <1>1, <1>2, <1>3, <1>4, <1>7, <1>14, <1>18, <1>19 DEF Next, Api

OnceInv == TypeInv /\ FinalInv /\ LedgerInv

LEMMA OnceInit == Init => OnceInv
  BY TypeInit, FinalInit, LedgerInit DEF OnceInv

LEMMA OnceStep ==
  ASSUME NoHidingFault, OnceInv, [Next]_vars PROVE OnceInv'
  BY TypeStep, FinalStep, LedgerStep, NothingHidden, NoFaultLeft DEF OnceInv

\* Without a fault that hides a delivery no row is handed to the SMTP server
\* twice, however retries, sweeps, restarts and reconciliations interleave.
THEOREM AtMostOnce ==
  ASSUME NoHidingFault PROVE Spec => []DeliveredAtMostOnce
<1>1. Init => OnceInv
  BY OnceInit
<1>2. OnceInv /\ [Next]_vars => OnceInv'
  BY OnceStep
<1>3. OnceInv => DeliveredAtMostOnce
  BY DEF OnceInv, LedgerInv, DeliveredAtMostOnce
<1> QED
  BY <1>1, <1>2, <1>3, PTL DEF Spec

\* Until a fault hides a delivery the ledger is right.
HiddenInv == Used(HidingKinds) \/ LedgerInv

LEMMA HiddenStep ==
  ASSUME TypeInv, TypeInv', FinalInv, HiddenInv, [Next]_vars PROVE HiddenInv'
<1>0. HidingKinds \in SUBSET FaultKinds
  BY DEF HidingKinds, FaultKinds
<1>1. CASE Used(HidingKinds)
  BY <1>0, <1>1, UsedStays DEF HiddenInv
<1>2. CASE \E k \in HidingKinds : Fault(k)
  BY <1>0, <1>2, FaultIsUsed DEF HiddenInv
<1>3. CASE ~Used(HidingKinds) /\ \A k \in HidingKinds : ~Fault(k)
  <2>1. LedgerInv /\ RunInv /\ HandlerInv
    BY <1>3 DEF HiddenInv, FinalInv, Used, HidingKinds
  <2> QED
    BY <1>3, <2>1, LedgerStep DEF HiddenInv
<1> QED
  BY <1>1, <1>2, <1>3

\* 'failed' is never written over a delivery the worker could know of: the
\* 'failed' handler's unguarded markFailed tells the truth until a fault hides one.
THEOREM FailedIsTrue == Spec => []FailedWasNotDelivered
<1>1. Init => TypeInv /\ FinalInv /\ HiddenInv
  BY TypeInit, FinalInit, LedgerInit DEF HiddenInv
<1>2. TypeInv /\ FinalInv /\ HiddenInv /\ [Next]_vars => (TypeInv /\ FinalInv /\ HiddenInv)'
  BY TypeStep, FinalStep, HiddenStep
<1>3. HiddenInv => FailedWasNotDelivered
  BY DEF HiddenInv, HidingKinds, LedgerInv, FailedWasNotDelivered
<1> QED
  BY <1>1, <1>2, <1>3, PTL DEF Spec

-----------------------------------------------------------------------------
(* The pipeline implements EmailDelivery under the same assumption *)

\* Steps that leave status and deliveries alone, or only move a row between
\* the unfinished statuses, are stutters of EmailDelivery.
LEMMA Stutter ==
  ASSUME TypeOK,
         delivered' = delivered,
         \A e \in Emails : status'[e] = status[e] \/ (Unfinished(e) /\ Unfinished(e)')
  PROVE  UNCHANGED <<DeliveryState, delivered>>
  BY DEF DeliveryState, Unfinished

LEMMA DeliveryStep ==
  ASSUME NoHidingFault, OnceInv, [Next]_vars
  PROVE  [Delivery!Next]_<<DeliveryState, delivered>>
<1> DEFINE Goal == [Delivery!Next]_<<DeliveryState, delivered>>
<1> USE NoneAssumption
<1>0. TypeOK /\ TypeInv /\ RunInv /\ HandlerInv /\ LedgerInv
  BY NothingHidden DEF OnceInv, TypeInv
<1>14. ~Fault("crash") /\ ~Fault("store") /\ ~Fault("smtp") /\ ~Fault("lock") /\ ~Fault("wipe")
  BY <1>0, NoFaultLeft DEF HidingKinds
<1>1. CASE status' = status /\ delivered' = delivered
  BY <1>0, <1>1, Stutter
<1>2. CASE CreateCampaign
  <2>1. PICK rows \in SUBSET {e \in Emails : status[e] = "absent"} :
          /\ status' = [e \in Emails |-> IF e \in rows THEN "scheduled" ELSE status[e]]
          /\ delivered' = delivered
    BY <1>2 DEF CreateCampaign
  <2>2. \A e \in rows : e \in Emails /\ DeliveryState[e] = "absent"
    BY <1>0 DEF DeliveryState
  <2>3. DeliveryState' = [e \in Emails |-> IF e \in rows THEN "pending" ELSE DeliveryState[e]]
    BY <2>1, <2>2 DEF DeliveryState
  <2>4. rows \in SUBSET Emails
    BY <2>1
  <2>5. Delivery!Submit
    BY <2>1, <2>2, <2>3, <2>4 DEF Delivery!Submit
  <2> QED
    BY <2>5 DEF Delivery!Next
<1>3. ASSUME NEW s \in Slots, ClaimForSending(s) PROVE Goal
  <2>1. cur[s] \in Emails /\ delivered' = delivered
    BY <1>3, <1>0 DEF ClaimForSending, TypeInv, TypeOK, SlotInv
  <2>2. \A e \in Emails : status'[e] = status[e] \/ (Unfinished(e) /\ Unfinished(e)')
    BY <1>3, <1>0, <2>1 DEF ClaimForSending, Claim, Pending, Unfinished, TypeOK, rowVars
  <2> QED
    BY <1>0, <2>1, <2>2, Stutter
<1>4. ASSUME NEW s \in Slots, MailAccepted(s) PROVE Goal
  <2>1. cur[s] \in Emails /\ cur[s] # None /\ pc[s] = "send"
    BY <1>4, <1>0 DEF MailAccepted, TypeInv, TypeOK, SlotInv
  <2>2. DeliveryState[cur[s]] = "pending" /\ delivered[cur[s]] = 0
    BY <1>0, <2>1 DEF RunInv, LedgerInv, Unfinished, DeliveryState
  <2>3. delivered' = [delivered EXCEPT ![cur[s]] = 1] /\ DeliveryState' = DeliveryState
    BY <1>4, <2>1, <2>2 DEF MailAccepted, DeliveryState, rowVars
  <2> QED
    BY <2>1, <2>2, <2>3 DEF Delivery!Next, Delivery!Progress, Delivery!Deliver
<1>5. ASSUME NEW s \in Slots, MarkSent(s) PROVE Goal
  <2>1. cur[s] \in Emails /\ cur[s] # None /\ pc[s] = "mark"
    BY <1>5, <1>0 DEF MarkSent, TypeInv, TypeOK, SlotInv
  <2>2. DeliveryState[cur[s]] = "pending" /\ delivered[cur[s]] = 1
    BY <1>0, <2>1 DEF RunInv, LedgerInv, Unfinished, DeliveryState
  <2>3. delivered' = delivered /\ DeliveryState' = [DeliveryState EXCEPT ![cur[s]] = "sent"]
    BY <1>5, <1>0, <2>1 DEF MarkSent, SetSent, DeliveryState, TypeOK
  <2> QED
    BY <2>1, <2>2, <2>3 DEF Delivery!Next, Delivery!Progress, Delivery!RecordSent
<1>6. ASSUME NEW s \in Slots, ResetForRetry(s) PROVE Goal
  <2>1. cur[s] \in Emails /\ delivered' = delivered
    BY <1>6, <1>0 DEF ResetForRetry, TypeInv, TypeOK, SlotInv
  <2>2. \A e \in Emails : status'[e] = status[e] \/ (Unfinished(e) /\ Unfinished(e)')
    BY <1>6, <1>0, <2>1 DEF ResetForRetry, Unfinished, TypeOK
  <2> QED
    BY <1>0, <2>1, <2>2, Stutter
<1>7. ASSUME NEW p \in Procs, NEW e \in Emails, MarkFailed(p, e) PROVE Goal
  <2>1. DeliveryState[e] = "pending" /\ delivered[e] = 0
    BY <1>7, <1>0 DEF MarkFailed, HandlerInv, LedgerInv, Unfinished, DeliveryState
  <2>2. delivered' = delivered /\ DeliveryState' = [DeliveryState EXCEPT ![e] = "failed"]
    BY <1>7, <1>0 DEF MarkFailed, DeliveryState, TypeOK
  <2> QED
    BY <2>1, <2>2 DEF Delivery!Next, Delivery!Progress, Delivery!GiveUp
<1>8. ASSUME NEW p \in Procs, ResetStalledSends(p) PROVE Goal
  <2>1. delivered' = delivered
    BY <1>8 DEF ResetStalledSends
  <2>2. \A e \in Emails : status'[e] = status[e] \/ (Unfinished(e) /\ Unfinished(e)')
    BY <1>8 DEF ResetStalledSends, Stalled, Unfinished
  <2> QED
    BY <1>0, <2>1, <2>2, Stutter
<1>9. ASSUME NEW s \in Slots, Slot(s) PROVE Goal
  <2>1. CASE \E e \in Emails : FetchJob(s, e)
    BY <1>1, <2>1 DEF FetchJob, rowVars
  <2>2. CASE Send(s)
    BY <2>2, <1>1, <1>3, <1>4, <1>5, <1>6
       DEF Send, ReadRow, PickSender, ReserveOk, ReserveThrottle, ReserveQuota, MailRejected,
           Advance, UpdateScheduledAt, MoveToDelayed, CompleteJob, FailJob, SettleFailure, rowVars
  <2> QED
    BY <1>9, <2>1, <2>2, <1>14
       DEF Slot, MailReplyLost, StoreError, ClaimReplyLost, MarkSentError
<1>10. ASSUME NEW p \in Procs, Worker(p) PROVE Goal
  <2>1. CASE \E e \in Emails : MarkFailed(p, e)
    BY <2>1, <1>7
  <2>2. CASE ReconcileOnBoot(p)
    BY <2>2, <1>1, <1>8 DEF ReconcileOnBoot, GetReconcilable, Reconcile, rowVars
  <2>3. CASE BootWorker(p) \/ Sigterm(p) \/ Exit(p)
    BY <2>3, <1>1 DEF BootWorker, Sigterm, Exit, EndProcess, rowVars
  <2> QED
    BY <1>10, <2>1, <2>2, <2>3, <1>14
       DEF Worker, ReconcileError, Crash, MarkFailedError
<1>11. CASE Environment
  BY <1>11, <1>1, <1>14
     DEF Environment, WipeRedis, LoseLock, RecoverStalledJob, EvictJob, Age, rowVars
<1>12. CASE EnqueueCampaign \/ LoseEnqueue \/ ProvisionSenders
  BY <1>12, <1>1 DEF EnqueueCampaign, LoseEnqueue, ProvisionSenders, rowVars
<1>13. CASE UNCHANGED vars
  BY <1>13, <1>1 DEF vars, rowVars
<1> QED
  BY <1>2, <1>9, <1>10, <1>11, <1>12, <1>13 DEF Next, Api

\* The whole pipeline, seen through its rows' final statuses, is a system that
\* submits a row, delivers it at most once and records the outcome truthfully.
THEOREM Implementation ==
  ASSUME NoHidingFault PROVE Spec => ImplementsDelivery
<1>1. Init => OnceInv
  BY OnceInit
<1>2. OnceInv /\ [Next]_vars => OnceInv'
  BY OnceStep
<1>3. Init => Delivery!Init
  BY DEF Init, Delivery!Init, DeliveryState
<1>4. OnceInv /\ [Next]_vars => [Delivery!Next]_<<DeliveryState, delivered>>
  BY DeliveryStep
<1> QED
  BY <1>1, <1>2, <1>3, <1>4, PTL DEF Spec, ImplementsDelivery, Delivery!Spec

-----------------------------------------------------------------------------
(* What the columns of a row say, whatever faults happen *)

\* A run at markSent has delivered its mail.
MarkInv == \A s \in Slots : pc[s] = "mark" => delivered[cur[s]] > 0

RowInv == SentWasDelivered /\ MarkInv /\ MessageIdOnlyWhenFinished /\ SendingHasRun

LEMMA RowInit == Init => RowInv
  BY DEF Init, RowInv, SentWasDelivered, MarkInv, MessageIdOnlyWhenFinished, SendingHasRun

LEMMA RowStep ==
  ASSUME TypeInv, TypeInv', RowInv, [Next]_vars PROVE RowInv'
<1> DEFINE K == {"crash", "store"}
<1>0. K \in SUBSET FaultKinds
  BY DEF FaultKinds
<1>1. Used(K) => Used(K)'
  BY <1>0, UsedStays
<1>2. \A k \in K : Fault(k) => Used(K)'
  BY <1>0, FaultIsUsed
<1> HIDE DEF K
<1>3. \A e \in Emails : status[e] = "sending" => (\E s \in Slots : Holds(s, e)) \/ Used(K)
  BY DEF RowInv, SendingHasRun, K
<1>4. SUFFICES /\ SentWasDelivered' /\ MarkInv' /\ MessageIdOnlyWhenFinished'
               /\ \A e \in Emails :
                    status'[e] = "sending" => (\E s \in Slots : Holds(s, e)') \/ Used(K)'
  BY DEF RowInv, SendingHasRun, K
<1> DEFINE Goal == /\ SentWasDelivered' /\ MarkInv' /\ MessageIdOnlyWhenFinished'
                   /\ \A e \in Emails :
                        status'[e] = "sending" => (\E s \in Slots : Holds(s, e)') \/ Used(K)'
<1> USE <1>1, <1>2, <1>3, NoneAssumption, SlotProc
    DEF TypeInv, TypeOK, SlotInv, JobInv, RowInv, SentWasDelivered, MarkInv, Holds,
        MessageIdOnlyWhenFinished, Finished, Statuses, Points, rowVars, jobVars, slotVars, procVars
<1>5. CASE UNCHANGED <<rowVars, slotVars, delivered>>
  BY <1>5
<1>6. CASE CreateCampaign
  BY <1>6 DEF CreateCampaign
<1>7. ASSUME NEW s \in Slots, NEW e \in Emails, FetchJob(s, e) PROVE Goal
  BY <1>7 DEF FetchJob, Goto
<1>8. ASSUME NEW s \in Slots, Send(s) PROVE Goal
  <2>0. cur[s] \in Emails
    BY <1>8 DEF Send, ReadRow, PickSender, ReserveOk, ReserveThrottle, ReserveQuota,
       UpdateScheduledAt, MoveToDelayed, ClaimForSending, MailAccepted, MailRejected,
       MarkSent, ResetForRetry, CompleteJob, FailJob, SettleFailure, Advance
  <2>1. CASE ReadRow(s) \/ PickSender(s)
    BY <2>1 DEF ReadRow, PickSender, Advance, Goto
  <2>2. CASE ReserveOk(s) \/ ReserveThrottle(s) \/ ReserveQuota(s)
    BY <2>2 DEF ReserveOk, ReserveThrottle, ReserveQuota, Advance, Goto
  <2>3. CASE UpdateScheduledAt(s)
    BY <2>3 DEF UpdateScheduledAt, Goto
  <2>4. CASE MoveToDelayed(s) \/ CompleteJob(s) \/ FailJob(s)
    BY <2>4 DEF MoveToDelayed, CompleteJob, FailJob, SettleFailure, Free, Goto
  <2>5. CASE ClaimForSending(s)
    BY <2>0, <2>5 DEF ClaimForSending, Claim, Goto, Pending
  <2>6. CASE MailAccepted(s)
    BY <2>0, <2>6 DEF MailAccepted, Goto
  <2>7. CASE MailRejected(s)
    BY <2>7 DEF MailRejected, Advance, Goto
  <2>8. CASE MarkSent(s)
    BY <2>0, <2>8 DEF MarkSent, SetSent, Goto
  <2>9. CASE ResetForRetry(s)
    BY <2>0, <2>9 DEF ResetForRetry, Goto
  <2> QED
    BY <1>8, <2>1, <2>2, <2>3, <2>4, <2>5, <2>6, <2>7, <2>8, <2>9 DEF Send
<1>9. ASSUME NEW s \in Slots, MailReplyLost(s) PROVE Goal
  BY <1>9 DEF MailReplyLost, Goto
<1>10. ASSUME NEW s \in Slots, StoreError(s) \/ ClaimReplyLost(s) \/ MarkSentError(s) PROVE Goal
  <2>1. Used(K)' /\ cur[s] \in Emails
    BY <1>10 DEF StoreError, ClaimReplyLost, MarkSentError, K
  <2>2. CASE StoreError(s)
    BY <2>1, <2>2 DEF StoreError, Goto
  <2>3. CASE ClaimReplyLost(s)
    BY <2>1, <2>3 DEF ClaimReplyLost, Claim, Goto, Pending
  <2>4. CASE MarkSentError(s)
    BY <2>1, <2>4 DEF MarkSentError, SetSent, Goto
  <2> QED
    BY <1>10, <2>2, <2>3, <2>4
<1>11. ASSUME NEW s \in Slots, Slot(s) PROVE Goal
  BY <1>11, <1>7, <1>8, <1>9, <1>10 DEF Slot
<1>12. ASSUME NEW p \in Procs, NEW e \in Emails, MarkFailed(p, e) PROVE Goal
  BY <1>12 DEF MarkFailed
<1>13. ASSUME NEW p \in Procs, ResetStalledSends(p) PROVE Goal
  BY <1>13 DEF ResetStalledSends, Stalled
<1>14. ASSUME NEW p \in Procs, Exit(p) PROVE Goal
  BY <1>14 DEF Exit, EndProcess, SlotsOf
<1>15. ASSUME NEW p \in Procs, Crash(p) PROVE Goal
  <2>1. Used(K)'
    BY <1>15 DEF Crash, K
  <2> QED
    BY <1>15, <2>1 DEF Crash, EndProcess, SlotsOf
<1>16. ASSUME NEW p \in Procs, Worker(p) PROVE Goal
  BY <1>16, <1>5, <1>12, <1>13, <1>14, <1>15
     DEF Worker, BootWorker, ReconcileOnBoot, GetReconcilable, Reconcile, ReconcileError,
         Sigterm, MarkFailedError
<1>17. CASE Environment
  <2>1. ASSUME NEW e \in Emails, Age(e) PROVE Goal
    BY <2>1 DEF Age
  <2> QED
    BY <1>17, <1>5, <2>1 DEF Environment, WipeRedis, RecoverStalledJob, LoseLock, EvictJob
<1>18. CASE EnqueueCampaign \/ LoseEnqueue \/ ProvisionSenders \/ UNCHANGED vars
  BY <1>18, <1>5 DEF EnqueueCampaign, LoseEnqueue, ProvisionSenders, vars
<1> QED
  BY <1>6, <1>11, <1>16, <1>17, <1>18 DEF Next, Api

\* 'sent' tells the truth, and a row with a message id is finished.
THEOREM SentIsTrue == Spec => [](SentWasDelivered /\ MessageIdOnlyWhenFinished)
<1>1. Init => TypeInv /\ RowInv
  BY TypeInit, RowInit
<1>2. TypeInv /\ RowInv /\ [Next]_vars => (TypeInv /\ RowInv)'
  BY TypeStep, RowStep
<1>3. RowInv => SentWasDelivered /\ MessageIdOnlyWhenFinished
  BY DEF RowInv
<1> QED
  BY <1>1, <1>2, <1>3, PTL DEF Spec

\* A row in 'sending' has a live run that holds its claim, unless a worker was
\* killed or a store call threw: nothing else needs the boot sweep.
THEOREM SendingIsHeld == Spec => []SendingHasRun
<1>1. Init => TypeInv /\ RowInv
  BY TypeInit, RowInit
<1>2. TypeInv /\ RowInv /\ [Next]_vars => (TypeInv /\ RowInv)'
  BY TypeStep, RowStep
<1>3. RowInv => SendingHasRun
  BY DEF RowInv
<1> QED
  BY <1>1, <1>2, <1>3, PTL DEF Spec

-----------------------------------------------------------------------------
(* Postgres and Redis do not drift apart *)

\* Jobs, and the lists of rows to enqueue, are of committed rows.
CommittedInv ==
  /\ \A e \in Emails : job[e] # "none" => status[e] # "absent"
  /\ \A e \in apiTodo : status[e] # "absent"
  /\ \A p \in Procs : \A e \in bootTodo[p] : status[e] # "absent"

LEMMA CommittedInit == Init => CommittedInv
  BY DEF Init, CommittedInv

LEMMA CommittedStep ==
  ASSUME TypeInv, CommittedInv, [Next]_vars PROVE CommittedInv'
<1> USE NoneAssumption, SlotProc
    DEF TypeInv, TypeOK, SlotInv, JobInv, CommittedInv, Statuses, JobStates,
        rowVars, jobVars, slotVars, procVars
<1>1. CASE UNCHANGED <<status, job, apiTodo, bootTodo>>
  BY <1>1
<1>2. CASE Api
  BY <1>2 DEF Api, CreateCampaign, EnqueueCampaign, LoseEnqueue, ProvisionSenders, AddBulk, Chunks
<1>3. ASSUME NEW s \in Slots, NEW e \in Emails, FetchJob(s, e) PROVE CommittedInv'
  BY <1>3 DEF FetchJob
<1>4. ASSUME NEW s \in Slots, MoveToDelayed(s) \/ CompleteJob(s) \/ FailJob(s) PROVE CommittedInv'
  BY <1>4 DEF MoveToDelayed, CompleteJob, FailJob, SettleFailure
<1>5. ASSUME NEW s \in Slots, ClaimForSending(s) \/ ClaimReplyLost(s) PROVE CommittedInv'
  BY <1>5 DEF ClaimForSending, ClaimReplyLost, Claim
<1>6. ASSUME NEW s \in Slots, MarkSent(s) \/ MarkSentError(s) \/ ResetForRetry(s)
      PROVE CommittedInv'
  BY <1>6 DEF MarkSent, MarkSentError, SetSent, ResetForRetry
<1>7. ASSUME NEW s \in Slots, Slot(s) PROVE CommittedInv'
  BY <1>7, <1>1, <1>3, <1>4, <1>5, <1>6
     DEF Slot, Send, ReadRow, PickSender, ReserveOk, ReserveThrottle, ReserveQuota, Advance,
         UpdateScheduledAt, MailAccepted, MailRejected, MailReplyLost, StoreError
<1>8. ASSUME NEW p \in Procs, ReconcileOnBoot(p) PROVE CommittedInv'
  BY <1>8 DEF ReconcileOnBoot, ResetStalledSends, GetReconcilable, Reconcile, AddBulk, Chunks, Pending
<1>9. ASSUME NEW p \in Procs, NEW e \in Emails, MarkFailed(p, e) PROVE CommittedInv'
  BY <1>9 DEF MarkFailed
<1>10. ASSUME NEW p \in Procs, EndProcess(p) \/ ReconcileError(p) PROVE CommittedInv'
  BY <1>10 DEF EndProcess, ReconcileError
<1>11. ASSUME NEW p \in Procs, Worker(p) PROVE CommittedInv'
  BY <1>11, <1>1, <1>8, <1>9, <1>10 DEF Worker, BootWorker, Sigterm, Exit, Crash, MarkFailedError
<1>12. CASE Environment
  BY <1>12 DEF Environment, WipeRedis, RecoverStalledJob, LoseLock, EvictJob, Age
<1>13. CASE UNCHANGED vars
  BY <1>13, <1>1 DEF vars
<1> QED
  BY <1>2, <1>7, <1>11, <1>12, <1>13 DEF Next

\* The faults that part a row from its job.
PartingKinds == {"api", "restart", "crash", "store", "lock", "wipe"}

\* No worker is being stopped, a run that returns leaves a finished row, and an
\* unfinished row has a job to come, somebody to enqueue it or to close it.
LinkInv ==
  /\ \A p \in Procs : proc[p] # "draining"
  /\ \A s \in Slots : pc[s] = "return" => Finished(cur[s])
  /\ \A e \in Emails :
       Unfinished(e) =>
         /\ job[e] = "none" => e \in apiTodo
         /\ job[e] # "completed"
         /\ job[e] = "failed" => \E p \in Procs : e \in finalizing[p]

LEMMA LinkStep ==
  ASSUME \A k \in PartingKinds : ~Fault(k), TypeInv, TypeInv', RunInv, HandlerInv, CommittedInv,
         \A e \in Emails : status[e] = "sending" => \E s \in Slots : Holds(s, e),
         LinkInv, [Next]_vars
  PROVE  LinkInv'
<1>20. /\ ~Fault("api") /\ ~Fault("restart") /\ ~Fault("crash")
       /\ ~Fault("store") /\ ~Fault("lock") /\ ~Fault("wipe")
  BY DEF PartingKinds
<1> USE NoneAssumption, SlotProc
    DEF TypeInv, TypeOK, SlotInv, JobInv, RunInv, HandlerInv, LinkInv, Unfinished, Finished,
        Statuses, JobStates, Points, rowVars, jobVars, slotVars, procVars
<1>1. CASE UNCHANGED <<status, job, proc, pc, cur, apiTodo, finalizing>>
  BY <1>1
<1>2. CASE CreateCampaign
  BY <1>2 DEF CreateCampaign, CommittedInv
<1>3. CASE EnqueueCampaign
  BY <1>3 DEF EnqueueCampaign, AddBulk, Chunks
<1>4. ASSUME NEW s \in Slots, NEW e \in Emails, FetchJob(s, e) PROVE LinkInv'
  BY <1>4 DEF FetchJob, Goto
<1>5. ASSUME NEW s \in Slots, Send(s) PROVE LinkInv'
  <2>0. /\ cur[s] \in Emails /\ owner[cur[s]] = s
        /\ pc[s] \in {"read", "claim"} /\ ~Pending(cur[s]) => Finished(cur[s])
    <3>1. cur[s] \in Emails /\ owner[cur[s]] = s
      BY <1>5 DEF Send, ReadRow, PickSender, ReserveOk, ReserveThrottle, ReserveQuota,
         UpdateScheduledAt, MoveToDelayed, ClaimForSending, MailAccepted, MailRejected,
         MarkSent, ResetForRetry, CompleteJob, FailJob, SettleFailure, Advance
    <3>2. job[cur[s]] = "active" /\ status[cur[s]] # "absent"
      BY <3>1 DEF CommittedInv
    <3>3. ASSUME pc[s] \in {"read", "claim"}, status[cur[s]] = "sending" PROVE FALSE
      <4>1. PICK t \in Slots : Holds(t, cur[s])
        BY <3>1, <3>3
      <4>2. t = s
        BY <3>1, <4>1 DEF Holds
      <4> QED
        BY <3>3, <4>1, <4>2 DEF Holds
    <3> QED
      BY <3>1, <3>2, <3>3 DEF Pending
  <2>1. CASE ReadRow(s)
    BY <2>0, <2>1 DEF ReadRow, Advance, Goto
  <2>2. CASE PickSender(s)
    BY <2>2 DEF PickSender, Advance, Goto
  <2>3. CASE ReserveOk(s) \/ ReserveThrottle(s) \/ ReserveQuota(s) \/ MailRejected(s)
    BY <2>3 DEF ReserveOk, ReserveThrottle, ReserveQuota, MailRejected, Advance, Goto
  <2>4. CASE UpdateScheduledAt(s) \/ MailAccepted(s)
    BY <2>4 DEF UpdateScheduledAt, MailAccepted, Goto
  <2>5. CASE MoveToDelayed(s)
    BY <2>0, <2>5 DEF MoveToDelayed, Free, Goto
  <2>6. CASE ClaimForSending(s)
    BY <2>0, <2>6 DEF ClaimForSending, Claim, Pending, Goto
  <2>7. CASE MarkSent(s)
    BY <2>0, <2>7 DEF MarkSent, SetSent, Goto
  <2>8. CASE ResetForRetry(s)
    BY <2>0, <2>8 DEF ResetForRetry, Goto
  <2>9. CASE CompleteJob(s)
    BY <2>0, <2>9 DEF CompleteJob, Free, Goto
  <2>10. CASE FailJob(s)
    <3> DEFINE e == cur[s]
    <3>1. e \in Emails /\ s[1] \in Procs
      BY <2>0
    <3>2. /\ job' = [job EXCEPT ![e] = IF LastAttempt(e) THEN "failed" ELSE "waiting"]
          /\ finalizing' = [finalizing EXCEPT ![s[1]] =
                              IF LastAttempt(e) THEN @ \cup {e} ELSE @]
          /\ pc' = [pc EXCEPT ![s] = "idle"] /\ cur' = [cur EXCEPT ![s] = None]
          /\ status' = status /\ proc' = proc /\ apiTodo' = apiTodo
      BY <2>0, <2>10 DEF FailJob, SettleFailure, Free, Goto
    <3> HIDE DEF e
    <3>3. CASE LastAttempt(e)
      BY <3>1, <3>2, <3>3
    <3>4. CASE ~LastAttempt(e)
      BY <3>1, <3>2, <3>4
    <3> QED
      BY <3>3, <3>4
  <2> QED
    BY <1>5, <2>1, <2>2, <2>3, <2>4, <2>5, <2>6, <2>7, <2>8, <2>9, <2>10 DEF Send
<1>6. ASSUME NEW s \in Slots, MailReplyLost(s) PROVE LinkInv'
  BY <1>6 DEF MailReplyLost, Goto
<1>7. ASSUME NEW s \in Slots, Slot(s) PROVE LinkInv'
  BY <1>7, <1>20, <1>4, <1>5, <1>6 DEF Slot, StoreError, ClaimReplyLost, MarkSentError
<1>8. ASSUME NEW p \in Procs, NEW e \in Emails, MarkFailed(p, e) PROVE LinkInv'
  BY <1>8 DEF MarkFailed
<1>9. ASSUME NEW p \in Procs, ResetStalledSends(p) PROVE LinkInv'
  BY <1>9 DEF ResetStalledSends, Stalled
<1>10. ASSUME NEW p \in Procs, Reconcile(p) PROVE LinkInv'
  BY <1>10 DEF Reconcile, AddBulk, Chunks
<1>11. ASSUME NEW p \in Procs, BootWorker(p) PROVE LinkInv'
  BY <1>11 DEF BootWorker
<1>12. ASSUME NEW p \in Procs, Worker(p) PROVE LinkInv'
  BY <1>12, <1>20, <1>1, <1>8, <1>9, <1>10, <1>11
     DEF Worker, ReconcileOnBoot, GetReconcilable, ReconcileError, Sigterm, Exit, Crash,
         MarkFailedError
<1>13. ASSUME NEW e \in Emails, RecoverStalledJob(e) \/ EvictJob(e) \/ Age(e) PROVE LinkInv'
  BY <1>13 DEF RecoverStalledJob, EvictJob, Age
<1>14. CASE Environment
  BY <1>14, <1>20, <1>13 DEF Environment, WipeRedis, LoseLock
<1>15. CASE ProvisionSenders \/ UNCHANGED vars
  BY <1>15, <1>1 DEF ProvisionSenders, vars
<1> QED
  BY <1>20, <1>2, <1>3, <1>7, <1>12, <1>14, <1>15 DEF Next, Api, LoseEnqueue

\* Until such a fault every unfinished row has somebody who will finish it.
DriftInv == Used(PartingKinds) \/ LinkInv

LEMMA DriftStep ==
  ASSUME TypeInv, TypeInv', FinalInv, CommittedInv, SendingHasRun, DriftInv, [Next]_vars
  PROVE  DriftInv'
<1>0. PartingKinds \in SUBSET FaultKinds
  BY DEF PartingKinds, FaultKinds
<1>1. CASE Used(PartingKinds)
  BY <1>0, <1>1, UsedStays DEF DriftInv
<1>2. CASE \E k \in PartingKinds : Fault(k)
  BY <1>0, <1>2, FaultIsUsed DEF DriftInv
<1>3. CASE ~Used(PartingKinds) /\ \A k \in PartingKinds : ~Fault(k)
  <2>1. LinkInv /\ RunInv /\ HandlerInv
    BY <1>3 DEF DriftInv, FinalInv, Used, PartingKinds
  <2>2. \A e \in Emails : status[e] = "sending" => \E s \in Slots : Holds(s, e)
    BY <1>3 DEF SendingHasRun, Used, PartingKinds
  <2> QED
    BY <1>3, <2>1, <2>2, LinkStep DEF DriftInv
<1> QED
  BY <1>1, <1>2, <1>3

\* A pending row is never left without a job that will run, a caller about to
\* enqueue it or a handler about to close it, however retries, re-parks, sweeps
\* and evictions interleave: only a fault parts a row from its job.
THEOREM NothingStranded == Spec => []NoStrandedRow
<1> DEFINE Inv == TypeInv /\ FinalInv /\ RowInv /\ CommittedInv /\ DriftInv
<1>1. Init => Inv
  <2>1. Init => DriftInv
    BY DEF Init, DriftInv, LinkInv, Unfinished
  <2> QED
    BY <2>1, TypeInit, FinalInit, RowInit, CommittedInit
<1>2. Inv /\ [Next]_vars => Inv'
  BY TypeStep, FinalStep, RowStep, CommittedStep, DriftStep DEF RowInv
<1>3. Inv => NoStrandedRow
  BY DEF TypeInv, TypeOK, JobStates, DriftInv, PartingKinds, LinkInv, Unfinished, NoStrandedRow, Pending
<1> HIDE DEF Inv
<1> QED
  BY <1>1, <1>2, <1>3, PTL DEF Spec

-----------------------------------------------------------------------------
(* What the bounds on deliveries and claims count *)

LEMMA SmallerSet ==
  ASSUME NEW S, NEW T \in SUBSET S, IsFiniteSet(S)
  PROVE  /\ IsFiniteSet(T) /\ Cardinality(T) \in Nat /\ Cardinality(S) \in Nat
         /\ Cardinality(T) <= Cardinality(S)
  BY FS_Subset, FS_CardinalityType

LEMMA DroppedElement ==
  ASSUME NEW S, NEW x \in S, NEW T \in SUBSET (S \ {x}), IsFiniteSet(S)
  PROVE  /\ IsFiniteSet(T) /\ Cardinality(T) \in Nat /\ Cardinality(S) \in Nat
         /\ Cardinality(T) + 1 <= Cardinality(S)
<1>1. IsFiniteSet(S \ {x}) /\ Cardinality(S \ {x}) = Cardinality(S) - 1 /\ Cardinality(S) \in Nat
  BY FS_RemoveElement, FS_CardinalityType
<1>2. IsFiniteSet(T) /\ Cardinality(T) \in Nat /\ Cardinality(T) <= Cardinality(S \ {x})
  BY <1>1, SmallerSet
<1> QED
  BY <1>1, <1>2

LEMMA AddedElement ==
  ASSUME NEW S, NEW x, NEW T \in SUBSET (S \cup {x}), IsFiniteSet(S)
  PROVE  /\ IsFiniteSet(T) /\ Cardinality(T) \in Nat /\ Cardinality(S) \in Nat
         /\ Cardinality(T) <= Cardinality(S) + 1
<1>1. /\ IsFiniteSet(S \cup {x}) /\ Cardinality(S) \in Nat
      /\ Cardinality(S \cup {x}) \in {Cardinality(S), Cardinality(S) + 1}
  BY FS_AddElement, FS_CardinalityType
<1>2. IsFiniteSet(T) /\ Cardinality(T) \in Nat /\ Cardinality(T) <= Cardinality(S \cup {x})
  BY <1>1, SmallerSet
<1> QED
  BY <1>1, <1>2

\* The points of send() from which a run may still claim its row, or still hand
\* the mail over.
ClaimPoints == {"read", "senders", "reserve", "claim"}
SendPoints  == ClaimPoints \cup {"quota", "park", "send"}

\* Runs for e without the lock of its job, at points P.
Strays(e, P) == {s \in Slots : cur[s] = e /\ owner[e] # s /\ pc[s] \in P}

\* A run strays only when its lock is lost.
LEMMA StraysStep ==
  ASSUME NEW e \in Emails, NEW P \in {ClaimPoints, SendPoints}, TypeInv, [Next]_vars
  PROVE  \/ Strays(e, P)' \subseteq Strays(e, P)
         \/ /\ LoseLock(e) \/ WipeRedis
            /\ owner[e] \in Slots /\ pc[owner[e]] \in P
            /\ Strays(e, P)' \subseteq Strays(e, P) \cup {owner[e]}
<1> DEFINE Goal == Strays(e, P)' \subseteq Strays(e, P)
<1> USE NoneAssumption, SlotProc
    DEF TypeInv, TypeOK, SlotInv, JobInv, ClaimPoints, SendPoints, Strays,
        jobVars, slotVars, procVars
<1>1. CASE UNCHANGED <<owner, pc, cur>>
  BY <1>1
<1>2. ASSUME NEW s \in Slots, NEW f \in Emails, FetchJob(s, f) PROVE Goal
  BY <1>2 DEF FetchJob, Goto
<1>3. ASSUME NEW s \in Slots, NEW from \in Points, NEW to \in Points,
             pc[s] = from, Goto(s, to), from \in P \/ to \notin P, UNCHANGED <<owner, cur>>
      PROVE  Goal
  BY <1>3 DEF Goto
<1>4. ASSUME NEW s \in Slots, MoveToDelayed(s) \/ CompleteJob(s) \/ FailJob(s) PROVE Goal
  BY <1>4 DEF MoveToDelayed, CompleteJob, FailJob, SettleFailure, Free, Goto
<1>5. ASSUME NEW s \in Slots, Slot(s) PROVE Goal
  <2>1. CASE ReadRow(s) \/ PickSender(s)
    BY <2>1, <1>3 DEF ReadRow, PickSender, Advance, Points
  <2>2. CASE ReserveOk(s) \/ ReserveThrottle(s) \/ ReserveQuota(s)
    BY <2>2, <1>3 DEF ReserveOk, ReserveThrottle, ReserveQuota, Advance, Points
  <2>3. CASE UpdateScheduledAt(s) \/ ClaimForSending(s) \/ ClaimReplyLost(s)
    BY <2>3, <1>3 DEF UpdateScheduledAt, ClaimForSending, ClaimReplyLost, Points
  <2>4. CASE MailAccepted(s) \/ MailRejected(s) \/ MailReplyLost(s)
    BY <2>4, <1>3 DEF MailAccepted, MailRejected, Advance, MailReplyLost, Points
  <2>5. CASE MarkSent(s) \/ MarkSentError(s) \/ ResetForRetry(s)
    BY <2>5, <1>3 DEF MarkSent, MarkSentError, ResetForRetry, Points
  <2>6. CASE StoreError(s)
    BY <2>6, <1>3 DEF StoreError, Points
  <2> QED
    BY <1>5, <1>2, <1>4, <2>1, <2>2, <2>3, <2>4, <2>5, <2>6 DEF Slot, Send
<1>6. ASSUME NEW p \in Procs, EndProcess(p) PROVE Goal
  BY <1>6 DEF EndProcess, SlotsOf
<1>7. ASSUME NEW p \in Procs, Worker(p) PROVE Goal
  BY <1>7, <1>1, <1>6
     DEF Worker, BootWorker, ReconcileOnBoot, ResetStalledSends, GetReconcilable, Reconcile,
         AddBulk, ReconcileError, Sigterm, Exit, Crash, MarkFailed, MarkFailedError
<1>8. ASSUME NEW f \in Emails, LoseLock(f)
      PROVE  Goal \/ ( /\ LoseLock(e) /\ owner[e] \in Slots /\ pc[owner[e]] \in P
                       /\ Strays(e, P)' \subseteq Strays(e, P) \cup {owner[e]} )
  <2>1. owner[f] # None /\ owner' = [owner EXCEPT ![f] = None] /\ pc' = pc /\ cur' = cur
    BY <1>8 DEF LoseLock
  <2>2. CASE f # e
    BY <2>1, <2>2
  <2>3. CASE f = e /\ pc[owner[e]] \notin P
    BY <2>1, <2>3
  <2>4. CASE f = e /\ pc[owner[e]] \in P
    <3>1. owner[e] \in Slots
      BY <2>1, <2>4
    <3>2. Strays(e, P)' \subseteq Strays(e, P) \cup {owner[e]}
      BY <2>1, <2>4
    <3> QED
      BY <1>8, <2>4, <3>1, <3>2
  <2> QED
    BY <2>2, <2>3, <2>4
<1>9. CASE WipeRedis
  BY <1>9 DEF WipeRedis
<1>10. CASE Environment
  BY <1>10, <1>1, <1>8, <1>9 DEF Environment, RecoverStalledJob, EvictJob, Age
<1>11. CASE Api
  BY <1>11, <1>1 DEF Api, CreateCampaign, EnqueueCampaign, LoseEnqueue, ProvisionSenders, AddBulk
<1>12. CASE UNCHANGED vars
  BY <1>12, <1>1 DEF vars
<1> QED
  BY <1>5, <1>7, <1>10, <1>11, <1>12 DEF Next

LEMMA CountType == ASSUME TypeInv, NEW k \in FaultKinds PROVE Count(k) \in Nat
  BY BudgetAssumption DEF TypeInv, TypeOK, Count

LEMMA CountStep ==
  ASSUME TypeInv, TypeInv', [Next]_vars, NEW k \in FaultKinds
  PROVE  /\ Count(k) <= Count(k)'
         /\ Fault(k) => Count(k)' = Count(k) + 1
<1>1. left[k] \in Nat /\ left'[k] \in Nat /\ Budget[k] \in Nat /\ left'[k] <= left[k]
  BY BudgetAssumption, FaultsOnlySpent DEF TypeInv, TypeOK
<1>2. Fault(k) => left'[k] = left[k] - 1
  BY DEF Fault, TypeInv, TypeOK
<1> QED
  BY <1>1, <1>2 DEF Count

-----------------------------------------------------------------------------
(* Every delivery beyond the first is paid for *)

Charge == Count("crash") + Count("store") + Count("smtp") + Count("lock") + Count("wipe")

LEMMA ChargeStep ==
  ASSUME TypeInv, TypeInv', [Next]_vars
  PROVE  /\ Charge \in Nat /\ Charge' \in Nat /\ Charge <= Charge'
         /\ (\E k \in HidingKinds : Fault(k)) => Charge + 1 <= Charge'
<1>1. \A k \in HidingKinds :
        /\ Count(k) \in Nat /\ Count(k)' \in Nat /\ Count(k) <= Count(k)'
        /\ Fault(k) => Count(k)' = Count(k) + 1
  <2> TAKE k \in HidingKinds
  <2>1. k \in FaultKinds
    BY DEF HidingKinds, FaultKinds
  <2>2. Count(k) \in Nat
    BY <2>1, CountType
  <2>3. (Count(k) \in Nat)'
    BY <2>1, BudgetAssumption DEF TypeInv, TypeOK, Count
  <2> QED
    BY <2>1, <2>2, <2>3, CountStep
<1> HIDE DEF Count, Fault
<1> QED
  BY <1>1 DEF HidingKinds, Charge

\* Whether a run with the lock, present or future, may hand e to the SMTP
\* server: not after the mail was taken and until that is recorded or lost, and
\* not once the row is finished, unless the run is already past its claim.
MayDeliver(e) ==
  /\ ~(owner[e] # None /\ pc[owner[e]] = "mark")
  /\ Finished(e) => owner[e] # None /\ pc[owner[e]] = "send"

LEMMA QuietStep ==
  ASSUME TypeInv, [Next]_vars, NEW e \in Emails, MayDeliver(e)', ~MayDeliver(e)
  PROVE  \E k \in HidingKinds : Fault(k)
<1> SUFFICES ASSUME ~Fault("crash"), ~Fault("store"), ~Fault("smtp"), ~Fault("lock"), ~Fault("wipe")
             PROVE FALSE
  BY DEF HidingKinds
<1> USE NoneAssumption, SlotProc
    DEF TypeInv, TypeOK, SlotInv, JobInv, MayDeliver, Finished, rowVars, jobVars, slotVars, procVars
<1>1. CASE UNCHANGED <<status, owner, pc>>
  BY <1>1
<1>2. CASE CreateCampaign
  BY <1>2 DEF CreateCampaign
<1>3. ASSUME NEW s \in Slots, NEW f \in Emails, FetchJob(s, f) PROVE FALSE
  BY <1>3 DEF FetchJob, Goto
<1>4. ASSUME NEW s \in Slots, Send(s) PROVE FALSE
  <2>0. cur[s] \in Emails
    BY <1>4 DEF Send, ReadRow, PickSender, ReserveOk, ReserveThrottle, ReserveQuota,
       UpdateScheduledAt, MoveToDelayed, ClaimForSending, MailAccepted, MailRejected,
       MarkSent, ResetForRetry, CompleteJob, FailJob, SettleFailure, Advance
  <2>1. CASE ReadRow(s) \/ PickSender(s)
    BY <2>1 DEF ReadRow, PickSender, Advance, Goto
  <2>2. CASE ReserveOk(s) \/ ReserveThrottle(s) \/ ReserveQuota(s) \/ MailRejected(s)
    BY <2>2 DEF ReserveOk, ReserveThrottle, ReserveQuota, MailRejected, Advance, Goto
  <2>3. CASE UpdateScheduledAt(s) \/ MailAccepted(s)
    BY <2>3 DEF UpdateScheduledAt, MailAccepted, Goto
  <2>4. CASE MoveToDelayed(s) \/ CompleteJob(s) \/ FailJob(s)
    BY <2>0, <2>4 DEF MoveToDelayed, CompleteJob, FailJob, SettleFailure, Free, Goto
  <2>5. CASE ClaimForSending(s)
    BY <2>0, <2>5 DEF ClaimForSending, Claim, Goto, Pending
  <2>6. CASE MarkSent(s)
    BY <2>0, <2>6 DEF MarkSent, SetSent, Goto
  <2>7. CASE ResetForRetry(s)
    BY <2>0, <2>7 DEF ResetForRetry, Goto
  <2> QED
    BY <1>4, <2>1, <2>2, <2>3, <2>4, <2>5, <2>6, <2>7 DEF Send
<1>5. ASSUME NEW s \in Slots, Slot(s) PROVE FALSE
  BY <1>5, <1>3, <1>4 DEF Slot, MailReplyLost, StoreError, ClaimReplyLost, MarkSentError
<1>6. ASSUME NEW p \in Procs, NEW f \in Emails, MarkFailed(p, f) PROVE FALSE
  BY <1>6 DEF MarkFailed
<1>7. ASSUME NEW p \in Procs, ResetStalledSends(p) PROVE FALSE
  BY <1>7 DEF ResetStalledSends, Stalled
<1>8. ASSUME NEW p \in Procs, Exit(p) PROVE FALSE
  <2>1. owner[e] \notin SlotsOf(p)
    BY <1>8 DEF Exit, SlotsOf
  <2> QED
    BY <1>8, <2>1 DEF Exit, EndProcess, SlotsOf
<1>9. ASSUME NEW p \in Procs, Worker(p) PROVE FALSE
  BY <1>9, <1>1, <1>6, <1>7, <1>8
     DEF Worker, BootWorker, ReconcileOnBoot, GetReconcilable, Reconcile, AddBulk, ReconcileError,
         Sigterm, Crash, MarkFailedError
<1>10. CASE Environment
  BY <1>10, <1>1 DEF Environment, WipeRedis, RecoverStalledJob, LoseLock, EvictJob, Age
<1>11. CASE EnqueueCampaign \/ LoseEnqueue \/ ProvisionSenders \/ UNCHANGED vars
  BY <1>11, <1>1 DEF EnqueueCampaign, AddBulk, LoseEnqueue, ProvisionSenders, vars
<1> QED
  BY <1>2, <1>5, <1>9, <1>10, <1>11 DEF Next, Api

\* Only the two outcomes of sendMail change the count of deliveries.
LEMMA DeliveredBy ==
  ASSUME [Next]_vars
  PROVE  delivered' = delivered \/ \E s \in Slots : MailAccepted(s) \/ MailReplyLost(s)
<1>1. ASSUME NEW s \in Slots, Slot(s), ~MailAccepted(s), ~MailReplyLost(s)
      PROVE  delivered' = delivered
  BY <1>1
     DEF Slot, FetchJob, Send, ReadRow, PickSender, ReserveOk, ReserveThrottle, ReserveQuota,
         Advance, UpdateScheduledAt, MoveToDelayed, ClaimForSending, MailRejected, MarkSent,
         ResetForRetry, CompleteJob, FailJob, SettleFailure, StoreError, ClaimReplyLost,
         MarkSentError
<1>2. ASSUME NEW p \in Procs, Worker(p) PROVE delivered' = delivered
  BY <1>2
     DEF Worker, BootWorker, ReconcileOnBoot, ResetStalledSends, GetReconcilable, Reconcile,
         ReconcileError, Sigterm, Exit, Crash, EndProcess, MarkFailed, MarkFailedError
<1>3. Environment => delivered' = delivered
  BY DEF Environment, WipeRedis, RecoverStalledJob, LoseLock, EvictJob, Age
<1>4. Api => delivered' = delivered
  BY DEF Api, CreateCampaign, EnqueueCampaign, LoseEnqueue, ProvisionSenders
<1> QED
  BY <1>1, <1>2, <1>3, <1>4 DEF Next, vars

\* Deliveries made, deliveries to come by runs without a lock, and one to come
\* by the run with the lock: no more than one and the faults so far.
DeliveryInv ==
  \A e \in Emails :
    /\ IsFiniteSet(Strays(e, SendPoints))
    /\ delivered[e] + Cardinality(Strays(e, SendPoints)) + (IF MayDeliver(e) THEN 1 ELSE 0)
         <= 1 + Charge

LEMMA DeliveryInit == Init => DeliveryInv
<1> SUFFICES ASSUME Init, NEW e \in Emails
             PROVE  /\ IsFiniteSet(Strays(e, SendPoints))
                    /\ delivered[e] + Cardinality(Strays(e, SendPoints))
                         + (IF MayDeliver(e) THEN 1 ELSE 0) <= 1 + Charge
  BY DEF DeliveryInv
<1>1. Strays(e, SendPoints) = {}
  BY NoneAssumption DEF Init, Strays
<1>2. delivered[e] = 0 /\ Cardinality({}) = 0 /\ IsFiniteSet({})
  BY FS_EmptySet DEF Init
<1>3. \A k \in FaultKinds : Count(k) = 0
  BY BudgetAssumption DEF Init, Count
<1>4. Charge = 0
  BY <1>3 DEF Charge, FaultKinds
<1> HIDE DEF MayDeliver
<1> QED
  BY <1>1, <1>2, <1>4

LEMMA DeliveryInvStep ==
  ASSUME TypeInv, TypeInv', DeliveryInv, [Next]_vars PROVE DeliveryInv'
<1> SUFFICES ASSUME NEW e \in Emails
             PROVE  /\ IsFiniteSet(Strays(e, SendPoints)')
                    /\ delivered'[e] + Cardinality(Strays(e, SendPoints)')
                         + (IF MayDeliver(e)' THEN 1 ELSE 0) <= 1 + Charge'
  BY DEF DeliveryInv
<1> DEFINE S == Strays(e, SendPoints)
           T == Strays(e, SendPoints)'
           m == IF MayDeliver(e) THEN 1 ELSE 0
           n == IF MayDeliver(e)' THEN 1 ELSE 0
           d == delivered[e]
           Paid == \E k \in HidingKinds : Fault(k)
<1>1. IsFiniteSet(S) /\ d + Cardinality(S) + m <= 1 + Charge
  BY DEF DeliveryInv
<1>2. Cardinality(S) \in Nat /\ d \in Nat /\ m \in {0, 1} /\ n \in {0, 1}
  BY <1>1, FS_CardinalityType DEF TypeInv, TypeOK
<1>3. Charge \in Nat /\ Charge' \in Nat /\ Charge <= Charge' /\ (Paid => Charge + 1 <= Charge')
  BY ChargeStep
<1>4. n <= m \/ Paid
  BY QuietStep
<1>5. \/ T \subseteq S
      \/ /\ Paid
         /\ owner[e] \in Slots /\ pc[owner[e]] \in SendPoints /\ T \subseteq S \cup {owner[e]}
         /\ LoseLock(e) \/ WipeRedis
  BY StraysStep DEF LoseLock, WipeRedis, HidingKinds
<1> DEFINE Goal == IsFiniteSet(T) /\ delivered'[e] + Cardinality(T) + n <= 1 + Charge'
<1>6. ASSUME delivered'[e] = d, T \subseteq S PROVE Goal
  <2>1. IsFiniteSet(T) /\ Cardinality(T) \in Nat /\ Cardinality(T) <= Cardinality(S)
    BY <1>1, <1>6, SmallerSet
  <2> HIDE DEF S, T, m, n, d, Paid
  <2> QED
    BY <1>1, <1>2, <1>3, <1>4, <1>6, <2>1
<1>7. ASSUME delivered'[e] = d, Paid, owner[e] \in Slots, pc[owner[e]] \in SendPoints,
             T \subseteq S \cup {owner[e]}, LoseLock(e) \/ WipeRedis
      PROVE  Goal
  <2>1. IsFiniteSet(T) /\ Cardinality(T) \in Nat /\ Cardinality(T) <= Cardinality(S) + 1
    BY <1>1, <1>7, AddedElement
  <2>2. owner' [e] = None /\ status' = status
    BY <1>7 DEF LoseLock, WipeRedis, TypeInv, TypeOK, rowVars
  <2>3. MayDeliver(e)' => MayDeliver(e)
    BY <1>7, <2>2 DEF MayDeliver, Finished, SendPoints, ClaimPoints
  <2>4. n <= m
    BY <2>3
  <2> HIDE DEF S, T, m, n, d, Paid
  <2> QED
    BY <1>1, <1>2, <1>3, <1>7, <2>1, <2>4
<1>8. ASSUME NEW s \in Slots, MailAccepted(s), cur[s] = e, delivered'[e] # d PROVE Goal
  <2>1. delivered'[e] = d + 1 /\ pc[s] = "send" /\ pc' = [pc EXCEPT ![s] = "mark"]
        /\ owner' = owner /\ cur' = cur /\ status' = status
    BY <1>8 DEF MailAccepted, Goto, TypeInv, TypeOK, rowVars, jobVars
  <2>2. CASE owner[e] = s
    <3>1. T \subseteq S
      BY <2>1 DEF Strays, SendPoints, ClaimPoints, TypeInv, TypeOK
    <3>2. IsFiniteSet(T) /\ Cardinality(T) \in Nat /\ Cardinality(T) <= Cardinality(S)
      BY <1>1, <3>1, SmallerSet
    <3>3. owner[e] # None /\ pc[owner[e]] = "send" /\ owner'[e] = s /\ pc'[s] = "mark"
      BY <2>1, <2>2, NoneAssumption DEF TypeInv, TypeOK
    <3>4. MayDeliver(e) /\ ~MayDeliver(e)'
      BY <2>2, <3>3 DEF MayDeliver
    <3>5. m = 1 /\ n = 0
      BY <3>4
    <3> HIDE DEF S, T, m, n, d, Paid
    <3> QED
      BY <1>1, <1>2, <1>3, <2>1, <3>2, <3>5
  <2>3. CASE owner[e] # s
    <3>1. s \in S /\ T \subseteq S \ {s}
      BY <1>8, <2>1, <2>3 DEF Strays, SendPoints, ClaimPoints, TypeInv, TypeOK
    <3>2. IsFiniteSet(T) /\ Cardinality(T) \in Nat /\ Cardinality(T) + 1 <= Cardinality(S)
      BY <1>1, <3>1, DroppedElement
    <3>3. /\ owner'[e] = owner[e] /\ status'[e] = status[e]
          /\ owner[e] # None => pc'[owner[e]] = pc[owner[e]]
      BY <2>1, <2>3 DEF TypeInv, TypeOK
    <3>4. MayDeliver(e)' => MayDeliver(e)
      BY <3>3 DEF MayDeliver, Finished
    <3>5. n <= m
      BY <3>4
    <3> HIDE DEF S, T, m, n, d, Paid
    <3> QED
      BY <1>1, <1>2, <1>3, <2>1, <3>2, <3>5
  <2> QED
    BY <2>2, <2>3
<1>9. ASSUME NEW s \in Slots, MailReplyLost(s), cur[s] = e, delivered'[e] # d PROVE Goal
  <2>1. delivered'[e] = d + 1 /\ pc[s] = "send" /\ pc' = [pc EXCEPT ![s] = "reset"]
        /\ owner' = owner /\ cur' = cur /\ status' = status
    BY <1>9 DEF MailReplyLost, Goto, TypeInv, TypeOK, rowVars, jobVars
  <2>2. T \subseteq S
    BY <2>1 DEF Strays, SendPoints, ClaimPoints, TypeInv, TypeOK
  <2>3. IsFiniteSet(T) /\ Cardinality(T) \in Nat /\ Cardinality(T) <= Cardinality(S)
    BY <1>1, <2>2, SmallerSet
  <2>4. MayDeliver(e)' => MayDeliver(e)
    BY <2>1, NoneAssumption DEF MayDeliver, Finished, TypeInv, TypeOK
  <2>5. n <= m /\ Paid
    BY <1>9, <2>4 DEF MailReplyLost, HidingKinds
  <2> HIDE DEF S, T, m, n, d, Paid
  <2> QED
    BY <1>1, <1>2, <1>3, <2>1, <2>3, <2>5
<1>10. CASE delivered'[e] # d
  <2>1. PICK s \in Slots : MailAccepted(s) \/ MailReplyLost(s)
    BY <1>10, DeliveredBy
  <2>2. cur[s] = e
    BY <1>10, <2>1 DEF MailAccepted, MailReplyLost, TypeInv, TypeOK
  <2> QED
    BY <1>8, <1>9, <1>10, <2>1, <2>2
<1> QED
  BY <1>5, <1>6, <1>7, <1>10

\* Retries, sweeps of slow sends, reconciliations, lost enqueues, evictions and
\* SIGTERM never cause a delivery: every one beyond the first has a kill, a
\* call that failed after its effect, a lost lock or a lost Redis of its own.
THEOREM DuplicatesPaid == Spec => []DuplicatesCharged
<1>1. Init => TypeInv /\ DeliveryInv
  BY TypeInit, DeliveryInit
<1>2. TypeInv /\ DeliveryInv /\ [Next]_vars => (TypeInv /\ DeliveryInv)'
  BY TypeStep, DeliveryInvStep
<1>3. TypeInv /\ DeliveryInv => DuplicatesCharged
  <2> SUFFICES ASSUME TypeInv, DeliveryInv, NEW e \in Emails
               PROVE  delivered[e] <= 1 + Charge
    BY CountType DEF DuplicatesCharged, Charge, FaultKinds
  <2>1. IsFiniteSet(Strays(e, SendPoints)) /\ delivered[e] \in Nat
    BY DEF DeliveryInv, TypeInv, TypeOK
  <2>2. Cardinality(Strays(e, SendPoints)) \in Nat
    BY <2>1, FS_CardinalityType
  <2>3. Charge \in Nat
    BY CountType DEF Charge, FaultKinds
  <2> HIDE DEF MayDeliver
  <2> QED
    BY <2>1, <2>2, <2>3 DEF DeliveryInv
<1> QED
  BY <1>1, <1>2, <1>3, PTL DEF Spec

-----------------------------------------------------------------------------
(* Claims are bounded *)

Lives   == 1 + Count("wipe") + Count("evict")
Allowance == MaxAttempts * Lives + Count("crash") + Count("lock")

LEMMA Product ==
  ASSUME NEW m \in Nat, NEW x \in Nat, NEW y \in Nat, x <= y
  PROVE  /\ m * x \in Nat /\ m * y \in Nat
         /\ m * x <= m * y
         /\ m * (x + 1) = m * x + m
<1>1. PICK z \in Nat : y = x + z
  <2>1. y - x \in Nat /\ y = x + (y - x)
    OBVIOUS
  <2> QED
    BY <2>1
<1>2. m * y = m * x + m * z /\ m * z \in Nat /\ m * x \in Nat
  BY <1>1
<1>3. m * (x + 1) = m * x + m
  OBVIOUS
<1> QED
  BY <1>2, <1>3

LEMMA AllowanceStep ==
  ASSUME TypeInv, TypeInv', [Next]_vars
  PROVE  /\ Allowance \in Nat /\ Allowance' \in Nat
         /\ Allowance <= Allowance'
         /\ Fault("crash") \/ Fault("lock") => Allowance + 1 <= Allowance'
         /\ Fault("wipe") \/ Fault("evict") => Allowance + MaxAttempts <= Allowance'
<1>1. \A k \in {"wipe", "evict", "crash", "lock"} :
        /\ Count(k) \in Nat /\ Count(k)' \in Nat /\ Count(k) <= Count(k)'
        /\ Fault(k) => Count(k)' = Count(k) + 1
  <2> TAKE k \in {"wipe", "evict", "crash", "lock"}
  <2>1. k \in FaultKinds
    BY DEF FaultKinds
  <2>2. Count(k) \in Nat
    BY <2>1, CountType
  <2>3. (Count(k) \in Nat)'
    BY <2>1, BudgetAssumption DEF TypeInv, TypeOK, Count
  <2> QED
    BY <2>1, <2>2, <2>3, CountStep
<1>2. MaxAttempts \in Nat
  BY NumbersAssumption
<1> HIDE DEF Count, Fault
<1>3. /\ Lives \in Nat /\ Lives' \in Nat /\ Lives <= Lives'
      /\ Fault("wipe") \/ Fault("evict") => Lives + 1 <= Lives'
  BY <1>1 DEF Lives
<1>4. /\ MaxAttempts * Lives \in Nat /\ MaxAttempts * Lives' \in Nat
      /\ MaxAttempts * Lives <= MaxAttempts * Lives'
  BY <1>2, <1>3, Product
<1>5. Fault("wipe") \/ Fault("evict") => MaxAttempts * Lives + MaxAttempts <= MaxAttempts * Lives'
  <2> SUFFICES ASSUME Lives + 1 <= Lives'
               PROVE  MaxAttempts * Lives + MaxAttempts <= MaxAttempts * Lives'
    BY <1>3
  <2>1. Lives + 1 \in Nat
    BY <1>3
  <2>2. MaxAttempts * (Lives + 1) <= MaxAttempts * Lives'
    BY <1>2, <1>3, <2>1, Product
  <2>3. MaxAttempts * (Lives + 1) = MaxAttempts * Lives + MaxAttempts
    BY <1>2, <1>3, Product
  <2> QED
    BY <2>2, <2>3
<1>6. Allowance' = MaxAttempts * Lives' + Count("crash")' + Count("lock")'
  BY DEF Allowance
<1> DEFINE a == MaxAttempts * Lives
           b == MaxAttempts * Lives'
<1>7. a \in Nat /\ b \in Nat /\ a <= b /\ (Fault("wipe") \/ Fault("evict") => a + MaxAttempts <= b)
  BY <1>4, <1>5
<1>8. Allowance = a + Count("crash") + Count("lock") /\ Allowance' = b + Count("crash")' + Count("lock")'
  BY <1>6 DEF Allowance
<1> HIDE DEF a, b
<1> QED
  BY <1>1, <1>2, <1>7, <1>8

\* The claims the job of e still allows: one for each attempt left, unless the
\* run with the lock is past its claim.
Room(e) ==
  IF job[e] \in {"none", "waiting", "active"}
    THEN IF owner[e] # None /\ pc[owner[e]] \in {"send", "mark", "reset", "return", "throw"}
           THEN MaxAttempts - made[e] - 1
           ELSE MaxAttempts - made[e]
    ELSE 0

LEMMA RoomType == ASSUME TypeInv, NEW e \in Emails PROVE Room(e) \in 0 .. MaxAttempts
  BY NumbersAssumption DEF TypeInv, TypeOK, JobInv, JobStates, Room

LEMMA RoomStep ==
  ASSUME TypeInv, TypeInv', [Next]_vars, NEW e \in Emails,
         ~LoseLock(e), ~WipeRedis, ~EvictJob(e), \A p \in Procs : ~Crash(p)
  PROVE  Room(e)' <= Room(e)
<1> USE NoneAssumption, NumbersAssumption, SlotProc
    DEF TypeInv, TypeOK, SlotInv, JobInv, JobStates, rowVars, jobVars, slotVars, procVars
<1>0. Room(e) \in Nat
  BY RoomType
<1>1. CASE UNCHANGED <<job, made, owner, pc>>
  BY <1>0, <1>1 DEF Room
<1>2. ASSUME \/ EnqueueCampaign
             \/ \E p \in Procs : Reconcile(p)
      PROVE  Room(e)' <= Room(e)
  BY <1>0, <1>2 DEF EnqueueCampaign, Reconcile, AddBulk, Room
<1>3. ASSUME NEW s \in Slots, NEW f \in Emails, FetchJob(s, f) PROVE Room(e)' <= Room(e)
  BY <1>0, <1>3 DEF FetchJob, Goto, Room
<1>4. ASSUME NEW s \in Slots, NEW to, Goto(s, to), UNCHANGED jobVars,
             pc[s] \in {"send", "mark", "reset", "return", "throw"}
               => to \in {"send", "mark", "reset", "return", "throw"}
      PROVE  Room(e)' <= Room(e)
  BY <1>0, <1>4 DEF Goto, Room
<1>5. ASSUME NEW s \in Slots, MoveToDelayed(s) PROVE Room(e)' <= Room(e)
  BY <1>0, <1>5 DEF MoveToDelayed, Free, Goto, Room
<1>6. ASSUME NEW s \in Slots, CompleteJob(s) PROVE Room(e)' <= Room(e)
  BY <1>0, <1>6 DEF CompleteJob, Free, Goto, Room
<1>7. ASSUME NEW s \in Slots, FailJob(s) PROVE Room(e)' <= Room(e)
  <2>1. cur[s] \in Emails /\ pc[s] = "throw" /\ pc' = [pc EXCEPT ![s] = "idle"]
    BY <1>7 DEF FailJob, SettleFailure, Free, Goto
  <2>2. CASE owner[cur[s]] # s
    <3>1. job' = job /\ made' = made /\ owner' = owner
      BY <1>7, <2>2 DEF FailJob, SettleFailure
    <3> QED
      BY <1>0, <2>1, <2>2, <3>1 DEF Room
  <2>3. CASE owner[cur[s]] = s
    <3>1. /\ job' = [job EXCEPT ![cur[s]] = IF LastAttempt(cur[s]) THEN "failed" ELSE "waiting"]
          /\ made' = [made EXCEPT ![cur[s]] = made[cur[s]] + 1]
          /\ owner' = [owner EXCEPT ![cur[s]] = None]
      BY <1>7, <2>1, <2>3 DEF FailJob, SettleFailure
    <3>2. CASE cur[s] = e
      BY <1>0, <2>1, <2>3, <3>1, <3>2 DEF Room
    <3>3. CASE cur[s] # e
      BY <1>0, <2>1, <3>1, <3>3 DEF Room
    <3> QED
      BY <3>2, <3>3
  <2> QED
    BY <2>2, <2>3
<1>8. ASSUME NEW s \in Slots, Slot(s) PROVE Room(e)' <= Room(e)
  <2>1. CASE ReadRow(s) \/ PickSender(s)
    BY <2>1, <1>4 DEF ReadRow, PickSender, Advance
  <2>2. CASE ReserveOk(s) \/ ReserveThrottle(s) \/ ReserveQuota(s) \/ MailRejected(s)
    BY <2>2, <1>4 DEF ReserveOk, ReserveThrottle, ReserveQuota, MailRejected, Advance
  <2>3. CASE UpdateScheduledAt(s) \/ ClaimForSending(s) \/ ClaimReplyLost(s) \/ StoreError(s)
    BY <2>3, <1>4 DEF UpdateScheduledAt, ClaimForSending, ClaimReplyLost, StoreError
  <2>4. CASE MailAccepted(s) \/ MailReplyLost(s)
    BY <2>4, <1>4 DEF MailAccepted, MailReplyLost
  <2>5. CASE MarkSent(s) \/ MarkSentError(s) \/ ResetForRetry(s)
    BY <2>5, <1>4 DEF MarkSent, MarkSentError, ResetForRetry
  <2> QED
    BY <1>8, <1>3, <1>5, <1>6, <1>7, <2>1, <2>2, <2>3, <2>4, <2>5 DEF Slot, Send
<1>9. ASSUME NEW p \in Procs, Exit(p) PROVE Room(e)' <= Room(e)
  <2>1. owner[e] \notin SlotsOf(p)
    BY <1>9 DEF Exit, SlotsOf
  <2>2. /\ job' = job /\ made' = made /\ owner'[e] = owner[e]
        /\ owner[e] # None => pc'[owner[e]] = pc[owner[e]]
    BY <1>9, <2>1 DEF Exit, EndProcess, SlotsOf
  <2> QED
    BY <1>0, <2>2 DEF Room
<1>10. ASSUME NEW p \in Procs, Worker(p) PROVE Room(e)' <= Room(e)
  BY <1>10, <1>1, <1>2, <1>9
     DEF Worker, BootWorker, ReconcileOnBoot, ResetStalledSends, GetReconcilable, ReconcileError,
         Sigterm, MarkFailed, MarkFailedError
<1>11. ASSUME NEW f \in Emails, RecoverStalledJob(f) PROVE Room(e)' <= Room(e)
  BY <1>0, <1>11 DEF RecoverStalledJob, Room
<1>12. CASE Environment
  <2>1. ASSUME NEW f \in Emails, f # e, LoseLock(f) \/ EvictJob(f) PROVE Room(e)' <= Room(e)
    BY <1>0, <2>1 DEF LoseLock, EvictJob, Room
  <2> QED
    BY <1>12, <1>1, <1>11, <2>1 DEF Environment, Age
<1>13. CASE CreateCampaign \/ LoseEnqueue \/ ProvisionSenders \/ UNCHANGED vars
  BY <1>13, <1>1 DEF CreateCampaign, LoseEnqueue, ProvisionSenders, vars
<1> QED
  BY <1>2, <1>8, <1>10, <1>12, <1>13 DEF Next, Api

\* Only a won claim changes the attempts column.
LEMMA ClaimedBy ==
  ASSUME [Next]_vars
  PROVE  \/ attempts' = attempts
         \/ \E s \in Slots : (ClaimForSending(s) \/ ClaimReplyLost(s)) /\ Claim(cur[s])
<1>1. ASSUME NEW s \in Slots, Slot(s)
      PROVE  attempts' = attempts \/ ((ClaimForSending(s) \/ ClaimReplyLost(s)) /\ Claim(cur[s]))
  BY <1>1
     DEF Slot, FetchJob, Send, ReadRow, PickSender, ReserveOk, ReserveThrottle, ReserveQuota,
         Advance, UpdateScheduledAt, MoveToDelayed, ClaimForSending, MailAccepted, MailRejected,
         MarkSent, SetSent, ResetForRetry, CompleteJob, FailJob, SettleFailure, StoreError,
         ClaimReplyLost, MarkSentError, MailReplyLost, rowVars
<1>2. ASSUME NEW p \in Procs, Worker(p) PROVE attempts' = attempts
  BY <1>2
     DEF Worker, BootWorker, ReconcileOnBoot, ResetStalledSends, GetReconcilable, Reconcile,
         ReconcileError, Sigterm, Exit, Crash, EndProcess, MarkFailed, MarkFailedError, rowVars
<1>3. Environment => attempts' = attempts
  BY DEF Environment, WipeRedis, RecoverStalledJob, LoseLock, EvictJob, Age, rowVars
<1>4. Api => attempts' = attempts
  BY DEF Api, CreateCampaign, EnqueueCampaign, LoseEnqueue, ProvisionSenders, rowVars
<1> QED
  BY <1>1, <1>2, <1>3, <1>4 DEF Next, vars, rowVars

\* Claims made, claims to come by runs without a lock, and those the job still
\* allows stay within the budgets of the job's lives.
ClaimInv ==
  \A e \in Emails :
    /\ IsFiniteSet(Strays(e, ClaimPoints))
    /\ attempts[e] + Cardinality(Strays(e, ClaimPoints)) + Room(e) <= Allowance

LEMMA ClaimInit == Init => ClaimInv
<1> SUFFICES ASSUME Init, NEW e \in Emails
             PROVE  /\ IsFiniteSet(Strays(e, ClaimPoints))
                    /\ attempts[e] + Cardinality(Strays(e, ClaimPoints)) + Room(e) <= Allowance
  BY DEF ClaimInv
<1>1. Strays(e, ClaimPoints) = {}
  BY NoneAssumption DEF Init, Strays
<1>2. attempts[e] = 0 /\ Cardinality({}) = 0 /\ IsFiniteSet({})
  BY FS_EmptySet DEF Init
<1>3. \A k \in FaultKinds : Count(k) = 0
  BY BudgetAssumption DEF Init, Count
<1>4. Lives = 1 /\ Count("crash") = 0 /\ Count("lock") = 0
  BY <1>3 DEF Lives, FaultKinds
<1>5. Allowance = MaxAttempts
  BY <1>4, NumbersAssumption DEF Allowance
<1>6. Room(e) = MaxAttempts
  BY NumbersAssumption DEF Init, Room
<1> QED
  BY <1>1, <1>2, <1>5, <1>6, NumbersAssumption

LEMMA ClaimStep ==
  ASSUME TypeInv, TypeInv', ClaimInv, [Next]_vars PROVE ClaimInv'
<1> SUFFICES ASSUME NEW e \in Emails
             PROVE  /\ IsFiniteSet(Strays(e, ClaimPoints)')
                    /\ attempts'[e] + Cardinality(Strays(e, ClaimPoints)') + Room(e)' <= Allowance'
  BY DEF ClaimInv
<1> DEFINE S == Strays(e, ClaimPoints)
           T == Strays(e, ClaimPoints)'
           m == Room(e)
           n == Room(e)'
           a == attempts[e]
           b == Allowance
           c == Allowance'
           Goal == IsFiniteSet(T) /\ attempts'[e] + Cardinality(T) + n <= c
<1>1. IsFiniteSet(S) /\ a + Cardinality(S) + m <= b
  BY DEF ClaimInv
<1>2. /\ Cardinality(S) \in Nat /\ a \in Nat /\ MaxAttempts \in Nat
      /\ m \in Nat /\ m <= MaxAttempts
      /\ n \in Nat /\ n <= MaxAttempts
  <2>1. m \in 0 .. MaxAttempts
    BY RoomType
  <2>2. n \in 0 .. MaxAttempts
    BY NumbersAssumption DEF TypeInv, TypeOK, JobInv, JobStates, Room
  <2> QED
    BY <1>1, <2>1, <2>2, FS_CardinalityType, NumbersAssumption DEF TypeInv, TypeOK
<1>3. b \in Nat /\ c \in Nat /\ b <= c
  BY AllowanceStep
<1>4. \/ T \subseteq S
      \/ /\ LoseLock(e) \/ WipeRedis
         /\ owner[e] \in Slots /\ pc[owner[e]] \in ClaimPoints /\ T \subseteq S \cup {owner[e]}
  BY StraysStep
<1>5. ASSUME attempts'[e] = a, T \subseteq S, n + b <= m + c PROVE Goal
  <2>1. IsFiniteSet(T) /\ Cardinality(T) \in Nat /\ Cardinality(T) <= Cardinality(S)
    BY <1>1, <1>5, SmallerSet
  <2> HIDE DEF S, T, m, n, a, b, c
  <2> QED
    BY <1>1, <1>2, <1>3, <1>5, <2>1
<1>6. ASSUME attempts'[e] = a, T \subseteq S \cup {owner[e]}, n + 1 + b <= m + c
      PROVE  Goal
  <2>1. IsFiniteSet(T) /\ Cardinality(T) \in Nat /\ Cardinality(T) <= Cardinality(S) + 1
    BY <1>1, <1>6, AddedElement
  <2> HIDE DEF S, T, m, n, a, b, c
  <2> QED
    BY <1>1, <1>2, <1>3, <1>6, <2>1
<1>7. CASE LoseLock(e)
  <2>1. /\ Fault("lock") /\ attempts' = attempts /\ owner[e] # None /\ owner'[e] = None
        /\ job' = job /\ made' = made /\ pc' = pc
    BY <1>7 DEF LoseLock, TypeInv, TypeOK, rowVars, slotVars
  <2>2. b + 1 <= c
    BY <2>1, AllowanceStep
  <2>3. n <= m + 1
    BY <2>1, <1>2 DEF Room, TypeInv, TypeOK
  <2>4. pc[owner[e]] \in ClaimPoints => n <= m
    BY <2>1, <1>2 DEF Room, ClaimPoints
  <2>5. CASE T \subseteq S
    <3>1. n + b <= m + c
      <4> HIDE DEF m, n, b, c
      <4> QED
        BY <1>2, <1>3, <2>2, <2>3
    <3> QED
      BY <1>5, <2>1, <2>5, <3>1
  <2>6. CASE pc[owner[e]] \in ClaimPoints /\ T \subseteq S \cup {owner[e]}
    <3>1. n + 1 + b <= m + c
      <4> HIDE DEF m, n, b, c
      <4> QED
        BY <1>2, <1>3, <2>2, <2>4, <2>6
    <3> QED
      BY <1>6, <2>1, <2>6, <3>1
  <2> QED
    BY <1>4, <2>5, <2>6
<1>8. CASE WipeRedis
  <2>1. Fault("wipe") /\ attempts' = attempts
    BY <1>8 DEF WipeRedis, rowVars
  <2>2. b + MaxAttempts <= c
    BY <2>1, AllowanceStep
  <2>3. CASE T \subseteq S
    <3>1. n + b <= m + c
      <4> HIDE DEF m, n, b, c
      <4> QED
        BY <1>2, <1>3, <2>2
    <3> QED
      BY <1>5, <2>1, <2>3, <3>1
  <2>4. CASE owner[e] \in Slots /\ pc[owner[e]] \in ClaimPoints /\ T \subseteq S \cup {owner[e]}
    <3>1. 1 <= m
      BY <2>4, NoneAssumption, NumbersAssumption
         DEF TypeInv, TypeOK, JobInv, Room, ClaimPoints
    <3>2. n + 1 + b <= m + c
      <4> HIDE DEF m, n, b, c
      <4> QED
        BY <1>2, <1>3, <2>2, <3>1
    <3> QED
      BY <1>6, <2>1, <2>4, <3>2
  <2> QED
    BY <1>4, <2>3, <2>4
<1>9. ASSUME NEW s \in Slots, ClaimForSending(s) \/ ClaimReplyLost(s), Claim(cur[s]), cur[s] = e
      PROVE  Goal
  <2>1. /\ attempts'[e] = a + 1 /\ pc[s] = "claim"
        /\ \E to \in {"send", "throw"} : pc' = [pc EXCEPT ![s] = to]
        /\ owner' = owner /\ cur' = cur /\ job' = job /\ made' = made
    <3>1. attempts'[e] = a + 1
      BY <1>9 DEF Claim, TypeInv, TypeOK
    <3>2. status[e] \in {"scheduled", "queued"}
      BY <1>9 DEF Claim, Pending
    <3> QED
      BY <1>9, <3>1, <3>2 DEF ClaimForSending, ClaimReplyLost, Goto, Pending, jobVars
  <2>2. CASE owner[e] = s
    <3>1. T \subseteq S
      BY <2>1 DEF Strays, ClaimPoints, TypeInv, TypeOK
    <3>2. IsFiniteSet(T) /\ Cardinality(T) \in Nat /\ Cardinality(T) <= Cardinality(S)
      BY <1>1, <3>1, SmallerSet
    <3>3. /\ owner[e] # None /\ owner'[e] # None /\ job[e] = "active" /\ job'[e] = "active"
          /\ pc[owner[e]] = "claim" /\ pc'[owner'[e]] \in {"send", "throw"} /\ made'[e] = made[e]
      BY <2>1, <2>2, NoneAssumption DEF TypeInv, TypeOK, JobInv
    <3>4. n = m - 1
      BY <3>3 DEF Room
    <3> HIDE DEF S, T, m, n, a, b, c
    <3> QED
      BY <1>1, <1>2, <1>3, <2>1, <3>2, <3>4 DEF Goal
  <2>3. CASE owner[e] # s
    <3>1. s \in S /\ T \subseteq S \ {s}
      BY <1>9, <2>1, <2>3 DEF Strays, ClaimPoints, TypeInv, TypeOK
    <3>2. IsFiniteSet(T) /\ Cardinality(T) \in Nat /\ Cardinality(T) + 1 <= Cardinality(S)
      BY <1>1, <3>1, DroppedElement
    <3>3. owner[e] # None => pc'[owner[e]] = pc[owner[e]]
      BY <2>1, <2>3 DEF TypeInv, TypeOK
    <3>4. n = m
      BY <2>1, <3>3 DEF Room
    <3> HIDE DEF S, T, m, n, a, b, c
    <3> QED
      BY <1>1, <1>2, <1>3, <2>1, <3>2, <3>4 DEF Goal
  <2> QED
    BY <2>2, <2>3
<1>10. ASSUME ~LoseLock(e), ~WipeRedis, attempts'[e] = a PROVE Goal
  <2>1. T \subseteq S
    BY <1>4, <1>10
  <2>2. n + b <= m + c
    <3>1. CASE ~EvictJob(e) /\ \A p \in Procs : ~Crash(p)
      <4>1. n <= m
        BY <1>10, <3>1, RoomStep
      <4> HIDE DEF m, n, b, c
      <4> QED
        BY <1>2, <1>3, <4>1
    <3>2. CASE EvictJob(e)
      <4>1. b + MaxAttempts <= c
        BY <3>2, AllowanceStep DEF EvictJob
      <4> HIDE DEF m, n, b, c
      <4> QED
        BY <1>2, <1>3, <4>1
    <3>3. CASE \E p \in Procs : Crash(p)
      <4>1. b + 1 <= c /\ job' = job /\ made' = made
        BY <3>3, AllowanceStep DEF Crash, EndProcess
      <4>2. PICK p \in Procs : EndProcess(p)
        BY <3>3 DEF Crash
      <4>3. owner'[e] = None \/ (owner'[e] = owner[e] /\ pc'[owner[e]] = pc[owner[e]])
        BY <4>2 DEF EndProcess, SlotsOf, TypeInv, TypeOK
      <4>4. n <= m + 1
        BY <1>2, <4>1, <4>3 DEF Room, TypeInv, TypeOK
      <4> HIDE DEF m, n, b, c
      <4> QED
        BY <1>2, <1>3, <4>1, <4>4
    <3> QED
      BY <3>1, <3>2, <3>3
  <2> QED
    BY <1>5, <1>10, <2>1, <2>2
<1>11. CASE attempts'[e] # a
  <2>1. PICK s \in Slots : (ClaimForSending(s) \/ ClaimReplyLost(s)) /\ Claim(cur[s])
    BY <1>11, ClaimedBy
  <2>2. cur[s] = e
    BY <1>11, <2>1 DEF Claim, TypeInv, TypeOK
  <2> QED
    BY <1>9, <2>1, <2>2
<1> QED
  BY <1>7, <1>8, <1>10, <1>11 DEF Goal

\* However often a row is reset, swept, re-parked, retried or reconciled, it is
\* claimed at most MaxAttempts times per life of its job, and once more for each
\* kill or lost lock.
THEOREM ClaimsAreBounded == Spec => []ClaimsBounded
<1>1. Init => TypeInv /\ ClaimInv
  BY TypeInit, ClaimInit
<1>2. TypeInv /\ ClaimInv /\ [Next]_vars => (TypeInv /\ ClaimInv)'
  BY TypeStep, ClaimStep
<1>3. TypeInv /\ ClaimInv => ClaimsBounded
  <2> SUFFICES ASSUME TypeInv, ClaimInv, NEW e \in Emails
               PROVE  attempts[e] <= Allowance
    BY DEF ClaimsBounded, Allowance, Lives
  <2>1. /\ IsFiniteSet(Strays(e, ClaimPoints)) /\ attempts[e] \in Nat
        /\ attempts[e] + Cardinality(Strays(e, ClaimPoints)) + Room(e) <= Allowance
    BY DEF ClaimInv, TypeInv, TypeOK
  <2>2. Cardinality(Strays(e, ClaimPoints)) \in Nat /\ Room(e) \in 0 .. MaxAttempts
    BY <2>1, FS_CardinalityType, RoomType
  <2>3. Allowance \in Nat
    <3>1. \A k \in {"wipe", "evict", "crash", "lock"} : Count(k) \in Nat
      BY CountType DEF FaultKinds
    <3>2. Lives \in Nat
      BY <3>1 DEF Lives
    <3>3. MaxAttempts * Lives \in Nat
      BY <3>2, NumbersAssumption, Product
    <3> QED
      BY <3>1, <3>3 DEF Allowance
  <2> HIDE DEF Room, Allowance
  <2> QED
    BY <2>1, <2>2, <2>3, NumbersAssumption
<1> QED
  BY <1>1, <1>2, <1>3, PTL DEF Spec

===============================================================================
