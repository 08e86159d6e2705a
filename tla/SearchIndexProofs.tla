--------------------------- MODULE SearchIndexProofs ---------------------------
(* Proofs about SearchIndex, for every value of its constants. *)
EXTENDS SearchIndex, FiniteSetTheorems, TLAPS

-----------------------------------------------------------------------------
(* Type correctness *)

\* A slot holds a job exactly while it runs one, and no fault comes back.
SlotInv ==
  /\ \A s \in Slots : IF pc[s] = "idle" THEN job[s] = NoJob ELSE job[s].email \in Emails
  /\ \A k \in FaultKinds : left[k] <= Budget[k]

IInv == TypeOK /\ SlotInv

\* The tries of a job, and those it is put back with after a throw or a stall.
LEMMA TriesFacts ==
  /\ <<0, 0>> \in Tries
  /\ \A k \in Tries : /\ k[1] \in Nat /\ k[2] \in Nat
                      /\ k[1] < Attempts /\ k[2] <= MaxStalled
BY IndexAssumption DEF Tries

LEMMA Thrown ==
  ASSUME NEW k \in Tries, NEW again, again = [k EXCEPT ![1] = @ + 1]
  PROVE  /\ again[1] = k[1] + 1
         /\ again \notin Tries => k[1] + 1 >= Attempts
BY IndexAssumption DEF Tries

LEMMA Stalled ==
  ASSUME NEW k \in Tries, NEW again, again = [k EXCEPT ![2] = @ + 1]
  PROVE  /\ again[1] = k[1]
         /\ again \notin Tries => k[2] = MaxStalled
BY IndexAssumption DEF Tries

\* The slots of a process that run a given job are finitely many.
LEMMA HeldFinite ==
  ASSUME NEW p \in Procs, NEW S \in SUBSET {s \in Slots : s[1] = p}
  PROVE  IsFiniteSet(S)
<1>1. IsFiniteSet(1 .. Concurrency)
  BY FS_Interval, IndexAssumption
<1>2. IsFiniteSet({p})
  BY FS_Singleton
<1>3. IsFiniteSet({p} \X (1 .. Concurrency))
  BY <1>1, <1>2, FS_Product
<1>4. S \subseteq {p} \X (1 .. Concurrency)
  BY DEF Slots
<1> QED
  BY <1>3, <1>4, FS_Subset

LEMMA StallingFinite ==
  ASSUME NEW p \in Procs, NEW e, NEW k
  PROVE  /\ Cardinality(Stalling(p, e, k)) \in Nat
         /\ Cardinality(Stalling(p, e, k)) = 0 <=> Stalling(p, e, k) = {}
<1>1. Stalling(p, e, k) \in SUBSET {s \in Slots : s[1] = p}
  BY DEF Stalling
<1>2. IsFiniteSet(Stalling(p, e, k))
  BY <1>1, HeldFinite
<1> QED
  BY <1>2, FS_CardinalityType, FS_EmptySet

LEMMA InitIInv == Init => IInv
<1> SUFFICES ASSUME Init PROVE IInv
  OBVIOUS
<1> USE IndexAssumption DEF Init
<1>1. script \in UNION {[S -> Statuses] : S \in SUBSET Emails}
  <2>1. script \in [{} -> Statuses]
    OBVIOUS
  <2> QED
    BY <2>1
<1>2. TypeOK
  <2>1. <<0, 0>> \in Tries
    BY TriesFacts
  <2>2. NoJob \in [email : Emails \cup {None}, tries : Tries]
    BY <2>1 DEF NoJob
  <2>3. queue \in [Emails -> [Tries -> Nat]]
    OBVIOUS
  <2> QED
    BY <1>1, <2>2, <2>3 DEF TypeOK, Statuses
<1>3. SlotInv
  BY DEF SlotInv
<1> QED
  BY <1>2, <1>3 DEF IInv

LEMMA FaultType ==
  ASSUME TypeOK, SlotInv, NEW k \in FaultKinds, Fault(k)
  PROVE  /\ left' \in [FaultKinds -> Nat]
         /\ \A i \in FaultKinds : left'[i] <= Budget[i]
         /\ \A i \in FaultKinds : left'[i] <= left[i]
         /\ left'[k] = left[k] - 1 /\ left[k] > 0
<1>1. left \in [FaultKinds -> Nat] /\ left[k] > 0
  BY DEF TypeOK, Fault
<1>2. left[k] - 1 \in Nat
  BY <1>1
<1> QED
  BY <1>1, <1>2, IndexAssumption DEF Fault, SlotInv

\* What an upsert leaves of the documents.
LEMMA UpsertType ==
  ASSUME TypeOK, NEW S \in SUBSET Emails, NEW written \in [S -> Statuses], Upsert(written)
  PROVE  index' \in {"mapped", "guessed"} /\ docs' \in [Emails -> Statuses \cup {"none"}]
BY DEF TypeOK, Upsert

\* A script in progress is a function over rows.
LEMMA ScriptType ==
  ASSUME TypeOK
  PROVE  /\ DOMAIN script \subseteq Emails
         /\ \A e \in DOMAIN script : script[e] \in Statuses
         /\ \A S \in SUBSET DOMAIN script :
              [f \in S |-> script[f]] \in UNION {[T -> Statuses] : T \in SUBSET Emails}
<1>1. PICK T \in SUBSET Emails : script \in [T -> Statuses]
  BY DEF TypeOK
<1>2. ASSUME NEW S \in SUBSET DOMAIN script
      PROVE  [f \in S |-> script[f]] \in UNION {[U -> Statuses] : U \in SUBSET Emails}
  <2>1. [f \in S |-> script[f]] \in [S -> Statuses] /\ S \in SUBSET Emails
    BY <1>1
  <2> QED
    BY <2>1
<1> QED
  BY <1>1, <1>2

LEMMA EmptyScript == << >> \in UNION {[T -> Statuses] : T \in SUBSET Emails}
<1>1. << >> \in [{} -> Statuses]
  OBVIOUS
<1> QED
  BY <1>1

LEMMA IInvStep == IInv /\ [Next]_vars => IInv'
<1> SUFFICES ASSUME TypeOK, SlotInv, [Next]_vars PROVE TypeOK' /\ SlotInv'
  BY DEF IInv
<1> USE IndexAssumption
<1>1. ASSUME NEW e \in Emails, Producer(e) PROVE TypeOK' /\ SlotInv'
  <2>1. CASE Transition(e)
    <3>1. status' \in [Emails -> Statuses] /\ adding' \in [Emails -> Nat]
      BY <2>1 DEF Transition, Moves, Statuses, TypeOK
    <3> QED
      BY <2>1, <3>1 DEF Transition, TypeOK, SlotInv, slotVars, esVars, history
  <2>2. CASE SweepRow(e)
    <3>1. status' \in [Emails -> Statuses]
      BY <2>2 DEF SweepRow, Statuses, TypeOK
    <3>2. Fault("sweep") /\ "sweep" \in FaultKinds
      BY <2>2 DEF SweepRow, FaultKinds
    <3> QED
      BY <2>2, <3>1, <3>2, FaultType DEF SweepRow, TypeOK, SlotInv, slotVars, esVars, history
  <2>3. CASE EnqueueIndex(e)
    <3>1. adding' \in [Emails -> Nat]
      BY <2>3 DEF EnqueueIndex, TypeOK
    <3>2. <<0, 0>> \in Tries
      BY TriesFacts
    <3>3. queue[e] \in [Tries -> Nat]
      BY DEF TypeOK
    <3>4. [queue[e] EXCEPT ![<<0, 0>>] = @ + 1] \in [Tries -> Nat]
      BY <3>2, <3>3
    <3>5. queue' \in [Emails -> [Tries -> Nat]]
      BY <2>3, <3>4 DEF EnqueueIndex, TypeOK
    <3> QED
      BY <2>3, <3>1, <3>5 DEF EnqueueIndex, TypeOK, SlotInv, slotVars, esVars, history
  <2>4. CASE LoseEnqueue(e)
    <3>1. adding' \in [Emails -> Nat]
      BY <2>4 DEF LoseEnqueue, TypeOK
    <3>2. Fault("enqueue") /\ "enqueue" \in FaultKinds
      BY <2>4 DEF LoseEnqueue, FaultKinds
    <3> QED
      BY <2>4, <3>1, <3>2, FaultType DEF LoseEnqueue, TypeOK, SlotInv, slotVars, esVars, history
  <2> QED
    BY <1>1, <2>1, <2>2, <2>3, <2>4 DEF Producer
<1>2. ASSUME NEW s \in Slots, IndexSlot(s) PROVE TypeOK' /\ SlotInv'
  <2> USE DEF slotVars, history
  <2>1. ASSUME NEW e \in Emails, NEW k \in Tries, FetchIndexJob(s, e, k)
        PROVE  TypeOK' /\ SlotInv'
    <3>1. queue[e] \in [Tries -> Nat] /\ queue[e][k] > 0
      BY <2>1 DEF FetchIndexJob, TypeOK
    <3>2. [queue[e] EXCEPT ![k] = @ - 1] \in [Tries -> Nat]
      BY <3>1
    <3>3. queue' \in [Emails -> [Tries -> Nat]]
      BY <2>1, <3>2 DEF FetchIndexJob, TypeOK
    <3>4. overlapped' \subseteq Emails
      BY <2>1 DEF FetchIndexJob, TypeOK
    <3>5. job' \in [Slots -> [email : Emails \cup {None}, tries : Tries]]
      BY <2>1 DEF FetchIndexJob, TypeOK
    <3> QED
      BY <2>1, <3>3, <3>4, <3>5 DEF FetchIndexJob, TypeOK, SlotInv, esVars, history
  <2>2. CASE GetEmailForIndex(s)
    <3>1. job[s].email \in Emails /\ s[1] \in Procs
      BY <2>2 DEF GetEmailForIndex, SlotInv, Slots
    <3>2. row' \in [Slots -> Statuses]
      BY <2>2, <3>1 DEF GetEmailForIndex, TypeOK
    <3>3. ensuring' \in [Procs -> {"none", "asking", "creating", "done"}]
      BY <2>2, <3>1 DEF GetEmailForIndex, TypeOK
    <3> QED
      BY <2>2, <3>2, <3>3 DEF GetEmailForIndex, TypeOK, SlotInv, esVars, history
  <2>3. CASE Ensured(s)
    BY <2>3 DEF Ensured, TypeOK, SlotInv, esVars, history
  <2>4. ASSUME pc[s] = "write", Upsert([e \in {job[s].email} |-> row[s]])
        PROVE  /\ index' \in {"missing", "mapped", "guessed"}
               /\ docs' \in [Emails -> Statuses \cup {"none"}]
    <3>1. {job[s].email} \in SUBSET Emails /\ row[s] \in Statuses
      BY <2>4 DEF SlotInv, TypeOK
    <3>2. [e \in {job[s].email} |-> row[s]] \in [{job[s].email} -> Statuses]
      BY <3>1
    <3> QED
      BY <2>4, <3>1, <3>2, UpsertType
  <2>5. ASSUME Release(s)
        PROVE  /\ pc' \in [Slots -> {"idle", "read", "ensure", "write", "throw"}]
               /\ job' \in [Slots -> [email : Emails \cup {None}, tries : Tries]]
               /\ row' \in [Slots -> Statuses]
               /\ \A t \in Slots : IF pc'[t] = "idle" THEN job'[t] = NoJob
                                                      ELSE job'[t].email \in Emails
    <3>1. NoJob \in [email : Emails \cup {None}, tries : Tries]
      BY TriesFacts DEF NoJob
    <3> QED
      BY <2>5, <3>1 DEF Release, TypeOK, SlotInv, Statuses
  <2>6. CASE IndexEmail(s)
    BY <2>6, <2>4, <2>5 DEF IndexEmail, TypeOK, SlotInv
  <2>7. CASE IndexEmailFails(s)
    <3>1. Fault("es") /\ "es" \in FaultKinds
      BY <2>7 DEF IndexEmailFails, FaultKinds
    <3>2. /\ index' \in {"missing", "mapped", "guessed"}
          /\ docs' \in [Emails -> Statuses \cup {"none"}]
      BY <2>7, <2>4 DEF IndexEmailFails, TypeOK, esVars, history
    <3> QED
      BY <2>7, <3>1, <3>2, FaultType DEF IndexEmailFails, TypeOK, SlotInv
  <2>8. CASE RetryJob(s)
    <3> DEFINE e == job[s].email
               again == [job[s].tries EXCEPT ![1] = @ + 1]
    <3>1. e \in Emails
      BY <2>8 DEF RetryJob, SlotInv, TypeOK
    <3>2. queue[e] \in [Tries -> Nat]
      BY <3>1 DEF TypeOK
    <3>3. queue' \in [Emails -> [Tries -> Nat]]
      <4>1. CASE again \in Tries
        <5>1. [queue[e] EXCEPT ![again] = @ + 1] \in [Tries -> Nat]
          BY <3>2, <4>1
        <5> QED
          BY <2>8, <3>1, <4>1, <5>1 DEF RetryJob, TypeOK
      <4>2. CASE again \notin Tries
        BY <2>8, <4>2 DEF RetryJob, TypeOK
      <4> QED
        BY <4>1, <4>2
    <3>4. Release(s) /\ UNCHANGED <<status, history, adding, ensuring, esVars, script, left>>
      BY <2>8 DEF RetryJob
    <3> QED
      BY <3>3, <3>4, <2>5 DEF TypeOK, SlotInv, esVars, history
  <2> QED
    BY <1>2, <2>1, <2>2, <2>3, <2>6, <2>7, <2>8 DEF IndexSlot
<1>3. ASSUME NEW p \in Procs, IndexProcess(p) PROVE TypeOK' /\ SlotInv'
  <2>1. CASE EnsureExists(p)
    BY <2>1 DEF EnsureExists, TypeOK, SlotInv, slotVars, esVars, history
  <2>2. CASE EnsureCreate(p)
    BY <2>2 DEF EnsureCreate, TypeOK, SlotInv, slotVars, esVars, history
  <2>3. CASE EnsureFails(p)
    <3>1. Fault("es") /\ "es" \in FaultKinds
      BY <2>3 DEF EnsureFails, FaultKinds
    <3> QED
      BY <2>3, <3>1, FaultType DEF EnsureFails, TypeOK, SlotInv, esVars, history
  <2>4. CASE CrashProcess(p)
    <3>1. Fault("crash") /\ "crash" \in FaultKinds
      BY <2>4 DEF CrashProcess, FaultKinds
    <3>2. queue' \in [Emails -> [Tries -> Nat]]
      <4>1. \A e \in Emails : \A k \in Tries :
              queue[e][k] + Cardinality(Stalling(p, e, k)) \in Nat
        BY StallingFinite DEF TypeOK
      <4> QED
        BY <2>4, <4>1 DEF CrashProcess
    <3>3. NoJob \in [email : Emails \cup {None}, tries : Tries]
      BY TriesFacts DEF NoJob
    <3>4. stalledOut' \subseteq Emails
      BY <2>4 DEF CrashProcess, TypeOK
    <3> QED
      BY <2>4, <3>1, <3>2, <3>3, <3>4, FaultType
         DEF CrashProcess, TypeOK, SlotInv, esVars, history, Statuses
  <2> QED
    BY <1>3, <2>1, <2>2, <2>3, <2>4 DEF IndexProcess
<1>4. CASE ReindexRead
  <2>1. Fault("reindex") /\ "reindex" \in FaultKinds
    BY <1>4 DEF ReindexRead, FaultKinds
  <2>2. script' \in UNION {[S -> Statuses] : S \in SUBSET Emails}
    <3> DEFINE rows == {e \in Emails : status[e] # "absent"}
    <3>1. script' \in [rows -> Statuses] /\ rows \in SUBSET Emails
      BY <1>4 DEF ReindexRead, TypeOK
    <3> QED
      BY <3>1
  <2> QED
    BY <1>4, <2>1, <2>2, FaultType DEF ReindexRead, TypeOK, SlotInv, slotVars, history
<1>5. ASSUME NEW e \in Emails, ReindexWrite(e) PROVE TypeOK' /\ SlotInv'
  <2>1. script' \in UNION {[S -> Statuses] : S \in SUBSET Emails}
    BY <1>5, ScriptType DEF ReindexWrite
  <2>2. [f \in {e} |-> script[e]] \in [{e} -> Statuses]
    BY <1>5, ScriptType DEF ReindexWrite
  <2>3. /\ index' \in {"missing", "mapped", "guessed"}
        /\ docs' \in [Emails -> Statuses \cup {"none"}]
    BY <1>5, <2>2, UpsertType DEF ReindexWrite
  <2> QED
    BY <1>5, <2>1, <2>3 DEF ReindexWrite, TypeOK, SlotInv, slotVars, history
<1>6. CASE ReindexFails
  <2>1. Fault("es") /\ "es" \in FaultKinds
    BY <1>6 DEF ReindexFails, FaultKinds
  <2> QED
    BY <1>6, <2>1, FaultType, EmptyScript DEF ReindexFails, TypeOK, SlotInv, slotVars, esVars, history
<1>7. CASE WipeElasticsearch
  <2>1. Fault("wipe") /\ "wipe" \in FaultKinds
    BY <1>7 DEF WipeElasticsearch, FaultKinds
  <2> QED
    BY <1>7, <2>1, FaultType DEF WipeElasticsearch, TypeOK, SlotInv, slotVars, history
<1>8. CASE UNCHANGED vars
  BY <1>8 DEF vars, TypeOK, SlotInv, slotVars, esVars, history
<1> QED
  BY <1>1, <1>2, <1>3, <1>4, <1>5, <1>6, <1>7, <1>8 DEF Next

\* Every reachable state is well-typed: a slot past getEmailForIndex has a row to
\* write, no job is tried more often than its attempts allow, and a killed process
\* puts back finitely many jobs.
THEOREM TypeCorrect == Spec => []TypeOK
<1>1. IInv => TypeOK
  BY DEF IInv
<1> QED
  BY <1>1, InitIInv, IInvStep, PTL DEF Spec
-----------------------------------------------------------------------------
(* Faults are counted for good *)

LEMMA LeftStep ==
  ASSUME IInv, [Next]_vars
  PROVE  \A k \in FaultKinds : left'[k] <= left[k] /\ left'[k] \in Nat /\ left[k] \in Nat
<1> USE DEF IInv
<1>1. CASE UNCHANGED left
  BY <1>1 DEF TypeOK
<1>2. ASSUME NEW k \in FaultKinds, Fault(k)
      PROVE  \A i \in FaultKinds : left'[i] <= left[i] /\ left'[i] \in Nat /\ left[i] \in Nat
  BY <1>2, FaultType DEF TypeOK
<1> QED
  BY <1>1, <1>2
     DEF Next, Producer, IndexSlot, IndexProcess, Transition, SweepRow, EnqueueIndex,
         LoseEnqueue, FetchIndexJob, GetEmailForIndex, Ensured, IndexEmail, IndexEmailFails,
         RetryJob, EnsureExists, EnsureCreate, EnsureFails, CrashProcess, ReindexRead,
         ReindexWrite, ReindexFails, WipeElasticsearch, vars, FaultKinds

LEMMA UsedStep ==
  ASSUME IInv, [Next]_vars
  PROVE  /\ \A kinds \in SUBSET FaultKinds : Used(kinds) => Used(kinds)'
         /\ Exhausted => Exhausted'
<1>1. \A k \in FaultKinds : left'[k] <= left[k] /\ left'[k] \in Nat /\ left[k] \in Nat
  BY LeftStep
<1>2. \A k \in FaultKinds : Budget[k] \in Nat
  BY IndexAssumption
<1>3. "es" \in FaultKinds
  BY DEF FaultKinds
<1> QED
  BY <1>1, <1>2, <1>3, IndexAssumption DEF Used, Exhausted

\* A fault that strikes is a fault used.
LEMMA FaultUsed ==
  ASSUME IInv, NEW k \in FaultKinds, Fault(k), NEW kinds \in SUBSET FaultKinds, k \in kinds
  PROVE  Used(kinds)'
<1>1. left'[k] = left[k] - 1 /\ left[k] \in Nat /\ left[k] <= Budget[k] /\ Budget[k] \in Nat
  BY FaultType, IndexAssumption DEF IInv, TypeOK, SlotInv
<1>2. left'[k] < Budget[k]
  BY <1>1
<1> QED
  BY <1>2 DEF Used

-----------------------------------------------------------------------------
(* The mapping *)

\* Whoever is about to write has seen to it that the index exists.
MappingInv ==
  \/ Used({"wipe"})
  \/ /\ index # "guessed"
     /\ \A p \in Procs : ensuring[p] = "done" => index # "missing"
     /\ \A s \in Slots : pc[s] = "write" => index # "missing"
     /\ DOMAIN script # {} => index # "missing"

LEMMA MappingInit == Init => MappingInv
BY DEF Init, MappingInv

LEMMA MappingStep == IInv /\ MappingInv /\ [Next]_vars => MappingInv'
<1> SUFFICES ASSUME IInv, MappingInv, [Next]_vars, ~Used({"wipe"})'
             PROVE  MappingInv'
  BY DEF MappingInv
<1>1. /\ {"wipe"} \in SUBSET FaultKinds
      /\ ~Used({"wipe"})
      /\ ~Fault("wipe")
  <2>1. {"wipe"} \in SUBSET FaultKinds /\ "wipe" \in FaultKinds
    BY DEF FaultKinds
  <2> QED
    BY <2>1, UsedStep, FaultUsed
<1>2. /\ index \in {"mapped", "missing"}
      /\ \A p \in Procs : ensuring[p] = "done" => index = "mapped"
      /\ \A s \in Slots : pc[s] = "write" => index = "mapped"
      /\ DOMAIN script # {} => index = "mapped"
  BY <1>1 DEF MappingInv, IInv, TypeOK
<1>3. /\ ensuring \in [Procs -> {"none", "asking", "creating", "done"}]
      /\ pc \in [Slots -> {"idle", "read", "ensure", "write", "throw"}]
  BY DEF IInv, TypeOK
<1> USE <1>2, <1>3 DEF MappingInv, slotVars, esVars, history
<1>4. ASSUME NEW e \in Emails, Producer(e) PROVE MappingInv'
  BY <1>4 DEF Producer, Transition, SweepRow, EnqueueIndex, LoseEnqueue
<1>5. ASSUME NEW s \in Slots, IndexSlot(s) PROVE MappingInv'
  <2>1. s[1] \in Procs
    BY DEF Slots
  <2>2. CASE \E e \in Emails, k \in Tries : FetchIndexJob(s, e, k)
    BY <2>2 DEF FetchIndexJob
  <2>3. CASE GetEmailForIndex(s)
    BY <2>1, <2>3 DEF GetEmailForIndex
  <2>4. CASE Ensured(s)
    BY <2>1, <2>4 DEF Ensured
  <2>5. CASE IndexEmail(s)
    BY <2>5 DEF IndexEmail, Upsert, Release
  <2>6. CASE IndexEmailFails(s)
    BY <2>6 DEF IndexEmailFails, Upsert
  <2>7. CASE RetryJob(s)
    BY <2>7 DEF RetryJob, Release
  <2> QED
    BY <1>5, <2>2, <2>3, <2>4, <2>5, <2>6, <2>7 DEF IndexSlot
<1>6. ASSUME NEW p \in Procs, IndexProcess(p) PROVE MappingInv'
  <2>1. CASE EnsureExists(p)
    BY <2>1 DEF EnsureExists
  <2>2. CASE EnsureCreate(p)
    BY <2>2 DEF EnsureCreate
  <2>3. CASE EnsureFails(p)
    BY <2>3 DEF EnsureFails
  <2>4. CASE CrashProcess(p)
    BY <2>4 DEF CrashProcess
  <2> QED
    BY <1>6, <2>1, <2>2, <2>3, <2>4 DEF IndexProcess
<1>7. CASE ReindexRead
  BY <1>7 DEF ReindexRead
<1>8. ASSUME NEW e \in Emails, ReindexWrite(e) PROVE MappingInv'
  BY <1>8 DEF ReindexWrite, Upsert
<1>9. CASE ReindexFails
  BY <1>9 DEF ReindexFails
<1>10. CASE UNCHANGED vars
  BY <1>10 DEF vars
<1> QED
  BY <1>1, <1>4, <1>5, <1>6, <1>7, <1>8, <1>9, <1>10 DEF Next, WipeElasticsearch

\* Unless Elasticsearch loses its data, the index is never created by a write:
\* whichever of the workers, bootstrap and the rebuild script comes first, it is
\* ensureEmailsIndex that creates it.
THEOREM MappingIsKept == Spec => []MappingKept
<1>1. MappingInv => MappingKept
  BY DEF MappingInv, MappingKept
<1> QED
  BY <1>1, InitIInv, IInvStep, MappingInit, MappingStep, PTL DEF Spec
-----------------------------------------------------------------------------
(* Attempts *)

\* How often Elasticsearch has failed.
Spent == Budget["es"] - left["es"]

\* Every attempt a job has made was a failure of Elasticsearch of its own.
MadeInv ==
  /\ \A e \in Emails : \A k \in Tries : queue[e][k] > 0 => k[1] <= Spent
  /\ \A s \in Slots : pc[s] # "idle" => job[s].tries[1] <= Spent
  /\ \A s \in Slots : pc[s] = "throw" => job[s].tries[1] + 1 <= Spent

LEMMA SpentStep ==
  ASSUME IInv, [Next]_vars
  PROVE  Spent \in Nat /\ Spent' \in Nat /\ Spent <= Spent'
<1>1. "es" \in FaultKinds
  BY DEF FaultKinds
<1>2. left'["es"] <= left["es"] /\ left'["es"] \in Nat /\ left["es"] \in Nat
  BY <1>1, LeftStep
<1>3. left["es"] <= Budget["es"] /\ Budget["es"] \in Nat
  BY <1>1, IndexAssumption DEF IInv, SlotInv
<1>4. Spent = Budget["es"] - left["es"] /\ Spent' = Budget["es"] - left'["es"]
  BY DEF Spent
<1> QED
  BY <1>2, <1>3, <1>4

\* A failure of Elasticsearch counts as one.
LEMMA SpentFault ==
  ASSUME IInv, [Next]_vars, Fault("es")
  PROVE  Spent' = Spent + 1
<1>1. "es" \in FaultKinds
  BY DEF FaultKinds
<1>2. left'["es"] = left["es"] - 1 /\ left["es"] \in Nat
  BY <1>1, FaultType DEF IInv, TypeOK
<1>3. Spent = Budget["es"] - left["es"] /\ Spent' = Budget["es"] - left'["es"]
  BY DEF Spent
<1>4. Budget["es"] \in Nat
  BY <1>1, IndexAssumption
<1> QED
  BY <1>2, <1>3, <1>4

LEMMA MadeInit == Init => MadeInv
BY DEF Init, MadeInv

LEMMA MadeStep == IInv /\ MadeInv /\ [Next]_vars => MadeInv'
<1> SUFFICES ASSUME IInv, MadeInv, [Next]_vars PROVE MadeInv'
  OBVIOUS
<1> DEFINE n == Spent
           m == Spent'
<1>1. n \in Nat /\ m \in Nat /\ n <= m
  BY SpentStep
<1>2. Fault("es") => m = n + 1
  BY SpentFault
<1>3. /\ \A e \in Emails : \A k \in Tries : queue[e][k] > 0 => k[1] <= n
      /\ \A s \in Slots : pc[s] # "idle" => job[s].tries[1] <= n
      /\ \A s \in Slots : pc[s] = "throw" => job[s].tries[1] + 1 <= n
  BY DEF MadeInv
<1> DEFINE Good ==
      /\ \A e \in Emails : \A k \in Tries : queue'[e][k] > 0 => k[1] <= m
      /\ \A s \in Slots : pc'[s] # "idle" => job'[s].tries[1] <= m
      /\ \A s \in Slots : pc'[s] = "throw" => job'[s].tries[1] + 1 <= m
<1>4. SUFFICES Good
  BY DEF MadeInv
<1> HIDE DEF n, m
<1>5. /\ \A e \in Emails : \A k \in Tries : queue[e][k] \in Nat
      /\ \A k \in Tries : k[1] \in Nat
      /\ \A s \in Slots : job[s].tries \in Tries /\ job[s].tries[1] \in Nat
      /\ queue \in [Emails -> [Tries -> Nat]]
      /\ pc \in [Slots -> {"idle", "read", "ensure", "write", "throw"}]
      /\ job \in [Slots -> [email : Emails \cup {None}, tries : Tries]]
  BY TriesFacts DEF IInv, TypeOK
<1> DEFINE Kept ==
      /\ \A e \in Emails : \A k \in Tries : queue'[e][k] > 0 => k[1] <= n
      /\ \A s \in Slots : pc'[s] # "idle" => job'[s].tries[1] <= n
      /\ \A s \in Slots : pc'[s] = "throw" => job'[s].tries[1] + 1 <= n
<1>6. ASSUME Kept, \A s \in Slots : job'[s].tries[1] \in Nat PROVE Good
  <2>1. \A e \in Emails : \A k \in Tries : queue'[e][k] > 0 => k[1] <= m
    BY <1>1, <1>5, <1>6
  <2>2. \A s \in Slots : /\ pc'[s] # "idle" => job'[s].tries[1] <= m
                         /\ pc'[s] = "throw" => job'[s].tries[1] + 1 <= m
    BY <1>1, <1>5, <1>6
  <2> QED
    BY <2>1, <2>2
<1> USE DEF slotVars, esVars, history
<1>7. CASE UNCHANGED <<queue, pc, job>>
  BY <1>1, <1>3, <1>5, <1>7
<1>8. ASSUME NEW e \in Emails, Producer(e) PROVE Good
  <2>1. CASE EnqueueIndex(e)
    <3>1. /\ queue' = [queue EXCEPT ![e] = [queue[e] EXCEPT ![<<0, 0>>] = queue[e][<<0, 0>>] + 1]]
          /\ pc' = pc /\ job' = job
      BY <2>1 DEF EnqueueIndex
    <3>2. \A f \in Emails : \A k \in Tries :
            k = <<0, 0>> \/ queue'[f][k] = queue[f][k]
      BY <1>5, <3>1
    <3>3. <<0, 0>> \in Tries /\ \A k \in Tries : k = <<0, 0>> => k[1] <= n
      BY <1>1, TriesFacts
    <3> QED
      BY <1>3, <1>5, <1>6, <3>1, <3>2, <3>3
  <2> QED
    BY <1>7, <1>8, <2>1 DEF Producer, Transition, SweepRow, LoseEnqueue
<1>9. ASSUME NEW s \in Slots, IndexSlot(s) PROVE Good
  <2>1. ASSUME Release(s), queue' = queue PROVE Good
    <3>1. \A t \in Slots : (pc'[t] = pc[t] /\ job'[t] = job[t])
                           \/ (pc'[t] = "idle" /\ job'[t].tries[1] = 0)
      BY <1>5, <2>1 DEF Release, NoJob
    <3> QED
      BY <1>3, <1>5, <1>6, <2>1, <3>1
  <2>2. ASSUME NEW e \in Emails, NEW k \in Tries, FetchIndexJob(s, e, k)
        PROVE  Good
    <3>1. queue[e][k] > 0 /\ k[1] <= n
      BY <1>3, <2>2 DEF FetchIndexJob
    <3>2. queue' = [queue EXCEPT ![e] = [queue[e] EXCEPT ![k] = queue[e][k] - 1]]
      BY <2>2 DEF FetchIndexJob
    <3>3. \A f \in Emails : \A i \in Tries :
            queue'[f][i] = queue[f][i] \/ i = k
      BY <1>5, <3>2
    <3>4. \A t \in Slots : (pc'[t] = pc[t] /\ job'[t] = job[t])
                           \/ (pc'[t] = "read" /\ job'[t].tries = k)
      BY <1>5, <2>2 DEF FetchIndexJob
    <3> QED
      <4>1. \A f \in Emails : \A i \in Tries : queue'[f][i] > 0 => i[1] <= n
        BY <1>3, <3>1, <3>3
      <4>2. \A t \in Slots : /\ pc'[t] # "idle" => job'[t].tries[1] <= n
                             /\ pc'[t] = "throw" => job'[t].tries[1] + 1 <= n
                             /\ job'[t].tries[1] \in Nat
        BY <1>3, <1>5, <3>1, <3>4, IndexAssumption
      <4> QED
        BY <1>6, <4>1, <4>2
  <2>3. CASE GetEmailForIndex(s)
    BY <1>1, <1>3, <1>5, <2>3 DEF GetEmailForIndex
  <2>4. CASE Ensured(s)
    BY <1>1, <1>3, <1>5, <2>4 DEF Ensured
  <2>5. CASE IndexEmail(s)
    BY <2>1, <2>5 DEF IndexEmail
  <2>6. CASE IndexEmailFails(s)
    BY <1>1, <1>2, <1>3, <1>5, <2>6 DEF IndexEmailFails
  <2>7. CASE RetryJob(s)
    <3> DEFINE e == job[s].email
               again == [job[s].tries EXCEPT ![1] = @ + 1]
    <3>1. Release(s)
      BY <2>7 DEF RetryJob
    <3>2. CASE again \notin Tries
      BY <2>1, <2>7, <3>2 DEF RetryJob
    <3>3. CASE again \in Tries
      <4>1. queue' = [queue EXCEPT ![e] = [queue[e] EXCEPT ![again] = queue[e][again] + 1]]
        BY <2>7, <3>3 DEF RetryJob
      <4>2. again[1] <= n
        BY <1>3, <1>5, <2>7, Thrown DEF RetryJob
      <4> HIDE DEF e, again
      <4>3. \A f \in Emails : \A i \in Tries :
              queue'[f][i] = queue[f][i] \/ i = again
        BY <1>5, <4>1
      <4> QED
        <5>1. \A f \in Emails : \A i \in Tries : queue'[f][i] > 0 => i[1] <= n
          BY <1>3, <4>2, <4>3
        <5>2. \A t \in Slots : /\ pc'[t] # "idle" => job'[t].tries[1] <= n
                               /\ pc'[t] = "throw" => job'[t].tries[1] + 1 <= n
                               /\ job'[t].tries[1] \in Nat
          BY <1>3, <1>5, <3>1 DEF Release, NoJob
        <5> QED
          BY <1>6, <5>1, <5>2
    <3> QED
      BY <3>2, <3>3
  <2> QED
    BY <1>9, <2>2, <2>3, <2>4, <2>5, <2>6, <2>7 DEF IndexSlot
<1>10. ASSUME NEW p \in Procs, IndexProcess(p) PROVE Good
  <2>1. CASE EnsureFails(p)
    BY <1>1, <1>2, <1>3, <1>5, <2>1 DEF EnsureFails
  <2>2. CASE CrashProcess(p)
    <3>1. \A e \in Emails : \A k \in Tries : queue'[e][k] > 0 => k[1] <= n
      <4> SUFFICES ASSUME NEW e \in Emails, NEW k \in Tries, queue'[e][k] > 0,
                          queue[e][k] = 0
                   PROVE  k[1] <= n
        <5> SUFFICES ASSUME NEW e \in Emails, NEW k \in Tries, queue'[e][k] > 0
                     PROVE  k[1] <= n
          OBVIOUS
        <5>1. queue[e][k] \in Nat /\ (queue[e][k] > 0 => k[1] <= n)
          BY <1>3, <1>5
        <5>2. queue[e][k] > 0 \/ queue[e][k] = 0
          BY <5>1
        <5> QED
          BY <5>1, <5>2
      <4>1. queue'[e][k] = queue[e][k] + Cardinality(Stalling(p, e, k))
        BY <2>2 DEF CrashProcess
      <4>2. Stalling(p, e, k) # {}
        BY <4>1, StallingFinite
      <4>3. PICK s \in Slots : job[s].email = e /\ [job[s].tries EXCEPT ![2] = @ + 1] = k
        BY <4>2 DEF Stalling
      <4>4. job[s].tries[1] = k[1] /\ pc[s] # "idle"
        BY <1>5, <4>3, Stalled, IndexAssumption DEF IInv, SlotInv, NoJob
      <4> QED
        BY <1>3, <4>4
    <3>2. \A s \in Slots : (pc'[s] = pc[s] /\ job'[s] = job[s]) \/ pc'[s] = "idle"
      BY <1>5, <2>2 DEF CrashProcess
    <3> QED
      <4>1. \A s \in Slots : /\ pc'[s] # "idle" => job'[s].tries[1] <= n
                             /\ pc'[s] = "throw" => job'[s].tries[1] + 1 <= n
        BY <1>3, <3>2
      <4>2. \A s \in Slots : job'[s].tries[1] \in Nat
        BY <1>5, <2>2 DEF CrashProcess, NoJob
      <4> QED
        BY <1>6, <3>1, <4>1, <4>2
  <2> QED
    BY <1>7, <1>10, <2>1, <2>2 DEF IndexProcess, EnsureExists, EnsureCreate
<1> QED
  BY <1>7, <1>8, <1>9, <1>10
     DEF Next, ReindexRead, ReindexWrite, ReindexFails, WipeElasticsearch, vars
-----------------------------------------------------------------------------
(* The index job of a row *)

\* An index job of row e is on its way to a slot.
Pending(e) == adding[e] > 0 \/ Waiting(e) # {}

\* It stays so until a slot fetches it, or its enqueue is lost.
LEMMA PendingStep ==
  ASSUME IInv, [Next]_vars, NEW e \in Emails, Pending(e),
         ~(\E s \in Slots, k \in Tries : FetchIndexJob(s, e, k)),
         ~Fault("enqueue")
  PROVE  Pending(e)'
<1> DEFINE Held == adding'[e] > 0 \/ \E k \in Tries : queue'[e][k] > 0
<1>1. SUFFICES Held
  BY DEF Pending, Waiting
<1>2. /\ adding \in [Emails -> Nat]
      /\ queue \in [Emails -> [Tries -> Nat]]
      /\ <<0, 0>> \in Tries
      /\ adding[e] > 0 \/ \E k \in Tries : queue[e][k] > 0
  BY TriesFacts DEF IInv, TypeOK, Pending, Waiting
<1> USE DEF slotVars, esVars, history
<1>3. CASE UNCHANGED <<adding, queue>>
  BY <1>2, <1>3
<1>4. ASSUME NEW f \in Emails, Producer(f) PROVE Held
  <2>1. CASE Transition(f)
    <3>1. adding' = [adding EXCEPT ![f] = adding[f] + 1] /\ queue' = queue
      BY <2>1 DEF Transition
    <3> QED
      BY <1>2, <3>1
  <2>2. CASE EnqueueIndex(f)
    <3>1. adding' = [adding EXCEPT ![f] = adding[f] - 1]
          /\ queue' = [queue EXCEPT ![f] = [queue[f] EXCEPT ![<<0, 0>>] = queue[f][<<0, 0>>] + 1]]
      BY <2>2 DEF EnqueueIndex
    <3>2. CASE f = e
      <4>1. queue'[e][<<0, 0>>] > 0
        BY <1>2, <3>1, <3>2
      <4> QED
        BY <1>2, <4>1
    <3>3. CASE f # e
      BY <1>2, <3>1, <3>3
    <3> QED
      BY <3>2, <3>3
  <2> QED
    BY <1>3, <1>4, <2>1, <2>2 DEF Producer, SweepRow, LoseEnqueue
<1>5. ASSUME NEW s \in Slots, IndexSlot(s) PROVE Held
  <2>1. ASSUME NEW f \in Emails, NEW k \in Tries, FetchIndexJob(s, f, k)
        PROVE  Held
    <3>1. f # e /\ adding' = adding /\ queue'[e] = queue[e]
      BY <1>2, <2>1 DEF FetchIndexJob
    <3> QED
      BY <1>2, <3>1
  <2>2. CASE RetryJob(s)
    <3> DEFINE f == job[s].email
               again == [job[s].tries EXCEPT ![1] = @ + 1]
    <3>1. adding' = adding
      BY <2>2 DEF RetryJob
    <3>2. CASE again \in Tries
      <4>1. queue' = [queue EXCEPT ![f] = [queue[f] EXCEPT ![again] = queue[f][again] + 1]]
        BY <2>2, <3>2 DEF RetryJob
      <4> HIDE DEF f, again
      <4>2. \A k \in Tries : queue'[e][k] = queue[e][k]
                                          \/ queue'[e][k] = queue[e][k] + 1
        BY <1>2, <4>1
      <4>3. \A k \in Tries : queue[e][k] > 0 => queue'[e][k] > 0
        <5> SUFFICES ASSUME NEW k \in Tries, queue[e][k] > 0
                     PROVE  queue'[e][k] > 0
          OBVIOUS
        <5>1. queue[e][k] \in Nat
          BY <1>2
        <5> QED
          BY <4>2, <5>1
      <4> QED
        BY <1>2, <3>1, <4>3
    <3> QED
      BY <1>3, <2>2, <3>2 DEF RetryJob
  <2> QED
    BY <1>3, <1>5, <2>1, <2>2
       DEF IndexSlot, GetEmailForIndex, Ensured, IndexEmail, IndexEmailFails
<1>6. ASSUME NEW p \in Procs, IndexProcess(p) PROVE Held
  <2>1. CASE CrashProcess(p)
    <3> SUFFICES ASSUME NEW k \in Tries, queue[e][k] > 0
                 PROVE  queue'[e][k] > 0
      BY <1>2, <2>1 DEF CrashProcess
    <3>1. queue'[e][k] = queue[e][k] + Cardinality(Stalling(p, e, k))
      BY <2>1 DEF CrashProcess
    <3>2. Cardinality(Stalling(p, e, k)) \in Nat
      BY StallingFinite
    <3> QED
      BY <1>2, <3>1, <3>2
  <2> QED
    BY <1>3, <1>6, <2>1 DEF IndexProcess, EnsureExists, EnsureCreate, EnsureFails
<1> QED
  BY <1>3, <1>4, <1>5, <1>6
     DEF Next, ReindexRead, ReindexWrite, ReindexFails, WipeElasticsearch, vars

\* A job stays in its slot until it has been written, or is on its way again, or
\* Elasticsearch failed once for each of its attempts, or it stalled too often.
LEMMA JobStep ==
  ASSUME IInv, MadeInv, [Next]_vars, NEW e \in Emails, NEW s \in Slots,
         job[s].email = e, ~IndexEmail(s)
  PROVE  \/ job'[s] = job[s] /\ (pc'[s] = pc[s] \/ pc'[s] = "throw"
                                 \/ GetEmailForIndex(s) \/ Ensured(s))
         \/ Pending(e)' \/ Exhausted' \/ e \in stalledOut'
<1> DEFINE Stays == job'[s] = job[s] /\ (pc'[s] = pc[s] \/ pc'[s] = "throw"
                                         \/ GetEmailForIndex(s) \/ Ensured(s))
           Back == \E k \in Tries : queue'[e][k] > 0
<1>1. SUFFICES Stays \/ Back \/ Exhausted' \/ e \in stalledOut'
  BY DEF Pending, Waiting
<1>2. /\ queue \in [Emails -> [Tries -> Nat]]
      /\ Attempts \in Nat \ {0}
      /\ pc \in [Slots -> {"idle", "read", "ensure", "write", "throw"}]
      /\ job \in [Slots -> [email : Emails \cup {None}, tries : Tries]]
      /\ pc[s] # "idle"
  BY IndexAssumption DEF IInv, TypeOK, SlotInv, NoJob
<1> USE DEF slotVars, esVars, history
<1>3. CASE UNCHANGED <<pc, job>>
  BY <1>2, <1>3
<1>4. ASSUME NEW f \in Emails, Producer(f) PROVE Stays
  BY <1>3, <1>4 DEF Producer, Transition, SweepRow, EnqueueIndex, LoseEnqueue
<1>5. ASSUME NEW t \in Slots, IndexSlot(t) PROVE Stays \/ Back \/ Exhausted'
  <2>1. CASE t # s
    <3>1. pc'[s] = pc[s] /\ job'[s] = job[s]
      BY <1>2, <1>5, <2>1
         DEF IndexSlot, FetchIndexJob, GetEmailForIndex, Ensured, IndexEmail,
             IndexEmailFails, RetryJob, Release
    <3> QED
      BY <3>1
  <2>2. CASE t = s /\ RetryJob(s)
    <3> DEFINE again == [job[s].tries EXCEPT ![1] = @ + 1]
    <3>1. job[s].tries \in Tries /\ job[s].tries[1] \in Nat
      BY <1>2, TriesFacts
    <3>2. CASE again \in Tries
      <4>1. queue' = [queue EXCEPT ![e] = [queue[e] EXCEPT ![again] = queue[e][again] + 1]]
        BY <2>2, <3>2 DEF RetryJob
      <4> HIDE DEF again
      <4>2. queue'[e][again] > 0
        BY <1>2, <3>2, <4>1
      <4> QED
        BY <3>2, <4>2
    <3>3. CASE again \notin Tries
      <4> DEFINE n == Spent
                 k == job[s].tries[1]
      <4>1. k + 1 <= n /\ n \in Nat /\ k \in Nat
        BY <2>2, <3>1, SpentStep DEF RetryJob, MadeInv
      <4>2. k + 1 >= Attempts
        BY <3>1, <3>3, Thrown
      <4>3. n >= Attempts
        <5> HIDE DEF n, k
        <5> QED
          BY <1>2, <4>1, <4>2
      <4>4. Exhausted
        BY <4>3 DEF Exhausted, Spent
      <4> QED
        BY <4>4, UsedStep
    <3> QED
      BY <3>2, <3>3
  <2>3. CASE t = s /\ ~RetryJob(s)
    BY <1>2, <1>5, <2>3
       DEF IndexSlot, FetchIndexJob, GetEmailForIndex, Ensured, IndexEmailFails
  <2> QED
    BY <2>1, <2>2, <2>3
<1>6. ASSUME NEW p \in Procs, IndexProcess(p) PROVE Stays \/ Back \/ e \in stalledOut'
  <2>1. CASE EnsureFails(p)
    BY <1>2, <2>1 DEF EnsureFails
  <2>2. CASE CrashProcess(p) /\ s[1] # p
    BY <1>2, <2>2 DEF CrashProcess
  <2>3. CASE CrashProcess(p) /\ s[1] = p
    <3> DEFINE k == [job[s].tries EXCEPT ![2] = @ + 1]
    <3>1. CASE k \in Tries
      <4>1. s \in Stalling(p, e, k)
        BY <2>3 DEF Stalling
      <4>2. queue'[e][k] = queue[e][k] + Cardinality(Stalling(p, e, k))
        BY <2>3, <3>1 DEF CrashProcess
      <4> HIDE DEF k
      <4>3. /\ queue[e][k] \in Nat
            /\ Cardinality(Stalling(p, e, k)) \in Nat /\ Cardinality(Stalling(p, e, k)) # 0
        BY <1>2, <3>1, <4>1, StallingFinite
      <4> QED
        BY <3>1, <4>2, <4>3
    <3>2. CASE k \notin Tries
      <4>1. job[s].tries[2] = MaxStalled
        BY <1>2, <3>2, Stalled
      <4> QED
        BY <2>3, <4>1 DEF CrashProcess
    <3> QED
      BY <3>1, <3>2
  <2> QED
    BY <1>3, <1>6, <2>1, <2>2, <2>3 DEF IndexProcess, EnsureExists, EnsureCreate
<1> QED
  BY <1>3, <1>4, <1>5, <1>6
     DEF Next, ReindexRead, ReindexWrite, ReindexFails, WipeElasticsearch, vars
-----------------------------------------------------------------------------
(* Every row gets a document *)

\* A row without a document has a job on its way or in a slot, or one that stalled
\* too often.
DocInv ==
  \A e \in Emails :
    status[e] # "absent" =>
      \/ docs[e] # "none" \/ Pending(e) \/ \E s \in Slots : job[s].email = e
      \/ e \in stalledOut \/ Used({"enqueue", "wipe"}) \/ Exhausted

\* That a job stalled too often is not forgotten.
LEMMA StalledOutStep == [Next]_vars => stalledOut \subseteq stalledOut'
BY DEF Next, Producer, IndexSlot, IndexProcess, Transition, SweepRow, EnqueueIndex,
       LoseEnqueue, FetchIndexJob, GetEmailForIndex, Ensured, IndexEmail, IndexEmailFails,
       RetryJob, EnsureExists, EnsureCreate, EnsureFails, CrashProcess, ReindexRead,
       ReindexWrite, ReindexFails, WipeElasticsearch, vars, history

LEMMA DocInit == Init => DocInv
BY DEF Init, DocInv

LEMMA DocStep == IInv /\ MadeInv /\ DocInv /\ [Next]_vars => DocInv'
<1> SUFFICES ASSUME IInv, MadeInv, DocInv, [Next]_vars,
                    ~Used({"enqueue", "wipe"})', ~Exhausted',
                    NEW e \in Emails, status'[e] # "absent", e \notin stalledOut'
             PROVE  \/ docs'[e] # "none" \/ Pending(e)'
                    \/ \E s \in Slots : job'[s].email = e
  BY DEF DocInv
<1>1. /\ ~Used({"enqueue", "wipe"}) /\ ~Exhausted
      /\ ~Fault("wipe") /\ ~Fault("enqueue")
  <2>1. /\ {"enqueue", "wipe"} \in SUBSET FaultKinds
        /\ "wipe" \in FaultKinds /\ "enqueue" \in FaultKinds
    BY DEF FaultKinds
  <2> QED
    BY <2>1, UsedStep, FaultUsed
<1> e \notin stalledOut
  BY StalledOutStep
<1>2. CASE status[e] = "absent"
  <2>1. PICK f \in Emails : Transition(f) \/ SweepRow(f)
    BY <1>2 DEF Next, Producer, IndexSlot, IndexProcess, EnqueueIndex, LoseEnqueue,
         FetchIndexJob, GetEmailForIndex, Ensured, IndexEmail, IndexEmailFails, RetryJob,
         EnsureExists, EnsureCreate, EnsureFails, CrashProcess, ReindexRead, ReindexWrite,
         ReindexFails, WipeElasticsearch, vars
  <2>2. f = e /\ Transition(e)
    BY <1>2, <2>1 DEF Transition, SweepRow, IInv, TypeOK
  <2>3. adding'[e] > 0
    BY <2>2 DEF Transition, IInv, TypeOK
  <2> QED
    BY <2>3 DEF Pending
<1>3. CASE docs[e] # "none"
  <2>1. docs'[e] # "none"
    <3>1. ASSUME NEW S, NEW written \in [S -> Statuses], Upsert(written) PROVE docs'[e] # "none"
      BY <1>3, <3>1 DEF Upsert, Statuses
    <3>2. ASSUME NEW s \in Slots, IndexEmail(s) \/ IndexEmailFails(s) PROVE docs'[e] # "none"
      <4>1. [f \in {job[s].email} |-> row[s]] \in [{job[s].email} -> Statuses]
        BY DEF IInv, TypeOK
      <4> QED
        BY <1>3, <3>1, <3>2, <4>1 DEF IndexEmail, IndexEmailFails, esVars, history
    <3>3. ASSUME NEW f \in Emails, ReindexWrite(f) PROVE docs'[e] # "none"
      <4>1. [g \in {f} |-> script[f]] \in [{f} -> Statuses]
        BY <3>3, ScriptType DEF IInv, ReindexWrite
      <4> QED
        BY <3>1, <3>3, <4>1 DEF ReindexWrite
    <3> QED
      BY <1>1, <1>3, <3>2, <3>3
         DEF Next, Producer, IndexSlot, IndexProcess, Transition, SweepRow, EnqueueIndex,
             LoseEnqueue, FetchIndexJob, GetEmailForIndex, Ensured, RetryJob, EnsureExists,
             EnsureCreate, EnsureFails, CrashProcess, ReindexRead, ReindexFails,
             WipeElasticsearch, vars, esVars, history
  <2> QED
    BY <2>1
<1>4. CASE Pending(e)
  <2>1. CASE \E s \in Slots, k \in Tries : FetchIndexJob(s, e, k)
    BY <2>1 DEF FetchIndexJob, IInv, TypeOK
  <2> QED
    BY <1>1, <1>4, <2>1, PendingStep
<1>5. ASSUME NEW s \in Slots, job[s].email = e
      PROVE  docs'[e] # "none" \/ Pending(e)' \/ job'[s].email = e
  <2>1. CASE IndexEmail(s)
    <3>1. docs'[e] = row[s] /\ row[s] \in Statuses
      BY <1>5, <2>1 DEF IndexEmail, Upsert, IInv, TypeOK
    <3> QED
      BY <3>1 DEF Statuses
  <2> QED
    BY <1>5, <2>1, JobStep
<1> QED
  BY <1>1, <1>2, <1>3, <1>4, <1>5 DEF DocInv

\* At-least-once indexing: as long as Elasticsearch fails fewer times than a job has
\* attempts and keeps its data, and no enqueue is lost, a row whose jobs are done has
\* a document, whichever worker processes die in the middle of a job, up to the kill
\* of one job that exceeds maxStalledCount.
THEOREM RowsAreSearchable == Spec => []EveryRowSearchable
<1>1. DocInv => EveryRowSearchable
  <2> SUFFICES ASSUME DocInv, NEW e \in Emails, Settled(e), status[e] # "absent"
               PROVE  docs[e] # "none" \/ e \in stalledOut \/ Used({"enqueue", "wipe"}) \/ Exhausted
    BY DEF EveryRowSearchable
  <2>1. ~Pending(e)
    BY DEF Settled, Pending
  <2> QED
    BY <2>1 DEF DocInv, Settled
<1> QED
  BY <1>1, InitIInv, IInvStep, MadeInit, MadeStep, DocInit, DocStep, PTL DEF Spec
-----------------------------------------------------------------------------
(* Documents show their rows *)

Disturbances == {"enqueue", "wipe", "sweep", "reindex"}

\* A row that runs have indexed one at a time, none of which stalled too often: what
\* the run in a slot has read, or what the document shows without one, is the row's
\* status, or there is a job on its way that will read it anew.
FreshInv ==
  \/ Used(Disturbances) \/ Exhausted
  \/ /\ DOMAIN script = {}
     /\ \A e \in Emails \ (overlapped \cup stalledOut) :
          /\ \A s, t \in Slots : job[s].email = e /\ job[t].email = e => s = t
          /\ docs[e] # status[e] /\ status[e] # "absent" =>
               Pending(e) \/ \E s \in Slots : job[s].email = e
          /\ \A s \in Slots : job[s].email = e /\ pc[s] \in {"ensure", "write"} =>
               row[s] = status[e] \/ Pending(e)

LEMMA FreshInit == Init => FreshInv
BY IndexAssumption DEF Init, FreshInv, NoJob

\* What moves a row, a document or the row a slot has read.
LEMMA RowSteps ==
  ASSUME IInv, [Next]_vars, NEW e \in Emails, ~Fault("sweep"), ~Fault("wipe"),
         DOMAIN script = {}
  PROVE  /\ overlapped \subseteq overlapped'
         /\ status'[e] # status[e] => Pending(e)'
         /\ docs'[e] # docs[e] =>
              \E s \in Slots : /\ job[s].email = e /\ pc[s] = "write"
                               /\ docs'[e] = row[s]
         /\ \A s \in Slots :
              job'[s].email = e /\ pc'[s] \in {"ensure", "write"} =>
                \/ job[s].email = e /\ pc[s] \in {"ensure", "write"} /\ row'[s] = row[s]
                \/ row'[s] = status[e] /\ UNCHANGED status
         /\ \A s \in Slots : job'[s].email = e /\ job[s].email # e =>
              \E k \in Tries : FetchIndexJob(s, e, k)
<1>1. /\ status \in [Emails -> Statuses] /\ adding \in [Emails -> Nat]
      /\ pc \in [Slots -> {"idle", "read", "ensure", "write", "throw"}]
      /\ job \in [Slots -> [email : Emails \cup {None}, tries : Tries]]
      /\ row \in [Slots -> Statuses]
      /\ docs \in [Emails -> Statuses \cup {"none"}]
      /\ \A s \in Slots : pc[s] # "idle" => job[s].email \in Emails
      /\ None \notin Emails
  BY IndexAssumption DEF IInv, TypeOK, SlotInv
<1> USE <1>1 DEF slotVars, esVars, history
<1> DEFINE
      Slot(s) ==
        /\ job'[s].email = e /\ pc'[s] \in {"ensure", "write"} =>
             \/ job[s].email = e /\ pc[s] \in {"ensure", "write"} /\ row'[s] = row[s]
             \/ row'[s] = status[e] /\ UNCHANGED status
        /\ job'[s].email = e /\ job[s].email # e =>
             \E k \in Tries : FetchIndexJob(s, e, k)
<1>2. ASSUME NEW f \in Emails, Producer(f)
      PROVE  /\ UNCHANGED <<pc, job, row, docs, overlapped>>
             /\ status'[e] # status[e] => Pending(e)'
  <2>1. CASE Transition(f)
    <3>1. status'[e] # status[e] => adding'[e] > 0
      BY <2>1 DEF Transition
    <3> QED
      BY <2>1, <3>1 DEF Transition, Pending
  <2> QED
    BY <1>2, <2>1 DEF Producer, SweepRow, EnqueueIndex, LoseEnqueue
<1>3. ASSUME NEW t \in Slots, IndexSlot(t)
      PROVE  /\ UNCHANGED status /\ overlapped \subseteq overlapped'
             /\ \A s \in Slots : Slot(s)
             /\ docs'[e] # docs[e] =>
                  job[t].email = e /\ pc[t] = "write" /\ docs'[e] = row[t]
  <2>1. ASSUME NEW f \in Emails, NEW k \in Tries, FetchIndexJob(t, f, k)
        PROVE  /\ UNCHANGED <<status, docs>> /\ overlapped \subseteq overlapped'
               /\ \A s \in Slots : Slot(s)
    <3>1. /\ UNCHANGED <<status, docs, row>> /\ overlapped \subseteq overlapped'
          /\ pc' = [pc EXCEPT ![t] = "read"]
          /\ job' = [job EXCEPT ![t] = [email |-> f, tries |-> k]]
      BY <2>1 DEF FetchIndexJob
    <3>2. job'[t].email = e => f = e
      BY <3>1
    <3> QED
      BY <2>1, <3>1, <3>2
  <2>2. CASE GetEmailForIndex(t)
    BY <2>2 DEF GetEmailForIndex
  <2>3. CASE Ensured(t)
    BY <2>3 DEF Ensured
  <2>4. Release(t) => \A s \in Slots : Slot(s)
    BY DEF Release, NoJob
  <2>5. pc[t] = "write" /\ Upsert([f \in {job[t].email} |-> row[t]]) /\ docs'[e] # docs[e]
          => job[t].email = e /\ docs'[e] = row[t]
    BY DEF Upsert
  <2>6. CASE IndexEmail(t)
    BY <2>4, <2>5, <2>6 DEF IndexEmail
  <2>7. CASE IndexEmailFails(t)
    BY <2>5, <2>7 DEF IndexEmailFails
  <2>8. CASE RetryJob(t)
    BY <2>4, <2>8 DEF RetryJob
  <2> QED
    BY <1>3, <2>1, <2>2, <2>3, <2>6, <2>7, <2>8 DEF IndexSlot
<1>4. ASSUME NEW p \in Procs, IndexProcess(p)
      PROVE  UNCHANGED <<status, docs, overlapped>> /\ \A s \in Slots : Slot(s)
  BY <1>4 DEF IndexProcess, EnsureExists, EnsureCreate, EnsureFails, CrashProcess, NoJob
<1>5. (\E f \in Emails : ReindexWrite(f)) \/ WipeElasticsearch => FALSE
  BY DEF ReindexWrite, WipeElasticsearch
<1>6. ReindexRead \/ ReindexFails \/ UNCHANGED vars =>
        UNCHANGED <<pc, job, row, status, docs, overlapped>>
  BY DEF ReindexRead, ReindexFails, vars
<1> HIDE DEF Slot
<1>7. UNCHANGED <<pc, job, row>> => \A s \in Slots : Slot(s)
  BY DEF Slot
<1>8. /\ overlapped \subseteq overlapped'
      /\ status'[e] # status[e] => Pending(e)'
      /\ docs'[e] # docs[e] =>
           \E s \in Slots : /\ job[s].email = e /\ pc[s] = "write"
                            /\ docs'[e] = row[s]
      /\ \A s \in Slots : Slot(s)
  BY <1>2, <1>3, <1>4, <1>5, <1>6, <1>7 DEF Next
<1> QED
  BY <1>8 DEF Slot

LEMMA FreshStep == IInv /\ MadeInv /\ FreshInv /\ [Next]_vars => FreshInv'
<1> SUFFICES ASSUME IInv, MadeInv, FreshInv, [Next]_vars,
                    ~Used(Disturbances)', ~Exhausted'
             PROVE  FreshInv'
  BY DEF FreshInv
<1>1. /\ ~Used(Disturbances) /\ ~Exhausted
      /\ \A k \in Disturbances : ~Fault(k)
  <2>1. Disturbances \in SUBSET FaultKinds
    BY DEF FaultKinds, Disturbances
  <2>2. \A k \in Disturbances : Fault(k) => Used(Disturbances)'
    BY <2>1, FaultUsed
  <2> QED
    BY <2>1, <2>2, UsedStep
<1>2. ~Fault("enqueue") /\ ~Fault("wipe") /\ ~Fault("sweep") /\ ~Fault("reindex")
  BY <1>1 DEF Disturbances
<1>3. DOMAIN script = {}
  BY <1>1 DEF FreshInv
<1>4. DOMAIN script' = {}
  <2>1. script' = script \/ script' = << >>
    BY <1>2, <1>3
       DEF Next, Producer, IndexSlot, IndexProcess, Transition, SweepRow, EnqueueIndex,
           LoseEnqueue, FetchIndexJob, GetEmailForIndex, Ensured, IndexEmail,
           IndexEmailFails, RetryJob, EnsureExists, EnsureCreate, EnsureFails, CrashProcess,
           ReindexRead, ReindexWrite, ReindexFails, WipeElasticsearch, vars
  <2> QED
    BY <1>3, <2>1
<1>5. SUFFICES ASSUME NEW e \in Emails, e \notin overlapped', e \notin stalledOut'
               PROVE
                 /\ \A s, t \in Slots : job'[s].email = e /\ job'[t].email = e => s = t
                 /\ docs'[e] # status'[e] /\ status'[e] # "absent" =>
                      Pending(e)' \/ \E s \in Slots : job'[s].email = e
                 /\ \A s \in Slots : job'[s].email = e /\ pc'[s] \in {"ensure", "write"} =>
                      row'[s] = status'[e] \/ Pending(e)'
  BY <1>4 DEF FreshInv
<1>6. /\ overlapped \subseteq overlapped'
      /\ status'[e] # status[e] => Pending(e)'
      /\ docs'[e] # docs[e] =>
           \E s \in Slots : /\ job[s].email = e /\ pc[s] = "write"
                            /\ docs'[e] = row[s]
      /\ \A s \in Slots :
           job'[s].email = e /\ pc'[s] \in {"ensure", "write"} =>
             \/ job[s].email = e /\ pc[s] \in {"ensure", "write"} /\ row'[s] = row[s]
             \/ row'[s] = status[e] /\ UNCHANGED status
      /\ \A s \in Slots : job'[s].email = e /\ job[s].email # e =>
           \E k \in Tries : FetchIndexJob(s, e, k)
  BY <1>2, <1>3, RowSteps
<1>7. /\ \A s, t \in Slots : job[s].email = e /\ job[t].email = e => s = t
      /\ docs[e] # status[e] /\ status[e] # "absent" =>
           Pending(e) \/ \E s \in Slots : job[s].email = e
      /\ \A s \in Slots : job[s].email = e /\ pc[s] \in {"ensure", "write"} =>
           row[s] = status[e] \/ Pending(e)
  <2>1. e \notin stalledOut
    BY <1>5, StalledOutStep
  <2> QED
    BY <1>1, <1>5, <1>6, <2>1 DEF FreshInv
<1>8. ASSUME NEW s \in Slots, NEW k \in Tries, FetchIndexJob(s, e, k)
      PROVE  /\ \A t \in Slots : job[t].email # e
             /\ \A t \in Slots : job'[t].email = e => t = s
             /\ job'[s].email = e /\ pc'[s] = "read"
  <2>1. \A t \in Slots : job[t].email # e
    BY <1>5, <1>8 DEF FetchIndexJob
  <2>2. /\ job' = [job EXCEPT ![s] = [email |-> e, tries |-> k]]
        /\ pc' = [pc EXCEPT ![s] = "read"]
    BY <1>8 DEF FetchIndexJob
  <2> QED
    BY <2>1, <2>2 DEF IInv, TypeOK
<1>9. CASE \E s \in Slots, k \in Tries : FetchIndexJob(s, e, k)
  <2>1. PICK s \in Slots, k \in Tries : FetchIndexJob(s, e, k)
    BY <1>9
  <2> QED
    BY <1>8, <2>1
<1>10. CASE ~(\E s \in Slots, k \in Tries : FetchIndexJob(s, e, k))
  <2>1. \A s \in Slots : job'[s].email = e => job[s].email = e
    BY <1>6, <1>10
  <2>2. Pending(e) => Pending(e)'
    BY <1>2, <1>10, PendingStep
  <2>3. \A s \in Slots : job'[s].email = e /\ pc'[s] \in {"ensure", "write"} =>
          row'[s] = status'[e] \/ Pending(e)'
    BY <1>6, <1>7, <2>2
  <2>4. ASSUME docs'[e] # status'[e], status'[e] # "absent", ~Pending(e)'
        PROVE  \E s \in Slots : job'[s].email = e
    <3>1. status'[e] = status[e] /\ ~Pending(e)
      BY <1>6, <2>2, <2>4
    <3>2. PICK s \in Slots : job[s].email = e
      <4>1. CASE docs'[e] # docs[e]
        BY <1>6, <4>1
      <4>2. CASE docs'[e] = docs[e]
        BY <1>7, <2>4, <3>1, <4>2
      <4> QED
        BY <4>1, <4>2
    <3>3. ~IndexEmail(s)
      <4>1. ASSUME IndexEmail(s) PROVE docs'[e] = row[s] /\ row[s] = status[e]
        BY <1>7, <3>1, <3>2, <4>1 DEF IndexEmail, Upsert, IInv, TypeOK
      <4> QED
        BY <2>4, <3>1, <4>1
    <3>4. job'[s] = job[s]
      BY <1>5, <2>4, <3>2, <3>3, JobStep
    <3> QED
      BY <3>2, <3>4
  <2> QED
    BY <1>7, <2>1, <2>3, <2>4
<1> QED
  BY <1>9, <1>10

\* Retries, killed processes and jobs that run in any order one after another do no
\* harm: a row whose jobs are all done has a document that shows its status, unless
\* two of its jobs ran at the same time, one of them was killed more often than
\* maxStalledCount allows, the sweep or the rebuild script had a hand in it, or
\* something was lost.
THEOREM StaleRowsHaveCause == Spec => []StaleHasCause
<1>1. FreshInv => StaleHasCause
  <2> SUFFICES ASSUME FreshInv, NEW e \in Emails, Settled(e), status[e] # "absent",
                      e \notin overlapped \cup stalledOut, ~Used(Disturbances), ~Exhausted
               PROVE  docs[e] = status[e]
    BY DEF StaleHasCause, Disturbances
  <2>1. ~Pending(e) /\ \A s \in Slots : job[s].email # e
    BY DEF Settled, Pending
  <2> QED
    BY <2>1 DEF FreshInv
<1> QED
  BY <1>1, InitIInv, IInvStep, MadeInit, MadeStep, FreshInit, FreshStep, PTL DEF Spec

===============================================================================
