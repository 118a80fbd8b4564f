-------------------------- MODULE TaskQueue_proof --------------------------
(***************************************************************************)
(* Proofs about TaskQueue for any finite set of tasks, any number of       *)
(* workers and any history length.                                         *)
(***************************************************************************)
EXTENDS TaskQueue, FiniteSetTheorems, TLAPS

\* Trim only ever drops the head of the order it is given, and only a
\* terminal task from the tracked set.
LEMMA TrimFacts ==
    ASSUME TypeOK, NEW o \in Seq(Ids), NEW ts \in SUBSET Ids
    PROVE  /\ Trim(o, ts).order \in Seq(Ids)
           /\ Trim(o, ts).tasks \in SUBSET ts
           /\ \A i \in ts \ Trim(o, ts).tasks : task[i].status \in Terminal
  <1>1. Len(o) > MaxHistory => o # <<>>
    BY TaskQueueAssumption, SMT
  <1>2. Len(o) > MaxHistory => Tail(o) \in Seq(Ids)
    BY <1>1, SMT
  <1> QED
    BY <1>2, SMT DEF Trim

\* Type correctness: no interleaving of submit(), the task threads and
\* result() leaves a field, a counter or a reader outside its type.
THEOREM TypeCorrect == Spec => []TypeOK
  <1>1. Init => TypeOK
    BY SMT, TaskQueueAssumption
    DEF Init, TypeOK, NewTask, Task, Statuses, PCs, Idle, Waiters
  <1>2. TypeOK /\ [Next]_vars => TypeOK'
    <2> SUFFICES ASSUME TypeOK, [Next]_vars
                 PROVE  TypeOK'
      OBVIOUS
    <2> USE DEF TypeOK, PCs
    <2>1. ASSUME NEW i \in Ids, Submit(i)
          PROVE  TypeOK'
      <3>1. Append(order, i) \in Seq(Ids) /\ tasks \cup {i} \in SUBSET Ids
        OBVIOUS
      <3>2. order' \in Seq(Ids) /\ tasks' \in SUBSET Ids
        BY <2>1, <3>1, TrimFacts DEF Submit
      <3> QED
        BY <2>1, <3>2 DEF Submit
    <2>2. ASSUME NEW i \in Ids, ThreadStep(i)
          PROVE  TypeOK'
      <3>1. CASE StartThread(i) \/ Unwind(i)
        BY <3>1 DEF StartThread, Unwind
      <3>2. CASE AcquireSlot(i) \/ CountOut(i) \/ ReleaseSlot(i)
        BY <3>2 DEF AcquireSlot, CountOut, ReleaseSlot
      <3>3. CASE Begin(i)
        <4>1. task' \in [Ids -> Task]
          BY <3>3 DEF Begin, Task, Statuses
        <4> QED
          BY <3>3, <4>1 DEF Begin
      <3>4. CASE StoreResult(i)
        BY <3>4 DEF StoreResult, Task, Statuses
      <3>5. CASE MarkCompleted(i)
        BY <3>5 DEF MarkCompleted, Task, Statuses
      <3>6. CASE MarkFailed(i)
        BY <3>6 DEF MarkFailed, Task, Statuses
      <3>7. CASE StoreError(i)
        BY <3>7 DEF StoreError, Task, Statuses
      <3>8. CASE StampFinished(i)
        BY <3>8 DEF StampFinished, Task, Statuses
      <3> QED
        BY <2>2, <3>1, <3>2, <3>3, <3>4, <3>5, <3>6, <3>7, <3>8 DEF ThreadStep
    <2>3. ASSUME NEW c \in Callers, NEW i \in Ids, ResultLookup(c, i)
          PROVE  TypeOK'
      BY <2>3 DEF ResultLookup, Waiters
    <2>4. ASSUME NEW c \in Callers, ResultRead(c)
          PROVE  TypeOK'
      BY <2>4 DEF ResultRead, Waiters, Task, Terminal
    <2>5. ASSUME NEW c \in Callers, ResultReturn(c)
          PROVE  TypeOK'
      BY <2>5 DEF ResultReturn, Waiters, Task, Terminal
    <2>6. CASE UNCHANGED vars
      BY <2>6 DEF vars
    <2> QED
      BY <2>1, <2>2, <2>3, <2>4, <2>5, <2>6 DEF Next, ResultStep
  <1> QED
    BY <1>1, <1>2, PTL DEF Spec

-----------------------------------------------------------------------------

\* The inductive strengthening: the counter is exactly the number of threads
\* between Begin and CountOut.
SlotInv ==
    /\ SlotsConserved
    /\ active = Cardinality(Counted)

LEMMA ThreadSetsFinite ==
    /\ IsFiniteSet(Holders) /\ IsFiniteSet(Counted)
    /\ Cardinality(Holders) \in Nat /\ Cardinality(Counted) \in Nat
  <1>1. Holders \in SUBSET Ids /\ Counted \in SUBSET Ids
    BY DEF Holders, Counted
  <1>2. IsFiniteSet(Holders) /\ IsFiniteSet(Counted)
    BY <1>1, FS_Subset, TaskQueueAssumption
  <1> QED
    BY <1>2, FS_CardinalityType

\* At most max_workers threads are inside, and the counter is never negative.
LEMMA SlotInvBounds ==
    ASSUME TypeOK, SlotInv
    PROVE  ActiveWithinWorkers
  <1>1. Counted \subseteq Holders
    BY DEF Counted, Holders
  <1>2. Cardinality(Counted) <= Cardinality(Holders)
    BY <1>1, ThreadSetsFinite, FS_Subset
  <1> QED
    BY <1>2, ThreadSetsFinite, TaskQueueAssumption
    DEF SlotInv, SlotsConserved, ActiveWithinWorkers, TypeOK

\* The slots and the active counter add up in every reachable state.
LEMMA SlotInvariant == Spec => []SlotInv
  <1>1. Init => SlotInv
    <2> SUFFICES ASSUME Init PROVE SlotInv
      OBVIOUS
    <2>1. Holders = {} /\ Counted = {}
      BY DEF Init, Holders, Counted
    <2> QED
      BY <2>1, FS_EmptySet, TaskQueueAssumption DEF Init, SlotInv, SlotsConserved
  <1>2. TypeOK /\ SlotInv /\ [Next]_vars => SlotInv'
    <2> SUFFICES ASSUME TypeOK, SlotInv, [Next]_vars
                 PROVE  SlotInv'
      OBVIOUS
    <2>0. /\ IsFiniteSet(Holders) /\ IsFiniteSet(Counted)
          /\ Cardinality(Holders) \in Nat /\ Cardinality(Counted) \in Nat
      BY ThreadSetsFinite
    <2>s. sem \in Int /\ active \in Int /\ pc \in [Ids -> PCs] /\ MaxWorkers \in Nat
      BY TaskQueueAssumption DEF TypeOK
    <2>1. ASSUME NEW i \in Ids, AcquireSlot(i)
          PROVE  SlotInv'
      <3>1. Holders' = Holders \cup {i} /\ i \notin Holders /\ Counted' = Counted
        BY <2>1, <2>s DEF AcquireSlot, Holders, Counted
      <3>2. Cardinality(Holders') = Cardinality(Holders) + 1
        BY <3>1, <2>0, FS_AddElement
      <3> QED
        BY <3>1, <3>2, <2>0, <2>1, <2>s DEF AcquireSlot, SlotInv, SlotsConserved
    <2>2. ASSUME NEW i \in Ids, Begin(i)
          PROVE  SlotInv'
      <3>1. Counted' = Counted \cup {i} /\ i \notin Counted /\ Holders' = Holders
        BY <2>2, <2>s DEF Begin, Holders, Counted
      <3>2. Cardinality(Counted') = Cardinality(Counted) + 1
        BY <3>1, <2>0, FS_AddElement
      <3> QED
        BY <3>1, <3>2, <2>0, <2>2, <2>s DEF Begin, SlotInv, SlotsConserved
    <2>3. ASSUME NEW i \in Ids, CountOut(i)
          PROVE  SlotInv'
      <3>1. Counted' = Counted \ {i} /\ i \in Counted /\ Holders' = Holders
        BY <2>3, <2>s DEF CountOut, Holders, Counted
      <3>2. Cardinality(Counted') = Cardinality(Counted) - 1
        BY <3>1, <2>0, FS_RemoveElement
      <3> QED
        BY <3>1, <3>2, <2>0, <2>3, <2>s DEF CountOut, SlotInv, SlotsConserved
    <2>4. ASSUME NEW i \in Ids, ReleaseSlot(i)
          PROVE  SlotInv'
      <3>1. Holders' = Holders \ {i} /\ i \in Holders /\ Counted' = Counted
        BY <2>4, <2>s DEF ReleaseSlot, Holders, Counted
      <3>2. Cardinality(Holders') = Cardinality(Holders) - 1
        BY <3>1, <2>0, FS_RemoveElement
      <3> QED
        BY <3>1, <3>2, <2>0, <2>4, <2>s DEF ReleaseSlot, SlotInv, SlotsConserved
    <2>5. ASSUME NEW i \in Ids,
                 \/ Submit(i) \/ StartThread(i) \/ StoreResult(i)
                 \/ MarkCompleted(i) \/ MarkFailed(i) \/ StoreError(i)
                 \/ Unwind(i) \/ StampFinished(i)
          PROVE  SlotInv'
      <3>1. Holders' = Holders /\ Counted' = Counted
        BY <2>5, <2>s DEF Submit, StartThread, StoreResult, MarkCompleted,
             MarkFailed, StoreError, Unwind, StampFinished, Holders, Counted
      <3>2. sem' = sem /\ active' = active
        BY <2>5 DEF Submit, StartThread, StoreResult, MarkCompleted,
             MarkFailed, StoreError, Unwind, StampFinished
      <3> QED
        BY <3>1, <3>2 DEF SlotInv, SlotsConserved
    <2>6. ASSUME \/ \E c \in Callers : ResultStep(c)
                 \/ \E c \in Callers, i \in Ids : ResultLookup(c, i)
                 \/ UNCHANGED vars
          PROVE  SlotInv'
      BY <2>6 DEF ResultStep, ResultRead, ResultReturn, ResultLookup, vars,
           SlotInv, SlotsConserved, Holders, Counted
    <2> QED
      BY <2>1, <2>2, <2>3, <2>4, <2>5, <2>6 DEF Next, ThreadStep
  <1> QED
    BY <1>1, <1>2, TypeCorrect, PTL DEF Spec

\* No slot is leaked or duplicated and "active" stays within its bounds,
\* whatever way each thread leaves fn().
THEOREM SlotsCorrect == Spec => [](SlotsConserved /\ ActiveWithinWorkers)
  <1>1. TypeOK /\ SlotInv => SlotsConserved /\ ActiveWithinWorkers
    BY SlotInvBounds DEF SlotInv
  <1> QED
    BY <1>1, SlotInvariant, TypeCorrect, PTL

-----------------------------------------------------------------------------

\* A thread that has not begun finds its task pending: a task that was dropped
\* from the history as finished does not come back to life.
PendingInv ==
    /\ UnfinishedTracked
    /\ \A i \in Ids : pc[i] \in {"new", "added", "queued", "slot"}
                         => task[i].status = "pending"

LEMMA PendingStep ==
    ASSUME TypeOK, PendingInv, [Next]_vars
    PROVE  PendingInv'
  <1> USE DEF TypeOK, PendingInv, UnfinishedTracked
  <1>1. ASSUME NEW i \in Ids, Submit(i) PROVE PendingInv'
    <2> DEFINE o == Append(order, i)
               ts == tasks \cup {i}
    <2>1. o \in Seq(Ids) /\ ts \in SUBSET Ids
      OBVIOUS
    <2> HIDE DEF o, ts
    <2>2. \A j \in ts \ Trim(o, ts).tasks : task[j].status \in Terminal
      BY <2>1, TrimFacts
    <2>3. tasks' = Trim(o, ts).tasks /\ task' = task /\ pc' = [pc EXCEPT ![i] = "added"]
      BY <1>1 DEF Submit, o, ts
    <2>4. pc[i] = "new" /\ task[i].status = "pending"
      BY <1>1 DEF Submit
    <2>5. \A j \in Ids : pc'[j] # "new" /\ task[j].status \notin Terminal => j \in ts
      BY <2>3 DEF ts
    <2> QED
      BY <2>2, <2>3, <2>4, <2>5
  <1>2. ASSUME NEW i \in Ids, StartThread(i) \/ AcquireSlot(i) PROVE PendingInv'
    BY <1>2 DEF StartThread, AcquireSlot
  <1>3. ASSUME NEW i \in Ids, Unwind(i) \/ CountOut(i) \/ ReleaseSlot(i) PROVE PendingInv'
    BY <1>3 DEF Unwind, CountOut, ReleaseSlot
  <1>4. ASSUME NEW i \in Ids, Begin(i) PROVE PendingInv'
    <2>1. i \in tasks
      BY <1>4 DEF Begin, Terminal
    <2>2. /\ tasks' = tasks
          /\ \A j \in Ids \ {i} : task'[j] = task[j] /\ pc'[j] = pc[j]
          /\ pc'[i] = "fn"
      BY <1>4 DEF Begin
    <2> QED
      BY <2>1, <2>2
  <1>5. ASSUME NEW i \in Ids,
               \/ StoreResult(i) \/ MarkCompleted(i) \/ MarkFailed(i)
               \/ StoreError(i) \/ StampFinished(i)
        PROVE  PendingInv'
    <2>1. /\ tasks' = tasks
          /\ \A j \in Ids \ {i} : task'[j] = task[j] /\ pc'[j] = pc[j]
          /\ pc[i] \notin {"new", "added", "queued", "slot"}
          /\ pc'[i] \notin {"new", "added", "queued", "slot"}
      BY <1>5 DEF StoreResult, MarkCompleted, MarkFailed, StoreError, StampFinished
    <2>2. task'[i].status \in Terminal \/ task'[i].status = task[i].status
      BY <1>5 DEF StoreResult, MarkCompleted, MarkFailed, StoreError, StampFinished, Terminal, Task
    <2> QED
      BY <2>1, <2>2
  <1>6. ASSUME \/ \E c \in Callers : ResultStep(c)
               \/ \E c \in Callers, i \in Ids : ResultLookup(c, i)
               \/ UNCHANGED vars
        PROVE  PendingInv'
    BY <1>6 DEF ResultStep, ResultRead, ResultReturn, ResultLookup, vars
  <1> QED
    BY <1>1, <1>2, <1>3, <1>4, <1>5, <1>6 DEF Next, ThreadStep

LEMMA PendingInvariant == Spec => []PendingInv
  <1>1. Init => PendingInv
    BY DEF Init, PendingInv, UnfinishedTracked, NewTask
  <1>2. TypeOK /\ PendingInv /\ [Next]_vars => PendingInv'
    BY PendingStep
  <1> QED
    BY <1>1, <1>2, TypeCorrect, PTL DEF Spec

\* However long the history is and however many tasks wait, a task that has
\* not finished can be looked up.
THEOREM TrackedCorrect == Spec => []UnfinishedTracked
  <1>1. PendingInv => UnfinishedTracked
    BY DEF PendingInv
  <1> QED
    BY <1>1, PendingInvariant, PTL

-----------------------------------------------------------------------------

\* What a task's thread has written so far, and what a caller has read of it.
Final == {"finally", "stamped", "counted_out", "ended"}

Outcome(i) ==
    LET t == task[i]
    IN  /\ pc[i] \in {"new", "added", "queued", "slot"} => t.status = "pending" /\ t.result = FALSE
        /\ pc[i] = "fn" => t.status = "running" /\ t.result = FALSE
        /\ pc[i] = "returned" => t.status = "running" /\ t.result = TRUE
        /\ pc[i] = "raised" => t.status = "failed" /\ t.result = FALSE
        /\ pc[i] \in Final => \/ t.status = "completed" /\ t.result = TRUE
                              \/ t.status \in {"failed", "running"} /\ t.result = FALSE

Told(c) ==
    waiter[c].at \in {"reading", "answered"}
        => waiter[c].result = (waiter[c].status = "completed")

OutcomeInv == (\A i \in Ids : Outcome(i)) /\ (\A c \in Callers : Told(c))

LEMMA OutcomeStep ==
    ASSUME TypeOK, OutcomeInv, [Next]_vars
    PROVE  OutcomeInv'
  <1> USE DEF TypeOK, OutcomeInv
  <1>1. ASSUME NEW i \in Ids, Submit(i) \/ ThreadStep(i)
        PROVE  OutcomeInv'
    <2>1. /\ waiter' = waiter
          /\ \A j \in Ids \ {i} : task'[j] = task[j] /\ pc'[j] = pc[j]
      BY <1>1 DEF Submit, ThreadStep, StartThread, AcquireSlot, Begin, StoreResult,
           MarkCompleted, MarkFailed, StoreError, Unwind, StampFinished, CountOut, ReleaseSlot
    <2>2. CASE Submit(i) \/ StartThread(i) \/ AcquireSlot(i) \/ Unwind(i)
                  \/ CountOut(i) \/ ReleaseSlot(i)
      BY <2>2 DEF Submit, StartThread, AcquireSlot, Unwind, CountOut, ReleaseSlot,
           Outcome, Told, Final
    <2>3. CASE Begin(i)
      <3>1. pc'[i] = "fn" /\ task'[i].status = "running"
        BY <2>3 DEF Begin, Task
      <3>2. task'[i].result = FALSE
        BY <2>3 DEF Begin, Outcome, Task
      <3>3. Outcome(i)'
        BY <3>1, <3>2 DEF Outcome, Final
      <3> QED
        BY <2>1, <3>3 DEF Outcome, Told
    <2>4. CASE StoreResult(i)
      <3>1. pc'[i] = "returned" /\ task'[i].status = "running"
        BY <2>4 DEF StoreResult, Outcome, Task
      <3>2. task'[i].result = TRUE
        BY <2>4 DEF StoreResult, Outcome, Task
      <3>3. Outcome(i)'
        BY <3>1, <3>2 DEF Outcome, Final
      <3> QED
        BY <2>1, <3>3 DEF Outcome, Told
    <2>5. CASE MarkCompleted(i)
      <3>1. pc'[i] = "finally" /\ task'[i].status = "completed"
        BY <2>5 DEF MarkCompleted, Task
      <3>2. task'[i].result = TRUE
        BY <2>5 DEF MarkCompleted, Outcome, Task
      <3>3. Outcome(i)'
        BY <3>1, <3>2 DEF Outcome, Final
      <3> QED
        BY <2>1, <3>3 DEF Outcome, Told
    <2>6. CASE MarkFailed(i)
      <3>1. pc'[i] = "raised" /\ task'[i].status = "failed"
        BY <2>6 DEF MarkFailed, Task
      <3>2. task'[i].result = FALSE
        BY <2>6 DEF MarkFailed, Outcome, Task
      <3>3. Outcome(i)'
        BY <3>1, <3>2 DEF Outcome, Final
      <3> QED
        BY <2>1, <3>3 DEF Outcome, Told
    <2>7. CASE StoreError(i) \/ StampFinished(i)
      <3>1. task'[i].status = task[i].status /\ task'[i].result = task[i].result
        BY <2>7 DEF StoreError, StampFinished, Task
      <3>2. pc[i] \in {"raised", "finally"} /\ pc'[i] \in Final
        BY <2>7 DEF StoreError, StampFinished, Final
      <3>3. \/ task[i].status = "completed" /\ task[i].result = TRUE
            \/ task[i].status \in {"failed", "running"} /\ task[i].result = FALSE
        <4>1. Outcome(i)
          OBVIOUS
        <4> QED
          BY <3>2, <4>1 DEF Outcome, Final
      <3>4. Outcome(i)'
        BY <3>1, <3>2, <3>3 DEF Outcome, Final
      <3> QED
        BY <2>1, <3>4 DEF Outcome, Told
    <2> QED
      BY <1>1, <2>2, <2>3, <2>4, <2>5, <2>6, <2>7 DEF ThreadStep
  <1>2. ASSUME NEW c \in Callers, NEW i \in Ids, ResultLookup(c, i)
        PROVE  OutcomeInv'
    BY <1>2 DEF ResultLookup, Outcome, Told
  <1>3. ASSUME NEW c \in Callers, ResultRead(c)
        PROVE  OutcomeInv'
    <2>1. waiter[c].id \in Ids
      BY <1>3 DEF ResultRead, Waiters
    <2>2. LET t == task[waiter[c].id] IN t.status \in Terminal /\ t.result = (t.status = "completed")
      <3>1. Outcome(waiter[c].id) /\ pc[waiter[c].id] \in PCs
        BY <2>1
      <3> QED
        BY <1>3, <3>1 DEF ResultRead, Outcome, Terminal, Final, PCs
    <2>3. Told(c)'
      BY <1>3, <2>2 DEF ResultRead, Told
    <2>4. \A d \in Callers \ {c} : waiter'[d] = waiter[d]
      BY <1>3 DEF ResultRead
    <2> QED
      BY <1>3, <2>3, <2>4 DEF ResultRead, Told, Outcome
  <1>4. ASSUME NEW c \in Callers, ResultReturn(c)
        PROVE  OutcomeInv'
    BY <1>4 DEF ResultReturn, Told, Outcome
  <1>5. CASE UNCHANGED vars
    BY <1>5 DEF vars, Told, Outcome
  <1> QED
    BY <1>1, <1>2, <1>3, <1>4, <1>5 DEF Next, ResultStep

\* The place of a thread and the status it has written say how the job looks.
JobShape ==
    \A i \in Ids :
        /\ pc[i] = "new" <=> JobOf(i) = "new"
        /\ pc[i] \in {"added", "queued", "slot"} => JobOf(i) = "waiting"
        /\ pc[i] \in {"fn", "returned"} <=> JobOf(i) = "running"
        /\ pc[i] \in Final /\ task[i].status = "running" => JobOf(i) = "lost"
        /\ task[i].status \in Terminal => JobOf(i) = task[i].status

LEMMA JobFacts == TypeOK /\ OutcomeInv => JobShape
  BY DEF TypeOK, OutcomeInv, Outcome, JobShape, JobOf, PCs, Final, Terminal

LEMMA JobFactsNext == TypeOK' /\ OutcomeInv' => JobShape'
  BY JobFacts, PTL

\* A task whose thread begins finds a worker free: the threads at work hold a
\* slot each, and so does the one that begins.
LEMMA WorkerFree ==
    ASSUME TypeOK, SlotInv, OutcomeInv, NEW i \in Ids, pc[i] = "slot"
    PROVE  Cardinality({j \in Ids : JobOf(j) = "running"}) < MaxWorkers
  <1> DEFINE R == {j \in Ids : JobOf(j) = "running"}
  <1>1. R = {j \in Ids : pc[j] \in {"fn", "returned"}}
    BY JobFacts DEF JobShape
  <1>2. R \subseteq Holders /\ i \in Holders /\ i \notin R
    BY <1>1 DEF Holders
  <1> HIDE DEF R
  <1>3. IsFiniteSet(R) /\ Cardinality(R) \in Nat
    BY <1>2, ThreadSetsFinite, FS_Subset, FS_CardinalityType
  <1>4. Cardinality(R \cup {i}) = Cardinality(R) + 1
    BY <1>2, <1>3, FS_AddElement
  <1>5. Cardinality(R \cup {i}) <= Cardinality(Holders)
    BY <1>2, ThreadSetsFinite, FS_Subset
  <1>6. Cardinality(Holders) <= MaxWorkers
    BY ThreadSetsFinite, TaskQueueAssumption DEF SlotInv, SlotsConserved, TypeOK
  <1> QED
    BY <1>3, <1>4, <1>5, <1>6, ThreadSetsFinite, TaskQueueAssumption DEF R

LEMMA OutcomeInvariant == Spec => []OutcomeInv
  <1>1. Init => OutcomeInv
    BY DEF Init, OutcomeInv, Outcome, Told, NewTask, Idle, Final
  <1>2. TypeOK /\ OutcomeInv /\ [Next]_vars => OutcomeInv'
    BY OutcomeStep
  <1> QED
    BY <1>1, <1>2, TypeCorrect, PTL DEF Spec

-----------------------------------------------------------------------------
(* Refinement.                                                             *)

\* The instance counts with the Cardinality that FiniteSets defines.
LEMMA PoolCounts == \A S : Pool!Cardinality(S) = Cardinality(S)
  <1>1. \A S : Pool!IsFiniteSet(S) = IsFiniteSet(S)
    BY DEF Pool!IsFiniteSet, IsFiniteSet
  <1> QED
    BY <1>1, Zenon DEF Pool!Cardinality, Cardinality

jobs == [i \in Ids |-> JobOf(i)]
replies == [c \in Callers |-> ReplyOf(c)]

\* A step of one thread changes the job of that thread only.
LEMMA OneJob ==
    ASSUME NEW i \in Ids, waiter' = waiter,
           \A j \in Ids \ {i} : task'[j] = task[j] /\ pc'[j] = pc[j]
    PROVE  /\ jobs' = [jobs EXCEPT ![i] = JobOf(i)']
           /\ replies' = replies
  <1>1. \A j \in Ids \ {i} : JobOf(j)' = JobOf(j)
    BY DEF JobOf
  <1>2. \A c \in Callers : ReplyOf(c)' = ReplyOf(c)
    BY DEF ReplyOf
  <1> QED
    BY <1>1, <1>2 DEF jobs, replies

\* A step of one caller of result() changes its reply only.
LEMMA OneAnswer ==
    ASSUME NEW c \in Callers, task' = task, pc' = pc,
           \A d \in Callers \ {c} : waiter'[d] = waiter[d]
    PROVE  /\ jobs' = jobs
           /\ replies' = [replies EXCEPT ![c] = ReplyOf(c)']
  <1>1. \A j \in Ids : JobOf(j)' = JobOf(j)
    BY DEF JobOf
  <1>2. \A d \in Callers \ {c} : ReplyOf(d)' = ReplyOf(d)
    BY DEF ReplyOf
  <1> QED
    BY <1>1, <1>2 DEF jobs, replies

\* Every step of a thread or a caller is a step of the pool, or none.
LEMMA PoolStep ==
    ASSUME TypeOK, SlotInv, PendingInv, OutcomeInv, TypeOK', OutcomeInv', [Next]_vars
    PROVE  [Pool!Next]_(Pool!pool)
  <1> USE DEF Pool!pool, jobs, replies
  <1>j. JobShape /\ JobShape'
    BY JobFacts, JobFactsNext
  <1>1. ASSUME NEW i \in Ids, Submit(i)
        PROVE  Pool!Submit(i)
    <2>1. pc[i] = "new" /\ pc'[i] = "added" /\ waiter' = waiter
      BY <1>1 DEF Submit, TypeOK
    <2>2. \A j \in Ids \ {i} : task'[j] = task[j] /\ pc'[j] = pc[j]
      BY <1>1 DEF Submit, TypeOK
    <2>3. JobOf(i) = "new" /\ JobOf(i)' = "waiting"
      BY <1>j, <2>1 DEF JobShape
    <2> QED
      BY <2>1, <2>2, <2>3, OneJob DEF Pool!Submit
  <1>2. ASSUME NEW i \in Ids, Begin(i)
        PROVE  Pool!Start(i)
    <2>1. pc[i] = "slot" /\ pc'[i] = "fn" /\ waiter' = waiter
      BY <1>2 DEF Begin, TypeOK
    <2>2. \A j \in Ids \ {i} : task'[j] = task[j] /\ pc'[j] = pc[j]
      BY <1>2 DEF Begin, TypeOK
    <2>3. JobOf(i) = "waiting" /\ JobOf(i)' = "running"
      BY <1>j, <2>1 DEF JobShape
    <2>4. Pool!Cardinality(Pool!Running) < MaxWorkers
      <3>1. Pool!Running = {j \in Ids : JobOf(j) = "running"}
        BY DEF Pool!Running
      <3> QED
        BY <2>1, <3>1, WorkerFree, PoolCounts
    <2> QED
      BY <2>1, <2>2, <2>3, <2>4, OneJob DEF Pool!Start
  <1>3. ASSUME NEW i \in Ids, MarkCompleted(i) \/ MarkFailed(i) \/ Unwind(i)
        PROVE  Pool!Finish(i)
    <2>1. pc[i] \in {"fn", "returned"} /\ waiter' = waiter
      BY <1>3 DEF MarkCompleted, MarkFailed, Unwind
    <2>2. \A j \in Ids \ {i} : task'[j] = task[j] /\ pc'[j] = pc[j]
      BY <1>3 DEF MarkCompleted, MarkFailed, Unwind, TypeOK
    <2>3. \/ task'[i].status \in Terminal
          \/ pc'[i] \in Final /\ task'[i].status = "running"
      <3>1. CASE MarkCompleted(i) \/ MarkFailed(i)
        BY <3>1 DEF MarkCompleted, MarkFailed, TypeOK, Task, Terminal
      <3>2. CASE Unwind(i)
        <4>1. task[i].status = "running"
          BY <3>2 DEF Unwind, OutcomeInv, Outcome
        <4> QED
          BY <3>2, <4>1 DEF Unwind, TypeOK, Final
      <3> QED
        BY <1>3, <3>1, <3>2
    <2>4. JobOf(i) = "running" /\ JobOf(i)' \in Pool!Ended \cup {"lost"}
      BY <1>j, <2>1, <2>3 DEF JobShape, Pool!Ended, Terminal
    <2> QED
      BY <2>1, <2>2, <2>4, OneJob DEF Pool!Finish
  <1>4. ASSUME NEW i \in Ids,
               \/ StartThread(i) \/ AcquireSlot(i) \/ StoreResult(i)
               \/ StoreError(i) \/ StampFinished(i) \/ CountOut(i) \/ ReleaseSlot(i)
        PROVE  UNCHANGED <<jobs, replies>>
    <2>1. /\ waiter' = waiter
          /\ \A j \in Ids \ {i} : task'[j] = task[j] /\ pc'[j] = pc[j]
      BY <1>4 DEF StartThread, AcquireSlot, StoreResult, StoreError, StampFinished,
           CountOut, ReleaseSlot, TypeOK
    <2>2. JobOf(i)' = JobOf(i)
      <3>1. CASE StartThread(i) \/ AcquireSlot(i) \/ StoreResult(i)
        BY <1>j, <3>1 DEF JobShape, StartThread, AcquireSlot, StoreResult, TypeOK
      <3>2. CASE StoreError(i) \/ StampFinished(i)
        BY <3>2 DEF JobOf, StoreError, StampFinished, TypeOK, Task, PCs
      <3>3. CASE CountOut(i) \/ ReleaseSlot(i)
        BY <3>3 DEF JobOf, CountOut, ReleaseSlot, TypeOK
      <3> QED
        BY <1>4, <3>1, <3>2, <3>3
    <2> QED
      BY <2>1, <2>2, OneJob
  <1>5. ASSUME NEW c \in Callers, NEW i \in Ids, ResultLookup(c, i)
        PROVE  Pool!Ask(c, i) \/ Pool!Unknown(c, i)
    <2>1. /\ task' = task /\ pc' = pc
          /\ \A d \in Callers \ {c} : waiter'[d] = waiter[d]
          /\ pc[i] # "new" /\ waiter[c].at \in {"idle", "answered", "none"}
      BY <1>5 DEF ResultLookup, TypeOK
    <2>2. ReplyOf(c).at # "asked" /\ JobOf(i) # "new"
      BY <1>j, <2>1 DEF ReplyOf, Idle, JobShape
    <2>3. CASE i \in tasks
      <3>1. ReplyOf(c)' = [at |-> "asked", id |-> i]
        BY <1>5, <2>3 DEF ResultLookup, ReplyOf, TypeOK
      <3> QED
        BY <2>1, <2>2, <3>1, OneAnswer DEF Pool!Ask
    <2>4. CASE i \notin tasks
      <3>1. ReplyOf(c)' = [at |-> "unknown", id |-> i]
        BY <1>5, <2>4 DEF ResultLookup, ReplyOf, TypeOK
      <3>2. JobOf(i) \in Pool!Ended
        BY <1>j, <2>1, <2>4 DEF PendingInv, UnfinishedTracked, JobShape, Pool!Ended, Terminal
      <3> QED
        BY <2>1, <2>2, <3>1, <3>2, OneAnswer DEF Pool!Unknown
    <2> QED
      BY <2>3, <2>4
  <1>6. ASSUME NEW c \in Callers, ResultRead(c)
        PROVE  Pool!Answer(c)
    <2> DEFINE i == waiter[c].id
    <2>1. /\ task' = task /\ pc' = pc
          /\ \A d \in Callers \ {c} : waiter'[d] = waiter[d]
          /\ waiter[c].at = "polling" /\ task[i].status \in Terminal
      BY <1>6 DEF ResultRead, TypeOK
    <2>2. i \in Ids
      BY <2>1 DEF TypeOK, Waiters
    <2>3. JobOf(i) = task[i].status
      BY <1>j, <2>1, <2>2 DEF JobShape
    <2>4. /\ waiter'[c].at = "reading" /\ waiter'[c].id = i
          /\ waiter'[c].status = task[i].status
      BY <1>6 DEF ResultRead, TypeOK
    <2>5. waiter'[c].result = (task[i].status = "completed")
      BY <2>4 DEF OutcomeInv, Told
    <2>6. ReplyOf(c) = [at |-> "asked", id |-> i]
      BY <2>1 DEF ReplyOf
    <2>7. ReplyOf(c)' = [at |-> "answered", id |-> i, how |-> JobOf(i),
                         result |-> JobOf(i) = "completed"]
      BY <2>3, <2>4, <2>5 DEF ReplyOf
    <2> QED
      BY <2>1, <2>2, <2>3, <2>6, <2>7, OneAnswer DEF Pool!Answer, Pool!Ended, Terminal
  <1>7. ASSUME NEW c \in Callers, ResultReturn(c)
        PROVE  UNCHANGED <<jobs, replies>>
    <2>1. /\ task' = task /\ pc' = pc
          /\ \A d \in Callers \ {c} : waiter'[d] = waiter[d]
      BY <1>7 DEF ResultReturn, TypeOK
    <2>2. ReplyOf(c)' = ReplyOf(c)
      BY <1>7 DEF ResultReturn, ReplyOf, TypeOK
    <2> QED
      BY <2>1, <2>2, OneAnswer
  <1>8. CASE UNCHANGED vars
    BY <1>8 DEF vars, JobOf, ReplyOf
  <1> QED
    BY <1>1, <1>2, <1>3, <1>4, <1>5, <1>6, <1>7, <1>8
    DEF Next, ThreadStep, ResultStep, Pool!Next

\* Threads, lock, semaphore and trimmed history behave like a pool of
\* max_workers workers: no more than that many run, each task ends once, and
\* result() tells how it ended, or that it is unknown once it has ended.
THEOREM QueueImplementsPool == Spec => PoolImplemented
  <1>1. Init => Pool!Init
    BY DEF Init, Pool!Init, JobOf, ReplyOf, Idle
  <1>2. /\ TypeOK /\ SlotInv /\ PendingInv /\ OutcomeInv
        /\ TypeOK' /\ OutcomeInv' /\ [Next]_vars
        => [Pool!Next]_(Pool!pool)
    BY PoolStep
  <1> QED
    BY <1>1, <1>2, TypeCorrect, SlotInvariant, PendingInvariant, OutcomeInvariant, PTL
    DEF Spec, PoolImplemented, Pool!Spec
-----------------------------------------------------------------------------
(* The history.  Trim is one step of the while loop of submit(), and looks *)
(* up the oldest id without a test; both need what is proved here.         *)

\* The order holds max_history ids at most, each one once, and every one of
\* them is in the table: submit() never pops twice, never looks up an id that
\* an earlier submit() deleted, and list_tasks() skips none (task_queue.py).
OrderKept ==
    /\ Len(order) <= MaxHistory
    /\ \A j, k \in 1..Len(order) : order[j] = order[k] => j = k
    /\ \A j \in 1..Len(order) : order[j] \in tasks

\* Ids are fresh: who is not submitted yet is not in the order.
OrderInv ==
    /\ OrderKept
    /\ \A j \in 1..Len(order) : pc[order[j]] # "new"

\* What submit() makes of the order and the table.
LEMMA OrderSubmit ==
    ASSUME TypeOK, OrderInv, NEW i \in Ids, Submit(i)
    PROVE  OrderInv'
  <1> DEFINE o == Append(order, i)
             ts == tasks \cup {i}
  <1>0. /\ order \in Seq(Ids) /\ Len(order) \in Nat /\ MaxHistory \in Nat \ {0}
        /\ Len(order) <= MaxHistory
    BY TaskQueueAssumption DEF TypeOK, OrderInv, OrderKept
  <1>1. /\ o \in Seq(Ids) /\ Len(o) = Len(order) + 1 /\ o[Len(order) + 1] = i
        /\ \A j \in 1..Len(order) : o[j] = order[j]
    BY <1>0
  <1>2. /\ \A j \in 1..Len(order) : order[j] # i
        /\ \A j, k \in 1..Len(order) : order[j] = order[k] => j = k
        /\ \A j \in 1..Len(order) : order[j] \in tasks
    BY DEF OrderInv, OrderKept, Submit
  <1> HIDE DEF o
  <1>3. \A j \in 1..Len(o) : j \in 1..Len(order) \/ j = Len(order) + 1
    BY <1>0, <1>1
  <1>4. /\ \A j, k \in 1..Len(o) : o[j] = o[k] => j = k
        /\ \A j \in 1..Len(o) : o[j] \in ts
    BY <1>1, <1>2, <1>3
  <1>5. /\ order' = Trim(o, ts).order /\ tasks' = Trim(o, ts).tasks
        /\ pc' = [pc EXCEPT ![i] = "added"]
    BY DEF Submit, o
  <1>6. \A j \in 1..Len(o) : pc'[o[j]] # "new"
    <2>1. \A x \in Ids : pc[x] # "new" \/ x = i => pc'[x] # "new"
      BY <1>5 DEF TypeOK
    <2>2. \A j \in 1..Len(o) : o[j] \in Ids
      BY <1>1
    <2>3. \A j \in 1..Len(o) : pc[o[j]] # "new" \/ o[j] = i
      BY <1>1, <1>3 DEF OrderInv
    <2> QED
      BY <2>1, <2>2, <2>3
  <1>7. CASE ~(Len(o) > MaxHistory)
    <2>1. order' = o /\ tasks' = ts
      BY <1>5, <1>7 DEF Trim
    <2>2. Len(o) <= MaxHistory
      BY <1>0, <1>1, <1>7
    <2> QED
      BY <1>4, <1>6, <2>1, <2>2 DEF OrderInv, OrderKept
  <1>8. CASE Len(o) > MaxHistory
    <2>1. order' = Tail(o) /\ ts \ {Head(o)} \subseteq tasks'
      BY <1>5, <1>8 DEF Trim
    <2>2. Head(o) = o[1] /\ 1 \in 1..Len(o)
      BY <1>0, <1>1
    <2>3. Len(order') = Len(order) /\ \A j \in 1..Len(order) : order'[j] = o[j + 1]
      BY <1>0, <1>1, <2>1
    <2>4. \A j \in 1..Len(order) : j + 1 \in 1..Len(o) /\ j + 1 # 1
      BY <1>0, <1>1
    <2>5. \A j \in 1..Len(order) : o[j + 1] \in ts \ {Head(o)}
      BY <1>4, <2>2, <2>4
    <2>6. \A j, k \in 1..Len(order) : o[j + 1] = o[k + 1] => j = k
      <3> SUFFICES ASSUME NEW j \in 1..Len(order), NEW k \in 1..Len(order),
                          o[j + 1] = o[k + 1]
                   PROVE  j = k
        OBVIOUS
      <3>1. j + 1 = k + 1
        BY <1>4, <2>4
      <3> QED
        BY <3>1
    <2>7. \A j \in 1..Len(order) : pc'[order'[j]] # "new"
      BY <1>6, <2>3, <2>4
    <2>8. OrderKept'
      <3>1. \A j, k \in 1..Len(order') : order'[j] = order'[k] => j = k
        BY <2>3, <2>6
      <3>2. \A j \in 1..Len(order') : order'[j] \in tasks'
        BY <2>1, <2>3, <2>5
      <3>3. Len(order') <= MaxHistory
        BY <1>0, <2>3
      <3> QED
        BY <3>1, <3>2, <3>3 DEF OrderKept
    <2> QED
      BY <2>3, <2>7, <2>8 DEF OrderInv
  <1> QED
    BY <1>7, <1>8

\* The history is never too long, and never names a task twice or one that
\* is gone, however submissions, threads and readers interleave.
THEOREM OrderCorrect == Spec => []OrderKept
  <1>1. Init => OrderInv
    <2> SUFFICES ASSUME Init PROVE OrderInv
      OBVIOUS
    <2>1. Len(<<>>) = 0 /\ order = <<>>
      BY DEF Init
    <2> QED
      BY <2>1, TaskQueueAssumption DEF OrderInv, OrderKept
  <1>2. TypeOK /\ OrderInv /\ [Next]_vars => OrderInv'
    <2> SUFFICES ASSUME TypeOK, OrderInv, [Next]_vars PROVE OrderInv'
      OBVIOUS
    <2>1. ASSUME NEW i \in Ids, Submit(i) PROVE OrderInv'
      BY <2>1, OrderSubmit
    <2>2. ASSUME order' = order, tasks' = tasks,
                 \A i \in Ids : pc[i] # "new" => pc'[i] # "new"
          PROVE  OrderInv'
      <3>1. \A j \in 1..Len(order) : order[j] \in Ids
        BY DEF TypeOK
      <3> QED
        BY <2>2, <3>1 DEF OrderInv, OrderKept
    <2>3. ASSUME NEW i \in Ids, ThreadStep(i) PROVE OrderInv'
      BY <2>2, <2>3
      DEF ThreadStep, StartThread, AcquireSlot, Begin, StoreResult, MarkCompleted,
          MarkFailed, StoreError, Unwind, StampFinished, CountOut, ReleaseSlot, TypeOK
    <2>4. ASSUME NEW c \in Callers, ResultStep(c) \/ \E i \in Ids : ResultLookup(c, i)
          PROVE  OrderInv'
      BY <2>2, <2>4 DEF ResultStep, ResultRead, ResultReturn, ResultLookup
    <2>5. CASE UNCHANGED vars
      BY <2>2, <2>5 DEF vars
    <2> QED
      BY <2>1, <2>3, <2>4, <2>5 DEF Next
  <1>3. OrderInv => OrderKept
    BY DEF OrderInv
  <1> QED
    BY <1>1, <1>2, <1>3, TypeCorrect, PTL DEF Spec
=============================================================================
