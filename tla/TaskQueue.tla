----------------------------- MODULE TaskQueue -----------------------------
(***************************************************************************)
(* core/task_queue.py: the asynchronous task queue of the server.          *)
(*                                                                         *)
(* submit() registers a Task under the lock, trims the history and starts  *)
(* one thread per task; the thread takes a semaphore slot, runs the task's *)
(* function and gives the slot back; result() polls the Task object, which *)
(* the thread writes WITHOUT the lock, field by field.  An action is one   *)
(* critical section or one write of a shared field, so every interleaving  *)
(* of threads the Python runtime allows is a behaviour of the module.      *)
(***************************************************************************)
EXTENDS Integers, Sequences, FiniteSets, Functions

CONSTANTS
    Ids,          \* task ids (uuid4 prefixes), one per call of submit()
    Callers,      \* threads that call result()
    MaxWorkers,   \* TaskQueue(max_workers=...)
    MaxHistory    \* TaskQueue(max_history=...)

ASSUME TaskQueueAssumption ==
    /\ IsFiniteSet(Ids)
    /\ MaxWorkers \in Nat \ {0}
    /\ MaxHistory \in Nat \ {0}

VARIABLES
    task,      \* [Ids -> Task], the fields of the Task objects
    tasks,     \* keys of self._tasks
    order,     \* self._order
    active,    \* self._active_count
    sem,       \* value of self._semaphore
    pc,        \* [Ids -> where submit() and then the task's thread stand]
    waiter     \* [Callers -> where result() stands and what it has read]

vars == <<task, tasks, order, active, sem, pc, waiter>>

Statuses == {"pending", "running", "completed", "failed"}
Terminal == {"completed", "failed"}

\* Values of a field are abstracted to "is it None?" except the status.
Task == [status : Statuses, result : BOOLEAN, error : BOOLEAN,
         started : BOOLEAN, finished : BOOLEAN]

NewTask == [status |-> "pending", result |-> FALSE, error |-> FALSE,
            started |-> FALSE, finished |-> FALSE]

PCs == {"new", "added", "queued", "slot", "fn", "returned", "raised",
        "finally", "stamped", "counted_out", "ended"}

Idle == [at |-> "idle"]

Init ==
    /\ task = [i \in Ids |-> NewTask]
    /\ tasks = {}
    /\ order = <<>>
    /\ active = 0
    /\ sem = MaxWorkers
    /\ pc = [i \in Ids |-> "new"]
    /\ waiter = [c \in Callers |-> Idle]

(***************************************************************************)
(* submit()                                                                *)
(***************************************************************************)

\* Mutant of Trim: the status check forgotten.
TrimAnyStatus(o, ts) ==
    IF Len(o) > MaxHistory THEN [order |-> Tail(o), tasks |-> ts \ {Head(o)}]
                           ELSE [order |-> o, tasks |-> ts]
\* The oldest ids beyond max_history; len(_order) grows by one per submit,
\* so the while loop pops at most one id.
Trim(o, ts) ==
    IF Len(o) > MaxHistory
    THEN [order |-> Tail(o),
          tasks |-> IF task[Head(o)].status \in Terminal
                    THEN ts \ {Head(o)} ELSE ts]
    ELSE [order |-> o, tasks |-> ts]

\* The critical section of submit().
Submit(i) ==
    /\ pc[i] = "new"
    /\ LET kept == Trim(Append(order, i), tasks \cup {i})
       IN  /\ order' = kept.order
           /\ tasks' = kept.tasks
    /\ pc' = [pc EXCEPT ![i] = "added"]
    /\ UNCHANGED <<task, active, sem, waiter>>

\* t.start(), after the lock was released.
StartThread(i) ==
    /\ pc[i] = "added"
    /\ pc' = [pc EXCEPT ![i] = "queued"]
    /\ UNCHANGED <<task, tasks, order, active, sem, waiter>>

(***************************************************************************)
(* _run_task(), in the task's own thread                                   *)
(***************************************************************************)

AcquireSlot(i) ==
    /\ pc[i] = "queued"
    /\ sem > 0
    /\ sem' = sem - 1
    /\ pc' = [pc EXCEPT ![i] = "slot"]
    /\ UNCHANGED <<task, tasks, order, active, waiter>>

Begin(i) ==
    /\ pc[i] = "slot"
    /\ active' = active + 1
    /\ task' = [task EXCEPT ![i].status = "running", ![i].started = TRUE]
    /\ pc' = [pc EXCEPT ![i] = "fn"]
    /\ UNCHANGED <<tasks, order, sem, waiter>>

\* fn() returned: task.result = result
StoreResult(i) ==
    /\ pc[i] = "fn"
    /\ task' = [task EXCEPT ![i].result = TRUE]
    /\ pc' = [pc EXCEPT ![i] = "returned"]
    /\ UNCHANGED <<tasks, order, active, sem, waiter>>

\* Mutant of MarkCompleted: a status outside the lifecycle.
MarkDone(i) ==
    /\ pc[i] = "returned"
    /\ task' = [task EXCEPT ![i].status = "done"]
    /\ pc' = [pc EXCEPT ![i] = "finally"]
    /\ UNCHANGED <<tasks, order, active, sem, waiter>>

MarkCompleted(i) ==
    /\ pc[i] = "returned"
    /\ task' = [task EXCEPT ![i].status = "completed"]
    /\ pc' = [pc EXCEPT ![i] = "finally"]
    /\ UNCHANGED <<tasks, order, active, sem, waiter>>

\* fn() raised an Exception: the status is written before the error text.
MarkFailed(i) ==
    /\ pc[i] = "fn"
    /\ task' = [task EXCEPT ![i].status = "failed"]
    /\ pc' = [pc EXCEPT ![i] = "raised"]
    /\ UNCHANGED <<tasks, order, active, sem, waiter>>

StoreError(i) ==
    /\ pc[i] = "raised"
    /\ task' = [task EXCEPT ![i].error = TRUE]
    /\ pc' = [pc EXCEPT ![i] = "finally"]
    /\ UNCHANGED <<tasks, order, active, sem, waiter>>

\* Mutant of Unwind: no finally block, so the slot is not given back.
UnwindWithoutFinally(i) ==
    /\ pc[i] = "fn"
    /\ pc' = [pc EXCEPT ![i] = "ended"]
    /\ UNCHANGED <<task, tasks, order, active, sem, waiter>>

\* fn() raised a BaseException that is not an Exception (SystemExit, ...):
\* only the finally block runs.
Unwind(i) ==
    /\ pc[i] = "fn"
    /\ pc' = [pc EXCEPT ![i] = "finally"]
    /\ UNCHANGED <<task, tasks, order, active, sem, waiter>>

StampFinished(i) ==
    /\ pc[i] = "finally"
    /\ task' = [task EXCEPT ![i].finished = TRUE]
    /\ pc' = [pc EXCEPT ![i] = "stamped"]
    /\ UNCHANGED <<tasks, order, active, sem, waiter>>

CountOut(i) ==
    /\ pc[i] = "stamped"
    /\ active' = active - 1
    /\ pc' = [pc EXCEPT ![i] = "counted_out"]
    /\ UNCHANGED <<task, tasks, order, sem, waiter>>

ReleaseSlot(i) ==
    /\ pc[i] = "counted_out"
    /\ sem' = sem + 1
    /\ pc' = [pc EXCEPT ![i] = "ended"]
    /\ UNCHANGED <<task, tasks, order, active, waiter>>

(***************************************************************************)
(* result(), called with an id that submit() returned                      *)
(***************************************************************************)

ResultLookup(c, i) ==
    /\ waiter[c].at \in {"idle", "answered", "none"}
    /\ pc[i] \notin {"new", "added"}
    /\ waiter' = [waiter EXCEPT ![c] =
                    IF i \in tasks THEN [at |-> "polling", id |-> i]
                                   ELSE [at |-> "none", id |-> i]]
    /\ UNCHANGED <<task, tasks, order, active, sem, pc>>

\* Mutant of ResultRead: the poll waits for "completed" only.
ResultReadCompleted(c) ==
    /\ waiter[c].at = "polling"
    /\ LET t == task[waiter[c].id]
       IN  /\ t.status = "completed"
           /\ waiter' = [waiter EXCEPT ![c] =
                           [at |-> "reading", id |-> @.id, status |-> t.status,
                            result |-> t.result, error |-> t.error]]
    /\ UNCHANGED <<task, tasks, order, active, sem, pc>>

\* The while loop ends and the answer's status, result and error are read.
ResultRead(c) ==
    /\ waiter[c].at = "polling"
    /\ LET t == task[waiter[c].id]
       IN  /\ t.status \in Terminal
           /\ waiter' = [waiter EXCEPT ![c] =
                           [at |-> "reading", id |-> @.id, status |-> t.status,
                            result |-> t.result, error |-> t.error]]
    /\ UNCHANGED <<task, tasks, order, active, sem, pc>>

\* finished_at is read last and the dict is returned.
ResultReturn(c) ==
    /\ waiter[c].at = "reading"
    /\ waiter' = [waiter EXCEPT ![c] =
                    [at |-> "answered", id |-> @.id, status |-> @.status,
                     result |-> @.result, error |-> @.error,
                     finished |-> task[@.id].finished]]
    /\ UNCHANGED <<task, tasks, order, active, sem, pc>>

-----------------------------------------------------------------------------

ThreadStep(i) ==
    \/ StartThread(i) \/ AcquireSlot(i) \/ Begin(i)
    \/ StoreResult(i) \/ MarkCompleted(i) \/ MarkFailed(i) \/ StoreError(i)
    \/ Unwind(i) \/ StampFinished(i) \/ CountOut(i) \/ ReleaseSlot(i)

ResultStep(c) == ResultRead(c) \/ ResultReturn(c)

Next ==
    \/ \E i \in Ids : Submit(i) \/ ThreadStep(i)
    \/ \E c \in Callers : ResultStep(c) \/ \E i \in Ids : ResultLookup(c, i)

Spec == Init /\ [][Next]_vars

\* Threads are scheduled and the submitted functions return or raise; nobody
\* is obliged to submit a task or to ask for a result.
FairSpec == /\ Spec
            /\ \A i \in Ids : WF_vars(ThreadStep(i))
            /\ \A c \in Callers : WF_vars(ResultStep(c))

-----------------------------------------------------------------------------

Waiters == [at : {"idle"}]
           \cup [at : {"polling", "none"}, id : Ids]
           \cup [at : {"reading"}, id : Ids, status : Terminal,
                 result : BOOLEAN, error : BOOLEAN]
           \cup [at : {"answered"}, id : Ids, status : Terminal,
                 result : BOOLEAN, error : BOOLEAN, finished : BOOLEAN]

\* Every variable has the shape the code gives it.
TypeOK ==
    /\ task \in [Ids -> Task]
    /\ tasks \in SUBSET Ids
    /\ order \in Seq(Ids)
    /\ active \in Int
    /\ sem \in Int
    /\ pc \in [Ids -> PCs]
    /\ waiter \in [Callers -> Waiters]

\* Threads between the semaphore's acquire() and release().
Holders == {i \in Ids : pc[i] \in {"slot", "fn", "returned", "raised",
                                   "finally", "stamped", "counted_out"}}

\* Threads that self._active_count counts.
Counted == {i \in Ids : pc[i] \in {"fn", "returned", "raised",
                                   "finally", "stamped"}}

\* What /ww/tasks reports as "active" never exceeds max_workers and is never
\* negative, whatever order the threads leave their finally blocks in.
ActiveWithinWorkers == 0 <= active /\ active <= MaxWorkers

\* No two of the three ways to leave fn() leak or duplicate a slot: the free
\* slots and the threads inside the guarded region always add up.
SlotsConserved == sem >= 0 /\ sem + Cardinality(Holders) = MaxWorkers

\* A submitted task that has not finished can always be looked up by the id
\* its submitter holds, even after the history was trimmed past it.
UnfinishedTracked ==
    \A i \in Ids : pc[i] # "new" /\ task[i].status \notin Terminal => i \in tasks

\* How a task and a caller of result() look to a user of the queue.
JobOf(i) ==
    CASE pc[i] = "new" -> "new"
      [] pc[i] # "new" /\ task[i].status = "pending" -> "waiting"
      [] pc[i] \in {"fn", "returned"} -> "running"
      [] pc[i] \notin {"new", "fn", "returned"} /\ task[i].status = "running" -> "lost"
      [] OTHER -> task[i].status

ReplyOf(c) ==
    LET w == waiter[c]
    IN  CASE w.at = "idle" -> Idle
          [] w.at = "polling" -> [at |-> "asked", id |-> w.id]
          [] w.at = "none" -> [at |-> "unknown", id |-> w.id]
          [] w.at \in {"reading", "answered"} ->
               [at |-> "answered", id |-> w.id, how |-> w.status, result |-> w.result]

\* Threads, lock, semaphore and trimmed history together behave like a pool of
\* MaxWorkers workers that answers about every job it was given.
Pool == INSTANCE JobPool WITH
            job <- [i \in Ids |-> JobOf(i)], reply <- [c \in Callers |-> ReplyOf(c)]
PoolImplemented == Pool!Spec

\* Every accepted task gets its turn although only MaxWorkers run at a time,
\* and a caller of result() is answered, never with "completed" and a result
\* that is still missing, unless the task's thread was unwound by a
\* BaseException, which leaves the status "running" for ever.
WaiterServed ==
    \A c \in Callers, i \in Ids :
        waiter[c].at = "polling" /\ waiter[c].id = i
          ~> \/ /\ waiter[c].at = "answered" /\ waiter[c].id = i
                /\ waiter[c].status = "completed" => waiter[c].result
             \/ pc[i] = "ended" /\ task[i].status = "running"
=============================================================================
