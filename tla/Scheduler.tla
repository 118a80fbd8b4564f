----------------------------- MODULE Scheduler -----------------------------
(***************************************************************************)
(* core/scheduler.py and its users in server.py: scheduled tasks in a dict *)
(* and in one JSON file, run by a background thread.  The process has two  *)
(* Scheduler objects over the same file: the server's, which the endpoints *)
(* change and whose loop runs the tasks, and the engine's (core/loop.py,   *)
(* line 85), which only the boot thread uses, to add "auto-evolution".     *)
(* Nothing here takes a lock.                                              *)
(***************************************************************************)
EXTENDS Naturals, Sequences, SequencesExt, FiniteSets

CONSTANTS
    Tasks,      \* ids of the tasks added over HTTP; each is a fresh uuid
    Once,       \* tasks with an ISO datetime for a schedule; the others repeat
    Failing,    \* tasks whose callback may raise
    Evolution,  \* the task the boot thread adds
    Loops,      \* loop threads alive at one time, at most
    Clients,    \* request handlers at work at one time, at most
    Restarts    \* whether the process may end and start again

ASSUME SchedulerAssumption ==
    /\ Loops \cap Clients = {}
    /\ "boot" \notin Loops \cup Clients
    /\ Evolution \notin Tasks
    /\ Once \subseteq Tasks
    /\ Failing \subseteq Tasks \cup {Evolution}
    /\ Restarts \in BOOLEAN

VARIABLES
    tasks,      \* the server's _tasks, in dict order
    due,        \* "later", "due" or "never", by next_run_at and the clock
    engine,     \* the engine's _tasks, until the boot thread has used them
    file,       \* scheduler.json: tasks with their next_run_at, or Torn
    running,    \* _running of the server's Scheduler
    at,         \* where each thread stands
    moved,      \* threads iterating over a dict that has changed meanwhile
    todo,       \* what is left of a loop's due_tasks(), its current task first
    data,       \* what a thread inside _save() is about to write
    used,       \* ids given out
    overtaken,  \* history: a loop was started while an older one was alive
    clean       \* history: since the last load, no save met another or failed

threadVars == <<at, moved, todo, data>>
historyVars == <<used, overtaken, clean>>
vars == <<tasks, due, engine, file, running, threadVars, historyVars>>

All == Tasks \cup {Evolution}
Threads == Loops \cup Clients \cup {"boot"}
Torn == [torn |-> TRUE]
Empty == [ids |-> <<>>, never |-> {}]

\* Of to_dict() what a restart can tell apart: the tasks, and which of them
\* have no next_run_at.
Content(s) == [ids |-> s, never |-> {t \in Range(s) : due[t] = "never"}]

Init ==
    /\ tasks = <<>>
    /\ due = [t \in All |-> "never"]
    /\ engine = <<>>
    /\ file = Empty
    /\ running = FALSE
    /\ at = [th \in Threads |-> IF th = "boot" THEN "boot" ELSE "off"]
    /\ moved = {}
    /\ todo = [l \in Loops |-> <<>>]
    /\ data = [th \in Threads |-> Empty]
    /\ used = {}
    /\ overtaken = FALSE
    /\ clean = TRUE

Go(th, place) == at' = [at EXCEPT ![th] = place]
Saving == {th \in Threads : at[th] \in {"snap", "write"}}
Live == {l \in Loops : at[l] # "off"}

\* Time passes a next_run_at.
Elapse(t) ==
    /\ t \in Range(tasks)
    /\ due[t] = "later"
    /\ due' = [due EXCEPT ![t] = "due"]
    /\ UNCHANGED <<tasks, engine, file, running, threadVars, used, overtaken, clean>>

(***************************************************************************)
(* _save(), by the thread that changed a dict: collect the tasks and open  *)
(* the file, which truncates it; then dump them.                           *)
(***************************************************************************)

\* A change of the server's dict is noticed by who iterates over it.
Shift == moved' = moved \cup {th \in Threads \ {"boot"} : at[th] \in {"snap", "scan"}}

\* A change of a dict is followed by a save of it.
ThenSave(th) ==
    /\ Go(th, "snap")
    /\ clean' = (clean /\ Saving = {} /\ th # "boot")

AfterSave(th) == IF th \in Loops THEN "next" ELSE "off"
AfterRaise(th) == IF th \in Loops THEN "sleep" ELSE "off"
Dict(th) == IF th = "boot" THEN engine ELSE tasks

Snap(th) ==
    /\ at[th] = "snap"
    /\ data' = [data EXCEPT ![th] = Content(Dict(th))]
    /\ file' = Torn
    /\ Go(th, "write")
    /\ moved' = moved \ {th}
    /\ engine' = IF th = "boot" THEN <<>> ELSE engine
    /\ UNCHANGED <<tasks, due, running, todo, historyVars>>

\* "dictionary changed size during iteration": an endpoint answers 500, a
\* loop's tick is over; the change itself stays.
SnapRaises(th) ==
    /\ at[th] = "snap"
    /\ th \in moved
    /\ moved' = moved \ {th}
    /\ Go(th, AfterRaise(th))
    /\ todo' = IF th \in Loops THEN [todo EXCEPT ![th] = <<>>] ELSE todo
    /\ clean' = FALSE
    /\ UNCHANGED <<tasks, due, engine, file, running, data, used, overtaken>>

\* Two texts written over each other may leave a file that does not parse.
Write(th) ==
    /\ at[th] = "write"
    /\ \/ file' = data[th]
       \/ /\ file # Torn
          /\ file' = Torn
    /\ data' = [data EXCEPT ![th] = Empty]
    /\ Go(th, AfterSave(th))
    /\ UNCHANGED <<tasks, due, engine, running, moved, todo, historyVars>>

(***************************************************************************)
(* The endpoints /ww/scheduler/...                                         *)
(***************************************************************************)

\* add(): a one-time task whose moment has passed is stored and never runs.
AddTask(c, t) ==
    /\ at[c] = "off"
    /\ t \notin used
    /\ used' = used \cup {t}
    /\ tasks' = Append(tasks, t)
    /\ \E n \in {"later"} \cup (IF t \in Once THEN {"never"} ELSE {}) :
          due' = [due EXCEPT ![t] = n]
    /\ Shift
    /\ ThenSave(c)
    /\ UNCHANGED <<engine, file, running, todo, data, overtaken>>

\* Mutant of RemoveTask: the file is left as it is.
RemoveUnsaved(c, t) ==
    /\ at[c] = "off"
    /\ \E i \in DOMAIN tasks : tasks[i] = t /\ tasks' = RemoveAt(tasks, i)
    /\ due' = [due EXCEPT ![t] = "never"]
    /\ Shift
    /\ UNCHANGED <<engine, file, running, at, todo, data, historyVars>>

RemoveTask(c, t) ==
    /\ at[c] = "off"
    /\ \E i \in DOMAIN tasks : tasks[i] = t /\ tasks' = RemoveAt(tasks, i)
    /\ due' = [due EXCEPT ![t] = "never"]
    /\ Shift
    /\ ThenSave(c)
    /\ UNCHANGED <<engine, file, running, todo, data, used, overtaken>>

\* start(): the test of _running and its setting are two steps.
StartTest(c) ==
    /\ at[c] = "off"
    /\ ~running
    /\ Go(c, "start")
    /\ UNCHANGED <<tasks, due, engine, file, running, moved, todo, data, historyVars>>

StartSet(c) ==
    /\ at[c] = "start"
    /\ running' = TRUE
    /\ \E l \in Loops \ Live :
          at' = [at EXCEPT ![l] = "check", ![c] = IF c = "boot" THEN "evolve" ELSE "off"]
    /\ overtaken' = (overtaken \/ Live # {})
    /\ UNCHANGED <<tasks, due, engine, file, moved, todo, data, used, clean>>

\* stop() waits five seconds at most for a thread that sleeps thirty: what it
\* leaves behind is the flag.
Stop(c) ==
    /\ at[c] = "off"
    /\ running' = FALSE
    /\ UNCHANGED <<tasks, due, engine, file, threadVars, historyVars>>

(***************************************************************************)
(* _start_scheduler() in server.py, the boot thread                        *)
(***************************************************************************)

BootStart ==
    /\ at["boot"] = "boot"
    /\ Go("boot", IF running THEN "evolve" ELSE "start")
    /\ UNCHANGED <<tasks, due, engine, file, running, moved, todo, data, historyVars>>

\* Mutant of Evolve: the list is not searched for it.
EvolveAgain ==
    /\ at["boot"] = "evolve"
    /\ engine' = Append(engine, Evolution)
    /\ due' = [due EXCEPT ![Evolution] = "later"]
    /\ ThenSave("boot")
    /\ UNCHANGED <<tasks, file, running, moved, todo, data, used, overtaken>>

\* "auto-evolution" is added to the engine's Scheduler, unless that one read
\* it from the file; WW_SKIP_AUTO_EVOLUTION leaves it out.
Evolve ==
    /\ at["boot"] = "evolve"
    /\ \/ /\ Go("boot", "off")
          /\ engine' = <<>>
          /\ UNCHANGED <<due, clean>>
       \/ /\ Evolution \notin Range(engine)
          /\ engine' = Append(engine, Evolution)
          /\ due' = [due EXCEPT ![Evolution] = "later"]
          /\ ThenSave("boot")
    /\ UNCHANGED <<tasks, file, running, moved, todo, data, used, overtaken>>

(***************************************************************************)
(* The loop thread                                                         *)
(***************************************************************************)

\* Mutant of Check: the loop looks at nothing.
CheckNothing(l) ==
    /\ at[l] = "check"
    /\ Go(l, "scan")
    /\ UNCHANGED <<tasks, due, engine, file, running, moved, todo, data, historyVars>>

Check(l) ==
    /\ at[l] = "check"
    /\ Go(l, IF running THEN "scan" ELSE "off")
    /\ UNCHANGED <<tasks, due, engine, file, running, moved, todo, data, historyVars>>

\* due_tasks(): each task whose next_run_at has passed, in dict order.
IsDueList(s) ==
    /\ Range(s) = {t \in Range(tasks) : due[t] = "due"}
    /\ \A i, j \in DOMAIN s : i < j =>
          \E m, n \in DOMAIN tasks : m < n /\ tasks[m] = s[i] /\ tasks[n] = s[j]

\* Mutant of Scan: next_run_at is not looked at.
ScanAll(l) ==
    /\ at[l] = "scan"
    /\ todo' = [todo EXCEPT ![l] = tasks]
    /\ moved' = moved \ {l}
    /\ Go(l, "next")
    /\ UNCHANGED <<tasks, due, engine, file, running, data, historyVars>>

\* due_tasks() makes a list; the runs that follow do not look at the dict.
Scan(l) ==
    /\ at[l] = "scan"
    /\ \E n \in 0..Len(tasks) : \E s \in [1..n -> Range(tasks)] :
          IsDueList(s) /\ todo' = [todo EXCEPT ![l] = s]
    /\ moved' = moved \ {l}
    /\ Go(l, "next")
    /\ UNCHANGED <<tasks, due, engine, file, running, data, historyVars>>

ScanRaises(l) ==
    /\ at[l] = "scan"
    /\ l \in moved
    /\ moved' = moved \ {l}
    /\ Go(l, "sleep")
    /\ UNCHANGED <<tasks, due, engine, file, running, todo, data, historyVars>>

NextTask(l) ==
    /\ at[l] = "next"
    /\ Go(l, IF running /\ todo[l] # <<>> THEN "run" ELSE "sleep")
    /\ todo' = IF running THEN todo ELSE [todo EXCEPT ![l] = <<>>]
    /\ UNCHANGED <<tasks, due, engine, file, running, moved, data, historyVars>>

RunEnds(l) ==
    /\ at[l] = "run"
    /\ Go(l, "record")
    /\ UNCHANGED <<tasks, due, engine, file, running, moved, todo, data, used, overtaken, clean>>

\* Mutant of RunRaises: the exception ends the thread.
RunKills(l) ==
    /\ at[l] = "run"
    /\ Head(todo[l]) \in Failing
    /\ todo' = [todo EXCEPT ![l] = <<>>]
    /\ Go(l, "off")
    /\ UNCHANGED <<tasks, due, engine, file, running, moved, data, historyVars>>

\* The exception is caught outside the for: the rest of the list waits for
\* the next tick, and this task is still due.
RunRaises(l) ==
    /\ at[l] = "run"
    /\ Head(todo[l]) \in Failing
    /\ todo' = [todo EXCEPT ![l] = <<>>]
    /\ Go(l, "sleep")
    /\ UNCHANGED <<tasks, due, engine, file, running, moved, data, historyVars>>

\* next_run(): an interval or a cron expression has a next time (a minute on,
\* for every cron expression), a moment that has passed has none.
NextRun(t) == IF t \in Once THEN "never" ELSE "later"

\* record_run(), which finds nothing to record when the task was removed.
Record(l) ==
    /\ at[l] = "record"
    /\ LET t == Head(todo[l]) IN
       /\ todo' = [todo EXCEPT ![l] = Tail(@)]
       /\ IF t \in Range(tasks)
          THEN /\ due' = [due EXCEPT ![t] = NextRun(t)]
               /\ ThenSave(l)
          ELSE /\ Go(l, "next")
               /\ UNCHANGED <<due, clean>>
    /\ UNCHANGED <<tasks, engine, file, running, moved, data, used, overtaken>>

Wake(l) ==
    /\ at[l] = "sleep"
    /\ Go(l, "check")
    /\ UNCHANGED <<tasks, due, engine, file, running, moved, todo, data, historyVars>>

(***************************************************************************)
(* The process ends at any point; both objects load the file on the way up *)
(***************************************************************************)

Loaded == IF file = Torn THEN Empty ELSE file

Restart ==
    /\ Restarts
    /\ tasks' = Loaded.ids
    /\ engine' = Loaded.ids
    /\ due' = [t \in All |-> 
                   IF t \in Range(Loaded.ids) \ Loaded.never THEN "later" ELSE "never"]
    /\ running' = FALSE
    /\ at' = [th \in Threads |-> IF th = "boot" THEN "boot" ELSE "off"]
    /\ moved' = {}
    /\ todo' = [l \in Loops |-> <<>>]
    /\ data' = [th \in Threads |-> Empty]
    /\ overtaken' = FALSE
    /\ clean' = (file # Torn)
    /\ UNCHANGED <<file, used>>

LoopStep(l) ==
    \/ Check(l) \/ Scan(l) \/ ScanRaises(l) \/ NextTask(l)
    \/ RunEnds(l) \/ RunRaises(l) \/ Record(l) \/ Wake(l)

SaveStep(th) == Snap(th) \/ SnapRaises(th) \/ Write(th)

Next ==
    \/ \E t \in All : Elapse(t)
    \/ \E l \in Loops : LoopStep(l)
    \/ \E th \in Threads : SaveStep(th)
    \/ \E c \in Clients, t \in Tasks : AddTask(c, t)
    \/ \E c \in Clients, t \in All : RemoveTask(c, t)
    \/ \E c \in Clients : StartTest(c) \/ Stop(c)
    \/ \E c \in Clients \cup {"boot"} : StartSet(c)
    \/ BootStart \/ Evolve
    \/ Restart

\* A thread that can go on does: sleeps end, callbacks return.
Fairness ==
    /\ \A l \in Loops : WF_vars(LoopStep(l))
    /\ \A th \in Threads : WF_vars(SaveStep(th))

Spec == Init /\ [][Next]_vars /\ Fairness

-----------------------------------------------------------------------------

Contents == [ids : Seq(All), never : SUBSET All]

\* Types, and of each dict that it has an id, and "auto-evolution", once.
TypeOK ==
    /\ tasks \in Seq(All) /\ IsInjective(tasks)
    /\ engine \in Seq(All) /\ IsInjective(engine)
    /\ due \in [All -> {"later", "due", "never"}]
    /\ file \in Contents \cup {Torn}
    /\ data \in [Threads -> Contents]
    /\ running \in BOOLEAN
    /\ at \in [Threads -> {"off", "boot", "start", "evolve", "check", "scan", "next",
                           "run", "record", "snap", "write", "sleep"}]
    /\ todo \in [Loops -> Seq(All)]
    /\ moved \subseteq Threads
    /\ used \subseteq Tasks
    /\ overtaken \in BOOLEAN /\ clean \in BOOLEAN

\* What a loop runs is due, although the list it works from is from before
\* the runs ahead of it: nobody else ran or recorded the task meanwhile, as
\* long as no start() overtook a loop that had been told to stop.
RunIsDue ==
    overtaken \/ \A l \in Loops : at[l] = "run" =>
        \/ due[Head(todo[l])] = "due"
        \/ Head(todo[l]) \notin Range(tasks)

\* With no save under way, a restart would find what the server's Scheduler
\* holds, unless saves overlapped, one failed on a changing dict, or the boot
\* thread saved the engine's view of the file.
SavedAtRest == clean /\ Saving = {} => file = Content(tasks)

\* After a stop() that no start() follows, every loop thread ends.
StopEnds == ~running ~> running \/ Live = {}

\* A due task is run, removed or called off with the scheduler, when neither
\* it nor a task before it in the dict is one whose callback may raise.
Exposed(t) ==
    \E i, j \in 1..Len(tasks) : i < j /\ tasks[j] = t /\ tasks[i] \in Failing
Waiting(t) == running /\ t \in Range(tasks) /\ due[t] = "due" /\ ~Exposed(t)
DueServed == \A t \in All \ Failing : Waiting(t) ~> ~Waiting(t)
=============================================================================
