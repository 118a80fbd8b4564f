--------------------------- MODULE WavegateQueue ---------------------------
(***************************************************************************)
(* gateway/queue.py with its users in gateway/server.py, for one session:  *)
(* the QueueState of the session, the _process_queue task that every       *)
(* adapter message spawns, the Ingest, StreamIngest and Interrupt calls of *)
(* gRPC clients, and the /stop command.                                    *)
(*                                                                         *)
(* The operations of a session are synchronous code between two awaits of  *)
(* one event loop (Discord, Signal and the gRPC service share the loop of  *)
(* WavegateServer.start), so each is one action.  Telegram, Slack and the  *)
(* webhook adapters call asyncio.run() per message instead: their loop     *)
(* ends with the handler and cancels the task it spawned (persists).   *)
(* The sessions share nothing.                                             *)
(***************************************************************************)
EXTENDS Integers, FiniteSets, SequencesExt

CONSTANTS
    Messages,       \* the messages of the session
    TextMessages,   \* those whose content is text
    GrpcClients,    \* whether Ingest and StreamIngest are used
    AdapterLoops    \* what persists may be

ASSUME WavegateAssumption ==
    /\ IsFiniteSet(Messages)
    /\ TextMessages \subseteq Messages
    /\ GrpcClients \in BOOLEAN
    /\ AdapterLoops \subseteq BOOLEAN

VARIABLES
    queue,             \* _queue: the messages whose content is in an entry
    buffer,            \* _collect_buffer
    windowOpen,        \* time.time() < _collect_deadline
    current,           \* _current_msg is not None
    queuedCount,       \* queued_count
    interruptPending,  \* _interrupt_pending
    responses,         \* the last undrained response: "none", "chunk", "final"
    tasks,             \* [Messages -> the _process_queue task a message spawned]
    persists,          \* whether the adapter's event loop outlives the handler
    stopped,           \* stop() has been called
    accepted,          \* history: messages taken in
    remote,            \* history: those that gRPC clients sent
    dropped            \* history: messages removed by an interrupt or stop()

queueVars == <<queue, buffer, windowOpen, queuedCount>>
historyVars == <<accepted, remote, dropped>>
vars == <<queueVars, current, interruptPending, responses, tasks, persists, stopped, historyVars>>

Modes == {"steer", "followup", "collect", "interrupt"}
\* What adapters put into routing.queue_mode.
AdapterModes == {"steer", "followup"}

NoTask == [at |-> "none", entry |-> {}]

Init ==
    /\ queue = <<>>
    /\ buffer = <<>>
    /\ windowOpen = FALSE
    /\ current = FALSE
    /\ queuedCount = 0
    /\ interruptPending = FALSE
    /\ responses = "none"
    /\ tasks = [m \in Messages |-> NoTask]
    /\ stopped = FALSE
    /\ persists \in AdapterLoops
    /\ accepted = {}
    /\ remote = {}
    /\ dropped = {}

InQueue == UNION ToSet(queue)
Running == {t \in Messages : tasks[t].at = "running"}

(***************************************************************************)
(* QueueManager                                                            *)
(***************************************************************************)

\* _merge_collect(): the bodies of the text messages are joined into the first
\* message, if that one is text; nothing else of the others is kept.
Merge(fragments) ==
    IF Head(fragments) \in TextMessages THEN ToSet(fragments) \cap TextMessages
    ELSE {Head(fragments)}

EnqueueInterrupt(m) ==
    /\ queue' = <<{m}>>
    /\ queuedCount' = 1
    /\ dropped' = dropped \cup InQueue
    /\ UNCHANGED <<buffer, windowOpen>>

\* Mutant of EnqueueCollect: a new window forgets the fragments of the old one.
CollectAfresh(m) ==
    /\ IF windowOpen
       THEN buffer' = Append(buffer, m) /\ UNCHANGED <<queue, windowOpen, queuedCount>>
       ELSE /\ queue' = queue
            /\ buffer' = <<m>>
            /\ windowOpen' = TRUE
            /\ queuedCount' = Len(queue') + 1
    /\ UNCHANGED <<dropped>>

EnqueueCollect(m) ==
    /\ IF windowOpen
       THEN buffer' = Append(buffer, m) /\ UNCHANGED <<queue, windowOpen, queuedCount>>
       ELSE /\ queue' = IF buffer = <<>> THEN queue ELSE Append(queue, Merge(buffer))
            /\ buffer' = <<m>>
            /\ windowOpen' = TRUE
            /\ queuedCount' = Len(queue') + 1
    /\ UNCHANGED <<dropped>>

EnqueueFollowup(m) ==
    /\ queue' = Append(queue, {m})
    /\ queuedCount' = Len(queue')
    /\ UNCHANGED <<buffer, windowOpen, dropped>>

EnqueueSteer(m) ==
    /\ queue' = IF current THEN <<{m}>> \o queue ELSE Append(queue, {m})
    /\ queuedCount' = Len(queue')
    /\ UNCHANGED <<buffer, windowOpen, dropped>>

\* enqueue(), except for _interrupt_pending.
Enqueue(m, mode) ==
    /\ m \notin accepted
    /\ accepted' = accepted \cup {m}
    /\ \/ mode = "interrupt" /\ EnqueueInterrupt(m)
       \/ mode = "collect" /\ EnqueueCollect(m)
       \/ mode = "followup" /\ EnqueueFollowup(m)
       \/ mode = "steer" /\ EnqueueSteer(m)

\* enqueue_immediate()
EnqueueImmediate(m) ==
    /\ m \notin accepted
    /\ accepted' = accepted \cup {m}
    /\ queue' = <<{m}>> \o queue
    /\ queuedCount' = 1
    /\ UNCHANGED <<buffer, windowOpen, dropped>>

\* interrupt(); queued_count keeps its value.
InterruptQueue ==
    IF current
    THEN /\ interruptPending' = TRUE
         /\ queue' = <<>>
         /\ dropped' = dropped \cup InQueue
         /\ current' = FALSE
    ELSE UNCHANGED <<interruptPending, queue, dropped, current>>

(***************************************************************************)
(* The users                                                               *)
(***************************************************************************)

\* Mutant of AdapterMessage: one task at a time is thought to be enough.
AdapterMessageLazily(m) ==
    /\ ~stopped
    /\ \E mode \in AdapterModes : Enqueue(m, mode)
    /\ tasks' = IF Running = {} THEN [tasks EXCEPT ![m].at = "spawned"] ELSE tasks
    /\ UNCHANGED <<current, interruptPending, responses, stopped, persists, remote>>

\* _on_adapter_message(), a normal message: enqueued and a task created.
AdapterMessage(m) ==
    /\ ~stopped
    /\ \E mode \in AdapterModes : Enqueue(m, mode)
    /\ tasks' = [tasks EXCEPT ![m].at = "spawned"]
    /\ UNCHANGED <<current, interruptPending, responses, stopped, persists, remote>>

Ingest(m) ==
    /\ GrpcClients /\ ~stopped
    /\ \/ /\ EnqueueImmediate(m)
          /\ UNCHANGED interruptPending
       \/ \E mode \in Modes :
             /\ Enqueue(m, mode)
             /\ interruptPending' = (interruptPending \/ mode = "interrupt")
    /\ remote' = remote \cup {m}
    /\ UNCHANGED <<current, responses, tasks, stopped, persists>>

\* enqueue() followed by drain_responses(): a final response last in the queue
\* clears the current message.  An open stream outlives stop() by its grace.
StreamIngest(m) ==
    /\ GrpcClients
    /\ \E mode \in Modes :
          /\ Enqueue(m, mode)
          /\ IF responses = "final"
             THEN current' = FALSE /\ interruptPending' = FALSE
             ELSE /\ interruptPending' = (interruptPending \/ mode = "interrupt")
                  /\ UNCHANGED current
    /\ responses' = "none"
    /\ remote' = remote \cup {m}
    /\ UNCHANGED <<tasks, stopped, persists>>

\* The Interrupt call and the /stop command.
Interrupt ==
    /\ InterruptQueue
    /\ UNCHANGED <<buffer, windowOpen, queuedCount, responses, tasks, stopped, persists,
                   accepted, remote>>

\* time.time() passes the deadline.
WindowExpires ==
    /\ windowOpen
    /\ windowOpen' = FALSE
    /\ UNCHANGED <<queue, buffer, queuedCount, current, interruptPending, responses,
                   tasks, stopped, persists, historyVars>>

\* stop(): adapters are stopped and drain_all() clears what is waiting.
Stop ==
    /\ ~stopped
    /\ stopped' = TRUE
    /\ queue' = <<>>
    /\ buffer' = <<>>
    /\ responses' = "none"
    /\ dropped' = dropped \cup InQueue \cup ToSet(buffer)
    /\ UNCHANGED <<windowOpen, queuedCount, current, interruptPending, tasks, persists,
                   accepted, remote>>

(***************************************************************************)
(* _process_queue                                                          *)
(***************************************************************************)

\* Mutant of Dequeue: the merged fragments stay in the buffer.
DequeueKeepingBuffer(t) ==
    LET flushed == IF buffer = <<>> \/ windowOpen THEN queue
                   ELSE Append(queue, Merge(buffer))
    IN  /\ tasks[t].at = "spawned"
        /\ flushed # <<>>
        /\ queue' = Tail(flushed)
        /\ current' = TRUE
        /\ queuedCount' = Len(queue')
        /\ tasks' = [tasks EXCEPT ![t] = [at |-> "running", entry |-> Head(flushed)]]
        /\ UNCHANGED <<buffer, windowOpen, interruptPending, responses, stopped, persists, historyVars>>

\* Mutant of Dequeue: queued_count is counted down, not recomputed.
DequeueCountingDown(t) ==
    LET expired == buffer # <<>> /\ ~windowOpen
        flushed == IF expired THEN Append(queue, Merge(buffer)) ELSE queue
    IN  /\ tasks[t].at = "spawned"
        /\ flushed # <<>>
        /\ queue' = Tail(flushed)
        /\ buffer' = IF expired THEN <<>> ELSE buffer
        /\ current' = TRUE
        /\ queuedCount' = queuedCount - 1
        /\ tasks' = [tasks EXCEPT ![t] = [at |-> "running", entry |-> Head(flushed)]]
        /\ UNCHANGED <<windowOpen, interruptPending, responses, stopped, persists, historyVars>>

\* dequeue() with its flush of an expired buffer, then the call of the agent.
Dequeue(t) ==
    LET expired == buffer # <<>> /\ ~windowOpen
        flushed == IF expired THEN Append(queue, Merge(buffer)) ELSE queue
    IN  /\ tasks[t].at = "spawned"
        /\ flushed # <<>>
        /\ queue' = Tail(flushed)
        /\ buffer' = IF expired THEN <<>> ELSE buffer
        /\ current' = TRUE
        /\ queuedCount' = Len(queue')
        /\ tasks' = [tasks EXCEPT ![t] = [at |-> "running", entry |-> Head(flushed)]]
        /\ UNCHANGED <<windowOpen, interruptPending, responses, stopped, persists, historyVars>>

\* dequeue() found nothing.
NothingToDo(t) ==
    /\ tasks[t].at = "spawned"
    /\ queue = <<>>
    /\ buffer = <<>> \/ windowOpen
    /\ tasks' = [tasks EXCEPT ![t].at = "idle"]
    /\ UNCHANGED <<queueVars, current, interruptPending, responses, stopped, persists, historyVars>>

\* A chunk arrives, or the final response, or the call fails.  The task of a
\* loop that does not persist is cancelled at its first await.
Chunk(t) ==
    /\ persists
    /\ tasks[t].at = "running"
    /\ responses' = "chunk"
    /\ UNCHANGED <<queueVars, current, interruptPending, tasks, stopped, persists, historyVars>>

Answered(t) ==
    /\ persists
    /\ tasks[t].at = "running"
    /\ responses' = "final"
    /\ tasks' = [tasks EXCEPT ![t].at = "answered"]
    /\ UNCHANGED <<queueVars, current, interruptPending, stopped, persists, historyVars>>

Failed(t) ==
    /\ persists
    /\ tasks[t].at = "running"
    /\ tasks' = [tasks EXCEPT ![t].at = "failed"]
    /\ UNCHANGED <<queueVars, current, interruptPending, responses, stopped, persists, historyVars>>

Cancelled(t) ==
    /\ ~persists
    /\ tasks[t].at = "running"
    /\ tasks' = [tasks EXCEPT ![t].at = "cancelled"]
    /\ UNCHANGED <<queueVars, current, interruptPending, responses, stopped, persists, historyVars>>

FirstStep(t) == Dequeue(t) \/ NothingToDo(t)
LastStep(t) == Answered(t) \/ Failed(t) \/ Cancelled(t)

-----------------------------------------------------------------------------

Next ==
    \/ Interrupt \/ WindowExpires \/ Stop
    \/ \E m \in Messages :
          \/ AdapterMessage(m) \/ Ingest(m) \/ StreamIngest(m)
          \/ FirstStep(m) \/ Chunk(m) \/ LastStep(m)

Spec == Init /\ [][Next]_vars

\* The loop runs every ready task and the agent's stream ends or breaks.
FairSpec ==
    Spec /\ \A m \in Messages : WF_vars(FirstStep(m)) /\ WF_vars(LastStep(m))

-----------------------------------------------------------------------------

TaskStates == {"none", "spawned", "running", "idle", "answered", "failed", "cancelled"}

TypeOK ==
    /\ queue \in Seq((SUBSET Messages) \ {{}})
    /\ buffer \in Seq(Messages)
    /\ windowOpen \in BOOLEAN
    /\ current \in BOOLEAN
    /\ queuedCount \in 0..Cardinality(Messages)
    /\ interruptPending \in BOOLEAN
    /\ responses \in {"none", "chunk", "final"}
    /\ tasks \in [Messages -> [at : TaskStates, entry : SUBSET Messages]]
    /\ stopped \in BOOLEAN
    /\ persists \in AdapterLoops
    /\ accepted \subseteq Messages
    /\ remote \cup dropped \subseteq accepted

\* Where a message is: entries of the queue, the buffer, tasks that took it.
Places(m) ==
    {<<"queue", i>> : i \in {j \in DOMAIN queue : m \in queue[j]}}
       \cup {<<"buffer", i>> : i \in {j \in DOMAIN buffer : buffer[j] = m}}
       \cup {<<"task", t>> : t \in {u \in Messages : m \in tasks[u].entry}}
       \cup (IF m \in dropped THEN {<<"dropped", 0>>} ELSE {})

\* However steering, windows, interrupts and tasks interleave, a message is
\* handed to the agent at most once and is never both waiting and dropped.
HeldOnce == \A m \in Messages : Cardinality(Places(m)) <= 1

\* The session queue is a Mailbox: the entries and the fragments wait, and what a
\* task holds is a batch.  Although four modes, a window that closes, interrupts
\* and any number of tasks work on it, a message is handed to the agent once, is
\* never lost unless a merge leaves it out, and is not answered, or failed, or
\* cut off, apart from those it was handed over with.
Batches == {[messages |-> tasks[t].entry, at |-> tasks[t].at] :
               t \in {u \in Messages : tasks[u].entry # {}}}

Mail == INSTANCE Mailbox WITH waiting <- InQueue \cup ToSet(buffer), batches <- Batches

MailKept == Mail!Spec

\* Although a task takes whichever entry is first and interrupts remove entries,
\* no more entries lack a task that will come for one than gRPC clients sent,
\* whose messages spawn none.
NoWakeupLost ==
    Len(queue) <= Cardinality({t \in Messages : tasks[t].at = "spawned"})
                    + Cardinality(remote)

\* In a session without gRPC clients every message an adapter delivered reaches
\* the agent or is interrupted away.
AdapterServed ==
    [](remote = {}) =>
       \A m \in Messages :
          m \in accepted
             ~> (m \in dropped \/ \E t \in Messages : m \in tasks[t].entry)

=============================================================================
