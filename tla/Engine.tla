------------------------------- MODULE Engine -------------------------------
(***************************************************************************)
(* One Worldwave engine and everybody who runs goals on it: run_task() of  *)
(* server.py with its session and engine locks, run() of core/loop.py with *)
(* its spirals, the StateManager of core/state.py that all runs share, and *)
(* the callers that enter run() without a lock (RunTask of the agent's     *)
(* gRPC service, explorers of a goal, the autonomous heartbeat).           *)
(*                                                                         *)
(* A spiral's phases are one step: only how a spiral ends matters here.    *)
(***************************************************************************)
EXTENDS Naturals

CONSTANTS
    Requests,      \* calls of run_task()
    Direct,        \* calls of run() that take no lock
    Windows,       \* conversation windows of requests
    NoWindow,      \* the empty window, which direct calls pass
    NoRun,
    Quick,         \* runs with max_spirals=1; the others have
    MaxSpirals,    \* run(max_spirals=...)
    MaxRestarts    \* bound on the restarts of the process

ASSUME EngineAssumption ==
    /\ Requests \cap Direct = {}
    /\ NoWindow \notin Windows
    /\ NoRun \notin Requests \cup Direct
    /\ Quick \subseteq Requests \cup Direct
    /\ MaxSpirals \in Nat \ {0}
    /\ MaxRestarts \in Nat

VARIABLES
    at,            \* [Runs -> where the call stands]
    local,         \* [Runs -> its arguments, variables and result]
    sessionLock,   \* [Windows -> holder of the lock in _session_locks]
    runLock,       \* holder of _run_lock
    running,       \* ww.running
    runError,      \* ww._run_error_reason is not empty
    state,         \* ww.state: session_id, conversation_window, last interrupt
    minted,        \* session ids drawn so far
    files,         \* the session files: the window and what restarting finds
    lastResult,    \* server._last_result: whose it is
    restarts,
    own,           \* history of calls in progress: what went wrong in the run itself,
    stopped,       \* those that stop() hit while they were alone,
    overlapped     \* those that were inside run() with another one

lockVars == <<sessionLock, runLock>>
engineVars == <<running, runError>>
stateVars == <<state, minted, files>>
historyVars == <<own, stopped, overlapped>>
vars == <<at, local, lockVars, engineVars, stateVars, lastResult, restarts, historyVars>>

Runs == Requests \cup Direct

Limit(r) == IF r \in Quick THEN 1 ELSE MaxSpirals

Interrupts == {"none", "rewind", "break", "error"}

\* The call's window, spirals begun, len(results), the status of the result,
\* and whose result run_task() returns.
NoCall == [window |-> NoWindow, begun |-> 0, results |-> 0, status |-> "none",
           answer |-> NoRun]

Fresh(w) == [session |-> minted + 1, window |-> w, interrupt |-> "none"]

Init ==
    /\ at = [r \in Runs |-> "idle"]
    /\ local = [r \in Runs |-> NoCall]
    /\ sessionLock = [w \in Windows |-> NoRun]
    /\ runLock = NoRun
    /\ running = FALSE
    /\ runError = FALSE
    /\ state = [session |-> 1, window |-> NoWindow, interrupt |-> "none"]
    /\ minted = 1
    /\ files = [s \in {} |-> 0]
    /\ lastResult = NoRun
    /\ restarts = 0
    /\ own = [r \in Runs |-> "none"]
    /\ stopped = {}
    /\ overlapped = {}

Goto(r, from, to) == at[r] = from /\ at' = [at EXCEPT ![r] = to]

\* run() is over: its variables, and the history of them, are gone.
RunOver(r) ==
    /\ local' = [local EXCEPT ![r] = [NoCall EXCEPT !.window = local[r].window]]
    /\ own' = [own EXCEPT ![r] = "none"]
    /\ stopped' = stopped \ {r}
    /\ overlapped' = overlapped \ {r}

\* Runs that may begin a spiral, and runs between the first and the last use
\* of the shared engine by run().
Working == {r \in Runs : at[r] \in {"prepare", "loop", "spiral"}}
Inside == Working \cup {r \in Runs : at[r] = "verdict"}

\* The session file holds s, or only the beginning of it.
Written(s, content) ==
    [x \in DOMAIN files \cup {s.session} |->
        IF x = s.session THEN [window |-> s.window, content |-> content] ELSE files[x]]

\* _save_session()
Saved(s) == Written(s, IF s.interrupt = "none" THEN "clean" ELSE "interrupted")

(***************************************************************************)
(* server.py: run_task() up to its call of run()                           *)
(***************************************************************************)

Call(r, w) ==
    /\ Goto(r, "idle", "waiting")
    /\ local' = [local EXCEPT ![r].window = w]
    /\ UNCHANGED <<lockVars, engineVars, stateVars, lastResult, restarts, historyVars>>

AcquireSession(r) ==
    /\ Goto(r, "waiting", "session")
    /\ sessionLock[local[r].window] = NoRun
    /\ sessionLock' = [sessionLock EXCEPT ![local[r].window] = r]
    /\ UNCHANGED <<local, runLock, engineVars, stateVars, lastResult, restarts, historyVars>>

AcquireEngine(r) ==
    /\ Goto(r, "session", "enter")
    /\ runLock = NoRun
    /\ runLock' = r
    /\ UNCHANGED <<local, sessionLock, engineVars, stateVars, lastResult, restarts, historyVars>>

(***************************************************************************)
(* core/loop.py: run()                                                     *)
(***************************************************************************)

\* A request enters under the engine's lock, a direct call at once.
Enter(r) ==
    /\ Goto(r, IF r \in Requests THEN "enter" ELSE "idle", "prepare")
    /\ running' = TRUE
    /\ runError' = FALSE
    /\ overlapped' = IF Inside = {} THEN overlapped ELSE overlapped \cup Inside \cup {r}
    /\ stopped' = stopped \ overlapped'
    /\ UNCHANGED <<local, lockVars, stateVars, lastResult, restarts, own>>

\* Mutants of Prepared: a window switch keeps the session; interrupts of the
\* same window are kept.
PreparedKeepingSession(w) ==
    IF state.interrupt # "none" THEN Fresh(w)
    ELSE [state EXCEPT !.window = IF w = NoWindow THEN @ ELSE w]
PreparedKeepingInterrupt(w) ==
    IF w \notin {NoWindow, state.window} THEN Fresh(w) ELSE state

\* prepare_for_run(): interrupts are cleared; another window, or an interrupt
\* that was still active, gets a new session.
Prepared(w) ==
    IF w \notin {NoWindow, state.window} \/ state.interrupt # "none" THEN Fresh(w)
    ELSE [state EXCEPT !.window = IF w = NoWindow THEN @ ELSE w]

\* Mutant of Prepare: running is set here, too.
PrepareAndRun(r) ==
    /\ Goto(r, "prepare", "loop")
    /\ state' = Prepared(local[r].window)
    /\ minted' = IF state'.session = minted + 1 THEN minted + 1 ELSE minted
    /\ running' = TRUE
    /\ UNCHANGED <<local, lockVars, runError, files, lastResult, restarts, historyVars>>

Prepare(r) ==
    /\ Goto(r, "prepare", "loop")
    /\ state' = Prepared(local[r].window)
    /\ minted' = IF state'.session = minted + 1 THEN minted + 1 ELSE minted
    /\ UNCHANGED <<local, lockVars, engineVars, files, lastResult, restarts, historyVars>>

\* The reflex arc answers before the first spiral, or falls through to it.
Reflex(r) ==
    /\ Goto(r, "loop", "result")
    /\ local[r].begun = 0
    /\ local' = [local EXCEPT ![r].status = "reflex"]
    /\ running' = FALSE
    /\ UNCHANGED <<lockVars, runError, stateVars, lastResult, restarts, historyVars>>

\* Mutant of LoopEnds: one spiral too many.
LoopEndsLate(r) ==
    local[r].begun > Limit(r) \/ ~running \/ state.interrupt # "none"

\* range(max_spirals) is exhausted, or one of the two checks breaks the loop.
LoopEnds(r) ==
    local[r].begun = Limit(r) \/ ~running \/ state.interrupt # "none"

LeaveLoop(r) ==
    /\ Goto(r, "loop", "verdict")
    /\ LoopEnds(r)
    /\ running' = FALSE
    /\ UNCHANGED <<local, lockVars, runError, stateVars, lastResult, restarts, historyVars>>

BeginSpiral(r) ==
    /\ Goto(r, "loop", "spiral")
    /\ ~LoopEnds(r)
    /\ local' = [local EXCEPT ![r].begun = @ + 1]
    /\ files' = Saved(state)
    /\ UNCHANGED <<lockVars, engineVars, state, minted, lastResult, restarts, historyVars>>

\* The spiral is completed; it responded or achieved the goal, which ends the
\* run, or the loop goes round.
CompleteSpiral(r) ==
    /\ \/ Goto(r, "spiral", "verdict") /\ running' = FALSE
       \/ Goto(r, "spiral", "loop") /\ UNCHANGED running
    /\ local' = [local EXCEPT ![r].results = @ + 1]
    /\ files' = Saved(state)
    /\ UNCHANGED <<lockVars, runError, state, minted, lastResult, restarts, historyVars>>

\* The run is interrupted: by a rewind of the subconscious, by a plugin or by
\* the keyboard ("break"), or by an error in one of the phases.
InterruptRun(r, kind) ==
    /\ Goto(r, "spiral", "verdict")
    /\ running' = FALSE
    /\ state' = [state EXCEPT !.interrupt = kind]
    /\ files' = Saved(state')
    /\ runError' = (runError \/ kind = "error")
    /\ own' = [own EXCEPT ![r] = kind]
    /\ UNCHANGED <<local, lockVars, minted, lastResult, restarts, stopped, overlapped>>

\* A session file cannot be opened, or not be written to its end: begin_spiral()
\* raises outside every try, and so does the interrupt() of the handler.
\* running stays set.
SaveFails(r) ==
    /\ \/ /\ Goto(r, "loop", "raising")
          /\ ~LoopEnds(r)
          /\ UNCHANGED <<state, runError>>
       \/ /\ Goto(r, "spiral", "raising")
          /\ state' = [state EXCEPT !.interrupt = "error"]
          /\ runError' = TRUE
    /\ files' \in {files, Written(state, "torn")}
    /\ RunOver(r)
    /\ UNCHANGED <<lockVars, running, minted, lastResult, restarts>>

\* The status of the result, from the shared error and the shared interrupt.
Verdict(r) ==
    /\ Goto(r, "verdict", "result")
    /\ local' = [local EXCEPT ![r].status =
                    IF runError \/ state.interrupt = "error" THEN "error"
                    ELSE IF state.interrupt = "break" THEN "interrupted" ELSE "completed"]
    /\ UNCHANGED <<lockVars, engineVars, stateVars, lastResult, restarts, historyVars>>

(***************************************************************************)
(* run_task() after its call of run()                                      *)
(***************************************************************************)

\* Mutant of Store: the engine is released before the result is read back.
StoreAndRelease(r) ==
    /\ Goto(r, "result", "return")
    /\ lastResult' = r
    /\ runLock' = NoRun
    /\ RunOver(r)
    /\ UNCHANGED <<sessionLock, engineVars, stateVars, restarts>>

\* self._last_result = self.ww.run(...)
Store(r) ==
    /\ Goto(r, "result", "return")
    /\ lastResult' = r
    /\ RunOver(r)
    /\ UNCHANGED <<lockVars, engineVars, stateVars, restarts>>

\* return self._last_result, evaluated before the finally block.
Return(r) ==
    /\ Goto(r, "return", "release")
    /\ local' = [local EXCEPT ![r].answer = lastResult]
    /\ UNCHANGED <<lockVars, engineVars, stateVars, lastResult, restarts, historyVars>>

\* Mutant of Release: no finally, so an exception keeps the locks.
ReleaseOnReturn(r) ==
    /\ \/ /\ Goto(r, "release", "ended")
          /\ runLock' = NoRun
          /\ sessionLock' = [sessionLock EXCEPT ![local[r].window] = NoRun]
       \/ /\ Goto(r, "raising", "ended")
          /\ UNCHANGED lockVars
    /\ local' = [local EXCEPT ![r] = NoCall]
    /\ UNCHANGED <<engineVars, stateVars, lastResult, restarts, historyVars>>

\* The finally block and the end of the with statement.
Release(r) ==
    /\ Goto(r, "release", "ended") \/ Goto(r, "raising", "ended")
    /\ runLock' = NoRun
    /\ sessionLock' = [sessionLock EXCEPT ![local[r].window] = NoRun]
    /\ local' = [local EXCEPT ![r] = NoCall]
    /\ UNCHANGED <<engineVars, stateVars, lastResult, restarts, historyVars>>

DirectEnds(r) ==
    /\ Goto(r, "result", "ended") \/ Goto(r, "raising", "ended")
    /\ RunOver(r)
    /\ UNCHANGED <<lockVars, engineVars, stateVars, lastResult, restarts>>

(***************************************************************************)
(* Everybody else                                                          *)
(***************************************************************************)

\* ww.stop(), from /ww/chat/stop or stop_autonomous().
Stop ==
    /\ running' = FALSE
    /\ stopped' = stopped \cup (Working \ overlapped)
    /\ UNCHANGED <<at, local, lockVars, runError, stateVars, lastResult, restarts,
                   own, overlapped>>

\* The process ends, at any point, and starts again.  _load_last_session()
\* takes the file whose name sorts last (ids are random), removes it if an
\* interrupt is active in it, and adopts it if it can be read.
Restart ==
    /\ restarts < MaxRestarts
    /\ restarts' = restarts + 1
    /\ at' = [r \in Runs |-> IF at[r] = "idle" THEN "idle" ELSE "ended"]
    /\ local' = [r \in Runs |-> NoCall]
    /\ own' = [r \in Runs |-> "none"]
    /\ stopped' = {}
    /\ overlapped' = {}
    /\ sessionLock' = [w \in Windows |-> NoRun]
    /\ runLock' = NoRun
    /\ running' = FALSE
    /\ runError' = FALSE
    /\ lastResult' = NoRun
    /\ minted' = minted + 1
    /\ \/ DOMAIN files = {} /\ state' = Fresh(NoWindow) /\ UNCHANGED files
       \/ \E s \in DOMAIN files :
             \/ /\ files[s].content = "interrupted"
                /\ state' = Fresh(NoWindow)
                /\ files' = [x \in DOMAIN files \ {s} |-> files[x]]
             \/ /\ files[s].content = "torn"
                /\ state' = Fresh(NoWindow)
                /\ UNCHANGED files
             \/ /\ files[s].content = "clean"
                /\ state' = [session |-> s, window |-> files[s].window,
                             interrupt |-> "none"]
                /\ UNCHANGED files

-----------------------------------------------------------------------------

RunStep(r) ==
    \/ Enter(r) \/ Prepare(r) \/ Reflex(r) \/ LeaveLoop(r)
    \/ BeginSpiral(r) \/ CompleteSpiral(r)
    \/ \E kind \in Interrupts \ {"none"} : InterruptRun(r, kind)
    \/ SaveFails(r) \/ Verdict(r)

TaskStep(r) ==
    \/ AcquireSession(r) \/ AcquireEngine(r)
    \/ RunStep(r)
    \/ Store(r) \/ Return(r) \/ Release(r)

Next ==
    \/ Stop \/ Restart
    \/ \E r \in Requests : TaskStep(r)
    \/ \E r \in Requests, w \in Windows : Call(r, w)
    \/ \E r \in Direct : RunStep(r)
    \/ \E r \in Direct : DirectEnds(r)

Spec == Init /\ [][Next]_vars

\* Every thread is scheduled and the engine's phases return or raise.  A lock
\* that is free is granted to some waiter; the requests are finitely many.
FairSpec ==
    /\ Spec
    /\ \A r \in Requests : WF_vars(TaskStep(r))

-----------------------------------------------------------------------------

PCs == {"idle", "waiting", "session", "enter", "prepare", "loop", "spiral", "verdict",
        "result", "return", "release", "raising", "ended"}
Statuses == {"none", "reflex", "completed", "interrupted", "error"}
Contents == {"clean", "interrupted", "torn"}
States == [session : Nat, window : Windows \cup {NoWindow}, interrupt : Interrupts]

TypeOK ==
    /\ at \in [Runs -> PCs]
    /\ local \in [Runs -> [window : Windows \cup {NoWindow}, begun : 0..MaxSpirals,
                           results : 0..MaxSpirals, status : Statuses,
                           answer : Requests \cup {NoRun}]]
    /\ sessionLock \in [Windows -> Requests \cup {NoRun}]
    /\ runLock \in Requests \cup {NoRun}
    /\ running \in BOOLEAN
    /\ runError \in BOOLEAN
    /\ state \in States
    /\ minted \in Nat
    /\ files \in [DOMAIN files -> [window : Windows \cup {NoWindow}, content : Contents]]
    /\ DOMAIN files \subseteq 1..minted
    /\ lastResult \in Requests \cup {NoRun}
    /\ restarts \in 0..MaxRestarts
    /\ own \in [Runs -> Interrupts]
    /\ stopped \cup overlapped \subseteq Runs

\* How a request looks to its caller.
StageOf(r) ==
    CASE at[r] = "idle" -> "idle"
      [] at[r] \in {"waiting", "session"} -> "waiting"
      [] at[r] = "release" -> "answered"
      [] at[r] = "ended" -> "over"
      [] OTHER -> "pursued"

\* run_task() pursues one goal at a time and answers a request with the result
\* of its own run, although the result travels through a field that all
\* requests share, the engine may be entered around the lock, and a run may
\* raise or die with the process.
Serial == INSTANCE SerialRuns WITH
              stage <- [r \in Requests |-> StageOf(r)],
              answer <- [r \in Requests |-> local[r].answer]
ServedSerially == Serial!Spec

\* The verdict on a run is about that run: the interrupt, rewind or error that
\* an earlier run left in the shared state, of its window or another one, by
\* whoever and even across a restart, neither shows in the status nor empties
\* the result (core/state.py, "Root-cause fix (Gate 0.6)").
OwnVerdict(r) ==
    at[r] = "result" /\ local[r].status # "reflex" =>
       /\ local[r].status = "error" <=> own[r] = "error"
       /\ local[r].status = "interrupted" <=> own[r] = "break"
       /\ local[r].results = 0 => own[r] # "none" \/ r \in stopped
VerdictUnpoisoned == \A r \in Runs \ overlapped : OwnVerdict(r)

\* No two windows work in one session, through switches of the window, rotated
\* and reloaded sessions and direct runs in between ("one poisoned chat cannot
\* stick another window to the same id").
SessionsApart ==
    [][\A r \in Requests \ overlapped :
          local'[r].begun > local[r].begun /\ state.session \in DOMAIN files
             => files[state.session].window = local[r].window]_vars

\* After stop() the run it hit begins no further spiral, unless another run
\* was inside the engine with it.
StopEndsRun ==
    [][\A r \in stopped : local'[r].begun <= local[r].begun]_vars

\* Every request comes to an end: neither the two locks nor a run that raises
\* blocks it for ever.
RequestAnswered == \A r \in Requests : at[r] = "waiting" ~> at[r] = "ended"

=============================================================================
