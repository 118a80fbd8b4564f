----------------------------- MODULE GoalRunner -----------------------------
(***************************************************************************)
(* gateway/goal.py and its gRPC front core/agent_grpc.py: the life of one  *)
(* goal.  Task ids are fresh, so two goals share no state and the module   *)
(* follows one of them: its GoalRun object, the worker thread of _run_loop,*)
(* the entry RunGoal mirrors into _active_goals, the thread that keeps the *)
(* mirror in step, and the CancelGoal calls of clients.                    *)
(*                                                                         *)
(* No lock protects a GoalRun: cancel() and the worker write its phase and *)
(* its cancelled flag field by field, so each write is an action.          *)
(***************************************************************************)
EXTENDS Integers, Sequences

CONSTANTS
    Cancellers,      \* concurrent CancelGoal calls
    MaxIterations,   \* request.max_iterations or 20
    MaxExplorers     \* what config.explorer_count goes up to; submit() caps it at 5

ASSUME GoalAssumption ==
    /\ MaxIterations \in Nat \ {0}
    /\ MaxExplorers \in 0..5

VARIABLES
    config,        \* run.config, which submit() takes from the request
    phase,         \* run.phase, "none" before submit()
    cancelled,     \* run.cancelled
    iteration,     \* run.iteration
    results,       \* success of the explorers of this iteration
    worker,        \* where _run_loop stands
    completions,   \* history: the phases on_complete() was told of
    lateWork,      \* history: engine runs started once cancelled was set
    mirror,        \* _active_goals[task_id]["phase"], "none" without the key
    rpc,           \* where RunGoal stands
    sync,          \* where _sync_goal_status stands, and the status it read
    canceller      \* [Cancellers -> where CancelGoal stands]

runVars == <<phase, cancelled, iteration, results, worker, completions, lateWork>>
rpcVars == <<mirror, rpc, sync>>
vars == <<config, runVars, rpcVars, canceller>>

Phases == {"planning", "exploring", "reviewing", "completed", "failed", "cancelled"}
TerminalPhases == {"completed", "failed", "cancelled"}

Configs == [explorers : 0..MaxExplorers, critic : BOOLEAN]

Init ==
    /\ config \in Configs
    /\ phase = "none"
    /\ cancelled = FALSE
    /\ iteration = 0
    /\ results = <<>>
    /\ worker = "unborn"
    /\ completions = <<>>
    /\ lateWork = 0
    /\ mirror = "none"
    /\ rpc = "idle"
    /\ sync = [at |-> "unborn"]
    /\ canceller = [c \in Cancellers |-> "idle"]

(***************************************************************************)
(* RunGoal                                                                 *)
(***************************************************************************)

\* runner.submit(): the run is registered and its thread started.
Submit ==
    /\ rpc = "idle"
    /\ phase' = "planning"
    /\ worker' = "born"
    /\ rpc' = "submitted"
    /\ UNCHANGED <<config, cancelled, iteration, results, completions, lateWork,
                   mirror, sync, canceller>>

\* The entry of _active_goals and its sync thread, under the service's lock.
Mirror ==
    /\ rpc = "submitted"
    /\ mirror' = "planning"
    /\ sync' = [at |-> "polling"]
    /\ rpc' = "answered"
    /\ UNCHANGED <<config, runVars, canceller>>

(***************************************************************************)
(* The worker thread: _run_loop                                            *)
(***************************************************************************)

Goto(from, to) == worker = from /\ worker' = to
SetPhase(p) == phase' = p

\* The phase is written whatever it was.
BeginRun ==
    /\ Goto("born", "loop")
    /\ SetPhase("planning")
    /\ UNCHANGED <<config, cancelled, iteration, results, completions, lateWork,
                   rpcVars, canceller>>

\* Mutant of LoopHead: one iteration too many.
LoopHeadOneMore ==
    /\ worker = "loop"
    /\ IF iteration > MaxIterations
       THEN worker' = "finish" /\ UNCHANGED iteration
       ELSE IF cancelled
       THEN worker' = "returned" /\ UNCHANGED iteration
       ELSE worker' = "explore" /\ iteration' = iteration + 1
    /\ UNCHANGED <<config, phase, cancelled, results, completions, lateWork, rpcVars, canceller>>

\* The head of the for loop: exhausted, cancelled, or a new iteration.
LoopHead ==
    /\ worker = "loop"
    /\ IF iteration = MaxIterations
       THEN worker' = "finish" /\ UNCHANGED iteration
       ELSE IF cancelled
       THEN worker' = "returned" /\ UNCHANGED iteration
       ELSE worker' = "explore" /\ iteration' = iteration + 1
    /\ UNCHANGED <<config, phase, cancelled, results, completions, lateWork, rpcVars, canceller>>

Explore ==
    /\ Goto("explore", "pick")
    /\ SetPhase("exploring")
    /\ results' = <<>>
    /\ UNCHANGED <<config, cancelled, iteration, completions, lateWork, rpcVars, canceller>>

\* _run_explorers: the next explorer, unless all ran or the run is cancelled.
PickExplorer ==
    /\ worker = "pick"
    /\ worker' = IF Len(results) < config.explorers /\ ~cancelled
                 THEN "launch" ELSE "explored"
    /\ UNCHANGED <<config, phase, cancelled, iteration, results, completions, lateWork,
                   rpcVars, canceller>>

\* The call into the engine, which a cancel() may have preceded.
LaunchExplorer ==
    /\ Goto("launch", "exploring")
    /\ lateWork' = IF cancelled THEN lateWork + 1 ELSE lateWork
    /\ UNCHANGED <<config, phase, cancelled, iteration, results, completions, rpcVars, canceller>>

\* The engine returned or raised.
ExplorerDone ==
    /\ Goto("exploring", "pick")
    /\ \E success \in BOOLEAN : results' = Append(results, success)
    /\ UNCHANGED <<config, phase, cancelled, iteration, completions, lateWork, rpcVars, canceller>>

AllSucceeded == \A i \in DOMAIN results : results[i]

\* Mutant of AfterExplorers: no look at the flag.
AfterExplorersUnchecked ==
    /\ worker = "explored"
    /\ worker' = IF config.critic THEN "review"
                 ELSE IF AllSucceeded THEN "finish" ELSE "loop"
    /\ UNCHANGED <<config, phase, cancelled, iteration, results, completions, lateWork,
                   rpcVars, canceller>>

AfterExplorers ==
    /\ worker = "explored"
    /\ worker' = IF cancelled THEN "returned"
                 ELSE IF config.critic THEN "review"
                 ELSE IF AllSucceeded THEN "finish" ELSE "loop"
    /\ UNCHANGED <<config, phase, cancelled, iteration, results, completions, lateWork,
                   rpcVars, canceller>>

Review ==
    /\ Goto("review", "ask")
    /\ SetPhase("reviewing")
    /\ UNCHANGED <<config, cancelled, iteration, results, completions, lateWork,
                   rpcVars, canceller>>

\* _run_critic: max() of no results raises ValueError, else the engine runs.
AskCritic ==
    /\ worker = "ask"
    /\ IF results = <<>>
       THEN worker' = "fail" /\ UNCHANGED lateWork
       ELSE /\ worker' = "critic"
            /\ lateWork' = IF cancelled THEN lateWork + 1 ELSE lateWork
    /\ UNCHANGED <<config, phase, cancelled, iteration, results, completions, rpcVars, canceller>>

\* requires_fix is REJECT or a failed explorer; an error of the critic
\* approves.  No fix follows a rejection: nothing fills review.fix_plan, so
\* the guard of the fixing phase is false and the loop goes round.
CriticDone ==
    /\ worker = "critic"
    /\ \/ /\ \E verdict \in {"approve", "reject"} :
                worker' = IF verdict = "reject" \/ ~AllSucceeded THEN "loop" ELSE "finish"
       \/ worker' = "approvedOnError"
    /\ UNCHANGED <<config, phase, cancelled, iteration, results, completions, lateWork,
                   rpcVars, canceller>>

\* The terminal block; cancelled is not looked at.
Finish ==
    /\ worker \in {"finish", "approvedOnError"}
    /\ SetPhase("completed")
    /\ worker' = "notify"
    /\ UNCHANGED <<config, cancelled, iteration, results, completions, lateWork,
                   rpcVars, canceller>>

Fail ==
    /\ Goto("fail", "notify")
    /\ SetPhase("failed")
    /\ UNCHANGED <<config, cancelled, iteration, results, completions, lateWork,
                   rpcVars, canceller>>

\* callback.on_complete(run)
Notify ==
    /\ Goto("notify", "ended")
    /\ completions' = Append(completions, phase)
    /\ UNCHANGED <<config, phase, cancelled, iteration, results, lateWork, rpcVars, canceller>>

WorkerStep ==
    \/ BeginRun \/ LoopHead \/ Explore \/ PickExplorer \/ LaunchExplorer
    \/ ExplorerDone \/ AfterExplorers \/ Review \/ AskCritic \/ CriticDone
    \/ Finish \/ Fail \/ Notify

(***************************************************************************)
(* _sync_goal_status                                                       *)
(***************************************************************************)

ReadStatus ==
    /\ sync.at = "polling"
    /\ sync' = [at |-> "read", phase |-> phase]
    /\ UNCHANGED <<config, runVars, mirror, rpc, canceller>>

\* Mutant of CopyStatus: the entry is written without a look for its key.
CopyStatusBlindly ==
    /\ sync.at = "read"
    /\ mirror' = sync.phase
    /\ sync' = IF sync.phase \in TerminalPhases THEN [at |-> "ended"] ELSE [at |-> "polling"]
    /\ UNCHANGED <<config, runVars, rpc, canceller>>

\* Mutant of CopyStatus: the loop ends before the last copy.
CopyStatusTooLate ==
    /\ sync.at = "read"
    /\ mirror' = IF mirror # "none" /\ sync.phase \notin TerminalPhases
                 THEN sync.phase ELSE mirror
    /\ sync' = IF sync.phase \in TerminalPhases THEN [at |-> "ended"] ELSE [at |-> "polling"]
    /\ UNCHANGED <<config, runVars, rpc, canceller>>

CopyStatus ==
    /\ sync.at = "read"
    /\ mirror' = IF mirror # "none" THEN sync.phase ELSE mirror
    /\ sync' = IF sync.phase \in TerminalPhases THEN [at |-> "ended"] ELSE [at |-> "polling"]
    /\ UNCHANGED <<config, runVars, rpc, canceller>>

SyncStep == ReadStatus \/ CopyStatus

(***************************************************************************)
(* CancelGoal, by a client that holds the task id; runner.cancel() first   *)
(***************************************************************************)

\* run.is_terminal is read once, before the writes.
CancelCheck(c) ==
    /\ rpc = "answered"
    /\ canceller[c] = "idle"
    /\ canceller' = [canceller EXCEPT ![c] = IF phase \in TerminalPhases
                                             THEN "refused" ELSE "mark"]
    /\ UNCHANGED <<config, runVars, rpcVars>>

CancelMark(c) ==
    /\ canceller[c] = "mark"
    /\ cancelled' = TRUE
    /\ canceller' = [canceller EXCEPT ![c] = "write"]
    /\ UNCHANGED <<config, phase, iteration, results, worker, completions, lateWork, rpcVars>>

CancelWrite(c) ==
    /\ canceller[c] = "write"
    /\ SetPhase("cancelled")
    /\ canceller' = [canceller EXCEPT ![c] = "pop"]
    /\ UNCHANGED <<config, cancelled, iteration, results, worker, completions, lateWork, rpcVars>>

\* The mirror is popped and the client told "Goal cancelled".
CancelAnswer(c) ==
    /\ canceller[c] = "pop"
    /\ mirror' = "none"
    /\ canceller' = [canceller EXCEPT ![c] = "cancelled"]
    /\ UNCHANGED <<config, runVars, rpc, sync>>

\* runner.cancel() said no: a key that is still mirrored is deleted and the
\* client is told "Goal cancelled" all the same, else "Goal not found".
CancelFallback(c) ==
    /\ canceller[c] = "refused"
    /\ mirror' = "none"
    /\ canceller' = [canceller EXCEPT ![c] = IF mirror # "none"
                                             THEN "dropped" ELSE "not found"]
    /\ UNCHANGED <<config, runVars, rpc, sync>>

CancelStep(c) == CancelMark(c) \/ CancelWrite(c) \/ CancelAnswer(c) \/ CancelFallback(c)

-----------------------------------------------------------------------------

Next ==
    \/ Submit \/ Mirror \/ WorkerStep \/ SyncStep
    \/ \E c \in Cancellers : CancelCheck(c) \/ CancelStep(c)

Spec == Init /\ [][Next]_vars

\* Every thread that exists is scheduled; engine runs return or raise.
FairSpec ==
    /\ Spec
    /\ WF_vars(Mirror)
    /\ WF_vars(WorkerStep)
    /\ WF_vars(SyncStep)
    /\ \A c \in Cancellers : WF_vars(CancelStep(c))

-----------------------------------------------------------------------------

WorkerPCs == {"unborn", "born", "loop", "explore", "pick", "launch", "exploring",
              "explored", "review", "ask", "critic", "finish", "approvedOnError",
              "fail", "notify", "returned", "ended"}

\* Shapes and bounds: never more iterations or explorer results than asked.
TypeOK ==
    /\ config \in Configs
    /\ phase \in Phases \cup {"none"}
    /\ cancelled \in BOOLEAN
    /\ iteration \in 0..MaxIterations
    /\ results \in Seq(BOOLEAN) /\ Len(results) <= config.explorers
    /\ worker \in WorkerPCs
    /\ completions \in Seq(Phases)
    /\ lateWork \in Nat
    /\ mirror \in Phases \cup {"none"}
    /\ rpc \in {"idle", "submitted", "answered"}
    /\ sync \in [at : {"unborn", "polling", "ended"}] \cup [at : {"read"}, phase : Phases]
    /\ canceller \in [Cancellers -> {"idle", "refused", "mark", "write", "pop",
                                     "cancelled", "dropped", "not found"}]

WorkerDone == worker \in {"returned", "ended"}

\* Once cancel() has set the flag, at most one more engine run is started (the
\* one whose check came before the flag): a cancelled goal stops consuming the
\* shared engine.
AtMostOneLateRun == lateWork <= 1

\* on_complete is called at most once, and never for a run whose worker left
\* because it saw the cancellation.
CompletedOnce ==
    /\ Len(completions) <= 1
    /\ worker = "returned" => cancelled /\ completions = <<>>

\* A goal whose cancellation was answered never reappears in _active_goals,
\* although the sync thread may still hold a status it read before.
CancelledStaysUnmirrored ==
    (\E c \in Cancellers : canceller[c] \in {"cancelled", "dropped", "not found"})
       => mirror = "none"

\* A goal that nobody cancels comes to an end for every sequence of verdicts
\* and failures; its owner is called back once, with the final phase, and the
\* watchers see that phase in the mirror.
MirrorCatchesUp ==
    LET uncancelled == \A c \in Cancellers : canceller[c] = "idle" IN
    rpc # "idle" /\ uncancelled
      ~> \/ ~uncancelled
         \/ WorkerDone /\ mirror = phase /\ completions = <<phase>>
=============================================================================
