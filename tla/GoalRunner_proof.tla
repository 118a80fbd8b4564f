-------------------------- MODULE GoalRunner_proof --------------------------
(***************************************************************************)
(* Proofs about GoalRunner, for every number of cancellers, iterations and *)
(* explorers, with and without the critic.                                 *)
(***************************************************************************)
EXTENDS GoalRunner, TLAPS

-----------------------------------------------------------------------------
(* A cancelled goal costs at most one more engine run.                     *)

\* Points of the worker that lie behind a look at the cancelled flag, or
\* before it: from here an engine run may be started without a further look.
CommittedPCs == {"unborn", "born", "explore", "launch", "review", "ask"}

\* No late run before the flag is set, none on the way to a launch, and never
\* more than one.  Where the first late run may leave the worker, the next
\* thing it does is to look at the flag or to stop.
LateInv ==
    /\ lateWork \in {0, 1}
    /\ cancelled \in BOOLEAN
    /\ ~cancelled => lateWork = 0
    /\ worker \in CommittedPCs => lateWork = 0
    /\ rpc = "idle" => worker = "unborn"

LEMMA LateInit == Init => LateInv
BY DEF Init, LateInv

LEMMA LateNext == LateInv /\ [Next]_vars => LateInv'
<1> SUFFICES ASSUME LateInv, [Next]_vars PROVE LateInv'
  OBVIOUS
<1> USE DEF LateInv, CommittedPCs, rpcVars
<1>1. CASE Submit
  BY <1>1 DEF Submit
<1>2. CASE Mirror
  BY <1>2 DEF Mirror, runVars
<1>3. CASE WorkerStep
  <2>1. CASE BeginRun
    BY <2>1 DEF BeginRun, Goto
  <2>2. CASE LoopHead
    BY <2>2 DEF LoopHead
  <2>3. CASE Explore
    BY <2>3 DEF Explore, Goto
  <2>4. CASE PickExplorer
    BY <2>4 DEF PickExplorer
  <2>5. CASE LaunchExplorer
    BY <2>5 DEF LaunchExplorer, Goto
  <2>6. CASE ExplorerDone
    BY <2>6 DEF ExplorerDone, Goto
  <2>7. CASE AfterExplorers
    BY <2>7 DEF AfterExplorers
  <2>8. CASE Review
    BY <2>8 DEF Review, Goto
  <2>9. CASE AskCritic
    BY <2>9 DEF AskCritic
  <2>10. CASE CriticDone
    BY <2>10 DEF CriticDone
  <2>11. CASE Finish
    BY <2>11 DEF Finish
  <2>12. CASE Fail
    BY <2>12 DEF Fail, Goto
  <2>13. CASE Notify
    BY <2>13 DEF Notify, Goto
  <2> QED
    BY <1>3, <2>1, <2>2, <2>3, <2>4, <2>5, <2>6, <2>7, <2>8, <2>9, <2>10,
       <2>11, <2>12, <2>13 DEF WorkerStep
<1>4. CASE SyncStep
  BY <1>4 DEF SyncStep, ReadStatus, CopyStatus, runVars
<1>5. CASE \E c \in Cancellers : CancelCheck(c) \/ CancelStep(c)
  <2> PICK c \in Cancellers : CancelCheck(c) \/ CancelStep(c)
    BY <1>5
  <2>1. UNCHANGED <<lateWork, worker, rpc>> /\ (cancelled' = cancelled \/ cancelled' = TRUE)
    <3>1. CASE CancelCheck(c)
      BY <3>1 DEF CancelCheck, runVars
    <3>2. CASE CancelStep(c)
      BY <3>2 DEF CancelStep, CancelMark, CancelWrite, CancelAnswer, CancelFallback, runVars
    <3> QED
      BY <3>1, <3>2
  <2> QED
    BY <2>1
<1>6. CASE UNCHANGED vars
  BY <1>6 DEF vars, runVars
<1> QED
  BY <1>1, <1>2, <1>3, <1>4, <1>5, <1>6 DEF Next

\* After cancel() has set the flag, the worker starts at most one engine run.
THEOREM LateRunsBounded == Spec => []AtMostOneLateRun
<1>1. LateInv => AtMostOneLateRun
  BY DEF LateInv, AtMostOneLateRun
<1> QED
  BY <1>1, LateInit, LateNext, PTL DEF Spec

-----------------------------------------------------------------------------
(* A cancellation that was answered stays out of the mirror.               *)

\* Cancellations exist only once RunGoal has written the mirror, so nothing
\* can create the entry again after it was removed.
MirrorInv ==
    /\ DOMAIN canceller = Cancellers
    /\ \A c \in Cancellers : canceller[c] # "idle" => rpc = "answered"
    /\ CancelledStaysUnmirrored

LEMMA MirrorInit == Init => MirrorInv
BY DEF Init, MirrorInv, CancelledStaysUnmirrored

LEMMA MirrorNext == MirrorInv /\ [Next]_vars => MirrorInv'
<1> SUFFICES ASSUME MirrorInv, [Next]_vars PROVE MirrorInv'
  OBVIOUS
<1> USE DEF MirrorInv, CancelledStaysUnmirrored
<1>1. CASE Submit
  BY <1>1 DEF Submit
<1>2. CASE Mirror
  BY <1>2 DEF Mirror, runVars
<1>3. CASE WorkerStep
  <2>1. UNCHANGED <<canceller, rpc, mirror>>
    BY <1>3 DEF WorkerStep, BeginRun, LoopHead, Explore, PickExplorer, LaunchExplorer,
                ExplorerDone, AfterExplorers, Review, AskCritic, CriticDone, Finish,
                Fail, Notify, rpcVars
  <2> QED
    BY <2>1
<1>4. CASE SyncStep
  <2>1. UNCHANGED <<canceller, rpc>> /\ (mirror = "none" => mirror' = "none")
    BY <1>4 DEF SyncStep, ReadStatus, CopyStatus
  <2> QED
    BY <2>1
<1>5. CASE \E c \in Cancellers : CancelCheck(c) \/ CancelStep(c)
  <2> PICK c \in Cancellers : CancelCheck(c) \/ CancelStep(c)
    BY <1>5
  <2>1. CASE CancelCheck(c)
    BY <2>1 DEF CancelCheck, rpcVars
  <2>2. CASE CancelMark(c)
    BY <2>2 DEF CancelMark, rpcVars
  <2>3. CASE CancelWrite(c)
    BY <2>3 DEF CancelWrite, rpcVars
  <2>4. CASE CancelAnswer(c)
    BY <2>4 DEF CancelAnswer
  <2>5. CASE CancelFallback(c)
    BY <2>5 DEF CancelFallback
  <2> QED
    BY <2>1, <2>2, <2>3, <2>4, <2>5 DEF CancelStep
<1>6. CASE UNCHANGED vars
  BY <1>6 DEF vars, rpcVars
<1> QED
  BY <1>1, <1>2, <1>3, <1>4, <1>5, <1>6 DEF Next

\* A goal whose CancelGoal was answered never reappears in _active_goals.
THEOREM CancelledUnmirrored == Spec => []CancelledStaysUnmirrored
<1>1. MirrorInv => CancelledStaysUnmirrored
  BY DEF MirrorInv
<1> QED
  BY <1>1, MirrorInit, MirrorNext, PTL DEF Spec

-----------------------------------------------------------------------------
(* The completion callback fires at most once.                             *)

\* Nothing was announced before the worker passed Notify, which it passes
\* once; a worker that returned early had seen the flag.
NotifyInv ==
    /\ cancelled \in BOOLEAN
    /\ worker \in WorkerPCs
    /\ rpc = "idle" => worker = "unborn"
    /\ worker # "ended" => completions = <<>>
    /\ worker = "ended" => Len(completions) = 1
    /\ worker = "returned" => cancelled

LEMMA NotifyInit == Init => NotifyInv
BY DEF Init, NotifyInv, WorkerPCs

LEMMA NotifyNext == NotifyInv /\ [Next]_vars => NotifyInv'
<1> SUFFICES ASSUME NotifyInv, [Next]_vars PROVE NotifyInv'
  OBVIOUS
<1> USE DEF NotifyInv, WorkerPCs, rpcVars
<1>1. CASE Submit
  BY <1>1 DEF Submit
<1>2. CASE Mirror
  BY <1>2 DEF Mirror, runVars
<1>3. CASE WorkerStep
  <2>1. CASE Notify
    <3>1. completions = <<>> /\ completions' = Append(<<>>, phase)
      BY <2>1 DEF Notify, Goto
    <3>2. Len(completions') = 1
      BY <3>1
    <3> QED
      BY <2>1, <3>2 DEF Notify, Goto
  <2>2. CASE LoopHead \/ AfterExplorers
    BY <2>2 DEF LoopHead, AfterExplorers
  <2>3. CASE BeginRun \/ Explore \/ PickExplorer \/ LaunchExplorer \/ ExplorerDone
    BY <2>3 DEF BeginRun, Explore, PickExplorer, LaunchExplorer, ExplorerDone, Goto
  <2>4. CASE Review \/ AskCritic \/ CriticDone \/ Finish \/ Fail
    BY <2>4 DEF Review, AskCritic, CriticDone, Finish, Fail, Goto
  <2> QED
    BY <1>3, <2>1, <2>2, <2>3, <2>4 DEF WorkerStep
<1>4. CASE SyncStep
  BY <1>4 DEF SyncStep, ReadStatus, CopyStatus, runVars
<1>5. CASE \E c \in Cancellers : CancelCheck(c) \/ CancelStep(c)
  <2> PICK c \in Cancellers : CancelCheck(c) \/ CancelStep(c)
    BY <1>5
  <2>1. UNCHANGED <<completions, worker, rpc>> /\ (cancelled' = cancelled \/ cancelled' = TRUE)
    <3>1. CASE CancelCheck(c)
      BY <3>1 DEF CancelCheck, runVars
    <3>2. CASE CancelStep(c)
      BY <3>2 DEF CancelStep, CancelMark, CancelWrite, CancelAnswer, CancelFallback, runVars
    <3> QED
      BY <3>1, <3>2
  <2> QED
    BY <2>1
<1>6. CASE UNCHANGED vars
  BY <1>6 DEF vars, runVars
<1> QED
  BY <1>1, <1>2, <1>3, <1>4, <1>5, <1>6 DEF Next

\* on_complete is called at most once, and never for a run that left early.
THEOREM CompletionOnce == Spec => []CompletedOnce
<1>1. NotifyInv => CompletedOnce
  <2> SUFFICES ASSUME NotifyInv PROVE CompletedOnce
    OBVIOUS
  <2>1. Len(completions) <= 1
    <3>1. CASE worker = "ended"
      <4>1. Len(completions) = 1
        BY <3>1 DEF NotifyInv
      <4> QED
        BY <4>1
    <3>2. CASE worker # "ended"
      <4>1. completions = <<>>
        BY <3>2 DEF NotifyInv
      <4> QED
        BY <4>1
    <3> QED
      BY <3>1, <3>2
  <2>2. worker = "returned" => cancelled /\ completions = <<>>
    BY DEF NotifyInv
  <2> QED
    BY <2>1, <2>2 DEF CompletedOnce
<1> QED
  BY <1>1, NotifyInit, NotifyNext, PTL DEF Spec

-----------------------------------------------------------------------------
(* Types.                                                                  *)

\* Where TypeOK is not inductive: an explorer is launched only while one is
\* missing, and what is copied or announced is a phase once submit() set one.
TypeInv ==
    /\ TypeOK
    /\ worker \in {"launch", "exploring"} => Len(results) < config.explorers
    /\ rpc # "idle" => phase # "none"
    /\ rpc = "idle" => worker = "unborn" /\ sync = [at |-> "unborn"]
    /\ worker # "unborn" => phase # "none"

SyncStates == [at : {"unborn", "polling", "ended"}] \cup [at : {"read"}, phase : Phases]
CancelStates == {"idle", "refused", "mark", "write", "pop", "cancelled", "dropped", "not found"}

LEMMA SyncValues ==
    /\ [at |-> "unborn"] \in SyncStates /\ [at |-> "polling"] \in SyncStates
    /\ [at |-> "ended"] \in SyncStates
    /\ \A p \in Phases : [at |-> "read", phase |-> p] \in SyncStates
    /\ \A s \in SyncStates : s.at = "read" => s.phase \in Phases
    /\ [at |-> "unborn"].at = "unborn"
  BY DEF SyncStates

LEMMA TypeStart == Init => TypeInv
<1> SUFFICES ASSUME Init PROVE TypeInv
  OBVIOUS
<1>1. <<>> \in Seq(BOOLEAN) /\ <<>> \in Seq(Phases) /\ Len(<<>>) = 0
  OBVIOUS
<1>2. config \in Configs /\ config.explorers \in Nat
  BY GoalAssumption DEF Init, Configs
<1>3. sync = [at |-> "unborn"] /\ sync \in SyncStates
  BY SyncValues DEF Init
<1>4. canceller \in [Cancellers -> CancelStates]
  BY DEF Init, CancelStates
<1>5. /\ results \in Seq(BOOLEAN) /\ Len(results) <= config.explorers
      /\ completions \in Seq(Phases)
  BY <1>1, <1>2 DEF Init
<1>6. /\ phase = "none" /\ cancelled = FALSE /\ iteration \in 0..MaxIterations
      /\ worker = "unborn" /\ lateWork = 0 /\ mirror = "none" /\ rpc = "idle"
  BY GoalAssumption DEF Init
<1>7. TypeOK
  BY <1>2, <1>3, <1>4, <1>5, <1>6 DEF TypeOK, WorkerPCs, SyncStates, CancelStates
<1> QED
  BY <1>3, <1>6, <1>7 DEF TypeInv

LEMMA TypeNext == TypeInv /\ [Next]_vars => TypeInv'
<1> SUFFICES ASSUME TypeInv, [Next]_vars PROVE TypeInv'
  OBVIOUS
<1>0. /\ config \in Configs /\ config.explorers \in Nat /\ config.critic \in BOOLEAN
      /\ phase \in Phases \cup {"none"} /\ cancelled \in BOOLEAN
      /\ iteration \in 0..MaxIterations /\ MaxIterations \in Nat
      /\ results \in Seq(BOOLEAN) /\ Len(results) \in Nat /\ Len(results) <= config.explorers
      /\ worker \in WorkerPCs /\ completions \in Seq(Phases) /\ lateWork \in Nat
      /\ mirror \in Phases \cup {"none"} /\ rpc \in {"idle", "submitted", "answered"}
      /\ sync \in SyncStates /\ canceller \in [Cancellers -> CancelStates]
      /\ {"planning", "exploring", "reviewing", "completed", "failed", "cancelled"} = Phases
  <2>1. /\ config \in Configs /\ phase \in Phases \cup {"none"} /\ cancelled \in BOOLEAN
        /\ iteration \in 0..MaxIterations
        /\ results \in Seq(BOOLEAN) /\ Len(results) <= config.explorers
        /\ worker \in WorkerPCs /\ completions \in Seq(Phases) /\ lateWork \in Nat
        /\ mirror \in Phases \cup {"none"} /\ rpc \in {"idle", "submitted", "answered"}
        /\ sync \in SyncStates /\ canceller \in [Cancellers -> CancelStates]
    BY DEF TypeInv, TypeOK, SyncStates, CancelStates
  <2>2. config.explorers \in Nat /\ config.critic \in BOOLEAN /\ MaxIterations \in Nat
    BY <2>1, GoalAssumption DEF Configs
  <2>3. Len(results) \in Nat
    BY <2>1
  <2> QED
    BY <2>1, <2>2, <2>3 DEF Phases
<1> DEFINE Goal == TypeInv'
\* A step of the worker, which leaves the rest alone.
<1>1. ASSUME worker # "unborn", worker' \in WorkerPCs \ {"unborn"},
             phase' \in Phases, iteration' \in 0..MaxIterations,
             results' \in Seq(BOOLEAN), Len(results') <= config.explorers,
             worker' \in {"launch", "exploring"} => Len(results') < config.explorers,
             completions' \in Seq(Phases), lateWork' \in Nat,
             UNCHANGED <<config, cancelled, mirror, rpc, sync, canceller>>
      PROVE  Goal
  <2>1. rpc # "idle" /\ "none" \notin Phases
    BY <1>1 DEF TypeInv, Phases
  <2> QED
    BY <1>0, <1>1, <2>1 DEF TypeInv, TypeOK, SyncStates, CancelStates
<1>2. CASE WorkerStep
  <2>0. worker # "unborn" /\ phase \in Phases /\ UNCHANGED <<config, cancelled, mirror, rpc, sync, canceller>>
    <3>1. worker # "unborn" /\ UNCHANGED <<config, cancelled, mirror, rpc, sync, canceller>>
      BY <1>2 DEF WorkerStep, BeginRun, LoopHead, Explore, PickExplorer, LaunchExplorer,
                  ExplorerDone, AfterExplorers, Review, AskCritic, CriticDone, Finish,
                  Fail, Notify, Goto, rpcVars
    <3> QED
      BY <1>0, <3>1 DEF TypeInv
  <2>1. CASE LoopHead
    BY <1>0, <1>1, <2>0, <2>1 DEF LoopHead, WorkerPCs
  <2>2. CASE Explore
    <3>1. <<>> \in Seq(BOOLEAN) /\ Len(<<>>) = 0
      OBVIOUS
    <3> QED
      BY <1>0, <1>1, <2>0, <2>2, <3>1 DEF Explore, Goto, SetPhase, WorkerPCs
  <2>3. CASE PickExplorer
    BY <1>0, <1>1, <2>0, <2>3 DEF PickExplorer, WorkerPCs
  <2>4. CASE LaunchExplorer
    BY <1>0, <1>1, <2>0, <2>4 DEF LaunchExplorer, Goto, WorkerPCs, TypeInv
  <2>5. CASE ExplorerDone
    <3>1. PICK success \in BOOLEAN : results' = Append(results, success)
      BY <2>5 DEF ExplorerDone
    <3>2. results' \in Seq(BOOLEAN) /\ Len(results') = Len(results) + 1
      BY <1>0, <3>1
    <3>3. Len(results') <= config.explorers
      BY <1>0, <2>5, <3>2 DEF ExplorerDone, Goto, TypeInv
    <3> QED
      BY <1>0, <1>1, <2>0, <2>5, <3>2, <3>3 DEF ExplorerDone, Goto, WorkerPCs
  <2>6. CASE AfterExplorers
    BY <1>0, <1>1, <2>0, <2>6 DEF AfterExplorers, WorkerPCs
  <2>7. CASE AskCritic \/ CriticDone
    BY <1>0, <1>1, <2>0, <2>7 DEF AskCritic, CriticDone, WorkerPCs
  <2>8. CASE BeginRun \/ Review \/ Finish \/ Fail
    BY <1>0, <1>1, <2>0, <2>8 DEF BeginRun, Review, Finish, Fail, Goto, SetPhase, WorkerPCs
  <2>9. CASE Notify
    <3>1. Append(completions, phase) \in Seq(Phases)
      BY <1>0, <2>0
    <3> QED
      BY <1>0, <1>1, <2>0, <2>9, <3>1 DEF Notify, Goto, WorkerPCs
  <2> QED
    BY <1>2, <2>1, <2>2, <2>3, <2>4, <2>5, <2>6, <2>7, <2>8, <2>9 DEF WorkerStep
<1>3. CASE Submit
  BY <1>0, <1>3 DEF Submit, TypeInv, TypeOK, WorkerPCs, SyncStates, CancelStates
\* A step outside the worker and submit().
<1>4. ASSUME UNCHANGED <<config, iteration, results, worker, completions, lateWork>>,
             phase' \in {phase, "cancelled"}, cancelled' \in BOOLEAN,
             mirror' \in Phases \cup {"none"}, rpc' \in {rpc, "answered"},
             rpc' = "answered" => rpc # "idle",
             sync' \in SyncStates, rpc = "idle" => sync' = sync,
             canceller' \in [Cancellers -> CancelStates]
      PROVE  Goal
  BY <1>0, <1>4 DEF TypeInv, TypeOK, SyncStates, CancelStates
<1>5. CASE Mirror
  BY <1>0, <1>4, <1>5, SyncValues DEF Mirror, runVars
<1>6. CASE SyncStep
  <2>1. CASE ReadStatus
    <3>1. rpc # "idle" /\ phase \in Phases
      BY <1>0, <2>1, SyncValues DEF ReadStatus, TypeInv
    <3> QED
      BY <1>0, <1>4, <2>1, <3>1, SyncValues DEF ReadStatus, runVars
  <2>2. CASE CopyStatus
    <3>1. rpc # "idle" /\ sync.phase \in Phases
      BY <1>0, <2>2, SyncValues DEF CopyStatus, TypeInv
    <3> QED
      BY <1>0, <1>4, <2>2, <3>1, SyncValues DEF CopyStatus, runVars
  <2> QED
    BY <1>6, <2>1, <2>2 DEF SyncStep
<1>7. ASSUME NEW c \in Cancellers, CancelCheck(c) \/ CancelStep(c) PROVE Goal
  <2>1. /\ UNCHANGED <<config, iteration, results, worker, completions, lateWork, rpc, sync>>
        /\ phase' \in {phase, "cancelled"} /\ cancelled' \in BOOLEAN
        /\ mirror' \in {mirror, "none"}
        /\ \E s \in CancelStates : canceller' = [canceller EXCEPT ![c] = s]
    <3>1. CASE CancelCheck(c)
      BY <1>0, <3>1 DEF CancelCheck, runVars, rpcVars, CancelStates
    <3>2. CASE CancelMark(c)
      BY <1>0, <3>2 DEF CancelMark, rpcVars, CancelStates
    <3>3. CASE CancelWrite(c)
      BY <1>0, <3>3 DEF CancelWrite, SetPhase, rpcVars, CancelStates
    <3>4. CASE CancelAnswer(c)
      BY <1>0, <3>4 DEF CancelAnswer, runVars, CancelStates
    <3>5. CASE CancelFallback(c)
      BY <1>0, <3>5 DEF CancelFallback, runVars, CancelStates
    <3> QED
      BY <1>7, <3>1, <3>2, <3>3, <3>4, <3>5 DEF CancelStep
  <2>2. canceller' \in [Cancellers -> CancelStates] /\ mirror' \in Phases \cup {"none"}
    BY <1>0, <2>1
  <2>3. rpc' = rpc /\ sync' = sync /\ sync' \in SyncStates
    BY <1>0, <2>1
  <2> QED
    BY <1>4, <2>1, <2>2, <2>3 DEF TypeInv
<1>8. CASE UNCHANGED vars
  BY <1>0, <1>4, <1>8 DEF vars, runVars, rpcVars
<1> QED
  BY <1>2, <1>3, <1>5, <1>6, <1>7, <1>8 DEF Next

\* Every variable keeps its type: no iteration, and no explorer of one, too
\* many, and nothing but a phase is mirrored or announced.
THEOREM TypeCorrect == Spec => []TypeOK
<1>1. TypeInv => TypeOK
  BY DEF TypeInv
<1> QED
  BY <1>1, TypeStart, TypeNext, PTL DEF Spec

-----------------------------------------------------------------------------
(* A goal that nobody cancels: what its owner and its watchers are told in *)
(* the end.  This is the part of MirrorCatchesUp that needs no fairness.   *)

Uncancelled == \A c \in Cancellers : canceller[c] = "idle"
Ends == {"completed", "failed"}

\* While nobody cancels, the worker leaves by its end only; once it has left,
\* the owner was told the phase, which is final; once the sync thread has
\* left, the mirror shows that phase (goal.py _run_loop, agent_grpc.py
\* _sync_goal_status).
EndShown ==
    Uncancelled =>
        /\ worker # "returned"
        /\ worker = "ended" => phase \in Ends /\ completions = <<phase>>
        /\ sync.at = "ended" => phase \in Ends /\ mirror = phase

\* The worker alone writes the phase, and writes a final one last: a final
\* phase that the sync thread has read is the phase for good.
EndInv ==
    Uncancelled =>
        /\ ~cancelled /\ worker # "returned"
        /\ phase \in (IF worker \in {"notify", "ended"} THEN Ends
                      ELSE {"none", "planning", "exploring", "reviewing"})
        /\ completions = IF worker = "ended" THEN <<phase>> ELSE <<>>
        /\ rpc = "answered" <=> sync.at # "unborn"
        /\ rpc = "answered" => mirror # "none"
        /\ rpc = "idle" => worker = "unborn"
        /\ sync.at = "read" /\ sync.phase \in TerminalPhases => sync.phase = phase
        /\ sync.at = "ended" => mirror = phase /\ phase \in Ends

LEMMA EndInit == Init => EndInv
BY DEF Init, EndInv, Uncancelled

\* A step that begins or goes on with a cancellation ends with one begun.
LEMMA CancelBegun ==
  ASSUME TypeOK, NEW c \in Cancellers, CancelCheck(c) \/ CancelStep(c)
  PROVE  ~Uncancelled'
<1>1. canceller'[c] # "idle"
  <2>1. CASE CancelCheck(c)
    BY <2>1 DEF CancelCheck, TypeOK
  <2>2. CASE CancelStep(c)
    BY <2>2 DEF CancelStep, CancelMark, CancelWrite, CancelAnswer, CancelFallback, TypeOK
  <2> QED
    BY <2>1, <2>2
<1> QED
  BY <1>1 DEF Uncancelled

\* The worker's steps: it ends with a final phase, and tells it.
LEMMA EndWorker ==
  ASSUME EndInv, WorkerStep
  PROVE  EndInv'
<1> USE DEF rpcVars
<1>0. UNCHANGED <<cancelled, mirror, rpc, sync, canceller>>
  BY DEF WorkerStep, BeginRun, LoopHead, Explore, PickExplorer, LaunchExplorer,
         ExplorerDone, AfterExplorers, Review, AskCritic, CriticDone, Finish, Fail, Notify
<1> SUFFICES ASSUME Uncancelled PROVE EndInv'
  BY <1>0 DEF EndInv, Uncancelled
\* While it works, the sync thread has read nothing final.
<1>1. ASSUME worker \notin {"unborn", "notify", "ended"}
      PROVE  /\ ~cancelled /\ completions = <<>> /\ rpc # "idle" /\ sync.at # "ended"
             /\ sync.at = "read" => sync.phase \notin TerminalPhases
             /\ phase \in {"none", "planning", "exploring", "reviewing"}
  BY <1>1 DEF EndInv, Ends, TerminalPhases
<1>2. CASE Notify
  <2>1. /\ worker = "notify" /\ worker' = "ended" /\ phase' = phase
        /\ completions = <<>> /\ completions' = Append(<<>>, phase)
    BY <1>2 DEF Notify, Goto, EndInv
  <2>2. completions' = <<phase>>
    BY <2>1
  <2> QED
    BY <1>0, <2>1, <2>2 DEF EndInv
<1>3. CASE Finish \/ Fail
  <2>1. /\ worker \notin {"unborn", "notify", "ended"} /\ worker' = "notify"
        /\ phase' \in Ends /\ completions' = completions
    BY <1>3 DEF Finish, Fail, Goto, SetPhase, Ends
  <2> QED
    BY <1>0, <1>1, <2>1 DEF EndInv
<1>4. CASE ~(Notify \/ Finish \/ Fail)
  <2>1. /\ worker \notin {"unborn", "notify", "ended"}
        /\ worker' \notin {"unborn", "notify", "ended"}
        /\ phase' \in {phase, "planning", "exploring", "reviewing"}
        /\ completions' = completions
        /\ worker' = "returned" => cancelled
    <3>1. CASE LoopHead \/ AfterExplorers \/ PickExplorer
      BY <3>1 DEF LoopHead, AfterExplorers, PickExplorer
    <3>2. CASE BeginRun \/ Explore \/ LaunchExplorer \/ ExplorerDone \/ Review
      BY <3>2 DEF BeginRun, Explore, LaunchExplorer, ExplorerDone, Review, Goto, SetPhase
    <3>3. CASE AskCritic \/ CriticDone
      BY <3>3 DEF AskCritic, CriticDone
    <3> QED
      BY <1>4, <3>1, <3>2, <3>3 DEF WorkerStep
  <2> QED
    BY <1>0, <1>1, <2>1 DEF EndInv
<1> QED
  BY <1>2, <1>3, <1>4

LEMMA EndNext == TypeInv /\ EndInv /\ [Next]_vars => EndInv'
<1> SUFFICES ASSUME TypeInv, EndInv, [Next]_vars PROVE EndInv'
  OBVIOUS
<1>0. TypeOK /\ sync \in SyncStates
  BY DEF TypeInv, TypeOK, SyncStates
<1>1. CASE Submit
  <2>1. /\ rpc = "idle" /\ rpc' = "submitted" /\ phase' = "planning" /\ worker' = "born"
        /\ UNCHANGED <<cancelled, completions, mirror, sync, canceller>>
    BY <1>1 DEF Submit
  <2>2. sync.at = "unborn"
    BY <2>1, SyncValues DEF TypeInv
  <2> QED
    BY <2>1, <2>2 DEF EndInv, Uncancelled
<1>2. CASE Mirror
  BY <1>2 DEF Mirror, runVars, EndInv, Uncancelled
<1>3. CASE WorkerStep
  BY <1>3, EndWorker
<1>4. CASE ReadStatus
  BY <1>4 DEF ReadStatus, runVars, EndInv, Uncancelled
<1>5. CASE CopyStatus
  <2>1. sync.phase \in Phases /\ sync.phase # "none"
    BY <1>0, <1>5, SyncValues DEF CopyStatus, Phases
  <2>2. /\ sync.at = "read" /\ UNCHANGED <<runVars, rpc, canceller>>
        /\ mirror' = IF mirror # "none" THEN sync.phase ELSE mirror
        /\ sync' = IF sync.phase \in TerminalPhases THEN [at |-> "ended"]
                   ELSE [at |-> "polling"]
    BY <1>5 DEF CopyStatus
  <2>3. ASSUME Uncancelled PROVE mirror' = sync.phase /\ rpc = "answered"
    BY <2>2, <2>3 DEF EndInv
  <2>4. CASE sync.phase \in TerminalPhases
    <3>1. sync'.at = "ended"
      BY <2>2, <2>4
    <3>2. ASSUME Uncancelled PROVE phase = sync.phase /\ phase \in Ends
      BY <2>2, <2>4, <3>2 DEF EndInv, TerminalPhases, Ends
    <3> QED
      BY <2>1, <2>2, <2>3, <3>1, <3>2 DEF EndInv, Uncancelled, runVars
  <2>5. CASE sync.phase \notin TerminalPhases
    <3>1. sync'.at = "polling"
      BY <2>2, <2>5
    <3> QED
      BY <2>1, <2>2, <2>3, <3>1 DEF EndInv, Uncancelled, runVars
  <2> QED
    BY <2>4, <2>5
<1>6. CASE \E c \in Cancellers : CancelCheck(c) \/ CancelStep(c)
  BY <1>0, <1>6, CancelBegun DEF EndInv
<1>7. CASE UNCHANGED vars
  BY <1>7 DEF vars, runVars, rpcVars, EndInv, Uncancelled
<1> QED
  BY <1>1, <1>2, <1>3, <1>4, <1>5, <1>6, <1>7 DEF Next, SyncStep

\* Who submitted a goal that nobody cancels, and who watches it, are told the
\* same final phase, the one that is in the run.
THEOREM EndShownCorrect == Spec => []EndShown
<1>1. EndInv => EndShown
  BY DEF EndInv, EndShown
<1> QED
  BY <1>1, TypeStart, TypeNext, EndInit, EndNext, PTL DEF Spec
=============================================================================
