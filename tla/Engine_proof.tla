---------------------------- MODULE Engine_proof ----------------------------
(***************************************************************************)
(* Proofs about Engine: its types, that a request is answered with its own *)
(* result, and that stop() is obeyed, for any number of requests, direct   *)
(* runs, windows, spirals and restarts.                                    *)
(***************************************************************************)
EXTENDS Engine, TLAPS

\* A call of run_task() that has the engine's lock.
Engaged == {"enter", "prepare", "loop", "spiral", "verdict", "result", "return",
            "release", "raising"}

\* Where TypeOK is not inductive: a run begins no more spirals than it may,
\* completes no more than it began, and its session id has been drawn.
Counted ==
    /\ \A r \in Runs : /\ local[r].begun <= Limit(r)
                       /\ local[r].results <= local[r].begun
                       /\ at[r] = "spiral" => local[r].results < local[r].begun
                       /\ at[r] \in {"idle", "waiting", "session", "enter", "prepare"}
                            => local[r].begun = 0
    /\ state.session <= minted
    /\ state.session \in Nat \ {0}

\* The engine's lock belongs to the request that is past it.
EngineHeld == \A r \in Requests : at[r] \in Engaged => runLock = r

\* The answer that is about to be returned.
AnswerIsOwn == \A r \in Requests : at[r] = "release" => local[r].answer = r

\* Nobody else writes _last_result before the request has read it.
ReturnsOwn == \A r \in Requests : at[r] = "return" => lastResult = r

\* A stopped run is on its way out.
StoppedLeaves ==
    \A r \in stopped : \/ at[r] = "result"
                       \/ r \in Inside /\ ~running

Calls == [window : Windows \cup {NoWindow}, begun : 0..MaxSpirals, results : 0..MaxSpirals,
          status : Statuses, answer : Requests \cup {NoRun}]
FileContents == [window : Windows \cup {NoWindow}, content : Contents]

LEMMA LimitInRange == \A r \in Runs : Limit(r) \in 1..MaxSpirals
  BY EngineAssumption DEF Limit

\* A written session file is well-typed.
LEMMA WrittenType ==
    ASSUME TypeOK, Counted, NEW c \in Contents, NEW s \in States, s.session = state.session
    PROVE  /\ Written(s, c) \in [DOMAIN Written(s, c) -> FileContents]
           /\ DOMAIN Written(s, c) \subseteq 1..minted
<1>1. DOMAIN Written(s, c) = DOMAIN files \cup {state.session}
  BY DEF Written
<1>2. state.session \in 1..minted
  BY DEF TypeOK, Counted
<1>3. s.window \in Windows \cup {NoWindow}
  BY DEF States
<1>4. [window |-> s.window, content |-> c] \in FileContents
  BY <1>3 DEF FileContents
<1>5. \A x \in DOMAIN files : files[x] \in FileContents
  BY DEF TypeOK, FileContents
<1>6. \A x \in DOMAIN Written(s, c) : Written(s, c)[x] \in FileContents
  BY <1>1, <1>4, <1>5 DEF Written
<1>7. Written(s, c) = [x \in DOMAIN Written(s, c) |-> Written(s, c)[x]]
  BY DEF Written
<1> QED
  BY <1>1, <1>2, <1>6, <1>7 DEF TypeOK

LEMMA SavedType ==
    ASSUME TypeOK, Counted, NEW s \in States, s.session = state.session
    PROVE  /\ Saved(s) \in [DOMAIN Saved(s) -> FileContents]
           /\ DOMAIN Saved(s) \subseteq 1..minted
  BY WrittenType DEF Saved, Contents

\* A new session, or the prepared one, is well-typed.
LEMMA PreparedType ==
    ASSUME TypeOK, Counted, NEW w \in Windows \cup {NoWindow}
    PROVE  /\ Prepared(w) \in States
           /\ Prepared(w).session \in {state.session, minted + 1}
  BY DEF TypeOK, Counted, Prepared, Fresh, States, Interrupts

\* What a step leaves in the shared state, the counters and the files.
LEMMA SharedTypes ==
    ASSUME TypeOK, Counted, [Next]_vars
    PROVE  /\ state' \in States /\ minted' \in Nat
           /\ state'.session <= minted' /\ state'.session \in Nat \ {0}
           /\ files' \in [DOMAIN files' -> FileContents]
           /\ DOMAIN files' \subseteq 1..minted'
<1> DEFINE Good ==
      /\ state' \in States /\ minted' \in Nat
      /\ state'.session <= minted' /\ state'.session \in Nat \ {0}
      /\ files' \in [DOMAIN files' -> FileContents]
      /\ DOMAIN files' \subseteq 1..minted'
<1>0. /\ state \in States /\ state.session \in Nat /\ minted \in Nat
      /\ files \in [DOMAIN files -> FileContents]
  BY DEF TypeOK, States, FileContents
<1>1. ASSUME UNCHANGED stateVars PROVE Good
  BY <1>0, <1>1 DEF TypeOK, Counted, stateVars
<1>2. ASSUME NEW r \in Runs, Prepare(r) PROVE Good
  <2>1. local[r].window \in Windows \cup {NoWindow}
    BY DEF TypeOK
  <2>2. state' \in States /\ state'.session \in {state.session, minted + 1}
    BY <1>2, <2>1, PreparedType DEF Prepare
  <2>3. /\ minted' \in {minted, minted + 1}
        /\ state'.session <= minted' /\ state'.session \in Nat \ {0}
    BY <1>0, <1>2, <2>2 DEF Prepare, Counted
  <2> QED
    BY <1>0, <1>2, <2>2, <2>3 DEF TypeOK, Prepare
<1>3. ASSUME UNCHANGED <<state, minted>>, files' = Saved(state) PROVE Good
  BY <1>0, <1>3, SavedType DEF Counted
<1>4. ASSUME NEW kind \in Interrupts, NEW r \in Runs, InterruptRun(r, kind) PROVE Good
  <2>1. state' \in States /\ state'.session = state.session
    BY <1>0, <1>4 DEF InterruptRun, States
  <2>2. /\ Saved(state') \in [DOMAIN Saved(state') -> FileContents]
        /\ DOMAIN Saved(state') \subseteq 1..minted
    BY <2>1, SavedType
  <2> QED
    BY <1>0, <1>4, <2>1, <2>2 DEF InterruptRun, Counted
<1>5. ASSUME NEW r \in Runs, SaveFails(r) PROVE Good
  <2>1. state' \in States /\ state'.session = state.session
    BY <1>0, <1>5 DEF SaveFails, States, Interrupts
  <2>2. /\ Written(state, "torn") \in [DOMAIN Written(state, "torn") -> FileContents]
        /\ DOMAIN Written(state, "torn") \subseteq 1..minted
    BY <1>0, WrittenType DEF Contents
  <2> QED
    BY <1>0, <1>5, <2>1, <2>2 DEF SaveFails, Counted, TypeOK
<1>6. ASSUME Restart PROVE Good
  <2>1. minted' = minted + 1
    BY <1>6 DEF Restart
  <2>2. Fresh(NoWindow) \in States /\ Fresh(NoWindow).session = minted + 1
    BY <1>0 DEF Fresh, States, Interrupts
  <2>3. ASSUME NEW s \in DOMAIN files
        PROVE  /\ s \in 1..minted
               /\ [session |-> s, window |-> files[s].window, interrupt |-> "none"] \in States
               /\ [x \in DOMAIN files \ {s} |-> files[x]]
                     \in [DOMAIN files \ {s} -> FileContents]
    <3>1. s \in 1..minted /\ files[s].window \in Windows \cup {NoWindow}
      BY <1>0 DEF TypeOK, FileContents
    <3> QED
      BY <1>0, <3>1 DEF States, Interrupts
  <2>4. /\ state' \in States
        /\ state'.session \in 1..minted'
    <3>1. CASE state' = Fresh(NoWindow)
      BY <1>0, <2>1, <2>2, <3>1
    <3>2. CASE \E s \in DOMAIN files :
                 state' = [session |-> s, window |-> files[s].window, interrupt |-> "none"]
      <4>1. PICK s \in DOMAIN files :
               state' = [session |-> s, window |-> files[s].window, interrupt |-> "none"]
        BY <3>2
      <4>2. state'.session = s
        BY <4>1
      <4> QED
        BY <1>0, <2>1, <2>3, <4>1, <4>2
    <3> QED
      BY <1>6, <3>1, <3>2 DEF Restart
  <2>5. /\ files' \in [DOMAIN files' -> FileContents]
        /\ DOMAIN files' \subseteq DOMAIN files
    <3>1. CASE UNCHANGED files
      BY <1>0, <3>1
    <3>2. CASE \E s \in DOMAIN files : files' = [x \in DOMAIN files \ {s} |-> files[x]]
      BY <1>0, <2>3, <3>2
    <3> QED
      BY <1>6, <3>1, <3>2 DEF Restart
  <2>6. DOMAIN files' \subseteq 1..minted'
    <3>1. DOMAIN files \subseteq 1..minted
      BY DEF TypeOK
    <3> QED
      BY <1>0, <2>1, <2>5, <3>1
  <2>7. minted' \in Nat /\ state'.session <= minted' /\ state'.session \in Nat \ {0}
    BY <1>0, <2>1, <2>4
  <2> QED
    BY <2>4, <2>5, <2>6, <2>7
<1>7. ASSUME NEW r \in Runs, RunStep(r) PROVE Good
  BY <1>1, <1>2, <1>3, <1>4, <1>5, <1>7
     DEF RunStep, Enter, Reflex, LeaveLoop, BeginSpiral, CompleteSpiral, Verdict, stateVars
<1>8. CASE \/ \E r \in Requests : \/ AcquireSession(r) \/ AcquireEngine(r)
                                 \/ Store(r) \/ Return(r) \/ Release(r)
           \/ \E r \in Requests, w \in Windows : Call(r, w)
           \/ \E r \in Direct : DirectEnds(r)
           \/ Stop \/ UNCHANGED vars
  BY <1>1, <1>8 DEF AcquireSession, AcquireEngine, Store, Return, Release, Call, DirectEnds,
                    Stop, vars, stateVars
<1> QED
  BY <1>6, <1>7, <1>8 DEF Next, TaskStep, Runs

\* What a step leaves in the calls: their places, arguments and results.
CallsGood == /\ at \in [Runs -> PCs] /\ local \in [Runs -> Calls]
             /\ \A r \in Runs :
                   /\ local[r].begun <= Limit(r)
                   /\ local[r].results <= local[r].begun
                   /\ at[r] = "spiral" => local[r].results < local[r].begun
                   /\ at[r] \in {"idle", "waiting", "session", "enter", "prepare"}
                        => local[r].begun = 0

\* A step of one call that leaves it well-typed leaves all of them so.
LEMMA OneCall ==
    ASSUME CallsGood, NEW r \in Runs, NEW pc \in PCs, NEW call \in Calls,
           at' = [at EXCEPT ![r] = pc], local' = [local EXCEPT ![r] = call],
           call.begun <= Limit(r), call.results <= call.begun,
           pc = "spiral" => call.results < call.begun,
           pc \in {"idle", "waiting", "session", "enter", "prepare"} => call.begun = 0
    PROVE  CallsGood'
<1>1. Limit(r)' = Limit(r) /\ \A q \in Runs : Limit(q)' = Limit(q)
  BY DEF Limit
<1>2. at' \in [Runs -> PCs] /\ local' \in [Runs -> Calls]
  BY DEF CallsGood
<1>3. at'[r] = pc /\ local'[r] = call
  BY DEF CallsGood
<1>4. \A q \in Runs \ {r} : at'[q] = at[q] /\ local'[q] = local[q]
  BY DEF CallsGood
<1> QED
  BY <1>1, <1>2, <1>3, <1>4 DEF CallsGood

LEMMA CallTypes == TypeOK /\ Counted /\ [Next]_vars => CallsGood'
<1> SUFFICES ASSUME TypeOK, Counted, [Next]_vars PROVE CallsGood'
  OBVIOUS
<1>0. CallsGood
  BY DEF TypeOK, Counted, CallsGood, Calls
<1>a. /\ NoCall \in Calls /\ NoCall.begun = 0 /\ NoCall.results = 0
      /\ \A r \in Runs : Limit(r) \in Nat /\ Limit(r) \in 1..MaxSpirals
  BY EngineAssumption, LimitInRange DEF NoCall, Calls, Statuses
<1>b. \A r \in Runs : local[r] \in Calls /\ at[r] \in PCs
  BY <1>0 DEF CallsGood
<1>c. \A r \in Runs : local[r].begun <= Limit(r) /\ local[r].results <= local[r].begun
  BY DEF Counted
<1>d. \A r \in Runs : at[r] = "spiral" => local[r].results < local[r].begun
  BY DEF Counted
<1>e. \A r \in Runs : at[r] \in {"idle", "waiting", "session", "enter", "prepare"}
                        => local[r].begun = 0
  BY DEF Counted
\* Steps that move one call and leave its variables alone.
<1>1. ASSUME NEW r \in Runs, NEW from \in PCs, NEW to \in PCs \ {"spiral", "idle", "waiting"},
             Goto(r, from, to), UNCHANGED local,
             to \in {"session", "enter", "prepare"} => local[r].begun = 0
      PROVE  CallsGood'
  <2>1. local' = [local EXCEPT ![r] = local[r]]
    BY <1>0, <1>1 DEF CallsGood
  <2> QED
    BY <1>0, <1>1, <1>b, <1>c, <2>1, OneCall DEF Goto
\* Steps that end a run or a call.
<1>2. ASSUME NEW r \in Runs, NEW from \in PCs, NEW to \in {"raising", "return", "ended"},
             Goto(r, from, to), NEW call \in Calls, local' = [local EXCEPT ![r] = call],
             call.begun = 0, call.results = 0
      PROVE  CallsGood'
  <2>1. call.begun <= Limit(r) /\ call.results <= call.begun
    BY <1>2, <1>a
  <2>2. at' = [at EXCEPT ![r] = to] /\ to \in PCs /\ to # "spiral"
    BY <1>2 DEF Goto, PCs
  <2> QED
    BY <1>0, <1>2, <2>1, <2>2, OneCall
<1>3. ASSUME NEW r \in Runs, RunOver(r)
      PROVE  \E call \in Calls : /\ local' = [local EXCEPT ![r] = call]
                                /\ call.begun = 0 /\ call.results = 0
  <2> DEFINE call == [NoCall EXCEPT !.window = local[r].window]
  <2>0. local[r].window \in Windows \cup {NoWindow}
    BY <1>b DEF Calls
  <2>1. call = [window |-> local[r].window, begun |-> 0, results |-> 0, status |-> "none",
                answer |-> NoRun]
    BY DEF NoCall
  <2>2. call \in Calls /\ call.begun = 0 /\ call.results = 0
    BY <2>0, <2>1, EngineAssumption DEF Calls, Statuses
  <2> QED
    BY <1>3, <2>2 DEF RunOver
\* Steps that move one call and change one of its variables.
<1>4. ASSUME NEW r \in Requests, NEW w \in Windows, Call(r, w) PROVE CallsGood'
  <2> DEFINE call == [local[r] EXCEPT !.window = w]
  <2>1. call \in Calls /\ call.begun = local[r].begun /\ call.results = local[r].results
    BY <1>b DEF Calls, Runs
  <2>2. local' = [local EXCEPT ![r] = call]
    BY <1>4 DEF Call
  <2>3. at[r] = "idle" /\ at' = [at EXCEPT ![r] = "waiting"]
    BY <1>4 DEF Call, Goto
  <2> HIDE DEF call
  <2> QED
    BY <1>0, <1>c, <1>e, <2>1, <2>2, <2>3, OneCall DEF Runs, PCs
<1>5. ASSUME NEW r \in Runs, BeginSpiral(r) PROVE CallsGood'
  <2> DEFINE call == [local[r] EXCEPT !.begun = @ + 1]
  <2>1. /\ local[r].begun \in Nat /\ local[r].begun < Limit(r)
        /\ local[r].results \in Nat /\ local[r].results <= local[r].begun
    BY <1>5, <1>a, <1>b, <1>c DEF BeginSpiral, LoopEnds, Calls
  <2>2. /\ call \in Calls /\ call.begun = local[r].begun + 1
        /\ call.results = local[r].results
    BY <1>a, <1>b, <2>1, EngineAssumption DEF Calls
  <2>3. local' = [local EXCEPT ![r] = call]
    BY <1>5 DEF BeginSpiral
  <2>4. at' = [at EXCEPT ![r] = "spiral"]
    BY <1>5 DEF BeginSpiral, Goto
  <2>5. call.begun <= Limit(r) /\ call.results < call.begun
    BY <1>a, <2>1, <2>2
  <2>6. call.results <= call.begun
    BY <2>1, <2>2
  <2> HIDE DEF call
  <2> QED
    BY <1>0, <2>2, <2>3, <2>4, <2>5, <2>6, OneCall DEF PCs
<1>6. ASSUME NEW r \in Runs, CompleteSpiral(r) PROVE CallsGood'
  <2> DEFINE call == [local[r] EXCEPT !.results = @ + 1]
  <2>1. /\ local[r].begun \in Nat /\ local[r].begun <= Limit(r)
        /\ local[r].results \in Nat /\ local[r].results < local[r].begun
    BY <1>6, <1>b, <1>c, <1>d DEF CompleteSpiral, Goto, Calls
  <2>2. /\ call \in Calls /\ call.begun = local[r].begun
        /\ call.results = local[r].results + 1
    BY <1>a, <1>b, <2>1, EngineAssumption DEF Calls
  <2>3. local' = [local EXCEPT ![r] = call]
    BY <1>6 DEF CompleteSpiral
  <2>4. at' = [at EXCEPT ![r] = "verdict"] \/ at' = [at EXCEPT ![r] = "loop"]
    BY <1>6 DEF CompleteSpiral, Goto
  <2>5. call.begun <= Limit(r) /\ call.results <= call.begun
    BY <2>1, <2>2
  <2> HIDE DEF call
  <2> QED
    BY <1>0, <2>2, <2>3, <2>4, <2>5, OneCall DEF PCs
<1>7. ASSUME NEW r \in Runs, Goto(r, "loop", "result") \/ Goto(r, "verdict", "result"),
             NEW status \in Statuses, local' = [local EXCEPT ![r].status = status]
      PROVE  CallsGood'
  <2> DEFINE call == [local[r] EXCEPT !.status = status]
  <2>1. call \in Calls /\ call.begun = local[r].begun /\ call.results = local[r].results
    BY <1>b DEF Calls
  <2>2. local' = [local EXCEPT ![r] = call]
    BY <1>7
  <2>3. at' = [at EXCEPT ![r] = "result"]
    BY <1>7 DEF Goto
  <2> HIDE DEF call
  <2> QED
    BY <1>0, <1>c, <2>1, <2>2, <2>3, OneCall DEF PCs
<1>8. ASSUME NEW r \in Requests, Return(r) PROVE CallsGood'
  <2> DEFINE call == [local[r] EXCEPT !.answer = lastResult]
  <2>1. call \in Calls /\ call.begun = local[r].begun /\ call.results = local[r].results
    BY <1>b DEF Calls, TypeOK, Runs
  <2>2. local' = [local EXCEPT ![r] = call]
    BY <1>8 DEF Return
  <2>3. at' = [at EXCEPT ![r] = "release"]
    BY <1>8 DEF Return, Goto
  <2> HIDE DEF call
  <2> QED
    BY <1>0, <1>c, <2>1, <2>2, <2>3, OneCall DEF PCs, Runs
<1>9. ASSUME NEW r \in Runs, RunStep(r) PROVE CallsGood'
  <2>1. ASSUME Enter(r) PROVE CallsGood'
    <3>1. \E from \in {"enter", "idle"} : Goto(r, from, "prepare")
      BY <2>1 DEF Enter
    <3> QED
      BY <1>1, <1>e, <2>1, <3>1 DEF Enter, PCs, Goto
  <2>2. CASE Prepare(r) \/ LeaveLoop(r) \/ \E kind \in Interrupts : InterruptRun(r, kind)
    BY <1>1, <2>2 DEF Prepare, LeaveLoop, InterruptRun, PCs
  <2>3. CASE Reflex(r) \/ Verdict(r)
    BY <1>7, <2>3 DEF Reflex, Verdict, Statuses
  <2>4. CASE SaveFails(r)
    BY <1>2, <1>3, <2>4 DEF SaveFails, PCs
  <2> QED
    BY <1>5, <1>6, <1>9, <2>1, <2>2, <2>3, <2>4 DEF RunStep
<1>10. CASE \E r \in Requests : AcquireSession(r) \/ AcquireEngine(r)
  BY <1>1, <1>10, <1>e DEF AcquireSession, AcquireEngine, Goto, PCs, Runs
<1>11. CASE \E r \in Requests : Store(r)
  BY <1>2, <1>3, <1>11 DEF Store, PCs, Runs
<1>12. CASE \E r \in Requests : Release(r)
  BY <1>2, <1>a, <1>12 DEF Release, PCs, Runs
<1>13. CASE \E r \in Direct : DirectEnds(r)
  BY <1>2, <1>3, <1>13 DEF DirectEnds, PCs, Runs
<1>14. CASE Restart
  BY <1>a, <1>b, <1>14 DEF Restart, CallsGood, PCs, Limit
<1>15. CASE Stop \/ UNCHANGED vars
  BY <1>0, <1>15 DEF Stop, vars, CallsGood, Limit
<1> QED
  BY <1>4, <1>8, <1>9, <1>10, <1>11, <1>12, <1>13, <1>14, <1>15 DEF Next, TaskStep, Runs

\* The remaining variables: the locks, the engine's flags, the history.
LEMMA OtherTypes ==
    ASSUME TypeOK, [Next]_vars
    PROVE  /\ sessionLock' \in [Windows -> Requests \cup {NoRun}]
           /\ runLock' \in Requests \cup {NoRun} /\ lastResult' \in Requests \cup {NoRun}
           /\ running' \in BOOLEAN /\ runError' \in BOOLEAN
           /\ restarts' \in 0..MaxRestarts
           /\ own' \in [Runs -> Interrupts]
           /\ stopped' \cup overlapped' \subseteq Runs
<1> DEFINE Good ==
           /\ sessionLock' \in [Windows -> Requests \cup {NoRun}]
           /\ runLock' \in Requests \cup {NoRun} /\ lastResult' \in Requests \cup {NoRun}
           /\ running' \in BOOLEAN /\ runError' \in BOOLEAN
           /\ restarts' \in 0..MaxRestarts
           /\ own' \in [Runs -> Interrupts]
           /\ stopped' \cup overlapped' \subseteq Runs
<1> SUFFICES Good
  OBVIOUS
<1>1. ASSUME NEW r \in Runs, RunStep(r) PROVE Good
  <2>1. CASE Enter(r)
    BY <2>1 DEF Enter, TypeOK, Inside, Working, lockVars
  <2>2. CASE Prepare(r) \/ Reflex(r) \/ LeaveLoop(r) \/ BeginSpiral(r) \/ CompleteSpiral(r)
             \/ Verdict(r)
    BY <2>2 DEF Prepare, Reflex, LeaveLoop, BeginSpiral, CompleteSpiral, Verdict, TypeOK,
                lockVars, engineVars, historyVars
  <2>3. ASSUME NEW kind \in Interrupts, InterruptRun(r, kind) PROVE Good
    BY <2>3 DEF InterruptRun, TypeOK, lockVars
  <2>4. CASE SaveFails(r)
    BY <2>4 DEF SaveFails, RunOver, TypeOK, lockVars, Interrupts
  <2> QED
    BY <1>1, <2>1, <2>2, <2>3, <2>4 DEF RunStep
<1>2. ASSUME NEW r \in Requests,
             AcquireSession(r) \/ AcquireEngine(r) \/ Store(r) \/ Return(r) \/ Release(r)
      PROVE  Good
  BY <1>2 DEF AcquireSession, AcquireEngine, Store, Return, Release, RunOver, TypeOK, Runs,
              Interrupts, lockVars, engineVars, historyVars
<1>3. CASE \E r \in Requests, w \in Windows : Call(r, w)
  BY <1>3 DEF Call, TypeOK, lockVars, engineVars, historyVars
<1>4. CASE \E r \in Direct : DirectEnds(r)
  BY <1>4 DEF DirectEnds, RunOver, TypeOK, Interrupts, lockVars, engineVars
<1>5. CASE Stop
  BY <1>5 DEF Stop, Working, TypeOK, lockVars
<1>6. CASE Restart
  <2>1. restarts' \in 0..MaxRestarts
    BY <1>6, EngineAssumption DEF Restart, TypeOK
  <2>2. /\ sessionLock' = [w \in Windows |-> NoRun] /\ runLock' = NoRun /\ lastResult' = NoRun
        /\ running' = FALSE /\ runError' = FALSE
        /\ own' = [r \in Runs |-> "none"] /\ stopped' = {} /\ overlapped' = {}
    BY <1>6 DEF Restart
  <2> QED
    BY <2>1, <2>2 DEF Interrupts
<1>7. ASSUME UNCHANGED vars PROVE Good
  <2>1. /\ UNCHANGED <<lockVars, engineVars, historyVars, lastResult, restarts>>
    BY <1>7 DEF vars
  <2>2. UNCHANGED <<sessionLock, runLock, running, runError, own, stopped, overlapped>>
    BY <2>1 DEF lockVars, engineVars, historyVars
  <2>3. Runs' = Runs
    BY DEF Runs
  <2> QED
    BY <2>1, <2>2, <2>3, Zenon DEF TypeOK
<1> HIDE DEF Good
<1>8. CASE \E r \in Requests : TaskStep(r)
  BY <1>1, <1>2, <1>8 DEF TaskStep, Runs
<1>9. CASE \E r \in Direct : RunStep(r)
  BY <1>1, <1>9 DEF Runs
<1> QED
  BY <1>3, <1>4, <1>5, <1>6, <1>7, <1>8, <1>9 DEF Next

LEMMA TypeInitial == Init => TypeOK /\ Counted
<1> SUFFICES ASSUME Init PROVE TypeOK /\ Counted
  OBVIOUS
<1>1. NoCall \in Calls /\ NoCall.begun = 0 /\ NoCall.results = 0
  BY EngineAssumption DEF NoCall, Calls, Statuses
<1>2. /\ state \in States /\ state.session = 1
      /\ files = [s \in {} |-> 0] /\ DOMAIN files = {}
  BY DEF Init, States, Interrupts
<1>3. files \in [DOMAIN files -> FileContents]
  BY <1>2
<1>4. Counted
  BY <1>1, <1>2, LimitInRange, EngineAssumption DEF Init, Counted
<1>5. at \in [Runs -> PCs] /\ local \in [Runs -> Calls]
  BY <1>1 DEF Init, PCs
<1>6. /\ sessionLock \in [Windows -> Requests \cup {NoRun}]
      /\ runLock \in Requests \cup {NoRun} /\ lastResult \in Requests \cup {NoRun}
      /\ restarts \in 0..MaxRestarts
      /\ own \in [Runs -> Interrupts]
      /\ stopped \cup overlapped \subseteq Runs
      /\ minted = 1
  BY EngineAssumption DEF Init, Interrupts
<1>7. running \in BOOLEAN /\ runError \in BOOLEAN
  BY DEF Init
<1> QED
  BY <1>2, <1>3, <1>4, <1>5, <1>6, <1>7 DEF TypeOK, Calls, FileContents

LEMMA TypeStep == TypeOK /\ Counted /\ [Next]_vars => TypeOK' /\ Counted'
<1> SUFFICES ASSUME TypeOK, Counted, [Next]_vars PROVE TypeOK' /\ Counted'
  OBVIOUS
<1>1. Counted'
  BY CallTypes, SharedTypes DEF Counted, CallsGood
<1>2. TypeOK'
  BY CallTypes, SharedTypes, OtherTypes DEF TypeOK, CallsGood, Calls, FileContents
<1> QED
  BY <1>1, <1>2

\* Every variable keeps its type, and no run begins more spirals than it may.
THEOREM TypeCorrect == Spec => []TypeOK
<1>1. Spec => [](TypeOK /\ Counted)
  BY TypeInitial, TypeStep, PTL DEF Spec
<1> QED
  BY <1>1, PTL

\* The part of the invariant that keeps one request's result from another.
OwnInv == EngineHeld /\ ReturnsOwn /\ AnswerIsOwn

\* A step of request r that holds the engine afterwards, or has let go of it,
\* changes nothing for the others.
LEMMA OwnStep == TypeOK /\ OwnInv /\ [Next]_vars => OwnInv'
<1> SUFFICES ASSUME TypeOK, OwnInv, [Next]_vars PROVE OwnInv'
  OBVIOUS
<1>0. /\ at \in [Runs -> PCs] /\ local \in [Runs -> Calls]
      /\ Requests \subseteq Runs /\ NoRun \notin Requests /\ Requests \cap Direct = {}
  BY EngineAssumption DEF TypeOK, Calls, Runs
\* A step that touches neither lock nor result, and moves one run within Engaged.
<1>1. ASSUME NEW r \in Runs, NEW from \in PCs, NEW to \in PCs \ {"return", "release"},
             Goto(r, from, to), UNCHANGED <<runLock, lastResult>>,
             \A q \in Requests \ {r} : local'[q].answer = local[q].answer,
             r \in Requests /\ to \in Engaged => from \in Engaged
      PROVE  OwnInv'
  <2>1. /\ at[r] = from /\ at'[r] = to
        /\ \A q \in Runs \ {r} : at'[q] = at[q]
    BY <1>0, <1>1 DEF Goto
  <2> QED
    BY <1>0, <1>1, <2>1 DEF OwnInv, EngineHeld, ReturnsOwn, AnswerIsOwn
<1>2. ASSUME NEW r \in Runs, RunStep(r) PROVE OwnInv'
  <2>1. CASE Enter(r)
    BY <1>0, <1>1, <2>1 DEF Enter, lockVars, PCs, Engaged
  <2>2. CASE Prepare(r) \/ LeaveLoop(r) \/ \E kind \in Interrupts : InterruptRun(r, kind)
    BY <1>0, <1>1, <2>2 DEF Prepare, LeaveLoop, InterruptRun, lockVars, PCs, Engaged
  <2>3. CASE Reflex(r) \/ Verdict(r)
    BY <1>0, <1>1, <2>3 DEF Reflex, Verdict, lockVars, PCs, Engaged
  <2>4. CASE BeginSpiral(r) \/ CompleteSpiral(r)
    BY <1>0, <1>1, <2>4 DEF BeginSpiral, CompleteSpiral, lockVars, PCs, Engaged
  <2>5. CASE SaveFails(r)
    BY <1>0, <1>1, <2>5 DEF SaveFails, RunOver, lockVars, PCs, Engaged
  <2> QED
    BY <1>2, <2>1, <2>2, <2>3, <2>4, <2>5 DEF RunStep
<1>3. ASSUME NEW r \in Requests, AcquireSession(r) PROVE OwnInv'
  BY <1>0, <1>1, <1>3 DEF AcquireSession, PCs, Engaged
<1>4. ASSUME NEW r \in Requests, AcquireEngine(r) PROVE OwnInv'
  \* Nobody is engaged while the engine is free.
  <2>1. /\ at[r] = "session" /\ at' = [at EXCEPT ![r] = "enter"]
        /\ runLock = NoRun /\ runLock' = r /\ UNCHANGED <<local, lastResult>>
    BY <1>4 DEF AcquireEngine, Goto
  <2>2. \A q \in Requests : at[q] \notin Engaged
    BY <1>0, <2>1 DEF OwnInv, EngineHeld
  <2>3. \A q \in Requests \ {r} : at'[q] = at[q]
    BY <1>0, <2>1
  <2>4. at'[r] = "enter"
    BY <1>0, <2>1
  <2> QED
    BY <2>1, <2>2, <2>3, <2>4 DEF OwnInv, EngineHeld, ReturnsOwn, AnswerIsOwn, Engaged
<1>5. ASSUME NEW r \in Requests, Store(r) PROVE OwnInv'
  \* Only r is engaged, so that no other request waits for the old result.
  <2>1. /\ at[r] = "result" /\ at' = [at EXCEPT ![r] = "return"]
        /\ lastResult' = r /\ UNCHANGED runLock
    BY <1>5 DEF Store, Goto, lockVars
  <2>2. \A q \in Requests \ {r} : at[q] \notin Engaged
    BY <1>0, <2>1 DEF OwnInv, EngineHeld, Engaged
  <2>3. \A q \in Requests \ {r} : at'[q] = at[q]
    BY <1>0, <2>1
  <2>4. at'[r] = "return" /\ runLock = r
    BY <1>0, <2>1 DEF OwnInv, EngineHeld, Engaged
  <2> QED
    BY <2>1, <2>2, <2>3, <2>4 DEF OwnInv, EngineHeld, ReturnsOwn, AnswerIsOwn, Engaged
<1>6. ASSUME NEW r \in Requests, Return(r) PROVE OwnInv'
  <2>1. /\ at[r] = "return" /\ at' = [at EXCEPT ![r] = "release"]
        /\ local' = [local EXCEPT ![r].answer = lastResult]
        /\ UNCHANGED <<runLock, lastResult>>
    BY <1>6 DEF Return, Goto, lockVars
  <2>2. /\ local'[r].answer = lastResult
        /\ \A q \in Requests \ {r} : local'[q] = local[q] /\ at'[q] = at[q]
    <3>1. local[r] \in Calls
      BY <1>0
    <3> QED
      BY <1>0, <2>1, <3>1 DEF Calls
  <2>3. at'[r] = "release" /\ runLock = r /\ lastResult = r
    BY <1>0, <2>1 DEF OwnInv, EngineHeld, ReturnsOwn, Engaged
  <2> QED
    BY <2>1, <2>2, <2>3 DEF OwnInv, EngineHeld, ReturnsOwn, AnswerIsOwn
<1>7. ASSUME NEW r \in Requests, Release(r) PROVE OwnInv'
  <2>1. /\ at[r] \in {"release", "raising"} /\ at' = [at EXCEPT ![r] = "ended"]
        /\ local' = [local EXCEPT ![r] = NoCall]
    BY <1>7 DEF Release, Goto
  <2>2. \A q \in Requests \ {r} : at'[q] = at[q] /\ at[q] \notin Engaged
    BY <1>0, <2>1 DEF OwnInv, EngineHeld, Engaged
  <2>3. at'[r] = "ended"
    BY <1>0, <2>1
  <2> QED
    BY <2>2, <2>3 DEF OwnInv, EngineHeld, ReturnsOwn, AnswerIsOwn, Engaged
<1>8. ASSUME NEW r \in Requests, NEW w \in Windows, Call(r, w) PROVE OwnInv'
  BY <1>0, <1>1, <1>8 DEF Call, lockVars, PCs, Engaged
<1>9. ASSUME NEW r \in Direct, DirectEnds(r) PROVE OwnInv'
  BY <1>0, <1>1, <1>9 DEF DirectEnds, RunOver, lockVars, PCs, Engaged, Runs
<1>10. CASE Stop \/ UNCHANGED vars
  BY <1>10 DEF Stop, vars, lockVars, OwnInv, EngineHeld, ReturnsOwn, AnswerIsOwn
<1>11. CASE Restart
  <2>1. \A q \in Requests : at'[q] \in {"idle", "ended"}
    BY <1>0, <1>11 DEF Restart
  <2> QED
    BY <2>1 DEF OwnInv, EngineHeld, ReturnsOwn, AnswerIsOwn, Engaged
<1> QED
  BY <1>0, <1>2, <1>3, <1>4, <1>5, <1>6, <1>7, <1>8, <1>9, <1>10, <1>11
     DEF Next, TaskStep, Runs

LEMMA OwnInvariant == Spec => []OwnInv
<1>1. Init => OwnInv
  BY DEF Init, OwnInv, EngineHeld, ReturnsOwn, AnswerIsOwn, Engaged, Runs
<1> QED
  BY <1>1, OwnStep, TypeCorrect, PTL DEF Spec

\* A request is answered with the result of its own run, although all results
\* travel through one field: the engine's lock spans the write and the read.
THEOREM AnswerCorrect == Spec => []AnswerIsOwn
<1>1. OwnInv => AnswerIsOwn
  BY DEF OwnInv
<1> QED
  BY <1>1, OwnInvariant, PTL

\* Enter() is the only step that sets running, and it takes every run inside
\* the engine out of stopped.
LEMMA StopStep == TypeOK /\ StoppedLeaves /\ [Next]_vars => StoppedLeaves'
<1> SUFFICES ASSUME TypeOK, StoppedLeaves, [Next]_vars PROVE StoppedLeaves'
  OBVIOUS
<1>0. /\ at \in [Runs -> PCs] /\ stopped \subseteq Runs
      /\ Requests \subseteq Runs /\ Direct \subseteq Runs
  BY DEF TypeOK, Runs
\* A step of a run that is not stopped, or stays inside, and leaves running off.
<1>1. ASSUME NEW r \in Runs, NEW from \in PCs, NEW to \in PCs, Goto(r, from, to),
             stopped' \subseteq stopped, running' => running,
             \/ r \notin stopped'
             \/ from \notin {"prepare", "loop", "spiral", "verdict", "result"}
             \/ to = "result"
             \/ from # "result" /\ to \in {"prepare", "loop", "spiral", "verdict"}
      PROVE  StoppedLeaves'
  <2>1. /\ at[r] = from /\ at'[r] = to
        /\ \A q \in Runs \ {r} : at'[q] = at[q]
    BY <1>0, <1>1 DEF Goto
  <2>2. \A q \in stopped' \ {r} : at'[q] = "result" \/ (q \in Inside' /\ ~running')
    BY <1>0, <1>1, <2>1 DEF StoppedLeaves, Inside, Working
  <2>3. r \in stopped' => at'[r] = "result" \/ (r \in Inside' /\ ~running')
    BY <1>0, <1>1, <2>1 DEF StoppedLeaves, Inside, Working
  <2> QED
    BY <2>2, <2>3 DEF StoppedLeaves
<1>2. ASSUME NEW r \in Runs, RunStep(r) PROVE StoppedLeaves'
  <2>1. ASSUME Enter(r) PROVE StoppedLeaves'
    <3>1. /\ at[r] \in {"enter", "idle"}
          /\ \A q \in Runs \ {r} : at'[q] = at[q]
          /\ stopped' = stopped \ overlapped'
          /\ Inside \subseteq overlapped'
      BY <1>0, <2>1 DEF Enter, Goto
    <3>2. r \notin stopped
      BY <3>1 DEF StoppedLeaves, Inside, Working
    <3> QED
      BY <1>0, <3>1, <3>2 DEF StoppedLeaves
  <2>2. CASE Prepare(r) \/ LeaveLoop(r) \/ \E kind \in Interrupts : InterruptRun(r, kind)
    BY <1>1, <2>2 DEF Prepare, LeaveLoop, InterruptRun, engineVars, historyVars, PCs
  <2>3. CASE Reflex(r) \/ Verdict(r)
    BY <1>1, <2>3 DEF Reflex, Verdict, engineVars, historyVars, PCs
  <2>4. CASE BeginSpiral(r) \/ CompleteSpiral(r)
    BY <1>1, <2>4 DEF BeginSpiral, CompleteSpiral, engineVars, historyVars, PCs
  <2>5. CASE SaveFails(r)
    BY <1>1, <2>5 DEF SaveFails, RunOver, PCs
  <2> QED
    BY <1>2, <2>1, <2>2, <2>3, <2>4, <2>5 DEF RunStep
<1>3. ASSUME NEW r \in Requests,
             AcquireSession(r) \/ AcquireEngine(r) \/ Return(r) \/ Release(r)
      PROVE  StoppedLeaves'
  BY <1>0, <1>1, <1>3
     DEF AcquireSession, AcquireEngine, Return, Release, engineVars, historyVars, PCs
<1>4. ASSUME NEW r \in Requests, Store(r) PROVE StoppedLeaves'
  BY <1>0, <1>1, <1>4 DEF Store, RunOver, engineVars, PCs
<1>5. ASSUME NEW r \in Direct, DirectEnds(r) PROVE StoppedLeaves'
  BY <1>0, <1>1, <1>5 DEF DirectEnds, RunOver, engineVars, PCs
<1>6. ASSUME NEW r \in Requests, NEW w \in Windows, Call(r, w) PROVE StoppedLeaves'
  BY <1>0, <1>1, <1>6 DEF Call, engineVars, historyVars, PCs
<1>7. CASE Stop
  BY <1>0, <1>7 DEF Stop, StoppedLeaves, Inside, Working
<1>8. CASE Restart
  BY <1>8 DEF Restart, StoppedLeaves
<1>9. CASE UNCHANGED vars
  BY <1>9 DEF vars, engineVars, historyVars, StoppedLeaves, Inside, Working, Runs
<1> QED
  BY <1>0, <1>2, <1>3, <1>4, <1>5, <1>6, <1>7, <1>8, <1>9 DEF Next, TaskStep

\* Only BeginSpiral() counts a spiral.
LEMMA OnlyBegin ==
    ASSUME TypeOK, [Next]_vars, NEW q \in Runs
    PROVE  BeginSpiral(q) \/ local'[q].begun <= local[q].begun
<1> DEFINE Good == BeginSpiral(q) \/ local'[q].begun <= local[q].begun
<1>0. /\ at \in [Runs -> PCs] /\ local \in [Runs -> Calls]
      /\ Requests \subseteq Runs /\ Direct \subseteq Runs
      /\ local[q] \in Calls /\ local[q].begun \in Nat
  BY DEF TypeOK, Runs, Calls
<1>1. ASSUME UNCHANGED local PROVE Good
  BY <1>0, <1>1
<1>2. ASSUME NEW r \in Runs, RunOver(r) PROVE Good
  <2>1. local'[q] = local[q] \/ local'[q].begun = 0
    BY <1>0, <1>2 DEF RunOver, NoCall
  <2> QED
    BY <1>0, <2>1
<1>3. ASSUME NEW r \in Runs, BeginSpiral(r) PROVE Good
  <2>1. CASE q # r
    BY <1>0, <1>3, <2>1 DEF BeginSpiral
  <2> QED
    BY <1>3, <2>1
<1>4. ASSUME NEW r \in Runs, Reflex(r) \/ Verdict(r) \/ CompleteSpiral(r)
      PROVE  Good
  <2>1. local'[q].begun = local[q].begun
    BY <1>0, <1>4 DEF Reflex, Verdict, CompleteSpiral, Calls
  <2> QED
    BY <1>0, <2>1
<1>5. ASSUME NEW r \in Runs, RunStep(r) PROVE Good
  BY <1>1, <1>2, <1>3, <1>4, <1>5
     DEF RunStep, Enter, Prepare, LeaveLoop, InterruptRun, SaveFails
<1>6. ASSUME NEW r \in Requests,
             Return(r) \/ Release(r) \/ \E w \in Windows : Call(r, w)
      PROVE  Good
  <2>1. local'[q].begun \in {0, local[q].begun}
    BY <1>0, <1>6 DEF Return, Release, Call, Calls, NoCall
  <2> QED
    BY <1>0, <2>1
<1>7. ASSUME NEW r \in Requests, AcquireSession(r) \/ AcquireEngine(r) \/ Store(r)
      PROVE  Good
  BY <1>0, <1>1, <1>2, <1>7 DEF AcquireSession, AcquireEngine, Store
<1>8. ASSUME NEW r \in Direct, DirectEnds(r) PROVE Good
  BY <1>0, <1>2, <1>8 DEF DirectEnds
<1>9. CASE Stop \/ UNCHANGED vars
  BY <1>1, <1>9 DEF Stop, vars
<1>10. CASE Restart
  <2>1. local'[q].begun = 0
    BY <1>0, <1>10 DEF Restart, NoCall
  <2> QED
    BY <1>0, <2>1
<1> QED
  BY <1>0, <1>5, <1>6, <1>7, <1>8, <1>9, <1>10 DEF Next, TaskStep

\* A stopped run begins no spiral, which needs running.
LEMMA StopHolds ==
    TypeOK /\ StoppedLeaves /\ [Next]_vars
      => \A r \in stopped : local'[r].begun <= local[r].begun
<1> SUFFICES ASSUME TypeOK, StoppedLeaves, [Next]_vars, NEW q \in stopped
             PROVE  local'[q].begun <= local[q].begun
  OBVIOUS
<1>1. ~BeginSpiral(q)
  BY DEF BeginSpiral, LoopEnds, Goto, StoppedLeaves
<1> QED
  BY <1>1, OnlyBegin DEF TypeOK

\* A run that stop() hit while it had the engine to itself begins no further
\* spiral.
THEOREM StopObeyed == Spec => StopEndsRun
<1>1. Init => StoppedLeaves
  BY DEF Init, StoppedLeaves
<1>2. Spec => []StoppedLeaves
  BY <1>1, StopStep, TypeCorrect, PTL DEF Spec
<1> QED
  BY <1>2, StopHolds, TypeCorrect, PTL DEF Spec, StopEndsRun
-----------------------------------------------------------------------------

\* Of two runs inside the engine each counts as overlapped.
Alone == \A r, q \in Inside : r # q => r \in overlapped

\* What a run finds in the shared engine and state while it is alone there: no
\* error, no interrupt and no window but its own.
Sound(r) ==
    /\ at[r] \in {"idle", "waiting", "session", "enter", "prepare", "loop", "spiral"}
         => own[r] = "none"
    /\ r \in Working => ~runError /\ (running \/ r \in stopped)
    /\ at[r] \in {"loop", "spiral"} => state.interrupt = "none"
    /\ at[r] \in {"loop", "spiral"} /\ r \in Requests => state.window = local[r].window
    /\ at[r] = "loop" => local[r].results = local[r].begun
    /\ at[r] = "spiral" => local[r].results + 1 = local[r].begun
    /\ at[r] = "verdict" => /\ runError <=> own[r] = "error"
                            /\ state.interrupt = own[r]
                            /\ local[r].results = 0 => own[r] # "none" \/ r \in stopped
    /\ OwnVerdict(r)

\* A request that has been made names a window.
Named == \A r \in Requests : at[r] \notin {"idle", "ended"} => local[r].window \in Windows

VerdictInv == Alone /\ Named /\ \A r \in Runs \ overlapped : Sound(r)

\* A step of run r leaves the others sound: it is inside the engine, so that
\* they are not or are overlapped, or it does not touch what they share.
LEMMA OthersSound ==
    ASSUME TypeOK, VerdictInv, NEW r \in Runs, NEW from \in PCs, NEW to \in PCs,
           Goto(r, from, to),
           \A q \in Runs \ {r} : local'[q] = local[q] /\ own'[q] = own[q],
           overlapped \ {r} \subseteq overlapped',
           stopped \ (overlapped' \cup {r}) \subseteq stopped',
           \/ r \in Inside
           \/ Inside \subseteq overlapped'
           \/ UNCHANGED <<running, runError, state>>
    PROVE  \A q \in Runs \ (overlapped' \cup {r}) : Sound(q)'
<1> SUFFICES ASSUME NEW q \in Runs \ (overlapped' \cup {r}) PROVE Sound(q)'
  OBVIOUS
<1>1. at'[q] = at[q] /\ local'[q] = local[q] /\ own'[q] = own[q]
  BY DEF Goto, TypeOK
<1>2. q \notin overlapped /\ Sound(q) /\ (q \in stopped => q \in stopped')
  BY DEF VerdictInv
<1>3. (q \in Inside <=> q \in Inside') /\ (q \in Working <=> q \in Working')
  BY <1>1 DEF Inside, Working, Runs
<1>4. CASE q \in Inside
  <2>1. UNCHANGED <<running, runError, state>>
    BY <1>2, <1>4 DEF VerdictInv, Alone
  <2> QED
    BY <1>1, <1>2, <1>3, <2>1 DEF Sound, OwnVerdict
<1>5. CASE q \notin Inside
  BY <1>1, <1>2, <1>3, <1>5 DEF Sound, OwnVerdict, Inside, Working
<1> QED
  BY <1>4, <1>5

\* A run is inside the engine only after Enter(), which overlaps it with all
\* that are there.
LEMMA AloneStep ==
    ASSUME TypeOK, Alone, NEW r \in Runs, NEW from \in PCs, NEW to \in PCs,
           Goto(r, from, to),
           \/ /\ r \in Inside \/ to \notin {"prepare", "loop", "spiral", "verdict"}
              /\ \/ overlapped \subseteq overlapped'
                 \/ /\ overlapped \ {r} \subseteq overlapped'
                    /\ to \notin {"prepare", "loop", "spiral", "verdict"}
           \/ overlapped' = IF Inside = {} THEN overlapped
                            ELSE overlapped \cup Inside \cup {r}
    PROVE  Alone'
<1>1. at'[r] = to /\ at[r] = from /\ \A q \in Runs \ {r} : at'[q] = at[q]
  BY DEF Goto, TypeOK
<1>2. Inside' \subseteq Inside \cup {r}
  BY <1>1 DEF Inside, Working, Runs
<1>3. to \notin {"prepare", "loop", "spiral", "verdict"} => r \notin Inside'
  BY <1>1 DEF Inside, Working
<1> QED
  BY <1>2, <1>3 DEF Alone

LEMMA VerdictStep ==
    ASSUME TypeOK, Counted, VerdictInv, [Next]_vars
    PROVE  VerdictInv'
<1> DEFINE Goal == VerdictInv'
<1>0. /\ at \in [Runs -> PCs] /\ local \in [Runs -> Calls] /\ own \in [Runs -> Interrupts]
      /\ Requests \subseteq Runs /\ Direct \subseteq Runs /\ Requests \cap Direct = {}
      /\ NoWindow \notin Windows /\ state \in States
      /\ runError \in BOOLEAN /\ running \in BOOLEAN
  BY EngineAssumption DEF TypeOK, Runs, Calls
\* A step of one run that keeps its window and those of the others.
<1>1. ASSUME NEW r \in Runs, NEW from \in PCs \ {"idle", "ended"}, NEW to \in PCs,
             Goto(r, from, to),
             \A q \in Requests : local'[q].window = local[q].window
      PROVE  Named'
  BY <1>0, <1>1 DEF Goto, VerdictInv, Named
<1>2. ASSUME NEW r \in Runs, Enter(r) PROVE Goal
  <2>1. PICK from \in {"enter", "idle"} :
           Goto(r, from, "prepare") /\ (from = "idle" => r \notin Requests)
    BY <1>2 DEF Enter
  <2>2. /\ UNCHANGED <<local, own, state>> /\ running' /\ ~runError'
        /\ overlapped' = IF Inside = {} THEN overlapped ELSE overlapped \cup Inside \cup {r}
        /\ stopped' = stopped \ overlapped'
    BY <1>2 DEF Enter, stateVars
  <2>3. Alone'
    BY <2>1, <2>2, AloneStep DEF VerdictInv, PCs
  <2>4. Named'
    BY <1>0, <2>1, <2>2 DEF Goto, VerdictInv, Named
  <2>5. \A q \in Runs \ (overlapped' \cup {r}) : Sound(q)'
    BY <2>1, <2>2, OthersSound DEF PCs
  <2>6. r \notin overlapped' => Sound(r)'
    BY <1>0, <2>1, <2>2 DEF Goto, VerdictInv, Sound, OwnVerdict, Working
  <2> QED
    BY <2>3, <2>4, <2>5, <2>6 DEF VerdictInv, Runs
<1>3. ASSUME NEW r \in Runs, Prepare(r) PROVE Goal
  <2>1. /\ Goto(r, "prepare", "loop") /\ state' = Prepared(local[r].window)
        /\ UNCHANGED <<local, running, runError, own, stopped, overlapped>>
    BY <1>3 DEF Prepare, engineVars, historyVars
  <2>2. r \in Inside
    BY <2>1 DEF Goto, Inside, Working
  <2>3. state'.interrupt = "none"
    BY <1>0, <2>1 DEF Prepared, Fresh, States
  <2>4. r \in Requests => state'.window = local[r].window
    BY <1>0, <2>1 DEF Prepared, Fresh, States, Goto, VerdictInv, Named
  <2>5. local[r].begun = 0 /\ local[r].results = 0
    BY <1>0, <2>1 DEF Counted, Goto, Calls
  <2>6. \A q \in Runs \ (overlapped' \cup {r}) : Sound(q)'
    BY <2>1, <2>2, OthersSound DEF PCs
  <2>7. r \notin overlapped' => Sound(r)'
    BY <1>0, <2>1, <2>3, <2>4, <2>5 DEF Goto, VerdictInv, Sound, OwnVerdict, Working
  <2>8. Alone' /\ Named'
    BY <1>0, <1>1, <2>1, <2>2, AloneStep DEF VerdictInv, PCs
  <2> QED
    BY <2>6, <2>7, <2>8 DEF VerdictInv, Runs
<1>4. ASSUME NEW r \in Runs, Reflex(r) PROVE Goal
  <2>1. /\ Goto(r, "loop", "result") /\ local' = [local EXCEPT ![r].status = "reflex"]
        /\ UNCHANGED <<runError, state, own, stopped, overlapped>>
    BY <1>4 DEF Reflex, stateVars, historyVars
  <2>2. r \in Inside
    BY <2>1 DEF Goto, Inside, Working
  <2>3. /\ \A q \in Runs \ {r} : local'[q] = local[q]
        /\ local'[r].window = local[r].window /\ local'[r].status = "reflex"
    BY <1>0, <2>1 DEF Calls
  <2>4. \A q \in Runs \ (overlapped' \cup {r}) : Sound(q)'
    BY <2>1, <2>2, <2>3, OthersSound DEF PCs
  <2>5. Sound(r)'
    BY <1>0, <2>1, <2>3 DEF Goto, Sound, OwnVerdict, Working
  <2>6. Alone' /\ Named'
    BY <1>0, <1>1, <2>1, <2>2, <2>3, AloneStep DEF VerdictInv, PCs
  <2> QED
    BY <2>4, <2>5, <2>6 DEF VerdictInv, Runs
<1>5. ASSUME NEW r \in Runs, LeaveLoop(r) PROVE Goal
  <2>1. /\ Goto(r, "loop", "verdict") /\ LoopEnds(r)
        /\ UNCHANGED <<local, runError, state, own, stopped, overlapped>>
    BY <1>5 DEF LeaveLoop, stateVars, historyVars
  <2>2. r \in Inside /\ r \in Working
    BY <2>1 DEF Goto, Inside, Working
  <2>3. \A q \in Runs \ (overlapped' \cup {r}) : Sound(q)'
    BY <2>1, <2>2, OthersSound DEF PCs
  <2>4. ASSUME r \notin overlapped' PROVE Sound(r)'
    <3>1. Sound(r) /\ at[r] = "loop" /\ at'[r] = "verdict"
      BY <1>0, <2>1, <2>4 DEF VerdictInv, Goto
    <3>2. local[r].results = 0 => r \in stopped
      BY <1>0, <2>1, <2>2, <3>1, LimitInRange DEF Sound, LoopEnds
    <3> QED
      BY <1>0, <2>1, <2>2, <3>1, <3>2 DEF Sound, OwnVerdict, Working
  <2>5. Alone' /\ Named'
    BY <1>0, <1>1, <2>1, <2>2, AloneStep DEF VerdictInv, PCs
  <2> QED
    BY <2>3, <2>4, <2>5 DEF VerdictInv, Runs
<1>6. ASSUME NEW r \in Runs, BeginSpiral(r) PROVE Goal
  <2>1. /\ Goto(r, "loop", "spiral") /\ local' = [local EXCEPT ![r].begun = @ + 1]
        /\ UNCHANGED <<running, runError, state, own, stopped, overlapped>>
    BY <1>6 DEF BeginSpiral, engineVars, historyVars
  <2>2. r \in Inside
    BY <2>1 DEF Goto, Inside, Working
  <2>3. /\ \A q \in Runs \ {r} : local'[q] = local[q]
        /\ local'[r].window = local[r].window /\ local'[r].begun = local[r].begun + 1
        /\ local'[r].results = local[r].results
    BY <1>0, <2>1 DEF Calls
  <2>4. \A q \in Runs \ (overlapped' \cup {r}) : Sound(q)'
    BY <2>1, <2>2, <2>3, OthersSound DEF PCs
  <2>5. r \notin overlapped' => Sound(r)'
    BY <1>0, <2>1, <2>3 DEF Goto, VerdictInv, Sound, OwnVerdict, Working
  <2>6. Alone' /\ Named'
    BY <1>0, <1>1, <2>1, <2>2, <2>3, AloneStep DEF VerdictInv, PCs
  <2> QED
    BY <2>4, <2>5, <2>6 DEF VerdictInv, Runs
<1>7. ASSUME NEW r \in Runs, CompleteSpiral(r) PROVE Goal
  <2>1. PICK to \in {"verdict", "loop"} :
           Goto(r, "spiral", to) /\ (to = "loop" => UNCHANGED running)
    BY <1>7 DEF CompleteSpiral
  <2>2. /\ local' = [local EXCEPT ![r].results = @ + 1]
        /\ UNCHANGED <<runError, state, own, stopped, overlapped>>
    BY <1>7 DEF CompleteSpiral, historyVars
  <2>3. r \in Inside
    BY <2>1 DEF Goto, Inside, Working
  <2>4. /\ \A q \in Runs \ {r} : local'[q] = local[q]
        /\ local'[r].window = local[r].window /\ local'[r].begun = local[r].begun
        /\ local'[r].results = local[r].results + 1 /\ local[r].results \in Nat
    BY <1>0, <2>2 DEF Calls
  <2>5. \A q \in Runs \ (overlapped' \cup {r}) : Sound(q)'
    BY <2>1, <2>2, <2>3, <2>4, OthersSound DEF PCs
  <2>6. r \notin overlapped' => Sound(r)'
    BY <1>0, <2>1, <2>2, <2>4 DEF Goto, VerdictInv, Sound, OwnVerdict, Working
  <2>7. Alone' /\ Named'
    BY <1>0, <1>1, <2>1, <2>2, <2>3, <2>4, AloneStep DEF VerdictInv, PCs
  <2> QED
    BY <2>5, <2>6, <2>7 DEF VerdictInv, Runs
<1>8. ASSUME NEW r \in Runs, NEW kind \in Interrupts \ {"none"}, InterruptRun(r, kind) PROVE Goal
  <2>1. /\ Goto(r, "spiral", "verdict") /\ state' = [state EXCEPT !.interrupt = kind]
        /\ runError' = (runError \/ kind = "error") /\ own' = [own EXCEPT ![r] = kind]
        /\ UNCHANGED <<local, stopped, overlapped>>
    BY <1>8 DEF InterruptRun
  <2>2. r \in Inside
    BY <2>1 DEF Goto, Inside, Working
  <2>3. own'[r] = kind /\ state'.interrupt = kind /\ \A q \in Runs \ {r} : own'[q] = own[q]
    BY <1>0, <2>1 DEF States
  <2>4. \A q \in Runs \ (overlapped' \cup {r}) : Sound(q)'
    BY <2>1, <2>2, <2>3, OthersSound DEF PCs
  <2>5. r \notin overlapped' => Sound(r)'
    BY <1>0, <2>1, <2>3 DEF Goto, VerdictInv, Sound, OwnVerdict, Working
  <2>6. Alone' /\ Named'
    BY <1>0, <1>1, <2>1, <2>2, AloneStep DEF VerdictInv, PCs
  <2> QED
    BY <2>4, <2>5, <2>6 DEF VerdictInv, Runs
<1>9. ASSUME NEW r \in Runs, Verdict(r) PROVE Goal
  <2>1. /\ Goto(r, "verdict", "result")
        /\ local' = [local EXCEPT ![r].status =
              IF runError \/ state.interrupt = "error" THEN "error"
              ELSE IF state.interrupt = "break" THEN "interrupted" ELSE "completed"]
        /\ UNCHANGED <<running, runError, state, own, stopped, overlapped>>
    BY <1>9 DEF Verdict, engineVars, stateVars, historyVars
  <2>2. r \in Inside
    BY <2>1 DEF Goto, Inside, Working
  <2>3. /\ \A q \in Runs \ {r} : local'[q] = local[q]
        /\ local'[r].window = local[r].window /\ local'[r].results = local[r].results
        /\ local'[r].status = IF runError \/ state.interrupt = "error" THEN "error"
              ELSE IF state.interrupt = "break" THEN "interrupted" ELSE "completed"
    BY <1>0, <2>1 DEF Calls
  <2>4. \A q \in Runs \ (overlapped' \cup {r}) : Sound(q)'
    BY <2>1, <2>2, <2>3, OthersSound DEF PCs
  <2>5. r \notin overlapped' => Sound(r)'
    BY <1>0, <2>1, <2>3 DEF Goto, VerdictInv, Sound, OwnVerdict, Working
  <2>6. Alone' /\ Named'
    BY <1>0, <1>1, <2>1, <2>2, <2>3, AloneStep DEF VerdictInv, PCs
  <2> QED
    BY <2>4, <2>5, <2>6 DEF VerdictInv, Runs
\* A run is over, by an error or with its result.
<1>10. ASSUME NEW r \in Runs, NEW from \in PCs \ {"idle", "ended"},
              NEW to \in {"raising", "return", "ended"},
              Goto(r, from, to), RunOver(r),
              r \in Inside \/ UNCHANGED <<running, runError, state>>
       PROVE  Goal
  <2>1. /\ \A q \in Runs \ {r} : local'[q] = local[q] /\ own'[q] = own[q]
        /\ local'[r].window = local[r].window /\ own'[r] = "none"
        /\ stopped' = stopped \ {r} /\ overlapped' = overlapped \ {r}
    BY <1>0, <1>10 DEF RunOver, NoCall
  <2>2. \A q \in Runs \ (overlapped' \cup {r}) : Sound(q)'
    BY <1>10, <2>1, OthersSound DEF PCs
  <2>3. Sound(r)'
    BY <1>0, <1>10 DEF Goto, Sound, OwnVerdict, Working
  <2>4. Alone' /\ Named'
    BY <1>0, <1>1, <1>10, <2>1, AloneStep DEF VerdictInv, PCs
  <2> QED
    BY <2>2, <2>3, <2>4 DEF VerdictInv, Runs
<1>11. ASSUME NEW r \in Runs, SaveFails(r) PROVE Goal
  <2>1. PICK from \in {"loop", "spiral"} : Goto(r, from, "raising")
    BY <1>11 DEF SaveFails
  <2> QED
    BY <1>10, <1>11, <2>1 DEF SaveFails, Goto, Inside, Working, PCs
<1>12. ASSUME NEW r \in Runs, RunStep(r) PROVE Goal
  BY <1>2, <1>3, <1>4, <1>5, <1>6, <1>7, <1>8, <1>9, <1>11, <1>12 DEF RunStep
<1>13. ASSUME NEW r \in Requests, Store(r) PROVE Goal
  BY <1>0, <1>10, <1>13 DEF Store, engineVars, stateVars, PCs
<1>14. ASSUME NEW r \in Direct, DirectEnds(r) PROVE Goal
  BY <1>0, <1>10, <1>14 DEF DirectEnds, engineVars, stateVars, PCs
\* A step of run_task() outside run().
<1>15. ASSUME NEW r \in Runs, NEW from \in {"idle", "waiting", "session", "return", "release", "raising"},
              NEW to \in {"waiting", "session", "enter", "release", "ended"},
              Goto(r, from, to), to \in {"waiting", "session", "enter"} <=> from \in {"idle", "waiting", "session"},
              \A q \in Runs \ {r} : local'[q] = local[q],
              UNCHANGED <<engineVars, stateVars, historyVars>>
       PROVE  Alone' /\ \A q \in Runs \ overlapped' : Sound(q)'
  <2>1. UNCHANGED <<running, runError, state, own, stopped, overlapped>>
    BY <1>15 DEF engineVars, stateVars, historyVars
  <2>2. \A q \in Runs \ (overlapped' \cup {r}) : Sound(q)'
    BY <1>15, <2>1, OthersSound DEF PCs
  <2>3. r \notin overlapped' => Sound(r)'
    BY <1>0, <1>15, <2>1 DEF Goto, VerdictInv, Sound, OwnVerdict, Working
  <2>4. Alone'
    BY <1>15, <2>1, AloneStep DEF VerdictInv, PCs
  <2> QED
    BY <2>2, <2>3, <2>4 DEF Runs
<1>16. ASSUME NEW r \in Requests, AcquireSession(r) \/ AcquireEngine(r) PROVE Goal
  <2>1. PICK from \in {"waiting", "session"}, to \in {"session", "enter"} : Goto(r, from, to)
    BY <1>16 DEF AcquireSession, AcquireEngine
  <2>2. UNCHANGED <<local, engineVars, stateVars, historyVars>>
    BY <1>16 DEF AcquireSession, AcquireEngine
  <2> QED
    BY <1>0, <1>1, <1>15, <2>1, <2>2 DEF VerdictInv, PCs
<1>17. ASSUME NEW r \in Requests, NEW w \in Windows, Call(r, w) PROVE Goal
  <2>1. /\ Goto(r, "idle", "waiting") /\ UNCHANGED <<engineVars, stateVars, historyVars>>
        /\ local'[r].window = w /\ \A q \in Runs \ {r} : local'[q] = local[q]
    BY <1>0, <1>17 DEF Call, Calls
  <2>2. Named'
    BY <1>0, <2>1 DEF Goto, VerdictInv, Named
  <2> QED
    BY <1>0, <1>15, <2>1, <2>2 DEF VerdictInv
<1>18. ASSUME NEW r \in Requests, Return(r) PROVE Goal
  <2>1. /\ Goto(r, "return", "release") /\ UNCHANGED <<engineVars, stateVars, historyVars>>
        /\ local'[r].window = local[r].window /\ \A q \in Runs \ {r} : local'[q] = local[q]
    BY <1>0, <1>18 DEF Return, Calls
  <2> QED
    BY <1>0, <1>1, <1>15, <2>1 DEF VerdictInv, PCs
<1>19. ASSUME NEW r \in Requests, Release(r) PROVE Goal
  <2>1. PICK from \in {"release", "raising"} : Goto(r, from, "ended")
    BY <1>19 DEF Release
  <2>2. /\ UNCHANGED <<engineVars, stateVars, historyVars>>
        /\ \A q \in Runs \ {r} : local'[q] = local[q]
    BY <1>0, <1>19 DEF Release
  <2>3. Named'
    BY <1>0, <2>1, <2>2 DEF Goto, VerdictInv, Named
  <2> QED
    BY <1>0, <1>15, <2>1, <2>2, <2>3 DEF VerdictInv
<1>20. CASE Stop
  <2>1. /\ UNCHANGED <<at, local, runError, state, own, overlapped>>
        /\ stopped' = stopped \cup (Working \ overlapped)
    BY <1>20 DEF Stop, stateVars
  <2>2. Working' = Working /\ Inside' = Inside
    BY <2>1 DEF Working, Inside, Runs
  <2> QED
    BY <2>1, <2>2 DEF VerdictInv, Alone, Named, Sound, OwnVerdict, Runs
<1>21. CASE Restart
  <2>1. \A r \in Runs : at'[r] \in {"idle", "ended"} /\ own'[r] = "none"
    BY <1>0, <1>21 DEF Restart
  <2>2. \A r \in Requests : at'[r] \in {"idle", "ended"}
    BY <1>0, <2>1
  <2> QED
    BY <2>1, <2>2 DEF VerdictInv, Alone, Named, Sound, OwnVerdict, Inside, Working, Runs
<1>22. CASE UNCHANGED vars
  <2>1. UNCHANGED <<at, local, running, runError, state, own, stopped, overlapped>>
    BY <1>22 DEF vars, engineVars, stateVars, historyVars
  <2>2. Working' = Working /\ Inside' = Inside
    BY <2>1 DEF Working, Inside, Runs
  <2> QED
    BY <2>1, <2>2 DEF VerdictInv, Alone, Named, Sound, OwnVerdict, Runs
<1> QED
  BY <1>0, <1>12, <1>13, <1>14, <1>16, <1>17, <1>18, <1>19, <1>20, <1>21, <1>22
     DEF Next, TaskStep

LEMMA VerdictInvariant == Spec => []VerdictInv
<1>1. Init => VerdictInv
  <2> SUFFICES ASSUME Init PROVE VerdictInv
    OBVIOUS
  <2>1. \A r \in Runs : at[r] = "idle" /\ own[r] = "none"
    BY DEF Init
  <2>2. \A r \in Requests : at[r] = "idle"
    BY <2>1 DEF Runs
  <2> QED
    BY <2>1, <2>2 DEF VerdictInv, Alone, Named, Sound, OwnVerdict, Inside, Working
<1>2. Spec => [](TypeOK /\ Counted)
  BY TypeInitial, TypeStep, PTL DEF Spec
<1> QED
  BY <1>1, <1>2, VerdictStep, PTL DEF Spec

\* What an earlier run left in the shared state, an error or an interrupt, is
\* never taken for the outcome of a run that is alone in the engine.
THEOREM VerdictCorrect == Spec => []VerdictUnpoisoned
<1>1. VerdictInv => VerdictUnpoisoned
  BY DEF VerdictInv, VerdictUnpoisoned, Sound
<1> QED
  BY <1>1, VerdictInvariant, PTL
-----------------------------------------------------------------------------

\* A session keeps the window it was written with.
FileMatches == state.session \in DOMAIN files => files[state.session].window = state.window

\* Writing the file of the current session, with whatever interrupt.
LEMMA WrittenMatches ==
    ASSUME FileMatches, NEW s, NEW c, s.session = state.session, s.window = state.window,
           state' = s \/ UNCHANGED state,
           files' = files \/ files' = Written(s, c)
    PROVE  FileMatches'
  BY DEF FileMatches, Written

LEMMA FileStep ==
    ASSUME TypeOK, Counted, FileMatches, [Next]_vars
    PROVE  FileMatches'
<1>0. state \in States /\ minted \in Nat /\ DOMAIN files \subseteq 1..minted
  BY DEF TypeOK
<1>1. ASSUME UNCHANGED <<state, files>> PROVE FileMatches'
  BY <1>1 DEF FileMatches
<1>2. ASSUME NEW r \in Runs, Prepare(r) PROVE FileMatches'
  <2>1. UNCHANGED files /\ state' = Prepared(local[r].window)
    BY <1>2 DEF Prepare
  <2>2. CASE state' = Fresh(local[r].window)
    BY <1>0, <2>1, <2>2 DEF FileMatches, Fresh
  <2>3. CASE state'.session = state.session /\ state'.window = state.window
    BY <2>1, <2>3 DEF FileMatches
  <2> QED
    BY <1>0, <2>1, <2>2, <2>3 DEF Prepared, States
<1>3. ASSUME NEW r \in Runs, BeginSpiral(r) \/ CompleteSpiral(r) PROVE FileMatches'
  BY <1>3, WrittenMatches DEF BeginSpiral, CompleteSpiral, Saved
<1>4. ASSUME NEW r \in Runs, NEW kind \in Interrupts, InterruptRun(r, kind) PROVE FileMatches'
  <2>1. /\ state' = [state EXCEPT !.interrupt = kind] /\ files' = Saved(state')
        /\ state'.session = state.session /\ state'.window = state.window
    BY <1>0, <1>4 DEF InterruptRun, States
  <2> QED
    BY <2>1 DEF FileMatches, Saved, Written
<1>5. ASSUME NEW r \in Runs, SaveFails(r) PROVE FileMatches'
  <2>1. /\ state'.session = state.session /\ state'.window = state.window
        /\ files' = files \/ files' = Written(state, "torn")
    BY <1>0, <1>5 DEF SaveFails, States
  <2> QED
    BY <2>1 DEF FileMatches, Written
<1>6. CASE Restart
  <2>1. CASE state' = Fresh(NoWindow) /\ DOMAIN files' \subseteq DOMAIN files
    BY <1>0, <2>1 DEF FileMatches, Fresh
  <2>2. CASE \E s \in DOMAIN files :
                /\ state' = [session |-> s, window |-> files[s].window, interrupt |-> "none"]
                /\ UNCHANGED files
    BY <2>2 DEF FileMatches
  <2> QED
    BY <1>6, <2>1, <2>2 DEF Restart
<1>7. ASSUME NEW r \in Runs, RunStep(r) PROVE FileMatches'
  BY <1>1, <1>2, <1>3, <1>4, <1>5, <1>7
     DEF RunStep, Enter, Reflex, LeaveLoop, Verdict, stateVars
<1>8. ASSUME NEW r \in Requests,
             \/ AcquireSession(r) \/ AcquireEngine(r) \/ Store(r) \/ Return(r) \/ Release(r)
             \/ \E w \in Windows : Call(r, w)
      PROVE  FileMatches'
  BY <1>1, <1>8 DEF AcquireSession, AcquireEngine, Store, Return, Release, Call, stateVars
<1>9. ASSUME NEW r \in Direct, DirectEnds(r) PROVE FileMatches'
  BY <1>1, <1>9 DEF DirectEnds, stateVars
<1>10. CASE Stop \/ UNCHANGED vars
  BY <1>1, <1>10 DEF Stop, stateVars, vars
<1> QED
  BY <1>6, <1>7, <1>8, <1>9, <1>10 DEF Next, TaskStep, Runs

\* A request that is alone in the engine works in the window of its own, and
\* a session that has been written is of one window for ever.
THEOREM SessionsCorrect == Spec => SessionsApart
<1>1. Init => FileMatches
  BY DEF Init, FileMatches
<1>2. Spec => [](TypeOK /\ Counted)
  BY TypeInitial, TypeStep, PTL DEF Spec
<1>3. Spec => []FileMatches
  BY <1>1, <1>2, FileStep, PTL DEF Spec
<1>4. TypeOK /\ Counted /\ VerdictInv /\ FileMatches /\ [Next]_vars =>
        \A r \in Requests \ overlapped :
           local'[r].begun > local[r].begun /\ state.session \in DOMAIN files
             => files[state.session].window = local[r].window
  <2> SUFFICES ASSUME TypeOK, Counted, VerdictInv, FileMatches, [Next]_vars,
                      NEW r \in Requests \ overlapped,
                      local'[r].begun > local[r].begun, state.session \in DOMAIN files
               PROVE  files[state.session].window = local[r].window
    OBVIOUS
  <2>1. r \in Runs /\ local[r].begun \in Nat /\ local'[r].begun \in Nat
    BY TypeStep DEF TypeOK, Runs
  <2>2. BeginSpiral(r)
    BY <2>1, OnlyBegin
  <2> QED
    BY <2>1, <2>2 DEF BeginSpiral, Goto, VerdictInv, Sound, FileMatches
<1> QED
  BY <1>2, <1>3, <1>4, VerdictInvariant, PTL DEF Spec, SessionsApart
-----------------------------------------------------------------------------
(* Refinement: run_task() serves requests one at a time.                   *)

\* What the steps of run() leave alone, and where they can lead a request.
LEMMA RunFrame ==
    ASSUME TypeOK, NEW r \in Runs, RunStep(r)
    PROVE  /\ UNCHANGED <<sessionLock, runLock, lastResult>>
           /\ \A q \in Runs \ {r} : at'[q] = at[q] /\ local'[q] = local[q]
           /\ r \in Requests => /\ at[r] \in Engaged \ {"return", "release"}
                               /\ at'[r] \in Engaged \ {"return", "release"}
           /\ local'[r].window = local[r].window
           /\ local'[r].answer \in {local[r].answer, NoRun}
<1>0. at \in [Runs -> PCs] /\ local \in [Runs -> Calls] /\ local[r] \in Calls
  BY DEF TypeOK, Calls
<1>1. UNCHANGED <<sessionLock, runLock, lastResult>>
  BY DEF RunStep, Enter, Prepare, Reflex, LeaveLoop, BeginSpiral, CompleteSpiral,
     InterruptRun, SaveFails, Verdict, lockVars
<1>2. \A q \in Runs \ {r} : at'[q] = at[q]
  BY <1>0 DEF RunStep, Enter, Prepare, Reflex, LeaveLoop, BeginSpiral, CompleteSpiral,
     InterruptRun, SaveFails, Verdict, Goto
<1>3. r \in Requests => /\ at[r] \in Engaged \ {"return", "release"}
                      /\ at'[r] \in Engaged \ {"return", "release"}
  BY <1>0 DEF RunStep, Enter, Prepare, Reflex, LeaveLoop, BeginSpiral, CompleteSpiral,
     InterruptRun, SaveFails, Verdict, Goto, Engaged
<1>4. /\ \A q \in Runs \ {r} : local'[q] = local[q]
      /\ local'[r].window = local[r].window
      /\ local'[r].answer \in {local[r].answer, NoRun}
  <2>1. CASE Enter(r) \/ Prepare(r) \/ LeaveLoop(r)
               \/ \E kind \in Interrupts : InterruptRun(r, kind)
    BY <2>1 DEF Enter, Prepare, LeaveLoop, InterruptRun
  <2>2. CASE Reflex(r) \/ Verdict(r)
    BY <1>0, <2>2 DEF Reflex, Verdict, Calls
  <2>3. CASE BeginSpiral(r) \/ CompleteSpiral(r)
    BY <1>0, <2>3 DEF BeginSpiral, CompleteSpiral, Calls
  <2>4. CASE SaveFails(r)
    BY <1>0, <2>4 DEF SaveFails, RunOver, NoCall
  <2> QED
    BY <2>1, <2>2, <2>3, <2>4 DEF RunStep
<1> QED
  BY <1>1, <1>2, <1>3, <1>4

\* The other steps of a request.
LEMMA CallFrame ==
    ASSUME TypeOK, NEW r \in Requests,
           \/ \E w \in Windows : Call(r, w)
           \/ AcquireSession(r) \/ AcquireEngine(r)
           \/ Store(r) \/ Return(r) \/ Release(r)
    PROVE  \A q \in Runs \ {r} : at'[q] = at[q] /\ local'[q] = local[q]
<1>1. at \in [Runs -> PCs] /\ local \in [Runs -> Calls]
  BY DEF TypeOK, Calls
<1> QED
  BY <1>1 DEF Call, AcquireSession, AcquireEngine, Store, Return, Release, RunOver, Goto

\* Between release() and the next call there is no answer in a call's variables.
Unanswered == \A r \in Requests : at[r] # "release" => local[r].answer = NoRun

LEMMA UnansweredStep == TypeOK /\ Unanswered /\ [Next]_vars => Unanswered'
<1> SUFFICES ASSUME TypeOK, Unanswered, [Next]_vars PROVE Unanswered'
  OBVIOUS
<1>0. /\ at \in [Runs -> PCs] /\ local \in [Runs -> Calls]
      /\ Requests \subseteq Runs /\ Requests \cap Direct = {}
  BY EngineAssumption DEF TypeOK, Calls, Runs
<1>1. ASSUME NEW r \in Runs, RunStep(r) PROVE Unanswered'
  BY <1>0, <1>1, RunFrame DEF Unanswered
<1>2. ASSUME NEW r \in Requests, NEW w \in Windows, Call(r, w) PROVE Unanswered'
  <2>1. local'[r].answer = local[r].answer /\ at[r] = "idle"
    BY <1>0, <1>2 DEF Call, Goto, Calls
  <2> QED
    BY <1>0, <1>2, <2>1, CallFrame DEF Unanswered
<1>3. ASSUME NEW r \in Requests, AcquireSession(r) \/ AcquireEngine(r) PROVE Unanswered'
  BY <1>0, <1>3 DEF AcquireSession, AcquireEngine, Goto, Unanswered
<1>4. ASSUME NEW r \in Requests, Store(r) \/ Release(r) PROVE Unanswered'
  <2>1. local'[r].answer = NoRun
    BY <1>0, <1>4 DEF Store, RunOver, Release, NoCall
  <2> QED
    BY <1>0, <1>4, <2>1, CallFrame DEF Unanswered
<1>5. ASSUME NEW r \in Requests, Return(r) PROVE Unanswered'
  <2>1. at'[r] = "release"
    BY <1>0, <1>5 DEF Return, Goto
  <2> QED
    BY <1>0, <1>5, <2>1, CallFrame DEF Unanswered
<1>6. ASSUME NEW r \in Direct, DirectEnds(r) PROVE Unanswered'
  BY <1>0, <1>6 DEF DirectEnds, RunOver, Goto, Unanswered
<1>7. CASE Stop \/ UNCHANGED vars
  BY <1>7 DEF Stop, vars, Unanswered
<1>8. CASE Restart
  BY <1>0, <1>8 DEF Restart, Unanswered, NoCall
<1> QED
  BY <1>0, <1>1, <1>2, <1>3, <1>4, <1>5, <1>6, <1>7, <1>8 DEF Next, TaskStep, Runs

stages == [r \in Requests |-> StageOf(r)]
answers == [r \in Requests |-> local[r].answer]

\* A step of one request that leads it from one stage to the next.
LEMMA OneStage ==
    ASSUME NEW r \in Requests,
           \A q \in Requests \ {r} : at'[q] = at[q] /\ local'[q] = local[q]
    PROVE  /\ stages' = [stages EXCEPT ![r] = StageOf(r)']
           /\ answers' = [answers EXCEPT ![r] = local'[r].answer]
<1>1. \A q \in Requests \ {r} : StageOf(q)' = StageOf(q)
  BY DEF StageOf
<1> QED
  BY <1>1 DEF stages, answers

\* Every step of the engine is a step of the serial service, or none.
LEMMA SerialStep ==
    ASSUME TypeOK, OwnInv, Unanswered, Unanswered', [Next]_vars
    PROVE  [Serial!Next]_(Serial!service)
<1> USE DEF Serial!service, stages, answers
<1>0. /\ at \in [Runs -> PCs] /\ local \in [Runs -> Calls]
      /\ Requests \subseteq Runs /\ NoRun \notin Requests /\ Requests \cap Direct = {}
  BY EngineAssumption DEF TypeOK, Calls, Runs
<1>1. ASSUME NEW r \in Requests, NEW w \in Windows, Call(r, w)
      PROVE  Serial!Submit(r)
  <2>1. at[r] = "idle" /\ at'[r] = "waiting"
    BY <1>0, <1>1 DEF Call, Goto
  <2>2. StageOf(r) = "idle" /\ StageOf(r)' = "waiting"
    BY <2>1 DEF StageOf
  <2>3. local[r].answer = NoRun /\ local'[r].answer = NoRun
    BY <2>1 DEF Unanswered
  <2>4. \A q \in Requests \ {r} : at'[q] = at[q] /\ local'[q] = local[q]
    BY <1>0, <1>1, CallFrame
  <2> QED
    BY <2>2, <2>3, <2>4, OneStage DEF Serial!Submit, Serial!Move
<1>2. ASSUME NEW r \in Requests, AcquireSession(r)
      PROVE  UNCHANGED <<stages, answers>>
  <2>1. /\ at[r] = "waiting" /\ at'[r] = "session" /\ local' = local
        /\ \A q \in Requests \ {r} : at'[q] = at[q]
    BY <1>0, <1>2 DEF AcquireSession, Goto
  <2> QED
    BY <2>1, OneStage DEF StageOf
<1>3. ASSUME NEW r \in Requests, AcquireEngine(r)
      PROVE  Serial!Pursue(r)
  <2>1. /\ at[r] = "session" /\ at'[r] = "enter" /\ local' = local /\ runLock = NoRun
        /\ \A q \in Requests \ {r} : at'[q] = at[q]
    BY <1>0, <1>3 DEF AcquireEngine, Goto
  <2>2. StageOf(r) = "waiting" /\ StageOf(r)' = "pursued"
    BY <2>1 DEF StageOf
  <2>3. \A q \in Requests : at[q] \in PCs \ Engaged
    BY <1>0, <2>1 DEF OwnInv, EngineHeld
  <2>4. \A q \in Requests : StageOf(q) \notin {"pursued", "answered"}
    BY <2>3 DEF StageOf, PCs, Engaged
  <2>5. Serial!Served = {}
    BY <2>4 DEF Serial!Served
  <2> QED
    BY <2>1, <2>2, <2>5, OneStage DEF Serial!Pursue, Serial!Move
<1>4. ASSUME NEW r \in Requests, RunStep(r) \/ Store(r)
      PROVE  UNCHANGED <<stages, answers>>
  <2>1. /\ at[r] \in Engaged \ {"release"} /\ at'[r] \in Engaged \ {"release"}
        /\ \A q \in Requests \ {r} : at'[q] = at[q] /\ local'[q] = local[q]
    <3>1. CASE RunStep(r)
      BY <1>0, <3>1, RunFrame
    <3>2. CASE Store(r)
      BY <1>0, <3>2, CallFrame DEF Store, Goto, Engaged
    <3> QED
      BY <1>4, <3>1, <3>2
  <2>2. StageOf(r) = "pursued" /\ StageOf(r)' = "pursued"
    BY <2>1 DEF StageOf, Engaged
  <2>3. local[r].answer = NoRun /\ local'[r].answer = NoRun
    BY <2>1 DEF Unanswered
  <2>4. /\ stages' = [stages EXCEPT ![r] = StageOf(r)']
        /\ answers' = [answers EXCEPT ![r] = local'[r].answer]
    BY <2>1, OneStage
  <2>5. stages[r] = "pursued" /\ answers[r] = NoRun
    BY <2>2, <2>3
  <2> QED
    BY <2>2, <2>3, <2>4, <2>5
<1>5. ASSUME NEW r \in Requests, Return(r)
      PROVE  Serial!Answer(r)
  <2>1. at[r] = "return" /\ at'[r] = "release"
    BY <1>0, <1>5 DEF Return, Goto
  <2>2. StageOf(r) = "pursued" /\ StageOf(r)' = "answered"
    BY <2>1 DEF StageOf
  <2>3. local'[r].answer = r
    <3>1. lastResult = r
      BY <2>1 DEF OwnInv, ReturnsOwn
    <3> QED
      BY <1>0, <1>5, <3>1 DEF Return, Calls
  <2>4. \A q \in Requests \ {r} : at'[q] = at[q] /\ local'[q] = local[q]
    BY <1>0, <1>5, CallFrame
  <2> QED
    BY <2>2, <2>3, <2>4, OneStage DEF Serial!Answer, Serial!Move
<1>6. ASSUME NEW r \in Requests, Release(r)
      PROVE  Serial!End(r)
  <2>1. at[r] \in {"release", "raising"} /\ at'[r] = "ended"
    BY <1>0, <1>6 DEF Release, Goto
  <2>2. StageOf(r) \in {"pursued", "answered"} /\ StageOf(r)' = "over"
    BY <2>1 DEF StageOf
  <2>3. local'[r].answer = NoRun
    BY <2>1 DEF Unanswered
  <2>4. \A q \in Requests \ {r} : at'[q] = at[q] /\ local'[q] = local[q]
    BY <1>0, <1>6, CallFrame
  <2> QED
    BY <2>2, <2>3, <2>4, OneStage DEF Serial!End, Serial!Move
<1>7. ASSUME NEW r \in Direct, RunStep(r) \/ DirectEnds(r)
      PROVE  UNCHANGED <<stages, answers>>
  <2>1. \A q \in Requests : at'[q] = at[q] /\ local'[q] = local[q]
    <3>1. r \in Runs /\ r \notin Requests
      BY <1>0 DEF Runs
    <3>2. CASE RunStep(r)
      BY <1>0, <3>1, <3>2, RunFrame
    <3>3. CASE DirectEnds(r)
      BY <1>0, <3>1, <3>3 DEF DirectEnds, RunOver, Goto
    <3> QED
      BY <1>7, <3>2, <3>3
  <2>2. \A q \in Requests : StageOf(q)' = StageOf(q)
    BY <2>1 DEF StageOf
  <2> QED
    BY <2>1, <2>2
<1>8. CASE Restart
  <2>1. \A q \in Requests : /\ at'[q] = IF at[q] = "idle" THEN "idle" ELSE "ended"
                            /\ local'[q].answer = NoRun
    BY <1>0, <1>8 DEF Restart, NoCall
  <2>2. \A q \in Requests : StageOf(q)' = IF StageOf(q) = "idle" THEN "idle" ELSE "over"
    BY <2>1 DEF StageOf
  <2> QED
    BY <2>1, <2>2 DEF Serial!ProcessEnds, Serial!Next
<1>9. CASE Stop \/ UNCHANGED vars
  BY <1>9 DEF Stop, vars, StageOf
<1> QED
  BY <1>1, <1>2, <1>3, <1>4, <1>5, <1>6, <1>7, <1>8, <1>9
  DEF Next, TaskStep, Serial!Next

\* Two locks, a shared result field and a run that may raise or die make a
\* service that pursues one goal at a time and answers each with its own.
THEOREM EngineIsSerial == Spec => ServedSerially
<1>1. Init => Serial!Init
  BY DEF Init, Serial!Init, StageOf, NoCall, Runs
<1>2. Init => Unanswered
  BY DEF Init, Unanswered, NoCall, Runs
<1>3. Spec => []Unanswered
  BY <1>2, UnansweredStep, TypeCorrect, PTL DEF Spec
<1>4. TypeOK /\ OwnInv /\ Unanswered /\ Unanswered' /\ [Next]_vars
        => [Serial!Next]_(Serial!service)
  BY SerialStep
<1> QED
  BY <1>1, <1>3, <1>4, TypeCorrect, OwnInvariant, PTL
  DEF Spec, ServedSerially, Serial!Spec
-----------------------------------------------------------------------------
(* The two locks.                                                          *)

Guarded == {"session"} \cup Engaged

\* A lock that is taken is held by a call that will release it, and a call past
\* a lock holds it: nobody released it for somebody else.
RunLockUsed == runLock # NoRun => at[runLock] \in Engaged
SessionLockUsed ==
    \A w \in Windows : sessionLock[w] # NoRun =>
        at[sessionLock[w]] \in Guarded /\ local[sessionLock[w]].window = w
SessionHeld ==
    \A r \in Requests : at[r] \in Guarded => sessionLock[local[r].window] = r
LockInv == EngineHeld /\ RunLockUsed /\ SessionLockUsed /\ SessionHeld

\* Two calls in one window are never past its lock together.
OnePerWindow ==
    \A r, q \in Requests :
        at[r] \in Guarded /\ at[q] \in Guarded /\ local[r].window = local[q].window => r = q

\* While a call waits for a lock, some call has what it needs to go on.
CanMove(r) ==
    \/ at[r] \in Engaged
    \/ at[r] = "session" /\ runLock = NoRun
    \/ at[r] = "waiting" /\ sessionLock[local[r].window] = NoRun
SomebodyMoves ==
    (\E r \in Requests : at[r] \in {"waiting", "session"}) => \E q \in Requests : CanMove(q)

\* A step that takes and releases no lock, and leads no request past one.
LEMMA LocksKept ==
    ASSUME TypeOK, LockInv, UNCHANGED <<sessionLock, runLock>>,
           \A q \in Requests :
               /\ at[q] \in Guarded \/ at'[q] \in Guarded =>
                     at'[q] \in Guarded /\ local'[q].window = local[q].window
               /\ at[q] \in Engaged <=> at'[q] \in Engaged
               /\ at[q] \in Guarded <=> at'[q] \in Guarded
    PROVE  LockInv'
<1>1. /\ \A w \in Windows : sessionLock[w] \in Requests \cup {NoRun}
      /\ runLock \in Requests \cup {NoRun}
  BY DEF TypeOK
<1>2. EngineHeld' /\ RunLockUsed'
  BY <1>1 DEF LockInv, EngineHeld, RunLockUsed
<1>3. SessionLockUsed'
  BY <1>1 DEF LockInv, SessionLockUsed
<1>4. SessionHeld'
  BY <1>1 DEF LockInv, SessionHeld
<1> QED
  BY <1>2, <1>3, <1>4 DEF LockInv

LEMMA LockStep == TypeOK /\ Named /\ LockInv /\ [Next]_vars => LockInv'
<1> SUFFICES ASSUME TypeOK, Named, LockInv, [Next]_vars PROVE LockInv'
  OBVIOUS
<1>0. /\ at \in [Runs -> PCs] /\ local \in [Runs -> Calls]
      /\ Requests \subseteq Runs /\ NoRun \notin Requests /\ Requests \cap Direct = {}
      /\ \A w \in Windows : sessionLock[w] \in Requests \cup {NoRun}
      /\ sessionLock \in [Windows -> Requests \cup {NoRun}]
  BY EngineAssumption DEF TypeOK, Calls, Runs
<1>1. ASSUME NEW r \in Runs, RunStep(r) PROVE LockInv'
  <2>1. /\ UNCHANGED <<sessionLock, runLock>>
        /\ \A q \in Requests \ {r} : at'[q] = at[q] /\ local'[q] = local[q]
        /\ r \in Requests => at[r] \in Engaged /\ at'[r] \in Engaged
        /\ local'[r].window = local[r].window
    BY <1>0, <1>1, RunFrame
  <2> QED
    BY <2>1, LocksKept DEF Guarded
<1>2. ASSUME NEW r \in Requests, Store(r) \/ Return(r) PROVE LockInv'
  <2>1. /\ UNCHANGED <<sessionLock, runLock>>
        /\ at[r] \in Engaged /\ at'[r] \in Engaged
    BY <1>0, <1>2 DEF Store, Return, Goto, lockVars, Engaged
  <2>2. local'[r].window = local[r].window
    BY <1>0, <1>2 DEF Store, RunOver, Return, NoCall, Calls
  <2>3. \A q \in Requests \ {r} : at'[q] = at[q] /\ local'[q] = local[q]
    BY <1>0, <1>2, CallFrame
  <2> QED
    BY <2>1, <2>2, <2>3, LocksKept DEF Guarded
<1>3. ASSUME NEW r \in Requests, NEW w \in Windows, Call(r, w) PROVE LockInv'
  <2>1. /\ UNCHANGED <<sessionLock, runLock>>
        /\ at[r] = "idle" /\ at'[r] = "waiting"
    BY <1>0, <1>3 DEF Call, Goto, lockVars
  <2>2. \A q \in Requests \ {r} : at'[q] = at[q] /\ local'[q] = local[q]
    BY <1>0, <1>3, CallFrame
  <2> QED
    BY <2>1, <2>2, LocksKept DEF Guarded, Engaged
<1>4. ASSUME NEW r \in Requests, AcquireSession(r) PROVE LockInv'
  <2> DEFINE w == local[r].window
  <2>1. /\ at[r] = "waiting" /\ at'[r] = "session" /\ local' = local /\ runLock' = runLock
        /\ \A q \in Requests \ {r} : at'[q] = at[q]
        /\ sessionLock[w] = NoRun /\ sessionLock' = [sessionLock EXCEPT ![w] = r]
    BY <1>0, <1>4 DEF AcquireSession, Goto
  <2>2. w \in Windows
    BY <2>1 DEF Named
  <2>3. sessionLock'[w] = r /\ \A v \in Windows \ {w} : sessionLock'[v] = sessionLock[v]
    BY <1>0, <2>1, <2>2
  <2> HIDE DEF w
  <2>4. EngineHeld' /\ RunLockUsed'
    BY <2>1 DEF LockInv, EngineHeld, RunLockUsed, Engaged, TypeOK
  <2>5. SessionLockUsed'
    BY <1>0, <2>1, <2>2, <2>3 DEF LockInv, SessionLockUsed, Guarded, w
  <2>6. SessionHeld'
    <3>1. \A q \in Requests \ {r} : at[q] \in Guarded => local[q].window # w
      BY <1>0, <2>1 DEF LockInv, SessionHeld
    <3>2. \A q \in Requests \ {r} : at[q] \in Guarded => local[q].window \in Windows
      BY DEF Named, Guarded, Engaged
    <3> QED
      BY <2>1, <2>3, <3>1, <3>2 DEF LockInv, SessionHeld, w
  <2> QED
    BY <2>4, <2>5, <2>6 DEF LockInv
<1>5. ASSUME NEW r \in Requests, AcquireEngine(r) PROVE LockInv'
  <2>1. /\ at[r] = "session" /\ at'[r] = "enter" /\ local' = local
        /\ sessionLock' = sessionLock /\ runLock = NoRun /\ runLock' = r
        /\ \A q \in Requests \ {r} : at'[q] = at[q]
    BY <1>0, <1>5 DEF AcquireEngine, Goto
  <2>2. \A q \in Requests : at[q] \notin Engaged
    BY <1>0, <2>1 DEF LockInv, EngineHeld
  <2>3. EngineHeld' /\ RunLockUsed'
    BY <2>1, <2>2 DEF EngineHeld, RunLockUsed, Engaged
  <2>4. SessionLockUsed' /\ SessionHeld'
    BY <1>0, <2>1 DEF LockInv, SessionLockUsed, SessionHeld, Guarded, Engaged
  <2> QED
    BY <2>3, <2>4 DEF LockInv, EngineHeld
<1>6. ASSUME NEW r \in Requests, Release(r) PROVE LockInv'
  <2> DEFINE w == local[r].window
  <2>1. /\ at[r] \in {"release", "raising"} /\ at'[r] = "ended" /\ runLock' = NoRun
        /\ sessionLock' = [sessionLock EXCEPT ![w] = NoRun]
    BY <1>0, <1>6 DEF Release, Goto
  <2>2. \A q \in Requests \ {r} : at'[q] = at[q] /\ local'[q] = local[q]
    BY <1>0, <1>6, CallFrame
  <2>3. w \in Windows
    BY <2>1 DEF Named
  <2>4. sessionLock'[w] = NoRun /\ \A v \in Windows \ {w} : sessionLock'[v] = sessionLock[v]
    BY <1>0, <2>1, <2>3
  <2>5. \A q \in Requests \ {r} : at[q] \notin Engaged
    BY <2>1 DEF LockInv, EngineHeld, Engaged
  <2>6. EngineHeld' /\ RunLockUsed'
    BY <2>1, <2>2, <2>5 DEF EngineHeld, RunLockUsed, Engaged
  <2>7. SessionLockUsed'
    <3>1. \A v \in Windows \ {w} : sessionLock[v] # r
      BY <1>0 DEF LockInv, SessionLockUsed
    <3> HIDE DEF w
    <3> QED
      BY <1>0, <2>2, <2>4, <3>1 DEF LockInv, SessionLockUsed
  <2>8. SessionHeld'
    <3>1. sessionLock[w] = r
      BY <2>1 DEF LockInv, SessionHeld, Guarded, Engaged
    <3>2. \A q \in Requests \ {r} : at[q] \in Guarded =>
             local[q].window \in Windows /\ local[q].window # w
      BY <3>1 DEF LockInv, SessionHeld, Named, Guarded, Engaged
    <3> HIDE DEF w
    <3> QED
      BY <2>1, <2>2, <2>4, <3>2 DEF LockInv, SessionHeld, Guarded, Engaged
  <2> QED
    BY <2>6, <2>7, <2>8 DEF LockInv
<1>7. ASSUME NEW r \in Direct, DirectEnds(r) PROVE LockInv'
  <2>1. /\ UNCHANGED <<sessionLock, runLock>>
        /\ \A q \in Requests : at'[q] = at[q] /\ local'[q] = local[q]
    BY <1>0, <1>7 DEF DirectEnds, RunOver, Goto, lockVars
  <2> QED
    BY <2>1, LocksKept
<1>8. CASE Stop \/ UNCHANGED vars
  BY <1>8, LocksKept DEF Stop, vars, lockVars
<1>9. CASE Restart
  <2>1. /\ \A q \in Requests : at'[q] \in {"idle", "ended"}
        /\ runLock' = NoRun /\ \A w \in Windows : sessionLock'[w] = NoRun
    BY <1>0, <1>9 DEF Restart
  <2> QED
    BY <2>1 DEF LockInv, EngineHeld, RunLockUsed, SessionLockUsed, SessionHeld, Guarded, Engaged
<1> QED
  BY <1>0, <1>1, <1>2, <1>3, <1>4, <1>5, <1>6, <1>7, <1>8, <1>9 DEF Next, TaskStep, Runs

\* The session locks and the engine's lock do what the two with statements are
\* there for, and never leave all callers waiting for each other: one call per
\* window, and while one waits for a lock some call can go on.
THEOREM LocksCorrect == Spec => [](OnePerWindow /\ SomebodyMoves)
<1>1. Init => LockInv
  BY DEF Init, LockInv, EngineHeld, RunLockUsed, SessionLockUsed, SessionHeld, Guarded,
     Engaged, Runs
<1>2. VerdictInv => Named
  BY DEF VerdictInv
<1>3. Spec => []LockInv
  BY <1>1, <1>2, LockStep, VerdictInvariant, TypeCorrect, PTL DEF Spec
<1>4. TypeOK /\ Named /\ LockInv => OnePerWindow /\ SomebodyMoves
  <2> SUFFICES ASSUME TypeOK, Named, LockInv PROVE OnePerWindow /\ SomebodyMoves
    OBVIOUS
  <2>1. OnePerWindow
    BY DEF LockInv, SessionHeld, OnePerWindow
  <2>2. ASSUME NEW r \in Requests, at[r] = "session"
        PROVE  \E q \in Requests : CanMove(q)
    <3>1. CASE runLock = NoRun
      BY <2>2, <3>1 DEF CanMove
    <3>2. CASE runLock # NoRun
      <4>1. runLock \in Requests /\ at[runLock] \in Engaged
        BY <3>2 DEF TypeOK, LockInv, RunLockUsed
      <4> QED
        BY <4>1 DEF CanMove
    <3> QED
      BY <3>1, <3>2
  <2>3. ASSUME NEW r \in Requests, at[r] = "waiting"
        PROVE  \E q \in Requests : CanMove(q)
    <3> DEFINE h == sessionLock[local[r].window]
    <3>1. local[r].window \in Windows
      BY <2>3 DEF Named
    <3>2. h \in Requests \cup {NoRun} /\ (h # NoRun => at[h] \in Guarded)
      BY <3>1 DEF TypeOK, LockInv, SessionLockUsed
    <3>3. CASE h = NoRun
      BY <2>3, <3>3 DEF CanMove
    <3>4. CASE h # NoRun
      <4>1. h \in Requests /\ (at[h] \in Engaged \/ at[h] = "session")
        BY <3>2, <3>4 DEF Guarded
      <4> HIDE DEF h
      <4> QED
        BY <2>2, <4>1 DEF CanMove
    <3> QED
      BY <3>3, <3>4
  <2> QED
    BY <2>1, <2>2, <2>3 DEF SomebodyMoves
<1> QED
  BY <1>2, <1>3, <1>4, VerdictInvariant, TypeCorrect, PTL
=============================================================================
