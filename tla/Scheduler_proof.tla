-------------------------- MODULE Scheduler_proof --------------------------
(***************************************************************************)
(* Proofs about Scheduler for any sets of tasks, loops and clients, with   *)
(* and without restarts.                                                   *)
(***************************************************************************)
EXTENDS Scheduler, FiniteSetTheorems, SequenceTheorems, TLAPS

-----------------------------------------------------------------------------
(* Sequences without repetitions.                                          *)

\* What add() does to the ids of a dict.
LEMMA AppendFacts ==
    ASSUME NEW S, NEW s \in Seq(S), NEW t \in S
    PROVE  /\ Append(s, t) \in Seq(S)
           /\ Range(Append(s, t)) = Range(s) \cup {t}
           /\ IsInjective(s) /\ t \notin Range(s) => IsInjective(Append(s, t))
  <1>1. /\ Append(s, t) \in Seq(S) /\ Len(Append(s, t)) = Len(s) + 1
        /\ \A i \in 1..Len(s) : Append(s, t)[i] = s[i]
        /\ Append(s, t)[Len(s) + 1] = t
    BY AppendProperties
  <1>2. Len(s) \in Nat /\ DOMAIN s = 1..Len(s) /\ DOMAIN Append(s, t) = 1..(Len(s) + 1)
    BY <1>1, LenProperties
  <1>3. Range(Append(s, t)) = Range(s) \cup {t}
    BY <1>1, <1>2 DEF Range
  <1>4. ASSUME IsInjective(s), t \notin Range(s)
        PROVE  IsInjective(Append(s, t))
    BY <1>1, <1>2, <1>4 DEF IsInjective, Range
  <1> QED
    BY <1>1, <1>3, <1>4

\* What remove() does to them.
LEMMA RemoveAtFacts ==
    ASSUME NEW S, NEW s \in Seq(S), IsInjective(s), NEW i \in DOMAIN s
    PROVE  /\ RemoveAt(s, i) \in Seq(S)
           /\ Range(RemoveAt(s, i)) = Range(s) \ {s[i]}
           /\ IsInjective(RemoveAt(s, i))
  <1> DEFINE a == SubSeq(s, 1, i - 1)
             b == SubSeq(s, i + 1, Len(s))
             r == RemoveAt(s, i)
  <1>1. Len(s) \in Nat /\ DOMAIN s = 1..Len(s) /\ i \in 1..Len(s)
    BY LenProperties
  <1>2. /\ a \in Seq(S) /\ Len(a) = i - 1
        /\ \A k \in 1..(i - 1) : a[k] = s[k]
    BY <1>1, SubSeqProperties
  <1>3. /\ b \in Seq(S) /\ Len(b) = Len(s) - i
        /\ \A k \in 1..(Len(s) - i) : b[k] = s[i + k]
    BY <1>1, SubSeqProperties
  <1>4. r = a \o b
    BY DEF RemoveAt
  <1> HIDE DEF a, b, r
  <1>5. /\ r \in Seq(S) /\ Len(r) = Len(s) - 1 /\ DOMAIN r = 1..(Len(s) - 1)
        /\ \A k \in 1..(Len(s) - 1) : r[k] = IF k < i THEN s[k] ELSE s[k + 1]
    <2>1. r \in Seq(S) /\ Len(r) = Len(a) + Len(b)
      BY <1>2, <1>3, <1>4, ConcatProperties
    <2>2. \A k \in 1..(Len(a) + Len(b)) : 
             r[k] = IF k <= Len(a) THEN a[k] ELSE b[k - Len(a)]
      BY <1>2, <1>3, <1>4, ConcatProperties
    <2>3. Len(r) = Len(s) - 1 /\ DOMAIN r = 1..(Len(s) - 1)
      BY <2>1, <1>1, <1>2, <1>3, LenProperties
    <2>4. ASSUME NEW k \in 1..(Len(s) - 1)
          PROVE  r[k] = IF k < i THEN s[k] ELSE s[k + 1]
      <3>1. CASE k < i
        <4>1. k <= Len(a) /\ k \in 1..(i - 1) /\ k \in 1..(Len(a) + Len(b))
          BY <3>1, <1>1, <1>2, <1>3
        <4> QED
          BY <3>1, <4>1, <2>2, <1>2
      <3>2. CASE k >= i
        <4>1. k - (i - 1) \in 1..(Len(s) - i) /\ i + (k - (i - 1)) = k + 1
          BY <3>2, <1>1
        <4>2. b[k - (i - 1)] = s[k + 1]
          BY <4>1, <1>3
        <4>3. ~(k <= Len(a)) /\ k - Len(a) = k - (i - 1) /\ k \in 1..(Len(a) + Len(b))
          BY <3>2, <1>1, <1>2, <1>3
        <4> QED
          BY <3>2, <4>2, <4>3, <2>2, <1>1
      <3>3. k \in Int /\ i \in Int
        BY <1>1
      <3> QED
        BY <3>1, <3>2, <3>3
    <2> QED
      BY <2>1, <2>3, <2>4
  <1> DEFINE up(k) == IF k < i THEN k ELSE k + 1
  <1>6. IsInjective(r)
    <2>1. \A k \in DOMAIN r : up(k) \in DOMAIN s /\ r[k] = s[up(k)]
      BY <1>1, <1>5
    <2>2. \A j, k \in DOMAIN r : up(j) = up(k) => j = k
      BY <1>1, <1>5
    <2> HIDE DEF up
    <2> QED
      BY <2>1, <2>2 DEF IsInjective
  <1>7. Range(r) \subseteq Range(s) \ {s[i]}
    BY <1>1, <1>5 DEF IsInjective, Range
  <1>8. ASSUME NEW j \in 1..Len(s), j # i
        PROVE  s[j] \in Range(r)
    <2>1. CASE j < i
      BY <2>1, <1>1, <1>5, <1>8 DEF Range
    <2>2. CASE j > i
      <3>1. j - 1 \in 1..(Len(s) - 1) /\ (j - 1) + 1 = j /\ ~(j - 1 < i)
        BY <2>2, <1>1
      <3>2. r[j - 1] = s[j]
        BY <3>1, <1>5
      <3> QED
        BY <3>1, <3>2, <1>5 DEF Range
    <2> QED
      BY <2>1, <2>2, <1>8, <1>1
  <1>9. Range(r) = Range(s) \ {s[i]}
    BY <1>1, <1>7, <1>8 DEF Range
  <1> QED
    BY <1>5, <1>6, <1>9 DEF r

\* What taking the first task off a loop's list does.
LEMMA TailFacts ==
    ASSUME NEW S, NEW s \in Seq(S), s # <<>>
    PROVE  /\ Tail(s) \in Seq(S) /\ Head(s) \in S
           /\ Range(Tail(s)) \subseteq Range(s) /\ Head(s) \in Range(s)
           /\ IsInjective(s) => IsInjective(Tail(s)) /\ Head(s) \notin Range(Tail(s))
  <1>1. /\ Tail(s) \in Seq(S) /\ Len(Tail(s)) = Len(s) - 1 /\ Head(s) = s[1]
        /\ \A i \in 1..Len(Tail(s)) : Tail(s)[i] = s[i + 1]
    BY HeadTailProperties
  <1>2. /\ Len(s) \in Nat /\ Len(s) > 0 /\ DOMAIN s = 1..Len(s)
        /\ DOMAIN Tail(s) = 1..(Len(s) - 1)
    BY <1>1, LenProperties, EmptySeq
  <1>3. \A i \in DOMAIN Tail(s) : i + 1 \in DOMAIN s /\ i + 1 # 1 /\ Tail(s)[i] = s[i + 1]
    BY <1>1, <1>2
  <1>4. Range(Tail(s)) \subseteq Range(s) /\ Head(s) \in Range(s) /\ Head(s) \in S
    BY <1>1, <1>2, <1>3, ElementOfSeq DEF Range
  <1>5. ASSUME IsInjective(s)
        PROVE  IsInjective(Tail(s)) /\ Head(s) \notin Range(Tail(s))
    BY <1>1, <1>2, <1>3, <1>5 DEF IsInjective, Range
  <1> QED
    BY <1>1, <1>4, <1>5

\* The list due_tasks() makes: due tasks only, each once.
LEMMA DueListFacts ==
    ASSUME tasks \in Seq(All), IsInjective(tasks),
           NEW n \in 0..Len(tasks), NEW s \in [1..n -> Range(tasks)], IsDueList(s)
    PROVE  /\ s \in Seq(All) /\ IsInjective(s) /\ Range(s) \subseteq Range(tasks)
           /\ \A t \in Range(s) : due[t] = "due"
  <1>1. Len(tasks) \in Nat /\ DOMAIN tasks = 1..Len(tasks) /\ n \in Nat /\ DOMAIN s = 1..n
    BY LenProperties
  <1>2. Range(tasks) \subseteq All
    BY <1>1, ElementOfSeq DEF Range
  <1>3. s \in Seq(Range(tasks))
    BY <1>1, IsASeq
  <1>4. s \in Seq(All)
    BY <1>2, <1>3, SeqMonotonic
  <1>5. ASSUME NEW i \in DOMAIN s, NEW j \in DOMAIN s, i < j
        PROVE  s[i] # s[j]
    <2>1. PICK m \in DOMAIN tasks, k \in DOMAIN tasks :
             m < k /\ tasks[m] = s[i] /\ tasks[k] = s[j]
      BY <1>5 DEF IsDueList
    <2> QED
      BY <2>1, <1>1 DEF IsInjective
  <1>6. IsInjective(s)
    BY <1>1, <1>5 DEF IsInjective
  <1> QED
    BY <1>4, <1>6 DEF IsDueList

LEMMA EmptyFacts == \A S : <<>> \in Seq(S) /\ IsInjective(<<>>) /\ Range(<<>>) = {}
  BY EmptySeq DEF IsInjective, Range

-----------------------------------------------------------------------------

\* Ids are given out once: whatever a dict, a list or the file names was given
\* out by add(), or is "auto-evolution".
Known == used \cup {Evolution}

Sound(c) ==
    /\ IsInjective(c.ids)
    /\ Range(c.ids) \subseteq Known
    /\ c.never \subseteq Range(c.ids)

IdsKnown ==
    /\ Range(tasks) \subseteq Known
    /\ Range(engine) \subseteq Known
    /\ file # Torn => Sound(file)
    /\ \A th \in Threads : Sound(data[th])
    /\ \A l \in Loops : IsInjective(todo[l]) /\ Range(todo[l]) \subseteq Known

\* A loop works on its list between due_tasks() and the end of its tick.
ListsMatch ==
    \A l \in Loops :
       /\ at[l] \in {"off", "check", "scan", "sleep"} => todo[l] = <<>>
       /\ at[l] \in {"run", "record"} => todo[l] # <<>>

TypeInv == TypeOK /\ IdsKnown /\ ListsMatch

LEMMA ContentFacts ==
    ASSUME NEW s \in Seq(All), IsInjective(s), Range(s) \subseteq Known
    PROVE  Content(s) \in Contents /\ Sound(Content(s))
  <1>1. Range(s) \subseteq All
    BY LenProperties, ElementOfSeq DEF Range
  <1> QED
    BY <1>1 DEF Content, Contents, Sound

LEMMA EmptyIsSound == Empty \in Contents /\ Sound(Empty) /\ Empty # Torn
  <1>1. Empty \in Contents /\ Sound(Empty)
    BY EmptyFacts DEF Empty, Contents, Sound
  <1>2. Empty # Torn
    BY DEF Empty, Torn
  <1> QED
    BY <1>1, <1>2

LEMMA TornIsNoContent == Torn \notin Contents
  BY DEF Torn, Contents

LEMMA LoadedFacts ==
    ASSUME TypeOK, IdsKnown
    PROVE  Loaded \in Contents /\ Sound(Loaded)
  BY EmptyIsSound DEF TypeOK, IdsKnown, Loaded

LEMMA TypeInit == Init => TypeInv
  <1> SUFFICES ASSUME Init PROVE TypeInv
    OBVIOUS
  <1>1. TypeOK
    BY EmptyFacts, EmptyIsSound DEF Init, TypeOK
  <1>2. IdsKnown
    BY EmptyFacts, EmptyIsSound DEF Init, IdsKnown, Known
  <1>3. ListsMatch
    BY SchedulerAssumption DEF Init, ListsMatch, Threads
  <1> QED
    BY <1>1, <1>2, <1>3 DEF TypeInv

\* Steps that change no dict, no file and no text about to be written.
LEMMA ElsewhereKeeps ==
    ASSUME TypeInv,
           UNCHANGED <<tasks, engine, file, data, used>>,
           due' \in [All -> {"later", "due", "never"}],
           running' \in BOOLEAN, overtaken' \in BOOLEAN, clean' \in BOOLEAN,
           at' \in [Threads -> {"off", "boot", "start", "evolve", "check", "scan",
                               "next", "run", "record", "snap", "write", "sleep"}],
           moved' \subseteq Threads,
           todo' \in [Loops -> Seq(All)],
           \A l \in Loops : IsInjective(todo'[l]) /\ Range(todo'[l]) \subseteq Known
    PROVE  TypeOK' /\ IdsKnown'
  BY DEF TypeInv, TypeOK, IdsKnown, Known, Sound

LEMMA ThreadKeeps ==
    ASSUME TypeInv,
           UNCHANGED <<tasks, due, engine, file, data, used, clean>>,
           running' \in BOOLEAN, overtaken' \in BOOLEAN,
           at' \in [Threads -> {"off", "boot", "start", "evolve", "check", "scan",
                               "next", "run", "record", "snap", "write", "sleep"}],
           moved' \subseteq Threads,
           UNCHANGED todo \/ \E l \in Loops : todo' = [todo EXCEPT ![l] = <<>>]
    PROVE  TypeOK' /\ IdsKnown'
  <1>1. /\ todo' \in [Loops -> Seq(All)]
        /\ \A l \in Loops : IsInjective(todo'[l]) /\ Range(todo'[l]) \subseteq Known
    BY EmptyFacts DEF TypeInv, TypeOK, IdsKnown
  <1> QED
    BY <1>1, ElsewhereKeeps DEF TypeInv, TypeOK

LEMMA TypeStep ==
    ASSUME TypeInv, Next PROVE TypeOK' /\ IdsKnown'
  <1> USE DEF TypeInv
  <1>1. ASSUME NEW t \in All, Elapse(t) PROVE TypeOK' /\ IdsKnown'
    BY <1>1, ElsewhereKeeps DEF Elapse, TypeOK, IdsKnown, threadVars
  <1>2. ASSUME NEW l \in Loops, Check(l) \/ ScanRaises(l) \/ NextTask(l) \/ RunEnds(l)
                 \/ RunRaises(l) \/ Wake(l)
        PROVE TypeOK' /\ IdsKnown'
    <2>1. /\ UNCHANGED <<tasks, due, engine, file, data, used, clean, running, overtaken>>
          /\ moved' \subseteq Threads
          /\ UNCHANGED todo \/ todo' = [todo EXCEPT ![l] = <<>>]
      BY <1>2 DEF Check, ScanRaises, NextTask, RunEnds, RunRaises, Wake, TypeOK,
           threadVars, historyVars
    <2>2. at' \in [Threads -> {"off", "boot", "start", "evolve", "check", "scan",
                               "next", "run", "record", "snap", "write", "sleep"}]
      BY <1>2 DEF Check, ScanRaises, NextTask, RunEnds, RunRaises, Wake, TypeOK, Go, Threads
    <2> QED
      BY <2>1, <2>2, ThreadKeeps DEF TypeOK
  <1>3. ASSUME NEW l \in Loops, Scan(l) PROVE TypeOK' /\ IdsKnown'
    <2>1. PICK n \in 0..Len(tasks) : \E s \in [1..n -> Range(tasks)] :
             IsDueList(s) /\ todo' = [todo EXCEPT ![l] = s]
      BY <1>3 DEF Scan
    <2>2. PICK s \in [1..n -> Range(tasks)] :
             IsDueList(s) /\ todo' = [todo EXCEPT ![l] = s]
      BY <2>1
    <2>3. s \in Seq(All) /\ IsInjective(s) /\ Range(s) \subseteq Range(tasks)
      BY <2>2, DueListFacts DEF TypeOK
    <2>4. /\ todo' \in [Loops -> Seq(All)]
          /\ \A m \in Loops : IsInjective(todo'[m]) /\ Range(todo'[m]) \subseteq Known
      BY <2>2, <2>3 DEF TypeOK, IdsKnown
    <2> QED
      BY <1>3, <2>4, ElsewhereKeeps DEF Scan, Go, TypeOK, Threads, historyVars
  <1>4. ASSUME NEW l \in Loops, Record(l) PROVE TypeOK' /\ IdsKnown'
    <2>1. Tail(todo[l]) \in Seq(All) /\ IsInjective(Tail(todo[l]))
          /\ Range(Tail(todo[l])) \subseteq Known
      BY <1>4, TailFacts DEF TypeOK, IdsKnown, ListsMatch, Record
    <2> QED
      BY <1>4, <2>1, ElsewhereKeeps
      DEF Record, ThenSave, Go, NextRun, TypeOK, IdsKnown, Threads
  <1>5. ASSUME NEW th \in Threads, Snap(th) PROVE TypeOK' /\ IdsKnown'
    <2>1. Dict(th) \in Seq(All) /\ IsInjective(Dict(th)) /\ Range(Dict(th)) \subseteq Known
      BY DEF Dict, TypeOK, IdsKnown
    <2>2. Content(Dict(th)) \in Contents /\ Sound(Content(Dict(th)))
      BY <2>1, ContentFacts
    <2>3. data' = [data EXCEPT ![th] = Content(Dict(th))] /\ file' = Torn
      BY <1>5 DEF Snap
    <2>4. engine' \in Seq(All) /\ IsInjective(engine') /\ Range(engine') \subseteq Known
      BY <1>5, EmptyFacts DEF Snap, TypeOK, IdsKnown
    <2>5. TypeOK'
      BY <1>5, <2>2, <2>3, <2>4 DEF Snap, Go, TypeOK, historyVars
    <2>6. IdsKnown'
      BY <1>5, <2>2, <2>3, <2>4 DEF Snap, TypeOK, IdsKnown, Known, Sound, historyVars
    <2> QED
      BY <2>5, <2>6
  <1>6. ASSUME NEW th \in Threads, SnapRaises(th) PROVE TypeOK' /\ IdsKnown'
    <2>1. /\ todo' \in [Loops -> Seq(All)]
          /\ \A l \in Loops : IsInjective(todo'[l]) /\ Range(todo'[l]) \subseteq Known
      BY <1>6, EmptyFacts DEF SnapRaises, TypeOK, IdsKnown
    <2> QED
      BY <1>6, <2>1, ElsewhereKeeps DEF SnapRaises, Go, AfterRaise, TypeOK
  <1>7. ASSUME NEW th \in Threads, Write(th) PROVE TypeOK' /\ IdsKnown'
    <2>1. /\ data' = [data EXCEPT ![th] = Empty]
          /\ file' \in {data[th], Torn}
      BY <1>7 DEF Write
    <2>2. data[th] \in Contents /\ Sound(data[th])
      BY DEF TypeOK, IdsKnown
    <2>3. TypeOK'
      BY <1>7, <2>1, <2>2, EmptyIsSound DEF Write, Go, AfterSave, TypeOK, historyVars
    <2>4. IdsKnown'
      BY <1>7, <2>1, <2>2, EmptyIsSound
      DEF Write, TypeOK, IdsKnown, Known, Sound, historyVars
    <2> QED
      BY <2>3, <2>4
  <1>8. ASSUME NEW c \in Clients, NEW t \in Tasks, AddTask(c, t) PROVE TypeOK' /\ IdsKnown'
    <2>1. t \in All /\ t \notin Known
      BY <1>8, SchedulerAssumption DEF AddTask, All, Known
    <2>2. tasks' = Append(tasks, t) /\ used' = used \cup {t}
      BY <1>8 DEF AddTask
    <2>3. /\ tasks' \in Seq(All) /\ IsInjective(tasks')
          /\ Range(tasks') = Range(tasks) \cup {t}
      BY <2>1, <2>2, AppendFacts DEF TypeOK, IdsKnown
    <2>4. due' \in [All -> {"later", "due", "never"}]
      BY <1>8, <2>1 DEF AddTask, TypeOK
    <2>5. TypeOK'
      BY <1>8, <2>2, <2>3, <2>4 DEF AddTask, Shift, ThenSave, Go, TypeOK, Threads
    <2>6. IdsKnown'
      BY <1>8, <2>2, <2>3 DEF AddTask, TypeOK, IdsKnown, Known, Sound
    <2> QED
      BY <2>5, <2>6
  <1>9. ASSUME NEW c \in Clients, NEW t \in All, RemoveTask(c, t) PROVE TypeOK' /\ IdsKnown'
    <2>1. PICK i \in DOMAIN tasks : tasks[i] = t /\ tasks' = RemoveAt(tasks, i)
      BY <1>9 DEF RemoveTask
    <2>2. /\ tasks' \in Seq(All) /\ IsInjective(tasks')
          /\ Range(tasks') \subseteq Range(tasks)
      BY <2>1, RemoveAtFacts DEF TypeOK
    <2>3. TypeOK'
      BY <1>9, <2>2 DEF RemoveTask, Shift, ThenSave, Go, TypeOK, Threads
    <2>4. IdsKnown'
      BY <1>9, <2>2 DEF RemoveTask, TypeOK, IdsKnown, Known, Sound
    <2> QED
      BY <2>3, <2>4
  <1>10. ASSUME NEW c \in Clients \cup {"boot"},
                StartTest(c) \/ Stop(c) \/ StartSet(c) \/ BootStart
         PROVE TypeOK' /\ IdsKnown'
    <2>1. /\ UNCHANGED <<tasks, due, engine, file, data, used, clean, moved, todo>>
          /\ running' \in BOOLEAN /\ overtaken' \in BOOLEAN
      BY <1>10 DEF StartTest, Stop, StartSet, BootStart, TypeOK, threadVars, historyVars
    <2>2. at' \in [Threads -> {"off", "boot", "start", "evolve", "check", "scan",
                               "next", "run", "record", "snap", "write", "sleep"}]
      BY <1>10 DEF StartTest, Stop, StartSet, BootStart, TypeOK, Go, Threads, threadVars
    <2> QED
      BY <2>1, <2>2, ThreadKeeps DEF TypeOK
  <1>11. ASSUME Evolve PROVE TypeOK' /\ IdsKnown'
    <2>1. /\ engine' \in Seq(All) /\ IsInjective(engine')
          /\ Range(engine') \subseteq Known
      <3>1. CASE engine' = <<>>
        BY <3>1, EmptyFacts
      <3>2. CASE engine' = Append(engine, Evolution) /\ Evolution \notin Range(engine)
        BY <3>2, AppendFacts DEF TypeOK, IdsKnown, Known, All
      <3> QED
        BY <1>11, <3>1, <3>2 DEF Evolve
    <2>2. /\ due' \in [All -> {"later", "due", "never"}] /\ clean' \in BOOLEAN
          /\ UNCHANGED <<tasks, file, running, moved, todo, data, used, overtaken>>
      BY <1>11 DEF Evolve, ThenSave, TypeOK, All
    <2>3. at' \in [Threads -> {"off", "boot", "start", "evolve", "check", "scan",
                               "next", "run", "record", "snap", "write", "sleep"}]
      BY <1>11 DEF Evolve, ThenSave, Go, TypeOK
    <2>4. TypeOK'
      BY <2>1, <2>2, <2>3 DEF TypeOK
    <2>5. IdsKnown'
      BY <2>1, <2>2 DEF IdsKnown, Known, Sound
    <2> QED
      BY <2>4, <2>5
  <1>12. ASSUME Restart PROVE TypeOK' /\ IdsKnown'
    <2>1. /\ Loaded.ids \in Seq(All) /\ IsInjective(Loaded.ids)
          /\ Range(Loaded.ids) \subseteq Known
      BY LoadedFacts DEF Contents, Sound
    <2>2. TypeOK'
      BY <1>12, <2>1, EmptyFacts, EmptyIsSound DEF Restart, TypeOK
    <2>3. IdsKnown'
      BY <1>12, <2>1, EmptyFacts, EmptyIsSound DEF Restart, IdsKnown, Known, Sound
    <2> QED
      BY <2>2, <2>3
  <1> QED
    BY <1>1, <1>2, <1>3, <1>4, <1>5, <1>6, <1>7, <1>8, <1>9, <1>10, <1>11, <1>12
    DEF Next, LoopStep, SaveStep

\* Only a loop itself touches its list, and only the loop's own start and
\* steps move it.
LEMMA ListsStep ==
    ASSUME TypeInv, Next PROVE ListsMatch'
  <1> USE DEF TypeInv
  <1>0. \A l \in Loops : l \in Threads /\ l \notin Clients \cup {"boot"}
    BY SchedulerAssumption DEF Threads
  <1>1. ASSUME NEW l \in Loops, LoopStep(l) PROVE ListsMatch'
    <2>1. /\ \A m \in Loops \ {l} : at'[m] = at[m] /\ todo'[m] = todo[m]
          /\ \/ at'[l] \in {"off", "check", "scan", "sleep"} /\ todo'[l] = <<>>
             \/ at'[l] \in {"run", "record"} /\ todo'[l] # <<>>
             \/ at'[l] \in {"next", "snap"}
      BY <1>1, <1>0 DEF LoopStep, Check, Scan, ScanRaises, NextTask, RunEnds, RunRaises,
           Record, Wake, ThenSave, Go, TypeOK, ListsMatch
    <2> QED
      BY <2>1 DEF ListsMatch
  <1>2. ASSUME NEW th \in Threads, SaveStep(th) PROVE ListsMatch'
    BY <1>2, <1>0 DEF SaveStep, Snap, SnapRaises, Write, AfterSave, AfterRaise, Go,
         TypeOK, ListsMatch
  <1>3. ASSUME NEW c \in Clients \cup {"boot"}, StartSet(c) PROVE ListsMatch'
    BY <1>3, <1>0 DEF StartSet, Live, TypeOK, ListsMatch
  <1>4. ASSUME \/ \E t \in All : Elapse(t)
               \/ \E c \in Clients, t \in Tasks : AddTask(c, t)
               \/ \E c \in Clients, t \in All : RemoveTask(c, t)
               \/ \E c \in Clients : StartTest(c) \/ Stop(c)
               \/ BootStart \/ Evolve
        PROVE ListsMatch'
    <2>1. /\ todo' = todo
          /\ \A l \in Loops : at'[l] = at[l]
      BY <1>4, <1>0 DEF Elapse, AddTask, RemoveTask, StartTest, Stop, BootStart, Evolve,
           ThenSave, Go, threadVars, TypeOK
    <2> QED
      BY <2>1 DEF ListsMatch
  <1>5. ASSUME Restart PROVE ListsMatch'
    BY <1>5, <1>0 DEF Restart, ListsMatch
  <1> QED
    BY <1>1, <1>2, <1>3, <1>4, <1>5 DEF Next

LEMMA TypeInvariant == Spec => []TypeInv
  <1>1. TypeInv /\ [Next]_vars => TypeInv'
    <2>1. CASE UNCHANGED vars
      BY <2>1 DEF vars, threadVars, historyVars, TypeInv, TypeOK, IdsKnown, ListsMatch,
           Known, Sound
    <2> QED
      BY <2>1, TypeStep, ListsStep DEF TypeInv
  <1> QED
    BY <1>1, TypeInit, PTL DEF Spec

THEOREM TypeCorrect == Spec => []TypeOK
  BY TypeInvariant, PTL DEF TypeInv

-----------------------------------------------------------------------------

\* Why a list made a while ago is still right: one loop works at a time, what
\* is left of its list was recorded by nobody else, and the boot thread makes
\* a fresh "auto-evolution" only when the server has none.
ListsDue ==
    /\ \A l, m \in Live : l = m
    /\ \A l \in Loops : \A t \in Range(todo[l]) :
          due[t] = "due" \/ t \notin Range(tasks)

BootSees ==
    at["boot"] \in {"boot", "start", "evolve"} /\ Evolution \in Range(tasks)
       => Evolution \in Range(engine)

RunInv == BootSees /\ (overtaken \/ ListsDue)

LEMMA BootStep ==
    ASSUME TypeInv, RunInv, Next PROVE BootSees'
  <1> USE DEF TypeInv, TypeOK, RunInv
  <1>0. "boot" \in Threads /\ "boot" \notin Loops \cup Clients /\ Evolution \notin Tasks
    BY SchedulerAssumption DEF Threads
  <1>1. ASSUME NEW c \in Clients, NEW t \in Tasks, AddTask(c, t) PROVE BootSees'
    <2>1. Range(tasks') = Range(tasks) \cup {t} /\ t # Evolution
      BY <1>1, <1>0, AppendFacts DEF AddTask, All
    <2> QED
      BY <1>1, <1>0, <2>1 DEF AddTask, ThenSave, Go, BootSees
  <1>2. ASSUME NEW c \in Clients, NEW t \in All, RemoveTask(c, t) PROVE BootSees'
    <2>1. Range(tasks') \subseteq Range(tasks)
      BY <1>2, RemoveAtFacts DEF RemoveTask
    <2> QED
      BY <1>2, <1>0, <2>1 DEF RemoveTask, ThenSave, Go, BootSees
  <1>3. ASSUME NEW th \in Threads, SaveStep(th) PROVE BootSees'
    <2>1. tasks' = tasks /\ (engine' = engine \/ th = "boot")
      BY <1>3 DEF SaveStep, Snap, SnapRaises, Write
    <2>2. at' = [at EXCEPT ![th] = at'[th]] /\ at'[th] \in {"write", "next", "sleep", "off"}
      BY <1>3 DEF SaveStep, Snap, SnapRaises, Write, Go, AfterSave, AfterRaise
    <2> QED
      BY <1>0, <2>1, <2>2 DEF BootSees
  <1>4. ASSUME Evolve PROVE BootSees'
    BY <1>4, <1>0 DEF Evolve, ThenSave, Go, BootSees
  <1>5. ASSUME Restart PROVE BootSees'
    BY <1>5 DEF Restart, BootSees
  <1>6. ASSUME \/ \E t \in All : Elapse(t)
               \/ \E l \in Loops : LoopStep(l)
               \/ \E c \in Clients : StartTest(c) \/ Stop(c)
               \/ \E c \in Clients \cup {"boot"} : StartSet(c)
               \/ BootStart
        PROVE BootSees'
    <2>1. /\ tasks' = tasks /\ engine' = engine
          /\ at'["boot"] \in {"boot", "start", "evolve"}
                => at["boot"] \in {"boot", "start", "evolve"}
      BY <1>6, <1>0 DEF Elapse, LoopStep, Check, Scan, ScanRaises, NextTask, RunEnds,
           RunRaises, Record, Wake, StartTest, Stop, StartSet, BootStart, ThenSave, Go,
           threadVars
    <2> QED
      BY <2>1 DEF BootSees
  <1> QED
    BY <1>1, <1>2, <1>3, <1>4, <1>5, <1>6 DEF Next

\* Steps that change neither a due date nor the dict, start no loop and add
\* nothing to a list.
LEMMA ListsKeep ==
    ASSUME ListsDue, UNCHANGED <<tasks, due>>, Live' \subseteq Live,
           \A l \in Loops : Range(todo'[l]) \subseteq Range(todo[l])
    PROVE  ListsDue'
  BY DEF ListsDue

LEMMA ListsDueStep ==
    ASSUME TypeInv, RunInv, Next PROVE overtaken' \/ ListsDue'
  <1> SUFFICES ASSUME ~overtaken' PROVE ListsDue'
    OBVIOUS
  <1> USE DEF TypeInv, TypeOK, RunInv
  <1>0. \A l \in Loops : l \in Threads /\ l \notin Clients /\ l # "boot"
    BY SchedulerAssumption DEF Threads
  <1>1. ASSUME NEW t \in All, Elapse(t) PROVE ListsDue'
    BY <1>1 DEF Elapse, ListsDue, Live, threadVars
  <1>2. ASSUME NEW l \in Loops,
               \/ Check(l) \/ ScanRaises(l) \/ NextTask(l)
               \/ RunEnds(l) \/ RunRaises(l) \/ Wake(l)
        PROVE ListsDue'
    <2>1. UNCHANGED <<tasks, due, overtaken>> /\ at[l] # "off"
      BY <1>2 DEF Check, ScanRaises, NextTask, RunEnds, RunRaises, Wake, historyVars
    <2>2. \A m \in Loops \ {l} : at'[m] = at[m]
      BY <1>2, <1>0 DEF Check, ScanRaises, NextTask, RunEnds, RunRaises, Wake, Go
    <2>3. todo' = todo \/ todo' = [todo EXCEPT ![l] = <<>>]
      BY <1>2 DEF Check, ScanRaises, NextTask, RunEnds, RunRaises, Wake
    <2>4. Live' \subseteq Live
      BY <2>1, <2>2 DEF Live
    <2>5. \A m \in Loops : Range(todo'[m]) \subseteq Range(todo[m])
      BY <2>3, EmptyFacts
    <2> QED
      BY <2>1, <2>4, <2>5, ListsKeep
  <1>3. ASSUME NEW l \in Loops, Scan(l) PROVE ListsDue'
    <2>1. PICK n \in 0..Len(tasks) : \E s \in [1..n -> Range(tasks)] :
             IsDueList(s) /\ todo' = [todo EXCEPT ![l] = s]
      BY <1>3 DEF Scan
    <2>2. PICK s \in [1..n -> Range(tasks)] :
             IsDueList(s) /\ todo' = [todo EXCEPT ![l] = s]
      BY <2>1
    <2>3. \A t \in Range(s) : due[t] = "due"
      BY <2>2, DueListFacts
    <2>4. UNCHANGED <<tasks, due, overtaken>> /\ Live' = Live
      BY <1>3, <1>0 DEF Scan, Go, Live, historyVars
    <2> QED
      BY <2>2, <2>3, <2>4 DEF ListsDue
  <1>4. ASSUME NEW l \in Loops, Record(l) PROVE ListsDue'
    <2>1. /\ todo[l] # <<>> /\ l \in Live
          /\ todo' = [todo EXCEPT ![l] = Tail(todo[l])]
          /\ UNCHANGED <<tasks, overtaken>>
      BY <1>4 DEF Record, ListsMatch, Live
    <2>2. /\ Range(Tail(todo[l])) \subseteq Range(todo[l])
          /\ Head(todo[l]) \notin Range(Tail(todo[l]))
      BY <2>1, TailFacts DEF IdsKnown
    <2>3. \A m \in Loops \ {l} : at[m] = "off" /\ todo[m] = <<>>
      BY <2>1 DEF ListsDue, ListsMatch, Live
    <2>4. Live' = Live
      BY <1>4, <1>0 DEF Record, ThenSave, Go, Live
    <2>5. \A t \in All \ {Head(todo[l])} : due'[t] = due[t]
      BY <1>4 DEF Record
    <2>6. \A m \in Loops : \A t \in Range(todo'[m]) :
             t \in Range(todo[m]) /\ t # Head(todo[l])
      BY <2>1, <2>2, <2>3, EmptyFacts
    <2>7. \A m \in Loops : Range(todo[m]) \subseteq All
      BY LenProperties, ElementOfSeq DEF Range
    <2> QED
      BY <2>1, <2>4, <2>5, <2>6, <2>7 DEF ListsDue
  <1>5. ASSUME NEW th \in Threads, SaveStep(th) PROVE ListsDue'
    <2>1. UNCHANGED <<tasks, due, overtaken>> /\ at[th] # "off"
      BY <1>5 DEF SaveStep, Snap, SnapRaises, Write, historyVars
    <2>2. \A m \in Loops \ {th} : at'[m] = at[m]
      BY <1>5, <1>0 DEF SaveStep, Snap, SnapRaises, Write, Go
    <2>3. todo' = todo \/ (th \in Loops /\ todo' = [todo EXCEPT ![th] = <<>>])
      BY <1>5 DEF SaveStep, Snap, SnapRaises, Write
    <2>4. Live' \subseteq Live
      BY <2>1, <2>2 DEF Live
    <2>5. \A m \in Loops : Range(todo'[m]) \subseteq Range(todo[m])
      BY <2>3, EmptyFacts
    <2> QED
      BY <2>1, <2>4, <2>5, ListsKeep
  <1>6. ASSUME NEW c \in Clients, NEW t \in Tasks, AddTask(c, t) PROVE ListsDue'
    <2>1. /\ Range(tasks') = Range(tasks) \cup {t}
          /\ t \notin Known
      BY <1>6, AppendFacts, SchedulerAssumption DEF AddTask, All, Known
    <2>2. /\ todo' = todo /\ overtaken' = overtaken /\ Live' = Live
          /\ \A u \in All \ {t} : due'[u] = due[u]
      BY <1>6, <1>0 DEF AddTask, ThenSave, Go, Live
    <2>3. \A l \in Loops : \A u \in Range(todo[l]) : u \in Known /\ u # t /\ u \in All
      BY <2>1 DEF IdsKnown, Known, All
    <2> QED
      BY <2>1, <2>2, <2>3 DEF ListsDue
  <1>7. ASSUME NEW c \in Clients, NEW t \in All, RemoveTask(c, t) PROVE ListsDue'
    <2>1. Range(tasks') = Range(tasks) \ {t}
      BY <1>7, RemoveAtFacts DEF RemoveTask
    <2>2. /\ todo' = todo /\ overtaken' = overtaken /\ Live' = Live
          /\ \A u \in All \ {t} : due'[u] = due[u]
      BY <1>7, <1>0 DEF RemoveTask, ThenSave, Go, Live
    <2>3. \A l \in Loops : Range(todo[l]) \subseteq All
      BY DEF IdsKnown, Known, All
    <2> QED
      BY <2>1, <2>2, <2>3 DEF ListsDue
  <1>8. ASSUME NEW c \in Clients \cup {"boot"}, StartSet(c) PROVE ListsDue'
    <2>1. PICK l \in Loops \ Live :
             at' = [at EXCEPT ![l] = "check", ![c] = IF c = "boot" THEN "evolve" ELSE "off"]
      BY <1>8 DEF StartSet
    <2>2. Live = {} /\ UNCHANGED <<tasks, due, todo>>
      BY <1>8 DEF StartSet
    <2>3. Live' = {l}
      BY <1>0, <2>1, <2>2 DEF Live
    <2> QED
      BY <1>8, <2>2, <2>3 DEF ListsDue, StartSet
  <1>9. ASSUME (\E c \in Clients : StartTest(c) \/ Stop(c)) \/ BootStart PROVE ListsDue'
    <2>1. UNCHANGED <<tasks, due, todo, overtaken>> /\ Live' = Live
      BY <1>9, <1>0 DEF StartTest, Stop, BootStart, Go, Live, threadVars, historyVars
    <2> QED
      BY <2>1 DEF ListsDue
  <1>10. ASSUME Evolve PROVE ListsDue'
    <2>1. /\ UNCHANGED <<tasks, todo, overtaken>> /\ Live' = Live
          /\ \A u \in All \ {Evolution} : due'[u] = due[u]
          /\ due' = due \/ Evolution \notin Range(tasks)
      BY <1>10, <1>0 DEF Evolve, ThenSave, Go, Live, BootSees
    <2>2. \A l \in Loops : Range(todo[l]) \subseteq All
      BY DEF IdsKnown, Known, All
    <2> QED
      BY <2>1, <2>2 DEF ListsDue
  <1>11. ASSUME Restart PROVE ListsDue'
    BY <1>11, <1>0, EmptyFacts DEF Restart, Live, ListsDue
  <1> QED
    BY <1>1, <1>2, <1>3, <1>4, <1>5, <1>6, <1>7, <1>8, <1>9, <1>10, <1>11
    DEF Next, LoopStep

\* What a loop runs is due when it runs it, or was removed meanwhile, unless a
\* start() overtook a loop that had not yet noticed the stop().
THEOREM RunIsDueCorrect == Spec => []RunIsDue
  <1>1. Init => RunInv
    BY EmptyFacts, SchedulerAssumption
    DEF Init, RunInv, BootSees, ListsDue, Live, Threads
  <1>2. TypeInv /\ RunInv /\ [Next]_vars => RunInv'
    <2>1. CASE UNCHANGED vars
      BY <2>1 DEF vars, threadVars, historyVars, RunInv, BootSees, ListsDue, Live
    <2> QED
      BY <2>1, BootStep, ListsDueStep DEF RunInv
  <1>3. TypeInv /\ RunInv => RunIsDue
    <2> SUFFICES ASSUME TypeInv, RunInv, ~overtaken, NEW l \in Loops, at[l] = "run"
                 PROVE  due[Head(todo[l])] = "due" \/ Head(todo[l]) \notin Range(tasks)
      BY DEF RunIsDue
    <2>1. todo[l] \in Seq(All) /\ todo[l] # <<>>
      BY DEF TypeInv, TypeOK, ListsMatch
    <2>2. Head(todo[l]) \in Range(todo[l])
      BY <2>1, TailFacts
    <2> QED
      BY <2>2 DEF RunInv, ListsDue
  <1> QED
    BY <1>1, <1>2, <1>3, TypeInvariant, PTL DEF Spec

-----------------------------------------------------------------------------

\* As long as no two saves met: at most one thread is in _save(), over the
\* server's dict, and what it is about to write is what the dict holds.
SaveInv ==
    /\ \A th, other \in Saving : th = other
    /\ "boot" \notin Saving
    /\ Saving = {} => file = Content(tasks)
    /\ \A th \in Threads : at[th] = "write" => file = Torn /\ data[th] = Content(tasks)

LEMMA SaveStepKeeps ==
    ASSUME TypeInv, clean => SaveInv, Next PROVE clean' => SaveInv'
  <1> SUFFICES ASSUME clean' PROVE SaveInv'
    OBVIOUS
  <1> USE DEF TypeInv, TypeOK
  <1>0. \A l \in Loops : l \in Threads /\ l \notin Clients /\ l # "boot"
    BY SchedulerAssumption DEF Threads
  <1>1. ASSUME NEW t \in All, Elapse(t) PROVE SaveInv'
    <2>1. /\ UNCHANGED <<tasks, file, data, at, clean>>
          /\ \A u \in All : due'[u] = "never" <=> due[u] = "never"
      BY <1>1 DEF Elapse, threadVars
    <2>2. Range(tasks) \subseteq All
      BY LenProperties, ElementOfSeq DEF Range
    <2>3. Content(tasks)' = Content(tasks)
      BY <2>1, <2>2 DEF Content
    <2> QED
      BY <2>1, <2>3 DEF SaveInv, Saving
  <1>2. ASSUME NEW l \in Loops, LoopStep(l), ~Record(l) PROVE SaveInv'
    <2>1. /\ UNCHANGED <<tasks, due, file, data, clean>>
          /\ \A th \in Threads \ {l} : at'[th] = at[th]
          /\ at[l] \notin {"snap", "write"} /\ at'[l] \notin {"snap", "write"}
      BY <1>2, <1>0 DEF LoopStep, Check, Scan, ScanRaises, NextTask, RunEnds, RunRaises,
           Wake, Go, historyVars
    <2>2. Saving' = Saving /\ Content(tasks)' = Content(tasks)
      BY <2>1 DEF Saving, Content
    <2> QED
      BY <2>1, <2>2, <1>0 DEF SaveInv
  <1>3. ASSUME NEW th \in Threads, ThenSave(th), UNCHANGED <<file, data>>,
               at[th] \notin {"snap", "write"}
        PROVE SaveInv'
    <2>1. Saving = {} /\ th # "boot" /\ at' = [at EXCEPT ![th] = "snap"]
      BY <1>3 DEF ThenSave, Go
    <2>2. Saving' = {th} /\ \A other \in Threads : at'[other] # "write"
      BY <2>1 DEF Saving
    <2> QED
      BY <2>1, <2>2 DEF SaveInv
  <1>4. ASSUME NEW l \in Loops, Record(l) PROVE SaveInv'
    <2>1. CASE ThenSave(l)
      BY <1>0, <1>3, <1>4, <2>1 DEF Record
    <2>2. CASE ~ThenSave(l)
      <3>1. /\ UNCHANGED <<tasks, due, file, data, clean>>
            /\ \A th \in Threads \ {l} : at'[th] = at[th]
            /\ at[l] \notin {"snap", "write"} /\ at'[l] \notin {"snap", "write"}
        BY <1>4, <2>2, <1>0 DEF Record, Go
      <3>2. Saving' = Saving /\ Content(tasks)' = Content(tasks)
        BY <3>1 DEF Saving, Content
      <3> QED
        BY <3>1, <3>2, <1>0 DEF SaveInv
    <2> QED
      BY <2>1, <2>2
  <1>5. ASSUME NEW th \in Threads, Snap(th) PROVE SaveInv'
    <2>1. /\ UNCHANGED <<tasks, due, clean>> /\ file' = Torn
          /\ at[th] = "snap" /\ at' = [at EXCEPT ![th] = "write"]
          /\ data' = [data EXCEPT ![th] = Content(Dict(th))]
      BY <1>5 DEF Snap, Go, historyVars
    <2>2. th \in Saving /\ th # "boot" /\ Dict(th) = tasks
      BY <2>1 DEF Saving, SaveInv, Dict
    <2>3. Saving' = Saving /\ Content(tasks)' = Content(tasks)
      BY <2>1 DEF Saving, Content
    <2>4. \A other \in Threads : at'[other] = "write" => other = th
      BY <2>1, <2>2 DEF SaveInv, Saving
    <2> QED
      BY <2>1, <2>2, <2>3, <2>4 DEF SaveInv
  <1>6. ASSUME NEW th \in Threads, SnapRaises(th) PROVE SaveInv'
    BY <1>6 DEF SnapRaises
  <1>7. ASSUME NEW th \in Threads, Write(th) PROVE SaveInv'
    <2>1. /\ UNCHANGED <<tasks, due, clean>>
          /\ at[th] = "write" /\ at' = [at EXCEPT ![th] = AfterSave(th)]
      BY <1>7 DEF Write, Go, historyVars
    <2>2. Saving = {th} /\ file = Torn /\ data[th] = Content(tasks)
      BY <2>1 DEF Saving, SaveInv
    <2>3. file' = Content(tasks)
      BY <1>7, <2>2 DEF Write
    <2>4. Saving' = {} /\ Content(tasks)' = Content(tasks)
      BY <2>1, <2>2 DEF Saving, Content, AfterSave
    <2> QED
      BY <2>3, <2>4 DEF SaveInv, Saving
  <1>8. ASSUME NEW c \in Clients,
               \/ \E t \in Tasks : AddTask(c, t)
               \/ \E t \in All : RemoveTask(c, t)
        PROVE SaveInv'
    BY <1>3, <1>8 DEF AddTask, RemoveTask, Threads
  <1>9. ASSUME \/ \E c \in Clients : StartTest(c) \/ Stop(c)
               \/ \E c \in Clients \cup {"boot"} : StartSet(c)
               \/ BootStart
        PROVE SaveInv'
    <2>1. UNCHANGED <<tasks, due, file, data, clean>>
      BY <1>9 DEF StartTest, Stop, StartSet, BootStart, threadVars, historyVars
    <2>2. \A th \in Threads : 
             \/ at'[th] = at[th]
             \/ at[th] \notin {"snap", "write"} /\ at'[th] \notin {"snap", "write"}
      BY <1>9, <1>0 DEF StartTest, Stop, StartSet, BootStart, Go, Live, Threads, threadVars
    <2>3. Saving' = Saving /\ Content(tasks)' = Content(tasks)
      BY <2>1, <2>2 DEF Saving, Content
    <2> QED
      BY <2>1, <2>2, <2>3 DEF SaveInv
  <1>10. ASSUME Evolve PROVE SaveInv'
    <2>1. /\ UNCHANGED <<tasks, due, file, data, clean>>
          /\ at["boot"] = "evolve" /\ at' = [at EXCEPT !["boot"] = "off"]
      BY <1>10 DEF Evolve, ThenSave, Go
    <2>2. Saving' = Saving /\ Content(tasks)' = Content(tasks)
      BY <2>1 DEF Saving, Content
    <2> QED
      BY <2>1, <2>2 DEF SaveInv
  <1>11. ASSUME Restart PROVE SaveInv'
    <2>1. file # Torn /\ Loaded = file /\ file \in Contents /\ Sound(file)
      BY <1>11 DEF Restart, Loaded, IdsKnown
    <2>2. tasks' = file.ids /\ file' = file
      BY <1>11, <2>1 DEF Restart
    <2>3. \A t \in Range(file.ids) : t \in All /\ (due'[t] = "never" <=> t \in file.never)
      <3>1. Range(file.ids) \subseteq All
        BY <2>1, LenProperties, ElementOfSeq DEF Contents, Range
      <3> QED
        BY <1>11, <2>1, <3>1 DEF Restart
    <2>4. {t \in Range(file.ids) : due'[t] = "never"} = file.never
      BY <2>1, <2>3 DEF Sound
    <2>5. file = Content(tasks)'
      BY <2>1, <2>2, <2>4 DEF Contents, Content
    <2>6. Saving' = {} /\ \A th \in Threads : at'[th] # "write"
      BY <1>11 DEF Restart, Saving
    <2> QED
      BY <2>2, <2>5, <2>6 DEF SaveInv
  <1> QED
    BY <1>1, <1>2, <1>4, <1>5, <1>6, <1>7, <1>8, <1>9, <1>10, <1>11
    DEF Next, SaveStep

\* At rest the file is what the dict is, unless saves met, one failed, or the
\* boot thread wrote the engine's view of it.
THEOREM SavedAtRestCorrect == Spec => []SavedAtRest
  <1>1. Init => (clean => SaveInv)
    <2> SUFFICES ASSUME Init PROVE SaveInv
      OBVIOUS
    <2>1. Saving = {} /\ \A th \in Threads : at[th] # "write"
      BY DEF Init, Saving
    <2>2. Content(tasks) = Empty
      BY EmptyFacts DEF Init, Content, Empty
    <2> QED
      BY <2>1, <2>2 DEF Init, SaveInv
  <1>2. TypeInv /\ (clean => SaveInv) /\ [Next]_vars => (clean => SaveInv)'
    <2>1. CASE UNCHANGED vars
      BY <2>1 DEF vars, threadVars, historyVars, SaveInv, Saving, Content
    <2> QED
      BY <2>1, SaveStepKeeps
  <1>3. (clean => SaveInv) => SavedAtRest
    BY DEF SaveInv, SavedAtRest
  <1> QED
    BY <1>1, <1>2, <1>3, TypeInvariant, PTL DEF Spec

-----------------------------------------------------------------------------

\* A process that ends while it saves nothing comes back with the tasks it had,
\* in their order, and has called none off; what was overdue is scheduled anew.
RestartRestores ==
    [][Restart /\ clean /\ Saving = {} =>
          /\ tasks' = tasks
          /\ \A t \in Range(tasks) : due'[t] = "never" <=> due[t] = "never"]_vars

\* What _save() leaves in the file is what _load() needs.
THEOREM RestartCorrect == Spec => RestartRestores
  <1>1. TypeInv /\ SavedAtRest /\ [Next]_vars =>
          [Restart /\ clean /\ Saving = {} =>
             /\ tasks' = tasks
             /\ \A t \in Range(tasks) : due'[t] = "never" <=> due[t] = "never"]_vars
    <2> SUFFICES ASSUME TypeInv, SavedAtRest, Restart, clean, Saving = {}
                 PROVE  /\ tasks' = tasks
                        /\ \A t \in Range(tasks) : due'[t] = "never" <=> due[t] = "never"
      OBVIOUS
    <2>1. tasks \in Seq(All) /\ IsInjective(tasks) /\ Range(tasks) \subseteq Known
      BY DEF TypeInv, TypeOK, IdsKnown
    <2>2. file = Content(tasks) /\ file # Torn
      BY <2>1, ContentFacts, TornIsNoContent DEF SavedAtRest
    <2>3. Loaded.ids = tasks /\ Loaded.never = {t \in Range(tasks) : due[t] = "never"}
      BY <2>2 DEF Loaded, Content
    <2>4. Range(tasks) \subseteq All
      BY <2>1, LenProperties, ElementOfSeq DEF Range
    <2>5. tasks' = tasks
      BY <2>3 DEF Restart
    <2>6. ASSUME NEW t \in Range(tasks)
          PROVE  due'[t] = "never" <=> due[t] = "never"
      BY <2>3, <2>4, <2>6 DEF Restart
    <2> QED
      BY <2>5, <2>6
  <1> QED
    BY <1>1, TypeInvariant, SavedAtRestCorrect, PTL DEF Spec, RestartRestores
=============================================================================
